SPECIFICATION RedisSpec
CONSTANTS
    Repo = {r1}
    NoRepo = none
    Handler = {h1, h2}
    CronJob = {recovery}
    Recovery = recovery
    Worker = {w1, w2, w3}
    MaxConcurrent = 2
    Pipeline = {i1, i2, i3}
    NoPipeline = nopipe
    TTL = 2
    RunTimeout = 1
    Failing = {"queue", "finish", "save", "adopt", "load", "snapshot"}
    LongRuns = FALSE
    LongQueue = FALSE
    LongOutage = TRUE
    FastPoll = FALSE
    Stops = FALSE
    MaxCrashes = 2
SYMMETRY Symmetry
INVARIANTS Favourable RedisInv RedisSafe RedisTypeOK OneRunInFlight LiveRunIsLocked
CHECK_DEADLOCK FALSE
