SPECIFICATION RedisSpec
CONSTANTS
    Repo = {r1}
    NoRepo = none
    Handler = {h1}
    CronJob = {recovery}
    Recovery = recovery
    Worker = {w1, w2, w3}
    MaxConcurrent = 2
    Pipeline = {i1, i2}
    NoPipeline = nopipe
    TTL = 2
    RunTimeout = 1
    Failing = {}
    LongRuns = FALSE
    LongQueue = TRUE
    LongOutage = FALSE
    FastPoll = FALSE
    Stops = FALSE
    MaxCrashes = 0
INVARIANT OneRunInFlight
CHECK_DEADLOCK FALSE
