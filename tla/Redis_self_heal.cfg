SPECIFICATION RedisFairSpec
CONSTANTS
    Repo = {r1}
    NoRepo = none
    Handler = {h1}
    CronJob = {recovery}
    Recovery = recovery
    Worker = {w1, w2}
    MaxConcurrent = 2
    Pipeline = {i1}
    NoPipeline = nopipe
    TTL = 2
    RunTimeout = 1
    Failing = {}
    LongRuns = FALSE
    LongQueue = FALSE
    LongOutage = FALSE
    FastPoll = FALSE
    Stops = FALSE
    MaxCrashes = 1
PROPERTY StaleEntriesHeal
CHECK_DEADLOCK FALSE
