SPECIFICATION RedisFairSpec
CONSTANTS
    Repo = {r1}
    NoRepo = none
    Handler = {h1}
    CronJob = {recovery}
    Recovery = recovery
    Worker = {1, 2}
    MaxConcurrent = 1
    Pipeline = {1}
    NoPipeline = 0
    TTL = 2
    RunTimeout = 1
    Failing = {"queue", "start", "finish", "trigger", "poll", "delete"}
    LongRuns = TRUE
    LongQueue = TRUE
    LongOutage = TRUE
    FastPoll = TRUE
    Stops = TRUE
    MaxCrashes = 0
ACTION_CONSTRAINT LowestFree
INVARIANT SlotsBounded
PROPERTY StaleEntriesHealWhenQuiet
CHECK_DEADLOCK FALSE
