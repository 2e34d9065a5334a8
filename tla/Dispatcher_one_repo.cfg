SPECIFICATION FairSpec
CONSTANTS
    Repo = {r1}
    NoRepo = none
    Handler = {h1}
    CronJob = {c1}
    Worker = {1, 2, 3, 4}
    MaxConcurrent = 1
ACTION_CONSTRAINT LowestFree
INVARIANTS TypeOK MutualExclusion LockHasOneOwner NoLostTrigger IndInv
PROPERTIES ImplementsRepoRuns EveryEventIsServed DisabledRepoGoesQuiet
CHECK_DEADLOCK FALSE
