SPECIFICATION JobsSpec
CONSTANTS
    Repo = {r1}
    NoRepo = none
    Handler = {h1}
    CronJob = {}
    Worker = {1, 2}
    MaxConcurrent = 2
    Kube = {kube}
    Docker = {docker}
    Noop = {noop}
    Namespace <- NamespaceOf
    Daemon = daemon
    Object = {1, 2}
    NoObject = 0
    NoExecutor = noexec
ACTION_CONSTRAINT LowestFree
INVARIANTS JobsInv ReposInOrder JobsTypeOK OneLiveRun LiveRunIsLocked ContainersAreRemoved
CHECK_DEADLOCK FALSE
