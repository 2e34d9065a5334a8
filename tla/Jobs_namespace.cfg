SPECIFICATION JobsSpec
CONSTANTS
    Repo = {r1}
    NoRepo = none
    Handler = {h1}
    CronJob = {}
    Worker = {1, 2}
    MaxConcurrent = 2
    Kube = {kube1, kube2}
    Docker = {docker}
    Noop = {noop}
    Namespace <- SharedNamespace
    Daemon = daemon
    Object = {1, 2}
    NoObject = 0
    NoExecutor = noexec
ACTION_CONSTRAINT LowestFree
INVARIANT OneLiveRun
CHECK_DEADLOCK FALSE
