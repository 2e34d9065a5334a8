SPECIFICATION Spec
CONSTANTS
    Repo = {r1, r2}
    NoRepo = none
    Handler = {h1}
    CronJob = {}
    Worker = {w1, w2, w3, w4, w5}
    MaxConcurrent = 1
SYMMETRY Symmetry
INVARIANTS SlotsBounded CleanShutdown
PROPERTY ImplementsRepoRuns
CHECK_DEADLOCK FALSE
