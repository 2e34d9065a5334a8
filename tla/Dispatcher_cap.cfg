SPECIFICATION FewAdoptedSpec
CONSTANTS
    Repo = {r1, r2}
    NoRepo = none
    Handler = {h1}
    CronJob = {}
    Worker = {w1, w2, w3}
    MaxConcurrent = 1
INVARIANT GlobalCap
CHECK_DEADLOCK FALSE
