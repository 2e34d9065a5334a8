SPECIFICATION CompetingSpec
CONSTANTS
    Repo = {r1, r2, r3}
    NoRepo = none
    Handler = {h1}
    CronJob = {}
    Worker = {1, 2, 3, 4}
    MaxConcurrent = 1
PROPERTIES EveryEventIsServed
CHECK_DEADLOCK FALSE
