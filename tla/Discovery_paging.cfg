SPECIFICATION FairSpec
CONSTANTS
    Repo = {1, 2, 3, 4, 5}
    Groups = 2
    InGroup <- Overlapping
    PerPage = 2
    MaxChanges = 2
    MaxFailures = 1
INVARIANT TypeOK
PROPERTIES MissesBoundedByRemovals EveryRepoIsEnqueued
CHECK_DEADLOCK FALSE
