SPECIFICATION FairSpec
CONSTANTS
    Repo <- MCRepo
    ValidPattern <- MCValidPattern
    Matches <- MCMatches
    Environ = {"TOKEN"}
    File <- MCFile
    NoFile = nofile
INVARIANT ListenChangeRefused
CHECK_DEADLOCK FALSE
