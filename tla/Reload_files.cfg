SPECIFICATION FairSpec
CONSTANTS
    Repo <- MCRepo
    ValidPattern <- MCValidPattern
    Matches <- MCMatches
    Environ = {"TOKEN"}
    File <- MCFile
    NoFile = nofile
INVARIANTS TypeOK RoutesTotal OneFileInForce ReloadIsRestart ReferencesResolve
PROPERTY LastReloadWins
CHECK_DEADLOCK FALSE
