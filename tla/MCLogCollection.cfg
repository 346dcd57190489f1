CONSTANTS
    MaxFiles = 3
    Workers = 2
    Namings <- MCNamings
    LogMayFail = TRUE
    MaxSources = 2
    MaxRules = 2

SPECIFICATION FairSpec

INVARIANTS
    TransfersInOrder
    ReadyIsWhole
    QueriesAreWhole

PROPERTIES
    BatchEnds

\* The script ends.
CHECK_DEADLOCK FALSE
