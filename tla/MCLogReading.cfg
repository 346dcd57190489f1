CONSTANTS
    MaxLines = 5
    MaxContext = 1
    MaxLimit = 2

SPECIFICATION ReadingSpec

INVARIANTS
    BlocksFollowRules
    ReadingsAreWhole

\* The reader has seen everything.
CHECK_DEADLOCK FALSE
