CONSTANTS
    Consoles = {c1}
    Names = {"east", "west"}
    Layouts <- MCLayouts
    MaxRevision = 2
    MaxOps = 2
SPECIFICATION Spec
INVARIANTS InheritedIsSame ResultIsTrue NothingLeftOpen
PROPERTY HistoryIsOfARun
CHECK_DEADLOCK FALSE
