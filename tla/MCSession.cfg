CONSTANTS
    Clients = {c1, c2}
    Watchers = {c1}
    MaxRequests = 2
    MaxRuns = 2
    MaxLines = 2

SPECIFICATION FairSpec

INVARIANTS
    ShownInOrder
    NoStaleEvents

PROPERTIES
    NoChildLost
    EndIsShown
