CONSTANTS
    f1 = f1
    f2 = f2
    NoFile = NoFile
    NoRequest = NoRequest
    Files <- MCFiles
    Size <- MCSize
    MaxChunk = 2
    Requests = {r1, r2, r3}

SPECIFICATION FairSpec

INVARIANTS
    AcceptedBytesInOrder
    UsedUploadComplete

PROPERTIES
    FinishedFilesFrozen
    ImplementsContract
    RequestsAnswered

\* A cancelled upload, with every request answered, is the end.
CHECK_DEADLOCK FALSE
