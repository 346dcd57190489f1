CONSTANTS
    MaxBatches = 2
    Uploads = {u1}
    External = External
    NoTree = NoTree
    BatchSize = 1
    UploadSize = 1
    Limit = 2
    MaxCrashes = 0
    RemovalMayFail = TRUE
    PersistMayFail = TRUE

SPECIFICATION FairSpec

PROPERTIES
    TasksComplete
    LockReleased
