CONSTANTS
    MaxBatches = 2
    Uploads = {u1}
    External = External
    NoTree = NoTree
    BatchSize = 1
    UploadSize = 1
    Limit = 1
    MaxCrashes = 1
    RemovalMayFail = FALSE
    PersistMayFail = FALSE

SPECIFICATION Spec

PROPERTIES
    NewestSuccessKept
