CONSTANTS
    MaxBatches = 3
    Uploads = {u1}
    External = External
    NoTree = NoTree
    BatchSize = 1
    UploadSize = 1
    Limit = 2
    MaxCrashes = 1
    RemovalMayFail = FALSE
    PersistMayFail = FALSE

SPECIFICATION Spec

INVARIANTS
    TaskListIsTrue
    StorageSettles
    DurableOutcome

PROPERTIES
    KeptInputs
    RetentionSpares
