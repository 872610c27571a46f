SPECIFICATION Spec
CONSTANTS
    NumTasks = 1
    Finding = {1, 2, 3}
    Id <- MCId
    Prior = {2}
    BatchSize = 2
    MaxBatch = 2
    Batching <- MCBatching
    Parallel = 1
    FocusedTasks = FALSE
    Mishaps = 2
    WriteFaults = FALSE
INVARIANTS
    TypeOK
    PublishedOnlyVerified
