SPECIFICATION Spec
CONSTANTS
    NumTasks = 2
    Finding = {1}
    Id <- MCId
    Prior = {}
    BatchSize = 2
    MaxBatch = 1
    Batching <- MCBatching
    Parallel = 2
    FocusedTasks = TRUE
    Mishaps = 2
    WriteFaults = TRUE
INVARIANT
    OneSuccessPerStage
PROPERTY
    ReceiptsImmutable
