SPECIFICATION Spec
CONSTANTS
    NumTasks = 2
    Finding = {1}
    Id <- MCId
    Prior = {}
    BatchSize = 2
    MaxBatch = 1
    Batching <- MCBatching
    Parallel = 1
    FocusedTasks = TRUE
    Mishaps = 1
    WriteFaults = FALSE
INVARIANT
    ChildrenResume
