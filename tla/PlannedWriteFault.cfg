SPECIFICATION Spec
CONSTANTS
    NumTasks = 1
    Finding = {1}
    Id <- MCId
    Prior = {}
    BatchSize = 2
    MaxBatch = 1
    Batching <- MCBatching
    Parallel = 1
    FocusedTasks = FALSE
    Mishaps = 1
    WriteFaults = TRUE
INVARIANT
    ResumeAccepted
