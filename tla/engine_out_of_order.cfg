SPECIFICATION Spec
CONSTANTS
    Keys <- MCKeys
    Batches <- MCBatches
    ReadSets <- MCNoReads
    Cap = 2
    L0Threshold = 1
    L0Stop = 2
    LevelLimit = 1
    TargetSize = 1
    MaxLevel = 2
    SyncEachWrite = TRUE
    TornAppends = FALSE
    LateErrors = FALSE
    MaxWrites = 2
    MaxFaults = 0
    MaxCrashes = 0
    MaxManual = 0
INVARIANTS NeverStale
CHECK_DEADLOCK FALSE
