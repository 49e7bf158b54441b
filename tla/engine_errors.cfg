SPECIFICATION Spec
CONSTANTS
    Keys <- MCKeys
    Batches <- MCBatches
    ReadSets <- MCNoReads
    Cap = 1
    L0Threshold = 1
    L0Stop = 2
    LevelLimit = 1
    TargetSize = 1
    MaxLevel = 2
    SyncEachWrite = TRUE
    TornAppends = TRUE
    LateErrors = TRUE
    MaxWrites = 2
    MaxFaults = 2
    MaxCrashes = 0
    MaxManual = 1
PROPERTIES RefinesKV
CHECK_DEADLOCK FALSE
