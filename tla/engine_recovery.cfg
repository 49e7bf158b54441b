SPECIFICATION Spec
CONSTANTS
    Keys <- MCKeys
    Batches <- MCBatches
    ReadSets <- MCNoReads
    Cap = 1
    L0Threshold = 1
    L0Stop = 2
    LevelLimit = 1
    TargetSize = 1
    MaxLevel = 2
    SyncEachWrite = TRUE
    TornAppends = FALSE
    LateErrors = FALSE
    MaxWrites = 3
    MaxFaults = 1
    MaxCrashes = 1
    MaxManual = 0
INVARIANTS FilesSound
PROPERTIES RefinesKV
CHECK_DEADLOCK FALSE
