SPECIFICATION Spec
CONSTANTS
    Keys <- MCKeys
    Batches <- MCPut
    ReadSets <- MCPoint
    Cap = 1
    L0Threshold = 1
    L0Stop = 2
    LevelLimit = 1
    TargetSize = 1
    MaxLevel = 2
    SyncEachWrite = FALSE
    TornAppends = FALSE
    LateErrors = FALSE
    MaxWrites = 3
    MaxFaults = 0
    MaxCrashes = 0
    MaxManual = 1
INVARIANTS NeverStale 
PROPERTIES ReadsAtomic SyncCovers
CHECK_DEADLOCK FALSE
