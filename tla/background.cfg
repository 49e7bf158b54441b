SPECIFICATION Spec
CONSTANTS
    Workers = {p1, p2}
    Cap = 1
    Threshold = 1
    Stop = 2
    Found = {0, 2}
    MaxWals = 3
    MaxExtras = 1
INVARIANTS QuiescedSilent OneAtATime CompactionComes BacklogBounded
PROPERTIES EveryWriteReturns ShutdownReturns
CHECK_DEADLOCK FALSE
