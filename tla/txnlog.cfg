SPECIFICATION Spec
CONSTANTS
    t1 = t1  t2 = t2  t3 = t3
    users = users  orders = orders  v1 = v1  v2 = v2
    Absent = Absent
    Txns <- MCTxns
    Tables <- MCTables
    Indexed <- MCIndexed
    Values <- MCValues
    Writes <- MCWrites
    Threshold = 2
    TornAppends = TRUE
    MaxCrashes = 2
    MaxFaults = 2
    MaxCheckpoints = 1
    MaxDdl = 2
    MaxEvents = 3
INVARIANTS RowsSurvive  
SYMMETRY MCSymmetry
CHECK_DEADLOCK FALSE
