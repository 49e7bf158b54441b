SPECIFICATION Spec
CONSTANTS
    t1 = t1  t2 = t2  d1 = d1  d2 = d2  d3 = d3  d4 = d4  d5 = d5
    users = users  orders = orders  v1 = v1  v2 = v2  Absent = Absent
    Txns <- MCTxns
    Tables <- MCTables
    Value <- MCValue
    Uses <- MCDouble
    Draws <- MCDraws
    Stmts <- MCStmts
    Kind <- MCKinds
    On <- MCOn
    Checkpoints = TRUE
    MaxCrashes = 1
    MaxFaults = 0
INVARIANTS IndexMatches CatalogDurable
PROPERTIES Drained
CHECK_DEADLOCK FALSE
