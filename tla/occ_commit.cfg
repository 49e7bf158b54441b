SPECIFICATION Spec
CONSTANTS
    s1 = s1
    s2 = s2
    c1 = c1
    k1 = k1
    k2 = k2
    k3 = k3
    Txns <- MCTxns
    Registered <- MCRegistered
    Keys <- MCKeys
    MayRead <- MCRead
    MayWrite <- MCWrite
INVARIANTS TypeOK HistoryCovers HistoryBounded
PROPERTIES ConsistentCommit
CHECK_DEADLOCK FALSE
