------------------------------ MODULE MCTxnLog ------------------------------
(* Small instances of TxnLog for TLC: users has an index, orders has none. *)
EXTENDS TxnLog, TLC

CONSTANTS t1, t2, t3, users, orders, v1, v2

MCTxns == {t1, t2, t3}
MCSymmetry == Permutations(MCTxns)
MCTables == {users, orders}
MCIndexed == {users}
MCValues == {v1, v2}
MCWrites == {users :> v1, users :> v2 @@ orders :> v1, users :> Absent @@ orders :> v2}
=============================================================================
