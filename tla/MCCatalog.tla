----------------------------- MODULE MCCatalog -----------------------------
(* Small instances of Catalog for TLC. *)
EXTENDS Catalog, TLC

CONSTANTS t1, t2, d1, d2, d3, d4, d5, users, orders, v1, v2

MCTxns == {t1, t2}
MCTables == {users, orders}
MCValue == t1 :> v1 @@ t2 :> v2

\* A transaction of two tables beside one of a single table that draws a sequence
\* value; and two of a single table.
MCDouble == t1 :> <<users, orders>> @@ t2 :> <<users>>
MCSingle == t1 :> <<users>> @@ t2 :> <<users>>
MCDraws == {t2}
MCNoDraws == {}

\* Every kind of statement, on one table.
MCStmts == {d1, d2, d3, d4, d5}
MCKinds == d1 :> "create_index" @@ d2 :> "drop_index" @@ d3 :> "drop" @@ d4 :> "create"
           @@ d5 :> "alter"
MCOn == [d \in MCStmts |-> users]

\* An index made twice, and dropped.
MCIndexStmts == {d1, d2, d3}
MCIndexKinds == d1 :> "create_index" @@ d2 :> "drop_index" @@ d3 :> "create_index"
MCIndexOn == [d \in MCIndexStmts |-> users]
=============================================================================
