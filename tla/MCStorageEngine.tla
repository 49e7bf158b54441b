-------------------------- MODULE MCStorageEngine --------------------------
(* Small instances of StorageEngine for TLC. *)
EXTENDS StorageEngine

B(x, y) == [k \in {1, 2} |-> IF k = 1 THEN x ELSE y]

MCKeys    == {1, 2}
MCBatches == {B("put", "put"), B("del", "none")}
MCPut     == {B("put", "put")}
MCPoint   == {{1}}
MCNoReads == {}
=============================================================================
