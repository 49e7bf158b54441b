------------------------------- MODULE KVStore -------------------------------
(***************************************************************************)
(* What one storage engine promises its callers: a map from keys to the    *)
(* write that produced the current value, changed only by committing a     *)
(* batch as a whole.  A batch that was logged but not acknowledged may     *)
(* still take effect, as a whole and never over a newer write, when the    *)
(* process crashes.  Flushing, compaction and recovery do not appear: an   *)
(* implementation must make them invisible.                                *)
(***************************************************************************)
EXTENDS Integers, FiniteSets, FiniteSetsExt

CONSTANTS Keys,       \* the keys of the store
          Batches,    \* the batches clients submit, [Keys -> {"put","del","none"}]
          MaxWrites   \* bound on the number of writes

VARIABLES kv,         \* key |-> number of the write whose value it holds, 0: absent
          ver,        \* key |-> number of the last committed write that touched it
          unacked     \* logged writes without a successful answer, as [n, batch]

vars == <<kv, ver, unacked>>

Numbers == 0 .. MaxWrites
Write == [n : 1 .. MaxWrites, batch : Batches]

Touches(w, k) == w.batch[k] # "none"
ValueOf(w, k) == IF w.batch[k] = "put" THEN w.n ELSE 0

\* The map after the writes of S, in write order, over (m, v); a write never
\* replaces the effect of a newer one.
Winner(S, v, k) == Max({v[k]} \cup {w.n : w \in {x \in S : Touches(x, k)}})
Applied(S, m, v) ==
    [k \in Keys |-> IF Winner(S, v, k) = v[k] THEN m[k]
                    ELSE ValueOf(CHOOSE w \in S : w.n = Winner(S, v, k), k)]
Versions(S, v) == [k \in Keys |-> Winner(S, v, k)]

TypeOK ==
    /\ kv \in [Keys -> Numbers]
    /\ ver \in [Keys -> Numbers]
    /\ unacked \subseteq Write

Init ==
    /\ kv = [k \in Keys |-> 0]
    /\ ver = [k \in Keys |-> 0]
    /\ unacked = {}

Begin(w) ==
    /\ unacked' = unacked \cup {w}
    /\ UNCHANGED <<kv, ver>>

Commit(w) ==
    /\ w \in unacked
    /\ kv' = Applied({w}, kv, ver)
    /\ ver' = Versions({w}, ver)
    /\ unacked' = unacked \ {w}

\* A write that was answered with an error, or not answered, is known to be gone.
Forget ==
    /\ unacked' \in SUBSET unacked
    /\ UNCHANGED <<kv, ver>>

\* Every acknowledged write survives; each other logged one does or does not.
Crash ==
    \E S \in SUBSET unacked :
        /\ kv' = Applied(S, kv, ver)
        /\ ver' = Versions(S, ver)
        /\ unacked' = {}

Next == Forget \/ (\E w \in Write : Begin(w) \/ Commit(w)) \/ Crash

Spec == Init /\ [][Next]_vars
=============================================================================
