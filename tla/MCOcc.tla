------------------------------- MODULE MCOcc -------------------------------
(* Small instances of Occ for TLC: write skew between s1 and s2, which run at
   SnapshotIsolation, beside c1, a ReadCommitted writer. *)
EXTENDS Occ, TLC

CONSTANTS s1, s2, c1, k1, k2, k3

MCTxns == {s1, s2, c1}
MCRegistered == {s1, s2}
MCKeys == {k1, k2}
MCRead == s1 :> {k1} @@ s2 :> {k2} @@ c1 :> {}
MCWrite == s1 :> {k2} @@ s2 :> {k1} @@ c1 :> {k1}

\* The same with c1 on a key of its own.
MCApartKeys == {k1, k2, k3}
MCApartWrite == s1 :> {k2} @@ s2 :> {k1} @@ c1 :> {k3}
=============================================================================
