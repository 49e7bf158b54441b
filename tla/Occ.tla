-------------------------------- MODULE Occ --------------------------------
(***************************************************************************)
(* Optimistic concurrency control of dtdb_relational: transactions buffer  *)
(* their writes, read the latest engine data, and at commit are validated  *)
(* against the history of commits since their start version.  The history  *)
(* is pruned by every commit and by every dropped transaction.             *)
(*                                                                         *)
(* A row's value is the commit version that wrote it.  A key stands for a  *)
(* primary key or an index entry, a scanned range for the keys in it.      *)
(***************************************************************************)
EXTENDS Integers, FiniteSets

CONSTANTS Txns,        \* transactions, each used once
          Registered,  \* those at SnapshotIsolation; the others run ReadCommitted
          Keys,
          MayRead,     \* per transaction: the keys its statements read
          MayWrite     \* per transaction: the keys its statements write

None == -1             \* Option::None for a captured minimum start version

ASSUME OccAssumption ==
    /\ Registered \subseteq Txns /\ None \notin Txns
    /\ MayRead \in [Txns -> SUBSET Keys] /\ MayWrite \in [Txns -> SUBSET Keys]

VARIABLES pc,        \* per transaction: where it is in its life
          global,    \* global_commit_version
          history,   \* commit_history, as a set of [v, keys]
          active,    \* keys of occ_active_transactions; start holds the versions
          start,     \* per transaction: start_version
          reads,     \* per transaction: read_set and scan_ranges
          writes,    \* per transaction: write_keys
          todo,      \* per transaction: keys commit_fn has still to apply
          snapMax,   \* per transaction: snapshot_max_version
          limit,     \* per transaction: the captured min_start_version
          lock,      \* holder of the commit_history write lock, or None
          store,     \* key |-> commit version of the row in the engine
          obs,       \* history: what each registered transaction read, as <<key, version>>
          blind,     \* history: who captured None and has not pruned yet
          exposed,   \* history: who registered while somebody was blind
          dirty      \* history: keys last written by a commit that failed midway

vars == <<pc, global, history, active, start, reads, writes, todo, snapMax, limit,
          lock, store, obs, blind, exposed, dirty>>

Footprint(t) == reads[t] \cup writes[t]
WritesConflict(r, t) == r.keys \cap writes[t] # {}
Conflicts(r, t) == r.keys \cap Footprint(t) # {}
AlwaysFree == TRUE
Unlocked == lock = None

Init ==
    /\ pc = [t \in Txns |-> "new"]
    /\ global = 0
    /\ history = {}
    /\ active = {}
    /\ start = [t \in Txns |-> 0]
    /\ reads = [t \in Txns |-> {}]
    /\ writes = [t \in Txns |-> {}]
    /\ todo = [t \in Txns |-> {}]
    /\ snapMax = [t \in Txns |-> 0]
    /\ limit = [t \in Txns |-> None]
    /\ lock = None
    /\ store = [k \in Keys |-> 0]
    /\ obs = [t \in Txns |-> {}]
    /\ blind = {}
    /\ exposed = {}
    /\ dirty = {}

\* new_with_isolation: SnapshotIsolation registers under the history read lock,
\* ReadCommitted only loads the version.
Begin(t) ==
    /\ pc[t] = "new"
    /\ t \in Registered => Unlocked
    /\ start' = [start EXCEPT ![t] = global]
    /\ active' = IF t \in Registered THEN active \cup {t} ELSE active
    /\ exposed' = IF t \in Registered /\ blind # {} THEN exposed \cup {t} ELSE exposed
    /\ pc' = [pc EXCEPT ![t] = "running"]
    /\ UNCHANGED <<global, history, reads, writes, todo, snapMax, limit, lock, store, obs,
                   blind, dirty>>

\* get / a scan: the key is tracked, then the latest engine data is read, whoever
\* may be applying a commit.  A buffered write answers the read by itself.
Read(t, k) ==
    /\ pc[t] = "running" /\ t \in Registered /\ k \notin writes[t]
    /\ reads' = [reads EXCEPT ![t] = @ \cup {k}]
    /\ obs' = [obs EXCEPT ![t] = @ \cup {<<k, store[k]>>}]
    /\ UNCHANGED <<pc, global, history, active, start, writes, todo, snapMax, limit, lock,
                   store, blind, exposed, dirty>>

\* put / delete buffer a write.
WriteKey(t, k) ==
    /\ pc[t] = "running"
    /\ writes' = [writes EXCEPT ![t] = @ \cup {k}]
    /\ UNCHANGED <<pc, global, history, active, start, reads, todo, snapMax, limit, lock,
                   store, obs, blind, exposed, dirty>>

\* What the two validation passes look at: the records after version v.
AfterNext(v) == {r \in history : r.v > v + 1}
After(v) == {r \in history : r.v > v}
Clean(t, v) == \A r \in After(v) : ~Conflicts(r, t)

\* Phase 1 of validate_and_commit, under the history read lock.  snapMax is the
\* highest version seen, or the start version when the history is empty.
Validate(t) ==
    /\ pc[t] = "running" /\ writes[t] # {} /\ Unlocked
    /\ IF Clean(t, start[t])
       THEN /\ \E m \in IF history = {} THEN {start[t]} ELSE {r.v : r \in history} :
                   /\ \A r \in history : r.v <= m
                   /\ snapMax' = [snapMax EXCEPT ![t] = m]
            /\ pc' = [pc EXCEPT ![t] = "validated"]
       ELSE pc' = [pc EXCEPT ![t] = "aborted"] /\ UNCHANGED snapMax
    /\ UNCHANGED <<global, history, active, start, reads, writes, todo, limit, lock, store,
                   obs, blind, exposed, dirty>>

\* validate_read_only: one pass under the read lock decides.
ValidateReadOnly(t) ==
    /\ pc[t] = "running" /\ writes[t] = {} /\ Unlocked
    /\ pc' = [pc EXCEPT ![t] = IF Clean(t, start[t]) THEN "committed" ELSE "aborted"]
    /\ UNCHANGED <<global, history, active, start, reads, writes, todo, snapMax, limit, lock,
                   store, obs, blind, exposed, dirty>>

\* The minimum start version among S, None when S is empty.
CaptureMin(t, S) ==
    /\ IF S = {} THEN limit' = [limit EXCEPT ![t] = None]
       ELSE \E u \in S : /\ \A w \in S : start[u] <= start[w]
                         /\ limit' = [limit EXCEPT ![t] = start[u]]
    /\ blind' = IF S = {} THEN blind \cup {t} ELSE blind

\* The pruning limit is captured before the write lock is taken.
Capture(t) ==
    /\ pc[t] = "validated"
    /\ CaptureMin(t, active)
    /\ pc' = [pc EXCEPT ![t] = "limited"]
    /\ UNCHANGED <<global, history, active, start, reads, writes, todo, snapMax, lock, store,
                   obs, exposed, dirty>>

\* Phase 2: the write lock and delta validation against newer records.
Lock(t) ==
    /\ pc[t] = "limited" /\ Unlocked
    /\ IF Clean(t, snapMax[t])
       THEN /\ lock' = t
            /\ todo' = [todo EXCEPT ![t] = writes[t]]
            /\ pc' = [pc EXCEPT ![t] = "applying"]
            /\ UNCHANGED blind
       ELSE /\ pc' = [pc EXCEPT ![t] = "aborted"]
            /\ blind' = blind \ {t}
            /\ UNCHANGED <<lock, todo>>
    /\ UNCHANGED <<global, history, active, start, reads, writes, snapMax, limit, store, obs,
                   exposed, dirty>>

\* commit_fn fails, logging the Prepared record or later: no version, no history
\* record, but the rows already written stay.
CommitFail(t) ==
    /\ pc[t] = "applying"
    /\ pc' = [pc EXCEPT ![t] = "aborted"]
    /\ lock' = None
    /\ blind' = blind \ {t}
    /\ dirty' = dirty \cup (writes[t] \ todo[t])
    /\ UNCHANGED <<global, history, active, start, reads, writes, todo, snapMax, limit, store,
                   obs, exposed>>

\* commit_fn writes the rows, table by table; readers see each as it lands.
ApplyKey(t, k) ==
    /\ pc[t] = "applying"
    /\ store' = [store EXCEPT ![k] = global + 1]
    /\ todo' = [todo EXCEPT ![t] = @ \ {k}]
    /\ UNCHANGED <<pc, global, history, active, start, reads, writes, snapMax, limit, lock,
                   obs, blind, exposed, dirty>>

\* The version is bumped, the record appended, the history pruned, the lock freed.
NewestOnly(t, version) == version
PruneLimit(t, version) == IF limit[t] = None THEN version ELSE limit[t]
RetainAll(h, v) == h
RetainNewer(h, v) == {r \in h : r.v > v + 1}
Retain(h, v) == {r \in h : r.v >= v}
Finish(t) ==
    /\ pc[t] = "applying" /\ todo[t] = {}
    /\ global' = global + 1
    /\ history' = Retain(history \cup {[v |-> global + 1, keys |-> writes[t]]},
                         PruneLimit(t, global + 1))
    /\ lock' = None
    /\ blind' = blind \ {t}
    /\ pc' = [pc EXCEPT ![t] = "committed"]
    /\ dirty' = dirty \ writes[t]
    /\ UNCHANGED <<active, start, reads, writes, todo, snapMax, limit, store, obs, exposed>>

\* Drop, after commit, abort or rollback: leave the active set and take its minimum,
\* then load the version if there is none, then prune under the write lock.
Unregister(t) ==
    /\ pc[t] \in {"running", "committed", "aborted"}
    /\ active' = active \ {t}
    /\ CaptureMin(t, active \ {t})
    /\ pc' = [pc EXCEPT ![t] = "dropping"]
    /\ UNCHANGED <<global, history, start, reads, writes, todo, snapMax, lock, store, obs,
                   exposed, dirty>>

LoadMin(t) ==
    /\ pc[t] = "dropping"
    /\ limit' = [limit EXCEPT ![t] = IF @ = None THEN global ELSE @]
    /\ pc' = [pc EXCEPT ![t] = "loaded"]
    /\ UNCHANGED <<global, history, active, start, reads, writes, todo, snapMax, lock, store,
                   obs, blind, exposed, dirty>>

Prune(t) ==
    /\ pc[t] = "loaded" /\ Unlocked
    /\ history' = Retain(history, limit[t])
    /\ blind' = blind \ {t}
    /\ pc' = [pc EXCEPT ![t] = "gone"]
    /\ UNCHANGED <<global, active, start, reads, writes, todo, snapMax, limit, lock, store, obs,
                   exposed, dirty>>

Step(t) ==
    \/ Begin(t) \/ Validate(t) \/ ValidateReadOnly(t) \/ Capture(t) \/ Lock(t) \/ CommitFail(t)
    \/ Finish(t) \/ Unregister(t) \/ LoadMin(t) \/ Prune(t)
    \/ \E k \in MayRead[t] : Read(t, k)
    \/ \E k \in MayWrite[t] : WriteKey(t, k)
    \/ \E k \in todo[t] : ApplyKey(t, k)

Next == \E t \in Txns : Step(t)

Spec == Init /\ [][Next]_vars
-----------------------------------------------------------------------------
\* The variables keep their shapes, and the write lock has one holder, the
\* transaction that is applying.
Phases == {"new", "running", "validated", "limited", "applying", "committed", "aborted",
           "dropping", "loaded", "gone"}
Record == [v : Nat, keys : SUBSET Keys]
TypeOK ==
    /\ pc \in [Txns -> Phases]
    /\ global \in Nat
    /\ history \subseteq Record
    /\ active \subseteq Registered
    /\ start \in [Txns -> Nat]
    /\ reads \in [Txns -> SUBSET Keys]
    /\ writes \in [Txns -> SUBSET Keys]
    /\ todo \in [Txns -> SUBSET Keys]
    /\ snapMax \in [Txns -> Nat]
    /\ limit \in [Txns -> Nat \cup {None}]
    /\ lock \in Txns \cup {None}
    /\ \A t \in Txns : lock = t <=> pc[t] = "applying"
    /\ store \in [Keys -> Nat]
    /\ obs \in [Txns -> SUBSET (Keys \X Nat)]
    /\ blind \subseteq Txns
    /\ exposed \subseteq Txns
    /\ dirty \subseteq Keys

\* The step that decides a commit: the delta validation of a writer, the only
\* validation of a reader.
Decides(t) == /\ pc[t] \in {"limited", "running"}
              /\ pc'[t] \in {"applying", "committed"}

\* Nothing this transaction read or is about to write changed since it began, and
\* what it read is what is there now; rows a failed commit left behind apart.
Unchanged(t) == /\ \A k \in Footprint(t) \ dirty : store[k] <= start[t]
                /\ \A o \in obs[t] : o[1] \in dirty \/ o[2] = store[o[1]]

\* SnapshotIsolation transactions commit only on current data, unless one began
\* inside the window between an empty minimum and the pruning it leads to
\* (unregister_transaction, validate_and_commit).
ConsistentCommit ==
    [][\A t \in Registered \ exposed : Decides(t) => Unchanged(t)]_vars

\* The promise without the exception: "validating read-write, write-write, and
\* phantom conflicts at commit time" (README.md).  Whoever commits writes, what it
\* read is still there.
EveryConflictFound ==
    [][\A t \in Registered : Decides(t) /\ writes[t] # {} =>
           \A o \in obs[t] : o[1] \in dirty \/ o[2] = store[o[1]]]_vars

\* While a transaction is active, the record of the last commit of each key
\* changed since it began is in the history, or that commit is being applied.
HistoryCovers ==
    \A t \in active \ exposed : \A k \in Keys \ dirty : store[k] > start[t] =>
        \/ \E r \in history : r.v = store[k] /\ k \in r.keys
        \/ lock # None /\ k \in writes[lock] \ todo[lock]

\* "a bounded commit-history log" (configuration.md): when every transaction is
\* gone, at most the last record is left.
HistoryBounded ==
    (\A t \in Txns : pc[t] \in {"new", "gone"}) => \A r \in history : r.v = global

\* "Re-reading the same key returns the same value for the lifetime of the
\* transaction" (configuration.md, RepeatableRead and SnapshotIsolation).
RepeatableReads ==
    \A t \in Registered : \A o, p \in obs[t] : o[1] = p[1] => o[2] = p[2]

\* ReadCommitted "Validates only write-write conflicts" (configuration.md): it
\* does validate them.
WriteWriteValidated ==
    [][\A t \in Txns \ Registered : Decides(t) =>
           \A k \in writes[t] \ dirty : store[k] <= start[t]]_vars
=============================================================================
