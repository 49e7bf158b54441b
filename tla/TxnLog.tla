------------------------------- MODULE TxnLog -------------------------------
(***************************************************************************)
(* Atomic commit of dtdb_relational across the storage engines of several  *)
(* tables: one fsynced Prepared record in the redo log is the commit       *)
(* point, the engines are written behind it without fsync, a checkpoint    *)
(* syncs them and starts the log afresh, recovery replays the log.         *)
(*                                                                         *)
(* A table has one row (a locality group beside it, or another row, would  *)
(* behave like another table) and perhaps an index on it.  An engine is    *)
(* what StorageEngine promises: what was synced stays, of what was written *)
(* since a crash leaves any part.                                          *)
(***************************************************************************)
EXTENDS Integers, Sequences, FiniteSets, SequencesExt

CONSTANTS Txns,           \* transactions, each used once
          Tables,
          Indexed,        \* the tables with an index
          Values,         \* row contents
          Absent,         \* no row
          Writes,         \* what a transaction may write: functions from tables to rows
          Threshold,      \* CHECKPOINT_LOG_THRESHOLD_BYTES, in records
          TornAppends,    \* TRUE: a failing append may leave part of a frame behind
          MaxCrashes,     \* bounds on the number of crashes,
          MaxFaults,      \* I/O errors,
          MaxCheckpoints, \* explicit Database::checkpoint calls
          MaxDdl,         \* and DROP / CREATE TABLE statements,
          MaxEvents       \* and on all of them together

ASSUME TxnLogAssumption ==
    /\ Indexed \subseteq Tables /\ Absent \notin Values
    /\ \A w \in Writes : DOMAIN w \subseteq Tables /\ \A t \in DOMAIN w : w[t] \in Values \cup {Absent}
    /\ Threshold \in Nat /\ TornAppends \in BOOLEAN
    /\ {MaxCrashes, MaxFaults, MaxCheckpoints, MaxDdl, MaxEvents} \subseteq Nat

None == "none"           \* nobody holds the commit lock
Checkpointer == "checkpoint"  \* Database::checkpoint holds it

VARIABLES
    mode,       \* "up", "down", or a stage of recover_transactions
    pc,         \* per transaction: where it is in its life
    write,      \* per transaction: its write_buffer
    old,        \* per transaction: old_rows, fetched before the commit lock
    start,      \* per transaction: start_version
    todo,       \* per transaction: engine writes still to make, as <<table, engine>>
    lock,       \* holder of the commit lock (commit_history's write lock)
    ckpt,       \* the holder's place in checkpoint_locked: "no", "sync" or "drop"
    inflight,   \* active_transactions
    version,    \* global_commit_version
    changed,    \* per table: version of the last recorded commit that wrote it
    row,        \* per table: [now, disk], disk the rows a crash may leave
    idx,        \* per table: [now, disk], disk the entry sets it may leave
    exists,     \* the tables of the catalog
    log,        \* the records of transactions.log
    open,       \* transaction_log is Some
    expected,   \* history: rows after every transaction that reached its commit point
    astray,     \* history: tables whose log is not theirs: re-created under old records,
                \* or written while the log was None or unreadable
    count       \* bounds

vars == <<mode, pc, write, old, start, todo, lock, ckpt, inflight, version, changed, row, idx,
          exists, log, open, expected, astray, count>>

Rows == Values \cup {Absent}
Entries(v) == {v} \ {Absent}
Fresh(x) == [now |-> x, disk |-> {x}]

Init ==
    /\ mode = "up"
    /\ pc = [t \in Txns |-> "new"]
    /\ write = [t \in Txns |-> <<>>]
    /\ old = [t \in Txns |-> <<>>]
    /\ start = [t \in Txns |-> 0]
    /\ todo = [t \in Txns |-> <<>>]
    /\ lock = None /\ ckpt = "no"
    /\ inflight = {}
    /\ version = 0
    /\ changed = [b \in Tables |-> 0]
    /\ row = [b \in Tables |-> Fresh(Absent)]
    /\ idx = [b \in Tables |-> Fresh({})]
    /\ exists = Tables
    /\ log = <<>> /\ open = TRUE
    /\ expected = [b \in Tables |-> Absent]
    /\ astray = {}
    /\ count = [crashes |-> 0, faults |-> 0, checkpoints |-> 0, ddl |-> 0]

Eventful == count.crashes + count.faults + count.checkpoints + count.ddl < MaxEvents
Fault == count.faults < MaxFaults /\ Eventful /\ count' = [count EXCEPT !.faults = @ + 1]
-----------------------------------------------------------------------------
(* A transaction up to its commit. *)

\* put / delete: the tables are resolved and the writes buffered.
Begin(t, w) ==
    /\ mode = "up" /\ pc[t] = "new" /\ DOMAIN w \subseteq exists
    /\ pc' = [pc EXCEPT ![t] = "running"]
    /\ write' = [write EXCEPT ![t] = w]
    /\ start' = [start EXCEPT ![t] = version]
    /\ UNCHANGED <<mode, old, todo, lock, ckpt, inflight, version, changed, row, idx, exists,
                   log, open, expected, astray, count>>

\* commit() fetches the pre-images before it takes the commit lock.
Resolve(t) ==
    /\ pc[t] = "running"
    /\ pc' = [pc EXCEPT ![t] = "resolved"]
    /\ old' = [old EXCEPT ![t] = [b \in DOMAIN write[t] |-> row[b].now]]
    /\ UNCHANGED <<mode, write, start, todo, lock, ckpt, inflight, version, changed, row, idx,
                   exists, log, open, expected, astray, count>>

Record(t) == [new |-> write[t], old |-> old[t], whole |-> TRUE]
Intact == \A i \in DOMAIN log : log[i].whole
AlwaysValid(t) == TRUE
Valid(t) == \A b \in DOMAIN write[t] : changed[b] <= start[t]
Over(w, m) == [b \in Tables |-> IF b \in DOMAIN w THEN w[b] ELSE m[b]]

\* The engine writes of a batch: table by table, the row before the index.
Parts(b) == IF b \in Indexed THEN <<<<b, "row">>, <<b, "idx">>>> ELSE <<<<b, "row">>>>
Orders(w) == {FlattenSeq([i \in DOMAIN s |-> Parts(s[i])]) : s \in SetToSeqs(DOMAIN w)}

\* Validation under the commit lock, then write_transaction_record: the record is
\* fsynced before any engine is touched.  append_record skips a log that is None.
Prepare(t) ==
    /\ pc[t] = "resolved" /\ lock = None /\ Valid(t)
    /\ lock' = t
    /\ inflight' = inflight \cup {t}
    /\ log' = IF open THEN Append(log, Record(t)) ELSE log
    /\ expected' = Over(write[t], expected)
    /\ astray' = IF open /\ Intact THEN astray
                 ELSE astray \cup DOMAIN write[t]
    /\ \E s \in Orders(write[t]) : todo' = [todo EXCEPT ![t] = s]
    /\ pc' = [pc EXCEPT ![t] = "applying"]
    /\ UNCHANGED <<mode, write, old, start, ckpt, version, changed, row, idx, exists, open,
                   count>>

Conflict(t) ==
    /\ pc[t] = "resolved" /\ lock = None /\ ~Valid(t)
    /\ pc' = [pc EXCEPT ![t] = "aborted"]
    /\ UNCHANGED <<mode, write, old, start, todo, lock, ckpt, inflight, version, changed, row,
                   idx, exists, log, open, expected, astray, count>>

\* The append or its fsync fails.  The log keeps nothing of the record, all of it,
\* or a torn part; the transaction stays in active_transactions.
PrepareFail(t) ==
    /\ pc[t] = "resolved" /\ lock = None /\ Valid(t) /\ open
    /\ Fault
    /\ inflight' = inflight \cup {t}
    /\ \/ UNCHANGED <<log, expected>>
       \/ /\ log' = Append(log, Record(t))
          /\ expected' = IF Intact THEN Over(write[t], expected) ELSE expected
       \/ /\ TornAppends
          /\ log' = Append(log, [Record(t) EXCEPT !.whole = FALSE])
          /\ UNCHANGED expected
    /\ pc' = [pc EXCEPT ![t] = "failed"]
    /\ UNCHANGED <<mode, write, old, start, todo, lock, ckpt, version, changed, row, idx,
                   exists, open, astray>>
-----------------------------------------------------------------------------
(* The engines. *)

Written(e, x) == [now |-> x, disk |-> e.disk \cup {x}]
\* Index maintenance of write_batch: drop the pre-image's entry, add the new one.
KeepOld(S, o, n) == S \cup Entries(n)
Reindexed(S, o, n) == (S \ Entries(o)) \cup Entries(n)
Unsynced(E) == E
Synced(E) == [b \in Tables |-> Fresh(E[b].now)]

Apply(t) ==
    /\ pc[t] = "applying" /\ todo[t] # <<>>
    /\ LET b == Head(todo[t])[1]
       IN  IF Head(todo[t])[2] = "row"
           THEN row' = [row EXCEPT ![b] = Written(@, write[t][b])] /\ UNCHANGED idx
           ELSE idx' = [idx EXCEPT ![b] = Written(@, Reindexed(@.now, old[t][b], write[t][b]))]
                /\ UNCHANGED row
    /\ todo' = [todo EXCEPT ![t] = Tail(@)]
    /\ UNCHANGED <<mode, pc, write, old, start, lock, ckpt, inflight, version, changed, exists,
                   log, open, expected, astray, count>>

\* An engine write fails: commit() returns the error, nothing is undone.
ApplyFail(t) ==
    /\ pc[t] = "applying" /\ todo[t] # <<>>
    /\ Fault
    /\ pc' = [pc EXCEPT ![t] = "failed"]
    /\ lock' = None
    /\ UNCHANGED <<mode, write, old, start, todo, ckpt, inflight, version, changed, row, idx,
                   exists, log, open, expected, astray>>

\* validate_and_commit's end: the version, the history record, the lock.
Recorded(t) ==
    /\ version' = version + 1
    /\ changed' = [b \in Tables |-> IF b \in DOMAIN write[t] THEN version + 1 ELSE changed[b]]
    /\ pc' = [pc EXCEPT ![t] = "committed"]
    /\ lock' = None

\* commit_transaction: a full log is checkpointed when nobody else is in flight.
FullLog(others) == open /\ Len(log) >= Threshold
CheckpointDue(others) == others = {} /\ open /\ Len(log) >= Threshold
CommitTransaction(t) ==
    /\ pc[t] = "applying" /\ todo[t] = <<>> /\ ckpt = "no"
    /\ inflight' = inflight \ {t}
    /\ IF CheckpointDue(inflight \ {t})
       THEN /\ ckpt' = "sync"
            /\ pc' = [pc EXCEPT ![t] = "checkpointing"]
            /\ UNCHANGED <<version, changed, lock>>
       ELSE Recorded(t) /\ UNCHANGED ckpt
    /\ UNCHANGED <<mode, write, old, start, todo, row, idx, exists, log, open, expected,
                   astray, count>>
-----------------------------------------------------------------------------
(* Checkpoints: checkpoint_locked, by a committing transaction or a client. *)

Checkpoint ==
    /\ mode = "up" /\ lock = None
    /\ count.checkpoints < MaxCheckpoints /\ Eventful
    /\ count' = [count EXCEPT !.checkpoints = @ + 1]
    /\ lock' = Checkpointer /\ ckpt' = "sync"
    /\ UNCHANGED <<mode, pc, write, old, start, todo, inflight, version, changed, row, idx,
                   exists, log, open, expected, astray>>

\* sync_all_table_engines.
CheckpointSync ==
    /\ ckpt = "sync"
    /\ ckpt' = "drop"
    /\ row' = Synced(row) /\ idx' = Synced(idx)
    /\ UNCHANGED <<mode, pc, write, old, start, todo, lock, inflight, version, changed, exists,
                   log, open, expected, astray, count>>

\* The caller gets the error: a transaction is applied but not recorded.
CheckpointError ==
    /\ ckpt' = "no"
    /\ lock' = None
    /\ pc' = IF lock = Checkpointer THEN pc ELSE [pc EXCEPT ![lock] = "failed"]
    /\ UNCHANGED <<version, changed>>

\* A sync fails, with any of the engines synced before it.
CheckpointSyncFail ==
    /\ ckpt = "sync"
    /\ Fault
    /\ CheckpointError
    /\ \E S \in SUBSET Tables :
          /\ row' = [b \in Tables |-> IF b \in S THEN Fresh(row[b].now) ELSE row[b]]
          /\ idx' = [b \in Tables |-> IF b \in S THEN Fresh(idx[b].now) ELSE idx[b]]
    /\ UNCHANGED <<mode, write, old, start, todo, inflight, exists, log, open, expected,
                   astray>>

\* The tables a failed commit has left behind its record: write_batch gave up on
\* them, and only a replay of the record would bring them forward.
LeftBehind ==
    {b \in UNION {DOMAIN write[t] : t \in {u \in Txns : pc[u] = "failed"}} :
        row[b].now # expected[b] \/ (b \in Indexed /\ idx[b].now # Entries(expected[b]))}

\* The handle is dropped, the file removed (an error is ignored and keeps it), and
\* a new one opened.
CheckpointDrop ==
    /\ ckpt = "drop"
    /\ \/ /\ log' = (IF open THEN <<>> ELSE log)
          /\ astray' = IF open THEN astray \cup LeftBehind ELSE astray
          /\ UNCHANGED count
       \/ /\ open /\ Fault
          /\ UNCHANGED <<log, astray>>
    /\ ckpt' = "no"
    /\ IF lock = Checkpointer THEN lock' = None /\ UNCHANGED <<pc, version, changed>>
       ELSE Recorded(lock)
    /\ UNCHANGED <<mode, write, old, start, todo, inflight, row, idx, exists, open, expected>>

\* Opening the new file fails: transaction_log stays None.
CheckpointReopenFail ==
    /\ ckpt = "drop" /\ open
    /\ Fault
    /\ log' = <<>> /\ open' = FALSE
    /\ astray' = astray \cup LeftBehind
    /\ CheckpointError
    /\ UNCHANGED <<mode, write, old, start, todo, inflight, row, idx, exists, expected>>
-----------------------------------------------------------------------------
(* DDL, which waits for every transaction that resolved the table. *)

Busy(b) == \E t \in Txns : /\ b \in DOMAIN write[t]
                           /\ pc[t] \in {"running", "resolved", "applying", "checkpointing"}
Ddl == /\ mode = "up" /\ ckpt # "sync"
       /\ count.ddl < MaxDdl /\ Eventful
       /\ count' = [count EXCEPT !.ddl = @ + 1]

\* drop_table removes the directory and leaves the log alone.
DropTable(b) ==
    /\ Ddl /\ b \in exists /\ ~Busy(b)
    /\ exists' = exists \ {b}
    /\ row' = [row EXCEPT ![b] = Fresh(Absent)]
    /\ idx' = [idx EXCEPT ![b] = Fresh({})]
    /\ expected' = [expected EXCEPT ![b] = Absent]
    /\ UNCHANGED <<mode, pc, write, old, start, todo, lock, ckpt, inflight, version, changed,
                   log, open, astray>>

Mentions(b) == \E i \in DOMAIN log : b \in DOMAIN log[i].new
CreateTable(b) ==
    /\ Ddl /\ b \notin exists
    /\ exists' = exists \cup {b}
    /\ astray' = IF Mentions(b) THEN astray \cup {b} ELSE astray
    /\ UNCHANGED <<mode, pc, write, old, start, todo, lock, ckpt, inflight, version, changed,
                   row, idx, log, open, expected>>
-----------------------------------------------------------------------------
(* Crash and recovery. *)

\* What a crash may leave of an index: an entry that was in every state since the
\* last sync stays, one that was in none does not appear.
IndexesOnDisk(e) == {S \in SUBSET (UNION e.disk) : \A x \in UNION e.disk :
                         (\A D \in e.disk : x \in D) => x \in S}

Crash ==
    /\ mode # "down"
    /\ count.crashes < MaxCrashes /\ Eventful
    /\ count' = [count EXCEPT !.crashes = @ + 1]
    /\ mode' = "down"
    /\ \E r \in [Tables -> Rows], s \in [Tables -> SUBSET Values] :
          /\ \A b \in Tables : r[b] \in row[b].disk /\ s[b] \in IndexesOnDisk(idx[b])
          /\ row' = [b \in Tables |-> Fresh(r[b])]
          /\ idx' = [b \in Tables |-> Fresh(s[b])]
    /\ pc' = [t \in Txns |-> IF pc[t] = "new" THEN "new" ELSE "gone"]
    /\ start' = [t \in Txns |-> 0]
    /\ write' = [t \in Txns |-> <<>>] /\ old' = write' /\ todo' = write'
    /\ lock' = None /\ ckpt' = "no" /\ inflight' = {} /\ version' = 0
    /\ changed' = [b \in Tables |-> 0]
    /\ open' = FALSE
    /\ UNCHANGED <<exists, log, expected, astray>>

\* Recovery reads the log up to the first torn record.
Readable == SubSeq(log, 1, Cardinality({i \in DOMAIN log : \A j \in 1 .. i : log[j].whole}))
Records(b) == SelectSeq(Readable, LAMBDA r : b \in DOMAIN r.new)

\* write_batch of one record over table state [row, idx].  A record without a
\* pre-image for the table looks up the row the engine holds now.
PreImage(o, s) == IF o = Absent THEN s.row ELSE o
Replayed(s, r, b) ==
    [row |-> r.new[b],
     idx |-> IF b \in Indexed THEN Reindexed(s.idx, PreImage(r.old[b], s), r.new[b]) ELSE s.idx]
ReplayAll(s, b) == FoldLeft(LAMBDA x, r : Replayed(x, r, b), s, Records(b))
States(s, b) == {FoldLeft(LAMBDA x, r : Replayed(x, r, b), s, SubSeq(Records(b), 1, n))
                    : n \in 0 .. Len(Records(b))}
Recovered(b) == {ReplayAll([row |-> r, idx |-> s], b)
                    : r \in row[b].disk, s \in IndexesOnDisk(idx[b])}

\* recover_transactions replays every record into the tables that exist, syncs the
\* engines, and removes the log; then the log is opened.
Recover ==
    /\ mode = "down" /\ mode' = "replayed"
    /\ LET before(b) == [row |-> row[b].now, idx |-> idx[b].now]
           replay(b) == IF b \in exists THEN States(before(b), b) ELSE {before(b)}
           after(b) == IF b \in exists THEN ReplayAll(before(b), b) ELSE before(b)
       IN  /\ row' = [b \in Tables |-> [now |-> after(b).row, disk |-> {s.row : s \in replay(b)}]]
           /\ idx' = [b \in Tables |-> [now |-> after(b).idx, disk |-> {s.idx : s \in replay(b)}]]
    /\ UNCHANGED <<pc, write, old, start, todo, lock, ckpt, inflight, version, changed, exists,
                   log, open, expected, astray, count>>

RecoverSync ==
    /\ mode = "replayed" /\ mode' = "synced"
    /\ row' = Synced(row) /\ idx' = Synced(idx)
    /\ UNCHANGED <<pc, write, old, start, todo, lock, ckpt, inflight, version, changed, exists,
                   log, open, expected, astray, count>>

RecoverDone ==
    /\ mode = "synced" /\ mode' = "up"
    /\ log' = <<>> /\ open' = TRUE
    /\ expected' = [b \in Tables |-> IF b \in astray THEN row[b].now ELSE expected[b]]
    /\ astray' = {}
    /\ UNCHANGED <<pc, write, old, start, todo, lock, ckpt, inflight, version, changed, row,
                   idx, exists, count>>
-----------------------------------------------------------------------------
Transact(t) ==
    \/ \E w \in Writes : Begin(t, w)
    \/ Resolve(t) \/ Prepare(t) \/ Conflict(t) \/ PrepareFail(t) \/ Apply(t) \/ ApplyFail(t)
    \/ CommitTransaction(t)
Checkpointing == Checkpoint \/ CheckpointSync \/ CheckpointSyncFail \/ CheckpointDrop
                 \/ CheckpointReopenFail
Catalog == \E b \in Tables : DropTable(b) \/ CreateTable(b)
Restart == Crash \/ Recover \/ RecoverSync \/ RecoverDone

Next == (\E t \in Txns : Transact(t)) \/ Checkpointing \/ Catalog \/ Restart

Spec == Init /\ [][Next]_vars
-----------------------------------------------------------------------------
(* Properties. *)

\* The variables keep their shapes; the engine's current state is among those a
\* crash may leave; whoever holds the commit lock is applying or checkpointing.
TypeOK ==
    /\ mode \in {"up", "down", "replayed", "synced"}
    /\ pc \in [Txns -> {"new", "running", "resolved", "applying", "checkpointing", "committed",
                        "aborted", "failed", "gone"}]
    /\ \A b \in Tables : /\ row[b].now \in row[b].disk /\ row[b].disk \subseteq Rows
                         /\ idx[b].now \in idx[b].disk /\ idx[b].disk \subseteq SUBSET Values
    /\ \A t \in Txns : lock = t <=> pc[t] \in {"applying", "checkpointing"}
    /\ ckpt # "no" => lock # None
    /\ exists \subseteq Tables /\ inflight \subseteq Txns
    /\ expected \in [Tables -> Rows]

\* Whenever the process dies, recovery brings back the row that the last commit
\* left, whole transactions only: a Prepared record is replayed in full, and one
\* that a checkpoint dropped was durable in the engines (checkpoint_locked,
\* recover_transactions).  Tables gone astray apart.
RowsSurvive ==
    \A b \in exists \ astray : \A s \in Recovered(b) : s.row = expected[b]

\* Recovery also leaves each index with exactly the entries of its rows, whichever
\* part of the index engine's unsynced writes the crash left: "each record carries
\* its own pre-image `old_rows` for deterministic index maintenance"
\* (recover_transactions).  Not after an I/O error: a commit that failed behind its
\* durable record is not in the pre-image of the next one, so that replaying both
\* leaves the entry of the first.
IndexesSurvive ==
    count.faults = 0 =>
        \A b \in (exists \cap Indexed) \ astray : \A s \in Recovered(b) :
            s.idx = Entries(expected[b])

\* While no commit is being applied, and without an I/O error, rows and indexes in
\* memory are those of the committed transactions, after a restart too; and the
\* state is well typed, the commit lock held by the one transaction that applies.
LiveConsistent ==
    /\ TypeOK
    /\ mode = "up" /\ lock = None /\ count.faults = 0 =>
          \A b \in exists : /\ row[b].now = expected[b]
                            /\ b \in Indexed => idx[b].now = Entries(expected[b])

\* "replaying records that a background WAL sync had already persisted before the
\* crash is harmless" (recover_transactions), re-created tables included.
ReplayHarmless == \A b \in exists : \A s \in Recovered(b) : s.row = expected[b]

\* "a transaction's `Prepared` record must be durable before its mutations are
\* applied" (Database::open): recovery would find the record.
PreparedFirst ==
    [][\A t \in Txns : pc[t] = "resolved" /\ pc'[t] = "applying" =>
           \E i \in DOMAIN Readable' : Readable'[i] = Record(t)]_vars

\* After a crash, all of a transaction's writes are there or none of them, unless
\* somebody has overwritten them since.
AllOrNothing ==
    \A t \in Txns : (pc[t] = "failed" /\ \A b \in DOMAIN write[t] : expected[b] = write[t][b]) =>
        \A s \in [Tables -> [row : Rows, idx : SUBSET Values]] :
            (\A b \in Tables : s[b] \in Recovered(b)) =>
                \/ \A b \in DOMAIN write[t] : s[b].row = write[t][b]
                \/ \A b \in DOMAIN write[t] : s[b].row = old[t][b]
=============================================================================
