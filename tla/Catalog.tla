------------------------------ MODULE Catalog ------------------------------
(***************************************************************************)
(* The catalog of dtdb_relational under DDL: CREATE / DROP TABLE, ALTER    *)
(* TABLE, CREATE / DROP INDEX against transactions that resolve table      *)
(* handles, register their access, draw auto-increment values and commit,  *)
(* with crashes and I/O errors between the steps of a statement.           *)
(*                                                                         *)
(* A statement holds the tables write lock from its first step to its      *)
(* last; a reader of the catalog holds it only for one step.  A table has  *)
(* one row and at most one index; how a commit reaches its engines is      *)
(* TxnLog's matter, so here it is one step.                                *)
(***************************************************************************)
EXTENDS Integers, Sequences, FiniteSets

CONSTANTS Txns, Tables, Stmts,
          Uses,       \* per transaction: the tables it touches, in order
          Draws,      \* the transactions that draw an auto-increment value
          Value,      \* per transaction: the row it writes
          Absent,     \* no row
          Kind,       \* per statement: "create", "drop", "alter", "create_index", "drop_index"
          On,         \* per statement: its table
          Checkpoints,\* TRUE: a commit may find the transaction log over its threshold
          MaxCrashes, MaxFaults

ASSUME CatalogAssumption ==
    /\ Uses \in [Txns -> Seq(Tables)] /\ \A t \in Txns : Uses[t] # <<>>
    /\ Draws \subseteq Txns
    /\ Kind \in [Stmts -> {"create", "drop", "alter", "create_index", "drop_index"}]
    /\ On \in [Stmts -> Tables]
    /\ \A t \in Txns : Value[t] # Absent
    /\ "none" \notin Txns \cup Stmts
    /\ Checkpoints \in BOOLEAN /\ {MaxCrashes, MaxFaults} \subseteq Nat

None == "none"
NoDir == {Absent}        \* the index directory does not exist

VARIABLES
    tables,   \* in memory: table |-> [live, index, ver, gen], gen its directory
    schema,   \* schema.bin on disk: "none", "plain" or "indexed"
    row,      \* the table's row, Absent without one
    entries,  \* the entries in the index directory, or NoDir
    holder,   \* the statement holding the tables write lock
    dpc,      \* per statement: its step
    access,   \* active_table_access
    tpc,      \* per transaction: its step
    handle,   \* per transaction: cached_tables, in the order of Uses
    seqLock,  \* holder of the auto_increment_sequences lock
    seqs,     \* the tables with a sequence
    commit,   \* holder of the commit lock
    slipped,  \* history: who registered a handle behind a statement's wait
    suspect,  \* history: tables with an index over a slipped write or a leftover directory
    count     \* bounds

vars == <<tables, schema, row, entries, holder, dpc, access, tpc, handle, seqLock, seqs,
          commit, slipped, suspect, count>>

Init ==
    /\ tables = [b \in Tables |-> [live |-> TRUE, index |-> FALSE, ver |-> 0, gen |-> 0]]
    /\ schema = [b \in Tables |-> "plain"]
    /\ row = [b \in Tables |-> Absent]
    /\ entries = [b \in Tables |-> NoDir]
    /\ holder = None
    /\ dpc = [d \in Stmts |-> "new"]
    /\ access = [b \in Tables |-> {}]
    /\ tpc = [t \in Txns |-> "running"]
    /\ handle = [t \in Txns |-> <<>>]
    /\ seqLock = None
    /\ seqs = {}
    /\ commit = None
    /\ slipped = {}
    /\ suspect = {}
    /\ count = [crashes |-> 0, faults |-> 0]

catalogVars == <<tables, schema, row, entries, holder, dpc, suspect, count>>
-----------------------------------------------------------------------------
(* Transactions. *)

Unresolved(t) == tpc[t] = "running" /\ Len(handle[t]) < Len(Uses[t])
NextTable(t) == Uses[t][Len(handle[t]) + 1]

\* Database::get_table needs the catalog read lock, and fails on a missing table.
Resolve(t) ==
    /\ Unresolved(t) /\ holder = None
    /\ IF tables[NextTable(t)].live
       THEN /\ handle' = [handle EXCEPT ![t] = Append(@, tables[NextTable(t)])]
            /\ tpc' = [tpc EXCEPT ![t] = "resolved"]
       ELSE tpc' = [tpc EXCEPT ![t] = "ended"] /\ UNCHANGED handle
    /\ UNCHANGED <<access, seqLock, seqs, commit, slipped>> /\ UNCHANGED catalogVars

\* register_table_access comes after the read lock was released.  A statement that
\* got in between may have looked for readers already.
Swapping(b) == \E d \in Stmts : On[d] = b /\ dpc[d] \in {"quiet", "filled", "saved"}
Register(t) ==
    LET b == Uses[t][Len(handle[t])]
    IN  /\ tpc[t] = "resolved"
        /\ access' = [access EXCEPT ![b] = @ \cup {t}]
        /\ tpc' = [tpc EXCEPT ![t] = "running"]
        /\ slipped' = IF handle[t][Len(handle[t])] # tables[b] \/ Swapping(b)
                      THEN slipped \cup {t} ELSE slipped
        /\ UNCHANGED <<handle, seqLock, seqs, commit>> /\ UNCHANGED catalogVars

Ready(t) == tpc[t] = "running" /\ Len(handle[t]) = Len(Uses[t])

\* next_sequence_value: under the sequences lock; a table without a sequence is
\* resolved again, which needs the catalog.
Draw(t) ==
    /\ Ready(t) /\ t \in Draws /\ seqLock = None
    /\ IF Uses[t][1] \in seqs
       THEN tpc' = [tpc EXCEPT ![t] = "drawn"] /\ UNCHANGED seqLock
       ELSE tpc' = [tpc EXCEPT ![t] = "drawing"] /\ seqLock' = t
    /\ UNCHANGED <<access, handle, seqs, commit, slipped>> /\ UNCHANGED catalogVars

DrawResolve(t) ==
    /\ tpc[t] = "drawing" /\ holder = None
    /\ seqLock' = None
    /\ IF tables[Uses[t][1]].live
       THEN tpc' = [tpc EXCEPT ![t] = "drawn"] /\ seqs' = seqs \cup {Uses[t][1]}
       ELSE tpc' = [tpc EXCEPT ![t] = "ended"] /\ UNCHANGED seqs
    /\ UNCHANGED <<access, handle, commit, slipped>> /\ UNCHANGED catalogVars

\* commit() uses the cached handles, so it takes the commit lock without the catalog.
LockCommit(t) ==
    /\ (Ready(t) /\ t \notin Draws) \/ tpc[t] = "drawn"
    /\ commit = None
    /\ commit' = t
    /\ tpc' = [tpc EXCEPT ![t] = "applying"]
    /\ UNCHANGED <<access, handle, seqLock, seqs, slipped>> /\ UNCHANGED catalogVars

\* The engines a handle reaches: those of a dropped table are gone, and an index
\* made since is not known to it.
Reaches(t, i) == schema[Uses[t][i]] # "none" /\ handle[t][i].gen = tables[Uses[t][i]].gen
UsedBy(t) == {Uses[t][i] : i \in {j \in DOMAIN handle[t] : Reaches(t, j)}}
Knows(t, b) == \E i \in DOMAIN handle[t] : Uses[t][i] = b /\ handle[t][i].index
\* commit() writes through the handles it cached; it does not resolve tables again.
Reresolved(t) == handle[t] # <<>> /\ holder = None
Cached(t) == handle[t] # <<>>
\* The commit lock goes with its guard.
Unlocked(t) == None
Apply(t) ==
    /\ tpc[t] = "applying" /\ Cached(t)
    /\ row' = [b \in Tables |-> IF b \in UsedBy(t) THEN Value[t] ELSE row[b]]
    /\ entries' = [b \in Tables |->
                      IF b \in UsedBy(t) /\ Knows(t, b) /\ entries[b] # NoDir
                      THEN (entries[b] \ {row[b]}) \cup {Value[t]} ELSE entries[b]]
    /\ suspect' = IF t \in slipped THEN suspect \cup UsedBy(t) ELSE suspect
    /\ \E full \in BOOLEAN :
          /\ full => Checkpoints
          /\ tpc' = [tpc EXCEPT ![t] = IF full THEN "checkpoint" ELSE "ended"]
          /\ commit' = IF full THEN t ELSE Unlocked(t)
    /\ UNCHANGED <<tables, schema, holder, dpc, access, handle, seqLock, seqs, slipped, count>>

\* checkpoint_locked walks the catalog while its transaction holds the commit lock.
Checkpoint(t) ==
    /\ tpc[t] = "checkpoint" /\ holder = None
    /\ tpc' = [tpc EXCEPT ![t] = "ended"]
    /\ commit' = Unlocked(t)
    /\ UNCHANGED <<access, handle, seqLock, seqs, slipped>> /\ UNCHANGED catalogVars

NotReleased(t) == access
Released(t) == [b \in Tables |-> access[b] \ {t}]
\* Drop: unregister_transaction, once the commit returned or an error ended the
\* transaction, or when its owner gives up.  It prunes the commit history first, for
\* which it needs the commit lock.
Unregister(t) ==
    /\ commit = None
    /\ tpc' = [tpc EXCEPT ![t] = "gone"]
    /\ access' = Released(t)
    /\ UNCHANGED <<handle, seqLock, seqs, commit, slipped>> /\ UNCHANGED catalogVars
End(t) == tpc[t] = "ended" /\ Unregister(t)
Rollback(t) == tpc[t] \in {"running", "drawn"} /\ Unregister(t)
-----------------------------------------------------------------------------
(* Statements.  A statement goes through "waiting" (for the table's readers),
   "quiet", "filled" (CREATE INDEX only), "saved" (durable) and "done". *)

txnVars == <<tpc, handle, seqLock, commit, slipped>>

Accepts(d) ==
    CASE Kind[d] = "create"       -> ~tables[On[d]].live
      [] Kind[d] = "create_index" -> tables[On[d]].live /\ ~tables[On[d]].index
      [] Kind[d] = "drop_index"   -> tables[On[d]].live /\ tables[On[d]].index
      [] OTHER                    -> tables[On[d]].live

\* CREATE INDEX makes its directory, or opens the one it finds, before it waits.
Take(d) ==
    LET b == On[d]
    IN  /\ dpc[d] = "new" /\ holder = None /\ Accepts(d)
        /\ holder' = d
        /\ dpc' = [dpc EXCEPT ![d] = IF Kind[d] = "create" THEN "quiet" ELSE "waiting"]
        /\ IF Kind[d] = "create_index"
           THEN /\ entries' = [entries EXCEPT ![b] = IF @ = NoDir THEN {} ELSE @]
                /\ suspect' = IF entries[b] = NoDir THEN suspect ELSE suspect \cup {b}
           ELSE UNCHANGED <<entries, suspect>>
        /\ UNCHANGED <<tables, schema, row, access, seqs, count>> /\ UNCHANGED txnVars

Reject(d) ==
    /\ dpc[d] = "new" /\ holder = None /\ ~Accepts(d)
    /\ dpc' = [dpc EXCEPT ![d] = "done"]
    /\ UNCHANGED <<tables, schema, row, entries, holder, access, seqs, suspect, count>>
    /\ UNCHANGED txnVars

\* wait_for_table_quiescent, and the same loop in the other statements.
NeverMind(b) == TRUE
Quiescent(b) == access[b] = {}
Quiesce(d) ==
    /\ dpc[d] = "waiting" /\ Quiescent(On[d])
    /\ dpc' = [dpc EXCEPT ![d] = "quiet"]
    /\ UNCHANGED <<tables, schema, row, entries, holder, access, seqs, suspect, count>>
    /\ UNCHANGED txnVars

\* CREATE INDEX: the entries of the existing rows, flushed.
NoBackfill(b) == {}
Backfill(b) == {row[b]} \ {Absent}
Fill(d) ==
    /\ dpc[d] = "quiet" /\ Kind[d] = "create_index"
    /\ entries' = [entries EXCEPT ![On[d]] = @ \cup Backfill(On[d])]
    /\ dpc' = [dpc EXCEPT ![d] = "filled"]
    /\ UNCHANGED <<tables, schema, row, holder, access, seqs, suspect, count>>
    /\ UNCHANGED txnVars

ToSave(d) == dpc[d] = IF Kind[d] = "create_index" THEN "filled" ELSE "quiet"

\* The durable step: schema.bin is replaced, or the table's directory renamed away.
Unsaved(d) == schema[On[d]]
SchemaAfter(d) ==
    CASE Kind[d] \in {"create", "drop_index"} -> "plain"
      [] Kind[d] = "drop"                     -> "none"
      [] Kind[d] = "create_index"             -> "indexed"
      [] OTHER                                -> schema[On[d]]
Save(d) ==
    LET b == On[d]
    IN  /\ ToSave(d)
        /\ schema' = [schema EXCEPT ![b] = SchemaAfter(d)]
        /\ IF Kind[d] = "drop"
           THEN /\ row' = [row EXCEPT ![b] = Absent]
                /\ entries' = [entries EXCEPT ![b] = NoDir]
                /\ suspect' = suspect \ {b}
           ELSE UNCHANGED <<row, entries, suspect>>
        /\ dpc' = [dpc EXCEPT ![d] = "saved"]
        /\ tables' = IF Kind[d] \in {"create", "drop"} THEN [tables EXCEPT ![b].gen = @ + 1]
                     ELSE tables
        /\ UNCHANGED <<holder, access, seqs, count>> /\ UNCHANGED txnVars

\* What the statement publishes in memory.
Published(d) ==
    [tables EXCEPT ![On[d]] =
        [live  |-> Kind[d] # "drop",
         index |-> CASE Kind[d] = "create_index" -> TRUE [] Kind[d] = "alter" -> @.index
                     [] OTHER -> FALSE,
         ver   |-> @.ver + 1,
         gen   |-> @.gen]]

\* DROP INDEX deletes the directory, DROP TABLE the access entry, CREATE TABLE takes
\* the sequences lock; the write lock goes with the guard.
Finish(d) ==
    LET b == On[d]
    IN  /\ dpc[d] = "saved"
        /\ Kind[d] = "create" => seqLock = None
        /\ tables' = Published(d)
        /\ entries' = IF Kind[d] = "drop_index" THEN [entries EXCEPT ![b] = NoDir] ELSE entries
        /\ access' = IF Kind[d] = "drop" THEN [access EXCEPT ![b] = {}] ELSE access
        /\ seqs' = IF Kind[d] = "create" THEN seqs \cup {b} ELSE seqs
        /\ dpc' = [dpc EXCEPT ![d] = "done"]
        /\ holder' = None
        /\ UNCHANGED <<schema, row, suspect, count>> /\ UNCHANGED txnVars

\* An I/O error ends the statement where it is: DROP TABLE has taken the table out
\* of the map and DROP INDEX the index out of the table by then, the others have
\* published nothing.  The directories keep whatever was there.
Fail(d) ==
    LET b == On[d]
    IN  /\ dpc[d] \in {"quiet", "filled", "saved"}
        /\ count.faults < MaxFaults
        /\ count' = [count EXCEPT !.faults = @ + 1]
        /\ tables' = IF Kind[d] \in {"drop", "drop_index"} THEN Published(d) ELSE tables
        /\ suspect' = IF Kind[d] = "drop_index" \/ schema[b] = "indexed"
                      THEN suspect \cup {b} ELSE suspect
        /\ dpc' = [dpc EXCEPT ![d] = "failed"]
        /\ holder' = None
        /\ UNCHANGED <<schema, row, entries, access, seqs>> /\ UNCHANGED txnVars

\* The process dies and the database is opened: the catalog is what the
\* directories hold, sequences come from the rows.
Crash ==
    /\ count.crashes < MaxCrashes
    /\ count' = [count EXCEPT !.crashes = @ + 1]
    /\ tables' = [b \in Tables |-> [tables[b] EXCEPT !.live = schema[b] # "none",
                                                     !.index = schema[b] = "indexed"]]
    /\ seqs' = {b \in Tables : row[b] # Absent}
    /\ holder' = None /\ seqLock' = None /\ commit' = None
    /\ dpc' = [d \in Stmts |-> IF dpc[d] = "new" THEN "new" ELSE "done"]
    /\ tpc' = [t \in Txns |-> IF tpc[t] = "running" /\ handle[t] = <<>> THEN "running" ELSE "gone"]
    /\ handle' = [t \in Txns |-> <<>>]
    /\ access' = [b \in Tables |-> {}]
    /\ UNCHANGED <<schema, row, entries, slipped, suspect>>
-----------------------------------------------------------------------------
Transact(t) == Resolve(t) \/ Register(t) \/ Draw(t) \/ DrawResolve(t) \/ LockCommit(t) \/ Apply(t)
               \/ Checkpoint(t) \/ End(t)
Execute(d) == Take(d) \/ Reject(d) \/ Quiesce(d) \/ Fill(d) \/ Save(d) \/ Finish(d) \/ Fail(d)

Next == (\E t \in Txns : Transact(t) \/ Rollback(t)) \/ (\E d \in Stmts : Execute(d)) \/ Crash

\* Threads run, and whoever owns a transaction goes on with it and drops it; nothing
\* makes anyone give up one that waits for a lock.
Fairness == /\ \A t \in Txns : WF_vars(Transact(t))
            /\ \A d \in Stmts : WF_vars(Execute(d))

Spec == Init /\ [][Next]_vars
FairSpec == Spec /\ Fairness
-----------------------------------------------------------------------------
(* Properties. *)

\* The variables keep their shapes, and each lock belongs to a thread at a step
\* that holds it.
TypeOK ==
    /\ \A b \in Tables : /\ tables[b].live \in BOOLEAN /\ tables[b].index \in BOOLEAN
                         /\ tables[b].ver \in Nat /\ tables[b].gen \in Nat
                         /\ access[b] \subseteq Txns
    /\ schema \in [Tables -> {"none", "plain", "indexed"}]
    /\ \A d \in Stmts : holder = d <=> dpc[d] \in {"waiting", "quiet", "filled", "saved"}
    /\ \A t \in Txns : /\ seqLock = t <=> tpc[t] = "drawing"
                       /\ commit = t <=> tpc[t] \in {"applying", "checkpoint"}
    /\ seqs \subseteq Tables /\ slipped \subseteq Txns /\ suspect \subseteq Tables

\* The transactions that hold a handle of the statement's table when its swap
\* becomes durable.
Holders(b) == {t \in Txns : tpc[t] # "gone" /\ \E i \in DOMAIN handle[t] : Uses[t][i] = b}
Swap(d) == dpc[d] # "saved" /\ dpc'[d] = "saved" /\ Kind[d] # "create"

\* A statement changes a table only when every transaction that registered with it
\* is gone; only those that resolved it just before the statement and had not
\* registered yet may still hold a handle.
Drained ==
    [][\A d \in Stmts : Swap(d) =>
           \A t \in Holders(On[d]) : t \in slipped \/ tpc[t] = "resolved"]_vars

\* "the caller holds the `tables` write lock (so no *new* transaction can resolve
\* the table), and this drains the transactions already reading it before the
\* schema is swapped" (wait_for_table_quiescent): no exception.
DrainedFully == [][\A d \in Stmts : Swap(d) => Holders(On[d]) = {}]_vars

\* Every index a query can use holds exactly the entries of its table's rows, after
\* any statements, crashes and commits; indexes built over a leftover directory or
\* behind the back of a transaction apart.
Matches(b) == tables[b].index /\ tables[b].live => entries[b] = {row[b]} \ {Absent}
IndexMatches == holder = None => \A b \in Tables \ suspect : Matches(b)

\* create_index persists the schema "only after the index data is durable" so that a
\* crash cannot leave an index "silently corrupting any queries that consult it":
\* the same without the exception for leftover directories, as long as no
\* transaction slipped past a statement.
IndexAlwaysMatches == holder = None /\ slipped = {} => \A b \in Tables : Matches(b)

\* A restart finds the catalog that was in memory, unless a statement on the table
\* failed; and the state is well typed, each lock held by the one that works under it.
CatalogDurable ==
    /\ TypeOK
    /\ holder = None => \A b \in Tables : (\A d \in Stmts : On[d] = b => dpc[d] # "failed") =>
          /\ tables[b].live <=> schema[b] # "none"
          /\ tables[b].index <=> schema[b] = "indexed"

\* Every statement returns once the transactions before it are done.
EveryStatementReturns == \A d \in Stmts : dpc[d] = "waiting" ~> dpc[d] \in {"done", "failed"}

\* "a commit that runs concurrently with a DDL write-locking the catalog can still
\* complete and release its active_table_access slot" (Transaction.cached_tables).
EveryCommitCompletes == \A t \in Txns : tpc[t] = "applying" ~> tpc[t] = "gone"
=============================================================================
