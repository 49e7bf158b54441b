---------------------------- MODULE CatalogProofs ----------------------------
(***************************************************************************)
(* wait_for_table_quiescent drains a table: for any transactions, tables   *)
(* and statements, through crashes and I/O errors, the only transactions   *)
(* that can hold a handle of a table being changed are those that had not  *)
(* registered when the statement looked for readers.  Hence the catalog in *)
(* memory is the one a restart finds, and an index holds what its table    *)
(* holds.                                                                  *)
(***************************************************************************)
EXTENDS Catalog, SequenceTheorems, TLAPS

Descriptor == [live : BOOLEAN, index : BOOLEAN, ver : Nat, gen : Nat]

Shapes ==
    /\ tables \in [Tables -> Descriptor]
    /\ dpc \in [Stmts -> {"new", "waiting", "quiet", "filled", "saved", "done", "failed"}]
    /\ tpc \in [Txns -> {"running", "resolved", "drawing", "drawn", "applying", "checkpoint",
                         "ended", "gone"}]
    /\ access \in [Tables -> SUBSET Txns]
    /\ handle \in [Txns -> Seq(Descriptor)]
    /\ \A t \in Txns : Len(handle[t]) <= Len(Uses[t])

\* Behind the wait of a statement only transactions that slipped past it register.
QuietMeansSlipped ==
    \A d \in Stmts : dpc[d] \in {"quiet", "filled", "saved"} /\ Kind[d] # "create" =>
        access[On[d]] \subseteq slipped

\* Whoever holds a handle is registered, or slipped past a statement, or is about
\* to register this very handle.
HeldIsRegistered ==
    \A t \in Txns : tpc[t] # "gone" =>
        \A i \in DOMAIN handle[t] :
            \/ t \in access[Uses[t][i]]
            \/ t \in slipped
            \/ tpc[t] = "resolved" /\ i = Len(handle[t])

DInv == Shapes /\ QuietMeansSlipped /\ HeldIsRegistered

\* The tables of a transaction's handles are tables of the catalog.
LEMMA UsesFacts ==
    ASSUME Shapes, NEW t \in Txns
    PROVE  /\ Uses[t] \in Seq(Tables) /\ Len(Uses[t]) \in Nat /\ Len(handle[t]) \in Nat
           /\ DOMAIN handle[t] = 1 .. Len(handle[t])
           /\ \A i \in DOMAIN handle[t] : Uses[t][i] \in Tables
<1>1. handle[t] \in Seq(Descriptor) /\ Uses[t] \in Seq(Tables)
      /\ Len(handle[t]) <= Len(Uses[t])
  BY CatalogAssumption DEF Shapes
<1>2. Len(Uses[t]) \in Nat /\ Len(handle[t]) \in Nat /\ DOMAIN handle[t] = 1 .. Len(handle[t])
  BY <1>1, LenProperties
<1>3. \A i \in 1 .. Len(Uses[t]) : Uses[t][i] \in Tables
  BY <1>1, ElementOfSeq
<1> QED
  BY <1>1, <1>2, <1>3

LEMMA InitDInv == Init => DInv
<1> SUFFICES ASSUME Init PROVE DInv
  OBVIOUS
<1>1. Shapes
  <2>1. handle \in [Txns -> Seq(Descriptor)]
    BY EmptySeq DEF Init
  <2>2. \A t \in Txns : Len(handle[t]) <= Len(Uses[t])
    BY CatalogAssumption, LenProperties DEF Init
  <2> QED
    BY <2>1, <2>2 DEF Init, Shapes, Descriptor
<1>2. QuietMeansSlipped
  BY DEF Init, QuietMeansSlipped
<1>3. HeldIsRegistered
  BY DEF Init, HeldIsRegistered
<1> QED
  BY <1>1, <1>2, <1>3 DEF DInv

LEMMA ResolveDInv == ASSUME DInv, NEW t \in Txns, Resolve(t) PROVE DInv'
<1> USE DEF DInv
<1>1. UNCHANGED <<tables, dpc, access, slipped>>
  BY DEF Resolve, catalogVars
<1>2. CASE handle' = handle
  <2>1. tpc' = [tpc EXCEPT ![t] = "ended"] \/ tpc' = [tpc EXCEPT ![t] = "resolved"]
    BY DEF Resolve
  <2>2. tpc[t] = "running"
    BY DEF Resolve, Unresolved
  <2> QED
    BY <1>1, <1>2, <2>1, <2>2, Zenon DEF Shapes, QuietMeansSlipped, HeldIsRegistered
<1>3. CASE handle' # handle
  <2> DEFINE n == Len(handle[t])
             b == NextTable(t)
  <2>1. /\ tpc[t] = "running" /\ n < Len(Uses[t])
        /\ handle' = [handle EXCEPT ![t] = Append(handle[t], tables[b])]
        /\ tpc' = [tpc EXCEPT ![t] = "resolved"]
    BY <1>3 DEF Resolve, Unresolved
  <2>2. /\ n \in Nat /\ n + 1 \in 1 .. Len(Uses[t]) /\ Uses[t] \in Seq(Tables)
        /\ DOMAIN handle[t] = 1 .. n /\ handle[t] \in Seq(Descriptor)
    BY <2>1, UsesFacts DEF Shapes
  <2>3. tables[b] \in Descriptor
    BY <2>2, ElementOfSeq DEF NextTable, Shapes
  <2>4. /\ handle'[t] \in Seq(Descriptor) /\ Len(handle'[t]) = n + 1
        /\ DOMAIN handle'[t] = 1 .. n + 1
    BY <2>1, <2>2, <2>3, AppendProperties, LenProperties DEF Shapes
  <2>5. \A u \in Txns : u # t => handle'[u] = handle[u] /\ tpc'[u] = tpc[u]
    BY <2>1 DEF Shapes
  <2>6. Shapes'
    BY <1>1, <2>1, <2>2, <2>4, <2>5 DEF Shapes
  <2>7. QuietMeansSlipped'
    BY <1>1 DEF QuietMeansSlipped
  <2>8. HeldIsRegistered'
    BY <1>1, <2>1, <2>2, <2>4, <2>5 DEF HeldIsRegistered, Shapes
  <2> QED
    BY <2>6, <2>7, <2>8
<1> QED
  BY <1>2, <1>3

LEMMA RegisterDInv == ASSUME DInv, NEW t \in Txns, Register(t) PROVE DInv'
<1> USE DEF DInv
<1> DEFINE b == Uses[t][Len(handle[t])]
<1>1. /\ UNCHANGED <<tables, dpc, handle>> /\ tpc[t] = "resolved"
      /\ access' = [access EXCEPT ![b] = @ \cup {t}]
      /\ tpc' = [tpc EXCEPT ![t] = "running"]
      /\ slipped \subseteq slipped'
      /\ Swapping(b) => t \in slipped'
  BY DEF Register, catalogVars
<1> HIDE DEF b
<1>2. \A c \in Tables : access[c] \subseteq access'[c] /\ access'[c] \subseteq access[c] \cup {t}
                        /\ (c # b => access'[c] = access[c]) /\ (c = b => t \in access'[c])
  BY <1>1 DEF Shapes
<1>3. Shapes'
  BY <1>1, Zenon DEF Shapes
<1>4. QuietMeansSlipped'
  <2>1. \A d \in Stmts : On[d] \in Tables
    BY CatalogAssumption
  <2> QED
    BY <1>1, <1>2, <2>1 DEF QuietMeansSlipped, Swapping
<1>5. HeldIsRegistered'
  <2> SUFFICES ASSUME NEW u \in Txns, tpc'[u] # "gone", NEW i \in DOMAIN handle[u]
               PROVE  \/ u \in access'[Uses[u][i]]
                      \/ u \in slipped'
                      \/ tpc'[u] = "resolved" /\ i = Len(handle[u])
    BY <1>1 DEF HeldIsRegistered
  <2>1. Uses[u][i] \in Tables
    BY UsesFacts
  <2>2. tpc[u] # "gone" /\ (u # t => tpc'[u] = tpc[u])
    BY <1>1 DEF Shapes
  <2>3. \/ u \in access[Uses[u][i]] \/ u \in slipped
        \/ tpc[u] = "resolved" /\ i = Len(handle[u])
    BY <2>2 DEF HeldIsRegistered
  <2>4. u = t /\ i = Len(handle[u]) => u \in access'[Uses[u][i]]
    BY <1>2, <2>1 DEF b
  <2> QED
    BY <1>1, <1>2, <2>1, <2>2, <2>3, <2>4
<1> QED
  BY <1>3, <1>4, <1>5

\* The other steps of a transaction that is not dropped leave handles, registrations
\* and statements alone and do not resolve anything.
LEMMA TransactDInv ==
    ASSUME DInv, NEW t \in Txns,
           Draw(t) \/ DrawResolve(t) \/ LockCommit(t) \/ Apply(t) \/ Checkpoint(t)
    PROVE  DInv'
<1>1. /\ UNCHANGED <<tables, dpc, access, handle, slipped>>
      /\ tpc[t] \notin {"resolved", "gone"}
      /\ \E s \in {"drawing", "drawn", "applying", "checkpoint", "ended"} :
            tpc' = [tpc EXCEPT ![t] = s]
  BY DEF Draw, DrawResolve, LockCommit, Apply, Checkpoint, Ready, catalogVars
<1> QED
  BY <1>1 DEF DInv, Shapes, QuietMeansSlipped, HeldIsRegistered

LEMMA UnregisterDInv == ASSUME DInv, NEW t \in Txns, Unregister(t) PROVE DInv'
<1> USE DEF DInv
<1>1. /\ UNCHANGED <<tables, dpc, handle, slipped>>
      /\ tpc' = [tpc EXCEPT ![t] = "gone"]
      /\ access' = [b \in Tables |-> access[b] \ {t}]
  BY DEF Unregister, Released, catalogVars
<1>2. Shapes'
  BY <1>1 DEF Shapes
<1>3. QuietMeansSlipped'
  BY <1>1, CatalogAssumption DEF QuietMeansSlipped
<1>4. HeldIsRegistered'
  BY <1>1, UsesFacts DEF HeldIsRegistered, Shapes
<1> QED
  BY <1>2, <1>3, <1>4

\* A statement at work: every step but the last of a DROP TABLE leaves access alone.
LEMMA ExecuteDInv == ASSUME DInv, NEW d \in Stmts, Execute(d) PROVE DInv'
<1> USE DEF DInv
<1>1. UNCHANGED <<tpc, handle, slipped>> /\ On[d] \in Tables
      /\ Kind[d] \in {"create", "drop", "alter", "create_index", "drop_index"}
  BY CatalogAssumption DEF Execute, Take, Reject, Quiesce, Fill, Save, Finish, Fail, txnVars
<1>2. Published(d) \in [Tables -> Descriptor]
  <2> DEFINE old == tables[On[d]]
             index == CASE Kind[d] = "create_index" -> TRUE [] Kind[d] = "alter" -> old.index
                        [] OTHER -> FALSE
             new == [live |-> Kind[d] # "drop", index |-> index, ver |-> old.ver + 1,
                     gen |-> old.gen]
  <2>1. old.index \in BOOLEAN /\ old.ver \in Nat /\ old.gen \in Nat
    BY <1>1 DEF Shapes, Descriptor
  <2>2. index \in BOOLEAN
    BY <1>1, <2>1, Zenon
  <2>3. old.ver + 1 \in Nat
    BY <2>1
  <2> HIDE DEF index
  <2>4. new \in Descriptor
    BY <2>1, <2>2, <2>3 DEF Descriptor
  <2>5. Published(d) = [tables EXCEPT ![On[d]] = new]
    BY DEF Published, index
  <2> QED
    BY <2>4, <2>5, Zenon DEF Shapes
<1>3. tables' \in [Tables -> Descriptor]
  <2>1. CASE Save(d)
    <3>1. tables' = tables \/ tables' = [tables EXCEPT ![On[d]] =
                                            [tables[On[d]] EXCEPT !.gen = @ + 1]]
      BY <2>1 DEF Save
    <3>2. [tables[On[d]] EXCEPT !.gen = @ + 1] \in Descriptor
      <4>1. ASSUME NEW r \in Descriptor PROVE [r EXCEPT !.gen = @ + 1] \in Descriptor
        BY DEF Descriptor
      <4>2. tables[On[d]] \in Descriptor
        BY <1>1 DEF Shapes
      <4> QED
        BY <4>1, <4>2
    <3> QED
      BY <3>1, <3>2 DEF Shapes
  <2>2. CASE Take(d) \/ Reject(d) \/ Quiesce(d) \/ Fill(d)
    BY <2>2 DEF Shapes, Take, Reject, Quiesce, Fill
  <2>3. CASE Finish(d) \/ Fail(d)
    BY <1>2, <2>3 DEF Shapes, Finish, Fail
  <2> QED
    BY <2>1, <2>2, <2>3 DEF Execute
<1>4. CASE Take(d) \/ Reject(d) \/ Quiesce(d) \/ Fill(d) \/ Save(d) \/ Fail(d)
  <2>1. /\ access' = access
        /\ \E s \in {"waiting", "quiet", "filled", "saved", "done", "failed"} :
              /\ dpc' = [dpc EXCEPT ![d] = s]
              /\ s \in {"quiet", "filled", "saved"} /\ Kind[d] # "create" =>
                    dpc[d] \in {"quiet", "filled", "saved"} \/ access[On[d]] = {}
    BY <1>4 DEF Take, Reject, Quiesce, Quiescent, Fill, Save, ToSave, Fail
  <2> QED
    BY <1>1, <1>3, <2>1 DEF Shapes, QuietMeansSlipped, HeldIsRegistered
<1>5. CASE Finish(d)
  <2>1. /\ dpc[d] = "saved" /\ dpc' = [dpc EXCEPT ![d] = "done"]
        /\ access' = IF Kind[d] = "drop" THEN [access EXCEPT ![On[d]] = {}] ELSE access
    BY <1>5 DEF Finish
  <2>2. Kind[d] = "drop" => access[On[d]] \subseteq slipped
    BY <2>1 DEF QuietMeansSlipped
  <2>3. \A b \in Tables : access'[b] \subseteq access[b]
                          /\ (access'[b] = access[b] \/ access[b] \subseteq slipped)
    BY <1>1, <2>1, <2>2 DEF Shapes
  <2>4. Shapes'
    BY <1>1, <1>3, <2>1 DEF Shapes
  <2>5. QuietMeansSlipped'
    BY <1>1, <2>1, <2>3, CatalogAssumption DEF QuietMeansSlipped, Shapes
  <2>6. HeldIsRegistered'
    BY <1>1, <2>3, UsesFacts DEF HeldIsRegistered
  <2> QED
    BY <2>4, <2>5, <2>6
<1> QED
  BY <1>4, <1>5 DEF Execute

LEMMA CrashDInv == ASSUME DInv, Crash PROVE DInv'
<1>1. \A t \in Txns : handle'[t] = <<>>
  BY Zenon DEF Crash
<1>2. Shapes'
  <2>1. handle' \in [Txns -> Seq(Descriptor)]
    BY EmptySeq, Zenon DEF Crash
  <2>2. \A t \in Txns : Len(handle'[t]) <= Len(Uses[t])
    BY <1>1, CatalogAssumption, LenProperties
  <2>3. tables' \in [Tables -> Descriptor]
    <3>1. \A b \in Tables : tables[b] \in Descriptor
      BY DEF DInv, Shapes
    <3>2. \A b \in Tables : [tables[b] EXCEPT !.live = schema[b] # "none",
                                             !.index = schema[b] = "indexed"] \in Descriptor
      BY <3>1, Zenon DEF Descriptor
    <3> QED
      BY <3>2, Zenon DEF Crash
  <2> QED
    BY <2>1, <2>2, <2>3, Zenon DEF Crash, DInv, Shapes
<1>3. QuietMeansSlipped'
  BY Zenon DEF Crash, QuietMeansSlipped
<1>4. HeldIsRegistered'
  BY <1>1 DEF HeldIsRegistered
<1> QED
  BY <1>2, <1>3, <1>4 DEF DInv

\* DInv is inductive.
LEMMA StepDInv == DInv /\ [Next]_vars => DInv'
<1> SUFFICES ASSUME DInv, [Next]_vars PROVE DInv'
  OBVIOUS
<1>1. CASE UNCHANGED vars
  BY <1>1 DEF vars, DInv, Shapes, QuietMeansSlipped, HeldIsRegistered
<1>2. ASSUME NEW t \in Txns, Transact(t) \/ Rollback(t) PROVE DInv'
  BY <1>2, ResolveDInv, RegisterDInv, TransactDInv, UnregisterDInv
  DEF Transact, End, Rollback
<1>3. ASSUME NEW d \in Stmts, Execute(d) PROVE DInv'
  BY <1>3, ExecuteDInv
<1>4. CASE Crash
  BY <1>4, CrashDInv
<1> QED
  BY <1>1, <1>2, <1>3, <1>4 DEF Next

\* Only the durable step of the statement itself takes it to "saved".
LEMMA SwapIsSave ==
    ASSUME DInv, [Next]_vars, NEW d \in Stmts, Swap(d)
    PROVE  dpc[d] \in {"quiet", "filled"} /\ Kind[d] # "create"
<1> USE DEF Swap, DInv, Shapes
<1>1. CASE UNCHANGED dpc
  BY <1>1
<1>2. ASSUME NEW e \in Stmts, Execute(e) PROVE dpc[d] \in {"quiet", "filled"}
  BY <1>2 DEF Execute, Take, Reject, Quiesce, Fill, Save, ToSave, Finish, Fail
<1>3. CASE Crash
  BY <1>3, Zenon DEF Crash
<1>4. ASSUME NEW t \in Txns, Transact(t) \/ Rollback(t) PROVE UNCHANGED dpc
  BY <1>4, Zenon
  DEF Transact, Resolve, Register, Draw, DrawResolve, LockCommit, Apply, Checkpoint,
              End, Rollback, Unregister, catalogVars
<1> QED
  BY <1>1, <1>2, <1>3, <1>4 DEF Next, vars

\* A statement makes its change durable only when every transaction registered with
\* its table is gone (wait_for_table_quiescent and the loops like it), however
\* many transactions, tables and statements there are.
THEOREM DrainedAlways == Spec => Drained
<1>1. DInv /\ [Next]_vars =>
        [\A d \in Stmts : Swap(d) =>
            \A t \in Holders(On[d]) : t \in slipped \/ tpc[t] = "resolved"]_vars
  <2> SUFFICES ASSUME DInv, [Next]_vars, NEW d \in Stmts, Swap(d), NEW t \in Holders(On[d])
               PROVE  t \in slipped \/ tpc[t] = "resolved"
    OBVIOUS
  <2>1. access[On[d]] \subseteq slipped
    BY SwapIsSave DEF DInv, QuietMeansSlipped
  <2> QED
    BY <2>1 DEF DInv, HeldIsRegistered, Holders
<1> QED
  BY <1>1, InitDInv, StepDInv, PTL DEF Spec, Drained
-----------------------------------------------------------------------------
(* The catalog in memory, on disk and in the index directories. *)

AtWork(d) == dpc[d] \in {"waiting", "quiet", "filled", "saved"}

\* Each lock belongs to the thread at a step that holds it.
Owners ==
    /\ holder = None \/ holder \in Stmts
    /\ \A d \in Stmts : holder = d <=> AtWork(d)
    /\ \A t \in Txns : /\ seqLock = t <=> tpc[t] = "drawing"
                       /\ commit = t <=> tpc[t] \in {"applying", "checkpoint"}
Sets ==
    /\ schema \in [Tables -> {"none", "plain", "indexed"}]
    /\ seqs \subseteq Tables /\ slipped \subseteq Txns /\ suspect \subseteq Tables
    /\ DOMAIN entries = Tables /\ DOMAIN row = Tables

\* What a statement checked first still holds when it goes on.
StillAccepted == \A d \in Stmts : AtWork(d) => Accepts(d)

\* Memory and disk agree about a table without failed statements, except behind the
\* durable step of a statement that is about to publish what it made durable.
Unfailed(b) == \A d \in Stmts : On[d] = b => dpc[d] # "failed"
Saved(b, kinds) == \E d \in Stmts : On[d] = b /\ dpc[d] = "saved" /\ Kind[d] \in kinds
Agree(b) == /\ tables[b].live <=> schema[b] # "none"
            /\ tables[b].index <=> schema[b] = "indexed"
Changing == {"create", "drop", "create_index", "drop_index"}
Publishable ==
    /\ \A b \in Tables : Unfailed(b) /\ ~Saved(b, Changing) => Agree(b)
    /\ \A d \in Stmts : dpc[d] = "saved" /\ Kind[d] # "alter" => schema[On[d]] = SchemaAfter(d)

\* A transaction that slipped past no statement has the current handles of the tables
\* it registered with.
Current ==
    \A t \in Txns \ slipped : tpc[t] # "gone" =>
        \A i \in DOMAIN handle[t] :
            /\ handle[t][i].live
            /\ handle[t][i] = tables[Uses[t][i]] \/ (tpc[t] = "resolved" /\ i = Len(handle[t]))

\* What the index directory of a table above suspicion holds, as the memory,
\* schema.bin and a CREATE INDEX at work see it.
Exact(b) == entries[b] = {row[b]} \ {Absent}
Remembered(b) == tables[b].index => /\ tables[b].live
                                    /\ schema[b] = "indexed" \/ Saved(b, {"drop", "drop_index"})
Recorded(b) == b \notin suspect /\ schema[b] = "indexed" =>
                   Exact(b) /\ (tables[b].index \/ Saved(b, {"create_index"}))
Building(d) == Kind[d] = "create_index" /\ On[d] \notin suspect =>
                   /\ dpc[d] \in {"waiting", "quiet"} => entries[On[d]] = {}
                   /\ dpc[d] = "filled" => Exact(On[d])
Indexes == /\ \A b \in Tables : Remembered(b) /\ Recorded(b)
           /\ \A d \in Stmts : Building(d)

CInv == DInv /\ Sets /\ Owners /\ StillAccepted /\ Publishable /\ Current /\ Indexes

LEMMA InitCInv == Init => CInv
<1> SUFFICES ASSUME Init PROVE CInv
  OBVIOUS
<1>1. DInv
  BY InitDInv
<1>2. Sets /\ Owners
  BY CatalogAssumption DEF Init, Sets, Owners, AtWork, None
<1>3. StillAccepted
  BY DEF Init, StillAccepted, AtWork
<1>4. Publishable
  BY DEF Init, Publishable, Agree
<1>5. Current
  BY DEF Init, Current
<1>6. Indexes
  BY DEF Init, Indexes, Remembered, Recorded, Building
<1> QED
  BY <1>1, <1>2, <1>3, <1>4, <1>5, <1>6 DEF CInv

\* A transaction's steps leave the catalog alone, but for the rows and entries that
\* a commit writes.
LEMMA CatalogFrame ==
    ASSUME CInv, UNCHANGED catalogVars
    PROVE  StillAccepted' /\ Publishable' /\ Indexes'
<1>1. UNCHANGED <<tables, schema, row, entries, dpc, suspect>>
  BY DEF catalogVars
<1>2. StillAccepted'
  BY <1>1 DEF CInv, StillAccepted, AtWork, Accepts
<1>3. Publishable'
  BY <1>1 DEF CInv, Publishable, Unfailed, Saved, Agree, SchemaAfter
<1>4. Indexes'
  BY <1>1 DEF CInv, Indexes, Remembered, Recorded, Building, Saved, Exact
<1> QED
  BY <1>2, <1>3, <1>4

Holding == {"drawing", "applying", "checkpoint"}
LEMMA OwnersFrame ==
    ASSUME CInv, NEW t \in Txns, UNCHANGED <<holder, dpc, seqLock, commit>>,
           NEW s, tpc' = [tpc EXCEPT ![t] = s], s \notin Holding, tpc[t] \notin Holding
    PROVE  Owners'
<1>1. \A u \in Txns : tpc'[u] = IF u = t THEN s ELSE tpc[u]
  BY DEF CInv, DInv, Shapes
<1> QED
  BY <1>1 DEF CInv, Owners, AtWork, Holding

LEMMA ResolveCInv == ASSUME CInv, NEW t \in Txns, Resolve(t) PROVE CInv'
<1>1. UNCHANGED catalogVars /\ UNCHANGED <<access, seqLock, seqs, commit, slipped>>
  BY DEF Resolve
<1>2. /\ tpc[t] = "running"
      /\ \/ tpc' = [tpc EXCEPT ![t] = "ended"] /\ UNCHANGED handle
         \/ /\ tpc' = [tpc EXCEPT ![t] = "resolved"]
            /\ handle' = [handle EXCEPT ![t] = Append(handle[t], tables[NextTable(t)])]
            /\ tables[NextTable(t)].live
  BY DEF Resolve, Unresolved
<1>3. DInv'
  BY ResolveDInv DEF CInv
<1>4. Sets' /\ Owners'
  BY <1>1, <1>2, OwnersFrame, Zenon DEF CInv, Sets, Holding, catalogVars
<1>5. Current'
  <2>1. CASE UNCHANGED handle
    BY <1>1, <1>2, <2>1 DEF CInv, DInv, Shapes, Current, catalogVars
  <2>2. CASE handle' # handle
    <3> DEFINE n == Len(handle[t])
               b == NextTable(t)
    <3>1. /\ handle' = [handle EXCEPT ![t] = Append(handle[t], tables[b])]
          /\ tpc' = [tpc EXCEPT ![t] = "resolved"] /\ tables[b].live
      BY <1>2, <2>2
    <3>2. /\ handle[t] \in Seq(Descriptor) /\ DOMAIN handle[t] = 1 .. n /\ n \in Nat
          /\ tables[b] \in Descriptor
      <4>1. n < Len(Uses[t]) /\ n \in Nat /\ Uses[t] \in Seq(Tables) /\ Len(Uses[t]) \in Nat
        BY UsesFacts DEF CInv, DInv, Resolve, Unresolved
      <4>2. b \in Tables
        BY <4>1, ElementOfSeq DEF NextTable
      <4> QED
        BY <4>2, UsesFacts DEF CInv, DInv, Shapes
    <3>3. /\ DOMAIN handle'[t] = 1 .. n + 1 /\ Len(handle'[t]) = n + 1
          /\ \A i \in 1 .. n : handle'[t][i] = handle[t][i]
          /\ handle'[t][n + 1] = tables[b]
      BY <3>1, <3>2, AppendProperties, LenProperties DEF CInv, DInv, Shapes
    <3>4. /\ \A u \in Txns : u # t => handle'[u] = handle[u] /\ tpc'[u] = tpc[u]
          /\ tpc'[t] = "resolved"
      BY <3>1 DEF CInv, DInv, Shapes
    <3>5. tables' = tables /\ slipped' = slipped
      BY <1>1 DEF catalogVars
    <3> HIDE DEF n, b
    <3>6. ASSUME t \notin slipped, NEW i \in 1 .. n + 1
          PROVE  /\ handle'[t][i].live
                 /\ handle'[t][i] = tables[Uses[t][i]] \/ i = n + 1
      <4>1. CASE i = n + 1
        BY <3>1, <3>3, <4>1
      <4>2. CASE i # n + 1
        <5>1. i \in 1 .. n
          BY <3>2, <4>2
        <5> QED
          BY <1>2, <3>2, <3>3, <3>6, <5>1 DEF CInv, Current
      <4> QED
        BY <4>1, <4>2
    <3> QED
      BY <3>3, <3>4, <3>5, <3>6 DEF CInv, Current
  <2> QED
    BY <2>1, <2>2
<1> QED
  BY <1>1, <1>3, <1>4, <1>5, CatalogFrame DEF CInv

LEMMA RegisterCInv == ASSUME CInv, NEW t \in Txns, Register(t) PROVE CInv'
<1>1. /\ UNCHANGED catalogVars /\ UNCHANGED <<handle, seqLock, seqs, commit>>
      /\ tpc[t] = "resolved" /\ tpc' = [tpc EXCEPT ![t] = "running"]
      /\ slipped' \in {slipped, slipped \cup {t}}
      /\ t \notin slipped' => handle[t][Len(handle[t])] = tables[Uses[t][Len(handle[t])]]
  BY DEF Register
<1>2. DInv'
  BY RegisterDInv DEF CInv
<1>3. Sets' /\ Owners'
  BY <1>1, OwnersFrame, Zenon DEF CInv, Sets, Holding, catalogVars
<1>4. Current'
  <2>1. \A u \in Txns : u # t => tpc'[u] = tpc[u]
    BY <1>1 DEF CInv, DInv, Shapes
  <2>2. tables' = tables /\ handle' = handle /\ slipped \subseteq slipped'
    BY <1>1 DEF catalogVars
  <2> QED
    BY <1>1, <2>1, <2>2 DEF CInv, Current
<1> QED
  BY <1>1, <1>2, <1>3, <1>4, CatalogFrame DEF CInv

\* A step that resolves nothing leaves handles current.
LEMMA CurrentFrame ==
    ASSUME CInv, NEW t \in Txns, UNCHANGED <<tables, handle, slipped>>, tpc[t] \notin {"resolved", "gone"},
           NEW s, tpc' = [tpc EXCEPT ![t] = s]
    PROVE  Current'
BY DEF CInv, DInv, Shapes, Current

LEMMA LocksCInv ==
    ASSUME CInv, NEW t \in Txns, Draw(t) \/ DrawResolve(t) \/ LockCommit(t) \/ Checkpoint(t)
    PROVE  CInv'
<1>1. DInv'
  BY TransactDInv DEF CInv
<1>2. UNCHANGED catalogVars /\ UNCHANGED <<access, handle, slipped>>
  BY DEF Draw, DrawResolve, LockCommit, Checkpoint
<1>3. PICK s \in {"drawing", "drawn", "applying", "ended"} : tpc' = [tpc EXCEPT ![t] = s]
  BY DEF Draw, DrawResolve, LockCommit, Checkpoint
<1>4. tpc[t] \notin {"resolved", "gone"}
  BY DEF Draw, DrawResolve, LockCommit, Checkpoint, Ready
<1>5. Current'
  BY <1>2, <1>3, <1>4, CurrentFrame, Zenon DEF catalogVars
<1>6. Sets'
  <2>1. seqs' \subseteq seqs \cup {Uses[t][1]} /\ Uses[t][1] \in Tables
    <3>1. Uses[t] \in Seq(Tables) /\ Uses[t] # <<>>
      BY CatalogAssumption
    <3>2. seqs' \subseteq seqs \cup {Uses[t][1]}
      BY Zenon DEF Draw, DrawResolve, LockCommit, Checkpoint
    <3> QED
      BY <3>1, <3>2
  <2> QED
    BY <1>2, <2>1, Zenon DEF CInv, Sets, catalogVars
<1>7. Owners'
  <2>1. UNCHANGED <<holder, dpc>> /\ None \notin Txns
    BY <1>2, CatalogAssumption DEF catalogVars, None
  <2>2. \A u \in Txns : u # t => tpc'[u] = tpc[u]
    BY <1>3 DEF CInv, DInv, Shapes
  <2>3. CASE Draw(t)
    <3>1. /\ tpc[t] = "running" /\ seqLock = None /\ commit' = commit
          /\ (tpc'[t] = "drawn" /\ seqLock' = None) \/ (tpc'[t] = "drawing" /\ seqLock' = t)
      BY <2>3, Zenon DEF Draw, Ready, CInv, DInv, Shapes
    <3> QED
      BY <2>1, <2>2, <3>1 DEF CInv, Owners, AtWork
  <2>4. CASE DrawResolve(t)
    <3>1. /\ tpc[t] = "drawing" /\ seqLock' = None /\ commit' = commit
          /\ tpc'[t] \in {"drawn", "ended"}
      BY <2>4, Zenon DEF DrawResolve, CInv, DInv, Shapes
    <3> QED
      BY <2>1, <2>2, <3>1, Zenon DEF CInv, Owners, AtWork
  <2>5. CASE LockCommit(t)
    <3>1. /\ tpc[t] \in {"running", "drawn"} /\ commit = None /\ commit' = t
          /\ tpc'[t] = "applying" /\ seqLock' = seqLock
      BY <2>5 DEF LockCommit, Ready, CInv, DInv, Shapes
    <3> QED
      BY <2>1, <2>2, <3>1, Zenon DEF CInv, Owners, AtWork
  <2>6. CASE Checkpoint(t)
    <3>1. /\ tpc[t] = "checkpoint" /\ commit' = None
          /\ tpc'[t] = "ended" /\ seqLock' = seqLock
      BY <2>6 DEF Checkpoint, Unlocked, CInv, DInv, Shapes
    <3> QED
      BY <2>1, <2>2, <3>1, Zenon DEF CInv, Owners, AtWork
  <2> QED
    BY <2>3, <2>4, <2>5, <2>6
<1> QED
  BY <1>1, <1>2, <1>5, <1>6, <1>7, CatalogFrame DEF CInv

LEMMA UnregisterCInv ==
    ASSUME CInv, NEW t \in Txns, End(t) \/ Rollback(t)
    PROVE  CInv'
<1>1. Unregister(t) /\ tpc[t] \in {"ended", "running", "drawn"}
  BY DEF End, Rollback
<1>2. DInv'
  BY <1>1, UnregisterDInv DEF CInv
<1>3. /\ UNCHANGED catalogVars /\ UNCHANGED <<handle, seqLock, seqs, commit, slipped>>
      /\ tpc' = [tpc EXCEPT ![t] = "gone"]
  BY <1>1 DEF Unregister
<1>4. Sets' /\ Owners'
  BY <1>1, <1>3, OwnersFrame, Zenon DEF CInv, Sets, Holding, catalogVars
<1>5. Current'
  BY <1>3 DEF CInv, DInv, Shapes, Current, catalogVars
<1> QED
  BY <1>2, <1>3, <1>4, <1>5, CatalogFrame DEF CInv

\* Behind the wait of a statement nobody holds a handle of its table, except those that
\* slipped past it or have still to register.
LEMMA NoReader ==
    ASSUME CInv, NEW d \in Stmts, dpc[d] \in {"quiet", "filled", "saved"},
           NEW t \in Txns, t \notin slipped, tpc[t] # "gone",
           NEW i \in DOMAIN handle[t], Uses[t][i] = On[d]
    PROVE  tpc[t] = "resolved" /\ i = Len(handle[t])
<1>1. CASE Kind[d] = "create"
  <2>1. ~tables[On[d]].live
    BY <1>1 DEF CInv, StillAccepted, AtWork, Accepts
  <2> QED
    BY <2>1 DEF CInv, Current
<1>2. CASE Kind[d] # "create"
  BY <1>2 DEF CInv, DInv, QuietMeansSlipped, HeldIsRegistered
<1> QED
  BY <1>1, <1>2

\* A commit keeps the indexes of the tables it writes, unless it slipped past a
\* statement.
LEMMA ApplyCInv == ASSUME CInv, NEW t \in Txns, Apply(t) PROVE CInv'
<1>1. /\ UNCHANGED <<tables, schema, holder, dpc, access, handle, seqLock, seqs, slipped>>
      /\ tpc[t] = "applying"
      /\ \A b \in Tables \ UsedBy(t) : row'[b] = row[b] /\ entries'[b] = entries[b]
      /\ \A b \in Tables \cap UsedBy(t) :
            /\ row'[b] = Value[t]
            /\ entries'[b] = IF Knows(t, b) /\ entries[b] # NoDir
                             THEN (entries[b] \ {row[b]}) \cup {Value[t]} ELSE entries[b]
      /\ suspect' = IF t \in slipped THEN suspect \cup UsedBy(t) ELSE suspect
  BY DEF Apply
<1>2. UsedBy(t) \subseteq Tables
  BY UsesFacts DEF CInv, DInv, UsedBy
<1>3. DInv'
  BY TransactDInv DEF CInv
<1>4. Sets'
  <2>1. DOMAIN row' = Tables /\ DOMAIN entries' = Tables
    BY Zenon DEF Apply
  <2> QED
    BY <1>1, <1>2, <2>1, Zenon DEF CInv, Sets
<1>5. Owners' /\ Current'
  <2>1. PICK s \in {"checkpoint", "ended"} :
          /\ tpc' = [tpc EXCEPT ![t] = s]
          /\ s = "checkpoint" => commit' = t
          /\ s = "ended" => commit' = None
    BY Zenon DEF Apply, Unlocked
  <2>2. tpc'[t] = s /\ \A u \in Txns : u # t => tpc'[u] = tpc[u]
    BY <2>1 DEF CInv, DInv, Shapes
  <2>3. None \notin Txns
    BY CatalogAssumption DEF None
  <2>4. Owners'
    BY <1>1, <2>1, <2>2, <2>3 DEF CInv, Owners, AtWork
  <2>5. Current'
    BY <1>1, <2>1, CurrentFrame, Zenon
  <2> QED
    BY <2>4, <2>5
<1>6. StillAccepted' /\ Publishable'
  BY <1>1
  DEF CInv, StillAccepted, AtWork, Accepts, Publishable, Unfailed, Saved, Agree, SchemaAfter
<1>7. ASSUME NEW b \in UsedBy(t), b \notin suspect'
      PROVE  /\ b \in Tables /\ t \notin slipped
             /\ Knows(t, b) <=> tables[b].index
             /\ \A d \in Stmts : On[d] = b => dpc[d] \notin {"quiet", "filled", "saved"}
  <2>1. t \notin slipped
    BY <1>1, <1>7
  <2>2. PICK i \in DOMAIN handle[t] : Uses[t][i] = b
    BY DEF UsedBy
  <2>3. \A j \in DOMAIN handle[t] : Uses[t][j] = b => handle[t][j] = tables[b]
    <3>1. tpc[t] \notin {"gone", "resolved"} /\ Current
      BY <1>1 DEF CInv
    <3> QED
      BY <2>1, <3>1, Zenon DEF Current
  <2>4. Knows(t, b) <=> tables[b].index
    BY <2>2, <2>3 DEF Knows
  <2>5. \A d \in Stmts : On[d] = b => dpc[d] \notin {"quiet", "filled", "saved"}
    BY <1>1, <2>1, <2>2, NoReader, Zenon
  <2> QED
    BY <1>2, <2>1, <2>4, <2>5
<1>8. ASSUME NEW b \in Tables PROVE Remembered(b)' /\ Recorded(b)'
  <2>1. Remembered(b) /\ Recorded(b)
    BY DEF CInv, Indexes
  <2>2. Remembered(b)'
    BY <1>1, <2>1, Zenon DEF Remembered, Saved
  <2>3. Recorded(b)'
    <3> SUFFICES ASSUME b \notin suspect', schema[b] = "indexed"
                 PROVE  Exact(b)' /\ (tables[b].index \/ Saved(b, {"create_index"}))
      BY <1>1, Zenon DEF Recorded, Saved
    <3>1. Exact(b) /\ (tables[b].index \/ Saved(b, {"create_index"}))
      BY <1>1, <2>1 DEF Recorded
    <3>2. CASE b \notin UsedBy(t)
      BY <1>1, <3>1, <3>2 DEF Exact
    <3>3. CASE b \in UsedBy(t)
      <4>1. Knows(t, b)
        BY <1>7, <3>1, <3>3, Zenon DEF Saved
      <4>2. Value[t] # Absent /\ entries[b] # NoDir
        BY <3>1, CatalogAssumption, Zenon DEF Exact, NoDir
      <4> QED
        BY <1>1, <3>1, <3>3, <4>1, <4>2, Zenon DEF Exact
    <3> QED
      BY <3>2, <3>3
  <2> QED
    BY <2>2, <2>3
<1>9. ASSUME NEW d \in Stmts PROVE Building(d)'
  <2> SUFFICES ASSUME Kind[d] = "create_index", On[d] \notin suspect'
               PROVE  /\ dpc[d] \in {"waiting", "quiet"} => entries'[On[d]] = {}
                      /\ dpc[d] = "filled" => Exact(On[d])'
    BY <1>1, Zenon DEF Building
  <2>1. /\ dpc[d] \in {"waiting", "quiet"} => entries[On[d]] = {}
        /\ dpc[d] = "filled" => Exact(On[d])
    BY <1>1, Zenon DEF CInv, Indexes, Building
  <2>2. On[d] \in Tables
    BY CatalogAssumption
  <2>3. CASE On[d] \notin UsedBy(t)
    BY <1>1, <2>1, <2>2, <2>3, Zenon DEF Exact
  <2>4. CASE On[d] \in UsedBy(t)
    <3>1. dpc[d] \notin {"quiet", "filled"} /\ (Knows(t, On[d]) <=> tables[On[d]].index)
      BY <1>7, <2>4
    <3>2. dpc[d] = "waiting" => ~tables[On[d]].index
      BY DEF CInv, StillAccepted, AtWork, Accepts
    <3> QED
      BY <1>1, <2>1, <2>2, <2>4, <3>1, <3>2, Zenon
  <2> QED
    BY <2>3, <2>4, Zenon
<1> QED
  BY <1>3, <1>4, <1>5, <1>6, <1>8, <1>9 DEF CInv, Indexes

\* Statements exclude each other by the tables write lock.
LEMMA Sole ==
    ASSUME CInv, NEW d \in Stmts
    PROVE  /\ AtWork(d) => \A e \in Stmts : e # d => ~AtWork(e)
           /\ holder = None => ~AtWork(d)
BY CatalogAssumption DEF CInv, Owners, None

LEMMA StatementFacts ==
    ASSUME CInv, NEW d \in Stmts, Execute(d)
    PROVE  /\ UNCHANGED <<tpc, handle, seqLock, commit, slipped>>
           /\ On[d] \in Tables
           /\ Kind[d] \in {"create", "drop", "alter", "create_index", "drop_index"}
           /\ \A e \in Stmts : e # d => dpc'[e] = dpc[e] /\ ~AtWork(e) /\ ~AtWork(e)'
<1>1. /\ UNCHANGED <<tpc, handle, seqLock, commit, slipped>>
      /\ \E s : dpc' = [dpc EXCEPT ![d] = s]
      /\ AtWork(d) \/ holder = None
  BY DEF Execute, Take, Reject, Quiesce, Fill, Save, ToSave, Finish, Fail, txnVars, AtWork
<1>2. On[d] \in Tables
      /\ Kind[d] \in {"create", "drop", "alter", "create_index", "drop_index"}
  BY CatalogAssumption
<1>3. \A e \in Stmts : e # d => dpc'[e] = dpc[e]
  BY <1>1 DEF CInv, DInv, Shapes
<1>4. \A e \in Stmts : e # d => ~AtWork(e)
  BY <1>1, Sole
<1> QED
  BY <1>1, <1>2, <1>3, <1>4 DEF AtWork

LEMMA StatementOwners ==
    ASSUME CInv, NEW d \in Stmts, Execute(d)
    PROVE  Owners' /\ Sets'
<1>1. /\ UNCHANGED <<tpc, seqLock, commit, slipped>> /\ On[d] \in Tables
      /\ \A e \in Stmts : e # d => ~AtWork(e) /\ ~AtWork(e)'
  BY StatementFacts
<1>2. None \notin Stmts
  BY CatalogAssumption DEF None
<1>3. \/ holder' = d /\ AtWork(d)'
      \/ holder' = None /\ ~AtWork(d)'
  <2>1. dpc \in [Stmts -> {"new", "waiting", "quiet", "filled", "saved", "done", "failed"}]
    BY DEF CInv, DInv, Shapes
  <2>2. CASE Take(d) \/ Reject(d)
    BY <2>1, <2>2, Zenon DEF Take, Reject, AtWork
  <2>3. CASE Quiesce(d) \/ Fill(d) \/ Save(d)
    <3>1. AtWork(d) /\ holder' = holder
      BY <2>3 DEF Quiesce, Fill, Save, ToSave, AtWork
    <3>2. AtWork(d)'
      BY <2>1, <2>3 DEF Quiesce, Fill, Save, AtWork
    <3> QED
      BY <3>1, <3>2 DEF CInv, Owners
  <2>4. CASE Finish(d) \/ Fail(d)
    BY <2>1, <2>4 DEF Finish, Fail, AtWork
  <2> QED
    BY <2>2, <2>3, <2>4 DEF Execute
<1>4. Owners'
  BY <1>1, <1>2, <1>3 DEF CInv, Owners
<1>5. /\ schema' \in [Tables -> {"none", "plain", "indexed"}]
      /\ seqs' \subseteq seqs \cup {On[d]} /\ suspect' \subseteq suspect \cup {On[d]}
  <2>1. schema[On[d]] \in {"none", "plain", "indexed"}
    BY <1>1 DEF CInv, Sets
  <2>2. SchemaAfter(d) \in {"none", "plain", "indexed"}
    BY <2>1 DEF SchemaAfter
  <2>3. schema' = schema \/ schema' = [schema EXCEPT ![On[d]] = SchemaAfter(d)]
    BY DEF Execute, Take, Reject, Quiesce, Fill, Save, Finish, Fail
  <2>4. seqs' \subseteq seqs \cup {On[d]} /\ suspect' \subseteq suspect \cup {On[d]}
    BY DEF Execute, Take, Reject, Quiesce, Fill, Save, Finish, Fail
  <2> QED
    BY <1>1, <2>2, <2>3, <2>4 DEF CInv, Sets
<1>6. DOMAIN entries' = Tables /\ DOMAIN row' = Tables
  <2>1. DOMAIN entries = Tables /\ DOMAIN row = Tables
    BY DEF CInv, Sets
  <2> QED
    BY <2>1 DEF Execute, Take, Reject, Quiesce, Fill, Save, Finish, Fail
<1>7. Sets'
  BY <1>1, <1>5, <1>6, Zenon DEF CInv, Sets
<1> QED
  BY <1>4, <1>7

\* What a statement that changes no descriptor leaves as it was.
LEMMA SameTables ==
    ASSUME CInv, NEW d \in Stmts, Execute(d), UNCHANGED <<tables, schema>>,
           dpc'[d] \notin {"saved", "failed"}, dpc[d] # "saved", Accepts(d) \/ ~AtWork(d)'
    PROVE  Current' /\ StillAccepted' /\ Publishable'
<1>1. /\ UNCHANGED <<tpc, handle, slipped>>
      /\ \A e \in Stmts : e # d => dpc'[e] = dpc[e] /\ ~AtWork(e) /\ ~AtWork(e)'
  BY StatementFacts, Zenon
<1>2. Current'
  BY <1>1, Zenon DEF CInv, Current
<1>3. StillAccepted'
  BY <1>1 DEF CInv, StillAccepted, Accepts
<1>4. Publishable'
  <2>1. \A e \in Stmts : /\ dpc'[e] = "saved" <=> dpc[e] = "saved"
                         /\ dpc[e] = "failed" => dpc'[e] = "failed" \/ e = d
    BY <1>1
  <2>2. dpc[d] # "failed"
    BY DEF Execute, Take, Reject, Quiesce, Fill, Save, ToSave, Finish, Fail
  <2> QED
    BY <2>1, <2>2 DEF CInv, Publishable, Unfailed, Saved, Agree, SchemaAfter
<1> QED
  BY <1>2, <1>3, <1>4

LEMMA TakeCInv == ASSUME CInv, NEW d \in Stmts, Take(d) PROVE CInv'
<1> DEFINE b == On[d]
<1>1. Execute(d)
  BY DEF Execute
<1>2. /\ dpc[d] = "new" /\ holder = None /\ Accepts(d) /\ UNCHANGED <<tables, schema, row>>
      /\ dpc' = [dpc EXCEPT ![d] = IF Kind[d] = "create" THEN "quiet" ELSE "waiting"]
  BY DEF Take
<1>3. dpc'[d] \in {"quiet", "waiting"}
  BY <1>2 DEF CInv, DInv, Shapes
<1>4. DInv' /\ Owners' /\ Sets'
  BY <1>1, ExecuteDInv, StatementOwners DEF CInv
<1>5. Current' /\ StillAccepted' /\ Publishable'
  BY <1>1, <1>2, <1>3, SameTables
<1>6. /\ b \in Tables
      /\ \A e \in Stmts : e # d => dpc'[e] = dpc[e] /\ ~AtWork(e)
  BY <1>1, StatementFacts
<1>7. \A c \in Tables : \A ks : ~Saved(c, ks) /\ ~Saved(c, ks)'
  BY <1>2, <1>3, <1>6 DEF Saved, AtWork
<1>8. /\ \A c \in Tables : c # b => entries'[c] = entries[c] /\ (c \in suspect' <=> c \in suspect)
      /\ suspect \subseteq suspect'
      /\ Kind[d] # "create_index" => UNCHANGED <<entries, suspect>>
  <2>1. DOMAIN entries = Tables
    BY DEF CInv, Sets
  <2> QED
    BY <2>1, Zenon DEF Take
<1>9. ASSUME Kind[d] = "create_index", b \notin suspect'
      PROVE  b \notin suspect /\ entries[b] = NoDir /\ (b \in DOMAIN entries => entries'[b] = {})
  BY <1>9, Zenon DEF Take
<1>10. ASSUME NEW c \in Tables PROVE Remembered(c)' /\ Recorded(c)'
  <2>1. Remembered(c) /\ Recorded(c)
    BY DEF CInv, Indexes
  <2>2. Remembered(c)'
    BY <1>2, <1>7, <2>1, Zenon DEF Remembered
  <2>3. Recorded(c)'
    <3>1. CASE c # b \/ Kind[d] # "create_index"
      BY <1>2, <1>7, <1>8, <2>1, <3>1 DEF Recorded, Exact
    <3>2. CASE c = b /\ Kind[d] = "create_index"
      <4>1. ~tables[b].index
        BY <1>2, <3>2 DEF Accepts
      <4> QED
        BY <1>2, <1>7, <1>8, <2>1, <3>2, <4>1, Zenon DEF Recorded
    <3> QED
      BY <3>1, <3>2
  <2> QED
    BY <2>2, <2>3
<1>11. ASSUME NEW e \in Stmts PROVE Building(e)'
  <2>1. CASE e # d
    BY <1>6, <2>1 DEF Building, AtWork
  <2>2. CASE e = d
    BY <1>3, <1>6, <1>9, <2>2, Zenon DEF Building, CInv, Sets
  <2> QED
    BY <2>1, <2>2
<1> QED
  BY <1>4, <1>5, <1>10, <1>11 DEF CInv, Indexes

LEMMA RejectCInv == ASSUME CInv, NEW d \in Stmts, Reject(d) \/ Quiesce(d) PROVE CInv'
<1>1. Execute(d)
  BY DEF Execute
<1>2. /\ UNCHANGED <<tables, schema, row, entries, suspect>>
      /\ \/ dpc[d] = "new" /\ dpc' = [dpc EXCEPT ![d] = "done"]
         \/ dpc[d] = "waiting" /\ dpc' = [dpc EXCEPT ![d] = "quiet"]
  BY DEF Reject, Quiesce
<1>3. \/ dpc[d] = "new" /\ dpc'[d] = "done"
      \/ dpc[d] = "waiting" /\ dpc'[d] = "quiet"
  BY <1>2 DEF CInv, DInv, Shapes
<1>4. DInv' /\ Owners' /\ Sets'
  BY <1>1, ExecuteDInv, StatementOwners DEF CInv
<1>5. Accepts(d) \/ ~AtWork(d)'
  BY <1>3 DEF CInv, StillAccepted, AtWork
<1>6. Current' /\ StillAccepted' /\ Publishable'
  BY <1>1, <1>2, <1>3, <1>5, SameTables
<1>7. \A e \in Stmts : e # d => dpc'[e] = dpc[e]
  BY <1>1, StatementFacts
<1>8. \A e \in Stmts : dpc'[e] = "saved" <=> dpc[e] = "saved"
  BY <1>3, <1>7
<1>9. \A c \in Tables : Remembered(c)' /\ Recorded(c)'
  <2>1. \A c \in Tables : \A ks : Saved(c, ks)' <=> Saved(c, ks)
    BY <1>8, Zenon DEF Saved
  <2> QED
    BY <1>2, <2>1, Zenon DEF CInv, Indexes, Remembered, Recorded, Exact
<1>10. \A e \in Stmts : Building(e)'
  BY <1>2, <1>3, <1>7, Zenon DEF CInv, Indexes, Building, Exact
<1> QED
  BY <1>4, <1>6, <1>9, <1>10 DEF CInv, Indexes

LEMMA FillCInv == ASSUME CInv, NEW d \in Stmts, Fill(d) PROVE CInv'
<1> DEFINE b == On[d]
<1>1. Execute(d)
  BY DEF Execute
<1>2. /\ UNCHANGED <<tables, schema, row, suspect>> /\ dpc[d] = "quiet"
      /\ Kind[d] = "create_index" /\ dpc' = [dpc EXCEPT ![d] = "filled"]
      /\ entries' = [entries EXCEPT ![b] = entries[b] \cup ({row[b]} \ {Absent})]
  BY DEF Fill, Backfill
<1>3. dpc'[d] = "filled"
  BY <1>2 DEF CInv, DInv, Shapes
<1>4. DInv' /\ Owners' /\ Sets'
  BY <1>1, ExecuteDInv, StatementOwners DEF CInv
<1>5. Accepts(d)
  BY <1>2 DEF CInv, StillAccepted, AtWork
<1>6. Current' /\ StillAccepted' /\ Publishable'
  BY <1>1, <1>2, <1>3, <1>5, SameTables
<1>7. b \in Tables /\ \A e \in Stmts : e # d => dpc'[e] = dpc[e] /\ ~AtWork(e)
  BY <1>1, StatementFacts
<1>8. \A c \in Tables : \A ks : ~Saved(c, ks) /\ ~Saved(c, ks)'
  BY <1>2, <1>3, <1>7 DEF Saved, AtWork
<1>9. b \notin suspect => schema[b] # "indexed" /\ entries[b] = {}
  <2>1. ~tables[b].index
    BY <1>2, <1>5 DEF Accepts
  <2> QED
    BY <1>2, <1>7, <1>8, <2>1, Zenon DEF CInv, Indexes, Recorded, Building
<1>10. \A c \in Tables : Remembered(c)' /\ Recorded(c)'
  <2>1. \A c \in Tables : Remembered(c)'
    BY <1>2, <1>8, Zenon DEF CInv, Indexes, Remembered
  <2>2. \A c \in Tables : c # b => Recorded(c)'
    <3>1. \A c \in Tables : c # b => entries'[c] = entries[c]
      BY <1>2 DEF CInv, Sets
    <3> QED
      BY <1>2, <1>8, <3>1, Zenon DEF CInv, Indexes, Recorded, Exact
  <2>3. Recorded(b)'
    BY <1>2, <1>9, Zenon DEF Recorded
  <2> QED
    BY <2>1, <2>2, <2>3
<1>11. ASSUME NEW e \in Stmts PROVE Building(e)'
  <2>1. CASE e # d
    BY <1>7, <2>1 DEF Building, AtWork
  <2>2. CASE e = d
    <3>1. b \notin suspect /\ b \in DOMAIN entries => entries'[b] = {row[b]} \ {Absent}
      BY <1>2, <1>9, Zenon
    <3> QED
      BY <1>2, <1>3, <1>7, <2>2, <3>1, Zenon DEF Building, Exact, CInv, Sets
  <2> QED
    BY <2>1, <2>2
<1> QED
  BY <1>4, <1>6, <1>10, <1>11 DEF CInv, Indexes

\* A statement behind its wait may change the descriptor of its own table.
LEMMA OwnTable ==
    ASSUME CInv, NEW d \in Stmts, Execute(d), dpc[d] \in {"quiet", "filled", "saved"},
           \A c \in Tables : c # On[d] => tables'[c] = tables[c]
    PROVE  Current'
<1>1. UNCHANGED <<tpc, handle, slipped>>
  BY StatementFacts, Zenon
<1> SUFFICES ASSUME NEW t \in Txns, t \notin slipped, tpc[t] # "gone",
                    NEW i \in DOMAIN handle[t]
             PROVE  /\ handle[t][i].live
                    /\ \/ handle[t][i] = tables'[Uses[t][i]]
                       \/ tpc[t] = "resolved" /\ i = Len(handle[t])
  BY <1>1, Zenon DEF Current
<1>2. Uses[t][i] \in Tables
  BY UsesFacts, Zenon DEF CInv, DInv
<1>3. CASE Uses[t][i] = On[d]
  BY <1>3, NoReader DEF CInv, Current
<1>4. CASE Uses[t][i] # On[d]
  BY <1>2, <1>4 DEF CInv, Current
<1> QED
  BY <1>3, <1>4, Zenon

\* The tables a statement is not about.
LEMMA OtherTables ==
    ASSUME CInv, NEW d \in Stmts, Execute(d), NEW c \in Tables, c # On[d],
           tables'[c] = tables[c], schema'[c] = schema[c], row'[c] = row[c],
           entries'[c] = entries[c], c \in suspect' <=> c \in suspect
    PROVE  /\ Remembered(c)' /\ Recorded(c)'
           /\ Unfailed(c)' /\ ~Saved(c, Changing)' => Agree(c)'
<1>1. \A e \in Stmts : On[e] = c => dpc'[e] = dpc[e]
  BY StatementFacts, Zenon
<1>2. /\ Unfailed(c)' <=> Unfailed(c)
      /\ \A ks : Saved(c, ks)' <=> Saved(c, ks)
  BY <1>1, Zenon DEF Unfailed, Saved
<1>3. Remembered(c) /\ Recorded(c) /\ (Unfailed(c) /\ ~Saved(c, Changing) => Agree(c))
  BY Zenon DEF CInv, Indexes, Publishable
<1> QED
  BY <1>2, <1>3, Zenon DEF Remembered, Recorded, Exact, Agree

LEMMA SaveCInv == ASSUME CInv, NEW d \in Stmts, Save(d) PROVE CInv'
<1> DEFINE b == On[d]
<1>1. Execute(d)
  BY DEF Execute
<1>2. /\ dpc[d] \in {"quiet", "filled"} /\ (Kind[d] = "create_index" => dpc[d] = "filled")
      /\ dpc' = [dpc EXCEPT ![d] = "saved"]
      /\ schema' = [schema EXCEPT ![b] = SchemaAfter(d)]
      /\ tables' = IF Kind[d] \in {"create", "drop"} THEN [tables EXCEPT ![b].gen = @ + 1]
                   ELSE tables
  BY DEF Save, ToSave
<1>3. /\ b \in Tables /\ Kind[d] \in {"create", "drop", "alter", "create_index", "drop_index"}
      /\ \A e \in Stmts : e # d => dpc'[e] = dpc[e] /\ ~AtWork(e) /\ ~AtWork(e)'
  BY <1>1, StatementFacts, Zenon
<1>4. dpc'[d] = "saved"
  BY <1>2 DEF CInv, DInv, Shapes
<1>5. /\ \A c \in Tables : c # b => /\ tables'[c] = tables[c] /\ schema'[c] = schema[c]
                                    /\ row'[c] = row[c] /\ entries'[c] = entries[c]
                                    /\ c \in suspect' <=> c \in suspect
      /\ tables'[b].live <=> tables[b].live
      /\ tables'[b].index <=> tables[b].index
  <2>1. /\ tables \in [Tables -> Descriptor]
        /\ DOMAIN schema = Tables /\ DOMAIN row = Tables /\ DOMAIN entries = Tables
    BY Zenon DEF CInv, DInv, Shapes, Sets
  <2>2. \A c \in Tables : c # b => tables'[c] = tables[c] /\ schema'[c] = schema[c]
    BY <1>2, <2>1
  <2>3. \A c \in Tables : c # b => /\ row'[c] = row[c] /\ entries'[c] = entries[c]
                                   /\ c \in suspect' <=> c \in suspect
    BY <2>1 DEF Save
  <2>4. (tables'[b].live <=> tables[b].live) /\ (tables'[b].index <=> tables[b].index)
    BY <1>2, <1>3, <2>1 DEF Descriptor
  <2> QED
    BY <2>2, <2>3, <2>4, Zenon
<1>6. schema'[b] = SchemaAfter(d)
  BY <1>2, <1>3 DEF CInv, Sets
<1>7. Accepts(d)
  BY <1>2 DEF CInv, StillAccepted, AtWork
<1>8. DInv' /\ Owners' /\ Sets'
  BY <1>1, ExecuteDInv, StatementOwners DEF CInv
<1>9. Current'
  BY <1>1, <1>2, <1>5, OwnTable
<1>10. StillAccepted'
  <2>1. Accepts(d)'
    BY <1>5, <1>7 DEF Accepts
  <2> QED
    BY <1>3, <2>1 DEF StillAccepted
<1>11. \A ks : /\ Saved(b, ks)' <=> Kind[d] \in ks
               /\ ~Saved(b, ks)
  BY <1>2, <1>3, <1>4 DEF Saved, AtWork
<1>12. Publishable'
  <2>1. \A e \in Stmts : dpc'[e] = "saved" => e = d
    BY <1>3 DEF AtWork
  <2>2. Kind[d] # "alter" => SchemaAfter(d)' = SchemaAfter(d)
    BY <1>3 DEF SchemaAfter
  <2>3. Unfailed(b)' /\ ~Saved(b, Changing)' => Agree(b)'
    <3> SUFFICES ASSUME Unfailed(b)', Kind[d] \notin Changing PROVE Agree(b)'
      BY <1>11, Zenon
    <3>1. Kind[d] = "alter" /\ SchemaAfter(d) = schema[b]
      BY <1>3 DEF Changing, SchemaAfter
    <3>2. Unfailed(b)
      BY <1>2, <1>3 DEF Unfailed
    <3>3. Agree(b)
      BY <1>3, <1>11, <3>2 DEF CInv, Publishable
    <3> QED
      BY <1>5, <1>6, <3>1, <3>3, Zenon DEF Agree
  <2>4. \A c \in Tables : Unfailed(c)' /\ ~Saved(c, Changing)' => Agree(c)'
    BY <1>1, <1>5, <2>3, OtherTables, Zenon
  <2> QED
    BY <1>6, <2>1, <2>2, <2>4, Zenon DEF Publishable
<1>13. Remembered(b)' /\ Recorded(b)'
  <2>1. Remembered(b) /\ Recorded(b) /\ Building(d)
    BY <1>3, Zenon DEF CInv, Indexes
  <2>2. CASE Kind[d] = "create"
    <3>1. SchemaAfter(d) = "plain" /\ ~tables[b].index
      BY <1>7, <2>1, <2>2 DEF SchemaAfter, Accepts, Remembered
    <3> QED
      BY <1>5, <1>6, <3>1, Zenon DEF Remembered, Recorded
  <2>3. CASE Kind[d] \in {"drop", "drop_index"}
    <3>1. SchemaAfter(d) # "indexed" /\ tables[b].live
      BY <1>7, <2>3 DEF SchemaAfter, Accepts
    <3> QED
      BY <1>5, <1>6, <1>11, <2>3, <3>1, Zenon DEF Remembered, Recorded
  <2>4. CASE Kind[d] = "alter"
    <3>1. SchemaAfter(d) = schema[b] /\ UNCHANGED <<row, entries, suspect>>
      BY <2>4 DEF SchemaAfter, Save
    <3> QED
      BY <1>5, <1>6, <1>11, <2>1, <2>4, <3>1, Zenon DEF Remembered, Recorded, Exact
  <2>5. CASE Kind[d] = "create_index"
    <3>1. /\ SchemaAfter(d) = "indexed" /\ UNCHANGED <<row, entries, suspect>>
          /\ ~tables[b].index
      BY <1>7, <2>5 DEF SchemaAfter, Save, Accepts
    <3> QED
      BY <1>2, <1>5, <1>6, <1>11, <2>1, <2>5, <3>1 DEF Remembered, Recorded, Exact, Building
  <2> QED
    BY <1>3, <2>2, <2>3, <2>4, <2>5, Zenon
<1>14. \A c \in Tables : Remembered(c)' /\ Recorded(c)'
  BY <1>1, <1>5, <1>13, OtherTables, Zenon
<1>15. \A e \in Stmts : Building(e)'
  BY <1>3, <1>4, Zenon DEF Building, AtWork
<1> QED
  BY <1>8, <1>9, <1>10, <1>12, <1>14, <1>15 DEF CInv, Indexes

LEMMA PublishedFacts ==
    ASSUME CInv, NEW d \in Stmts
    PROVE  /\ \A c \in Tables : c # On[d] => Published(d)[c] = tables[c]
           /\ Published(d)[On[d]].live <=> Kind[d] # "drop"
           /\ Published(d)[On[d]].index <=>
                 \/ Kind[d] = "create_index" \/ (Kind[d] = "alter" /\ tables[On[d]].index)
<1> DEFINE old == tables[On[d]]
           index == CASE Kind[d] = "create_index" -> TRUE [] Kind[d] = "alter" -> old.index
                      [] OTHER -> FALSE
           new == [live |-> Kind[d] # "drop", index |-> index, ver |-> old.ver + 1,
                   gen |-> old.gen]
<1>1. tables \in [Tables -> Descriptor] /\ On[d] \in Tables
      /\ Kind[d] \in {"create", "drop", "alter", "create_index", "drop_index"}
  BY CatalogAssumption DEF CInv, DInv, Shapes
<1>2. old.index \in BOOLEAN
  BY <1>1, Zenon DEF Descriptor
<1>3. index <=> Kind[d] = "create_index" \/ (Kind[d] = "alter" /\ old.index)
  BY <1>1, <1>2
<1> HIDE DEF index
<1>4. Published(d) = [tables EXCEPT ![On[d]] = new]
  BY DEF Published, index
<1>5. (new.live <=> Kind[d] # "drop") /\ new.index = index
  OBVIOUS
<1> HIDE DEF new
<1>6. Published(d)[On[d]] = new /\ \A c \in Tables : c # On[d] => Published(d)[c] = tables[c]
  BY <1>1, <1>4
<1> QED
  BY <1>3, <1>5, <1>6, Zenon

LEMMA FinishCInv == ASSUME CInv, NEW d \in Stmts, Finish(d) PROVE CInv'
<1> DEFINE b == On[d]
<1>1. Execute(d)
  BY DEF Execute
<1>2. /\ dpc[d] = "saved" /\ dpc' = [dpc EXCEPT ![d] = "done"] /\ tables' = Published(d)
      /\ UNCHANGED <<schema, row, suspect>>
      /\ entries' = IF Kind[d] = "drop_index" THEN [entries EXCEPT ![b] = NoDir] ELSE entries
  BY Zenon DEF Finish
<1>3. /\ b \in Tables /\ Kind[d] \in {"create", "drop", "alter", "create_index", "drop_index"}
      /\ \A e \in Stmts : e # d => dpc'[e] = dpc[e] /\ ~AtWork(e) /\ ~AtWork(e)'
  BY <1>1, StatementFacts, Zenon
<1>4. dpc'[d] = "done"
  BY <1>2, Zenon DEF CInv, DInv, Shapes
<1>5. /\ \A c \in Tables : c # b => tables'[c] = tables[c] /\ entries'[c] = entries[c]
      /\ tables'[b].live <=> Kind[d] # "drop"
      /\ tables'[b].index <=> Kind[d] = "create_index" \/ (Kind[d] = "alter" /\ tables[b].index)
  <2>1. \A c \in Tables : c # b => entries'[c] = entries[c]
    BY <1>2, Zenon DEF CInv, Sets
  <2> QED
    BY <1>2, <2>1, PublishedFacts, Zenon
<1>6. Accepts(d) /\ Building(d) /\ Remembered(b) /\ Recorded(b)
  BY <1>2, <1>3, Zenon DEF CInv, StillAccepted, AtWork, Indexes
<1>7. DInv' /\ Owners' /\ Sets'
  BY <1>1, ExecuteDInv, StatementOwners DEF CInv
<1>8. Current'
  BY <1>1, <1>2, <1>5, OwnTable, Zenon
<1>9. StillAccepted'
  BY <1>3, <1>4 DEF StillAccepted, AtWork
<1>10. \A ks : ~Saved(b, ks)' /\ (Saved(b, ks) <=> Kind[d] \in ks)
  BY <1>2, <1>3, <1>4, Zenon DEF Saved, AtWork
<1>11. Kind[d] # "alter" => schema[b] = SchemaAfter(d)
  BY <1>2, Zenon DEF CInv, Publishable
<1>12. Publishable'
  <2>1. \A e \in Stmts : dpc'[e] # "saved"
    BY <1>3, <1>4 DEF AtWork
  <2>2. Unfailed(b)' => Agree(b)'
    <3>1. CASE Kind[d] = "alter"
      <4>1. Unfailed(b)' => Unfailed(b)
        BY <1>2, <1>3 DEF Unfailed
      <4>2. Unfailed(b) => Agree(b)
        BY <1>3, <1>10, <3>1, Zenon DEF CInv, Publishable, Changing
      <4>3. tables[b].live
        BY <1>6, <3>1 DEF Accepts
      <4> QED
        BY <1>2, <1>5, <3>1, <4>1, <4>2, <4>3, Zenon DEF Agree
    <3>2. CASE Kind[d] # "alter"
      BY <1>2, <1>3, <1>5, <1>11, <3>2 DEF Agree, SchemaAfter
    <3> QED
      BY <3>1, <3>2
  <2>3. \A c \in Tables : Unfailed(c)' /\ ~Saved(c, Changing)' => Agree(c)'
    BY <1>1, <1>2, <1>5, <2>2, OtherTables, Zenon
  <2> QED
    BY <2>1, <2>3, Zenon DEF Publishable
<1>13. Remembered(b)' /\ Recorded(b)'
  <2>1. CASE Kind[d] \in {"create", "drop", "drop_index"}
    <3>1. schema[b] # "indexed" /\ ~tables'[b].index
      BY <1>5, <1>11, <2>1 DEF SchemaAfter
    <3> QED
      BY <1>2, <3>1, Zenon DEF Remembered, Recorded
  <2>2. CASE Kind[d] = "alter"
    BY <1>2, <1>5, <1>6, <1>10, <2>2, Zenon DEF Remembered, Recorded, Exact
  <2>3. CASE Kind[d] = "create_index"
    <3>1. schema[b] = "indexed"
      BY <1>11, <2>3 DEF SchemaAfter
    <3> QED
      BY <1>2, <1>5, <1>6, <2>3, <3>1, Zenon DEF Remembered, Recorded, Exact
  <2> QED
    BY <1>3, <2>1, <2>2, <2>3, Zenon
<1>14. \A c \in Tables : Remembered(c)' /\ Recorded(c)'
  BY <1>1, <1>2, <1>5, <1>13, OtherTables, Zenon
<1>15. \A e \in Stmts : Building(e)'
  BY <1>3, <1>4, Zenon DEF Building, AtWork
<1> QED
  BY <1>7, <1>8, <1>9, <1>12, <1>14, <1>15 DEF CInv, Indexes

LEMMA FailCInv == ASSUME CInv, NEW d \in Stmts, Fail(d) PROVE CInv'
<1> DEFINE b == On[d]
<1>1. Execute(d)
  BY DEF Execute
<1>2. /\ dpc[d] \in {"quiet", "filled", "saved"} /\ dpc' = [dpc EXCEPT ![d] = "failed"]
      /\ UNCHANGED <<schema, row, entries>>
      /\ tables' = IF Kind[d] \in {"drop", "drop_index"} THEN Published(d) ELSE tables
      /\ suspect' = IF Kind[d] = "drop_index" \/ schema[b] = "indexed"
                    THEN suspect \cup {b} ELSE suspect
  BY DEF Fail
<1>3. /\ b \in Tables /\ Kind[d] \in {"create", "drop", "alter", "create_index", "drop_index"}
      /\ \A e \in Stmts : e # d => dpc'[e] = dpc[e] /\ ~AtWork(e) /\ ~AtWork(e)'
  BY <1>1, StatementFacts, Zenon
<1>4. dpc'[d] = "failed"
  BY <1>2, Zenon DEF CInv, DInv, Shapes
<1>5. /\ \A c \in Tables : c # b => tables'[c] = tables[c] /\ (c \in suspect' <=> c \in suspect)
      /\ Kind[d] \in {"drop", "drop_index"} => ~tables'[b].index
      /\ Kind[d] \notin {"drop", "drop_index"} => tables'[b] = tables[b]
      /\ b \notin suspect' => schema[b] # "indexed"
  BY <1>2, PublishedFacts, Zenon
<1>6. Accepts(d) /\ Remembered(b)
  BY <1>2, <1>3, Zenon DEF CInv, StillAccepted, AtWork, Indexes
<1>7. DInv' /\ Owners' /\ Sets'
  BY <1>1, ExecuteDInv, StatementOwners DEF CInv
<1>8. Current'
  BY <1>1, <1>2, <1>5, OwnTable, Zenon
<1>9. StillAccepted'
  BY <1>3, <1>4 DEF StillAccepted, AtWork
<1>10. Publishable'
  <2>1. \A e \in Stmts : dpc'[e] # "saved"
    BY <1>3, <1>4 DEF AtWork
  <2>2. ~Unfailed(b)'
    BY <1>4 DEF Unfailed
  <2>3. \A c \in Tables : Unfailed(c)' /\ ~Saved(c, Changing)' => Agree(c)'
    BY <1>1, <1>2, <1>5, <2>2, OtherTables, Zenon
  <2> QED
    BY <2>1, <2>3, Zenon DEF Publishable
<1>11. Remembered(b)' /\ Recorded(b)'
  <2>1. Recorded(b)'
    BY <1>2, <1>5, Zenon DEF Recorded
  <2>2. Kind[d] \notin {"drop", "drop_index"} => ~Saved(b, {"drop", "drop_index"})
    BY <1>3 DEF Saved, AtWork
  <2>3. Remembered(b)'
    BY <1>2, <1>5, <1>6, <2>2, Zenon DEF Remembered
  <2> QED
    BY <2>1, <2>3
<1>12. \A c \in Tables : Remembered(c)' /\ Recorded(c)'
  BY <1>1, <1>2, <1>5, <1>11, OtherTables, Zenon
<1>13. \A e \in Stmts : Building(e)'
  BY <1>3, <1>4, Zenon DEF Building, AtWork
<1> QED
  BY <1>7, <1>8, <1>9, <1>10, <1>12, <1>13 DEF CInv, Indexes

LEMMA CrashCInv == ASSUME CInv, Crash PROVE CInv'
<1>1. /\ UNCHANGED <<schema, row, entries, slipped, suspect>>
      /\ holder' = None /\ seqLock' = None /\ commit' = None
      /\ \A d \in Stmts : dpc'[d] \in {"new", "done"}
      /\ \A t \in Txns : tpc'[t] \in {"running", "gone"} /\ handle'[t] = <<>>
      /\ seqs' \subseteq Tables
  BY Zenon DEF Crash
<1>2. \A b \in Tables : /\ tables'[b].live <=> schema[b] # "none"
                        /\ tables'[b].index <=> schema[b] = "indexed"
  <2>1. tables \in [Tables -> Descriptor]
    BY DEF CInv, DInv, Shapes
  <2> TAKE b \in Tables
  <2>2. tables'[b] = [tables[b] EXCEPT !.live = schema[b] # "none", !.index = schema[b] = "indexed"]
    BY Zenon DEF Crash
  <2>3. tables[b] \in Descriptor
    BY <2>1
  <2>4. (tables'[b].live <=> schema[b] # "none") /\ (tables'[b].index <=> schema[b] = "indexed")
    BY <2>2, <2>3, Zenon DEF Descriptor
  <2> QED
    BY <2>4
<1>3. DInv'
  BY CrashDInv DEF CInv
<1>4. Sets' /\ Owners'
  BY <1>1, CatalogAssumption, Zenon DEF CInv, Sets, Owners, AtWork, None
<1>5. StillAccepted' /\ Current'
  <2>1. DOMAIN <<>> = {} /\ \A d \in Stmts : ~AtWork(d)'
    BY <1>1 DEF AtWork
  <2> QED
    BY <1>1, <2>1, Zenon DEF StillAccepted, Current
<1>6. Publishable'
  BY <1>1, <1>2, Zenon DEF Publishable, Agree
<1>7. \A b \in Tables : Remembered(b)' /\ Recorded(b)'
  <2>1. \A b \in Tables : schema[b] = "indexed" => schema[b] # "none"
    OBVIOUS
  <2> QED
    BY <1>1, <1>2, <2>1, Zenon DEF CInv, Indexes, Remembered, Recorded, Exact
<1>8. \A d \in Stmts : Building(d)'
  BY <1>1, Zenon DEF Building
<1> QED
  BY <1>3, <1>4, <1>5, <1>6, <1>7, <1>8 DEF CInv, Indexes

LEMMA StutterCInv == ASSUME CInv, UNCHANGED vars PROVE CInv'
<1>1. UNCHANGED catalogVars
  BY DEF vars, catalogVars
<1>2. DInv'
  BY StepDInv DEF CInv
<1>3. Sets' /\ Owners' /\ Current'
  BY Zenon DEF vars, CInv, Sets, Owners, AtWork, Current
<1> QED
  BY <1>1, <1>2, <1>3, CatalogFrame DEF CInv

LEMMA TransactCInv ==
    ASSUME CInv, NEW t \in Txns, Transact(t) \/ Rollback(t) PROVE CInv'
BY ResolveCInv, RegisterCInv, LocksCInv, ApplyCInv, UnregisterCInv DEF Transact

LEMMA ExecuteCInv == ASSUME CInv, NEW d \in Stmts, Execute(d) PROVE CInv'
BY TakeCInv, RejectCInv, FillCInv, SaveCInv, FinishCInv, FailCInv DEF Execute

\* CInv is inductive.
LEMMA StepCInv == CInv /\ [Next]_vars => CInv'
BY TransactCInv, ExecuteCInv, CrashCInv, StutterCInv DEF Next

LEMMA CatalogInvariance == Spec => []CInv
BY InitCInv, StepCInv, PTL DEF Spec

\* A restart finds the catalog that was in memory, unless a statement on the table
\* failed (create_table, drop_table, alter_table, create_index, drop_index: durable
\* step first, publication after it), and every lock is held by the one at work under it.
THEOREM CatalogAlwaysDurable == Spec => []CatalogDurable
<1>1. CInv => CatalogDurable
  <2> SUFFICES ASSUME CInv PROVE CatalogDurable
    OBVIOUS
  <2>1. TypeOK
    <3>1. \A b \in Tables : /\ tables[b].live \in BOOLEAN /\ tables[b].index \in BOOLEAN
                            /\ tables[b].ver \in Nat /\ tables[b].gen \in Nat
                            /\ access[b] \subseteq Txns
      BY DEF CInv, DInv, Shapes, Descriptor
    <3> QED
      BY <3>1 DEF CInv, Sets, Owners, AtWork, TypeOK
  <2>2. ASSUME holder = None, NEW b \in Tables, Unfailed(b) PROVE Agree(b)
    <3>1. ~Saved(b, Changing)
      BY <2>2, Sole, Zenon DEF Saved, AtWork
    <3> QED
      BY <2>2, <3>1, Zenon DEF CInv, Publishable
  <2> QED
    BY <2>1, <2>2 DEF CatalogDurable, Unfailed, Agree
<1> QED
  BY <1>1, CatalogInvariance, PTL

\* An index that a query can use holds exactly the entries of its table's rows, after
\* any statements (create_index, drop_index, drop_table...), commits, crashes and errors,
\* apart from one built over a leftover directory or behind a transaction's back.
THEOREM IndexesAlwaysMatch == Spec => []IndexMatches
<1>1. CInv => IndexMatches
  <2> SUFFICES ASSUME CInv, holder = None, NEW b \in Tables, b \notin suspect,
                      tables[b].index
               PROVE  Exact(b)
    BY Zenon DEF IndexMatches, Matches, Exact
  <2>1. ~Saved(b, {"drop", "drop_index"})
    BY Sole DEF Saved, AtWork
  <2> QED
    BY <2>1, Zenon DEF CInv, Indexes, Remembered, Recorded
<1> QED
  BY <1>1, CatalogInvariance, PTL
=============================================================================
