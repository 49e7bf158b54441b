--------------------------- MODULE ExecutorProofs ---------------------------
(***************************************************************************)
(* The inductive invariant of Background.tla, and the steps of the writer, *)
(* of the scheduler's clock and of shutdown, which submit tasks and close  *)
(* the executor.  BackgroundProofs has the threads that run the tasks.     *)
(***************************************************************************)
EXTENDS Background, FiniteSetTheorems, TLAPS

Wals == 1 .. MaxWals
Tasks == {Compaction, SyncTick} \cup {Flush(w) : w \in Wals}
Thread == [pc : {"idle", "claim", "write", "retire", "leave", "lock", "merge", "notify",
                 "count", "drain"},
           task : Tasks \cup {NoTask}, wal : 0 .. MaxWals, took : Nat]

\* No element twice.
Distinct(q) == \A i, j \in DOMAIN q : q[i] = q[j] => i = j

\* The executor: a task is queued at most once and has its key in the map, where only
\* a task of the same key can be pending.
Executor ==
    /\ heap \in Seq(Tasks) /\ Distinct(heap)
    /\ Range(heap) \subseteq DOMAIN coalesce
    /\ DOMAIN coalesce \subseteq Tasks
    /\ \A k \in DOMAIN coalesce : coalesce[k] \in {<<>>, <<k>>}

Flags == {shut, merging, active, slotShut, l0Shut, ticking} \subseteq BOOLEAN
Shapes ==
    /\ proc \in [Procs -> Thread]
    /\ quiescer \in {"idle", "bg", "join", "done"}
    /\ writer \in {"idle", "l0", "decided", "l0wait", "slot", "slotwait", "count"}
    /\ lock \in {"free", "writer", Caller}
    /\ wal \in Wals /\ imm \in Seq(Wals) /\ count \in Nat /\ l0 \in Nat
    /\ slot \in [Wals -> {"Pending", "InFlight", "Completed"}]
    /\ faults \in Nat /\ flushes \in Nat /\ faults + flushes <= MaxExtras

Busy(p) == proc[p].pc # "idle"

\* A key is queued or running once, and is in the map meanwhile.
KeysOnce ==
    /\ \A p \in Workers : Busy(p) => /\ proc[p].task \in DOMAIN coalesce
                                     /\ proc[p].task \notin Range(heap)
    /\ \A p, q \in Workers : Busy(p) /\ Busy(q) /\ p # q => proc[p].task # proc[q].task

\* What a thread is at agrees with its task and with what the task works on.
AtFlush(p) == proc[p].pc \in {"claim", "write", "retire"}
AtCompaction(p) == proc[p].pc \in {"lock", "merge", "notify"}
AtWork ==
    /\ \A p \in Workers : /\ proc[p].pc \notin {"count", "drain"}
                          /\ AtCompaction(p) => proc[p].task = Compaction
    /\ ~AtCompaction(Caller) /\ proc[Caller].pc # "leave"
    /\ \A p \in Procs : AtFlush(p) => proc[p].wal \in Wals /\ proc[p].wal < wal
    /\ \A p \in Procs : proc[p].pc = "write" => slot[proc[p].wal] = "InFlight"
    /\ \A p, q \in Procs : proc[p].pc = "write" /\ proc[q].pc = "write" /\ p # q =>
          proc[p].wal # proc[q].wal
    /\ \A p \in Workers : proc[p].pc = "merge" => proc[p].took <= l0
    /\ \A w \in Wals : Flush(w) \in DOMAIN coalesce => w < wal

\* Whoever seals holds write_mutex, and has a segment left to open.
Locks ==
    /\ writer # "idle" <=> lock = "writer"
    /\ proc[Caller].pc = "count" <=> lock = Caller
    /\ writer \in {"slot", "slotwait"} => wal < MaxWals /\ active
Sealing == writer = "count" => 1 < wal

\* A sealed memtable is queued until its table is durable.
Queued ==
    /\ Distinct(imm)
    /\ \A w \in Range(imm) : w < wal
    /\ \A w \in Wals : w < wal /\ slot[w] # "Completed" => w \in Range(imm)
    /\ \A w \in Wals : w >= wal => slot[w] = "Pending"

\* `active` counts the workers inside a task, of which shutdown has waited for the
\* last: no task is let in from then on.
Counts == inside = Cardinality({p \in Workers : proc[p].pc # "idle"})
Silent == /\ quiescer \in {"join", "done"} => shut
          /\ QuiescedSilent

IInv == /\ Shapes /\ Flags /\ Executor /\ KeysOnce /\ AtWork /\ Locks
        /\ Sealing /\ Queued /\ Counts /\ Silent
-----------------------------------------------------------------------------
(* Sequences without repetition. *)

LEMMA AppendDistinct ==
    ASSUME NEW S, NEW q \in Seq(S), NEW e \in S, Distinct(q), e \notin Range(q)
    PROVE  /\ Append(q, e) \in Seq(S) /\ Len(Append(q, e)) = Len(q) + 1
           /\ Distinct(Append(q, e))
           /\ Range(Append(q, e)) = Range(q) \cup {e}
<1> DEFINE r == Append(q, e)
<1>1. /\ r \in Seq(S) /\ Len(r) = Len(q) + 1 /\ Len(q) \in Nat
      /\ DOMAIN q = 1 .. Len(q) /\ DOMAIN r = 1 .. Len(q) + 1
      /\ \A i \in 1 .. Len(q) : r[i] = q[i]
      /\ r[Len(q) + 1] = e
  OBVIOUS
<1> HIDE DEF r
<1>2. \A i \in 1 .. Len(q) : q[i] # e
  BY <1>1 DEF Range
<1>3. Distinct(r)
  BY <1>1, <1>2 DEF Distinct
<1>4. Range(r) = Range(q) \cup {e}
  <2>1. Range(r) \subseteq Range(q) \cup {e}
    BY <1>1 DEF Range
  <2>2. Range(q) \subseteq Range(r) /\ e \in Range(r)
    BY <1>1 DEF Range
  <2> QED
    BY <2>1, <2>2
<1> QED
  BY <1>1, <1>3, <1>4 DEF r

LEMMA ConcatElement ==
    ASSUME NEW S, NEW a \in Seq(S), NEW b \in Seq(S), NEW i \in 1 .. Len(a) + Len(b)
    PROVE  (a \o b)[i] = IF i <= Len(a) THEN a[i] ELSE b[i - Len(a)]
OBVIOUS

LEMMA LeaveOutElement ==
    ASSUME NEW S, NEW q \in Seq(S), NEW n \in DOMAIN q, NEW i \in 1 .. Len(q) - 1
    PROVE  LeaveOut(q, n)[i] = IF i < n THEN q[i] ELSE q[i + 1]
<1> DEFINE a == SubSeq(q, 1, n - 1)
           b == SubSeq(q, n + 1, Len(q))
<1>1. a \in Seq(S) /\ b \in Seq(S) /\ Len(a) = n - 1 /\ Len(b) = Len(q) - n
  OBVIOUS
<1>2. i < n => a[i] = q[i]
  OBVIOUS
<1>3. ~(i < n) => b[i - (n - 1)] = q[i + 1]
  OBVIOUS
<1>4. i \in 1 .. Len(a) + Len(b)
  BY <1>1
<1>5. LeaveOut(q, n) = a \o b
  BY DEF LeaveOut
<1> HIDE DEF a, b
<1>6. (a \o b)[i] = IF i <= Len(a) THEN a[i] ELSE b[i - Len(a)]
  BY <1>1, <1>4, ConcatElement, Zenon
<1> QED
  BY <1>1, <1>2, <1>3, <1>5, <1>6

LEMMA LeaveOutElements ==
    ASSUME NEW S, NEW q \in Seq(S), NEW n \in DOMAIN q
    PROVE  /\ LeaveOut(q, n) \in Seq(S)
           /\ DOMAIN q = 1 .. Len(q) /\ Len(q) \in Nat
           /\ DOMAIN LeaveOut(q, n) = 1 .. Len(q) - 1
           /\ \A i \in 1 .. Len(q) - 1 : LeaveOut(q, n)[i] = q[IF i < n THEN i ELSE i + 1]
<1>1. LeaveOut(q, n) \in Seq(S) /\ Len(LeaveOut(q, n)) = Len(q) - 1
  BY SMTT(30) DEF LeaveOut
<1>2. ASSUME NEW i \in 1 .. Len(q) - 1
      PROVE  LeaveOut(q, n)[i] = q[IF i < n THEN i ELSE i + 1]
  BY LeaveOutElement
<1>3. DOMAIN q = 1 .. Len(q) /\ Len(q) \in Nat
  OBVIOUS
<1>4. DOMAIN LeaveOut(q, n) = 1 .. Len(q) - 1
  BY <1>1
<1> QED
  BY <1>1, <1>2, <1>3, <1>4

LEMMA LeaveOutDistinct ==
    ASSUME NEW S, NEW q \in Seq(S), NEW n \in DOMAIN q, Distinct(q)
    PROVE  /\ LeaveOut(q, n) \in Seq(S)
           /\ Distinct(LeaveOut(q, n))
           /\ Range(LeaveOut(q, n)) = Range(q) \ {q[n]}
<1> DEFINE r == LeaveOut(q, n)
           From(i) == IF i < n THEN i ELSE i + 1
<1>1. /\ r \in Seq(S) /\ DOMAIN q = 1 .. Len(q) /\ Len(q) \in Nat
      /\ DOMAIN r = 1 .. Len(q) - 1
      /\ \A i \in 1 .. Len(q) - 1 : r[i] = q[From(i)]
  BY LeaveOutElements
<1>2. n \in 1 .. Len(q)
  BY <1>1
<1>3. ASSUME NEW i \in 1 .. Len(q) - 1 PROVE From(i) \in 1 .. Len(q) /\ From(i) # n
  BY <1>1, <1>2
<1>4. ASSUME NEW i \in 1 .. Len(q) - 1, NEW j \in 1 .. Len(q) - 1, From(i) = From(j) PROVE i = j
  BY <1>1, <1>2, <1>4
<1>5. ASSUME NEW i \in 1 .. Len(q), i # n PROVE \E j \in 1 .. Len(q) - 1 : From(j) = i
  <2>1. CASE i < n
    BY <1>1, <1>2, <2>1
  <2>2. CASE i > n
    <3>1. i - 1 \in 1 .. Len(q) - 1 /\ From(i - 1) = i
      BY <1>1, <1>2, <2>2
    <3> QED
      BY <3>1
  <2> QED
    BY <1>2, <1>5, <2>1, <2>2
<1> HIDE DEF r, From
<1>6. Distinct(r)
  BY <1>1, <1>3, <1>4, SMTT(30) DEF Distinct
<1>7. Range(r) \subseteq Range(q) \ {q[n]}
  BY <1>1, <1>2, <1>3 DEF Range, Distinct
<1>8. Range(q) \ {q[n]} \subseteq Range(r)
  <2> SUFFICES ASSUME NEW i \in 1 .. Len(q), i # n PROVE q[i] \in Range(r)
    BY <1>1 DEF Range
  <2>1. PICK j \in 1 .. Len(q) - 1 : From(j) = i
    BY <1>5
  <2> QED
    BY <1>1, <2>1, Zenon DEF Range
<1> QED
  BY <1>1, <1>6, <1>7, <1>8 DEF r

LEMMA TailDistinct ==
    ASSUME NEW S, NEW q \in Seq(S), q # <<>>, Distinct(q)
    PROVE  /\ Tail(q) \in Seq(S) /\ Len(Tail(q)) = Len(q) - 1 /\ Len(q) \in Nat
           /\ Distinct(Tail(q))
           /\ Head(q) \in Range(q) /\ Head(q) \in S
           /\ Range(Tail(q)) = Range(q) \ {Head(q)}
<1>1. /\ Tail(q) \in Seq(S) /\ Len(Tail(q)) = Len(q) - 1 /\ Len(q) \in Nat
      /\ Head(q) \in Range(q) /\ Head(q) \in S
  BY DEF Range
<1>2. 1 \in DOMAIN q /\ Head(q) = q[1]
  OBVIOUS
<1>3. Tail(q) = LeaveOut(q, 1)
  <2>1. LeaveOut(q, 1) = SubSeq(q, 1, 0) \o SubSeq(q, 2, Len(q))
    BY DEF LeaveOut
  <2>2. SubSeq(q, 1, 0) = <<>> /\ Tail(q) = SubSeq(q, 2, Len(q))
    OBVIOUS
  <2> QED
    BY <1>1, <2>1, <2>2
<1>4. Distinct(LeaveOut(q, 1)) /\ Range(LeaveOut(q, 1)) = Range(q) \ {q[1]}
  BY <1>2, LeaveOutDistinct, Zenon
<1> QED
  BY <1>1, <1>2, <1>3, <1>4, Zenon

LEMMA EmptyDistinct == Range(<<>>) = {} /\ Distinct(<<>>)
BY DEF Range, Distinct
-----------------------------------------------------------------------------
(* What submitting a task and following up on one do to the executor. *)

\* A task submitted is queued, or pending behind the one of its key; no other key moves.
LEMMA SubmitFacts ==
    ASSUME Executor, NEW t \in Tasks, Submit(t)
    PROVE  /\ Executor'
           /\ Range(heap') = IF t \in DOMAIN coalesce THEN Range(heap) ELSE Range(heap) \cup {t}
           /\ DOMAIN coalesce' = DOMAIN coalesce \cup {t}
           /\ \A k \in DOMAIN coalesce : coalesce[k] # <<>> => coalesce'[k] # <<>>
           /\ t \in Range(heap') \/ coalesce'[t] # <<>>
<1>1. CASE t \in DOMAIN coalesce
  BY <1>1, Zenon DEF Submit, Executor
<1>2. CASE t \notin DOMAIN coalesce
  <2>1. heap' = Append(heap, t) /\ coalesce' = WithKey(t)
    BY <1>2 DEF Submit
  <2>2. /\ heap' \in Seq(Tasks) /\ Distinct(heap')
        /\ Range(heap') = Range(heap) \cup {t}
    <3>1. heap \in Seq(Tasks) /\ Distinct(heap) /\ t \notin Range(heap)
      BY <1>2 DEF Executor
    <3> QED
      BY <2>1, <3>1, AppendDistinct
  <2> QED
    BY <1>2, <2>1, <2>2 DEF WithKey, Executor
<1> QED
  BY <1>1, <1>2

\* The pending task of a key takes its place in the queue, or the key is free.
LEMMA FollowUpFacts ==
    ASSUME Executor, NEW q \in Seq(Tasks), Distinct(q), Range(q) \subseteq DOMAIN coalesce,
           NEW k \in DOMAIN coalesce, k \notin Range(q), FollowUp(q, k)
    PROVE  /\ Executor'
           /\ Range(heap') = IF coalesce[k] # <<>> THEN Range(q) \cup {k} ELSE Range(q)
           /\ DOMAIN coalesce' \subseteq DOMAIN coalesce
           /\ DOMAIN coalesce \ {k} \subseteq DOMAIN coalesce'
           /\ \A j \in DOMAIN coalesce \ {k} : coalesce'[j] = coalesce[j]
           /\ coalesce[k] # <<>> => k \in Range(heap')
<1>1. CASE coalesce[k] = <<>>
  <2>1. heap' = q /\ coalesce' = [j \in DOMAIN coalesce \ {k} |-> coalesce[j]]
    BY <1>1 DEF FollowUp
  <2> QED
    BY <1>1, <2>1 DEF Executor
<1>2. CASE coalesce[k] # <<>>
  <2>1. coalesce[k] = <<k>> /\ k \in Tasks
    BY <1>2 DEF Executor
  <2>2. heap' = Append(q, k) /\ coalesce' = [coalesce EXCEPT ![k] = <<>>]
    BY <1>2, <2>1 DEF FollowUp
  <2>3. /\ heap' \in Seq(Tasks) /\ Distinct(heap')
        /\ Range(heap') = Range(q) \cup {k}
    <3>1. q \in Seq(Tasks) /\ Distinct(q) /\ k \in Tasks /\ k \notin Range(q)
      BY <2>1
    <3>2. /\ Append(q, k) \in Seq(Tasks) /\ Distinct(Append(q, k))
          /\ Range(Append(q, k)) = Range(q) \cup {k}
      BY <3>1, AppendDistinct
    <3> QED
      BY <2>2, <3>2
  <2> QED
    BY <1>2, <2>1, <2>2, <2>3 DEF Executor
<1> QED
  BY <1>1, <1>2
-----------------------------------------------------------------------------
(* The inductive invariant holds initially and every action keeps it. *)

LEMMA IdleThread == Idle \in Thread /\ Idle.pc = "idle"
<1>1. MaxWals \in Nat
  BY OptionsAssumption
<1> QED
  BY <1>1 DEF Idle, Thread

LEMMA InitIInv == Init => IInv
<1> SUFFICES ASSUME Init PROVE IInv
  OBVIOUS
<1> USE DEF Init
<1>1. Executor
  BY EmptyDistinct DEF Executor
<1>2. Shapes
  <2>1. proc \in [Procs -> Thread]
    BY IdleThread
  <2>2. imm \in Seq(Wals)
    OBVIOUS
  <2> QED
    BY <2>1, <2>2, OptionsAssumption DEF Shapes, Wals, Caller
<1>3. \A p \in Procs : proc[p] = Idle /\ proc[p].pc = "idle"
  BY IdleThread
<1>4. Caller \in Procs /\ Workers \subseteq Procs
  BY DEF Procs
<1>5. KeysOnce /\ AtWork
  BY <1>3, <1>4 DEF KeysOnce, Busy, AtWork, AtFlush, AtCompaction
<1>6. Locks /\ Sealing
  BY <1>3, <1>4 DEF Locks, Sealing, Caller
<1>7. Queued
  BY EmptyDistinct DEF Queued, Wals
<1>8. Counts
  <2>1. {p \in Workers : proc[p].pc # "idle"} = {}
    BY <1>3, <1>4
  <2> QED
    BY <2>1, FS_EmptySet, Zenon DEF Counts
<1>9. Silent
  BY DEF Silent, QuiescedSilent
<1>10. Flags
  BY Zenon DEF Flags
<1> QED
  BY <1>1, <1>2, <1>5, <1>6, <1>7, <1>8, <1>9, <1>10 DEF IInv

\* A step that leaves the threads and the executor alone.
LEMMA FrameExecutor ==
    ASSUME IInv, UNCHANGED <<heap, coalesce, proc, inside>>
    PROVE  Executor' /\ KeysOnce' /\ Counts'
BY DEF IInv, Executor, KeysOnce, Counts, Busy

LEMMA FrameMem ==
    ASSUME IInv, UNCHANGED <<coalesce, proc, l0, mem>>
    PROVE  AtWork' /\ Queued'
BY DEF IInv, AtWork, AtFlush, AtCompaction, Queued, mem

\* The leader at the L0 gate changes nothing but its own place and `active`.
LEMMA WriterIInv == ASSUME IInv, Commit \/ DecideL0 \/ ParkL0 PROVE IInv'
<1> USE DEF executor, mem, gates, bounds
<1>1. /\ UNCHANGED <<heap, coalesce, proc, inside, l0, wal, imm, slot, count, quiescer, shut>>
      /\ UNCHANGED <<merging, slotShut, l0Shut, ticking, faults, flushes>>
  BY DEF Commit, DecideL0, ParkL0
<1>2. Executor' /\ KeysOnce' /\ Counts'
  BY <1>1, FrameExecutor
<1>3. AtWork' /\ Queued'
  BY <1>1 DEF IInv, AtWork, AtFlush, AtCompaction, Queued
<1>4. Shapes'
  BY <1>1 DEF IInv, Shapes, Commit, DecideL0, ParkL0
<1>5. Locks' /\ Sealing'
  BY <1>1 DEF IInv, Locks, Sealing, Caller, Shapes, Commit, DecideL0, ParkL0
<1>6. Silent'
  BY <1>1 DEF IInv, Silent, QuiescedSilent
<1>7. Flags'
  BY <1>1, Zenon DEF IInv, Flags, Commit, DecideL0, ParkL0
<1> QED
  BY <1>2, <1>3, <1>4, <1>5, <1>6, <1>7 DEF IInv

\* Shutdown: when the count of those inside is zero, nobody is inside.
LEMMA QuiesceIInv == ASSUME IInv, Shutdown \/ ShutBackground \/ Join PROVE IInv'
<1> USE DEF executor, mem, bounds
<1>1. /\ UNCHANGED <<heap, coalesce, proc, inside, l0, mem, merging, lock, faults, flushes>>
  BY DEF Shutdown, ShutBackground, Join, Quiescing
<1>2. Executor' /\ KeysOnce' /\ Counts'
  BY <1>1, FrameExecutor
<1>3. AtWork' /\ Queued'
  BY <1>1, FrameMem
<1>4. Shapes'
  BY <1>1
  DEF IInv, Shapes, Shutdown, ShutBackground, Join, Quiescing, UnstalledSlot, NotifyL0
<1>5. Locks' /\ Sealing'
  BY <1>1
  DEF IInv, Locks, Sealing, Shapes, Shutdown, ShutBackground, Join, Quiescing, UnstalledSlot, NotifyL0
<1>6. Silent'
  <2>1. CASE Shutdown \/ ShutBackground
    BY <1>1, <2>1, Zenon
    DEF IInv, Silent, QuiescedSilent, Shutdown, ShutBackground, Quiescing
  <2>2. CASE Join
    <3> DEFINE B == {p \in Workers : proc[p].pc # "idle"}
    <3>1. Cardinality(B) = 0
      BY <2>2 DEF Join, Joined, IInv, Counts
    <3>2. IsFiniteSet(B)
      BY OptionsAssumption, FS_Subset
    <3>3. B = {}
      BY <3>1, <3>2, FS_EmptySet
    <3>4. \A p \in Workers : proc[p].pc = "idle"
      BY <3>3
    <3> QED
      BY <1>1, <2>2, <3>4, Zenon DEF IInv, Silent, QuiescedSilent, Join, Quiescing
  <2> QED
    BY <2>1, <2>2
<1>7. Flags'
  BY <1>1, Zenon DEF IInv, Flags, Shutdown, ShutBackground, Join, Quiescing
<1> QED
  BY <1>2, <1>3, <1>4, <1>5, <1>6, <1>7 DEF IInv

LEMMA TickIInv == ASSUME IInv, Tick PROVE IInv'
<1> USE DEF mem, gates, bounds
<1>1. /\ UNCHANGED <<proc, writer, lock, merging, l0, mem, gates, bounds>>
      /\ SyncTick \notin DOMAIN coalesce /\ Submit(SyncTick) /\ SyncTick \in Tasks
  BY DEF Tick, Tasks
<1>2. /\ Executor' /\ Range(heap') = Range(heap) \cup {SyncTick}
      /\ DOMAIN coalesce' = DOMAIN coalesce \cup {SyncTick}
  BY <1>1, SubmitFacts, Zenon DEF IInv
<1>3. KeysOnce'
  BY <1>1, <1>2, Zenon DEF IInv, KeysOnce, Busy
<1>4. AtWork'
  <2>1. \A w \in Wals : Flush(w) # SyncTick
    BY DEF Flush, SyncTick
  <2> QED
    BY <1>1, <1>2, <2>1, Zenon DEF IInv, AtWork, AtFlush, AtCompaction
<1>5. Shapes' /\ Flags' /\ Locks' /\ Sealing' /\ Queued' /\ Counts' /\ Silent'
  BY <1>1 DEF IInv, Shapes, Flags, Locks, Sealing, Queued, Counts, Silent, QuiescedSilent
<1> QED
  BY <1>2, <1>3, <1>4, <1>5, Zenon DEF IInv

\* The push of the memtable being sealed; its segment is the newest one.
LEMMA SealedFacts ==
    ASSUME IInv, Sealed, wal < MaxWals
    PROVE  /\ imm' \in Seq(Wals) /\ Len(imm') = Len(imm) + 1 /\ Distinct(imm')
           /\ Range(imm') = Range(imm) \cup {wal} /\ wal \notin Range(imm)
           /\ wal' = wal + 1 /\ wal' \in Wals /\ wal \in Wals /\ slot' = slot
           /\ active' = FALSE
           /\ Queued'
<1>1. wal \in Wals /\ imm \in Seq(Wals) /\ Distinct(imm) /\ wal \notin Range(imm)
  BY DEF IInv, Shapes, Queued, Wals
<1>2. imm' = Append(imm, wal) /\ wal' = wal + 1 /\ slot' = slot /\ active' = FALSE
  BY DEF Sealed
<1>3. /\ imm' \in Seq(Wals) /\ Len(imm') = Len(imm) + 1 /\ Distinct(imm')
      /\ Range(imm') = Range(imm) \cup {wal}
  BY <1>1, <1>2, AppendDistinct
<1>4. wal' \in Wals
  BY <1>1, <1>2, OptionsAssumption DEF Wals
<1>5. Queued'
  <2>1. \A w \in Range(imm) : w \in Nat /\ w < wal
    <3>1. Range(imm) \subseteq Wals
      BY <1>1 DEF Range
    <3> QED
      BY <3>1 DEF IInv, Queued, Wals
  <2>2. wal \in Nat
    BY <1>1 DEF Wals
  <2>3. \A w \in Range(imm') : w < wal'
    BY <1>2, <1>3, <2>1, <2>2
  <2>4. ASSUME NEW w \in Wals, w < wal', slot'[w] # "Completed" PROVE w \in Range(imm')
    <3>1. w \in Nat /\ (w < wal \/ w = wal)
      BY <1>2, <2>2, <2>4 DEF Wals
    <3> QED
      BY <1>2, <1>3, <2>4, <3>1 DEF IInv, Queued
  <2>5. \A w \in Wals : w >= wal' => slot'[w] = "Pending"
    BY <1>2, <2>2 DEF IInv, Queued, Wals
  <2> QED
    BY <1>3, <2>3, <2>4, <2>5 DEF Queued
<1> QED
  BY <1>1, <1>2, <1>3, <1>4, <1>5

LEMMA AwaitSlotIInv == ASSUME IInv, AwaitSlot PROVE IInv'
<1> USE DEF executor, mem, gates, bounds
<1>1. UNCHANGED <<heap, coalesce, proc, lock, merging, l0, count, gates, bounds, slot>>
  BY DEF AwaitSlot, Sealed
<1>2. Executor' /\ KeysOnce' /\ Counts'
  BY <1>1, FrameExecutor
<1>3. Silent'
  BY <1>1 DEF IInv, Silent, QuiescedSilent
<1>4. CASE writer' = "count" /\ Sealed
  <2>1. wal < MaxWals
    BY <1>4 DEF AwaitSlot, IInv, Locks
  <2>2. /\ imm' \in Seq(Wals) /\ wal' = wal + 1 /\ wal' \in Wals /\ wal \in Wals
        /\ slot' = slot /\ active' = FALSE /\ Queued'
    BY <1>4, <2>1, SealedFacts
  <2>3. Shapes'
    BY <1>1, <1>4, <2>2 DEF IInv, Shapes
  <2>4. Flags'
    BY <1>1, <2>2, Zenon DEF IInv, Flags
  <2>5. Locks' /\ Sealing'
    BY <1>1, <1>4, <2>2 DEF IInv, Locks, Sealing, AwaitSlot, Wals
  <2>6. AtWork'
    <3>1. \A w \in Wals : w < wal => w < wal'
      BY <2>2 DEF Wals
    <3> QED
      BY <1>1, <2>2, <3>1, Zenon DEF IInv, AtWork, AtFlush, AtCompaction
  <2> QED
    BY <1>2, <1>3, <2>2, <2>3, <2>4, <2>5, <2>6 DEF IInv
<1>5. CASE writer' = "slotwait" /\ UNCHANGED mem
  <2>1. AtWork' /\ Queued'
    BY <1>1, <1>5, FrameMem
  <2>2. Shapes' /\ Flags'
    BY <1>1, <1>5, Zenon DEF IInv, Shapes, Flags
  <2>3. Locks' /\ Sealing'
    BY <1>1, <1>5, SMTT(30) DEF IInv, Locks, Sealing, AwaitSlot
  <2> QED
    BY <1>2, <1>3, <2>1, <2>2, <2>3 DEF IInv
<1> QED
  BY <1>4, <1>5 DEF AwaitSlot

\* A submission disturbs no task that is running, and lets no key of a flush in but
\* its own.
LEMMA SubmitIInv ==
    ASSUME IInv, NEW t \in Tasks, Submit(t) \/ UNCHANGED executor
    PROVE  /\ Executor'
           /\ \A p \in Workers : Busy(p) => /\ proc[p].task \in DOMAIN coalesce'
                                            /\ proc[p].task \notin Range(heap')
           /\ \A w \in Wals : Flush(w) \in DOMAIN coalesce' =>
                                 Flush(w) \in DOMAIN coalesce \/ Flush(w) = t
<1>1. CASE UNCHANGED executor
  BY <1>1 DEF IInv, Executor, KeysOnce, executor
<1>2. CASE Submit(t)
  <2>1. Executor
    BY DEF IInv
  <2>2. /\ Executor'
        /\ Range(heap') = IF t \in DOMAIN coalesce THEN Range(heap) ELSE Range(heap) \cup {t}
        /\ DOMAIN coalesce' = DOMAIN coalesce \cup {t}
    BY <1>2, <2>1, SubmitFacts, Zenon
  <2> QED
    BY <2>2 DEF IInv, KeysOnce
<1> QED
  BY <1>1, <1>2, Zenon

LEMMA FlushEqual == \A v, w : (Flush(v) = Flush(w) => v = w) /\ Flush(w) # Compaction
                              /\ Flush(w) # SyncTick /\ Compaction # SyncTick
BY DEF Flush, Compaction, SyncTick

LEMMA CountSealIInv == ASSUME IInv, CountSeal PROVE IInv'
<1> USE DEF mem, gates, bounds
<1>1. /\ UNCHANGED <<proc, merging, l0, active, wal, imm, slot, gates, bounds>>
      /\ writer = "count" /\ writer' = "idle" /\ lock' = "free" /\ count' = count + 1
      /\ Submit(Flush(wal - 1)) \/ UNCHANGED executor
  BY DEF CountSeal, Counted
<1>2. wal \in Wals /\ 1 < wal /\ wal - 1 \in Wals /\ Flush(wal - 1) \in Tasks
  <2>1. wal \in 1 .. MaxWals /\ MaxWals \in Nat
    BY OptionsAssumption DEF IInv, Shapes, Wals
  <2>2. 1 < wal
    BY <1>1, <2>1, SMTT(30) DEF IInv, Sealing
  <2> QED
    BY <2>1, <2>2 DEF Wals, Tasks
<1>3. /\ Executor'
      /\ \A p \in Workers : Busy(p) => /\ proc[p].task \in DOMAIN coalesce'
                                       /\ proc[p].task \notin Range(heap')
      /\ \A w \in Wals : Flush(w) \in DOMAIN coalesce' =>
                            Flush(w) \in DOMAIN coalesce \/ Flush(w) = Flush(wal - 1)
  BY <1>1, <1>2, SubmitIInv
<1>4. KeysOnce'
  BY <1>1, <1>3 DEF IInv, KeysOnce, Busy
<1>5. AtWork'
  <2>1. \A w \in Wals : Flush(w) \in DOMAIN coalesce' => w < wal'
    <3>1. wal' = wal /\ \A w \in Wals : Flush(w) \in DOMAIN coalesce => w < wal
      BY <1>1, Zenon DEF IInv, AtWork
    <3>2. wal - 1 < wal /\ \A w \in Wals : Flush(w) = Flush(wal - 1) => w = wal - 1
      BY <1>2, FlushEqual DEF Wals
    <3> QED
      BY <1>3, <3>1, <3>2, Zenon
  <2> QED
    BY <1>1, <2>1, Zenon DEF IInv, AtWork, AtFlush, AtCompaction
<1>6. Shapes'
  BY <1>1 DEF IInv, Shapes
<1>7. Locks' /\ Sealing'
  BY <1>1 DEF IInv, Locks, Sealing, Caller
<1>8. Flags' /\ Queued' /\ Counts' /\ Silent'
  BY <1>1 DEF IInv, Flags, Queued, Counts, Silent, QuiescedSilent
<1> QED
  BY <1>3, <1>4, <1>5, <1>6, <1>7, <1>8, Zenon DEF IInv

LEMMA ProcsFacts == /\ Caller \in Procs /\ Workers \subseteq Procs /\ Caller \notin Workers
                    /\ \A p \in Procs : p # Caller => p \in Workers
BY OptionsAssumption DEF Procs, Caller

\* A step of a thread that neither starts nor ends a task keeps the count.
LEMMA SameCount ==
    ASSUME Counts, inside' = inside,
           \A p \in Workers : proc'[p].pc = "idle" <=> proc[p].pc = "idle"
    PROVE  Counts'
<1>1. {p \in Workers : proc'[p].pc # "idle"} = {p \in Workers : proc[p].pc # "idle"}
  OBVIOUS
<1> QED
  BY <1>1 DEF Counts

LEMMA AtThread ==
    /\ At("count") \in Thread /\ At("drain") \in Thread
    /\ At("count").pc = "count" /\ At("drain").pc = "drain"
    /\ \A w \in Wals : /\ [At("claim") EXCEPT !.wal = w] \in Thread
                       /\ [At("claim") EXCEPT !.wal = w].pc = "claim"
                       /\ [At("claim") EXCEPT !.wal = w].wal = w
<1>1. MaxWals \in Nat
  BY OptionsAssumption
<1>2. \A pc \in {"count", "drain", "claim"} : At(pc) \in Thread /\ At(pc).pc = pc
  BY <1>1 DEF At, Idle, Thread
<1>3. ASSUME NEW r \in Thread, NEW w \in Wals, NEW s, s = [r EXCEPT !.wal = w]
      PROVE  s \in Thread /\ s.pc = r.pc /\ s.wal = w
  BY <1>1, <1>3 DEF Thread, Wals
<1> QED
  BY <1>2, <1>3

\* A step in which the caller of flush_memtable goes to v, and no worker moves.
LEMMA CallerMoves ==
    ASSUME IInv, NEW v \in Thread, proc' = [proc EXCEPT ![Caller] = v],
           v.pc \in {"idle", "count", "drain", "claim"}
    PROVE  /\ proc' \in [Procs -> Thread] /\ proc'[Caller] = v
           /\ \A p \in Procs : p # Caller => proc'[p] = proc[p]
           /\ \A p \in Workers : proc'[p] = proc[p]
BY ProcsFacts, SMTT(30) DEF IInv, Shapes

\* Its steps up to the drain leave what every thread is at consistent.
LEMMA CallerAtWork ==
    ASSUME AtWork, UNCHANGED <<l0, coalesce, slot>>,
           \A w \in Wals : w < wal => w < wal',
           proc'[Caller].pc \in {"count", "drain"},
           \A p \in Procs : p # Caller => proc'[p] = proc[p]
    PROVE  AtWork'
<1>1. \A p \in Workers : p \in Procs /\ p # Caller /\ proc'[p] = proc[p]
  BY ProcsFacts
<1>2. /\ proc'[Caller].pc \notin {"claim", "write", "retire", "leave", "merge"}
      /\ ~AtCompaction(Caller)'
  BY DEF AtCompaction
<1>3. \A p \in Procs : AtFlush(p)' => AtFlush(p) /\ proc'[p] = proc[p]
  BY <1>2 DEF AtFlush
<1>4. \A p \in Procs : AtFlush(p)' => proc'[p].wal \in Wals /\ proc'[p].wal < wal'
  BY <1>3, Zenon DEF AtWork
<1>5. \A p \in Workers : /\ proc'[p].pc \notin {"count", "drain"}
                         /\ AtCompaction(p)' => proc'[p].task = Compaction
                         /\ proc'[p].pc = "merge" => proc'[p].took <= l0'
  BY <1>1, Zenon DEF AtWork, AtCompaction
<1>6. \A p \in Procs : proc'[p].pc = "write" => proc[p].pc = "write" /\ proc'[p] = proc[p]
  BY <1>2, Zenon
<1>0. /\ UNCHANGED slot
      /\ \A p \in Procs : proc[p].pc = "write" => slot[proc[p].wal] = "InFlight"
      /\ \A p, q \in Procs : proc[p].pc = "write" /\ proc[q].pc = "write" /\ p # q =>
            proc[p].wal # proc[q].wal
  BY Zenon DEF AtWork
<1>7. \A p \in Procs : proc'[p].pc = "write" => slot'[proc'[p].wal] = "InFlight"
  BY <1>0, <1>6, Zenon
<1>8. \A p, q \in Procs : (proc'[p].pc = "write" /\ proc'[q].pc = "write" /\ p # q) =>
          proc'[p].wal # proc'[q].wal
  BY <1>0, <1>6
<1>9. \A w \in Wals : Flush(w) \in DOMAIN coalesce' => w < wal'
  BY Zenon DEF AtWork
<1> QED
  BY <1>2, <1>4, <1>5, <1>7, <1>8, <1>9, Zenon DEF AtWork

LEMMA BeginFlushIInv == ASSUME IInv, BeginFlush PROVE IInv'
<1> USE DEF executor, mem, gates
<1>1. /\ UNCHANGED <<writer, merging, l0, heap, coalesce, gates, faults, count, slot>>
      /\ proc[Caller].pc = "idle" /\ lock = "free" /\ writer = "idle"
      /\ faults' + flushes' <= MaxExtras /\ flushes' \in Nat
  BY OptionsAssumption DEF BeginFlush, Sealed, IInv, Locks, Shapes
<1>2. PICK v \in Thread : /\ proc' = [proc EXCEPT ![Caller] = v] /\ v.pc \in {"count", "drain"}
                          /\ v.pc = "count" <=> lock' = Caller
                          /\ lock' \in {"free", Caller}
  BY <1>1, AtThread DEF BeginFlush, Caller
<1>3. /\ proc' \in [Procs -> Thread] /\ proc'[Caller] = v
      /\ \A p \in Procs : p # Caller => proc'[p] = proc[p]
      /\ \A p \in Workers : proc'[p] = proc[p]
  BY <1>2, CallerMoves, Zenon
<1>4. /\ imm' \in Seq(Wals) /\ wal' \in Wals /\ Queued'
      /\ wal \in Nat /\ wal' \in Nat /\ wal <= wal'
  <2>0. wal \in Wals /\ wal \in Nat
    BY DEF IInv, Shapes, Wals
  <2>1. CASE wal < MaxWals /\ Sealed
    BY <2>0, <2>1, SealedFacts
  <2>2. CASE UNCHANGED mem
    BY <2>0, <2>2, SMTT(30) DEF IInv, Shapes, Queued
  <2> QED
    BY <2>1, <2>2 DEF BeginFlush
<1>5. Executor'
  BY <1>1, Zenon DEF IInv, Executor
<1>6. KeysOnce'
  BY <1>1, <1>3 DEF IInv, KeysOnce, Busy
<1>7. Counts'
  BY <1>1, <1>3, SameCount DEF IInv
<1>8. Shapes'
  BY <1>1, <1>2, <1>3, <1>4, SMTT(30) DEF IInv, Shapes
<1>9. Flags'
  BY <1>1, Zenon DEF IInv, Flags, BeginFlush, Sealed
<1>10. Locks' /\ Sealing'
  BY <1>1, <1>2, <1>3, <1>4 DEF IInv, Locks, Sealing, Caller
<1>11. Silent'
  BY <1>1, <1>3 DEF IInv, Silent, QuiescedSilent
<1>12. AtWork'
  <2>1. \A w \in Wals : w < wal => w < wal'
    <3>1. wal \in Nat /\ wal' \in Nat /\ wal <= wal'
      BY <1>4, Zenon
    <3>2. \A w \in Wals : w \in Nat
      BY DEF Wals
    <3> QED
      BY <3>1, <3>2
  <2>2. AtWork /\ UNCHANGED <<l0, coalesce, slot>>
    BY <1>1, Zenon DEF IInv
  <2> QED
    BY <1>2, <1>3, <2>1, <2>2, CallerAtWork
<1> QED
  BY <1>4, <1>5, <1>6, <1>7, <1>8, <1>9, <1>10, <1>11, <1>12, SMTT(30) DEF IInv

LEMMA CountFlushIInv == ASSUME IInv, CountFlush PROVE IInv'
<1> USE DEF executor, gates, bounds
<1>1. /\ UNCHANGED <<writer, merging, l0, heap, coalesce, gates, bounds, active, wal, imm, slot>>
      /\ proc[Caller].pc = "count" /\ lock = Caller /\ lock' = "free" /\ writer = "idle"
      /\ count' = count + 1
  BY DEF CountFlush, Counted, IInv, Locks, Caller
<1>2. PICK v \in Thread : proc' = [proc EXCEPT ![Caller] = v] /\ v.pc = "drain"
  BY <1>1, AtThread, Zenon DEF CountFlush
<1>3. /\ proc' \in [Procs -> Thread] /\ proc'[Caller] = v
      /\ \A p \in Procs : p # Caller => proc'[p] = proc[p]
      /\ \A p \in Workers : proc'[p] = proc[p]
  BY <1>2, CallerMoves, Zenon
<1>4. Executor'
  BY <1>1 DEF IInv, Executor
<1>5. KeysOnce'
  BY <1>1, <1>3, Zenon DEF IInv, KeysOnce, Busy
<1>6. Counts'
  BY <1>1, <1>3, SameCount, Zenon DEF IInv
<1>7. Shapes' /\ Flags' /\ Queued'
  BY <1>1, <1>3 DEF IInv, Shapes, Flags, Queued
<1>8. Locks' /\ Sealing' /\ Silent'
  BY <1>1, <1>2, <1>3, SMTT(30) DEF IInv, Locks, Sealing, Silent, QuiescedSilent, Caller
<1>9. AtWork'
  <2>1. AtWork /\ UNCHANGED <<l0, coalesce, slot>> /\ wal' = wal
    BY <1>1, Zenon DEF IInv
  <2> QED
    BY <1>2, <1>3, <2>1, CallerAtWork
<1> QED
  BY <1>4, <1>5, <1>6, <1>7, <1>8, <1>9, SMTT(30) DEF IInv
=============================================================================
