---------------------------- MODULE BacklogProofs ----------------------------
(***************************************************************************)
(* A compaction that is due is always on its way, and the two stalls bound *)
(* what piles up behind the writers, for any number of workers, segments   *)
(* and level-0 tables, any cap and any stop trigger.                       *)
(***************************************************************************)
EXTENDS BackgroundProofs

\* A caller of flush_memtable that is not at work has drained the queue, so that only
\* stalled writers have filled it; and whoever may seal next was let in below the stop
\* trigger.
Calm == "fault" \notin excused /\ ~slotShut
Admitted == Calm /\ ~l0Shut
Pushing == writer = "count" \/ proc[Caller].pc = "count"
QueueCovered ==
    /\ Len(imm) <= count + (IF Pushing THEN 1 ELSE 0)
    /\ Calm => Len(imm) <= Cap + 1
    /\ Calm /\ proc[Caller].pc = "idle" => Len(imm) <= Cap
L0Covered == L0Bounded /\ (Admitted /\ active => ToLevel0 <= Stop + Cap)
-----------------------------------------------------------------------------
(* A compaction that is due is on its way. *)

\* In the queue, or with a thread that will look at level 0 or ask for a look.
QueueAsks == \/ Compaction \in Range(heap)
             \/ Compaction \in DOMAIN coalesce /\ coalesce[Compaction] # <<>>
Asks(p) == \/ p \in Workers /\ proc[p].task = Compaction /\ AtCompaction(p)
           \/ AtFlush(p)
           \/ p = Caller /\ proc[p].pc = "drain"

LEMMA ImmRange == IInv => Range(imm) \subseteq Wals
<1>1. \A q \in Seq(Wals) : \A i \in DOMAIN q : q[i] \in Wals
  OBVIOUS
<1> QED
  BY <1>1, Zenon DEF IInv, Shapes, Range

LEMMA AskedForm == Asked <=> QueueAsks \/ \E p \in Procs : Asks(p)
BY ProcsFacts DEF Asked, QueueAsks, Asks, AtFlush, AtCompaction

LEMMA AskedFormNext == Asked' <=> QueueAsks' \/ \E p \in Procs : Asks(p)'
BY ProcsFacts DEF Asked, QueueAsks, Asks, AtFlush, AtCompaction

LEMMA QueueKeepsAsk ==
    ASSUME IInv, NEW t \in Tasks, Submit(t) \/ UNCHANGED executor, QueueAsks
    PROVE  QueueAsks'
<1>1. CASE UNCHANGED executor
  BY <1>1 DEF QueueAsks, executor
<1>2. CASE Submit(t)
  <2>1. Executor
    BY DEF IInv
  <2>2. /\ Range(heap') = IF t \in DOMAIN coalesce THEN Range(heap) ELSE Range(heap) \cup {t}
        /\ DOMAIN coalesce' = DOMAIN coalesce \cup {t}
        /\ \A k \in DOMAIN coalesce : coalesce[k] # <<>> => coalesce'[k] # <<>>
    BY <1>2, <2>1, SubmitFacts, Zenon
  <2> QED
    BY <2>2 DEF QueueAsks
<1> QED
  BY <1>1, <1>2

LEMMA TriggerAsks ==
    ASSUME IInv, ~shut, TriggerCompaction
    PROVE  QueueAsks'
<1>1. Executor /\ Compaction \in Tasks /\ Submit(Compaction)
  BY DEF IInv, TriggerCompaction, Tasks
<1>2. /\ Compaction \in DOMAIN coalesce'
      /\ Compaction \in Range(heap') \/ coalesce'[Compaction] # <<>>
  BY <1>1, SubmitFacts, Zenon
<1> QED
  BY <1>2 DEF QueueAsks

LEMMA OthersKeepAsk ==
    ASSUME IInv, NEW p \in Procs, NEW v \in Thread, Moves(p, v),
           NEW q \in Procs, q # p, Asks(q)
    PROVE  Asks(q)'
<1>1. proc'[q] = proc[q]
  BY MoveFacts
<1> QED
  BY <1>1 DEF Asks, AtFlush, AtCompaction

\* What is due after a step and was not asked for by it was due before.
Due == l0 >= Threshold /\ ~shut /\ excused \cap {"fault", "found"} = {}

LEMMA WorkingAsks ==
    ASSUME IInv, CompactionComes, NEW p \in Workers,
           LockCompaction(p) \/ Merge(p) \/ Notify(p), Due'
    PROVE  Asked'
<1>1. CASE LockCompaction(p) \/ Notify(p)
  <2>1. p \in Procs /\ proc[p] \in Thread /\ proc[p].task = Compaction /\ l0 \in Nat
    BY <1>1, ProcsFacts DEF LockCompaction, Notify, IInv, AtWork, AtCompaction, Shapes
  <2>2. l0 >= Threshold
    BY <1>1 DEF LockCompaction, Notify, Due
  <2>3. Moves(p, Took(proc[p], "merge", l0)) /\ "merge" \in Places
    BY <1>1, <2>2, PlacesFacts DEF LockCompaction, Notify, Picked, Moves, Took
  <2>4. /\ Took(proc[p], "merge", l0) \in Thread /\ Took(proc[p], "merge", l0).pc = "merge"
        /\ Took(proc[p], "merge", l0).task = Compaction
    BY <2>1, <2>3, TookFacts
  <2>5. proc'[p].pc = "merge" /\ proc'[p].task = Compaction
    BY <2>1, <2>3, <2>4, MoveFacts
  <2>6. Asks(p)'
    BY <2>5 DEF Asks, AtCompaction
  <2> QED
    BY <2>1, <2>6, AskedFormNext
<1>2. CASE Merge(p) /\ proc' = [proc EXCEPT ![p] = [@ EXCEPT !.pc = "notify", !.took = 0]]
  <2>1. p \in Procs /\ proc[p] \in Thread /\ proc[p].task = Compaction /\ 0 \in Nat
    BY <1>2, ProcsFacts DEF Merge, IInv, AtWork, AtCompaction, Shapes
  <2>2. Moves(p, Took(proc[p], "notify", 0)) /\ "notify" \in Places
    BY <1>2, PlacesFacts DEF Moves, Took
  <2>3. /\ Took(proc[p], "notify", 0) \in Thread /\ Took(proc[p], "notify", 0).pc = "notify"
        /\ Took(proc[p], "notify", 0).task = Compaction
    BY <2>1, <2>2, TookFacts
  <2>4. proc'[p].pc = "notify" /\ proc'[p].task = Compaction
    BY <2>1, <2>2, <2>3, MoveFacts
  <2>5. Asks(p)'
    BY <2>4 DEF Asks, AtCompaction
  <2> QED
    BY <2>1, <2>5, AskedFormNext
<1>3. CASE Merge(p) /\ "fault" \in excused'
  BY <1>3 DEF Due
<1> QED
  BY <1>1, <1>2, <1>3, Zenon DEF Merge

LEMMA FollowUpAsks ==
    ASSUME Executor, QueueAsks, NEW q \in Seq(Tasks), Distinct(q),
           NEW k \in DOMAIN coalesce, k \notin Range(q), FollowUp(q, k),
           Range(q) \subseteq DOMAIN coalesce,
           Compaction \in Range(heap) => Compaction \in Range(q)
    PROVE  QueueAsks'
<1>1. /\ Range(heap') = IF coalesce[k] # <<>> THEN Range(q) \cup {k} ELSE Range(q)
      /\ DOMAIN coalesce \ {k} \subseteq DOMAIN coalesce'
      /\ \A j \in DOMAIN coalesce \ {k} : coalesce'[j] = coalesce[j]
  BY FollowUpFacts
<1>2. CASE Compaction \in Range(heap)
  BY <1>1, <1>2 DEF QueueAsks
<1>3. CASE Compaction \in DOMAIN coalesce /\ coalesce[Compaction] # <<>>
  <2>1. CASE Compaction = k
    BY <1>1, <1>3, <2>1 DEF QueueAsks
  <2>2. CASE Compaction # k
    BY <1>1, <1>3, <2>2 DEF QueueAsks
  <2> QED
    BY <2>1, <2>2
<1> QED
  BY <1>2, <1>3 DEF QueueAsks

\* A queued compaction is taken up.
LEMMA DequeueAsks ==
    ASSUME IInv, CompactionComes, NEW p \in Workers, Dequeue(p), Due'
    PROVE  Asked'
<1>1. /\ l0' = l0 /\ excused' = excused /\ shut' = shut /\ p \in Procs /\ ~shut
      /\ proc[p].pc = "idle"
  BY ProcsFacts DEF Dequeue, Due
<1>2. Asked
  BY <1>1 DEF Due, CompactionComes
<1>3. PICK i \in DOMAIN heap :
         \/ /\ heap[i] # SyncTick
            /\ proc' = [proc EXCEPT ![p] = [pc |-> Start[heap[i].kind], task |-> heap[i],
                                            wal |-> heap[i].wal, took |-> 0]]
         \/ /\ heap[i] = SyncTick
            /\ FollowUp(LeaveOut(heap, i), heap[i])
            /\ UNCHANGED proc
  BY <1>1 DEF Dequeue, MayEnter
<1> DEFINE t == heap[i]
<1>4. heap \in Seq(Tasks) /\ Distinct(heap) /\ Executor
  BY DEF IInv, Executor
<1>5. t \in Range(heap) /\ t \in Tasks /\ t \in DOMAIN coalesce
  <2>1. t \in Range(heap)
    BY DEF Range
  <2> QED
    BY <2>1 DEF IInv, Executor
<1>6. /\ LeaveOut(heap, i) \in Seq(Tasks) /\ Distinct(LeaveOut(heap, i))
      /\ Range(LeaveOut(heap, i)) = Range(heap) \ {t}
  BY <1>4, LeaveOutDistinct
<1> HIDE DEF t
<1>7. CASE /\ t # SyncTick
           /\ proc' = [proc EXCEPT ![p] = [pc |-> Start[t.kind], task |-> t,
                                           wal |-> t.wal, took |-> 0]]
  <2>1. PICK v : v = [pc |-> Start[t.kind], task |-> t, wal |-> t.wal, took |-> 0]
    BY Zenon
  <2>2. /\ v \in Thread /\ v.task = t /\ v.pc \in {"claim", "lock"}
        /\ v.pc = "lock" => t = Compaction
    BY <1>5, <1>7, <2>1, StartThread
  <2>3. Moves(p, v)
    BY <1>7, <2>1 DEF Moves
  <2>4. proc'[p] = v
    BY <1>1, <2>2, <2>3, MoveFacts
  <2>5. Asks(p)'
    BY <2>2, <2>4 DEF Asks, AtFlush, AtCompaction
  <2> QED
    BY <1>1, <2>5, AskedFormNext
<1>8. CASE t = SyncTick /\ FollowUp(LeaveOut(heap, i), t) /\ UNCHANGED proc
  <2>1. CASE QueueAsks
    <3>1. /\ Range(LeaveOut(heap, i)) \subseteq DOMAIN coalesce
          /\ Compaction \in Range(heap) => Compaction \in Range(LeaveOut(heap, i))
          /\ t \notin Range(LeaveOut(heap, i))
      BY <1>6, <1>8, FlushEqual DEF IInv, Executor
    <3>2. QueueAsks'
      BY <1>4, <1>5, <1>6, <1>8, <2>1, <3>1, FollowUpAsks
    <3> QED
      BY <3>2, AskedFormNext
  <2>2. ASSUME NEW q \in Procs, Asks(q) PROVE Asked'
    <3>1. Asks(q)'
      BY <1>8, <2>2 DEF Asks, AtFlush, AtCompaction
    <3> QED
      BY <3>1, AskedFormNext
  <2> QED
    BY <1>2, <2>1, <2>2, AskedForm
<1> QED
  BY <1>3, <1>7, <1>8 DEF t

\* A task that ends leaves its pending successor.
LEMMA FinishAsks ==
    ASSUME IInv, CompactionComes, NEW p \in Workers, Finish(p), Due'
    PROVE  Asked'
<1>1. /\ l0' = l0 /\ excused' = excused /\ shut' = shut /\ p \in Procs /\ p # Caller
      /\ proc[p].pc = "leave" /\ FollowUp(heap, proc[p].task) /\ Moves(p, Idle)
  BY ProcsFacts DEF Finish, Moves
<1>2. Asked
  BY <1>1 DEF Due, CompactionComes
<1>3. CASE QueueAsks
  <2>1. /\ Executor /\ heap \in Seq(Tasks) /\ Distinct(heap)
        /\ Range(heap) \subseteq DOMAIN coalesce
        /\ proc[p].task \in DOMAIN coalesce /\ proc[p].task \notin Range(heap)
    BY <1>1 DEF IInv, Executor, KeysOnce, Busy
  <2>2. QueueAsks'
    BY <1>1, <1>3, <2>1, FollowUpAsks
  <2> QED
    BY <2>2, AskedFormNext
<1>4. ASSUME NEW q \in Procs, Asks(q) PROVE Asked'
  <2>1. q # p
    BY <1>1, <1>4 DEF Asks, AtFlush, AtCompaction
  <2>2. Asks(q)'
    BY <1>1, <1>4, <2>1, IdleThread, OthersKeepAsk
  <2> QED
    BY <2>2, AskedFormNext
<1> QED
  BY <1>2, <1>3, <1>4, AskedForm

\* A flush goes on, or ends by asking.
LEMMA FlushAsks ==
    ASSUME IInv, CompactionComes, NEW p \in Procs, Flushing(p), Due'
    PROVE  Asked'
<1>1. "fault" \notin excused' /\ ~shut' /\ shut' = shut
  BY DEF Due, Flushing, Claim, WriteTable, Retire, gates
<1>2. ~FlushErr(p)
  BY <1>1 DEF FlushErr
<1>3. CASE FlushOk(p)
  <2>1. CASE p # Caller
    BY <1>1, <1>3, <2>1, TriggerAsks, AskedFormNext DEF FlushOk
  <2>2. CASE p = Caller
    <3>1. PICK v \in Thread : FlushMove(p, v) /\ v.pc = "drain"
      <4>1. proc' = [proc EXCEPT ![p].pc = "drain"] /\ UNCHANGED executor
        BY <1>3, <2>2 DEF FlushOk
      <4> QED
        BY <2>2, <4>1, FlushMoveOn, Zenon
    <3>2. proc'[p] = v
      BY <3>1, MoveFacts DEF FlushMove
    <3>3. Asks(p)'
      BY <2>2, <3>1, <3>2 DEF Asks
    <3> QED
      BY <3>3, AskedFormNext
  <2> QED
    BY <2>1, <2>2
<1>4. CASE \/ proc' = [proc EXCEPT ![p].pc = "retire"] /\ UNCHANGED executor
           \/ proc' = [proc EXCEPT ![p].pc = "write"] /\ UNCHANGED executor
  <2>1. PICK v \in Thread : FlushMove(p, v) /\ v.pc \in {"retire", "write"}
    <3>1. PICK c \in {"retire", "write"} : proc' = [proc EXCEPT ![p].pc = c] /\ UNCHANGED executor
      BY <1>4
    <3>2. \E v \in Thread : FlushMove(p, v) /\ v.pc = c
      BY <3>1, FlushMoveOn, Zenon
    <3> QED
      BY <3>2
  <2>2. proc'[p] = v
    BY <2>1, MoveFacts DEF FlushMove
  <2>3. Asks(p)'
    BY <2>1, <2>2 DEF Asks, AtFlush
  <2> QED
    BY <2>3, AskedFormNext
<1>5. CASE proc[p].pc = "retire" /\ UNCHANGED proc
  <2>1. Asks(p)'
    BY <1>5 DEF Asks, AtFlush
  <2> QED
    BY <2>1, AskedFormNext
<1> QED
  BY <1>2, <1>3, <1>4, <1>5 DEF Flushing, Claim, WriteTable, Retire

LEMMA StillAsks ==
    ASSUME IInv, Asked, NEW t \in Tasks, Submit(t) \/ UNCHANGED executor, UNCHANGED proc
    PROVE  Asked'
<1>1. CASE QueueAsks
  BY <1>1, QueueKeepsAsk, AskedFormNext
<1>2. ASSUME NEW q \in Procs, Asks(q) PROVE Asked'
  <2>1. Asks(q)'
    BY <1>2 DEF Asks, AtFlush, AtCompaction
  <2> QED
    BY <2>1, AskedFormNext
<1> QED
  BY <1>1, <1>2, AskedForm

LEMMA WriterAsks ==
    ASSUME IInv, CompactionComes, Tick \/ Commit \/ Writing \/ Shutdown \/ Quiesce, Due'
    PROVE  Asked'
<1>1. l0' = l0 /\ excused' = excused /\ UNCHANGED proc
  BY DEF Tick, Commit, Writing, DecideL0, ParkL0, AwaitSlot, CountSeal, Shutdown, Quiesce,
         ShutBackground, Join, Quiescing
<1>2. ~shut
  <2>1. shut' = shut \/ shut'
    BY DEF Tick, Commit, Writing, DecideL0, ParkL0, AwaitSlot, CountSeal, Shutdown, Quiesce,
           ShutBackground, Join, gates
  <2> QED
    BY <2>1 DEF Due
<1>3. Asked
  BY <1>1, <1>2 DEF Due, CompactionComes
<1>4. PICK t \in Tasks : Submit(t) \/ UNCHANGED executor
  <2>1. CASE Tick
    BY <2>1 DEF Tick, Tasks
  <2>2. CASE CountSeal
    <3>1. wal \in 1 .. MaxWals /\ 1 < wal /\ MaxWals \in Nat
      BY <2>2, OptionsAssumption DEF CountSeal, IInv, Shapes, Wals, Sealing
    <3>2. Flush(wal - 1) \in Tasks
      BY <3>1 DEF Tasks, Wals
    <3> QED
      BY <2>2, <3>2 DEF CountSeal
  <2>3. CASE UNCHANGED executor
    BY <2>3 DEF Tasks
  <2> QED
    BY <2>1, <2>2, <2>3 DEF Commit, Writing, DecideL0, ParkL0, AwaitSlot, Shutdown, Quiesce,
       ShutBackground, Join, Quiescing
<1> QED
  BY <1>1, <1>3, <1>4, StillAsks

LEMMA CallerAsks ==
    ASSUME IInv, CompactionComes, BeginFlush \/ CountFlush \/ Drain, Due'
    PROVE  Asked'
<1>1. l0' = l0 /\ excused' = excused /\ shut' = shut
  BY DEF BeginFlush, CountFlush, Drain, gates
<1>2. Asked /\ ~shut /\ Caller \in Procs
  BY <1>1, ProcsFacts DEF Due, CompactionComes
<1>3. CASE BeginFlush \/ CountFlush
  <2>1. PICK v \in Thread : Moves(Caller, v)
    BY <1>3, AtThread DEF BeginFlush, CountFlush, Moves
  <2>2. ~Asks(Caller) /\ UNCHANGED executor
    BY <1>3, ProcsFacts DEF BeginFlush, CountFlush, Asks, AtFlush
  <2>3. CASE QueueAsks
    BY <2>2, <2>3, AskedFormNext DEF QueueAsks, executor
  <2>4. ASSUME NEW q \in Procs, Asks(q) PROVE Asked'
    <3>1. q # Caller
      BY <2>2, <2>4
    <3>2. Asks(q)'
      BY <1>2, <2>1, <2>4, <3>1, OthersKeepAsk
    <3> QED
      BY <3>2, AskedFormNext
  <2> QED
    BY <1>2, <2>3, <2>4, AskedForm
<1>4. CASE Drain
  <2>1. CASE imm = <<>>
    BY <1>2, <1>4, <2>1, TriggerAsks, AskedFormNext DEF Drain
  <2>2. CASE imm # <<>>
    <3>1. imm \in Seq(Wals) /\ Distinct(imm)
      BY DEF IInv, Shapes, Queued
    <3>2. Head(imm) \in Wals
      BY <2>2, <3>1, TailDistinct
    <3>3. Moves(Caller, [At("claim") EXCEPT !.wal = Head(imm)])
      BY <1>4, <2>2 DEF Drain, Moves
    <3>4. PICK v \in Thread : Moves(Caller, v) /\ v.pc = "claim"
      BY <3>2, <3>3, AtThread, Zenon
    <3>5. proc'[Caller] = v
      BY <1>2, <3>4, MoveFacts
    <3>6. Asks(Caller)'
      BY <3>4, <3>5 DEF Asks, AtFlush
    <3> QED
      BY <1>2, <3>6, AskedFormNext
  <2> QED
    BY <2>1, <2>2
<1> QED
  BY <1>3, <1>4

LEMMA StepAsks == IInv /\ CompactionComes /\ [Next]_vars => CompactionComes'
<1> SUFFICES ASSUME IInv, CompactionComes, [Next]_vars, Due' PROVE Asked'
  BY DEF CompactionComes, Due
<1>1. CASE UNCHANGED vars
  BY <1>1 DEF CompactionComes, Due, Asked, vars
<1>2. ASSUME NEW p \in Workers, Working(p) PROVE Asked'
  BY <1>2, DequeueAsks, FinishAsks, WorkingAsks DEF Working
<1>3. ASSUME NEW p \in Procs, Flushing(p) PROVE Asked'
  BY <1>3, FlushAsks
<1>4. CASE Tick \/ Commit \/ Writing \/ Shutdown \/ Quiesce
  BY <1>4, WriterAsks
<1>5. CASE BeginFlush \/ CountFlush \/ Drain
  BY <1>5, CallerAsks
<1> QED
  BY <1>1, <1>2, <1>3, <1>4, <1>5 DEF Next

\* Whenever level 0 has reached its threshold, a compaction is queued, pending, running
\* with a look at the level still to come, or will be asked for by a flush at work; a
\* request is never lost to the coalescing (submit, the follow-up of worker_loop).
THEOREM CompactionIsComing == Spec => []CompactionComes
<1>1. Init => CompactionComes
  BY DEF Init, CompactionComes
<1> QED
  BY Invariance, <1>1, StepAsks, PTL DEF Spec
-----------------------------------------------------------------------------
(* What piles up behind the writers is bounded. *)

LEMMA CardinalityOfSeq ==
    ASSUME NEW S, NEW q \in Seq(S), NEW U \in SUBSET Range(q)
    PROVE  /\ IsFiniteSet(Range(q)) /\ IsFiniteSet(U)
           /\ Cardinality(U) \in Nat /\ Cardinality(U) <= Len(q)
<1>1. Len(q) \in Nat /\ q \in [1 .. Len(q) -> Range(q)]
  <2>1. Len(q) \in Nat /\ q \in [1 .. Len(q) -> S] /\ DOMAIN q = 1 .. Len(q)
    OBVIOUS
  <2>2. \A i \in 1 .. Len(q) : q[i] \in Range(q)
    BY <2>1 DEF Range
  <2> QED
    BY <2>1, <2>2
<1>2. \A t \in Range(q) : \E i \in 1 .. Len(q) : q[i] = t
  BY <1>1 DEF Range
<1>3. q \in Surjection(1 .. Len(q), Range(q))
  BY <1>1, <1>2 DEF Surjection
<1>4. IsFiniteSet(1 .. Len(q)) /\ Cardinality(1 .. Len(q)) = Len(q)
  BY <1>1, FS_Interval
<1>5. IsFiniteSet(Range(q)) /\ Cardinality(Range(q)) <= Len(q)
  BY <1>3, <1>4, FS_Surjection
<1>6. IsFiniteSet(U) /\ Cardinality(U) <= Cardinality(Range(q))
  BY <1>5, FS_Subset
<1>7. Cardinality(U) \in Nat /\ Cardinality(Range(q)) \in Nat
  BY <1>5, <1>6, FS_CardinalityType
<1> QED
  BY <1>1, <1>5, <1>6, <1>7

LEMMA ToLevel0Type ==
    IInv => /\ IsFiniteSet(Unflushed) /\ Cardinality(Unflushed) \in Nat
            /\ Cardinality(Unflushed) <= Len(imm) /\ Len(imm) \in Nat
            /\ l0 \in Nat /\ ToLevel0 \in Nat
<1> SUFFICES ASSUME IInv
             PROVE  /\ IsFiniteSet(Unflushed) /\ Cardinality(Unflushed) \in Nat
                    /\ Cardinality(Unflushed) <= Len(imm) /\ Len(imm) \in Nat
                    /\ l0 \in Nat /\ ToLevel0 \in Nat
  OBVIOUS
<1>1. imm \in Seq(Wals) /\ l0 \in Nat
  BY DEF IInv, Shapes
<1>2. Unflushed \in SUBSET Range(imm)
  BY DEF Unflushed
<1>3. /\ IsFiniteSet(Unflushed) /\ Cardinality(Unflushed) \in Nat
      /\ Cardinality(Unflushed) <= Len(imm)
  BY <1>1, <1>2, CardinalityOfSeq
<1>4. Len(imm) \in Nat
  BY <1>1
<1> QED
  BY <1>1, <1>3, <1>4 DEF ToLevel0

\* A step that adds nothing to level 0 or to what is to reach it.
LEMMA L0Keeps ==
    ASSUME IInv, IInv', L0Covered, Admitted' => Admitted, ToLevel0' <= ToLevel0,
           active' => active
    PROVE  L0Covered'
<1>1. ToLevel0 \in Nat /\ ToLevel0' \in Nat
  <2>1. ToLevel0 \in Nat
    BY ToLevel0Type
  <2>2. (IInv => ToLevel0 \in Nat)'
    BY ToLevel0Type, PTL
  <2> QED
    BY <2>1, <2>2
<1>2. Stop \in Nat /\ Cap \in Nat /\ Found \subseteq Nat
  BY OptionsAssumption
<1> QED
  BY <1>1, <1>2 DEF L0Covered, L0Bounded, Admitted, Calm

\* A step that leaves the queue of memtables and its count alone.
LEMMA QueueKeeps ==
    ASSUME QueueCovered, UNCHANGED <<imm, count>>, Calm' => Calm, Pushing' <=> Pushing,
           Calm' /\ proc'[Caller].pc = "idle" => proc[Caller].pc = "idle"
    PROVE  QueueCovered'
BY DEF QueueCovered

\* The steps that touch neither the memtables nor the caller.
LEMMA AsideBacklog ==
    ASSUME IInv, IInv', QueueCovered, L0Covered, UNCHANGED <<imm, count, slot, active>>,
           l0' <= l0, excused \subseteq excused', slotShut => slotShut', l0Shut => l0Shut',
           writer' = "count" <=> writer = "count", proc'[Caller] = proc[Caller]
    PROVE  QueueCovered' /\ L0Covered'
<1>1. (Calm' => Calm) /\ (Admitted' => Admitted)
  BY DEF Calm, Admitted
<1>2. QueueCovered'
  BY <1>1, QueueKeeps DEF Pushing
<1>3. ToLevel0' <= ToLevel0
  <2>1. Unflushed' = Unflushed
    BY DEF Unflushed
  <2>2. Cardinality(Unflushed) \in Nat /\ l0 \in Nat
    BY ToLevel0Type
  <2>3. l0' \in Nat
    BY DEF IInv, Shapes
  <2> QED
    BY <2>1, <2>2, <2>3 DEF ToLevel0
<1>4. L0Covered'
  BY <1>1, <1>3, L0Keeps
<1> QED
  BY <1>2, <1>4

LEMMA WorkingBacklog ==
    ASSUME IInv, IInv', QueueCovered, L0Covered, NEW p \in Workers, Working(p)
    PROVE  QueueCovered' /\ L0Covered'
<1> USE DEF mem, gates
<1>1. /\ UNCHANGED <<imm, count, slot, active, slotShut, l0Shut>> /\ excused \subseteq excused'
      /\ writer' = "count" <=> writer = "count"
  BY DEF Working, Dequeue, Finish, LockCompaction, Merge, Notify, NotifyL0
<1>2. l0' <= l0
  <2>1. l0 \in Nat
    BY DEF IInv, Shapes
  <2>2. CASE l0' = l0
    BY <2>1, <2>2
  <2>3. CASE Merge(p) /\ l0' = l0 - proc[p].took
    <3>1. proc[p].took \in Nat
      BY ProcsFacts DEF IInv, Shapes, Thread
    <3> QED
      BY <2>1, <2>3, <3>1
  <2> QED
    BY <2>2, <2>3, Zenon DEF Working, Dequeue, Finish, LockCompaction, Merge, Notify
<1>3. proc'[Caller] = proc[Caller]
  <2>1. Caller \in Procs /\ Caller # p /\ proc \in [Procs -> Thread]
    BY ProcsFacts DEF IInv, Shapes
  <2>2. \E v : proc' = [proc EXCEPT ![p] = v] \/ proc' = proc
    BY DEF Working, Dequeue, Finish, LockCompaction, Merge, Notify, Picked
  <2> QED
    BY <2>1, <2>2
<1> QED
  BY <1>1, <1>2, <1>3, AsideBacklog

LEMMA QuietBacklog ==
    ASSUME IInv, IInv', QueueCovered, L0Covered, Tick \/ DecideL0 \/ ParkL0 \/ Shutdown \/ Quiesce
    PROVE  QueueCovered' /\ L0Covered'
<1> USE DEF mem, gates
<1>1. /\ UNCHANGED <<imm, count, slot, active, l0, excused, proc>>
      /\ (slotShut => slotShut') /\ (l0Shut => l0Shut')
      /\ writer' = "count" <=> writer = "count"
  <2>1. CASE Tick \/ DecideL0 \/ ParkL0
    <3>1. CASE Tick
      BY <3>1, Zenon DEF Tick
    <3>2. CASE DecideL0
      BY <3>2 DEF DecideL0
    <3>3. CASE ParkL0
      BY <3>3 DEF ParkL0
    <3> QED
      BY <2>1, <3>1, <3>2, <3>3
  <2>2. CASE Shutdown
    BY <2>2 DEF Shutdown, Quiescing, NotifyL0, UnstalledSlot
  <2>3. CASE Quiesce
    BY <2>3 DEF Quiesce, ShutBackground, Join, Quiescing
  <2> QED
    BY <2>1, <2>2, <2>3, Zenon
<1>2. l0' <= l0
  BY <1>1 DEF IInv, Shapes
<1> QED
  BY <1>1, <1>2, AsideBacklog

\* The write that fills the memtable was let in below the stop trigger.
LEMMA CommitBacklog ==
    ASSUME IInv, IInv', QueueCovered, L0Covered, Commit
    PROVE  QueueCovered' /\ L0Covered'
<1> USE DEF gates
<1>1. /\ UNCHANGED <<imm, count, slot, l0, excused, proc, slotShut, l0Shut>>
      /\ writer' # "count" /\ writer # "count" /\ Admits
  BY DEF Commit
<1>2. QueueCovered'
  BY <1>1, QueueKeeps DEF Pushing, Calm
<1>3. UNCHANGED ToLevel0
  BY <1>1 DEF ToLevel0, Unflushed
<1>4. Admitted' => ToLevel0' <= Stop + Cap
  <2>1. SUFFICES ASSUME Admitted' PROVE ToLevel0 <= Stop + Cap
    BY <1>3
  <2>2. Admitted /\ l0 < Stop
    BY <1>1, <2>1 DEF Admitted, Calm, Admits
  <2>3. Len(imm) <= Cap + 1
    BY <2>2 DEF Admitted, QueueCovered
  <2>4. /\ Cardinality(Unflushed) \in Nat /\ Cardinality(Unflushed) <= Len(imm)
        /\ Len(imm) \in Nat /\ l0 \in Nat
    BY ToLevel0Type
  <2>5. Stop \in Nat /\ Cap \in Nat
    BY OptionsAssumption
  <2> QED
    BY <2>2, <2>3, <2>4, <2>5 DEF ToLevel0
<1>5. L0Bounded'
  BY <1>1, <1>3 DEF L0Covered, L0Bounded
<1> QED
  BY <1>2, <1>4, <1>5 DEF L0Covered

\* A memtable sealed adds one to what is to reach level 0, after which there is none
\* to seal until a write has been let in.
LEMMA SealedBacklog ==
    ASSUME IInv, IInv', L0Covered, Sealed, wal < MaxWals, active,
           UNCHANGED <<l0, excused, slotShut, l0Shut>>
    PROVE  L0Covered'
<1>1. /\ Range(imm') = Range(imm) \cup {wal} /\ wal \notin Range(imm) /\ slot' = slot
      /\ active' = FALSE /\ wal \in Wals
  BY SealedFacts
<1>2. slot[wal] = "Pending"
  BY <1>1 DEF IInv, Queued, Wals
<1>3. Unflushed' = Unflushed \cup {wal} /\ wal \notin Unflushed
  BY <1>1, <1>2 DEF Unflushed
<1>4. /\ IsFiniteSet(Unflushed) /\ Cardinality(Unflushed) \in Nat /\ l0 \in Nat
  BY ToLevel0Type
<1>5. Cardinality(Unflushed') = Cardinality(Unflushed) + 1
  BY <1>3, <1>4, FS_AddElement
<1>6. ToLevel0' = ToLevel0 + 1 /\ ToLevel0 \in Nat
  BY <1>4, <1>5 DEF ToLevel0
<1>7. Stop \in Nat /\ Cap \in Nat
  BY OptionsAssumption
<1> QED
  BY <1>1, <1>6, <1>7 DEF L0Covered, L0Bounded, Admitted, Calm

LEMMA AwaitSlotBacklog ==
    ASSUME IInv, IInv', QueueCovered, L0Covered, AwaitSlot
    PROVE  QueueCovered' /\ L0Covered'
<1> USE DEF mem, gates
<1>1. UNCHANGED <<proc, l0, excused, slotShut, l0Shut, count>> /\ writer = "slot"
  BY DEF AwaitSlot
<1>2. CASE writer' = "slotwait" /\ UNCHANGED mem
  <2>1. l0' <= l0
    BY <1>1 DEF IInv, Shapes
  <2> QED
    BY <1>1, <1>2, <2>1, AsideBacklog
<1>3. CASE SlotFree /\ writer' = "count" /\ Sealed
  <2>1. wal < MaxWals /\ active /\ proc[Caller].pc # "count"
    BY <1>1 DEF IInv, Locks, Caller
  <2>2. L0Covered'
    BY <1>1, <1>3, <2>1, SealedBacklog
  <2>3. Len(imm') = Len(imm) + 1 /\ Len(imm) \in Nat /\ count \in Nat /\ Cap \in Nat
    BY <1>3, <2>1, SealedFacts, ToLevel0Type, OptionsAssumption, Zenon DEF IInv, Shapes
  <2>4. ~Pushing /\ Pushing'
    BY <1>1, <1>3, <2>1 DEF Pushing
  <2>5. Len(imm) <= count
    BY <2>3, <2>4 DEF QueueCovered
  <2>6. Calm' => count < Cap
    BY <1>1, <1>3 DEF Calm, SlotFree
  <2> QED
    BY <1>1, <2>2, <2>3, <2>4, <2>5, <2>6 DEF QueueCovered
<1> QED
  BY <1>2, <1>3 DEF AwaitSlot

LEMMA CountBacklog ==
    ASSUME IInv, IInv', QueueCovered, L0Covered, CountSeal \/ CountFlush
    PROVE  QueueCovered' /\ L0Covered'
<1> USE DEF gates
<1>1. UNCHANGED <<l0, excused, active, imm, slot, slotShut, l0Shut>> /\ count' = count + 1
  BY DEF CountSeal, CountFlush, Counted
<1>2. Pushing /\ ~Pushing' /\ proc'[Caller].pc # "count"
  <2>1. CASE CountSeal
    BY <2>1 DEF CountSeal, Pushing, IInv, Locks, Caller
  <2>2. CASE CountFlush
    <3>1. Moves(Caller, At("drain")) /\ Caller \in Procs
      BY <2>2, ProcsFacts DEF CountFlush, Moves
    <3>2. proc'[Caller] = At("drain")
      BY <3>1, AtThread, MoveFacts
    <3> QED
      BY <2>2, <3>2, AtThread DEF CountFlush, Pushing, IInv, Locks, Caller
  <2> QED
    BY <2>1, <2>2
<1>3. Len(imm) \in Nat /\ count \in Nat
  BY ToLevel0Type DEF IInv, Shapes
<1>4. proc'[Caller].pc = "idle" => proc[Caller].pc = "idle"
  <2>1. CASE CountSeal
    BY <2>1 DEF CountSeal
  <2>2. CASE CountFlush
    <3>1. Moves(Caller, At("drain")) /\ Caller \in Procs
      BY <2>2, ProcsFacts DEF CountFlush, Moves
    <3>2. proc'[Caller] = At("drain")
      BY <3>1, AtThread, MoveFacts
    <3> QED
      BY <3>2, AtThread
  <2> QED
    BY <2>1, <2>2
<1>5. QueueCovered'
  BY <1>1, <1>2, <1>3, <1>4 DEF QueueCovered, Calm
<1>6. L0Covered'
  BY <1>1 DEF L0Covered, L0Bounded, Admitted, Calm, ToLevel0, Unflushed
<1> QED
  BY <1>5, <1>6

LEMMA BeginFlushBacklog ==
    ASSUME IInv, IInv', QueueCovered, L0Covered, BeginFlush
    PROVE  QueueCovered' /\ L0Covered'
<1> USE DEF gates, mem
<1>1. /\ UNCHANGED <<writer, l0, excused, slotShut, l0Shut, count>>
      /\ proc[Caller].pc = "idle" /\ writer = "idle" /\ Caller \in Procs
  BY ProcsFacts DEF BeginFlush, IInv, Locks
<1>2. Len(imm) \in Nat /\ count \in Nat /\ Cap \in Nat /\ ~Pushing
  BY <1>1, ToLevel0Type, OptionsAssumption, Zenon DEF IInv, Shapes, Pushing
<1>3. CASE active /\ wal < MaxWals /\ Sealed /\ Moves(Caller, At("count"))
  <2>1. L0Covered'
    BY <1>1, <1>3, SealedBacklog
  <2>2. Len(imm') = Len(imm) + 1
    BY <1>3, SealedFacts
  <2>3. proc'[Caller].pc = "count"
    BY <1>1, <1>3, AtThread, MoveFacts
  <2>4. Len(imm) <= count /\ (Calm' => Len(imm) <= Cap)
    BY <1>1, <1>2 DEF QueueCovered, Calm
  <2> QED
    BY <1>1, <1>2, <2>1, <2>2, <2>3, <2>4 DEF QueueCovered, Pushing
<1>4. CASE UNCHANGED mem /\ Moves(Caller, At("drain"))
  <2>1. proc'[Caller].pc = "drain"
    BY <1>1, <1>4, AtThread, MoveFacts
  <2>2. QueueCovered'
    BY <1>1, <1>4, <2>1, QueueKeeps, Zenon DEF Pushing, Calm
  <2>3. L0Covered'
    BY <1>1, <1>4 DEF L0Covered, L0Bounded, Admitted, Calm, ToLevel0, Unflushed
  <2> QED
    BY <2>2, <2>3
<1> QED
  BY <1>3, <1>4 DEF BeginFlush, Moves

\* A caller is done when the queue is empty.
LEMMA DrainBacklog ==
    ASSUME IInv, IInv', QueueCovered, L0Covered, Drain
    PROVE  QueueCovered' /\ L0Covered'
<1> USE DEF gates, mem
<1>1. /\ UNCHANGED <<writer, l0, excused, slotShut, l0Shut, mem>>
      /\ proc[Caller].pc = "drain" /\ Caller \in Procs
  BY ProcsFacts DEF Drain
<1>2. L0Covered'
  BY <1>1, Zenon DEF L0Covered, L0Bounded, Admitted, Calm, ToLevel0, Unflushed
<1>3. CASE imm = <<>>
  <2>1. Len(imm) = 0 /\ count \in Nat /\ Cap \in Nat
    BY <1>3, OptionsAssumption DEF IInv, Shapes
  <2> QED
    <3>1. imm' = imm /\ count' = count
      BY <1>1, Zenon
    <3>2. Len(imm') <= count' /\ Len(imm') <= Cap /\ Len(imm') <= Cap + 1
      BY <2>1, <3>1
    <3>3. count' \in Nat /\ Len(imm') \in Nat
      BY <2>1, <3>1
    <3> HIDE DEF gates, mem
    <3> QED
      BY <1>2, <3>2, <3>3 DEF QueueCovered
<1>4. CASE imm # <<>>
  <2>1. imm \in Seq(Wals) /\ Distinct(imm)
    BY Zenon DEF IInv, Shapes, Queued
  <2>2. Head(imm) \in Wals
    BY <1>4, <2>1, TailDistinct
  <2>3. Moves(Caller, [At("claim") EXCEPT !.wal = Head(imm)])
    BY <1>4 DEF Drain, Moves
  <2>4. PICK v \in Thread : Moves(Caller, v) /\ v.pc = "claim"
    BY <2>2, <2>3, AtThread, Zenon
  <2>5. proc'[Caller].pc = "claim"
    BY <1>1, <2>4, MoveFacts
  <2>6. QueueCovered'
    BY <1>1, <2>5, QueueKeeps, Zenon DEF Pushing, Calm
  <2> QED
    BY <1>2, <2>6
<1> QED
  BY <1>3, <1>4

\* A step of a flush: the table written was counted among those to come, and the
\* memtable retired was not.
LEMMA FlushBacklog ==
    ASSUME IInv, IInv', QueueCovered, L0Covered, NEW p \in Procs, Flushing(p)
    PROVE  QueueCovered' /\ L0Covered'
<1> USE DEF gates
<1>1. /\ UNCHANGED <<active, slotShut, l0Shut, wal>> /\ excused \subseteq excused'
      /\ writer' = "count" <=> writer = "count"
      /\ AtFlush(p) /\ Caller \in Procs
  BY ProcsFacts DEF Flushing, Claim, WriteTable, Retire, FlushErr, UnstalledSlot, AtFlush
<1>2. (Calm' => Calm) /\ (Admitted' => Admitted)
  BY <1>1 DEF Calm, Admitted
<1>3. /\ Calm' /\ proc'[Caller].pc = "idle" => proc[Caller].pc = "idle"
      /\ Pushing' <=> Pushing
  <2>1. CASE p # Caller
    <3>1. PICK v : proc' = [proc EXCEPT ![p] = v] \/ proc' = proc
      BY <2>1 DEF Flushing, Claim, WriteTable, Retire, FlushErr, FlushOk
    <3>2. proc'[Caller] = proc[Caller]
      BY <1>1, <2>1, <3>1 DEF IInv, Shapes
    <3> QED
      BY <1>1, <3>2 DEF Pushing
  <2>2. CASE p = Caller /\ FlushErr(p)
    <3>1. proc'[Caller] = Idle /\ ~Calm'
      BY <1>1, <2>2 DEF FlushErr, Calm, IInv, Shapes
    <3> QED
      BY <1>1, <2>2, <3>1, IdleThread, Zenon DEF Pushing, AtFlush
  <2>3. CASE p = Caller /\ \E c \in {"write", "retire", "drain"} : proc' = [proc EXCEPT ![p].pc = c]
    <3>1. proc'[Caller].pc \in {"write", "retire", "drain"}
      BY <1>1, <2>3 DEF IInv, Shapes, Thread
    <3> QED
      BY <1>1, <2>3, <3>1 DEF Pushing, AtFlush
  <2>4. CASE UNCHANGED proc
    BY <1>1, <2>4 DEF Pushing
  <2> QED
    BY <2>1, <2>2, <2>3, <2>4 DEF Flushing, Claim, WriteTable, Retire, FlushOk
<1>4. QueueCovered'
  <2>1. CASE UNCHANGED <<imm, count>>
    BY <1>2, <1>3, <2>1, QueueKeeps, Zenon
  <2>2. CASE Retirable /\ imm' = Tail(imm) /\ count' = SaturatingSub(count)
    <3>1. imm \in Seq(Wals) /\ imm # <<>> /\ Distinct(imm) /\ count \in Nat /\ Cap \in Nat
      BY <2>2, OptionsAssumption, Zenon DEF IInv, Shapes, Queued, Retirable
    <3>2. Len(imm') = Len(imm) - 1 /\ Len(imm) \in Nat
      BY <2>2, <3>1, TailDistinct
    <3> QED
      BY <1>2, <1>3, <2>2, <3>1, <3>2 DEF QueueCovered, SaturatingSub
  <2> QED
    BY <2>1, <2>2 DEF Flushing, Claim, WriteTable, Retire
<1>5. ToLevel0' <= ToLevel0
  <2>0. /\ IsFiniteSet(Unflushed) /\ Cardinality(Unflushed) \in Nat /\ l0 \in Nat
        /\ slot \in [Wals -> {"Pending", "InFlight", "Completed"}]
        /\ proc[p].wal \in Wals /\ proc[p].wal < wal
    BY <1>1, ToLevel0Type, Zenon DEF IInv, Shapes, AtWork
  <2>1. CASE l0' = l0 /\ Unflushed' = Unflushed
    BY <2>0, <2>1 DEF ToLevel0
  <2>2. CASE Claim(p)
    <3>1. Unflushed' = Unflushed
      <4>1. imm' = imm
        BY <2>2 DEF Claim
      <4>2. CASE slot' = slot
        BY <4>1, <4>2 DEF Unflushed
      <4>3. CASE /\ slot[proc[p].wal] # "Completed"
                 /\ slot' = [slot EXCEPT ![proc[p].wal] = "InFlight"]
        <5>1. \A w \in Wals : slot'[w] = "Completed" <=> slot[w] = "Completed"
          BY <2>0, <4>3
        <5> QED
          BY <4>1, <5>1, ImmRange, Zenon DEF Unflushed
      <4> QED
        BY <2>2, <4>2, <4>3 DEF Claim
    <3> QED
      BY <2>1, <2>2, <3>1 DEF Claim
  <2>3. CASE Retire(p)
    <3>1. CASE UNCHANGED imm
      BY <2>1, <2>3, <3>1, Zenon DEF Retire, Unflushed
    <3>2. CASE Retirable /\ imm' = Tail(imm)
      <4>1. imm \in Seq(Wals) /\ imm # <<>> /\ Distinct(imm)
        BY <3>2, Zenon DEF IInv, Shapes, Queued, Retirable
      <4>2. Range(imm') = Range(imm) \ {Head(imm)}
        BY <3>2, <4>1, TailDistinct
      <4>3. Unflushed' = Unflushed
        BY <2>3, <3>2, <4>2, Zenon DEF Retire, Retirable, Unflushed
      <4> QED
        BY <2>1, <2>3, <4>3, Zenon DEF Retire
    <3> QED
      BY <2>3, <3>1, <3>2, Zenon DEF Retire
  <2>4. CASE WriteTable(p)
    <3>1. slot[proc[p].wal] = "InFlight" /\ proc[p].wal \in Unflushed /\ imm' = imm
      BY <2>0, <2>4, Zenon DEF WriteTable, IInv, AtWork, Queued, Unflushed
    <3>2. CASE slot' = [slot EXCEPT ![proc[p].wal] = "Completed"] /\ l0' = l0 + 1
      <4>1. Unflushed' = Unflushed \ {proc[p].wal}
        <5>1. /\ slot'[proc[p].wal] = "Completed"
              /\ \A w \in Wals : w # proc[p].wal => slot'[w] = slot[w]
          BY <2>0, <3>2
        <5> QED
          BY <3>1, <5>1, ImmRange, Zenon DEF Unflushed
      <4>2. Cardinality(Unflushed') = Cardinality(Unflushed) - 1
        BY <2>0, <3>1, <4>1, FS_RemoveElement, Zenon
      <4> QED
        <5>1. l0' = l0 + 1 /\ l0 \in Nat /\ Cardinality(Unflushed) \in Nat
          BY <2>0, <3>2, Zenon
        <5> QED
          BY <4>2, <5>1 DEF ToLevel0
    <3>3. CASE slot' = [slot EXCEPT ![proc[p].wal] = "Pending"] /\ l0' = l0
      <4>1. Unflushed' = Unflushed
        <5>1. \A w \in Wals : slot'[w] = "Completed" <=> slot[w] = "Completed"
          BY <2>0, <3>1, <3>3
        <5> QED
          BY <3>1, <5>1, ImmRange, Zenon DEF Unflushed
      <4> QED
        BY <2>1, <3>3, <4>1
    <3> QED
      BY <2>4, <3>2, <3>3 DEF WriteTable
  <2> QED
    BY <2>2, <2>3, <2>4 DEF Flushing
<1>6. L0Covered'
  BY <1>1, <1>2, <1>5, L0Keeps
<1> QED
  BY <1>4, <1>6

LEMMA StepBacklog ==
    IInv /\ IInv' /\ QueueCovered /\ L0Covered /\ [Next]_vars => QueueCovered' /\ L0Covered'
<1> SUFFICES ASSUME IInv, IInv', QueueCovered, L0Covered, [Next]_vars
             PROVE  QueueCovered' /\ L0Covered'
  OBVIOUS
<1>1. CASE UNCHANGED vars
  BY <1>1, Zenon
  DEF QueueCovered, Calm, Pushing, L0Covered, L0Bounded, Admitted, ToLevel0, Unflushed, vars
<1>2. ASSUME NEW p \in Workers, Working(p) PROVE QueueCovered' /\ L0Covered'
  BY <1>2, WorkingBacklog
<1>3. ASSUME NEW p \in Procs, Flushing(p) PROVE QueueCovered' /\ L0Covered'
  BY <1>3, FlushBacklog
<1>4. CASE Tick \/ Commit \/ Writing
  BY <1>4, QuietBacklog, CommitBacklog, AwaitSlotBacklog, CountBacklog DEF Writing
<1>5. CASE BeginFlush \/ CountFlush \/ Drain
  BY <1>5, BeginFlushBacklog, CountBacklog, DrainBacklog
<1>6. CASE Shutdown \/ Quiesce
  BY <1>6, QuietBacklog
<1> QED
  BY <1>1, <1>2, <1>3, <1>4, <1>5, <1>6 DEF Next

LEMMA InitBacklog == Init => QueueCovered /\ L0Covered
<1> SUFFICES ASSUME Init PROVE QueueCovered /\ L0Covered
  OBVIOUS
<1>1. Len(imm) = 0 /\ count = 0 /\ Cap \in Nat /\ Stop \in Nat /\ l0 \in Found /\ l0 \in Nat
  BY OptionsAssumption DEF Init
<1>2. QueueCovered
  BY <1>1 DEF QueueCovered, Pushing
<1>3. Unflushed = {}
  BY EmptyDistinct DEF Init, Unflushed
<1>4. ToLevel0 = l0
  BY <1>1, <1>3, FS_EmptySet DEF ToLevel0
<1>5. L0Bounded
  BY <1>1, <1>4 DEF L0Bounded
<1>6. ~active
  BY DEF Init
<1> QED
  BY <1>2, <1>5, <1>6 DEF L0Covered

\* However the writers, the flushes and the callers interleave, the immutable queue
\* stays within Cap and one, the gate's count covers it, and level 0 with what is to
\* reach it stays within Stop + Cap and one, or does not grow past what was found at
\* open (await_l0_limit, await_flush_slot, retire_durable_prefix).
THEOREM StallsBoundTheBacklog == Spec => []BacklogBounded
<1>1. QueueCovered /\ L0Covered => BacklogBounded
  BY DEF BacklogBounded, CountCovers, QueueCovered, Calm, Pushing, L0Covered
<1>2. Spec => [](QueueCovered /\ L0Covered)
  BY Invariance, InitBacklog, StepBacklog, PTL DEF Spec
<1> QED
  BY <1>1, <1>2, PTL
=============================================================================
