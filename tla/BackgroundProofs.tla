-------------------------- MODULE BackgroundProofs --------------------------
(***************************************************************************)
(* The executor never runs two tasks of one key or flushes one memtable    *)
(* twice at a time, and shutdown leaves no task behind, for any number of  *)
(* workers, segments and level-0 tables.  The invariant is ExecutorProofs';*)
(* BacklogProofs continues.                                                *)
(***************************************************************************)
EXTENDS ExecutorProofs

(* One thread moves to v; what has to hold of v for the threads to stay consistent. *)

Moves(p, v) == proc' = [proc EXCEPT ![p] = v]
Places == {"idle", "claim", "write", "retire", "leave", "lock", "merge", "notify",
           "count", "drain"}

On(r, c) == [r EXCEPT !.pc = c]
Took(r, c, n) == [r EXCEPT !.pc = c, !.took = n]

LEMMA PlacesFacts ==
    {"idle", "claim", "write", "retire", "leave", "merge", "notify"} \subseteq Places
BY DEF Places

LEMMA OnFacts ==
    \A r \in Thread, c \in Places : /\ On(r, c) \in Thread
                                     /\ On(r, c).pc = c
                                     /\ On(r, c).task = r.task
                                     /\ On(r, c).wal = r.wal
BY DEF Thread, Places, On

LEMMA TookFacts ==
    \A r \in Thread, c \in Places, n \in Nat : /\ Took(r, c, n) \in Thread
                                                /\ Took(r, c, n).pc = c
                                                /\ Took(r, c, n).task = r.task
                                                /\ Took(r, c, n).took = n
BY Zenon, ZenonT(30) DEF Thread, Places, Took

LEMMA MoveFacts ==
    ASSUME IInv, NEW p \in Procs, NEW v \in Thread, Moves(p, v)
    PROVE  /\ proc' \in [Procs -> Thread] /\ proc'[p] = v
           /\ \A q \in Procs : q # p => proc'[q] = proc[q]
           /\ \A q \in Workers : q # p => proc'[q] = proc[q]
BY ProcsFacts DEF IInv, Shapes, Moves

\* A worker that takes or ends a task moves only itself and the executor.
LEMMA WorkerFrame ==
    ASSUME IInv, UNCHANGED <<writer, lock, merging, l0, slotShut, l0Shut, shut, ticking,
                             quiescer, active, wal, imm, slot, count, faults, flushes>>,
           proc' \in [Procs -> Thread], proc'[Caller] = proc[Caller]
    PROVE  Shapes' /\ Flags' /\ Queued' /\ Locks' /\ Sealing'
<1>1. Shapes'
  BY DEF IInv, Shapes
<1>2. Flags'
  BY DEF IInv, Flags
<1>3. Queued'
  BY DEF IInv, Queued
<1>4. Locks' /\ Sealing'
  BY DEF IInv, Locks, Sealing
<1> QED
  BY <1>1, <1>2, <1>3, <1>4

LEMMA MoveAtWork ==
    ASSUME IInv, NEW p \in Procs, NEW v \in Thread, Moves(p, v), wal' = wal,
           p \in Workers => /\ v.pc \notin {"count", "drain"}
                            /\ v.pc \in {"lock", "merge", "notify"} => v.task = Compaction
                            /\ v.pc = "merge" => v.took <= l0',
           p = Caller => v.pc \notin {"lock", "merge", "notify", "leave"},
           v.pc \in {"claim", "write", "retire"} => v.wal \in Wals /\ v.wal < wal,
           v.pc = "write" => /\ slot'[v.wal] = "InFlight"
                             /\ \A q \in Procs : q # p /\ proc[q].pc = "write" =>
                                                    proc[q].wal # v.wal,
           \A q \in Procs : q # p /\ proc[q].pc = "write" => slot'[proc[q].wal] = "InFlight",
           \A q \in Workers : q # p /\ proc[q].pc = "merge" => proc[q].took <= l0',
           \A w \in Wals : Flush(w) \in DOMAIN coalesce' => Flush(w) \in DOMAIN coalesce
    PROVE  AtWork'
<1>1. /\ proc'[p] = v
      /\ \A q \in Procs : q # p => proc'[q] = proc[q]
      /\ \A q \in Workers : q # p => proc'[q] = proc[q]
  BY MoveFacts
<1>2. \A q \in Workers : /\ proc'[q].pc \notin {"count", "drain"}
                         /\ AtCompaction(q)' => proc'[q].task = Compaction
                         /\ proc'[q].pc = "merge" => proc'[q].took <= l0'
  BY <1>1 DEF IInv, AtWork, AtCompaction
<1>3. ~AtCompaction(Caller)' /\ proc'[Caller].pc # "leave"
  BY <1>1, ProcsFacts DEF IInv, AtWork, AtCompaction
<1>4. \A q \in Procs : AtFlush(q)' => proc'[q].wal \in Wals /\ proc'[q].wal < wal'
  BY <1>1 DEF IInv, AtWork, AtFlush
<1>5. \A q \in Procs : proc'[q].pc = "write" => slot'[proc'[q].wal] = "InFlight"
  BY <1>1
<1>6. \A q, r \in Procs : (proc'[q].pc = "write" /\ proc'[r].pc = "write" /\ q # r) =>
          proc'[q].wal # proc'[r].wal
  BY <1>1 DEF IInv, AtWork
<1>7. \A w \in Wals : Flush(w) \in DOMAIN coalesce' => w < wal'
  BY DEF IInv, AtWork
<1> QED
  BY <1>2, <1>3, <1>4, <1>5, <1>6, <1>7 DEF AtWork, AtFlush, AtCompaction

\* A worker goes on with its task, while the queue may take in tasks of free keys.
LEMMA MoveKeys ==
    ASSUME IInv, NEW p \in Procs, NEW v \in Thread, Moves(p, v),
           p \in Workers => v.task = proc[p].task /\ proc[p].pc # "idle",
           \A q \in Workers : Busy(q) => /\ proc[q].task \in DOMAIN coalesce'
                                         /\ proc[q].task \notin Range(heap')
    PROVE  KeysOnce'
<1>1. /\ proc'[p] = v
      /\ \A q \in Workers : q # p => proc'[q] = proc[q]
  BY MoveFacts
<1>2. \A q \in Workers : /\ proc'[q].task = proc[q].task
                         /\ Busy(q)' => Busy(q)
  BY <1>1 DEF Busy
<1> QED
  BY <1>2 DEF IInv, KeysOnce

LEMMA OneCompaction ==
    ASSUME IInv, NEW p \in Workers, NEW q \in Workers, AtCompaction(p), AtCompaction(q)
    PROVE  p = q
BY DEF IInv, KeysOnce, AtWork, AtCompaction, Busy
-----------------------------------------------------------------------------
(* The compaction's steps. *)

LEMMA CompactionIInv ==
    ASSUME IInv, NEW p \in Workers, LockCompaction(p) \/ Merge(p) \/ Notify(p) PROVE IInv'
<1> USE DEF executor, mem, gates
<1>1. /\ UNCHANGED <<lock, heap, coalesce, gates, mem, flushes>>
      /\ AtCompaction(p) /\ p \in Procs /\ p # Caller
      /\ proc[p] \in Thread /\ proc[p].task = Compaction /\ proc[p].pc # "idle"
      /\ l0 \in Nat /\ Threshold \in Nat /\ proc[p].took \in Nat
  BY ProcsFacts, OptionsAssumption, Zenon
  DEF LockCompaction, Merge, Notify, AtCompaction, IInv, AtWork, Shapes,
        Thread, bounds
<1>2. PICK v \in Thread :
         /\ Moves(p, v) /\ v.task = proc[p].task /\ v.pc \in {"merge", "notify", "leave"}
         /\ v.pc = "merge" => v.took <= l0'
  <2>1. CASE LockCompaction(p) \/ Notify(p)
    <3>0. /\ "merge" \in Places /\ "leave" \in Places /\ 0 \in Nat
          /\ proc[p] \in Thread /\ l0 \in Nat
      BY <1>1, PlacesFacts
    <3>1. Picked(p) /\ l0' = l0
      BY <2>1 DEF LockCompaction, Notify
    <3>2. CASE l0 >= Threshold
      <4> DEFINE u == Took(proc[p], "merge", l0)
      <4>1. Moves(p, u)
        BY <3>1, <3>2 DEF Picked, Moves, Took
      <4>2. u \in Thread /\ u.task = proc[p].task /\ u.pc = "merge" /\ u.took = l0
        BY <3>0, TookFacts
      <4> HIDE DEF u
      <4> QED
        BY <1>1, <3>1, <4>1, <4>2
    <3>3. CASE ~(l0 >= Threshold)
      <4> DEFINE u == Took(proc[p], "leave", 0)
      <4>1. Moves(p, u)
        BY <3>1, <3>3 DEF Picked, Moves, Took
      <4>2. u \in Thread /\ u.task = proc[p].task /\ u.pc = "leave" /\ u.took = 0
        BY <3>0, TookFacts
      <4> HIDE DEF u
      <4> QED
        BY <1>1, <3>1, <4>1, <4>2
    <3> QED
      BY <3>2, <3>3
  <2>2. CASE Merge(p)
    <3>1. PICK c \in {"notify", "leave"} : Moves(p, Took(proc[p], c, 0))
      BY <2>2 DEF Merge, Moves, Took
    <3>0. c \in Places /\ 0 \in Nat /\ proc[p] \in Thread
      BY <1>1, PlacesFacts
    <3> DEFINE u == Took(proc[p], c, 0)
    <3>2. u \in Thread /\ u.task = proc[p].task /\ u.pc = c
      BY <3>0, TookFacts
    <3> HIDE DEF u
    <3> QED
      BY <3>1, <3>2 DEF u
  <2> QED
    BY <2>1, <2>2
<1>3. l0' \in Nat
  BY <1>1 DEF LockCompaction, Merge, Notify, IInv, AtWork
<1>4. AtWork'
  <2>1. \A q \in Workers : q # p => proc[q].pc # "merge"
    BY <1>1, OneCompaction DEF AtCompaction
  <2>2. \A q \in Procs : proc[q].pc = "write" => slot'[proc[q].wal] = "InFlight"
    BY <1>1 DEF IInv, AtWork
  <2> QED
    BY <1>1, <1>2, <2>1, <2>2, MoveAtWork
<1>5. KeysOnce'
  <2>1. \A q \in Workers : Busy(q) => /\ proc[q].task \in DOMAIN coalesce'
                                      /\ proc[q].task \notin Range(heap')
    BY <1>1 DEF IInv, KeysOnce
  <2> QED
    BY <1>1, <1>2, <2>1, MoveKeys
<1>6. /\ proc' \in [Procs -> Thread] /\ proc'[p] = v
      /\ \A q \in Procs : q # p => proc'[q] = proc[q]
      /\ \A q \in Workers : q # p => proc'[q] = proc[q]
  BY <1>1, <1>2, MoveFacts, Zenon
<1>7. Counts'
  BY <1>1, <1>2, <1>6, SameCount DEF IInv
<1>8. Shapes'
  <2>1. /\ writer' \in {"idle", "l0", "decided", "l0wait", "slot", "slotwait", "count"}
        /\ faults' \in Nat /\ faults' + flushes' <= MaxExtras
    BY OptionsAssumption, SMTT(30)
    DEF LockCompaction, Merge, Notify, NotifyL0, IInv, Shapes, bounds
  <2> QED
    BY <1>1, <1>3, <1>6, <2>1 DEF IInv, Shapes
<1>9. Flags'
  <2>1. merging' \in BOOLEAN
    <3>1. CASE LockCompaction(p) \/ Notify(p)
      <4>1. merging' = (l0 >= Threshold)
        BY <3>1 DEF LockCompaction, Notify, Picked
      <4>2. (l0 >= Threshold) \in BOOLEAN
        OBVIOUS
      <4> QED
        BY <4>1, <4>2, Zenon
    <3>2. CASE Merge(p)
      BY <3>2, Zenon DEF Merge, IInv, Flags
    <3> QED
      BY <3>1, <3>2
  <2> QED
    BY <1>1, <2>1 DEF IInv, Flags
<1>10. Locks' /\ Sealing'
  BY <1>1, <1>6, ProcsFacts, Zenon
  DEF LockCompaction, Merge, Notify, NotifyL0, IInv, Locks, Sealing
<1>11. Executor' /\ Queued'
  BY <1>1 DEF IInv, Executor, Queued
<1>12. Silent'
  BY <1>1, <1>6 DEF IInv, Silent, QuiescedSilent
<1> QED
  BY <1>4, <1>5, <1>7, <1>8, <1>9, <1>10, <1>11, <1>12 DEF IInv
-----------------------------------------------------------------------------
(* The steps of a flush. *)

\* Where a thread goes from a step of a flush, and what it asks of the executor.
FlushMove(p, v) ==
    /\ Moves(p, v)
    /\ v.task = proc[p].task \/ p = Caller
    /\ p \in Workers => v.pc \in {"write", "retire", "leave"}
    /\ p = Caller => v.pc \in {"write", "retire", "drain", "idle"}
    /\ v.pc \in {"write", "retire"} => v.wal = proc[p].wal
    /\ Submit(Compaction) \/ UNCHANGED executor

LEMMA FlushMoveOn ==
    ASSUME IInv, NEW p \in Procs, NEW c \in {"write", "retire", "leave", "drain"},
           proc' = [proc EXCEPT ![p].pc = c],
           c = "leave" => p # Caller, c = "drain" => p = Caller,
           Submit(Compaction) \/ UNCHANGED executor
    PROVE  \E v \in Thread : FlushMove(p, v) /\ v.pc = c
<1>1. proc[p] \in Thread /\ c \in Places
  BY DEF IInv, Shapes, Places
<1>2. /\ On(proc[p], c) \in Thread /\ On(proc[p], c).pc = c
      /\ On(proc[p], c).task = proc[p].task /\ On(proc[p], c).wal = proc[p].wal
  BY <1>1, OnFacts
<1>3. Moves(p, On(proc[p], c))
  BY DEF Moves, On
<1> QED
  BY <1>2, <1>3, ProcsFacts DEF FlushMove

LEMMA FlushEndMove ==
    ASSUME IInv, NEW p \in Procs, FlushOk(p) \/ FlushErr(p)
    PROVE  \E v \in Thread : FlushMove(p, v) /\ v.pc \in {"leave", "drain", "idle"}
<1>1. Submit(Compaction) \/ UNCHANGED executor
  BY DEF FlushOk, FlushErr, TriggerCompaction
<1>2. CASE p # Caller
  <2>1. proc' = [proc EXCEPT ![p].pc = "leave"]
    BY <1>2 DEF FlushOk, FlushErr
  <2>2. \E v \in Thread : FlushMove(p, v) /\ v.pc = "leave"
    BY <1>1, <1>2, <2>1, FlushMoveOn, Zenon
  <2> QED
    BY <2>2
<1>3. CASE p = Caller /\ FlushOk(p)
  <2>1. proc' = [proc EXCEPT ![p].pc = "drain"]
    BY <1>3 DEF FlushOk
  <2>2. \E v \in Thread : FlushMove(p, v) /\ v.pc = "drain"
    BY <1>1, <1>3, <2>1, FlushMoveOn, Zenon
  <2> QED
    BY <2>2
<1>4. CASE p = Caller /\ FlushErr(p)
  <2>1. Moves(p, Idle)
    BY <1>4 DEF FlushErr, Moves
  <2>2. Caller \notin Workers
    BY ProcsFacts
  <2> QED
    BY <1>1, <1>4, <2>1, <2>2, IdleThread DEF FlushMove
<1> QED
  BY <1>2, <1>3, <1>4

\* What a step of a flush keeps, whatever it does to the slot and to level 0.
LEMMA FlushMoveIInv ==
    ASSUME IInv, NEW p \in Procs, AtFlush(p), NEW v \in Thread, FlushMove(p, v),
           wal' = wal, l0' >= l0, l0' \in Nat,
           v.pc = "write" => /\ slot'[v.wal] = "InFlight"
                             /\ slot[v.wal] # "InFlight",
           \A q \in Procs : q # p /\ proc[q].pc = "write" => slot'[proc[q].wal] = "InFlight",
           UNCHANGED <<lock, gates>>,
           UnstalledSlot = writer' \/ writer' = writer,
           active' = active, merging' = merging
    PROVE  /\ Executor' /\ KeysOnce' /\ AtWork' /\ Counts' /\ Locks' /\ Sealing' /\ Silent'
           /\ Flags' /\ proc' \in [Procs -> Thread]
<1> USE DEF gates
<1>1. /\ Executor'
      /\ \A q \in Workers : Busy(q) => /\ proc[q].task \in DOMAIN coalesce'
                                       /\ proc[q].task \notin Range(heap')
      /\ \A w \in Wals : Flush(w) \in DOMAIN coalesce' => Flush(w) \in DOMAIN coalesce
  <2>1. Compaction \in Tasks
    BY DEF Tasks
  <2>2. Submit(Compaction) \/ UNCHANGED executor
    BY DEF FlushMove
  <2>3. \A w \in Wals : Flush(w) \in DOMAIN coalesce' =>
                           Flush(w) \in DOMAIN coalesce \/ Flush(w) = Compaction
    BY <2>1, <2>2, SubmitIInv
  <2> QED
    BY <2>1, <2>2, <2>3, SubmitIInv, FlushEqual
<1>2. Moves(p, v)
  BY DEF FlushMove
<1>3. /\ proc' \in [Procs -> Thread] /\ proc'[p] = v
      /\ \A q \in Procs : q # p => proc'[q] = proc[q]
      /\ \A q \in Workers : q # p => proc'[q] = proc[q]
  BY <1>2, MoveFacts
<1>4. p \in Workers => v.task = proc[p].task /\ proc[p].pc # "idle"
  BY ProcsFacts DEF FlushMove, AtFlush
<1>5. KeysOnce'
  BY <1>1, <1>2, <1>4, MoveKeys, Zenon
<1>6. AtWork'
  <2>1. proc[p].wal \in Wals /\ proc[p].wal < wal
    BY Zenon DEF IInv, AtWork
  <2>2. p \in Workers => v.pc \notin {"count", "drain", "lock", "merge", "notify"}
    BY DEF FlushMove
  <2>3. p = Caller => v.pc \notin {"lock", "merge", "notify", "leave"}
    BY DEF FlushMove
  <2>4. v.pc \in {"claim", "write", "retire"} => v.wal \in Wals /\ v.wal < wal
    BY <2>1, ProcsFacts DEF FlushMove
  <2>5. v.pc = "write" => \A q \in Procs : q # p /\ proc[q].pc = "write" => proc[q].wal # v.wal
    BY DEF IInv, AtWork
  <2>6. \A q \in Workers : q # p /\ proc[q].pc = "merge" => proc[q].took <= l0'
    <3>1. \A q \in Workers : proc[q].took \in Nat
      BY ProcsFacts DEF IInv, Shapes, Thread
    <3>2. l0 \in Nat
      BY DEF IInv, Shapes
    <3> QED
      BY <3>1, <3>2 DEF IInv, AtWork
  <2> QED
    BY <1>1, <1>2, <2>2, <2>3, <2>4, <2>5, <2>6, MoveAtWork, Zenon
<1>7. Counts'
  <2>1. \A q \in Workers : proc'[q].pc = "idle" <=> proc[q].pc = "idle"
    BY <1>3, ProcsFacts DEF FlushMove, AtFlush
  <2> QED
    BY <2>1, SameCount DEF IInv
<1>8. Locks' /\ Sealing'
  <2>1. proc'[Caller].pc = "count" <=> proc[Caller].pc = "count"
    BY <1>3, ProcsFacts DEF FlushMove, AtFlush
  <2> QED
    BY <2>1 DEF IInv, Locks, Sealing, UnstalledSlot
<1>9. Silent'
  BY <1>3, <1>4, ProcsFacts DEF IInv, Silent, QuiescedSilent
<1>10. Flags'
  BY DEF IInv, Flags
<1> QED
  BY <1>1, <1>3, <1>5, <1>6, <1>7, <1>8, <1>9, <1>10

LEMMA ClaimIInv == ASSUME IInv, NEW p \in Procs, Claim(p) PROVE IInv'
<1> USE DEF executor, gates, bounds
<1>1. /\ UNCHANGED <<writer, lock, merging, l0, active, wal, imm, count>>
      /\ UNCHANGED <<heap, coalesce, gates, bounds>>
      /\ AtFlush(p) /\ slot[proc[p].wal] # "InFlight"
  BY DEF Claim, Claimable, AtFlush
<1>2. proc[p].wal \in Wals /\ proc[p].wal < wal /\ wal \in Nat /\ l0 \in Nat
  BY <1>1 DEF IInv, AtWork, Shapes, Wals
<1>3. CASE slot[proc[p].wal] = "Completed"
  <2>1. slot' = slot /\ proc' = [proc EXCEPT ![p].pc = "retire"]
    BY <1>3 DEF Claim
  <2>2. PICK v \in Thread : FlushMove(p, v) /\ v.pc = "retire"
    BY <1>1, <2>1, FlushMoveOn, Zenon
  <2>3. \A q \in Procs : q # p /\ proc[q].pc = "write" => slot'[proc[q].wal] = "InFlight"
    BY <2>1 DEF IInv, AtWork
  <2>4. /\ Executor' /\ KeysOnce' /\ AtWork' /\ Counts' /\ Locks' /\ Sealing' /\ Silent'
        /\ Flags' /\ proc' \in [Procs -> Thread]
    <3>1. l0' >= l0 /\ l0' \in Nat /\ v.pc # "write"
      BY <1>1, <1>2, <2>2
    <3> QED
      BY <1>1, <2>2, <2>3, <3>1, FlushMoveIInv, Zenon
  <2>5. Shapes' /\ Queued'
    BY <1>1, <2>1, <2>4 DEF IInv, Shapes, Queued
  <2> QED
    BY <2>4, <2>5 DEF IInv
<1>4. CASE slot[proc[p].wal] # "Completed"
  <2>1. /\ slot' = [slot EXCEPT ![proc[p].wal] = "InFlight"]
        /\ proc' = [proc EXCEPT ![p].pc = "write"]
    BY <1>4 DEF Claim
  <2>2. PICK v \in Thread : FlushMove(p, v) /\ v.pc = "write"
    BY <1>1, <2>1, FlushMoveOn, Zenon
  <2>3. slot \in [Wals -> {"Pending", "InFlight", "Completed"}]
    BY DEF IInv, Shapes
  <2>4. slot'[v.wal] = "InFlight" /\ slot[v.wal] # "InFlight"
    BY <1>1, <1>2, <2>1, <2>2, <2>3 DEF FlushMove
  <2>5. \A q \in Procs : q # p /\ proc[q].pc = "write" => slot'[proc[q].wal] = "InFlight"
    BY <1>2, <2>1, <2>3 DEF IInv, AtWork, AtFlush
  <2>6. /\ Executor' /\ KeysOnce' /\ AtWork' /\ Counts' /\ Locks' /\ Sealing' /\ Silent'
        /\ Flags' /\ proc' \in [Procs -> Thread]
    <3>1. l0' >= l0 /\ l0' \in Nat
      BY <1>1, <1>2
    <3> QED
      BY <1>1, <2>2, <2>4, <2>5, <3>1, FlushMoveIInv, Zenon
  <2>7. slot' \in [Wals -> {"Pending", "InFlight", "Completed"}]
    BY <2>1, <2>3, Zenon
  <2>8. Shapes'
    BY <1>1, <2>6, <2>7 DEF IInv, Shapes
  <2>9. Queued'
    <3>1. \A w \in Wals : w # proc[p].wal => slot'[w] = slot[w]
      BY <2>1, <2>3
    <3>2. \A w \in Wals : w >= wal => w # proc[p].wal
      BY <1>2 DEF Wals
    <3> QED
      BY <1>1, <1>2, <1>4, <3>1, <3>2 DEF IInv, Queued
  <2> QED
    BY <2>6, <2>8, <2>9 DEF IInv
<1> QED
  BY <1>3, <1>4

LEMMA FaultBound ==
    ASSUME IInv, NEW p \in Procs, FlushErr(p)
    PROVE  flushes' = flushes /\ faults' \in Nat /\ faults' + flushes' <= MaxExtras
<1>1. faults \in Nat /\ flushes \in Nat
  BY Zenon DEF IInv, Shapes
<1>2. faults + flushes < MaxExtras /\ faults' = faults + 1 /\ flushes' = flushes
  BY Zenon DEF FlushErr
<1>3. MaxExtras \in Nat
  BY OptionsAssumption
<1> QED
  BY <1>1, <1>2, <1>3

LEMMA WriteTableIInv == ASSUME IInv, NEW p \in Procs, WriteTable(p) PROVE IInv'
<1> USE DEF gates
<1>1. /\ UNCHANGED <<writer, lock, merging, active, wal, imm, count, gates>>
      /\ AtFlush(p) /\ proc[p].pc = "write" /\ slot[proc[p].wal] = "InFlight"
  BY DEF WriteTable, AtFlush, IInv, AtWork
<1>2. proc[p].wal \in Wals /\ proc[p].wal < wal /\ wal \in Nat /\ l0 \in Nat
  BY <1>1 DEF IInv, AtWork, Shapes, Wals
<1>3. slot \in [Wals -> {"Pending", "InFlight", "Completed"}]
  BY DEF IInv, Shapes
<1>4. PICK s \in {"Completed", "Pending"} : slot' = [slot EXCEPT ![proc[p].wal] = s]
  BY DEF WriteTable
<1>5. l0' \in Nat /\ l0' >= l0
  BY <1>2 DEF WriteTable
<1>6. faults' \in Nat /\ flushes' = flushes /\ faults' + flushes' <= MaxExtras
  <2>1. CASE UNCHANGED bounds
    BY <2>1 DEF IInv, Shapes, bounds
  <2>2. CASE FlushErr(p)
    BY <2>2, FaultBound
  <2> QED
    BY <2>1, <2>2 DEF WriteTable
<1>7. PICK v \in Thread : FlushMove(p, v) /\ v.pc # "write"
  <2>1. CASE FlushErr(p)
    BY <2>1, FlushEndMove
  <2>2. CASE proc' = [proc EXCEPT ![p].pc = "retire"] /\ UNCHANGED executor
    <3>1. \E v \in Thread : FlushMove(p, v) /\ v.pc = "retire"
      BY <2>2, FlushMoveOn, Zenon
    <3> QED
      BY <3>1
  <2> QED
    BY <2>1, <2>2 DEF WriteTable
<1>8. \A q \in Procs : q # p /\ proc[q].pc = "write" => slot'[proc[q].wal] = "InFlight"
  BY <1>1, <1>2, <1>3, <1>4, Zenon DEF IInv, AtWork, AtFlush
<1>9. /\ Executor' /\ KeysOnce' /\ AtWork' /\ Counts' /\ Locks' /\ Sealing' /\ Silent'
      /\ Flags' /\ proc' \in [Procs -> Thread]
  BY <1>1, <1>5, <1>7, <1>8, FlushMoveIInv
<1>10. slot' \in [Wals -> {"Pending", "InFlight", "Completed"}]
  BY <1>3, <1>4, Zenon
<1>11. Shapes'
  BY <1>1, <1>5, <1>6, <1>9, <1>10, SMTT(30) DEF IInv, Shapes
<1>12. Queued'
  <2>1. \A w \in Wals : w # proc[p].wal => slot'[w] = slot[w]
    BY <1>3, <1>4
  <2>2. \A w \in Wals : w >= wal => w # proc[p].wal
    BY <1>2 DEF Wals
  <2> QED
    BY <1>1, <1>2, <2>1, <2>2, Zenon DEF IInv, Queued
<1> QED
  BY <1>9, <1>11, <1>12 DEF IInv

LEMMA RetireIInv == ASSUME IInv, NEW p \in Procs, Retire(p) PROVE IInv'
<1> USE DEF gates
<1>1. /\ UNCHANGED <<lock, merging, l0, active, wal, slot, gates>>
      /\ AtFlush(p) /\ proc[p].pc = "retire" /\ l0 \in Nat
  BY DEF Retire, AtFlush, IInv, Shapes
<1>2. \A q \in Procs : q # p /\ proc[q].pc = "write" => slot'[proc[q].wal] = "InFlight"
  BY <1>1, Zenon DEF IInv, AtWork
<1>3. CASE FlushErr(p) \/ FlushOk(p)
  <2>1. /\ UNCHANGED <<imm, count, writer>>
        /\ faults' \in Nat /\ flushes' = flushes /\ faults' + flushes' <= MaxExtras
    <3>1. proc' # proc
      <4>1. PICK v \in Thread : FlushMove(p, v) /\ v.pc \in {"leave", "drain", "idle"}
        BY <1>3, FlushEndMove
      <4>2. proc'[p] = v
        BY <4>1, MoveFacts DEF FlushMove
      <4> QED
        BY <1>1, <4>1, <4>2
    <3>2. CASE FlushErr(p) /\ UNCHANGED <<imm, count, writer>>
      BY <3>2, FaultBound
    <3>3. CASE UNCHANGED <<imm, count, writer>> /\ UNCHANGED bounds
      BY <3>3 DEF IInv, Shapes, bounds
    <3> QED
      BY <3>1, <3>2, <3>3, Zenon DEF Retire
  <2>2. PICK v \in Thread : FlushMove(p, v) /\ v.pc \in {"leave", "drain", "idle"}
    BY <1>3, FlushEndMove
  <2>3. /\ Executor' /\ KeysOnce' /\ AtWork' /\ Counts' /\ Locks' /\ Sealing' /\ Silent'
        /\ Flags' /\ proc' \in [Procs -> Thread]
    <3>1. l0' >= l0 /\ l0' \in Nat /\ v.pc # "write"
      BY <1>1, <2>2
    <3> QED
      BY <1>1, <1>2, <2>1, <2>2, <3>1, FlushMoveIInv, Zenon
  <2>4. Shapes' /\ Queued'
    BY <1>1, <2>1, <2>3, Zenon DEF IInv, Shapes, Queued
  <2> QED
    BY <2>3, <2>4 DEF IInv
<1>4. CASE /\ Retirable
           /\ imm' = Tail(imm) /\ count' = SaturatingSub(count) /\ writer' = UnstalledSlot
           /\ UNCHANGED proc /\ UNCHANGED <<executor, bounds>>
  <2>1. Executor' /\ KeysOnce' /\ Counts' /\ AtWork'
    BY <1>1, <1>4, Zenon
    DEF IInv, Executor, KeysOnce, Busy, Counts, AtWork, AtFlush, AtCompaction, executor
  <2>2. Locks' /\ Sealing' /\ Silent' /\ Flags'
    BY <1>1, <1>4 DEF IInv, Locks, Sealing, Silent, QuiescedSilent, Flags, UnstalledSlot
  <2>3. imm \in Seq(Wals) /\ imm # <<>> /\ Distinct(imm) /\ slot[Head(imm)] = "Completed"
    BY <1>4 DEF IInv, Shapes, Queued, Retirable
  <2>4. /\ imm' \in Seq(Wals) /\ Distinct(imm')
        /\ Range(imm') = Range(imm) \ {Head(imm)}
    BY <1>4, <2>3, TailDistinct, SMTT(30)
  <2>5. Queued'
    BY <1>1, <2>3, <2>4, Zenon DEF IInv, Queued
  <2>6. count' \in Nat /\ writer' \in {"idle", "l0", "decided", "l0wait", "slot", "slotwait", "count"}
    BY <1>4 DEF IInv, Shapes, SaturatingSub, UnstalledSlot
  <2>7. Shapes'
    BY <1>1, <1>4, <2>4, <2>6 DEF IInv, Shapes, bounds
  <2> QED
    BY <2>1, <2>2, <2>5, <2>7, SMTT(30) DEF IInv
<1> QED
  BY <1>3, <1>4, Zenon DEF Retire
-----------------------------------------------------------------------------
(* A caller drains the queue; a worker takes a task and ends it. *)

LEMMA DrainIInv == ASSUME IInv, Drain PROVE IInv'
<1> USE DEF mem, gates, bounds
<1>1. /\ UNCHANGED <<writer, lock, merging, l0, mem, gates, bounds>>
      /\ proc[Caller].pc = "drain" /\ Caller \in Procs /\ Caller \notin Workers
      /\ Submit(Compaction) \/ UNCHANGED executor
  BY ProcsFacts DEF Drain, TriggerCompaction
<1>2. PICK v \in Thread : /\ Moves(Caller, v) /\ v.pc \in {"idle", "claim"}
                          /\ v.pc = "claim" => v.wal \in Wals /\ v.wal < wal
  <2>1. CASE imm = <<>>
    BY <2>1, IdleThread DEF Drain, Moves
  <2>2. CASE imm # <<>>
    <3>1. imm \in Seq(Wals) /\ Distinct(imm)
      BY DEF IInv, Shapes, Queued
    <3>2. Head(imm) \in Wals /\ Head(imm) \in Range(imm)
      BY <2>2, <3>1, TailDistinct
    <3>3. Head(imm) < wal
      BY <3>2 DEF IInv, Queued
    <3>4. Moves(Caller, [At("claim") EXCEPT !.wal = Head(imm)])
      BY <2>2 DEF Drain, Moves
    <3> QED
      BY <3>2, <3>3, <3>4, AtThread, Zenon
  <2> QED
    BY <2>1, <2>2
<1>3. /\ proc' \in [Procs -> Thread] /\ proc'[Caller] = v
      /\ \A q \in Procs : q # Caller => proc'[q] = proc[q]
      /\ \A q \in Workers : proc'[q] = proc[q]
  BY <1>1, <1>2, MoveFacts, SMTT(30)
<1>4. /\ Executor'
      /\ \A q \in Workers : Busy(q) => /\ proc[q].task \in DOMAIN coalesce'
                                       /\ proc[q].task \notin Range(heap')
      /\ \A w \in Wals : Flush(w) \in DOMAIN coalesce' => Flush(w) \in DOMAIN coalesce
  <2>1. Compaction \in Tasks
    BY SMTT(30) DEF Tasks
  <2>2. \A w \in Wals : Flush(w) \in DOMAIN coalesce' =>
                           Flush(w) \in DOMAIN coalesce \/ Flush(w) = Compaction
    BY <1>1, <2>1, SubmitIInv, Zenon
  <2> QED
    BY <1>1, <2>1, <2>2, SubmitIInv, FlushEqual, Zenon
<1>5. KeysOnce'
  BY <1>1, <1>2, <1>4, MoveKeys, Zenon
<1>6. AtWork'
  <2>1. /\ \A q \in Procs : proc[q].pc = "write" => slot'[proc[q].wal] = "InFlight"
        /\ \A q \in Workers : proc[q].pc = "merge" => proc[q].took <= l0'
    BY <1>1, Zenon DEF IInv, AtWork
  <2> QED
    BY <1>1, <1>2, <1>4, <2>1, MoveAtWork, Zenon
<1>7. Counts'
  BY <1>1, <1>3, SameCount, Zenon DEF IInv
<1>8. Shapes' /\ Flags' /\ Queued'
  BY <1>1, <1>3, Zenon DEF IInv, Shapes, Flags, Queued
<1>9. Locks' /\ Sealing' /\ Silent'
  BY <1>1, <1>2, <1>3, Zenon DEF IInv, Locks, Sealing, Silent, QuiescedSilent
<1> QED
  BY <1>4, <1>5, <1>6, <1>7, <1>8, <1>9, Zenon DEF IInv

\* The count follows a worker that takes or ends a task.
LEMMA CountMoves ==
    ASSUME IInv, NEW p \in Workers, NEW v \in Thread, Moves(p, v)
    PROVE  /\ (proc[p].pc = "idle" /\ v.pc # "idle" /\ inside' = inside + 1) => Counts'
           /\ (proc[p].pc # "idle" /\ v.pc = "idle" /\ inside' = inside - 1) => Counts'
<1> DEFINE B == {q \in Workers : proc[q].pc # "idle"}
           D == {q \in Workers : proc'[q].pc # "idle"}
<1>1. proc'[p] = v /\ \A q \in Workers : q # p => proc'[q] = proc[q]
  BY ProcsFacts, MoveFacts
<1>2. IsFiniteSet(B)
  BY OptionsAssumption, FS_Subset
<1>3. inside = Cardinality(B)
  BY DEF IInv, Counts
<1>4. CASE proc[p].pc = "idle" /\ v.pc # "idle" /\ inside' = inside + 1
  <2>1. D = B \cup {p} /\ p \notin B
    BY <1>1, <1>4
  <2>2. Cardinality(B \cup {p}) = Cardinality(B) + 1
    BY <1>2, <2>1, FS_AddElement, Zenon
  <2> QED
    BY <1>3, <1>4, <2>1, <2>2, Zenon DEF Counts
<1>5. CASE proc[p].pc # "idle" /\ v.pc = "idle" /\ inside' = inside - 1
  <2>1. D = B \ {p} /\ p \in B
    BY <1>1, <1>5
  <2>2. Cardinality(B \ {p}) = Cardinality(B) - 1
    BY <1>2, <2>1, FS_RemoveElement
  <2> QED
    BY <1>3, <1>5, <2>1, <2>2, Zenon DEF Counts
<1> QED
  BY <1>4, <1>5, Zenon

LEMMA StartThread ==
    ASSUME NEW t \in Tasks, t # SyncTick, NEW v,
           v = [pc |-> Start[t.kind], task |-> t, wal |-> t.wal, took |-> 0]
    PROVE  /\ v \in Thread /\ v.task = t /\ v.pc \in {"claim", "lock"}
           /\ v.pc = "lock" => t = Compaction
           /\ v.pc = "claim" => v.wal \in Wals /\ t = Flush(v.wal)
<1>0. MaxWals \in Nat
  BY OptionsAssumption
<1>1. CASE t = Compaction
  <2>1. t.kind = "compact" /\ t.wal = 0
    BY <1>1 DEF Compaction
  <2>2. v = [pc |-> "lock", task |-> t, wal |-> 0, took |-> 0]
    BY <2>1 DEF Start
  <2>3. 0 \in 0 .. MaxWals
    BY <1>0
  <2> QED
    BY <1>1, <2>2, <2>3 DEF Thread
<1>2. ASSUME NEW w \in Wals, t = Flush(w)
      PROVE  /\ v \in Thread /\ v.task = t /\ v.pc = "claim" /\ v.wal = w
  <2>1. t.kind = "flush" /\ t.wal = w
    BY <1>2 DEF Flush
  <2>2. v = [pc |-> "claim", task |-> t, wal |-> w, took |-> 0]
    BY <2>1 DEF Start
  <2>3. w \in 0 .. MaxWals
    BY <1>0 DEF Wals
  <2> HIDE DEF Wals
  <2> QED
    BY <2>2, <2>3 DEF Thread
<1> QED
  BY <1>1, <1>2, Zenon DEF Tasks, Start, Compaction

LEMMA DequeueIInv == ASSUME IInv, NEW p \in Workers, Dequeue(p) PROVE IInv'
<1> USE DEF mem, bounds
<1>1. /\ UNCHANGED <<writer, lock, merging, l0, slotShut, l0Shut, shut, ticking, quiescer>>
      /\ UNCHANGED <<mem, bounds>> /\ proc[p].pc = "idle" /\ p \in Procs /\ p # Caller
  BY ProcsFacts, Zenon DEF Dequeue
<1>2. PICK i \in DOMAIN heap :
         \/ /\ MayEnter /\ heap[i] # SyncTick
            /\ inside' = inside + 1
            /\ proc' = [proc EXCEPT ![p] = [pc |-> Start[heap[i].kind], task |-> heap[i],
                                            wal |-> heap[i].wal, took |-> 0]]
            /\ heap' = LeaveOut(heap, i)
            /\ UNCHANGED coalesce
         \/ /\ FollowUp(LeaveOut(heap, i), heap[i])
            /\ UNCHANGED <<inside, proc>>
  BY Zenon DEF Dequeue
<1> DEFINE t == heap[i]
<1>3. heap \in Seq(Tasks) /\ Distinct(heap)
  BY Zenon DEF IInv, Executor
<1>4. t \in Range(heap) /\ t \in Tasks /\ t \in DOMAIN coalesce
  <2>1. t \in Range(heap)
    BY DEF Range
  <2> QED
    BY <2>1 DEF IInv, Executor
<1>5. /\ LeaveOut(heap, i) \in Seq(Tasks) /\ Distinct(LeaveOut(heap, i))
      /\ Range(LeaveOut(heap, i)) = Range(heap) \ {t}
  BY <1>3, LeaveOutDistinct
<1> HIDE DEF t
<1>7. \A q \in Procs : proc[q].pc = "write" => slot'[proc[q].wal] = "InFlight"
  BY <1>1, Zenon DEF IInv, AtWork
<1>8. CASE /\ MayEnter /\ t # SyncTick
           /\ inside' = inside + 1
           /\ proc' = [proc EXCEPT ![p] = [pc |-> Start[t.kind], task |-> t,
                                           wal |-> t.wal, took |-> 0]]
           /\ heap' = LeaveOut(heap, i)
           /\ UNCHANGED coalesce
  <2>1. PICK v : v = [pc |-> Start[t.kind], task |-> t, wal |-> t.wal, took |-> 0]
    BY Zenon
  <2>2. /\ v \in Thread /\ v.task = t /\ v.pc \in {"claim", "lock"}
        /\ v.pc = "lock" => t = Compaction
        /\ v.pc = "claim" => v.wal \in Wals /\ t = Flush(v.wal)
    <3>1. t \in Tasks /\ t # SyncTick
      BY <1>4, <1>8, Zenon
    <3> HIDE DEF Tasks, SyncTick
    <3> QED
      BY <2>1, <3>1, StartThread
  <2>3. Moves(p, v)
    BY <1>8, <2>1, Zenon DEF Moves
  <2>4. /\ proc' \in [Procs -> Thread] /\ proc'[p] = v
        /\ \A q \in Procs : q # p => proc'[q] = proc[q]
        /\ \A q \in Workers : q # p => proc'[q] = proc[q]
    BY <1>1, <2>2, <2>3, MoveFacts, Zenon
  <2>5. Counts'
    <3>1. v.pc # "idle"
      BY <2>2, SMTT(30)
    <3> QED
      BY <1>1, <1>8, <2>2, <2>3, <3>1, CountMoves, Zenon
  <2>6. Executor'
    BY <1>5, <1>8, Zenon DEF IInv, Executor
  <2>7. KeysOnce'
    <3>1. \A q \in Workers : q # p /\ Busy(q) => proc[q].task # t
      BY <1>4, Zenon DEF IInv, KeysOnce
    <3>2. /\ KeysOnce /\ UNCHANGED coalesce /\ t \in DOMAIN coalesce
          /\ Range(heap') = Range(heap) \ {t}
          /\ proc'[p].task = t /\ \A q \in Workers : q # p => proc'[q] = proc[q]
      BY <1>4, <1>5, <1>8, <2>2, <2>4, Zenon DEF IInv
    <3>3. \A q \in Workers : q # p /\ Busy(q)' => Busy(q) /\ proc'[q].task = proc[q].task
      BY <3>2, Zenon DEF Busy
    <3>4. \A q \in Workers : Busy(q)' => /\ proc'[q].task \in DOMAIN coalesce'
                                        /\ proc'[q].task \notin Range(heap')
      BY <3>2, <3>3, Zenon DEF KeysOnce
    <3>5. \A q, r \in Workers : Busy(q)' /\ Busy(r)' /\ q # r => proc'[q].task # proc'[r].task
      BY <3>1, <3>2, <3>3, Zenon DEF KeysOnce
    <3> QED
      BY <3>4, <3>5, Zenon DEF KeysOnce
  <2>8. AtWork'
    <3>1. v.pc = "claim" => v.wal \in Wals /\ v.wal < wal
      BY <1>4, <2>2, Zenon DEF IInv, AtWork
    <3>2. \A q \in Workers : proc[q].pc = "merge" => proc[q].took <= l0'
      BY <1>1, Zenon DEF IInv, AtWork
    <3> QED
      BY <1>1, <1>7, <1>8, <2>2, <2>3, <3>1, <3>2, MoveAtWork, Zenon
  <2>9. Shapes' /\ Flags' /\ Queued' /\ Locks' /\ Sealing'
    BY <1>1, <2>4, ProcsFacts, WorkerFrame, Zenon
  <2>10. Silent'
    BY <1>1, <1>8, Zenon DEF IInv, Silent, QuiescedSilent, MayEnter
  <2> QED
    BY <2>5, <2>6, <2>7, <2>8, <2>9, <2>10 DEF IInv
<1>9. CASE FollowUp(LeaveOut(heap, i), t) /\ UNCHANGED <<inside, proc>>
  <2>1. /\ Executor'
        /\ Range(heap') \subseteq Range(heap)
        /\ DOMAIN coalesce' \subseteq DOMAIN coalesce
        /\ DOMAIN coalesce \ {t} \subseteq DOMAIN coalesce'
    <3>1. Executor /\ Range(LeaveOut(heap, i)) \subseteq DOMAIN coalesce
          /\ t \notin Range(LeaveOut(heap, i))
      BY <1>5, Zenon DEF IInv, Executor
    <3>2. /\ Executor'
          /\ Range(heap') = IF coalesce[t] # <<>> THEN Range(LeaveOut(heap, i)) \cup {t}
                            ELSE Range(LeaveOut(heap, i))
          /\ DOMAIN coalesce' \subseteq DOMAIN coalesce
          /\ DOMAIN coalesce \ {t} \subseteq DOMAIN coalesce'
      BY <1>4, <1>5, <1>9, <3>1, FollowUpFacts, Zenon
    <3> QED
      BY <1>4, <1>5, <3>2, Zenon
  <2>2. KeysOnce'
    BY <1>4, <1>9, <2>1, Zenon DEF IInv, KeysOnce, Busy
  <2>3. AtWork'
    BY <1>1, <1>9, <2>1, Zenon DEF IInv, AtWork, AtFlush, AtCompaction
  <2>4. Shapes' /\ Flags' /\ Queued' /\ Locks' /\ Sealing'
    <3>1. proc' \in [Procs -> Thread] /\ proc'[Caller] = proc[Caller]
      BY <1>9, Zenon DEF IInv, Shapes
    <3> QED
      BY <1>1, <3>1, WorkerFrame, Zenon
  <2>5. Silent' /\ Counts'
    BY <1>1, <1>9, Zenon DEF IInv, Silent, QuiescedSilent, Counts
  <2> QED
    BY <2>1, <2>2, <2>3, <2>4, <2>5 DEF IInv
<1> QED
  BY <1>2, <1>8, <1>9, Zenon DEF t

LEMMA FinishIInv == ASSUME IInv, NEW p \in Workers, Finish(p) PROVE IInv'
<1> USE DEF mem, bounds
<1> DEFINE k == proc[p].task
<1>1. /\ UNCHANGED <<writer, lock, merging, l0, slotShut, l0Shut, shut, ticking, quiescer>>
      /\ UNCHANGED <<mem, bounds>> /\ proc[p].pc = "leave" /\ p \in Procs /\ p # Caller
      /\ inside' = inside - 1 /\ FollowUp(heap, k) /\ Moves(p, Idle)
  BY ProcsFacts DEF Finish, Left, Moves
<1>2. k \in DOMAIN coalesce /\ k \notin Range(heap)
  BY <1>1, Zenon DEF IInv, KeysOnce, Busy
<1>3. /\ Executor'
      /\ Range(heap') \subseteq Range(heap) \cup {k}
      /\ DOMAIN coalesce' \subseteq DOMAIN coalesce
      /\ DOMAIN coalesce \ {k} \subseteq DOMAIN coalesce'
  <2>1. /\ Executor /\ heap \in Seq(Tasks) /\ Distinct(heap)
        /\ Range(heap) \subseteq DOMAIN coalesce
    BY SMTT(30) DEF IInv, Executor
  <2>2. /\ Executor'
        /\ Range(heap') = IF coalesce[k] # <<>> THEN Range(heap) \cup {k} ELSE Range(heap)
        /\ DOMAIN coalesce' \subseteq DOMAIN coalesce
        /\ DOMAIN coalesce \ {k} \subseteq DOMAIN coalesce'
    BY <1>1, <1>2, <2>1, FollowUpFacts, Zenon
  <2> QED
    BY <2>2, Zenon
<1> HIDE DEF k
<1>4. /\ proc' \in [Procs -> Thread] /\ proc'[p] = Idle
      /\ \A q \in Procs : q # p => proc'[q] = proc[q]
      /\ \A q \in Workers : q # p => proc'[q] = proc[q]
  BY <1>1, IdleThread, MoveFacts, Zenon
<1>5. Counts'
  BY <1>1, IdleThread, CountMoves, Zenon
<1>6. KeysOnce'
  <2>1. \A q \in Workers : q # p /\ Busy(q) => proc[q].task # k
    BY <1>1, Zenon DEF IInv, KeysOnce, Busy, k
  <2>2. KeysOnce /\ \A q \in Workers : Busy(q)' => Busy(q) /\ q # p /\ proc'[q] = proc[q]
    BY <1>4, IdleThread, Zenon DEF IInv, Busy
  <2>3. \A q \in Workers : Busy(q)' => /\ proc'[q].task \in DOMAIN coalesce'
                                      /\ proc'[q].task \notin Range(heap')
    BY <1>3, <2>1, <2>2 DEF KeysOnce
  <2>4. \A q, r \in Workers : Busy(q)' /\ Busy(r)' /\ q # r => proc'[q].task # proc'[r].task
    BY <2>2, Zenon DEF KeysOnce
  <2> QED
    BY <2>3, <2>4, Zenon DEF KeysOnce
<1>7. AtWork'
  <2>1. /\ \A q \in Procs : proc[q].pc = "write" => slot'[proc[q].wal] = "InFlight"
        /\ \A q \in Workers : proc[q].pc = "merge" => proc[q].took <= l0'
    BY <1>1, Zenon DEF IInv, AtWork
  <2> QED
    BY <1>1, <1>3, <2>1, IdleThread, MoveAtWork, Zenon
<1>8. Shapes' /\ Flags' /\ Queued' /\ Locks' /\ Sealing'
  BY <1>1, <1>4, ProcsFacts, WorkerFrame, Zenon
<1>9. Silent'
  BY <1>1, <1>4, IdleThread, Zenon DEF IInv, Silent, QuiescedSilent
<1> QED
  BY <1>3, <1>5, <1>6, <1>7, <1>8, <1>9, Zenon DEF IInv

LEMMA StepIInv == IInv /\ [Next]_vars => IInv'
<1> SUFFICES ASSUME IInv, [Next]_vars PROVE IInv'
  OBVIOUS
<1>1. CASE UNCHANGED vars
  <2>1. Shapes' /\ Flags' /\ Executor' /\ KeysOnce' /\ Locks' /\ Sealing' /\ Queued' /\ Counts'
    BY <1>1, Zenon
    DEF IInv, Shapes, Flags, Executor, KeysOnce, Busy, Locks, Sealing, Queued, Counts, vars
  <2>2. AtWork' /\ Silent'
    BY <1>1, Zenon DEF IInv, AtWork, AtFlush, AtCompaction, Silent, QuiescedSilent, vars
  <2> QED
    BY <2>1, <2>2, SMTT(30) DEF IInv
<1>2. ASSUME NEW p \in Workers, Working(p) PROVE IInv'
  BY <1>2, DequeueIInv, FinishIInv, CompactionIInv DEF Working
<1>3. ASSUME NEW p \in Procs, Flushing(p) PROVE IInv'
  BY <1>3, ClaimIInv, WriteTableIInv, RetireIInv DEF Flushing
<1>4. CASE Tick \/ Commit \/ Writing
  BY <1>4, TickIInv, WriterIInv, AwaitSlotIInv, CountSealIInv DEF Writing
<1>5. CASE BeginFlush \/ CountFlush \/ Drain
  BY <1>5, BeginFlushIInv, CountFlushIInv, DrainIInv
<1>6. CASE Shutdown \/ Quiesce
  BY <1>6, QuiesceIInv DEF Quiesce
<1> QED
  BY <1>1, <1>2, <1>3, <1>4, <1>5, <1>6 DEF Next

LEMMA Invariance == Spec => []IInv
BY InitIInv, StepIInv, PTL DEF Spec

\* After shutdown has returned no worker is in a task, and none gets into one: queued
\* tasks find the engine shut down and return (quiesce, enter_background).
THEOREM ShutdownIsSilent == Spec => []QuiescedSilent
<1>1. IInv => QuiescedSilent
  BY SMTT(30) DEF IInv, Silent
<1> QED
  BY Invariance, <1>1, PTL

\* One task per key and one thread per memtable being written, with any number of
\* workers; and the types (submit, worker_loop, flush_immutable).
THEOREM TasksAreExclusive == Spec => []OneAtATime
<1>1. IInv => OneAtATime
  <2> SUFFICES ASSUME IInv PROVE OneAtATime
    OBVIOUS
  <2>1. \A i \in DOMAIN heap : heap[i] \in DOMAIN coalesce
    BY DEF IInv, Executor, Range
  <2>2. \A k \in DOMAIN coalesce : Len(coalesce[k]) <= 1
    <3>1. \A k : Len(<<>>) <= 1 /\ Len(<<k>>) <= 1
      OBVIOUS
    <3> QED
      BY <3>1, Zenon DEF IInv, Executor
  <2>3. faults + flushes \in 0 .. MaxExtras
    BY OptionsAssumption DEF IInv, Shapes
  <2>4. TypeOK
    BY <2>1, <2>2, <2>3 DEF IInv, Shapes, Flags, Counts, TypeOK, Wals
  <2> QED
    BY <2>4, Zenon DEF OneAtATime, IInv, KeysOnce, Busy, AtWork
<1> QED
  BY Invariance, <1>1, PTL
=============================================================================
