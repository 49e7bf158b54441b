----------------------------- MODULE Background -----------------------------
(***************************************************************************)
(* The threads around one open storage engine: the executor with its       *)
(* coalescing queue and its periodic ticks, the flush, compaction and sync *)
(* tasks it runs, the leader of the write queue held back by the two stall *)
(* gates, a caller of flush_memtable, and shutdown.  What the tasks write  *)
(* is StorageEngine's subject; here a memtable is the id of its WAL        *)
(* segment and level 0 is a number of tables.  A thread that waits on a    *)
(* condition variable is parked until it is notified, so a notification    *)
(* sent before the wait is lost.                                           *)
(***************************************************************************)
EXTENDS Integers, Sequences, FiniteSets, Functions

CONSTANTS Workers,    \* the executor's worker threads
          Cap,        \* immutable_cap(): max_write_buffer_number - 1
          Threshold,  \* l0_compaction_threshold
          Stop,       \* l0_stop_writes_trigger
          Found,      \* the numbers of level-0 tables the engine may find at open
          MaxWals,    \* bound on the WAL segments
          MaxExtras   \* bound on the calls of flush_memtable plus the failed table
                      \* writes, segment removals and merges

\* EngineOptions::validate, MIN_WORKER_THREADS.
ASSUME OptionsAssumption ==
    /\ IsFiniteSet(Workers) /\ Cardinality(Workers) >= 2 /\ "caller" \notin Workers
    /\ Cap \in Nat \ {0} /\ Threshold \in Nat \ {0} /\ Stop \in Nat /\ Threshold < Stop
    /\ Found \subseteq Nat
    /\ MaxWals \in Nat \ {0} /\ MaxExtras \in Nat

VARIABLES
    heap,      \* the executor's queue, in submission order
    coalesce,  \* CoalesceKey -> <<>> or <<the pending task>>; a key is in it while queued or running
    proc,      \* per worker, and the flush_memtable caller: [pc, task, wal, took]
    ticking,   \* the periodic sync is registered and not cancelled
    inside,    \* BackgroundState::active
    shut,      \* BackgroundState::shutting_down
    quiescer,  \* the thread in shutdown: "idle", "bg", "join", "done"
    writer,    \* the write leader: "idle", "l0", "decided", "l0wait", "slot", "slotwait", "count"
    lock,      \* holder of write_mutex: "free", "writer" or "caller"
    merging,   \* compaction_mutex is held
    active,    \* the active memtable is not empty
    wal,       \* active_wal_id
    imm,       \* MemSet::immutable, oldest first
    slot,      \* FlushSlot of each sealed memtable
    count,     \* FlushGateState::immutable_count
    slotShut,  \* FlushGateState::shutting_down
    l0,        \* number of level-0 tables
    l0Shut,    \* L0WriteStallGateState::shutting_down
    faults, flushes,
    excused    \* ghost: what the code does not handle (see EveryWriteReturns)

executor == <<heap, coalesce>>
mem == <<active, wal, imm, slot, count>>
gates == <<slotShut, l0Shut, shut, inside, ticking, quiescer>>
bounds == <<faults, flushes>>
vars == <<heap, coalesce, proc, ticking, inside, shut, quiescer, writer, lock, merging,
          active, wal, imm, slot, count, slotShut, l0, l0Shut, faults, flushes, excused>>

\* the sequence without its i-th element
LeaveOut(q, i) == SubSeq(q, 1, i - 1) \o SubSeq(q, i + 1, Len(q))

Caller == "caller"
Procs == Workers \cup {Caller}

NoTask == [kind |-> "none", wal |-> 0]
Compaction == [kind |-> "compact", wal |-> 0]
SyncTick == [kind |-> "sync", wal |-> 0]
Flush(w) == [kind |-> "flush", wal |-> w]
\* Keys are "compact:{dir}", "periodic:{id}" and "flush:{dir}:{wal_id}", which a task
\* of one engine is itself; Priority::High is what a sync does not have.
High(t) == t.kind # "sync"

Idle == [pc |-> "idle", task |-> NoTask, wal |-> 0, took |-> 0]

\* open_with_executor on a directory that may hold level-0 tables already;
\* nothing asks for a compaction.
Init ==
    /\ heap = <<>> /\ coalesce = << >>
    /\ proc = [p \in Procs |-> Idle]
    /\ ticking = TRUE
    /\ inside = 0 /\ shut = FALSE /\ quiescer = "idle"
    /\ writer = "idle" /\ lock = "free" /\ merging = FALSE
    /\ active = FALSE /\ wal = 1 /\ imm = <<>> /\ slot = [w \in 1 .. MaxWals |-> "Pending"]
    /\ count = 0 /\ slotShut = FALSE
    /\ l0 \in Found /\ l0Shut = FALSE
    /\ faults = 0 /\ flushes = 0
    /\ excused = (IF l0 >= Stop THEN {"full"} ELSE {})
                 \cup (IF l0 >= Threshold THEN {"found"} ELSE {})
-----------------------------------------------------------------------------
(* The executor. *)

\* PoolShared::submit: a task whose key is queued or running becomes the pending one
\* of that key; any other enters the queue.
WithKey(t) == [k \in DOMAIN coalesce \cup {t} |-> IF k = t THEN <<>> ELSE coalesce[k]]
SubmitDropping(t) ==
    /\ coalesce' = (IF t \in DOMAIN coalesce THEN coalesce ELSE WithKey(t))
    /\ heap' = (IF t \in DOMAIN coalesce THEN heap ELSE Append(heap, t))
SubmitTwice(t) ==
    /\ coalesce' = (IF t \in DOMAIN coalesce THEN coalesce ELSE WithKey(t))
    /\ heap' = Append(heap, t)
Submit(t) ==
    /\ coalesce' = (IF t \in DOMAIN coalesce THEN [coalesce EXCEPT ![t] = <<t>>] ELSE WithKey(t))
    /\ heap' = (IF t \in DOMAIN coalesce THEN heap ELSE Append(heap, t))

\* trigger_compaction: nothing is submitted once the engine is shutting down.
TriggerCompaction == IF shut THEN UNCHANGED executor ELSE Submit(Compaction)

\* scheduler_loop, submit_periodic_tick: a due tick is dropped while the previous one
\* is queued or running.
Tick ==
    /\ ticking
    /\ SyncTick \notin DOMAIN coalesce
    /\ Submit(SyncTick)
    /\ UNCHANGED <<proc, writer, lock, merging, l0, excused>>
    /\ UNCHANGED <<mem, gates, bounds>>

\* QueuedTask::cmp: highest priority first, then submission order.
NextUp(i) == \A j \in DOMAIN heap :
                \/ High(heap[i]) /\ ~High(heap[j])
                \/ High(heap[i]) = High(heap[j]) /\ i <= j
\* enter_background: the tasks of an engine that is shutting down return at once.
MayEnter == ~shut
\* The follow-up of worker_loop: requeue the pending task of the key, or free the key.
FollowUp(q, k) ==
    /\ coalesce' = (IF coalesce[k] # <<>> THEN [coalesce EXCEPT ![k] = <<>>]
                    ELSE [j \in DOMAIN coalesce \ {k} |-> coalesce[j]])
    /\ heap' = q \o coalesce[k]

\* A sync tick does its one step between dequeue and return, any other task goes on.
Start == [flush |-> "claim", compact |-> "lock"]
Dequeue(p) ==
    /\ proc[p].pc = "idle"
    /\ \E i \in DOMAIN heap :
          /\ NextUp(i)
          /\ \/ /\ MayEnter /\ heap[i] # SyncTick
                /\ inside' = inside + 1
                /\ proc' = [proc EXCEPT ![p] = [pc |-> Start[heap[i].kind], task |-> heap[i],
                                               wal |-> heap[i].wal, took |-> 0]]
                /\ heap' = LeaveOut(heap, i)
                /\ UNCHANGED coalesce
             \/ /\ ~MayEnter \/ heap[i] = SyncTick
                /\ FollowUp(LeaveOut(heap, i), heap[i])
                /\ UNCHANGED <<inside, proc>>
    /\ UNCHANGED <<writer, lock, merging, l0, excused, slotShut, l0Shut, shut, ticking, quiescer>>
    /\ UNCHANGED <<mem, bounds>>

\* The task returns and its BackgroundGuard is dropped.
Leaked == inside
Left == inside - 1
Finish(p) ==
    /\ proc[p].pc = "leave"
    /\ inside' = Left
    /\ FollowUp(heap, proc[p].task)
    /\ proc' = [proc EXCEPT ![p] = Idle]
    /\ UNCHANGED <<writer, lock, merging, l0, excused, slotShut, l0Shut, shut, ticking, quiescer>>
    /\ UNCHANGED <<mem, bounds>>
-----------------------------------------------------------------------------
(* Flushing one sealed memtable: a worker's task, or flush_pending of a caller. *)

\* flush_immutable: claim a Pending slot, wait for one in flight (by not being
\* enabled), and help to retire a finished one.
Claimable(w) == slot[w] # "InFlight"
Claim(p) ==
    /\ proc[p].pc = "claim" /\ Claimable(proc[p].wal)
    /\ IF slot[proc[p].wal] = "Completed"
       THEN slot' = slot /\ proc' = [proc EXCEPT ![p].pc = "retire"]
       ELSE /\ slot' = [slot EXCEPT ![proc[p].wal] = "InFlight"]
            /\ proc' = [proc EXCEPT ![p].pc = "write"]
    /\ UNCHANGED <<writer, lock, merging, l0, excused, active, wal, imm, count>>
    /\ UNCHANGED <<executor, gates, bounds>>

\* How a flush ends: a worker logs an error and asks for a compaction in any case; a
\* caller goes on to the next memtable, or returns the error.
FlushOk(p) ==
    IF p = Caller
    THEN proc' = [proc EXCEPT ![p].pc = "drain"] /\ UNCHANGED executor
    ELSE proc' = [proc EXCEPT ![p].pc = "leave"] /\ TriggerCompaction
FlushErr(p) ==
    /\ faults + flushes < MaxExtras /\ faults' = faults + 1
    /\ excused' = excused \cup {"fault"}
    /\ IF p = Caller
       THEN proc' = [proc EXCEPT ![p] = Idle] /\ UNCHANGED executor
       ELSE proc' = [proc EXCEPT ![p].pc = "leave"] /\ TriggerCompaction
    /\ UNCHANGED flushes

\* write_immutable_sstable: the table joins level 0, or the slot is Pending again.
WriteTable(p) ==
    /\ proc[p].pc = "write"
    /\ \/ /\ slot' = [slot EXCEPT ![proc[p].wal] = "Completed"]
          /\ l0' = l0 + 1
          /\ proc' = [proc EXCEPT ![p].pc = "retire"]
          /\ UNCHANGED excused /\ UNCHANGED <<executor, bounds>>
       \/ /\ slot' = [slot EXCEPT ![proc[p].wal] = "Pending"]
          /\ l0' = l0
          /\ FlushErr(p)
    /\ UNCHANGED <<writer, lock, merging, active, wal, imm, count>> /\ UNCHANGED gates

\* retire_durable_prefix, one memtable per step: drop the oldest one when its table
\* is durable, free its place and wake a writer stalled on the flush gate.
SaturatingSub(n) == IF n = 0 THEN 0 ELSE n - 1
Retirable == imm # <<>> /\ slot[Head(imm)] = "Completed"
UnstalledSlot == IF writer = "slotwait" THEN "slot" ELSE writer
Retire(p) ==
    /\ proc[p].pc = "retire"
    /\ \/ /\ Retirable
          /\ imm' = Tail(imm)
          /\ count' = SaturatingSub(count)
          /\ writer' = UnstalledSlot
          /\ excused' = (IF count = 0 THEN excused \cup {"slot"} ELSE excused)
          /\ UNCHANGED proc /\ UNCHANGED <<executor, bounds>>
       \/ /\ Retirable
          /\ FlushErr(p)
          /\ UNCHANGED <<imm, count, writer>>
       \/ /\ ~Retirable
          /\ FlushOk(p)
          /\ UNCHANGED <<imm, count, writer, excused>> /\ UNCHANGED bounds
    /\ UNCHANGED <<lock, merging, l0, active, wal, slot>> /\ UNCHANGED gates
-----------------------------------------------------------------------------
(* Compaction of level 0. *)

\* compact_if_needed_locked under compaction_mutex, find_level_to_compact: level 0
\* is merged as a whole for as long as it has Threshold tables.
Picked(p) ==
    /\ merging' = (l0 >= Threshold)
    /\ proc' = [proc EXCEPT ![p] = IF l0 >= Threshold
                                   THEN [@ EXCEPT !.pc = "merge", !.took = l0]
                                   ELSE [@ EXCEPT !.pc = "leave", !.took = 0]]
LockCompaction(p) ==
    /\ proc[p].pc = "lock" /\ ~merging
    /\ Picked(p)
    /\ UNCHANGED <<writer, lock, l0, excused>> /\ UNCHANGED <<executor, mem, gates, bounds>>

\* compact_level up to the update of the level map, or an I/O error.
Merge(p) ==
    /\ proc[p].pc = "merge"
    /\ \/ /\ l0' = l0 - proc[p].took
          /\ proc' = [proc EXCEPT ![p] = [@ EXCEPT !.pc = "notify", !.took = 0]]
          /\ UNCHANGED <<merging, faults, excused>>
       \/ /\ faults + flushes < MaxExtras /\ faults' = faults + 1
          /\ excused' = excused \cup {"fault"}
          /\ proc' = [proc EXCEPT ![p] = [@ EXCEPT !.pc = "leave", !.took = 0]]
          /\ merging' = FALSE
          /\ UNCHANGED l0
    /\ UNCHANGED <<writer, lock, flushes>> /\ UNCHANGED <<executor, mem, gates>>

\* The end of compact_level: l0_gate.condvar.notify_all() without the gate's lock.
NotifyNobody == writer
NotifyL0 == IF writer = "l0wait" THEN "l0" ELSE writer
Notify(p) ==
    /\ proc[p].pc = "notify"
    /\ writer' = NotifyL0
    /\ excused' = (IF writer = "decided" THEN excused \cup {"wakeup"} ELSE excused)
    /\ Picked(p)
    /\ UNCHANGED <<lock, l0>> /\ UNCHANGED <<executor, mem, gates, bounds>>
-----------------------------------------------------------------------------
(* The write leader: commit_coalesced under write_mutex. *)

\* await_l0_limit under the gate's lock: go on or decide to wait; while it decides
\* the lock is held.  maybe_slowdown_writes only sleeps.  Then append and apply; the
\* write may have filled the memtable or the segment.
AdmitAtLimit == l0Shut \/ l0 <= Stop
Admits == l0Shut \/ l0 < Stop
Commit ==
    /\ \/ writer = "idle" /\ lock = "free"
       \/ writer = "l0"
    /\ Admits
    /\ active' = TRUE
    /\ \/ writer' = "slot" /\ wal < MaxWals /\ lock' = "writer"
       \/ writer' = "idle" /\ lock' = "free"
    /\ UNCHANGED <<proc, merging, l0, excused, wal, imm, slot, count>>
    /\ UNCHANGED <<executor, gates, bounds>>
DecideL0 ==
    /\ \/ writer = "idle" /\ lock = "free"
       \/ writer = "l0"
    /\ ~Admits
    /\ writer' = "decided" /\ lock' = "writer"
    /\ UNCHANGED <<proc, merging, l0, excused>> /\ UNCHANGED <<executor, mem, gates, bounds>>
ParkL0 ==
    /\ writer = "decided" /\ writer' = "l0wait"
    /\ UNCHANGED <<proc, lock, merging, l0, excused>> /\ UNCHANGED <<executor, mem, gates, bounds>>

\* await_flush_slot, under the gate's lock that retiring also takes; then seal_active
\* up to the push into the immutable queue ...
SlotFree == count < Cap \/ slotShut
Sealed ==
    /\ imm' = Append(imm, wal)
    /\ wal' = wal + 1
    /\ active' = FALSE
    /\ UNCHANGED slot
AwaitSlot ==
    /\ writer = "slot"
    /\ \/ SlotFree /\ writer' = "count" /\ Sealed /\ UNCHANGED count
       \/ ~SlotFree /\ writer' = "slotwait" /\ UNCHANGED mem
    /\ UNCHANGED <<proc, lock, merging, l0, excused>> /\ UNCHANGED <<executor, gates, bounds>>

\* ... and then, under the flush gate's own lock, its count; schedule_flush_imm.
Uncounted == count
Counted == count + 1
CountSeal ==
    /\ writer = "count" /\ writer' = "idle"
    /\ count' = Counted
    /\ lock' = "free"
    /\ IF shut THEN UNCHANGED executor ELSE Submit(Flush(wal - 1))
    /\ UNCHANGED <<proc, merging, l0, excused, active, wal, imm, slot>> /\ UNCHANGED <<gates, bounds>>
-----------------------------------------------------------------------------
(* A caller of flush_memtable. *)

At(pc) == [Idle EXCEPT !.pc = pc]

\* Seal under write_mutex, without waiting at a gate; nothing to seal when the
\* active memtable is empty.
BeginFlush ==
    /\ proc[Caller].pc = "idle"
    /\ faults + flushes < MaxExtras /\ flushes' = flushes + 1
    /\ lock = "free"
    /\ \/ active /\ wal < MaxWals /\ Sealed /\ lock' = "caller" /\ UNCHANGED count
                 /\ proc' = [proc EXCEPT ![Caller] = At("count")]
       \/ ~active /\ UNCHANGED lock /\ UNCHANGED mem
                  /\ proc' = [proc EXCEPT ![Caller] = At("drain")]
    /\ UNCHANGED <<writer, merging, l0, excused, faults>> /\ UNCHANGED <<executor, gates>>
CountFlush ==
    /\ proc[Caller].pc = "count" /\ proc' = [proc EXCEPT ![Caller] = At("drain")]
    /\ count' = Counted
    /\ lock' = "free"
    /\ UNCHANGED <<writer, merging, l0, excused, active, wal, imm, slot>>
    /\ UNCHANGED <<executor, gates, bounds>>

\* flush_pending: take the oldest memtable until there is none.
Drain ==
    /\ proc[Caller].pc = "drain"
    /\ IF imm = <<>>
       THEN proc' = [proc EXCEPT ![Caller] = Idle] /\ TriggerCompaction
       ELSE proc' = [proc EXCEPT ![Caller] = [At("claim") EXCEPT !.wal = Head(imm)]]
            /\ UNCHANGED executor
    /\ UNCHANGED <<writer, lock, merging, l0, excused>> /\ UNCHANGED <<mem, gates, bounds>>
-----------------------------------------------------------------------------
(* quiesce. *)

Quiescing(from, to) ==
    /\ quiescer = from /\ quiescer' = to
    /\ UNCHANGED <<proc, lock, merging, l0, excused, inside>> /\ UNCHANGED <<executor, mem, bounds>>

\* Cancel the ticks, open the flush gate, then the L0 gate, whose lock a writer holds
\* between its look and its wait, and wake the writer parked at either ...
Shutdown ==
    /\ Quiescing("idle", "bg")
    /\ writer # "decided"
    /\ ticking' = FALSE /\ slotShut' = TRUE /\ l0Shut' = TRUE
    /\ writer' = (IF writer = "slotwait" THEN UnstalledSlot ELSE NotifyL0)
    /\ UNCHANGED shut
\* ... then refuse new tasks and wait for those at work.
ShutBackground ==
    /\ Quiescing("bg", "join")
    /\ shut' = TRUE
    /\ UNCHANGED <<ticking, writer, slotShut, l0Shut>>
JoinNobody == TRUE
Joined == inside = 0
Join ==
    /\ Quiescing("join", "done")
    /\ Joined
    /\ UNCHANGED <<ticking, shut, writer, slotShut, l0Shut>>
-----------------------------------------------------------------------------
Flushing(p) == Claim(p) \/ WriteTable(p) \/ Retire(p)
Working(p) == Dequeue(p) \/ Finish(p) \/ LockCompaction(p) \/ Merge(p) \/ Notify(p)
Writing == DecideL0 \/ ParkL0 \/ AwaitSlot \/ CountSeal
Quiesce == ShutBackground \/ Join

Next == \/ \E p \in Workers : Working(p)
        \/ \E p \in Procs : Flushing(p)
        \/ Tick
        \/ Commit \/ Writing
        \/ BeginFlush \/ CountFlush \/ Drain
        \/ Shutdown \/ Quiesce

\* A runnable thread runs; nobody has to issue a write, a flush or a shutdown.
Fairness ==
    /\ \A p \in Workers : WF_vars(Working(p) \/ Flushing(p))
    /\ WF_vars(Flushing(Caller) \/ CountFlush \/ Drain)
    /\ WF_vars(writer # "idle" /\ (Commit \/ Writing))
    /\ WF_vars(Quiesce)

Spec == Init /\ [][Next]_vars /\ Fairness
-----------------------------------------------------------------------------
\* The variables keep their shapes, a queued task has its key in the map, and
\* `active` counts the workers inside a task.
TypeOK ==
    /\ \A i \in DOMAIN heap : heap[i] \in DOMAIN coalesce
    /\ \A k \in DOMAIN coalesce : Len(coalesce[k]) <= 1
    /\ inside = Cardinality({p \in Workers : proc[p].pc # "idle"})
    /\ lock \in {"free", "writer", Caller}
    /\ {shut, merging, active, slotShut, l0Shut, ticking} \subseteq BOOLEAN
    /\ wal \in 1 .. MaxWals /\ imm \in Seq(1 .. MaxWals) /\ count \in Nat /\ l0 \in Nat
    /\ slot \in [1 .. MaxWals -> {"Pending", "InFlight", "Completed"}]
    /\ faults + flushes \in 0 .. MaxExtras

\* "After this returns, no background task will touch engine state" (quiesce): once
\* shutdown has returned, no worker is or gets inside a task, queued before or not.
QuiescedSilent ==
    quiescer = "done" => \A p \in Workers : proc[p].pc = "idle"

\* "only one compaction per engine runs at a time" (executor): no two workers run
\* tasks of one key, and "the work runs exactly once even when a background task and
\* a synchronous flush target the same memtable" (flush_immutable); and the state is
\* well typed, `active` the number of workers inside a task.
OneAtATime ==
    /\ TypeOK
    /\ \A p, q \in Workers : proc[p].pc # "idle" /\ proc[q].pc # "idle" /\ p # q =>
          proc[p].task # proc[q].task
    /\ \A p, q \in Procs : proc[p].pc = "write" /\ proc[q].pc = "write" /\ p # q =>
          proc[p].wal # proc[q].wal

\* "a request arriving mid-run schedules exactly one trailing re-run"
\* (trigger_compaction): a level 0 at its threshold has a compaction queued, pending
\* or still to look at it, or a flush at work that will ask for one; except when it
\* was found so at open or after an I/O error, which are not retried.
Asked == \/ Compaction \in Range(heap)
         \/ Compaction \in DOMAIN coalesce /\ coalesce[Compaction] # <<>>
         \/ \E p \in Workers : /\ proc[p].task = Compaction
                               /\ proc[p].pc \in {"lock", "merge", "notify"}
         \/ \E p \in Procs : proc[p].pc \in {"claim", "write", "retire"}
         \/ proc[Caller].pc = "drain"
CompactionComes ==
    l0 >= Threshold /\ ~shut /\ excused \cap {"fault", "found"} = {} => Asked

\* "a woken writer never observes more immutables than the count claims"
\* (retire_durable_prefix): the count covers the queue, up to the memtable being
\* pushed, and so the queue is bounded by Cap and one memtable sealed without waiting.
CountCovers ==
    LET pushing == IF writer = "count" \/ proc[Caller].pc = "count" THEN 1 ELSE 0 IN
    /\ Len(imm) <= count + pushing
    /\ "fault" \notin excused /\ ~slotShut => Len(imm) <= Cap + 1

\* The L0 stall bounds level 0: a write let in just below the trigger adds its own
\* memtable to those already sealed, of which flush_memtable may have sealed one
\* without waiting (await_l0_limit, await_flush_slot).  A level 0 found larger at open
\* does not grow.
Unflushed == {w \in Range(imm) : slot[w] # "Completed"}
ToLevel0 == l0 + Cardinality(Unflushed)
L0Bounded ==
    "fault" \notin excused /\ ~l0Shut /\ ~slotShut =>
        ToLevel0 <= Stop + Cap + 1 \/ \E f \in Found : ToLevel0 <= f

\* The two stalls together bound what piles up behind the writers.
BacklogBounded == CountCovers /\ L0Bounded

\* Shutdown returns: every task that had begun finishes, and no stalled writer or
\* queued task keeps it waiting (quiesce).
ShutdownReturns == quiescer # "idle" ~> quiescer = "done"

\* Every write returns: stalled at the L0 limit or for a flush slot, its leader goes
\* on once background work has caught up or the engine shuts down (await_l0_limit,
\* await_flush_slot).  Excused are the cases the code does not handle: a notification
\* sent between the leader's look and its wait, a level 0 already at the limit at
\* open, a memtable retired before it was counted, a failed flush or merge.
EveryWriteReturns ==
    writer # "idle" ~> (writer = "idle" \/ excused \cap {"wakeup", "full", "slot", "fault"} # {})

\* "The writer should now unblock and finish" once a compaction has emptied level 0
\* (test_l0_stop_writes_blocks_writer_until_compaction).
StallEnds == writer = "l0wait" /\ l0 < Stop ~> writer # "l0wait"

\* "`immutable_count` mirrors the length of [`MemSet::immutable`]" (FlushGate).
CountMirrors ==
    writer # "count" /\ proc[Caller].pc # "count" => count = Len(imm)
=============================================================================
