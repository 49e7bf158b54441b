----------------------------- MODULE WriteQueue -----------------------------
(***************************************************************************)
(* execute_write: concurrent writers enqueue a task; the writer at the     *)
(* front of the queue becomes the leader, commits everything queued as one *)
(* WAL append, publishes the one result to all of them and wakes the next  *)
(* leader.  The others spin, then park on the condition variable of their  *)
(* own task.  Every action between two of the code's queue-lock sections   *)
(* is one step; a wakeup sent to a writer that is not parked is lost.      *)
(***************************************************************************)
EXTENDS Integers, Sequences, FiniteSets, SequencesExt, FiniteSetsExt

CONSTANTS Writers,   \* the threads calling put, delete or write_batch
          MaxOps     \* bound on the writes each of them issues

ASSUME OpsAssumption == MaxOps \in Nat

VARIABLES pc,        \* per writer: "idle", "spin", "parked", "woken", "commit", "publish"
          queue,     \* write_queue.tasks, one task per writer
          writing,   \* write_queue.writing
          batch,     \* the leader's tasks_to_commit
          done,      \* the writers whose task is done
          result,    \* per writer: the result of its last finished task
          outcome,   \* the leader's write_result
          ops,       \* per writer: writes issued so far
          arrivals,  \* history: the writers in the order they enqueued
          handled    \* history: [w, res] of the tasks committed, in commit order

vars == <<pc, queue, writing, batch, done, result, outcome, ops, arrivals, handled>>

Results == {"ok", "err"}

Init ==
    /\ pc = [w \in Writers |-> "idle"]
    /\ queue = <<>>
    /\ writing = FALSE
    /\ batch = <<>>
    /\ done = {}
    /\ result = [w \in Writers |-> "ok"]
    /\ outcome = "ok"
    /\ ops = [w \in Writers |-> 0]
    /\ arrivals = <<>>
    /\ handled = <<>>

\* The leader path: claim `writing` and take every queued task.
Lead(w, q) ==
    /\ writing' = TRUE
    /\ batch' = q
    /\ queue' = <<>>
    /\ pc' = [pc EXCEPT ![w] = "commit"]

\* WriteTask::new starts with done = false; push_back puts it last.
FreshTask(w) == done \ {w}
PushedFront(w) == <<w>> \o queue
Pushed(w) == Append(queue, w)

\* Push a fresh task; go straight to the leader path when nothing is ahead,
\* otherwise drop the lock and spin.
Enqueue(w) ==
    /\ pc[w] = "idle"
    /\ ops[w] < MaxOps
    /\ ops' = [ops EXCEPT ![w] = @ + 1]
    /\ arrivals' = Append(arrivals, w)
    /\ done' = FreshTask(w)
    /\ IF writing \/ queue # <<>>
       THEN /\ queue' = Pushed(w)
            /\ pc' = [pc EXCEPT ![w] = "spin"]
            /\ UNCHANGED <<writing, batch>>
       ELSE Lead(w, <<w>>)
    /\ UNCHANGED <<result, outcome, handled>>

\* Back under the queue lock, after the spin or a wakeup: the task is done ...
Return(w) ==
    /\ pc[w] \in {"spin", "woken"}
    /\ w \in done
    /\ pc' = [pc EXCEPT ![w] = "idle"]
    /\ UNCHANGED <<queue, writing, batch, done, result, outcome, ops, arrivals, handled>>

\* ... or it is this writer's turn to lead ...
AtFront(w) == queue # <<>> /\ Head(queue) = w
MyTurn(w) == queue # <<>> /\ Head(queue) = w /\ ~writing
TakeOver(w) ==
    /\ pc[w] \in {"spin", "woken"}
    /\ w \notin done /\ MyTurn(w)
    /\ Lead(w, queue)
    /\ UNCHANGED <<done, result, outcome, ops, arrivals, handled>>

\* ... or it parks.
Park(w) ==
    /\ pc[w] \in {"spin", "woken"}
    /\ w \notin done /\ ~MyTurn(w)
    /\ pc' = [pc EXCEPT ![w] = "parked"]
    /\ UNCHANGED <<queue, writing, batch, done, result, outcome, ops, arrivals, handled>>

\* commit_coalesced, outside the queue lock: one result for the whole batch.
Commit(w) ==
    /\ pc[w] = "commit"
    /\ outcome' \in Results
    /\ handled' = handled \o [i \in 1 .. Len(batch) |-> [w |-> batch[i], res |-> outcome']]
    /\ pc' = [pc EXCEPT ![w] = "publish"]
    /\ UNCHANGED <<queue, writing, batch, done, result, ops, arrivals>>

\* The writers notified when a batch is published: its members and the writer now
\* at the front of the queue.
NotifyBatch(b, q) == ToSet(b)
Notified(b, q) == ToSet(b) \cup (IF q = <<>> THEN {} ELSE {Head(q)})

\* Every task of the batch gets a copy of the one result.
AllSucceed(b) == [v \in Writers |-> IF v \in ToSet(b) THEN "ok" ELSE result[v]]
Answered(b) == [v \in Writers |-> IF v \in ToSet(b) THEN outcome ELSE result[v]]

\* Under the queue lock: store the results, set `done`, notify, clear `writing`;
\* the leader itself returns.
Publish(w) ==
    /\ pc[w] = "publish"
    /\ result' = Answered(batch)
    /\ done' = done \cup ToSet(batch)
    /\ pc' = [v \in Writers |->
                 IF v = w THEN "idle"
                 ELSE IF v \in Notified(batch, queue) /\ pc[v] = "parked" THEN "woken"
                 ELSE pc[v]]
    /\ writing' = FALSE
    /\ batch' = <<>>
    /\ UNCHANGED <<queue, outcome, ops, arrivals, handled>>

Wait(w) == Return(w) \/ TakeOver(w) \/ Park(w)

Next == \E w \in Writers : Enqueue(w) \/ Wait(w) \/ Commit(w) \/ Publish(w)

\* A runnable thread runs; nobody has to issue another write.
Fairness == \A w \in Writers : WF_vars(Wait(w)) /\ WF_vars(Commit(w)) /\ WF_vars(Publish(w))

Spec == Init /\ [][Next]_vars /\ Fairness
-----------------------------------------------------------------------------
\* The variables keep their shapes, and a queued task is an unfinished one of a
\* waiting writer.
TypeOK ==
    /\ pc \in [Writers -> {"idle", "spin", "parked", "woken", "commit", "publish"}]
    /\ queue \in Seq(Writers)
    /\ \A w \in ToSet(queue) : w \notin done /\ pc[w] \in {"spin", "parked", "woken"}
    /\ writing \in BOOLEAN
    /\ batch \in Seq(Writers)
    /\ done \subseteq Writers
    /\ result \in [Writers -> Results]
    /\ outcome \in Results
    /\ ops \in [Writers -> 0 .. MaxOps]
    /\ arrivals \in Seq(Writers)
    /\ handled \in Seq([w : Writers, res : Results])

\* "closes the lost-wakeup window" (execute_write): a parked writer always has
\* somebody who will wake it, a leader at work or a runnable writer at the front.
NoLostWakeup ==
    \A w \in Writers : pc[w] = "parked" =>
        \/ \E v \in Writers : pc[v] \in {"commit", "publish"}
        \/ queue # <<>> /\ pc[Head(queue)] \in {"spin", "woken"}

\* Batches commit one at a time: `writing` is set exactly while one leader works.
OneLeader ==
    /\ \A v, w \in Writers :
          pc[v] \in {"commit", "publish"} /\ pc[w] \in {"commit", "publish"} => v = w
    /\ writing <=> \E w \in Writers : pc[w] \in {"commit", "publish"}

\* The handover is sound: tasks are in one place, one leader at a time, and nobody
\* parks without a writer that will wake them.
HandoverSound == TypeOK /\ OneLeader /\ NoLostWakeup

\* Every write is committed at most once, in arrival order, and until then is in
\* exactly one of the leader's batch and the queue.
InFlight == IF \E w \in Writers : pc[w] = "publish" THEN <<>> ELSE batch
FifoOnce == arrivals = [i \in 1 .. Len(handled) |-> handled[i].w] \o InFlight \o queue

\* The result a writer returns with is the one of the commit its own, latest
\* write was part of.
LastOf(w) == handled[Max({i \in DOMAIN handled : handled[i].w = w})]
OwnResult ==
    [][\A w \in Writers : pc[w] # "idle" /\ pc'[w] = "idle" =>
           /\ Cardinality({i \in DOMAIN handled : handled[i].w = w}) = ops[w]
           /\ result'[w] = LastOf(w).res]_vars

\* Every write is answered.
EveryWriteReturns == \A w \in Writers : pc[w] # "idle" ~> pc[w] = "idle"
=============================================================================
