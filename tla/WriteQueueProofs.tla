-------------------------- MODULE WriteQueueProofs --------------------------
(***************************************************************************)
(* The handover of execute_write loses no wakeup and its queue commits     *)
(* every write once and in order, for any number of writers and of writes. *)
(***************************************************************************)
EXTENDS WriteQueue, SequenceTheorems, FiniteSetTheorems, TLAPS

Waiting(w) == pc[w] \in {"spin", "parked", "woken"}
Leading(w) == pc[w] \in {"commit", "publish"}

\* Where an unfinished task is: the batch belongs to the leader, a task is in the
\* queue or in the batch but not in both, and between two batches the front of
\* the queue belongs to a writer that is running.
TasksPlaced ==
    /\ ~writing => batch = <<>>
    /\ \A w \in ToSet(batch) : w \notin done /\ pc[w] # "idle"
    /\ \A w \in Writers : Leading(w) => w \in ToSet(batch)
    /\ ToSet(queue) \cap ToSet(batch) = {}
    /\ ~writing /\ queue # <<>> => pc[Head(queue)] \in {"spin", "woken"}
    /\ \A w \in Writers : Waiting(w) /\ w \notin done => w \in ToSet(queue) \cup ToSet(batch)
    /\ \A w \in Writers : pc[w] = "parked" => w \notin done

IInv == HandoverSound /\ TasksPlaced

\* What the operators on sequences return.
LEMMA ToSetAppend ==
    ASSUME NEW S, NEW q \in Seq(S), NEW e \in S
    PROVE  ToSet(Append(q, e)) = ToSet(q) \cup {e}
<1>1. ToSet(Append(q, e)) \subseteq ToSet(q) \cup {e}
  BY DEF ToSet
<1>2. ToSet(q) \subseteq ToSet(Append(q, e))
  BY DEF ToSet
<1>3. Append(q, e)[Len(q) + 1] = e /\ Len(q) + 1 \in DOMAIN Append(q, e)
  OBVIOUS
<1>4. e \in ToSet(Append(q, e))
  BY <1>3 DEF ToSet
<1> QED
  BY <1>1, <1>2, <1>4

LEMMA ToSetFacts ==
    ASSUME NEW S, NEW q \in Seq(S), NEW e \in S
    PROVE  /\ ToSet(q) \subseteq S
           /\ ToSet(<<e>>) = {e}
           /\ q # <<>> => Head(Append(q, e)) = Head(q)
           /\ Append(q, e) \in Seq(S) /\ Append(q, e) # <<>> /\ <<e>> \in Seq(S)
<1>1. ToSet(q) \subseteq S /\ ToSet(<<e>>) = {e}
  BY DEF ToSet
<1>2. q # <<>> => Head(Append(q, e)) = Head(q)
  OBVIOUS
<1>3. Append(q, e) \in Seq(S) /\ Append(q, e) # <<>>
  BY AppendProperties
<1>4. <<e>> \in Seq(S)
  OBVIOUS
<1> QED
  BY <1>1, <1>2, <1>3, <1>4, Zenon

LEMMA ToSetEmpty == ToSet(<<>>) = {}
BY DEF ToSet

LEMMA HeadFacts ==
    ASSUME NEW S, NEW q \in Seq(S), q # <<>>
    PROVE  Head(q) \in ToSet(q) /\ Head(q) \in S
BY DEF ToSet

LEMMA InitIInv == Init => IInv
<1> SUFFICES ASSUME Init PROVE IInv
  OBVIOUS
<1> USE DEF Init
<1>1. TypeOK
  <2>1. /\ queue \in Seq(Writers) /\ batch \in Seq(Writers) /\ arrivals \in Seq(Writers)
        /\ handled \in Seq([w : Writers, res : Results])
    BY EmptySeq
  <2>2. \A w \in ToSet(queue) : w \notin done /\ pc[w] \in {"spin", "parked", "woken"}
    BY ToSetEmpty
  <2>3. ops \in [Writers -> 0 .. MaxOps]
    BY OpsAssumption
  <2> QED
    BY <2>1, <2>2, <2>3, Zenon DEF TypeOK, Results
<1>2. OneLeader /\ NoLostWakeup
  BY DEF OneLeader, NoLostWakeup
<1>3. TasksPlaced
  BY ToSetEmpty DEF TasksPlaced, Leading, Waiting
<1> QED
  BY <1>1, <1>2, <1>3 DEF IInv, HandoverSound

\* A writer that only changes its own pc disturbs nothing but what its pc says.
LEMMA EnqueueIInv == ASSUME IInv, NEW w \in Writers, Enqueue(w) PROVE IInv'
<1> USE DEF IInv, HandoverSound, Enqueue, FreshTask, Pushed, Lead
<1>1. /\ w \notin ToSet(queue) /\ w \notin ToSet(batch)
      /\ ToSet(queue) \subseteq Writers /\ ToSet(batch) \subseteq Writers
  BY ToSetFacts, Zenon DEF TypeOK, TasksPlaced
<1>2. arrivals' \in Seq(Writers) /\ ops' \in [Writers -> 0 .. MaxOps] /\ done' \subseteq Writers
  BY ToSetFacts, OpsAssumption DEF TypeOK
<1>3. CASE writing \/ queue # <<>>
  <2>0. queue \in Seq(Writers) /\ queue' = Append(queue, w) /\ batch' = batch
    BY <1>3 DEF TypeOK
  <2>1. /\ queue' \in Seq(Writers) /\ queue' # <<>> /\ ToSet(queue') = ToSet(queue) \cup {w}
        /\ queue # <<>> => Head(queue') = Head(queue) /\ Head(queue) \in ToSet(queue)
    <3> HIDE DEF Enqueue, Pushed
    <3>1. Append(queue, w) \in Seq(Writers) /\ Append(queue, w) # <<>>
      BY <2>0, AppendProperties
    <3>2. ToSet(Append(queue, w)) = ToSet(queue) \cup {w}
      BY <2>0, ToSetAppend
    <3>3. queue # <<>> => Head(queue) \in ToSet(queue)
      BY <2>0, HeadFacts, Zenon
    <3>4. queue # <<>> => Head(Append(queue, w)) = Head(queue)
      BY <2>0, ToSetFacts, Zenon
    <3> QED
      BY <2>0, <3>1, <3>2, <3>3, <3>4, Zenon
  <2>2. TypeOK'
    <3>1. \A v \in ToSet(queue') : v \notin done' /\ pc'[v] \in {"spin", "parked", "woken"}
      BY <1>1, <1>3, <2>1 DEF TypeOK
    <3> QED
      BY <1>2, <1>3, <2>0, <2>1, <3>1 DEF TypeOK
  <2>3. OneLeader'
    BY <1>3, Zenon DEF OneLeader, TypeOK
  <2>4. NoLostWakeup'
    BY <1>1, <1>3, <2>1, Zenon DEF NoLostWakeup, TypeOK
  <2>5. TasksPlaced'
    BY <1>1, <1>3, <2>1, Zenon DEF TasksPlaced, TypeOK, Leading, Waiting
  <2> QED
    BY <2>2, <2>3, <2>4, <2>5
<1>4. CASE ~(writing \/ queue # <<>>)
  <2>0. /\ queue = <<>> /\ queue' = <<>> /\ batch = <<>> /\ batch' = <<w>>
        /\ queue \in Seq(Writers)
    BY <1>4 DEF TypeOK, TasksPlaced
  <2>1. /\ batch' \in Seq(Writers) /\ ToSet(batch') = {w} /\ queue' \in Seq(Writers)
        /\ queue' = <<>> /\ ToSet(queue') = {} /\ ToSet(batch) = {} /\ ToSet(queue) = {}
    BY <2>0, ToSetFacts, ToSetEmpty, Zenon
  <2>2. TypeOK'
    BY <1>1, <1>2, <1>4, <2>1, Zenon DEF TypeOK, Results
  <2>3. OneLeader'
    BY <1>4 DEF OneLeader, TypeOK
  <2>4. NoLostWakeup'
    BY <1>4 DEF NoLostWakeup, TypeOK
  <2>5. TasksPlaced'
    BY <1>1, <1>4, <2>1 DEF TasksPlaced, TypeOK, Leading, Waiting
  <2> QED
    BY <2>2, <2>3, <2>4, <2>5
<1> QED
  BY <1>3, <1>4

LEMMA ReturnIInv == ASSUME IInv, NEW w \in Writers, Return(w) PROVE IInv'
<1> USE DEF IInv, HandoverSound, Return
<1>0. queue # <<>> => Head(queue) \in ToSet(queue) /\ Head(queue) \in Writers
  BY HeadFacts DEF TypeOK
<1>1. /\ w \notin ToSet(queue) /\ w \notin ToSet(batch)
      /\ queue # <<>> => Head(queue) # w /\ Head(queue) \in Writers
  BY <1>0 DEF TypeOK, TasksPlaced
<1>2. TypeOK'
  BY <1>1 DEF TypeOK
<1>3. OneLeader'
  BY DEF OneLeader, TypeOK
<1>4. NoLostWakeup'
  BY <1>1, Zenon DEF NoLostWakeup, TypeOK
<1>5. TasksPlaced'
  BY <1>1 DEF TasksPlaced, TypeOK, Leading, Waiting
<1> QED
  BY <1>2, <1>3, <1>4, <1>5

LEMMA TakeOverIInv == ASSUME IInv, NEW w \in Writers, TakeOver(w) PROVE IInv'
<1> USE DEF IInv, HandoverSound, TakeOver, MyTurn, Lead
<1>1. /\ w \in ToSet(queue) /\ ToSet(queue) \subseteq Writers /\ ToSet(batch) = {}
      /\ ToSet(queue') = {} /\ queue' \in Seq(Writers)
  BY ToSetFacts, HeadFacts, ToSetEmpty, EmptySeq, Zenon DEF TypeOK, TasksPlaced
<1>2. TypeOK'
  BY <1>1 DEF TypeOK
<1>3. OneLeader'
  BY DEF OneLeader, TypeOK
<1>4. NoLostWakeup'
  BY <1>1 DEF NoLostWakeup, TypeOK
<1>5. TasksPlaced'
  BY <1>1, Zenon DEF TasksPlaced, TypeOK, Leading, Waiting
<1> QED
  BY <1>2, <1>3, <1>4, <1>5

LEMMA ParkIInv == ASSUME IInv, NEW w \in Writers, Park(w) PROVE IInv'
<1> USE DEF IInv, HandoverSound, Park, MyTurn
<1>1. ~writing => queue # <<>> /\ Head(queue) # w
  BY ToSetEmpty, Zenon DEF TasksPlaced, Waiting, TypeOK
<1>2. TypeOK'
  BY DEF TypeOK
<1>3. OneLeader'
  BY DEF OneLeader, TypeOK
<1>4. NoLostWakeup'
  <2>1. CASE writing
    BY <2>1 DEF OneLeader, NoLostWakeup, TypeOK
  <2>2. CASE ~writing
    BY <1>1, <2>2 DEF TasksPlaced, NoLostWakeup, TypeOK
  <2> QED
    BY <2>1, <2>2
<1>5. TasksPlaced'
  BY <1>1 DEF TasksPlaced, TypeOK, Leading, Waiting
<1> QED
  BY <1>2, <1>3, <1>4, <1>5

LEMMA CommitIInv == ASSUME IInv, NEW w \in Writers, Commit(w) PROVE IInv'
<1> USE DEF IInv, HandoverSound, Commit
<1>1. handled' \in Seq([w : Writers, res : Results])
  <2> DEFINE new == [i \in 1 .. Len(batch) |-> [w |-> batch[i], res |-> outcome']]
  <2>1. new \in Seq([w : Writers, res : Results])
    BY DEF TypeOK
  <2>2. handled \in Seq([w : Writers, res : Results]) /\ handled' = handled \o new
    BY DEF TypeOK
  <2> QED
    BY <2>1, <2>2, ConcatProperties
<1>2. queue # <<>> => Head(queue) # w /\ Head(queue) \in Writers
  BY HeadFacts, Zenon DEF TypeOK
<1>3. TypeOK'
  BY <1>1 DEF TypeOK
<1>4. OneLeader'
  BY DEF OneLeader, TypeOK
<1>5. NoLostWakeup'
  BY DEF NoLostWakeup, TypeOK
<1>6. TasksPlaced'
  BY <1>2 DEF TasksPlaced, OneLeader, TypeOK, Leading, Waiting
<1> QED
  BY <1>3, <1>4, <1>5, <1>6

LEMMA PublishIInv == ASSUME IInv, NEW w \in Writers, Publish(w) PROVE IInv'
<1> USE DEF IInv, HandoverSound, Publish
<1>1. /\ ToSet(queue) \subseteq Writers /\ ToSet(batch) \subseteq Writers
      /\ ToSet(batch') = {} /\ batch' \in Seq(Writers) /\ w \in ToSet(batch)
      /\ w \notin ToSet(queue)
  BY ToSetFacts, ToSetEmpty, EmptySeq, Zenon DEF TypeOK, TasksPlaced, Leading
<1>2. queue # <<>> => /\ Head(queue) \in ToSet(queue) /\ Head(queue) \in Writers
                      /\ Head(queue) # w /\ pc'[Head(queue)] \in {"spin", "woken"}
  <2>1. queue # <<>> => Head(queue) \in ToSet(queue) /\ Head(queue) \in Writers
    BY HeadFacts DEF TypeOK
  <2> QED
    BY <1>1, <2>1 DEF TypeOK, Notified
<1>3. \A v \in Writers : v # w => pc[v] \notin {"commit", "publish"}
  BY DEF OneLeader
<1>4. /\ pc' \in [Writers -> {"idle", "spin", "parked", "woken", "commit", "publish"}]
      /\ pc'[w] = "idle"
      /\ \A v \in Writers : /\ pc'[v] \notin {"commit", "publish"}
                            /\ pc'[v] = "parked" => /\ pc[v] = "parked"
                                                    /\ v \notin ToSet(batch)
                            /\ Waiting(v) => Waiting(v)'
                            /\ Waiting(v)' => Waiting(v)
                            /\ v # w /\ pc[v] # "idle" => pc'[v] # "idle"
  BY <1>3 DEF TypeOK, Notified, Waiting
<1>5. TypeOK'
  <2>1. result' \in [Writers -> Results] /\ done' \subseteq Writers
    BY <1>1 DEF TypeOK, Answered
  <2>2. \A v \in ToSet(queue') : v \notin done' /\ pc'[v] \in {"spin", "parked", "woken"}
    BY <1>1, <1>4 DEF TypeOK, TasksPlaced, Waiting
  <2> QED
    BY <1>1, <1>4, <2>1, <2>2, Zenon DEF TypeOK
<1>6. OneLeader'
  BY <1>4 DEF OneLeader
<1>7. ASSUME NEW v \in Writers, pc'[v] = "parked" PROVE v \in ToSet(queue) /\ queue # <<>>
  BY <1>4, <1>7, ToSetEmpty DEF TasksPlaced, Waiting
<1>8. NoLostWakeup'
  BY <1>2, <1>7 DEF NoLostWakeup
<1>9. TasksPlaced'
  <2>1. \A v \in Writers : Waiting(v)' /\ v \notin done' => v \in ToSet(queue')
    BY <1>4 DEF TasksPlaced
  <2>2. \A v \in Writers : pc'[v] = "parked" => v \notin done'
    BY <1>4 DEF TasksPlaced
  <2> QED
    BY <1>1, <1>2, <1>4, <2>1, <2>2 DEF TasksPlaced, Leading
<1> QED
  BY <1>5, <1>6, <1>8, <1>9

\* IInv is inductive: it survives every step of execute_write.
LEMMA StepIInv == IInv /\ [Next]_vars => IInv'
<1> SUFFICES ASSUME IInv, [Next]_vars PROVE IInv'
  OBVIOUS
<1>1. CASE UNCHANGED vars
  BY <1>1 DEF vars, IInv, HandoverSound, TypeOK, OneLeader, NoLostWakeup, TasksPlaced,
              Waiting, Leading
<1>2. ASSUME NEW w \in Writers, Enqueue(w) \/ Wait(w) \/ Commit(w) \/ Publish(w) PROVE IInv'
  BY <1>2, EnqueueIInv, ReturnIInv, TakeOverIInv, ParkIInv, CommitIInv, PublishIInv DEF Wait
<1> QED
  BY <1>1, <1>2 DEF Next

LEMMA AlwaysIInv == Spec => []IInv
BY InitIInv, StepIInv, PTL DEF Spec

\* execute_write "closes the lost-wakeup window": for any number of writers, one
\* leader works at a time and a parked writer always has somebody to wake it.
THEOREM HandoverAlwaysSound == Spec => []HandoverSound
<1>1. IInv => HandoverSound
  BY DEF IInv
<1> QED
  BY AlwaysIInv, <1>1, PTL

-----------------------------------------------------------------------------
\* Concatenation, for the order of the writes.
LEMMA AppendLast ==
    ASSUME NEW a \in Seq(Writers), NEW b \in Seq(Writers), NEW c \in Seq(Writers),
           NEW e \in Writers
    PROVE  Append(a \o b \o c, e) = a \o b \o Append(c, e)
<1>1. a \o b \in Seq(Writers) /\ (a \o b) \o c \in Seq(Writers) /\ <<e>> \in Seq(Writers)
  BY ConcatProperties
<1>2. Append((a \o b) \o c, e) = ((a \o b) \o c) \o <<e>>
  BY <1>1, AppendIsConcat
<1>3. ((a \o b) \o c) \o <<e>> = (a \o b) \o (c \o <<e>>)
  BY <1>1, ConcatAssociative
<1>4. Append(c, e) = c \o <<e>>
  BY AppendIsConcat
<1> QED
  BY <1>2, <1>3, <1>4, Zenon

LEMMA ConcatFacts ==
    ASSUME NEW S, NEW a \in Seq(S), NEW c \in Seq(S), NEW e \in S
    PROVE  /\ Append(a \o <<>> \o <<>>, e) = a \o <<e>> \o <<>>
           /\ a \o <<>> \o c = a \o c \o <<>>
           /\ (a \o c) \o <<>> = a \o c
<1>1. a \o <<>> = a /\ a \o c \in Seq(S) /\ (a \o c) \o <<>> = a \o c /\ <<e>> \in Seq(S)
  BY ConcatProperties, ConcatEmptySeq
<1>2. Append(a, e) = a \o <<e>> /\ (a \o <<e>>) \o <<>> = a \o <<e>>
  BY <1>1, AppendIsConcat, ConcatEmptySeq, ConcatProperties
<1> QED
  BY <1>1, <1>2, Zenon

\* The writers whose tasks were committed, in commit order.
Committed == [i \in 1 .. Len(handled) |-> handled[i].w]

LEMMA FifoTypes == IInv => Committed \in Seq(Writers) /\ InFlight \in Seq(Writers)
<1> SUFFICES ASSUME IInv PROVE Committed \in Seq(Writers) /\ InFlight \in Seq(Writers)
  OBVIOUS
<1>1. handled \in Seq([w : Writers, res : Results]) /\ batch \in Seq(Writers)
  BY DEF IInv, HandoverSound, TypeOK
<1>2. Len(handled) \in Nat /\ \A i \in 1 .. Len(handled) : handled[i].w \in Writers
  <2>1. \A i \in 1 .. Len(handled) : handled[i] \in [w : Writers, res : Results]
    BY <1>1, ElementOfSeq, Zenon
  <2>2. Len(handled) \in Nat
    BY <1>1, LenProperties
  <2> QED
    BY <2>1, <2>2
<1>3. Committed \in Seq(Writers)
  BY <1>2 DEF Committed
<1> QED
  BY <1>1, <1>3, EmptySeq DEF InFlight

LEMMA FifoStep == IInv /\ FifoOnce /\ [Next]_vars => FifoOnce'
<1> SUFFICES ASSUME IInv, FifoOnce, [Next]_vars PROVE FifoOnce'
  OBVIOUS
<1>1. /\ Committed \in Seq(Writers) /\ InFlight \in Seq(Writers)
      /\ queue \in Seq(Writers) /\ batch \in Seq(Writers)
      /\ arrivals = Committed \o InFlight \o queue
  BY FifoTypes, Zenon DEF IInv, HandoverSound, TypeOK, FifoOnce, Committed
<1>2. SUFFICES arrivals' = Committed' \o InFlight' \o queue'
  BY DEF FifoOnce, Committed
<1>3. CASE UNCHANGED vars
  BY <1>1, <1>3, Zenon DEF vars, Committed, InFlight
<1>4. ASSUME NEW w \in Writers, Enqueue(w) PROVE arrivals' = Committed' \o InFlight' \o queue'
  <2>1. Committed' = Committed /\ arrivals' = Append(arrivals, w)
    BY <1>4 DEF Enqueue, Committed
  <2>2. CASE writing \/ queue # <<>>
    <3>1. InFlight' = InFlight /\ queue' = Append(queue, w)
      BY <1>4, <2>2 DEF Enqueue, Pushed, InFlight, IInv, HandoverSound, TypeOK
    <3>2. Append(Committed \o InFlight \o queue, w) = Committed \o InFlight \o Append(queue, w)
      <4>1. /\ Committed \in Seq(Writers) /\ InFlight \in Seq(Writers)
            /\ queue \in Seq(Writers) /\ w \in Writers
        BY <1>1, <1>4
      <4>2. \A a, b, c \in Seq(Writers) : \A e \in Writers :
               Append(a \o b \o c, e) = a \o b \o Append(c, e)
        BY AppendLast, Zenon
      <4> QED
        BY <4>1, <4>2, ZenonT(30)
    <3> QED
      BY <1>1, <2>1, <3>1, <3>2
  <2>3. CASE ~(writing \/ queue # <<>>)
    <3>1. InFlight = <<>> /\ queue = <<>> /\ InFlight' = <<w>> /\ queue' = <<>>
      BY <1>4, <2>3 DEF Enqueue, Lead, InFlight, IInv, HandoverSound, TypeOK, OneLeader,
                        TasksPlaced
    <3> QED
      BY <1>1, <2>1, <3>1, ConcatFacts
  <2> QED
    BY <2>2, <2>3
<1>5. ASSUME NEW w \in Writers, TakeOver(w) PROVE arrivals' = Committed' \o InFlight' \o queue'
  <2>1. Committed' = Committed /\ arrivals' = arrivals
    BY <1>5 DEF TakeOver, Committed
  <2>2. InFlight = <<>> /\ InFlight' = queue /\ queue' = <<>>
    BY <1>5 DEF TakeOver, MyTurn, Lead, InFlight, IInv, HandoverSound, TypeOK, OneLeader,
                TasksPlaced
  <2> QED
    BY <1>1, <2>1, <2>2, ConcatFacts
<1>6. ASSUME NEW w \in Writers, Return(w) \/ Park(w)
      PROVE  arrivals' = Committed' \o InFlight' \o queue'
  <2>1. Committed' = Committed /\ arrivals' = arrivals /\ queue' = queue
    BY <1>6 DEF Return, Park, Committed
  <2>2. InFlight' = InFlight
    BY <1>6 DEF Return, Park, InFlight, IInv, HandoverSound, TypeOK
  <2> QED
    BY <1>1, <2>1, <2>2
<1>7. ASSUME NEW w \in Writers, Commit(w) PROVE arrivals' = Committed' \o InFlight' \o queue'
  <2>1. InFlight = batch /\ InFlight' = <<>> /\ queue' = queue /\ arrivals' = arrivals
    BY <1>7 DEF Commit, InFlight, IInv, HandoverSound, TypeOK, OneLeader
  <2>2. Committed' = Committed \o batch
    <3> DEFINE new == [i \in 1 .. Len(batch) |-> [w |-> batch[i], res |-> outcome']]
               all == handled \o new
    <3>1. /\ handled \in Seq([w : Writers, res : Results]) /\ handled' = all
          /\ new \in Seq([w : Writers, res : Results]) /\ Len(new) = Len(batch)
      BY <1>1, <1>7 DEF Commit, IInv, HandoverSound, TypeOK
    <3>2. /\ all \in Seq([w : Writers, res : Results]) /\ Len(all) = Len(handled) + Len(batch)
          /\ \A i \in 1 .. Len(all) : all[i].w = IF i <= Len(handled) THEN handled[i].w
                                                 ELSE batch[i - Len(handled)]
      BY <1>1, <3>1
    <3>3. Committed' = [i \in 1 .. Len(all) |-> all[i].w]
      BY <3>1 DEF Committed
    <3> HIDE DEF all
    <3>4. /\ Committed \o batch \in Seq(Writers) /\ Len(Committed) = Len(handled)
          /\ Len(Committed \o batch) = Len(all)
          /\ Len(handled) \in Nat /\ Len(batch) \in Nat
      BY <1>1, <3>1, <3>2 DEF Committed
    <3>5. \A i \in 1 .. Len(all) : (Committed \o batch)[i] = all[i].w
      <4> TAKE i \in 1 .. Len(all)
      <4>1. (Committed \o batch)[i] = IF i <= Len(handled) THEN Committed[i]
                                      ELSE batch[i - Len(handled)]
        BY <1>1, <3>2, <3>4
      <4>2. i <= Len(handled) => Committed[i] = handled[i].w
        BY <3>2, <3>4 DEF Committed
      <4> QED
        BY <3>2, <4>1, <4>2
    <3>6. Committed \o batch = [i \in 1 .. Len(all) |-> (Committed \o batch)[i]]
      <4>1. Committed \o batch \in [1 .. Len(all) -> Writers]
        BY <3>4, LenProperties, Zenon
      <4> QED
        BY <4>1, Zenon
    <3> QED
      BY <3>3, <3>5, <3>6
  <2> QED
    BY <1>1, <2>1, <2>2, ConcatFacts
<1>8. ASSUME NEW w \in Writers, Publish(w) PROVE arrivals' = Committed' \o InFlight' \o queue'
  <2>1. Committed' = Committed /\ arrivals' = arrivals /\ queue' = queue
    BY <1>8 DEF Publish, Committed
  <2>2. InFlight = <<>> /\ InFlight' = <<>>
    BY <1>8 DEF Publish, InFlight
  <2> QED
    BY <1>1, <2>1, <2>2
<1> QED
  BY <1>3, <1>4, <1>5, <1>6, <1>7, <1>8 DEF Next, Wait

\* The tasks of execute_write are committed once each, in the order in which they
\* were pushed, whatever the batches they are coalesced into.
THEOREM FifoAlwaysOnce == Spec => []FifoOnce
<1>1. Init => FifoOnce
  <2>1. ASSUME Init PROVE [i \in 1 .. Len(handled) |-> handled[i].w] = <<>>
    BY <2>1 DEF Init
  <2> QED
    BY <2>1 DEF Init, FifoOnce, InFlight
<1> QED
  BY <1>1, AlwaysIInv, FifoStep, PTL DEF Spec

-----------------------------------------------------------------------------
\* The tasks of a writer in the history, and the result of the last of them.
Places(w) == {i \in DOMAIN handled : handled[i].w = w}
Latest(w, r) == \E i \in Places(w) : handled[i].res = r /\ \A j \in Places(w) : j <= i

\* Tasks are queued once; all tasks of a writer but the one that is pending are in the
\* history, and what a finished or a committed task was told is its latest entry there.
Once(q) == \A i, j \in DOMAIN q : q[i] = q[j] => i = j
Publishing == \E v \in Writers : pc[v] = "publish"
Pending(w) == w \in ToSet(queue) \/ (w \in ToSet(batch) /\ ~Publishing)
Tally(w) == /\ IsFiniteSet(Places(w))
            /\ Cardinality(Places(w)) = IF Pending(w) THEN ops[w] - 1 ELSE ops[w]
Answers == /\ Once(queue) /\ Once(batch)
           /\ \A w \in Writers : Tally(w)
           /\ \A w \in done : Latest(w, result[w])
           /\ Publishing => \A w \in ToSet(batch) : Latest(w, outcome)

LEMMA OnceEmpty == Once(<<>>)
BY DEF Once

LEMMA OnceAppend ==
    ASSUME NEW q \in Seq(Writers), NEW w \in Writers, Once(q), w \notin ToSet(q)
    PROVE  Once(Append(q, w)) /\ Once(<<w>>) /\ Once(<<>>)
BY DEF Once, ToSet

\* A step that commits nothing leaves the history and what it says of a writer.
LEMMA SameHistory ==
    ASSUME UNCHANGED handled
    PROVE  \A w : Places(w)' = Places(w) /\ \A r : Latest(w, r)' <=> Latest(w, r)
BY DEF Places, Latest

LEMMA EnqueueAnswers ==
    ASSUME IInv, Answers, NEW w \in Writers, Enqueue(w) PROVE Answers'
<1>1. /\ queue \in Seq(Writers) /\ batch \in Seq(Writers) /\ done \subseteq Writers
      /\ ops \in [Writers -> 0 .. MaxOps] /\ pc[w] = "idle"
      /\ w \notin ToSet(queue) /\ w \notin ToSet(batch)
  BY Zenon DEF IInv, HandoverSound, TypeOK, TasksPlaced, Enqueue
<1>2. /\ UNCHANGED <<handled, result, outcome>> /\ done' = done \ {w}
      /\ ops'[w] = ops[w] + 1 /\ \A v \in Writers \ {w} : ops'[v] = ops[v]
  BY <1>1 DEF Enqueue, FreshTask
<1>3. Publishing' <=> Publishing
  BY <1>1 DEF Publishing, Enqueue, Lead, IInv, HandoverSound, TypeOK
<1>4. /\ Once(queue') /\ Once(batch')
      /\ \A v \in Writers : Pending(v)' <=> Pending(v) \/ v = w
      /\ Publishing => batch' = batch
  <2>1. CASE writing \/ queue # <<>>
    <3>1. queue' = Append(queue, w) /\ batch' = batch
      BY <2>1 DEF Enqueue, Pushed
    <3>2. ToSet(queue') = ToSet(queue) \cup {w}
      BY <1>1, <3>1, ToSetAppend
    <3>3. Once(queue') /\ Once(batch')
      BY <1>1, <3>1, OnceAppend, Zenon DEF Answers
    <3>4. \A v \in Writers : Pending(v)' <=> Pending(v) \/ v = w
      BY <1>3, <3>1, <3>2 DEF Pending
    <3> QED
      BY <3>1, <3>3, <3>4
  <2>2. CASE ~(writing \/ queue # <<>>)
    <3>1. queue = <<>> /\ queue' = <<>> /\ batch' = <<w>> /\ batch = <<>> /\ ~Publishing
      BY <2>2 DEF Enqueue, Lead, IInv, TasksPlaced, HandoverSound, OneLeader, Publishing
    <3>2. ToSet(<<w>>) = {w} /\ ToSet(<<>>) = {}
      BY <1>1, ToSetFacts, ToSetEmpty
    <3>3. Once(queue') /\ Once(batch')
      BY <1>1, <3>1, OnceAppend, Zenon DEF Answers
    <3>4. \A v \in Writers : Pending(v)' <=> Pending(v) \/ v = w
      BY <1>3, <3>1, <3>2 DEF Pending
    <3> QED
      BY <3>1, <3>3, <3>4
  <2> QED
    BY <2>1, <2>2
<1>5. ~Pending(w)
  BY <1>1 DEF Pending
<1>6. \A v \in Writers : Tally(v)'
  <2> SUFFICES ASSUME NEW v \in Writers PROVE Tally(v)'
    OBVIOUS
  <2>1. Places(v)' = Places(v) /\ Tally(v)
    BY <1>2, SameHistory DEF Answers
  <2>2. CASE v = w
    <3>1. Pending(v)' /\ ~Pending(v) /\ ops[v] \in Nat /\ ops'[v] - 1 = ops[v]
      BY <1>1, <1>2, <1>4, <1>5, <2>2, OpsAssumption
    <3> QED
      BY <2>1, <3>1 DEF Tally
  <2>3. CASE v # w
    BY <1>2, <1>4, <2>1, <2>3 DEF Tally
  <2> QED
    BY <2>2, <2>3
<1> QED
  BY <1>2, <1>3, <1>4, <1>6, SameHistory, Zenon DEF Answers

LEMMA WaitAnswers == ASSUME IInv, Answers, NEW w \in Writers, Wait(w) PROVE Answers'
<1>1. UNCHANGED <<handled, result, outcome, done, ops>>
  BY DEF Wait, Return, TakeOver, Park
<1>2. Publishing' <=> Publishing
  BY DEF Publishing, Wait, Return, TakeOver, Park, Lead, IInv, HandoverSound, TypeOK
<1>3. /\ Once(queue') /\ Once(batch') /\ (Publishing => batch' = batch)
      /\ \A v \in Writers : Pending(v)' <=> Pending(v)
  <2>1. CASE Return(w) \/ Park(w)
    BY <1>2, <2>1 DEF Return, Park, Answers, Pending
  <2>2. CASE TakeOver(w)
    <3>1. queue' = <<>> /\ batch' = queue /\ batch = <<>> /\ ~Publishing
      BY <2>2
      DEF TakeOver, MyTurn, Lead, IInv, TasksPlaced, HandoverSound, OneLeader, Publishing
    <3> QED
      BY <1>2, <3>1, ToSetEmpty DEF Pending, Answers, Once
  <2> QED
    BY <2>1, <2>2 DEF Wait
<1>4. \A v \in Writers : Tally(v)'
  BY <1>1, <1>3, SameHistory DEF Answers, Tally
<1> QED
  BY <1>1, <1>2, <1>3, <1>4, SameHistory DEF Answers

LEMMA ConcatElements ==
    ASSUME NEW S, NEW a \in Seq(S), NEW b \in Seq(S)
    PROVE  /\ DOMAIN (a \o b) = 1 .. Len(a) + Len(b)
           /\ \A i \in 1 .. Len(a) : (a \o b)[i] = a[i]
           /\ \A i \in 1 .. Len(b) : (a \o b)[Len(a) + i] = b[i]
<1>1. Len(a) \in Nat /\ Len(b) \in Nat
  OBVIOUS
<1>2. /\ a \o b \in Seq(S) /\ Len(a \o b) = Len(a) + Len(b)
      /\ \A i \in 1 .. Len(a) + Len(b) : (a \o b)[i] = IF i <= Len(a) THEN a[i] ELSE b[i - Len(a)]
  BY ConcatProperties
<1>3. \A i \in 1 .. Len(b) : Len(a) + i \in 1 .. Len(a) + Len(b) /\ ~(Len(a) + i <= Len(a))
                            /\ Len(a) + i - Len(a) = i
  BY <1>1
<1>4. \A i \in 1 .. Len(a) : i \in 1 .. Len(a) + Len(b) /\ i <= Len(a)
  BY <1>1
<1>5. DOMAIN (a \o b) = 1 .. Len(a) + Len(b)
  BY <1>2, LenProperties
<1> QED
  BY <1>2, <1>3, <1>4, <1>5

\* A commit adds one entry for each task of the batch, after all earlier ones.
LEMMA CommitPlaces ==
    ASSUME IInv, Answers, NEW w \in Writers, Commit(w), NEW v \in Writers
    PROVE  /\ v \notin ToSet(batch) => Places(v)' = Places(v) /\ \A r : Latest(v, r) => Latest(v, r)'
           /\ v \in ToSet(batch) => /\ Latest(v, outcome)'
                                    /\ \E i : i \notin Places(v) /\ Places(v)' = Places(v) \cup {i}
<1> DEFINE n == Len(handled)
<1> DEFINE new == [i \in 1 .. Len(batch) |-> [w |-> batch[i], res |-> outcome']]
<1>1. /\ handled \in Seq([w : Writers, res : Results]) /\ batch \in Seq(Writers)
      /\ handled' = handled \o new /\ outcome' \in Results
  BY DEF IInv, HandoverSound, TypeOK, Commit
<1>2. new \in Seq([w : Writers, res : Results]) /\ Len(new) = Len(batch)
  BY <1>1
<1> HIDE DEF new
<1>3. /\ n \in Nat /\ Len(batch) \in Nat /\ DOMAIN handled = 1 .. n /\ DOMAIN batch = 1 .. Len(batch)
      /\ DOMAIN handled' = 1 .. n + Len(batch)
      /\ \A i \in 1 .. n : handled'[i] = handled[i]
      /\ \A i \in 1 .. Len(batch) : handled'[n + i] = new[i]
  <2> DEFINE S == [w : Writers, res : Results]
  <2> HIDE DEF S
  <2>1. handled \in Seq(S) /\ new \in Seq(S) /\ Len(new) = Len(batch)
    BY <1>1, <1>2 DEF S
  <2>2. /\ DOMAIN (handled \o new) = 1 .. n + Len(new)
        /\ \A i \in 1 .. n : (handled \o new)[i] = handled[i]
        /\ \A i \in 1 .. Len(new) : (handled \o new)[n + i] = new[i]
    BY <2>1, ConcatElements, SMTT(30)
  <2>3. n \in Nat /\ DOMAIN handled = 1 .. n
    BY <2>1, LenProperties
  <2>4. Len(batch) \in Nat /\ DOMAIN batch = 1 .. Len(batch)
    BY <1>1, LenProperties
  <2> QED
    BY <1>1, <2>1, <2>2, <2>3, <2>4
<1> HIDE DEF n
<1>4. \A i \in 1 .. Len(batch) : handled'[n + i].w = batch[i] /\ handled'[n + i].res = outcome'
  <2>1. \A i \in 1 .. Len(batch) : new[i] = [w |-> batch[i], res |-> outcome']
    BY DEF new
  <2> TAKE i \in 1 .. Len(batch)
  <2>2. handled'[n + i] = [w |-> batch[i], res |-> outcome']
    BY <1>3, <2>1, Zenon
  <2> QED
    BY <2>2
<1>5. \A j \in 1 .. n + Len(batch) : j \in 1 .. n \/ \E i \in 1 .. Len(batch) : j = n + i
  <2> SUFFICES ASSUME NEW j \in 1 .. n + Len(batch), j \notin 1 .. n
               PROVE  \E i \in 1 .. Len(batch) : j = n + i
    OBVIOUS
  <2>1. j - n \in 1 .. Len(batch) /\ j = n + (j - n)
    BY <1>3
  <2> QED
    BY <2>1
<1>6. ASSUME v \notin ToSet(batch)
      PROVE  Places(v)' = Places(v) /\ \A r : Latest(v, r) => Latest(v, r)'
  <2>1. \A i \in 1 .. Len(batch) : handled'[n + i].w # v
    BY <1>3, <1>4, <1>6 DEF ToSet
  <2>2. Places(v)' = Places(v)
    BY <1>3, <1>5, <2>1 DEF Places
  <2> QED
    BY <1>3, <2>2 DEF Latest, Places
<1>7. ASSUME v \in ToSet(batch)
      PROVE  /\ Latest(v, outcome)'
             /\ \E i : i \notin Places(v) /\ Places(v)' = Places(v) \cup {i}
  <2>1. PICK i \in 1 .. Len(batch) : batch[i] = v
    BY <1>3, <1>7 DEF ToSet
  <2>2. \A j \in 1 .. Len(batch) : batch[j] = v => j = i
    BY <1>3, <2>1 DEF Answers, Once
  <2>3. Places(v)' \subseteq Places(v) \cup {n + i}
    <3> SUFFICES ASSUME NEW j \in Places(v)' PROVE j \in Places(v) \cup {n + i}
      OBVIOUS
    <3>1. j \in 1 .. n + Len(batch) /\ handled'[j].w = v
      BY <1>3 DEF Places
    <3>2. CASE j \in 1 .. n
      BY <1>3, <3>1, <3>2 DEF Places
    <3>3. ASSUME NEW m \in 1 .. Len(batch), j = n + m PROVE j = n + i
      BY <1>4, <2>2, <3>1, <3>3
    <3> QED
      BY <1>5, <3>1, <3>2, <3>3
  <2>4. n + i \in Places(v)' /\ Places(v) \subseteq Places(v)'
    BY <1>3, <1>4, <2>1 DEF Places
  <2>5. n + i \notin Places(v) /\ \A j \in Places(v) : j <= n + i
    BY <1>3 DEF Places
  <2>6. Places(v)' = Places(v) \cup {n + i}
    BY <2>3, <2>4
  <2>7. \A j \in Places(v)' : j <= n + i
    BY <1>3, <2>5, <2>6
  <2>8. handled'[n + i].res = outcome'
    BY <1>4
  <2> QED
    BY <2>4, <2>5, <2>6, <2>7, <2>8 DEF Latest
<1> QED
  BY <1>6, <1>7

LEMMA CommitAnswers == ASSUME IInv, Answers, NEW w \in Writers, Commit(w) PROVE Answers'
<1>1. /\ UNCHANGED <<queue, batch, done, result, ops>> /\ ToSet(batch) \subseteq Writers
      /\ done \subseteq Writers /\ ops \in [Writers -> 0 .. MaxOps]
  BY ToSetFacts, Zenon DEF Commit, IInv, HandoverSound, TypeOK
<1>2. ~Publishing /\ Publishing'
  BY DEF Commit, Publishing, IInv, HandoverSound, OneLeader, TypeOK
<1>3. \A v \in ToSet(batch) : v \notin done /\ v \notin ToSet(queue)
  BY DEF IInv, TasksPlaced
<1>4. \A v \in Writers : Tally(v)'
  <2> SUFFICES ASSUME NEW v \in Writers PROVE Tally(v)'
    OBVIOUS
  <2>1. Tally(v)
    BY DEF Answers
  <2>2. CASE v \notin ToSet(batch)
    <3>1. Places(v)' = Places(v) /\ (Pending(v)' <=> Pending(v))
      BY <1>1, <2>2, CommitPlaces DEF Pending
    <3> QED
      BY <1>1, <2>1, <3>1 DEF Tally
  <2>3. CASE v \in ToSet(batch)
    <3>1. PICK i : i \notin Places(v) /\ Places(v)' = Places(v) \cup {i}
      BY <2>3, CommitPlaces
    <3>2. Pending(v) /\ ~Pending(v)'
      BY <1>1, <1>2, <1>3, <2>3 DEF Pending
    <3>3. /\ IsFiniteSet(Places(v)') /\ Cardinality(Places(v)') = Cardinality(Places(v)) + 1
      BY <2>1, <3>1, FS_AddElement DEF Tally
    <3>4. ops[v] - 1 + 1 = ops[v] /\ Cardinality(Places(v)) = ops[v] - 1
      BY <1>1, <2>1, <3>2, OpsAssumption DEF Tally
    <3> QED
      BY <1>1, <3>2, <3>3, <3>4 DEF Tally
  <2> QED
    BY <2>2, <2>3
<1>5. \A v \in done' : Latest(v, result[v])'
  BY <1>1, <1>3, CommitPlaces DEF Answers
<1>6. \A v \in ToSet(batch') : Latest(v, outcome)'
  BY <1>1, CommitPlaces
<1> QED
  BY <1>1, <1>4, <1>5, <1>6 DEF Answers

LEMMA PublishAnswers == ASSUME IInv, Answers, NEW w \in Writers, Publish(w) PROVE Answers'
<1>1. /\ UNCHANGED <<queue, handled, outcome, ops>> /\ batch' = <<>> /\ done' = done \cup ToSet(batch)
      /\ ToSet(batch) \subseteq Writers /\ done \subseteq Writers /\ queue \in Seq(Writers)
      /\ \A v \in Writers : result'[v] = IF v \in ToSet(batch) THEN outcome ELSE result[v]
  BY ToSetFacts, Zenon DEF Publish, Answered, IInv, HandoverSound, TypeOK
<1>2. Publishing
  BY DEF Publish, Publishing
<1>3. ~Publishing'
  BY DEF Publish, Publishing, IInv, HandoverSound, OneLeader, TypeOK
<1>4. \A v \in Writers : Tally(v)'
  <2>1. \A v \in Writers : Pending(v)' <=> Pending(v)
    BY <1>1, <1>2, ToSetEmpty DEF Pending
  <2> QED
    BY <1>1, <2>1, SameHistory, Zenon DEF Answers, Tally
<1>5. \A v \in done' : Latest(v, result[v])'
  BY <1>1, <1>2, SameHistory, Zenon DEF Answers
<1>6. Once(queue') /\ Once(batch')
  BY <1>1, OnceEmpty, Zenon DEF Answers
<1> QED
  BY <1>3, <1>4, <1>5, <1>6 DEF Answers

LEMMA AnswersStep == IInv /\ Answers /\ [Next]_vars => Answers'
<1> SUFFICES ASSUME IInv, Answers, [Next]_vars PROVE Answers'
  OBVIOUS
<1>1. CASE UNCHANGED vars
  <2>1. UNCHANGED <<pc, queue, batch, done, result, outcome, ops, handled>>
    BY <1>1 DEF vars
  <2>2. (Publishing' <=> Publishing) /\ \A v \in Writers : Pending(v)' <=> Pending(v)
    BY <2>1, Zenon DEF Publishing, Pending
  <2>3. \A v \in Writers : Tally(v)' <=> Tally(v)
    BY <2>1, <2>2, SameHistory, Zenon DEF Tally
  <2> QED
    BY <2>1, <2>2, <2>3, SameHistory, Zenon DEF Answers
<1> QED
  BY <1>1, EnqueueAnswers, WaitAnswers, CommitAnswers, PublishAnswers, Zenon DEF Next

LEMMA InitAnswers == Init => Answers
<1> SUFFICES ASSUME Init PROVE Answers
  OBVIOUS
<1>1. /\ queue = <<>> /\ batch = <<>> /\ done = {} /\ DOMAIN handled = {} /\ ~Publishing
      /\ ops = [w \in Writers |-> 0]
  BY DEF Init, Publishing
<1>2. \A w \in Writers : Places(w) = {} /\ ~Pending(w)
  BY <1>1, ToSetEmpty DEF Places, Pending
<1>3. \A w \in Writers : Tally(w)
  BY <1>1, <1>2, FS_EmptySet, Zenon DEF Tally
<1> QED
  BY <1>1, <1>3 DEF Answers, Once

LEMMA LatestIsLast ==
    ASSUME NEW w, NEW r, Latest(w, r), Places(w) \subseteq Nat
    PROVE  LastOf(w).res = r
<1>1. PICK i \in Places(w) : handled[i].res = r /\ \A j \in Places(w) : j <= i
  BY DEF Latest
<1>2. Max(Places(w)) = i
  BY <1>1 DEF Max
<1> QED
  BY <1>1, <1>2 DEF LastOf, Places

\* execute_write returns to each writer the result of the commit its own latest write
\* was part of, and by then every write it has issued has been committed: a leader
\* from what it published, the others from what their leader published for them.
THEOREM ResultsAreOwn == Spec => OwnResult
<1>1. IInv /\ Answers /\ [Next]_vars =>
        [\A w \in Writers : pc[w] # "idle" /\ pc'[w] = "idle" =>
             /\ Cardinality({i \in DOMAIN handled : handled[i].w = w}) = ops[w]
             /\ result'[w] = LastOf(w).res]_vars
  <2> SUFFICES ASSUME IInv, Answers, Next, NEW w \in Writers, pc[w] # "idle", pc'[w] = "idle"
               PROVE  Cardinality(Places(w)) = ops[w] /\ result'[w] = LastOf(w).res
    BY DEF Places
  <2>1. PICK v \in Writers : Enqueue(v) \/ Wait(v) \/ Commit(v) \/ Publish(v)
    BY DEF Next
  <2>2. pc \in [Writers -> {"idle", "spin", "parked", "woken", "commit", "publish"}]
    BY DEF IInv, HandoverSound, TypeOK
  <2>3. v = w /\ (Return(w) \/ Publish(w))
    BY <2>1, <2>2, Zenon DEF Enqueue, Lead, Wait, Return, TakeOver, Park, Commit, Publish
  <2>4. Places(w) \subseteq Nat
    BY DEF Places, IInv, HandoverSound, TypeOK
  <2>5. Tally(w)
    BY DEF Answers
  <2>6. CASE Return(w)
    <3>1. w \in done /\ w \notin ToSet(queue) /\ w \notin ToSet(batch) /\ result' = result
      BY <2>6 DEF Return, IInv, HandoverSound, TypeOK, TasksPlaced
    <3>2. Latest(w, result[w]) /\ ~Pending(w)
      BY <3>1 DEF Answers, Pending
    <3> QED
      BY <2>4, <2>5, <3>1, <3>2, LatestIsLast DEF Tally
  <2>7. CASE Publish(w)
    <3>1. /\ w \in ToSet(batch) /\ w \notin ToSet(queue) /\ Publishing /\ result'[w] = outcome
      BY <2>7 DEF Publish, Answered, Publishing, IInv, TasksPlaced, Leading
    <3>2. Latest(w, outcome) /\ ~Pending(w)
      BY <3>1 DEF Answers, Pending
    <3> QED
      BY <2>4, <2>5, <3>1, <3>2, LatestIsLast, Zenon DEF Tally
  <2> QED
    BY <2>3, <2>6, <2>7
<1> QED
  BY <1>1, InitAnswers, AlwaysIInv, AnswersStep, PTL DEF Spec, OwnResult
=============================================================================
