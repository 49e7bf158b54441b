---------------------------- MODULE StreamProofs ----------------------------
(***************************************************************************)
(* The inductive invariant of Sessions, and the first half of the proof    *)
(* that it is one: the steps of the server task and of a remote call that  *)
(* reads its answers keep it.  SessionsProofs has the other half and the   *)
(* theorems.                                                               *)
(***************************************************************************)
EXTENDS Sessions, Integers, TLAPS

Dbs == 0 .. MaxDbs
Reasons == {"late", "mixed", "outlived", "reused", "torn"}
Numbers == Calls \cup {None}
Requests == [op : {"start", "execute", "commit", "rollback"}, for : Numbers]
Txs == [db : Dbs, registered : BOOLEAN, buffer : SUBSET Numbers]
Places == {"off", "serving", "starting", "executing", "leaving", "ended"}
Servers == [at : Places, finished : BOOLEAN, db : Dbs, for : Numbers, out : Seq(Messages)]
Replies == {"none", "ok", "error", "lost", "rolled back"}
Remotes == [at : {"idle", "starting", "open", "committing", "done"},
            told : Replies, kept : BOOLEAN]
Locals == [at : {"idle", "looked", "statement", "closure", "iterating", "done"},
           told : Replies, db : Dbs]
Progress == {"unsent", "sent", "reading", "skipping", "answered", "failed", "cancelled"}

CatalogShapes ==
    /\ created \in Dbs /\ live \in 0 .. created
    /\ files \in [of : 0 .. created, whole : BOOLEAN]
    /\ closed \subseteq 1 .. created
    /\ dropper \in [at : {"idle", "quiesce", "remove", "removing"}, db : 0 .. created]
    /\ excused \in [Sessions \cup {"catalog"} -> SUBSET Reasons]

ClientShapes ==
    /\ cl \in [Clients -> Remotes]
    /\ call \in [Clients -> [Calls -> Progress]]
    /\ got \in [Clients -> [Calls -> Seq(Numbers)]]

WireShapes ==
    /\ link \in [Clients -> {"none", "up", "down"}]
    /\ req \in [Clients -> Seq(Requests)]
    /\ resp \in [Clients -> Seq(Messages)]
    /\ \A c \in Clients : Len(resp[c]) <= ChannelCap

ServerShapes ==
    /\ tx \in [Sessions -> Txs]
    /\ srv \in [Clients -> Servers]
    /\ qs \in [Queries -> Locals]
    /\ applied \in [Sessions -> [done : BOOLEAN, writes : SUBSET Numbers]]

\* A stream begins once: StartTransaction is the first request, and a task that has
\* not read it has no transaction.  A transaction is open only while its task works.
Stream(c) ==
    /\ cl[c].at = "idle" => tx[c].db = 0 /\ srv[c].at = "off" /\ link[c] = "none" /\ resp[c] = <<>>
    /\ srv[c].at = "starting" => /\ ~srv[c].finished /\ srv[c].db \in 1 .. created
                                /\ \A i \in DOMAIN req[c] : req[c][i].op # "start"
    /\ srv[c].at = "ended" => srv[c].out = <<>>
    /\ tx[c].db # 0 => srv[c].at \in {"serving", "executing"} /\ ~srv[c].finished
    /\ \A i \in DOMAIN req[c] : req[c][i].op = "start" => i = 1 /\ tx[c].db = 0

Caller(q) ==
    /\ qs[q].at = "looked" => qs[q].db \in 1 .. created
    /\ tx[q].db # 0 <=> qs[q].at \in {"statement", "iterating", "closure"}

\* The listed database is neither shut down nor being dropped, and a transaction on
\* one that is began late if the check of drop_db could have seen it.
Doomed == closed \cup {dropper.db}
Cleared(s) == tx[s].db # 0 /\ tx[s].db \in Doomed /\ tx[s].registered => "late" \in excused[s]
Dropping ==
    /\ dropper.at = "idle" <=> dropper.db = 0
    /\ live # 0 => live \notin Doomed
    /\ \A s \in Sessions : Cleared(s)

\* A listed database is not being dropped, and no drop leaves a directory half removed.
Directories ==
    excused["catalog"] = {} =>
        /\ live # 0 => files.of = live /\ dropper.at = "idle"
        /\ dropper.at = "idle" => files.of = live /\ files.whole

Owned == /\ ServerShapes /\ WireShapes /\ ClientShapes /\ CatalogShapes
         /\ \A c \in Clients : Stream(c)
         /\ \A q \in Queries : Caller(q)

-----------------------------------------------------------------------------
(***************************************************************************)
(* The protocol of a stream whose calls were neither concurrent nor        *)
(* cancelled: what is on its way in either direction at each phase.  A     *)
(* restart of the server cuts the answers short.                           *)
(***************************************************************************)
Nothing(c) == resp[c] = <<>> /\ srv[c].out = <<>>
CutShort(c) == srv[c].at = "ended" /\ srv[c].out = <<>>
One(c, m) == \/ resp[c] = <<m>> /\ srv[c].out = <<>>
             \/ resp[c] = <<>> /\ srv[c].out = <<m>>
             \/ resp[c] = <<>> /\ CutShort(c)
Two(c, m, n) == \/ resp[c] = <<m, n>> /\ srv[c].out = <<>>
                \/ resp[c] = <<m>> /\ srv[c].out = <<n>>
                \/ resp[c] = <<>> /\ srv[c].out = <<m, n>>
                \/ resp[c] \in {<<>>, <<m>>} /\ CutShort(c)

\* the requests on their way, to a task that is there to read them
Sent(c, rs) == req[c] = rs \/ srv[c].at = "ended"
TaskAt(c, place) == srv[c].at \in {place, "ended"}
Answered(c) == {k \in Calls : call[c][k] = "answered"}
\* what was answered without an error is in the buffer of a transaction that still is
Held(c) == srv[c].at \in {"serving", "executing"} => Answered(c) \subseteq tx[c].buffer
HeldToo(c, k) == srv[c].at = "serving" => k \in tx[c].buffer
Undecided(c) == ~srv[c].finished /\ ~applied[c].done /\ Held(c)

Fresh(c) ==
    /\ cl[c].at = "idle" /\ cl[c].told = "none" /\ link[c] = "none"
    /\ srv[c].at = "off" /\ Nothing(c) /\ Sent(c, <<>>)
    /\ Undecided(c) /\ \A k \in Calls : call[c][k] = "unsent"

Beginning(c) ==
    /\ cl[c].at = "starting" /\ cl[c].told = "none" /\ link[c] = "up"
    /\ Undecided(c) /\ \A k \in Calls : call[c][k] = "unsent"
    /\ \/ Sent(c, <<Request("start", None)>>) /\ TaskAt(c, "serving") /\ Nothing(c)
       \/ Sent(c, <<>>) /\ TaskAt(c, "starting") /\ Nothing(c)
       \/ Sent(c, <<>>) /\ TaskAt(c, "serving") /\ One(c, QueryFinished(None))
       \/ Sent(c, <<>>) /\ TaskAt(c, "leaving") /\ One(c, ErrorMessage(None))

Resting(c) ==
    /\ cl[c].at = "open" /\ cl[c].told = "none" /\ link[c] = "up"
    /\ Undecided(c) /\ NoneInFlight(c)
    /\ Sent(c, <<>>) /\ TaskAt(c, "serving") /\ Nothing(c)

\* the call has been sent and has read nothing yet
Awaiting(c, k) ==
    /\ call[c][k] \in {"sent", "reading"} /\ got[c][k] = <<>>
    /\ \/ Sent(c, <<Request("execute", k)>>) /\ TaskAt(c, "serving") /\ Nothing(c)
       \/ Sent(c, <<>>) /\ TaskAt(c, "executing") /\ Nothing(c)
          /\ (srv[c].at = "executing" => srv[c].for = k)
       \/ Sent(c, <<>>) /\ TaskAt(c, "serving") /\ HeldToo(c, k)
          /\ Two(c, QueryResult(k), QueryFinished(k))
       \/ Sent(c, <<>>) /\ TaskAt(c, "serving") /\ Two(c, ErrorMessage(k), QueryFinished(k))
       \/ Sent(c, <<>>) /\ TaskAt(c, "leaving") /\ One(c, ErrorMessage(k))

\* it has read its result, or an error
Halfway(c, k) ==
    /\ Sent(c, <<>>)
    /\ \/ call[c][k] = "reading" /\ got[c][k] = <<k>> /\ TaskAt(c, "serving") /\ HeldToo(c, k)
          /\ One(c, QueryFinished(k))
       \/ call[c][k] = "skipping" /\ TaskAt(c, "serving") /\ One(c, QueryFinished(k))
       \/ call[c][k] = "skipping" /\ TaskAt(c, "leaving") /\ Nothing(c)

Asking(c, k) ==
    /\ cl[c].at = "open" /\ cl[c].told = "none" /\ link[c] = "up"
    /\ Undecided(c) /\ \A j \in Calls \ {k} : ~InFlight(c, j)
    /\ Awaiting(c, k) \/ Halfway(c, k)

Concluding(c) ==
    /\ cl[c].at = "committing" /\ cl[c].told = "none" /\ link[c] = "up" /\ NoneInFlight(c)
    /\ TaskAt(c, "serving")
    /\ \/ Sent(c, <<Request("commit", None)>>) /\ Undecided(c) /\ Nothing(c)
       \/ Sent(c, <<>>) /\ One(c, CommitResult(TRUE)) /\ applied[c].done
          /\ Answered(c) \subseteq applied[c].writes
       \/ Sent(c, <<>>) /\ One(c, CommitResult(FALSE)) /\ ~applied[c].done

Over(c) ==
    /\ cl[c].at = "done" /\ NoneInFlight(c)
    /\ cl[c].told = "ok" => applied[c].done /\ Answered(c) \subseteq applied[c].writes
    /\ cl[c].told \in {"error", "rolled back"} => ~applied[c].done
    /\ cl[c].told # "lost" => \/ srv[c].at = "ended"
                              \/ \A i \in DOMAIN req[c] : req[c][i].op # "commit"

Phase(c) == \/ Fresh(c) \/ Beginning(c) \/ Resting(c) \/ Concluding(c) \/ Over(c)
            \/ \E k \in Calls : Asking(c, k)

Paired(c) ==
    /\ \A k \in Calls : call[c][k] = "unsent" => got[c][k] = <<>>
    /\ "mixed" \notin excused[c] =>
          /\ \A k \in Calls : call[c][k] = "answered" => got[c][k] = <<k>>
          /\ Phase(c)

\* A one-statement call is told what became of its commit.
Reported(q) ==
    /\ qs[q].told = "ok" => applied[q].done
    /\ qs[q].told \in {"error", "rolled back"} => ~applied[q].done
    /\ qs[q].at # "done" => qs[q].told = "none" /\ ~applied[q].done

Protocol == /\ \A c \in Clients : Paired(c)
            /\ \A q \in Queries : Reported(q)

-----------------------------------------------------------------------------
(***************************************************************************)
(* What the helpers of the model do to the records they change.            *)
(***************************************************************************)
LEMMA CreatedDbs == \A m \in Dbs : \A d \in 1 .. m : d \in Dbs /\ d # 0
BY SessionsAssumption DEF Dbs

LEMMA GoesType ==
    ASSUME NEW r \in Servers, NEW a \in Places, NEW o \in Seq(Messages)
    PROVE  Goes(r, a, o) \in Servers
<1>1. None \in Numbers
  BY DEF Numbers
<1> QED
  BY <1>1, Zenon DEF Servers, Goes

LEMMA CommitResultType == \A ok \in BOOLEAN : <<CommitResult(ok)>> \in Seq(Messages)
BY DEF CommitResult, Messages

LEMMA FinishesFields ==
    \A r \in Servers : \A ok \in BOOLEAN :
        /\ Finishes(r, ok).at = r.at /\ Finishes(r, ok).out = <<CommitResult(ok)>>
        /\ Finishes(r, ok).finished
        /\ Finishes(r, ok) \in Servers
BY CommitResultType, Zenon DEF Servers, Finishes

LEMMA ReturnsFields ==
    \A r \in Remotes : \A t \in Replies :
        /\ Returns(r, t).at = "done" /\ Returns(r, t).told = t
        /\ Returns(r, t) \in Remotes
BY Zenon DEF Remotes, Returns

LEMMA AnswerTypes ==
    \A k \in Numbers : /\ <<ErrorMessage(k)>> \in Seq(Messages)
                       /\ <<QueryFinished(k)>> \in Seq(Messages)
                       /\ <<ErrorMessage(k), QueryFinished(k)>> \in Seq(Messages)
                       /\ <<QueryResult(k), QueryFinished(k)>> \in Seq(Messages)
BY DEF Messages, ErrorMessage, QueryFinished, QueryResult, Numbers

-----------------------------------------------------------------------------
Shapes == ServerShapes /\ WireShapes /\ ClientShapes /\ CatalogShapes
IInv == Owned /\ Dropping /\ Directories /\ Protocol

\* A step of one stream: what belongs to the others, and the catalog, stay as they are.
Alone(c) ==
    /\ UNCHANGED <<live, files, closed, dropper, created, qs>>
    /\ \A d \in Clients \ {c} :
           /\ cl'[d] = cl[d] /\ call'[d] = call[d] /\ got'[d] = got[d]
           /\ link'[d] = link[d] /\ req'[d] = req[d] /\ resp'[d] = resp[d] /\ srv'[d] = srv[d]
    /\ \A s \in Sessions \ {c} : tx'[s] = tx[s] /\ applied'[s] = applied[s]
    /\ \A s \in Sessions \cup {"catalog"} : excused[s] \subseteq excused'[s]

LEMMA SameStream ==
    ASSUME NEW d, UNCHANGED created,
           cl'[d] = cl[d], link'[d] = link[d], req'[d] = req[d], resp'[d] = resp[d],
           srv'[d] = srv[d], tx'[d] = tx[d], Stream(d)
    PROVE  Stream(d)'
BY DEF Stream

LEMMA SamePaired ==
    ASSUME NEW d, cl'[d] = cl[d], call'[d] = call[d], got'[d] = got[d], link'[d] = link[d],
           req'[d] = req[d], resp'[d] = resp[d], srv'[d] = srv[d], tx'[d] = tx[d],
           applied'[d] = applied[d], excused[d] \subseteq excused'[d], Paired(d)
    PROVE  Paired(d)'
<1>1. /\ Fresh(d)' <=> Fresh(d)
      /\ Beginning(d)' <=> Beginning(d)
  BY DEF Fresh, Beginning, Nothing, One, CutShort, Undecided, Held, Answered, Sent, TaskAt
<1>2. /\ Resting(d)' <=> Resting(d)
      /\ Concluding(d)' <=> Concluding(d)
      /\ Over(d)' <=> Over(d)
  BY
  DEF Resting, Concluding, Over, Nothing, One, CutShort, Undecided, Held, Answered, Sent, TaskAt,
         NoneInFlight, InFlight
<1>3. \A k \in Calls : Asking(d, k)' <=> Asking(d, k)
  BY
  DEF Asking, Awaiting, Halfway, Nothing, One, Two, CutShort, Undecided, Held, HeldToo, Answered,
         Sent, TaskAt, InFlight
<1> QED
  BY <1>1, <1>2, <1>3 DEF Paired, Phase

\* What remains to be shown for a step of a client or of its server task.
LEMMA AloneStep ==
    ASSUME IInv, NEW c \in Clients, Alone(c), Shapes', Stream(c)', Cleared(c)', Paired(c)'
    PROVE  IInv'
<1>1. Owned'
  <2>1. \A d \in Clients : Stream(d)'
    BY SameStream DEF Alone, IInv, Owned, Sessions
  <2>2. \A q \in Queries : Caller(q)'
    <3>1. \A q \in Queries : q \in Sessions \ {c}
      BY SessionsAssumption DEF Sessions
    <3> QED
      BY <3>1 DEF Alone, IInv, Owned, Caller
  <2> QED
    BY <2>1, <2>2 DEF Owned, Shapes
<1>2. Dropping'
  BY DEF Dropping, Cleared, Doomed, Alone, IInv
<1>3. Directories'
  BY DEF Directories, Alone, IInv
<1>4. Protocol'
  <2>1. \A d \in Clients : Paired(d)'
    BY SamePaired DEF Alone, IInv, Protocol, Sessions
  <2>2. \A q \in Queries : Reported(q)'
    <3>1. \A q \in Queries : q \in Sessions \ {c}
      BY SessionsAssumption DEF Sessions
    <3> QED
      BY <3>1, Zenon DEF Alone, IInv, Protocol, Reported
  <2> QED
    BY <2>1, <2>2 DEF Protocol
<1> QED
  BY <1>1, <1>2, <1>3, <1>4 DEF IInv

-----------------------------------------------------------------------------
(***************************************************************************)
(* The server task.                                                        *)
(***************************************************************************)
LEMMA Single == \A x : Head(<<x>>) = x /\ Tail(<<x>>) = <<>> /\ <<x>> # <<>>
OBVIOUS

LEMMA Pair == \A x, y : Head(<<x, y>>) = x /\ Tail(<<x, y>>) = <<y>> /\ <<x, y>> # <<>>
OBVIOUS

LEMMA Build == \A x, y : Append(<<>>, x) = <<x>> /\ Append(<<x>>, y) = <<x, y>>
<1> SUFFICES ASSUME NEW x, NEW y PROVE Append(<<>>, x) = <<x>> /\ Append(<<x>>, y) = <<x, y>>
  OBVIOUS
<1> DEFINE S == {x, y}
<1> DEFINE a == Append(<<x>>, y)
<1> DEFINE b == <<x, y>>
<1>1. <<x>> \in Seq(S) /\ Len(<<x>>) = 1 /\ <<x>>[1] = x /\ y \in S
  OBVIOUS
<1>2. b \in Seq(S) /\ Len(b) = 2 /\ b[1] = x /\ b[2] = y
  OBVIOUS
<1>3. a \in Seq(S) /\ Len(a) = 2 /\ a[1] = x /\ a[2] = y
  BY <1>1
<1> HIDE DEF a, b, S
<1>4. \A i \in 1 .. 2 : a[i] = b[i]
  BY <1>2, <1>3
<1>5. a = b
  BY <1>2, <1>3, <1>4
<1> QED
  BY <1>5 DEF a, b

LEMMA TailFacts ==
    ASSUME NEW S, NEW q \in Seq(S), q # <<>>
    PROVE  /\ Head(q) \in S /\ Tail(q) \in Seq(S) /\ Len(Tail(q)) < Len(q)
           /\ \A i \in DOMAIN Tail(q) : i + 1 \in DOMAIN q /\ Tail(q)[i] = q[i + 1] /\ i + 1 # 1
<1>1. /\ DOMAIN Tail(q) = 1 .. Len(q) - 1 /\ Tail(q) \in Seq(S) /\ Len(q) \in Nat
      /\ DOMAIN q = 1 .. Len(q) /\ Len(Tail(q)) < Len(q) /\ Head(q) \in S
  OBVIOUS
<1>2. ASSUME NEW i \in 1 .. Len(q) - 1
      PROVE  Tail(q)[i] = q[i + 1] /\ i + 1 \in 1 .. Len(q) /\ i + 1 # 1
  OBVIOUS
<1> QED
  BY <1>1, <1>2

\* One send on the response channel.
Sends(c) == /\ srv[c].out # <<>> /\ srv'[c].at = srv[c].at
            /\ resp'[c] = Append(resp[c], Head(srv[c].out))
            /\ srv'[c].out = Tail(srv[c].out)

LEMMA SendsOne == ASSUME NEW c, NEW m, One(c, m), Sends(c) PROVE One(c, m)'
<1>1. resp[c] = <<>> /\ srv[c].out = <<m>>
  BY DEF One, CutShort, Sends
<1> QED
  BY <1>1, Single, Build DEF One, Sends

LEMMA SendsTwo == ASSUME NEW c, NEW m, NEW n, Two(c, m, n), Sends(c) PROVE Two(c, m, n)'
<1>1. CASE resp[c] = <<>> /\ srv[c].out = <<m, n>>
  BY <1>1, Pair, Build DEF Two, Sends
<1>2. CASE resp[c] = <<m>> /\ srv[c].out = <<n>>
  BY <1>2, Single, Build DEF Two, Sends
<1> QED
  BY <1>1, <1>2, Zenon DEF Two, CutShort, Sends

\* One message is taken off the response stream.
Takes(c) == resp[c] # <<>> /\ resp'[c] = Tail(resp[c]) /\ srv'[c] = srv[c]

LEMMA TakesOne == ASSUME NEW c, NEW m, One(c, m), Takes(c) PROVE Head(resp[c]) = m /\ Nothing(c)'
<1>1. resp[c] = <<m>> /\ srv[c].out = <<>>
  BY DEF One, Takes
<1> QED
  BY <1>1, Single DEF Takes, Nothing

LEMMA TakesTwo ==
    ASSUME NEW c, NEW m, NEW n, Two(c, m, n), Takes(c)
    PROVE  Head(resp[c]) = m /\ One(c, n)'
<1>1. CASE resp[c] = <<m, n>> /\ srv[c].out = <<>>
  BY <1>1, Pair DEF Takes, One
<1>2. CASE resp[c] = <<m>> /\ srv[c].out = <<n>>
  BY <1>2, Single DEF Takes, One
<1>3. CASE resp[c] = <<m>> /\ CutShort(c)
  BY <1>3, Single DEF Takes, One, CutShort
<1> QED
  BY <1>1, <1>2, <1>3 DEF Two, Takes

NoCommit(c) == \A i \in DOMAIN req[c] : req[c][i].op # "commit"

LEMMA ReceivedFacts ==
    ASSUME IInv, NEW c \in Clients, NEW op, Received(c, op)
    PROVE  /\ srv[c].at = "serving" /\ srv[c].out = <<>> /\ srv[c] \in Servers
           /\ req[c] # <<>> /\ Head(req[c]).op = op /\ Head(req[c]).for \in Numbers
           /\ req' \in [Clients -> Seq(Requests)]
           /\ req'[c] = Tail(req[c])
           /\ \A d \in Clients \ {c} : req'[d] = req[d]
           /\ \A i \in DOMAIN req'[c] : req'[c][i].op # "start"
           /\ NoCommit(c) => op # "commit" /\ NoCommit(c)'
           /\ op = "start" => tx[c].db = 0
<1>1. /\ req \in [Clients -> Seq(Requests)] /\ srv \in [Clients -> Servers] /\ Stream(c)
  BY DEF IInv, Owned, WireShapes, ServerShapes
<1>2. /\ req[c] # <<>> /\ Head(req[c]).op = op /\ req' = [req EXCEPT ![c] = Tail(req[c])]
      /\ srv[c].at = "serving" /\ srv[c].out = <<>>
  BY DEF Received, Serving
<1> DEFINE q == req[c]
<1>3. q \in Seq(Requests) /\ q # <<>> /\ 1 \in DOMAIN q /\ Head(q) = q[1]
  BY <1>1, <1>2
<1>4. /\ Tail(q) \in Seq(Requests)
      /\ \A i \in DOMAIN Tail(q) : i + 1 \in DOMAIN q /\ Tail(q)[i] = q[i + 1] /\ i + 1 # 1
  BY <1>3, TailFacts
<1>5. Head(q).for \in Numbers
  <2>1. Head(q) \in Requests
    BY <1>3
  <2> QED
    BY <2>1 DEF Requests
<1>6. req' \in [Clients -> Seq(Requests)] /\ req'[c] = Tail(q) /\ \A d \in Clients \ {c} : req'[d] = req[d]
  BY <1>1, <1>2, <1>4
<1>7. \A i \in DOMAIN q : q[i].op = "start" => i = 1 /\ tx[c].db = 0
  BY <1>1 DEF Stream
<1>8. \A i \in DOMAIN req'[c] : req'[c][i].op # "start"
  BY <1>4, <1>6, <1>7
<1>9. NoCommit(c) => op # "commit" /\ NoCommit(c)'
  BY <1>2, <1>3, <1>4, <1>6 DEF NoCommit
<1> QED
  BY <1>1, <1>2, <1>3, <1>5, <1>6, <1>7, <1>8, <1>9

\* The request the server reads is the one the phase of the client says.
Opening(c) == Beginning(c) /\ req[c] = <<Request("start", None)>> /\ Nothing(c)
Closing(c) == Concluding(c) /\ req[c] = <<Request("commit", None)>> /\ Undecided(c) /\ Nothing(c)
Requesting(c, k) == /\ Asking(c, k) /\ req[c] = <<Request("execute", k)>> /\ Nothing(c)
                    /\ call[c][k] \in {"sent", "reading"} /\ got[c][k] = <<>>

LEMMA ReceivedPhase ==
    ASSUME IInv, NEW c \in Clients, NEW op, Received(c, op), "mixed" \notin excused[c]
    PROVE  \/ Over(c)
           \/ op = "start" /\ Opening(c)
           \/ op = "commit" /\ Closing(c)
           \/ op = "execute" /\ \E k \in Calls : Requesting(c, k)
<1>1. /\ req[c] # <<>> /\ Head(req[c]).op = op
      /\ srv[c].at \notin {"ended", "starting", "executing", "leaving"}
  BY ReceivedFacts
<1>2. Phase(c)
  BY DEF IInv, Protocol, Paired
<1>3. \A x, k : req[c] = <<Request(x, k)>> => op = x
  BY <1>1, Single DEF Request
<1>4. ~Fresh(c) /\ ~Resting(c)
  BY <1>1, Zenon DEF Fresh, Resting, Sent
<1>5. Beginning(c) => op = "start" /\ Opening(c)
  BY <1>1, <1>3, Zenon DEF Beginning, Sent, TaskAt, Opening
<1>6. Concluding(c) => op = "commit" /\ Closing(c)
  BY <1>1, <1>3, Zenon DEF Concluding, Sent, Closing
<1>7. \A k \in Calls : Asking(c, k) => op = "execute" /\ Requesting(c, k)
  BY <1>1, <1>3, Zenon DEF Asking, Awaiting, Halfway, Sent, TaskAt, Requesting
<1> QED
  BY <1>2, <1>4, <1>5, <1>6, <1>7 DEF Phase

LEMMA ReceivedStart ==
    ASSUME IInv, NEW c \in Clients, Received(c, "start"), "mixed" \notin excused[c], ~Over(c)
    PROVE  Opening(c)
BY ReceivedPhase

LEMMA ReceivedCommit ==
    ASSUME IInv, NEW c \in Clients, Received(c, "commit"), "mixed" \notin excused[c], ~Over(c)
    PROVE  Closing(c)
BY ReceivedPhase

LEMMA ReceivedRollback ==
    ASSUME IInv, NEW c \in Clients, Received(c, "rollback"), "mixed" \notin excused[c]
    PROVE  Over(c)
BY ReceivedPhase

LEMMA OverStays ==
    ASSUME NEW c, Over(c), cl'[c] = cl[c], call'[c] = call[c], applied'[c] = applied[c],
           srv[c].at = "ended" => srv'[c].at = "ended", NoCommit(c) => NoCommit(c)'
    PROVE  Over(c)'
BY Zenon DEF Over, NoCommit, NoneInFlight, InFlight, Answered

\* Steps that answer a request, or begin to: the wire to the client is not touched.
LEMMA RequestFrame ==
    ASSUME IInv, NEW c \in Clients, NEW op, Received(c, op), NEW v \in Servers, NEW t \in Txs,
           NEW a \in [done : BOOLEAN, writes : SUBSET Numbers],
           srv' = [srv EXCEPT ![c] = v], tx' = [tx EXCEPT ![c] = t],
           applied' = [applied EXCEPT ![c] = a],
           UNCHANGED <<catalogVars, clientVars, link, resp, qs, excused>>
    PROVE  /\ Shapes' /\ Alone(c)
           /\ srv'[c] = v /\ tx'[c] = t /\ applied'[c] = a
<1>1. c \in Sessions
  BY DEF Sessions
<1>2. req' \in [Clients -> Seq(Requests)] /\ \A d \in Clients \ {c} : req'[d] = req[d]
  BY ReceivedFacts
<1>3. WireShapes' /\ ClientShapes' /\ CatalogShapes'
  BY <1>2 DEF IInv, Owned, WireShapes, ClientShapes, CatalogShapes, catalogVars, clientVars
<1>4. ServerShapes' /\ srv'[c] = v /\ tx'[c] = t /\ applied'[c] = a
  BY <1>1 DEF IInv, Owned, ServerShapes
<1>5. Alone(c)
  BY <1>1, <1>2 DEF IInv, Owned, ServerShapes, Alone, catalogVars, clientVars
<1> QED
  BY <1>3, <1>4, <1>5 DEF Shapes

Outcomes == [done : BOOLEAN, writes : SUBSET Numbers]

\* The answer to a request, and what remains to be shown for it.
Handles(c, op, v, t, a) ==
    /\ Received(c, op)
    /\ v \in Servers /\ t \in Txs /\ a \in Outcomes
    /\ srv' = [srv EXCEPT ![c] = v] /\ tx' = [tx EXCEPT ![c] = t] /\ applied' = [applied EXCEPT ![c] = a]
    /\ UNCHANGED <<catalogVars, clientVars, link, resp, qs, excused>>
    /\ v.at = "starting" => ~v.finished /\ v.db \in 1 .. created
    /\ v.at = "ended" => v.out = <<>>
    /\ t.db # 0 => v.at \in {"serving", "executing"} /\ ~v.finished
    /\ t.db # 0 => t.db = tx[c].db /\ t.registered = tx[c].registered
    /\ op = "commit" \/ a = applied[c]
    /\ "mixed" \notin excused[c] /\ ~Over(c) => Phase(c)'

LEMMA RequestStep ==
    ASSUME IInv, NEW c \in Clients, NEW op, NEW v, NEW t, NEW a, Handles(c, op, v, t, a)
    PROVE  IInv'
<1> USE DEF Handles
<1>1. Shapes' /\ Alone(c) /\ srv'[c] = v /\ tx'[c] = t /\ applied'[c] = a
  BY RequestFrame, Zenon DEF Outcomes
<1>2. /\ srv[c].at = "serving" /\ srv[c] \in Servers
      /\ req'[c] = Tail(req[c]) /\ \A i \in DOMAIN req'[c] : req'[c][i].op # "start"
      /\ NoCommit(c) => op # "commit" /\ NoCommit(c)'
  BY ReceivedFacts, Zenon
<1>3. cl'[c] = cl[c] /\ call'[c] = call[c] /\ got'[c] = got[c] /\ link'[c] = link[c] /\ resp'[c] = resp[c]
  BY Zenon DEF clientVars
<1>4. Stream(c)'
  BY <1>1, <1>2, <1>3, Zenon DEF IInv, Owned, Stream, catalogVars
<1>5. Cleared(c)'
  BY <1>1, <1>2, <1>3, Zenon
  DEF IInv, Owned, Dropping, Cleared, Doomed, catalogVars, Sessions
<1>6. Over(c) => Over(c)'
  BY <1>1, <1>2, <1>3, Zenon DEF Over, NoCommit, NoneInFlight, InFlight, Answered
<1>7. Paired(c)'
  BY <1>3, <1>6, Zenon DEF IInv, Protocol, Paired, Phase
<1> QED
  BY <1>1, <1>4, <1>5, <1>7, AloneStep

LEMMA Unmoved ==
    ASSUME IInv, NEW c \in Clients
    PROVE  /\ tx[c] \in Txs /\ applied[c] \in Outcomes /\ srv[c] \in Servers
           /\ UNCHANGED tx => tx' = [tx EXCEPT ![c] = tx[c]]
           /\ UNCHANGED applied => applied' = [applied EXCEPT ![c] = applied[c]]
           /\ tx[c].db # 0 => srv[c].at \in {"serving", "executing"} /\ ~srv[c].finished
BY Zenon DEF IInv, Owned, ServerShapes, Sessions, Stream, Outcomes

LEMMA RejectStep == ASSUME IInv, NEW c \in Clients, Reject(c) PROVE IInv'
<1> DEFINE k == Head(req[c]).for
<1> DEFINE v == [srv[c] EXCEPT !.out = ErrorAnswer(k)]
<1>1. Received(c, "execute") /\ ~srv[c].finished /\ srv' = [srv EXCEPT ![c] = v]
      /\ UNCHANGED <<catalogVars, clientVars, link, resp, tx, qs, applied, excused>>
  BY DEF Reject, Answer
<1>2. srv[c].at = "serving" /\ srv[c] \in Servers /\ k \in Numbers /\ req'[c] = Tail(req[c])
  BY <1>1, ReceivedFacts
<1>3. ErrorAnswer(k) = <<ErrorMessage(k), QueryFinished(k)>> /\ ErrorAnswer(k) \in Seq(Messages)
  BY <1>2, AnswerTypes DEF ErrorAnswer
<1>4. v \in Servers /\ v.at = "serving" /\ v.finished = srv[c].finished /\ v.out = ErrorAnswer(k)
  BY <1>2, <1>3 DEF Servers
<1> HIDE DEF v
<1>5. srv'[c] = v /\ tx'[c] = tx[c] /\ applied'[c] = applied[c]
  BY <1>1 DEF IInv, Owned, ServerShapes
<1>6. ASSUME NEW j \in Calls, Requesting(c, j) PROVE Asking(c, j)'
  <2>1. k = j /\ Tail(req[c]) = <<>>
    BY <1>6, Single DEF Requesting, Request
  <2> QED
    BY <1>1, <1>2, <1>3, <1>4, <1>5, <1>6, <2>1, Zenon
    DEF Requesting, Asking, Awaiting, Two, Nothing, Sent, TaskAt, Undecided, Held, Answered, InFlight,
        clientVars
<1>7. "mixed" \notin excused[c] /\ ~Over(c) => Phase(c)'
  BY <1>1, <1>6, ReceivedPhase, Zenon DEF Phase
<1>8. Handles(c, "execute", v, tx[c], applied[c])
  BY <1>1, <1>2, <1>4, <1>7, Unmoved DEF Handles
<1> QED
  BY <1>8, RequestStep

LEMMA NoTxType == NoTx \in Txs /\ NoTx.db = 0
BY SessionsAssumption DEF NoTx, Txs, Dbs

LEMMA AfterFinishStep == ASSUME IInv, NEW c \in Clients, AfterFinish(c) PROVE IInv'
<1> DEFINE k == Head(req[c]).for
<1> DEFINE v == [srv[c] EXCEPT !.out = <<ErrorMessage(k)>>]
<1>1. PICK op \in {"execute", "rollback", "commit"} : Received(c, op)
  BY DEF AfterFinish
<1>2. /\ srv[c].finished /\ srv' = [srv EXCEPT ![c] = v]
      /\ UNCHANGED <<catalogVars, clientVars, link, resp, tx, qs, applied, excused>>
  BY DEF AfterFinish, Answer
<1>3. srv[c].at = "serving" /\ srv[c] \in Servers /\ k \in Numbers /\ <<ErrorMessage(k)>> \in Seq(Messages)
  BY <1>1, ReceivedFacts, AnswerTypes, Zenon
<1>4. v \in Servers /\ v.at = "serving" /\ v.finished = srv[c].finished
  BY <1>3, Zenon DEF Servers
<1> HIDE DEF v
<1>5. "mixed" \notin excused[c] => Over(c)
  <2>1. ~Undecided(c)
    BY <1>2 DEF Undecided
  <2>2. ~Closing(c) /\ \A j \in Calls : ~Requesting(c, j)
    BY <2>1 DEF Closing, Requesting, Asking
  <2> QED
    BY <1>1, <2>2, ReceivedPhase
<1>6. Handles(c, op, v, tx[c], applied[c])
  <2>1. tx[c].db = 0
    BY <1>2, Unmoved
  <2> QED
    BY <1>1, <1>2, <1>4, <1>5, <2>1, Unmoved DEF Handles
<1> QED
  BY <1>6, RequestStep, Zenon

LEMMA StartLookupStep == ASSUME IInv, NEW c \in Clients, StartLookup(c) PROVE IInv'
<1> DEFINE bad == Goes(srv[c], "leaving", <<ErrorMessage(None)>>)
<1> DEFINE good == Found(srv[c], live)
<1> DEFINE v == IF live = 0 THEN bad ELSE good
<1>1. /\ Received(c, "start") /\ ~srv[c].finished /\ srv' = [srv EXCEPT ![c] = v]
      /\ UNCHANGED <<catalogVars, clientVars, link, resp, tx, qs, applied, excused>>
  BY DEF StartLookup
<1>2. /\ srv[c].at = "serving" /\ srv[c] \in Servers /\ srv[c].out = <<>>
      /\ req'[c] = Tail(req[c]) /\ tx[c].db = 0
  BY <1>1, ReceivedFacts, Zenon
<1>3. "leaving" \in Places /\ <<ErrorMessage(None)>> \in Seq(Messages)
  BY AnswerTypes DEF Places, Numbers
<1>4. live \in Dbs /\ (live # 0 => live \in 1 .. created)
  BY SessionsAssumption DEF IInv, Owned, CatalogShapes, Dbs
<1>5. /\ bad \in Servers /\ bad.at = "leaving" /\ bad.finished = srv[c].finished
      /\ bad.out = <<ErrorMessage(None)>>
  <2>1. bad \in Servers
    BY <1>2, <1>3, GoesType, Zenon
  <2> QED
    BY <1>2, <2>1, Zenon DEF Goes, Servers
<1>6. /\ good \in Servers /\ good.at = "starting" /\ good.finished = srv[c].finished
      /\ good.out = <<>> /\ good.db = live
  <2>1. "starting" \in Places
    BY DEF Places
  <2> QED
    BY <1>2, <1>4, <2>1, Zenon DEF Found, Servers
<1>7. /\ v \in Servers /\ v.finished = srv[c].finished
      /\ \/ v.at = "leaving" /\ v.out = <<ErrorMessage(None)>>
         \/ v.at = "starting" /\ v.out = <<>> /\ v.db \in 1 .. created
  BY <1>4, <1>5, <1>6, Zenon
<1> HIDE DEF v
<1>8. srv'[c] = v /\ tx'[c] = tx[c] /\ applied'[c] = applied[c]
  BY <1>1 DEF IInv, Owned, ServerShapes
<1>9. ASSUME Opening(c) PROVE Beginning(c)'
  <2>1. Tail(req[c]) = <<>>
    BY <1>9, Single, Zenon DEF Opening
  <2> QED
    BY <1>1, <1>2, <1>7, <1>8, <1>9, <2>1, Zenon
    DEF Opening, Beginning, One, Nothing, Sent, TaskAt, Undecided, Held, Answered, clientVars
<1>10. "mixed" \notin excused[c] /\ ~Over(c) => Phase(c)'
  <2>1. "mixed" \notin excused[c] /\ ~Over(c) => Opening(c)
    BY <1>1, ReceivedStart, Zenon
  <2> QED
    BY <1>9, <2>1, Zenon DEF Phase
<1>11. Handles(c, "start", v, tx[c], applied[c])
  BY <1>1, <1>2, <1>7, <1>10, Unmoved DEF Handles
<1> QED
  BY <1>11, RequestStep

LEMMA ExecuteStep == ASSUME IInv, NEW c \in Clients, Execute(c) PROVE IInv'
<1> DEFINE k == Head(req[c]).for
<1> DEFINE v == Runs(srv[c], k)
<1>1. /\ Received(c, "execute") /\ ~srv[c].finished /\ srv' = [srv EXCEPT ![c] = v]
      /\ UNCHANGED <<catalogVars, clientVars, link, resp, tx, qs, applied, excused>>
  BY Zenon DEF Execute
<1>2. /\ srv[c].at = "serving" /\ srv[c] \in Servers /\ srv[c].out = <<>> /\ k \in Numbers
      /\ req'[c] = Tail(req[c])
  BY <1>1, ReceivedFacts, Zenon
<1>3. /\ v \in Servers /\ v.at = "executing" /\ v.for = k /\ v.finished = srv[c].finished
      /\ v.out = <<>>
  <2>1. "executing" \in Places
    BY DEF Places
  <2> QED
    BY <1>2, <2>1, Zenon DEF Runs, Servers
<1> HIDE DEF v
<1>4. srv'[c] = v /\ tx'[c] = tx[c] /\ applied'[c] = applied[c]
  BY <1>1 DEF IInv, Owned, ServerShapes
<1>5. ASSUME NEW j \in Calls, Requesting(c, j) PROVE Asking(c, j)'
  <2>1. k = j /\ Tail(req[c]) = <<>>
    BY <1>5, Single DEF Requesting, Request
  <2> QED
    BY <1>1, <1>2, <1>3, <1>4, <1>5, <2>1, Zenon
    DEF Requesting, Asking, Awaiting, Nothing, Sent, TaskAt, Undecided, Held, Answered, InFlight, clientVars
<1>6. "mixed" \notin excused[c] /\ ~Over(c) => Phase(c)'
  BY <1>1, <1>5, ReceivedPhase, Zenon DEF Phase
<1>7. Handles(c, "execute", v, tx[c], applied[c])
  BY <1>1, <1>2, <1>3, <1>6, Unmoved DEF Handles
<1> QED
  BY <1>7, RequestStep

LEMMA RollbackStep == ASSUME IInv, NEW c \in Clients, Rollback(c) PROVE IInv'
<1> DEFINE v == Finishes(srv[c], TRUE)
<1>1. /\ Received(c, "rollback") /\ srv' = [srv EXCEPT ![c] = v] /\ tx' = [tx EXCEPT ![c] = NoTx]
      /\ UNCHANGED <<catalogVars, clientVars, link, resp, qs, applied, excused>>
  BY DEF Rollback, EndTx
<1>2. srv[c].at = "serving" /\ srv[c] \in Servers
  BY <1>1, ReceivedFacts
<1>3. v \in Servers /\ v.at = "serving"
  BY <1>2, FinishesFields, Zenon
<1> HIDE DEF v
<1>4. "mixed" \notin excused[c] => Over(c)
  BY <1>1, ReceivedRollback, Zenon
<1>5. Handles(c, "rollback", v, NoTx, applied[c])
  BY <1>1, <1>3, <1>4, Unmoved, NoTxType, Zenon DEF Handles
<1> QED
  BY <1>5, RequestStep

LEMMA CommitStep == ASSUME IInv, NEW c \in Clients, Commit(c) PROVE IInv'
<1>1. PICK ok \in BOOLEAN :
        /\ srv' = [srv EXCEPT ![c] = Finishes(srv[c], ok)]
        /\ applied' = IF ok THEN [applied EXCEPT ![c] = [done |-> TRUE, writes |-> tx[c].buffer]]
                      ELSE applied
        /\ tx' = [tx EXCEPT ![c] = NoTx]
  BY Zenon DEF Commit, Committed, CommitTx, EndTx
<1> DEFINE v == Finishes(srv[c], ok)
<1> DEFINE a == IF ok THEN [done |-> TRUE, writes |-> tx[c].buffer] ELSE applied[c]
<1>2. Received(c, "commit") /\ UNCHANGED <<catalogVars, clientVars, link, resp, qs, excused>>
  BY DEF Commit
<1>3. srv[c].at = "serving" /\ srv[c] \in Servers /\ req'[c] = Tail(req[c])
  BY <1>2, ReceivedFacts
<1>4. v \in Servers /\ v.at = "serving" /\ v.out = <<CommitResult(ok)>>
  BY <1>3, FinishesFields, Zenon
<1>5. applied' = [applied EXCEPT ![c] = a]
  BY <1>1, Unmoved, Zenon
<1>6. /\ a \in Outcomes
      /\ ok => a.done /\ a.writes = tx[c].buffer
      /\ ~ok => a = applied[c]
  BY Unmoved DEF Outcomes, Txs
<1> HIDE DEF v, a
<1>7. srv'[c] = v /\ applied'[c] = a
  BY <1>1, <1>5 DEF v, IInv, Owned, ServerShapes, Sessions
<1>8. ASSUME Closing(c) PROVE Concluding(c)'
  <2>1. /\ Tail(req[c]) = <<>> /\ Answered(c) \subseteq tx[c].buffer /\ ~applied[c].done
        /\ resp[c] = <<>>
    BY <1>3, <1>8, Single, Zenon DEF Closing, Undecided, Held, Nothing
  <2>2. /\ cl'[c] = cl[c] /\ call'[c] = call[c] /\ link'[c] = link[c] /\ resp'[c] = resp[c]
        /\ NoneInFlight(c)' /\ Answered(c)' = Answered(c)
    BY <1>2, <1>8, Zenon
    DEF clientVars, Closing, Concluding, NoneInFlight, InFlight, Answered
  <2>3. One(c, CommitResult(ok))' /\ Sent(c, <<>>)' /\ TaskAt(c, "serving")'
    BY <1>3, <1>4, <1>7, <2>1, <2>2, Zenon DEF One, Sent, TaskAt
  <2>4. CASE ok
    BY <1>6, <1>7, <1>8, <2>1, <2>2, <2>3, <2>4, Zenon DEF Closing, Concluding
  <2>5. CASE ~ok
    BY <1>6, <1>7, <1>8, <2>1, <2>2, <2>3, <2>5, Zenon DEF Closing, Concluding
  <2> QED
    BY <2>4, <2>5
<1>9. "mixed" \notin excused[c] /\ ~Over(c) => Phase(c)'
  BY <1>2, <1>8, ReceivedCommit, Zenon DEF Phase
<1>10. Handles(c, "commit", v, NoTx, a)
  BY <1>1, <1>2, <1>4, <1>5, <1>6, <1>9, NoTxType, Zenon DEF Handles, v
<1> QED
  BY <1>10, RequestStep

\* A step of the task that reads no request, and what remains to be shown for it.
Works(c, v, t, rs, rq, e) ==
    /\ cl[c].at # "idle"
    /\ v \in Servers /\ t \in Txs /\ rs \in Seq(Messages) /\ Len(rs) <= ChannelCap
    /\ rq \in {req[c], <<>>} /\ e \in SUBSET Reasons /\ excused[c] \subseteq e
    /\ srv' = [srv EXCEPT ![c] = v] /\ tx' = [tx EXCEPT ![c] = t]
    /\ req' = [req EXCEPT ![c] = rq] /\ resp' = [resp EXCEPT ![c] = rs]
    /\ excused' = [excused EXCEPT ![c] = e]
    /\ UNCHANGED <<catalogVars, clientVars, link, qs, applied>>
    /\ v.at = "starting" => srv[c].at = "starting" /\ v.finished = srv[c].finished /\ v.db = srv[c].db
    /\ v.at = "ended" => v.out = <<>>
    /\ t.db # 0 => v.at \in {"serving", "executing"} /\ ~v.finished
    /\ t.db # 0 => tx[c].db # 0 \/ srv[c].at = "starting"
    /\ srv[c].at = "ended" => v.at = "ended"
    /\ Cleared(c)'
    /\ "mixed" \notin e /\ ~Over(c) => Phase(c)'

LEMMA WorkStep ==
    ASSUME IInv, NEW c \in Clients, NEW v, NEW t, NEW rs, NEW rq, NEW e, Works(c, v, t, rs, rq, e)
    PROVE  IInv'
<1>0. req[c] \in Seq(Requests) /\ <<>> \in Seq(Requests)
  BY DEF IInv, Owned, WireShapes
<1> USE DEF Works
<1>1. c \in Sessions /\ c \in Sessions \cup {"catalog"} /\ rq \in Seq(Requests)
  BY <1>0, Zenon DEF Sessions
<1>2. WireShapes' /\ req'[c] = rq /\ resp'[c] = rs
  BY <1>1, Zenon DEF IInv, Owned, WireShapes
<1>3. ClientShapes' /\ UNCHANGED <<cl, call, got, link>>
  BY DEF IInv, Owned, ClientShapes, clientVars
<1>4. CatalogShapes' /\ excused'[c] = e
  BY <1>1 DEF IInv, Owned, CatalogShapes, catalogVars
<1>5. ServerShapes' /\ srv'[c] = v /\ tx'[c] = t
  BY <1>1 DEF IInv, Owned, ServerShapes
<1>6. Alone(c)
  BY <1>1, Zenon
  DEF IInv, Owned, ServerShapes, WireShapes, CatalogShapes, Alone, catalogVars, clientVars
<1>7. Stream(c)'
  <2>1. Stream(c) /\ UNCHANGED created
    BY DEF IInv, Owned, catalogVars
  <2>2. /\ cl'[c] = cl[c] /\ cl[c].at # "idle" /\ srv'[c] = v /\ tx'[c] = t /\ req'[c] = rq
        /\ v.at = "starting" => srv[c].at = "starting" /\ v.finished = srv[c].finished /\ v.db = srv[c].db
        /\ v.at = "ended" => v.out = <<>>
        /\ t.db # 0 => v.at \in {"serving", "executing"} /\ ~v.finished
        /\ t.db # 0 => tx[c].db # 0 \/ srv[c].at = "starting"
    BY <1>2, <1>3, <1>5, Zenon
  <2>3. \A i \in DOMAIN rq : i \in DOMAIN req[c] /\ rq[i] = req[c][i]
    OBVIOUS
  <2>4. \A i \in DOMAIN rq : rq[i].op = "start" => i = 1 /\ tx[c].db = 0 /\ srv[c].at # "starting"
    BY <2>1, <2>3, Zenon DEF Stream
  <2>5. v.at = "starting" => ~v.finished /\ v.db \in 1 .. created
    BY <2>1, <2>2, Zenon DEF Stream
  <2> QED
    BY <2>1, <2>2, <2>4, <2>5, Zenon DEF Stream
<1>8. Over(c) => Over(c)'
  <2>1. NoCommit(c) => NoCommit(c)'
    BY <1>2 DEF NoCommit
  <2> QED
    BY <1>3, <1>5, <2>1, OverStays
<1>9. Paired(c)'
  BY <1>3, <1>4, <1>8 DEF IInv, Protocol, Paired, Phase
<1> QED
  BY <1>2, <1>3, <1>4, <1>5, <1>6, <1>7, <1>9, AloneStep DEF Shapes

LEMMA OnTheWire ==
    ASSUME IInv, NEW c \in Clients
    PROVE  /\ req[c] \in Seq(Requests) /\ resp[c] \in Seq(Messages) /\ Len(resp[c]) <= ChannelCap
           /\ excused[c] \in SUBSET Reasons
           /\ UNCHANGED req => req' = [req EXCEPT ![c] = req[c]]
           /\ UNCHANGED resp => resp' = [resp EXCEPT ![c] = resp[c]]
           /\ UNCHANGED excused => excused' = [excused EXCEPT ![c] = excused[c]]
BY DEF IInv, Owned, WireShapes, CatalogShapes, Sessions

LEMMA StartBeginStep ==
    ASSUME IInv, NEW c \in Clients, NEW registers \in BOOLEAN, StartBegin(c, registers)
    PROVE  IInv'
<1> DEFINE d == srv[c].db
<1> DEFINE v == Goes(srv[c], "serving", <<QueryFinished(None)>>)
<1> DEFINE t == [db |-> d, registered |-> registers, buffer |-> {}]
<1> DEFINE e == excused[c] \cup (IF live = d THEN {} ELSE {"late"})
<1>1. /\ srv[c].at = "starting" /\ srv' = [srv EXCEPT ![c] = v] /\ tx' = [tx EXCEPT ![c] = t]
      /\ excused' = [excused EXCEPT ![c] = e]
      /\ UNCHANGED <<catalogVars, clientVars, wireVars, qs, applied>>
  BY DEF StartBegin, BeginTx, Excuse
<1>2. /\ ~srv[c].finished /\ d \in 1 .. created /\ d \in Dbs /\ d # 0
      /\ cl[c].at # "idle" /\ srv[c] \in Servers
  <2>1. /\ Stream(c) /\ srv[c] \in Servers /\ created \in Dbs
    BY DEF IInv, Owned, ServerShapes, CatalogShapes
  <2>2. /\ ~srv[c].finished /\ d \in 1 .. created /\ cl[c].at # "idle"
    BY <1>1, <2>1, Zenon DEF Stream
  <2>3. d \in Dbs /\ d # 0
    BY <2>1, <2>2, CreatedDbs, Zenon
  <2> QED
    BY <2>1, <2>2, <2>3
<1>3. "serving" \in Places /\ <<QueryFinished(None)>> \in Seq(Messages)
  BY AnswerTypes DEF Places, Numbers
<1>4. v \in Servers
  BY <1>2, <1>3, GoesType, Zenon
<1>5. v.at = "serving" /\ v.out = <<QueryFinished(None)>> /\ v.finished = srv[c].finished
  BY <1>2, Zenon DEF Goes, Servers
<1>6. t \in Txs /\ t.db = d /\ e \in SUBSET Reasons /\ excused[c] \subseteq e
  BY <1>2, OnTheWire DEF Txs, Reasons
<1> HIDE DEF v
<1>7. /\ srv'[c] = v /\ tx'[c] = t /\ excused'[c] = e /\ UNCHANGED <<req, resp, link>>
      /\ UNCHANGED <<cl, call, got, applied, live, closed, dropper>>
  BY <1>1, Zenon
  DEF IInv, Owned, ServerShapes, CatalogShapes, Sessions, wireVars, clientVars, catalogVars
<1>8. Cleared(c)'
  <2>1. (live # 0 => live \notin Doomed) /\ Doomed' = Doomed
    BY <1>7, Zenon DEF IInv, Dropping, Doomed
  <2> QED
    BY <1>2, <1>6, <1>7, <2>1, Zenon DEF Cleared
<1> HIDE DEF t, e
<1>9. "mixed" \notin e /\ ~Over(c) => Phase(c)'
  <2> SUFFICES ASSUME "mixed" \notin e, ~Over(c) PROVE Beginning(c)'
    BY DEF Phase
  <2>1. Beginning(c)
    <3>1. Phase(c)
      BY <1>6 DEF IInv, Protocol, Paired
    <3>2. ~Fresh(c) /\ ~Resting(c) /\ ~Concluding(c)
      BY <1>1, Zenon DEF Fresh, Resting, Concluding, TaskAt
    <3>3. \A k \in Calls : ~Asking(c, k)
      BY <1>1, Zenon DEF Asking, Awaiting, Halfway, TaskAt
    <3> QED
      BY <3>1, <3>2, <3>3 DEF Phase
  <2> QED
    BY <1>1, <1>2, <1>5, <1>7, <2>1, Zenon
    DEF Beginning, TaskAt, Sent, Nothing, One, Undecided, Held, Answered
<1>10. Works(c, v, t, resp[c], req[c], e)
  <2>1. /\ req' = [req EXCEPT ![c] = req[c]] /\ resp' = [resp EXCEPT ![c] = resp[c]]
        /\ resp[c] \in Seq(Messages) /\ Len(resp[c]) <= ChannelCap
    BY <1>7, OnTheWire
  <2> QED
    BY <1>1, <1>2, <1>4, <1>5, <1>6, <1>7, <1>8, <1>9, <2>1, Zenon DEF Works, v
<1> QED
  BY <1>10, WorkStep

LEMMA LeaveStep == ASSUME IInv, NEW c \in Clients, Leave(c) PROVE IInv'
<1> DEFINE v == Goes(srv[c], "ended", <<>>)
<1>1. /\ srv[c].at = "leaving" /\ srv[c].out = <<>> /\ srv' = [srv EXCEPT ![c] = v]
      /\ UNCHANGED <<catalogVars, clientVars, wireVars, tx, qs, applied, excused>>
  BY Zenon DEF Leave, End
<1>2. srv[c] \in Servers /\ tx[c].db = 0 /\ cl[c].at # "idle"
  BY <1>1, Zenon DEF IInv, Owned, Stream, ServerShapes
<1>3. "ended" \in Places /\ <<>> \in Seq(Messages)
  BY DEF Places
<1>4. v \in Servers
  BY <1>2, <1>3, GoesType, Zenon
<1>5. v.at = "ended" /\ v.out = <<>> /\ v.finished = srv[c].finished
  BY <1>2, Zenon DEF Goes, Servers
<1> HIDE DEF v
<1>6. /\ srv'[c] = v /\ UNCHANGED <<req, resp, link, tx, excused>>
      /\ UNCHANGED <<cl, call, got, applied, live, closed, dropper>>
  BY <1>1, Zenon DEF IInv, Owned, ServerShapes, wireVars, clientVars, catalogVars
<1>7. Cleared(c)'
  BY <1>2, <1>6 DEF Cleared
<1>8. "mixed" \notin excused[c] /\ ~Over(c) => Phase(c)'
  <2> SUFFICES ASSUME "mixed" \notin excused[c], ~Over(c) PROVE Phase(c)'
    OBVIOUS
  <2>1. Beginning(c) \/ \E k \in Calls : Asking(c, k)
    BY <1>1, Zenon
    DEF IInv, Protocol, Paired, Phase, Fresh, Resting, Concluding, TaskAt
  <2>2. CASE Beginning(c)
    <3>1. Beginning(c)'
      BY <1>1, <1>5, <1>6, <2>2, Zenon
      DEF Beginning, TaskAt, Sent, Nothing, One, CutShort, Undecided, Held
    <3> QED
      BY <3>1, Zenon DEF Phase
  <2>3. ASSUME NEW k \in Calls, Asking(c, k) PROVE Asking(c, k)'
    BY <1>1, <1>5, <1>6, <2>3, Zenon
    DEF Asking, Awaiting, Halfway, TaskAt, Sent, Nothing, One, Two, CutShort, Undecided, Held, InFlight
  <2> QED
    BY <2>1, <2>2, <2>3, Zenon DEF Phase
<1>9. Works(c, v, tx[c], resp[c], req[c], excused[c])
  BY <1>1, <1>2, <1>4, <1>5, <1>6, <1>7, <1>8, Unmoved, OnTheWire, Zenon DEF Works
<1> QED
  BY <1>9, WorkStep, Zenon

LEMMA StreamEndsStep == ASSUME IInv, NEW c \in Clients, StreamEnds(c) PROVE IInv'
<1> DEFINE v == Goes(srv[c], "ended", <<>>)
<1>1. /\ srv[c].at = "serving" /\ link[c] = "down" /\ srv' = [srv EXCEPT ![c] = v]
      /\ tx' = [tx EXCEPT ![c] = NoTx] /\ req' = [req EXCEPT ![c] = <<>>]
      /\ UNCHANGED <<catalogVars, clientVars, link, resp, qs, applied, excused>>
  BY Zenon, Zenon DEF StreamEnds, End, EndTx, Serving
<1>2. srv[c] \in Servers /\ cl[c].at # "idle"
  BY <1>1, Zenon DEF IInv, Owned, Stream, ServerShapes
<1>3. "ended" \in Places /\ <<>> \in Seq(Messages)
  BY DEF Places
<1>4. v \in Servers
  BY <1>2, <1>3, GoesType, Zenon
<1>5. v.at = "ended" /\ v.out = <<>> /\ v.finished = srv[c].finished
  BY <1>2, Zenon DEF Goes, Servers
<1> HIDE DEF v
<1>6. Cleared(c)'
  <2>1. tx'[c] = NoTx
    BY <1>1 DEF IInv, Owned, ServerShapes, Sessions
  <2> QED
    BY <2>1, NoTxType DEF Cleared
<1>7. "mixed" \notin excused[c] => Over(c)
  BY <1>1, Zenon
  DEF IInv, Protocol, Paired, Phase, Fresh, Beginning, Resting, Concluding, Asking
<1>8. Works(c, v, NoTx, resp[c], <<>>, excused[c])
  BY <1>1, <1>2, <1>4, <1>5, <1>6, <1>7, OnTheWire, NoTxType, Zenon DEF Works
<1> QED
  BY <1>8, WorkStep, Zenon

\* The blocking task of a statement returns.
LEMMA ExecutedPhase ==
    ASSUME IInv, NEW c \in Clients, srv[c].at = "executing", "mixed" \notin excused[c], ~Over(c)
    PROVE  \E k \in Calls : /\ Asking(c, k) /\ srv[c].for = k
                            /\ call[c][k] \in {"sent", "reading"} /\ got[c][k] = <<>>
                            /\ req[c] = <<>> /\ Nothing(c)
<1>1. Phase(c)
  BY DEF IInv, Protocol, Paired
<1>2. ~Fresh(c) /\ ~Resting(c) /\ ~Concluding(c) /\ ~Beginning(c)
  BY Zenon DEF Fresh, Resting, Concluding, Beginning, TaskAt
<1>3. PICK k \in Calls : Asking(c, k)
  BY <1>1, <1>2, Zenon DEF Phase
<1>4. /\ srv[c].for = k /\ call[c][k] \in {"sent", "reading"} /\ got[c][k] = <<>>
      /\ req[c] = <<>> /\ Nothing(c)
  BY <1>3, Zenon DEF Asking, Awaiting, Halfway, TaskAt, Sent
<1> QED
  BY <1>3, <1>4

LEMMA ExecutedStep == ASSUME IInv, NEW c \in Clients, Executed(c) PROVE IInv'
<1> DEFINE k == srv[c].for
<1>1. /\ srv[c].at = "executing"
      /\ UNCHANGED <<catalogVars, clientVars, wireVars, qs, applied, excused>>
  BY DEF Executed
<1>2. /\ UNCHANGED <<req, resp, link, excused>>
      /\ UNCHANGED <<cl, call, got, applied, live, closed, dropper>>
  BY <1>1 DEF wireVars, clientVars, catalogVars
<1>3. srv[c] \in Servers /\ tx[c] \in Txs /\ cl[c].at # "idle" /\ k \in Numbers /\ c \in Sessions
  BY <1>1, Zenon DEF IInv, Owned, Stream, ServerShapes, Servers, Sessions
<1>4. "serving" \in Places /\ "leaving" \in Places
  BY DEF Places
<1>5. CASE /\ tx' = [tx EXCEPT ![c].buffer = @ \cup {k}]
           /\ srv' = [srv EXCEPT ![c] = Goes(srv[c], "serving", <<QueryResult(k), QueryFinished(k)>>)]
  <2> DEFINE o == <<QueryResult(k), QueryFinished(k)>>
  <2> DEFINE v == Goes(srv[c], "serving", o)
  <2> DEFINE t == [tx[c] EXCEPT !.buffer = @ \cup {k}]
  <2>1. o \in Seq(Messages)
    BY <1>3, AnswerTypes
  <2> HIDE DEF o
  <2>2. v \in Servers /\ v.at = "serving" /\ v.out = o /\ v.finished = srv[c].finished
    <3>1. v \in Servers
      BY <1>3, <1>4, <2>1, GoesType
    <3> QED
      BY <1>3, <3>1, Zenon DEF Goes, Servers
  <2>3. t \in Txs /\ t.db = tx[c].db /\ t.registered = tx[c].registered /\ t.buffer = tx[c].buffer \cup {k}
    BY <1>3 DEF Txs
  <2>4. srv' = [srv EXCEPT ![c] = v] /\ tx' = [tx EXCEPT ![c] = t]
    BY <1>5 DEF o
  <2> HIDE DEF v, t
  <2>5. srv'[c] = v /\ tx'[c] = t
    BY <1>3, <2>4 DEF IInv, Owned, ServerShapes
  <2>6. Cleared(c)'
    BY <1>2, <1>3, <2>3, <2>5, Zenon DEF Cleared, Doomed, IInv, Dropping
  <2>7. "mixed" \notin excused[c] /\ ~Over(c) => Phase(c)'
    <3> SUFFICES ASSUME "mixed" \notin excused[c], ~Over(c) PROVE \E j \in Calls : Asking(c, j)'
      BY Zenon DEF Phase
    <3>1. PICK j \in Calls : /\ Asking(c, j) /\ k = j
                             /\ call[c][j] \in {"sent", "reading"} /\ got[c][j] = <<>>
                             /\ req[c] = <<>> /\ Nothing(c)
      BY <1>1, ExecutedPhase
    <3>2. Two(c, QueryResult(j), QueryFinished(j))' /\ HeldToo(c, j)' /\ Held(c)'
      BY <1>1, <1>2, <2>2, <2>3, <2>5, <3>1, Zenon
      DEF Two, Nothing, HeldToo, Held, Answered, Asking, Undecided, o
    <3>3. Undecided(c)' /\ Sent(c, <<>>)' /\ TaskAt(c, "serving")'
      BY <1>2, <2>2, <2>5, <3>1, <3>2, Zenon DEF Undecided, Sent, TaskAt, Asking
    <3> QED
      BY <1>2, <3>1, <3>2, <3>3, Zenon DEF Asking, Awaiting, InFlight
  <2>8. Works(c, v, t, resp[c], req[c], excused[c])
    BY <1>1, <1>2, <1>3, <2>2, <2>3, <2>4, <2>6, <2>7, Unmoved, OnTheWire, Zenon
    DEF Works
  <2> QED
    BY <2>8, WorkStep
<1>6. CASE UNCHANGED tx /\ srv' = [srv EXCEPT ![c] = Goes(srv[c], "serving", ErrorAnswer(k))]
  <2> DEFINE v == Goes(srv[c], "serving", ErrorAnswer(k))
  <2>1. ErrorAnswer(k) = <<ErrorMessage(k), QueryFinished(k)>> /\ ErrorAnswer(k) \in Seq(Messages)
    BY <1>3, AnswerTypes, Zenon DEF ErrorAnswer
  <2>2. v \in Servers /\ v.at = "serving" /\ v.out = ErrorAnswer(k) /\ v.finished = srv[c].finished
    <3>1. v \in Servers
      BY <1>3, <1>4, <2>1, GoesType, Zenon
    <3> QED
      BY <1>3, <3>1, Zenon DEF Goes, Servers
  <2> HIDE DEF v
  <2>3. srv' = [srv EXCEPT ![c] = v] /\ srv'[c] = v
    BY <1>6 DEF IInv, Owned, ServerShapes, v
  <2>4. Cleared(c)'
    BY <1>2, <1>3, <1>6, Zenon DEF Cleared, Doomed, IInv, Dropping
  <2>5. "mixed" \notin excused[c] /\ ~Over(c) => Phase(c)'
    <3> SUFFICES ASSUME "mixed" \notin excused[c], ~Over(c) PROVE \E j \in Calls : Asking(c, j)'
      BY Zenon DEF Phase
    <3>1. PICK j \in Calls : /\ Asking(c, j) /\ k = j
                             /\ call[c][j] \in {"sent", "reading"} /\ got[c][j] = <<>>
                             /\ req[c] = <<>> /\ Nothing(c)
      BY <1>1, ExecutedPhase
    <3>2. Two(c, ErrorMessage(j), QueryFinished(j))' /\ Held(c)'
      BY <1>1, <1>2, <1>6, <2>1, <2>2, <2>3, <3>1, Zenon
      DEF Two, Nothing, Held, Answered, Asking, Undecided
    <3>3. Undecided(c)' /\ Sent(c, <<>>)' /\ TaskAt(c, "serving")'
      BY <1>2, <2>2, <2>3, <3>1, <3>2, Zenon DEF Undecided, Sent, TaskAt, Asking
    <3> QED
      BY <1>2, <3>1, <3>2, <3>3, Zenon DEF Asking, Awaiting, InFlight
  <2>6. Works(c, v, tx[c], resp[c], req[c], excused[c])
    BY <1>1, <1>2, <1>3, <1>6, <2>2, <2>3, <2>4, <2>5, Unmoved, OnTheWire, Zenon DEF Works
  <2> QED
    BY <2>6, WorkStep
<1>7. CASE EndTx(c) /\ srv' = [srv EXCEPT ![c] = Goes(srv[c], "leaving", <<ErrorMessage(k)>>)]
  <2> DEFINE v == Goes(srv[c], "leaving", <<ErrorMessage(k)>>)
  <2>1. <<ErrorMessage(k)>> \in Seq(Messages)
    BY <1>3, AnswerTypes
  <2>2. v \in Servers /\ v.at = "leaving" /\ v.out = <<ErrorMessage(k)>> /\ v.finished = srv[c].finished
    <3>1. v \in Servers
      BY <1>3, <1>4, <2>1, GoesType, Zenon
    <3> QED
      BY <1>3, <3>1, Zenon DEF Goes, Servers
  <2>3. srv' = [srv EXCEPT ![c] = v] /\ tx' = [tx EXCEPT ![c] = NoTx]
    BY <1>7 DEF EndTx
  <2> HIDE DEF v
  <2>4. srv'[c] = v /\ tx'[c] = NoTx
    BY <1>3, <2>3, Zenon DEF IInv, Owned, ServerShapes
  <2>5. Cleared(c)'
    BY <2>4, NoTxType DEF Cleared
  <2>6. "mixed" \notin excused[c] /\ ~Over(c) => Phase(c)'
    <3> SUFFICES ASSUME "mixed" \notin excused[c], ~Over(c) PROVE \E j \in Calls : Asking(c, j)'
      BY DEF Phase
    <3>1. PICK j \in Calls : /\ Asking(c, j) /\ k = j
                             /\ call[c][j] \in {"sent", "reading"} /\ got[c][j] = <<>>
                             /\ req[c] = <<>> /\ Nothing(c)
      BY <1>1, ExecutedPhase
    <3>2. One(c, ErrorMessage(j))' /\ Held(c)'
      BY <1>2, <2>2, <2>4, <3>1, Zenon DEF One, Nothing, Held
    <3>3. Undecided(c)' /\ Sent(c, <<>>)' /\ TaskAt(c, "leaving")'
      BY <1>2, <2>2, <2>4, <3>1, <3>2, Zenon DEF Undecided, Sent, TaskAt, Asking
    <3> QED
      BY <1>2, <3>1, <3>2, <3>3, Zenon DEF Asking, Awaiting, InFlight
  <2>7. Works(c, v, NoTx, resp[c], req[c], excused[c])
    BY <1>1, <1>2, <1>3, <2>2, <2>3, <2>5, <2>6, NoTxType, OnTheWire DEF Works
  <2> QED
    BY <2>7, WorkStep, Zenon
<1> QED
  BY <1>5, <1>6, <1>7 DEF Executed

LEMMA PushStep == ASSUME IInv, NEW c \in Clients, Push(c) PROVE IInv'
<1>1. srv[c].out # <<>> /\ UNCHANGED <<catalogVars, clientVars, link, req, qs, applied, excused>>
  BY DEF Push
<1>2. /\ UNCHANGED <<req, link, excused, cl, call, got, applied, live, closed, dropper>>
  BY <1>1 DEF clientVars, catalogVars
<1>3. srv[c] \in Servers /\ tx[c] \in Txs /\ c \in Sessions /\ link[c] # "none" => cl[c].at # "idle"
  BY Zenon DEF IInv, Owned, Stream, ServerShapes, Sessions
<1>4. /\ srv[c] \in Servers /\ tx[c] \in Txs /\ c \in Sessions /\ srv[c].out \in Seq(Messages)
      /\ srv[c].at \in Places /\ srv[c].at # "ended"
  BY <1>1, Zenon DEF IInv, Owned, ServerShapes, Servers, Sessions, Stream
<1> DEFINE o == srv[c].out
<1>5. Head(o) \in Messages /\ Tail(o) \in Seq(Messages)
  BY <1>1, <1>4, TailFacts, Zenon
<1> DEFINE v == [srv[c] EXCEPT !.out = Tail(o)]
<1>6. /\ v \in Servers /\ v.at = srv[c].at /\ v.out = Tail(o) /\ v.finished = srv[c].finished
      /\ v.db = srv[c].db
  BY <1>4, <1>5 DEF Servers
<1> HIDE DEF v
<1>7. link[c] = "down" /\ "mixed" \notin excused[c] => Over(c)
  BY Zenon DEF IInv, Protocol, Paired, Phase, Fresh, Beginning, Resting, Concluding, Asking
<1>8. UNCHANGED tx => Cleared(c)'
  BY <1>2, <1>4, Zenon DEF Cleared, Doomed, IInv, Dropping
<1>9. CASE /\ link[c] = "up" /\ Len(resp[c]) < ChannelCap
           /\ resp' = [resp EXCEPT ![c] = Append(@, Head(o))]
           /\ srv' = [srv EXCEPT ![c].out = Tail(@)]
           /\ UNCHANGED tx
  <2>1. srv' = [srv EXCEPT ![c] = v] /\ resp' = [resp EXCEPT ![c] = Append(resp[c], Head(o))]
    BY <1>9 DEF v
  <2>2. srv'[c] = v /\ resp'[c] = Append(resp[c], Head(o))
    BY <2>1 DEF IInv, Owned, ServerShapes, WireShapes
  <2>3. Append(resp[c], Head(o)) \in Seq(Messages) /\ Len(Append(resp[c], Head(o))) <= ChannelCap
    <3>1. resp[c] \in Seq(Messages) /\ ChannelCap \in Nat
      BY SessionsAssumption, OnTheWire
    <3> QED
      BY <1>5, <1>9, <3>1
  <2>4. Sends(c)
    BY <1>1, <1>6, <2>2 DEF Sends
  <2>5. "mixed" \notin excused[c] /\ ~Over(c) => Phase(c)'
    <3> SUFFICES ASSUME "mixed" \notin excused[c], ~Over(c) PROVE Phase(c)'
      OBVIOUS
    <3>1. Phase(c) /\ ~Fresh(c) /\ ~Resting(c)
      BY <1>1, Zenon DEF IInv, Protocol, Paired, Fresh, Resting, Nothing
    <3>2. /\ Undecided(c)' <=> Undecided(c)
          /\ Answered(c)' = Answered(c) /\ NoneInFlight(c)' = NoneInFlight(c)
          /\ \A x : TaskAt(c, x) => TaskAt(c, x)'
          /\ \A x : Sent(c, x) => Sent(c, x)'
          /\ \A k : HeldToo(c, k) => HeldToo(c, k)'
      BY <1>2, <1>6, <1>9, <2>2
      DEF Undecided, Held, Answered, NoneInFlight, InFlight, TaskAt, Sent, HeldToo
    <3>3. ~Nothing(c)
      BY <1>1 DEF Nothing
    <3>4. \A m : One(c, m) => One(c, m)'
      BY <2>4, SendsOne
    <3>5. \A m, n : Two(c, m, n) => Two(c, m, n)'
      BY <2>4, SendsTwo
    <3>6. Beginning(c) => Beginning(c)'
      BY <1>2, <3>2, <3>3, <3>4, Zenon DEF Beginning
    <3>7. Concluding(c) => Concluding(c)'
      BY <1>2, <3>2, <3>3, <3>4, Zenon DEF Concluding
    <3>8. \A k \in Calls : Asking(c, k) => Asking(c, k)'
      BY <1>2, <3>2, <3>3, <3>4, <3>5, Zenon DEF Asking, Awaiting, Halfway, InFlight
    <3> QED
      BY <3>1, <3>6, <3>7, <3>8, Zenon DEF Phase
  <2>6. Works(c, v, tx[c], Append(resp[c], Head(o)), req[c], excused[c])
    BY <1>1, <1>2, <1>3, <1>4, <1>6, <1>8, <1>9, <2>1, <2>3, <2>5, Unmoved, OnTheWire, Zenon
    DEF Works
  <2> QED
    BY <2>6, WorkStep, Zenon
<1>10. CASE link[c] = "down" /\ End(c) /\ EndTx(c) /\ UNCHANGED resp
  <2> DEFINE w == Goes(srv[c], "ended", <<>>)
  <2>1. "ended" \in Places /\ <<>> \in Seq(Messages)
    BY DEF Places
  <2>2. w \in Servers /\ w.at = "ended" /\ w.out = <<>>
    <3>1. w \in Servers
      BY <1>4, <2>1, GoesType, Zenon
    <3> QED
      BY <1>4, <3>1, Zenon DEF Goes, Servers
  <2>3. srv' = [srv EXCEPT ![c] = w] /\ tx' = [tx EXCEPT ![c] = NoTx]
    BY <1>10 DEF End, EndTx
  <2> HIDE DEF w
  <2>4. Cleared(c)'
    <3>1. tx'[c] = NoTx
      BY <1>4, <2>3 DEF IInv, Owned, ServerShapes
    <3> QED
      BY <3>1, NoTxType DEF Cleared
  <2>5. Works(c, w, NoTx, resp[c], req[c], excused[c])
    BY <1>1, <1>2, <1>3, <1>4, <1>7, <1>10, <2>2, <2>3, <2>4, NoTxType, OnTheWire DEF Works
  <2> QED
    BY <2>5, WorkStep, Zenon
<1>11. CASE link[c] = "down" /\ srv' = [srv EXCEPT ![c].out = Tail(@)] /\ UNCHANGED <<resp, tx>>
  <2>1. srv' = [srv EXCEPT ![c] = v]
    BY <1>11 DEF v
  <2>2. Works(c, v, tx[c], resp[c], req[c], excused[c])
    BY <1>1, <1>2, <1>3, <1>4, <1>6, <1>7, <1>8, <1>11, <2>1, Unmoved, OnTheWire, Zenon
    DEF Works
  <2> QED
    BY <2>2, WorkStep
<1> QED
  BY <1>9, <1>10, <1>11 DEF Push

-----------------------------------------------------------------------------
(***************************************************************************)
(* The remote client: a call and the response stream.                      *)
(***************************************************************************)
LEMMA InFlightAsking ==
    ASSUME IInv, NEW c \in Clients, NEW k \in Calls, InFlight(c, k), "mixed" \notin excused[c]
    PROVE  Asking(c, k)
<1>1. Phase(c)
  BY DEF IInv, Protocol, Paired
<1>2. ~Fresh(c) /\ ~Beginning(c) /\ ~Resting(c) /\ ~Concluding(c) /\ ~Over(c)
  BY Zenon, Zenon DEF Fresh, Beginning, Resting, Concluding, Over, NoneInFlight, InFlight
<1>3. PICK j \in Calls : Asking(c, j)
  BY <1>1, <1>2, Zenon DEF Phase
<1>4. j = k
  BY <1>3 DEF Asking
<1> QED
  BY <1>3, <1>4

\* A step of a call, and what remains to be shown for it.
Reads(c, k, x, g, rs, e) ==
    /\ x \in Progress \ {"unsent"} /\ g \in Seq(Numbers) /\ rs \in Seq(Messages) /\ Len(rs) <= ChannelCap
    /\ e \in SUBSET Reasons /\ excused[c] \subseteq e
    /\ cl[c].at = "idle" => rs = <<>>
    /\ call' = [call EXCEPT ![c][k] = x] /\ got' = [got EXCEPT ![c][k] = g]
    /\ resp' = [resp EXCEPT ![c] = rs] /\ excused' = [excused EXCEPT ![c] = e]
    /\ UNCHANGED <<catalogVars, cl, link, req, tx, srv, qs, applied>>
    /\ "mixed" \notin e => (x = "answered" => g = <<k>>) /\ Phase(c)'

LEMMA ReadsStep ==
    ASSUME IInv, NEW c \in Clients, NEW k \in Calls, NEW x, NEW g, NEW rs, NEW e,
           Reads(c, k, x, g, rs, e)
    PROVE  IInv'
<1> USE DEF Reads
<1>1. c \in Sessions /\ c \in Sessions \cup {"catalog"}
  BY DEF Sessions
<1>2. WireShapes' /\ resp'[c] = rs
  BY DEF IInv, Owned, WireShapes
<1>3. /\ call \in [Clients -> [Calls -> Progress]]
      /\ got \in [Clients -> [Calls -> Seq(Numbers)]]
      /\ cl \in [Clients -> Remotes]
  BY DEF IInv, Owned, ClientShapes
<1>4. ClientShapes'
  BY <1>3 DEF ClientShapes
<1>5. /\ call'[c][k] = x /\ got'[c][k] = g
      /\ \A j \in Calls \ {k} : call'[c][j] = call[c][j] /\ got'[c][j] = got[c][j]
      /\ \A d \in Clients \ {c} : call'[d] = call[d] /\ got'[d] = got[d]
  BY <1>3
<1>6. CatalogShapes' /\ excused'[c] = e
  BY <1>1 DEF IInv, Owned, CatalogShapes, catalogVars
<1>7. ServerShapes'
  BY DEF IInv, Owned, ServerShapes
<1>8. Shapes'
  BY <1>2, <1>4, <1>6, <1>7, Zenon DEF Shapes
<1>9. Alone(c)
  BY <1>1, <1>5, Zenon DEF IInv, Owned, WireShapes, CatalogShapes, Alone, catalogVars
<1>10. Stream(c)'
  BY <1>2, Zenon DEF IInv, Owned, Stream, catalogVars
<1>11. Cleared(c)'
  <2>1. Cleared(c) /\ UNCHANGED <<tx, closed, dropper>> /\ excused[c] \subseteq excused'[c]
    BY <1>1, <1>6, Zenon DEF IInv, Dropping, catalogVars
  <2> QED
    BY <2>1, Zenon DEF Cleared, Doomed
<1>12. Paired(c)'
  BY <1>5, <1>6 DEF IInv, Protocol, Paired
<1> QED
  BY <1>8, <1>9, <1>10, <1>11, <1>12, AloneStep

LEMMA Unread ==
    ASSUME IInv, NEW c \in Clients, NEW k \in Calls
    PROVE  /\ resp[c] \in Seq(Messages) /\ Len(resp[c]) <= ChannelCap /\ got[c][k] \in Seq(Numbers)
           /\ excused[c] \in SUBSET Reasons
           /\ cl[c].at = "idle" => resp[c] = <<>>
           /\ UNCHANGED got => got' = [got EXCEPT ![c][k] = got[c][k]]
           /\ UNCHANGED resp => resp' = [resp EXCEPT ![c] = resp[c]]
           /\ UNCHANGED excused => excused' = [excused EXCEPT ![c] = excused[c]]
<1>1. /\ resp[c] \in Seq(Messages) /\ Len(resp[c]) <= ChannelCap
      /\ UNCHANGED resp => resp' = [resp EXCEPT ![c] = resp[c]]
      /\ excused[c] \in SUBSET Reasons
      /\ UNCHANGED excused => excused' = [excused EXCEPT ![c] = excused[c]]
  BY OnTheWire
<1>2. got \in [Clients -> [Calls -> Seq(Numbers)]] /\ (cl[c].at = "idle" => resp[c] = <<>>)
  BY DEF IInv, Owned, ClientShapes, Stream
<1>3. UNCHANGED got => got' = [got EXCEPT ![c][k] = got[c][k]]
  BY <1>2
<1> QED
  BY <1>1, <1>2, <1>3

LEMMA LockStreamStep == ASSUME IInv, NEW c \in Clients, NEW k \in Calls, LockStream(c, k) PROVE IInv'
<1>1. /\ call[c][k] = "sent" /\ call' = [call EXCEPT ![c][k] = "reading"]
      /\ UNCHANGED <<catalogVars, cl, got, link, req, resp, tx, srv, qs, applied, excused>>
  BY DEF LockStream, wireVars
<1>2. /\ call'[c][k] = "reading" /\ \A j \in Calls \ {k} : call'[c][j] = call[c][j]
  BY <1>1 DEF IInv, Owned, ClientShapes
<1>3. ASSUME "mixed" \notin excused[c] PROVE Asking(c, k)'
  <2>1. Asking(c, k) /\ Awaiting(c, k)
    BY <1>1, <1>3, InFlightAsking, Zenon DEF InFlight, Asking, Halfway
  <2>2. Answered(c)' = Answered(c)
    BY <1>1, <1>2 DEF Answered
  <2>3. Awaiting(c, k)'
    BY <1>1, <1>2, <2>1, Zenon
    DEF Awaiting, Sent, TaskAt, Nothing, One, Two, CutShort, HeldToo
  <2> QED
    BY <1>1, <1>2, <2>1, <2>2, <2>3 DEF Asking, Undecided, Held, InFlight
<1>4. Reads(c, k, "reading", got[c][k], resp[c], excused[c])
  BY <1>1, <1>3, Unread, Zenon DEF Reads, Progress, Phase
<1> QED
  BY <1>4, ReadsStep

LEMMA CancelCallStep == ASSUME IInv, NEW c \in Clients, NEW k \in Calls, CancelCall(c, k) PROVE IInv'
<1> DEFINE e == excused[c] \cup {"mixed"}
<1>1. /\ call' = [call EXCEPT ![c][k] = "cancelled"] /\ excused' = [excused EXCEPT ![c] = e]
      /\ UNCHANGED <<catalogVars, cl, got, link, req, resp, tx, srv, qs, applied>>
  BY DEF CancelCall, Excuse, wireVars
<1>2. e \in SUBSET Reasons /\ excused[c] \subseteq e /\ "mixed" \in e
  BY Unread DEF Reasons
<1> HIDE DEF e
<1>3. Reads(c, k, "cancelled", got[c][k], resp[c], e)
  BY <1>1, <1>2, Unread, Zenon DEF Reads, Progress
<1> QED
  BY <1>3, ReadsStep, Zenon

\* The call has come to its end: nothing is left of it on the wire.
LEMMA CallOver ==
    ASSUME IInv, NEW c \in Clients, NEW k \in Calls, Asking(c, k),
           call'[c][k] \in {"answered", "failed"},
           \A j \in Calls \ {k} : call'[c][j] = call[c][j],
           call'[c][k] = "answered" => HeldToo(c, k) /\ srv[c].at # "executing",
           UNCHANGED <<cl, link, req, tx, srv, applied>>,
           Sent(c, <<>>), TaskAt(c, "serving"), Nothing(c)'
    PROVE  Resting(c)'
<1>1. Answered(c)' \subseteq Answered(c) \cup {k} /\ NoneInFlight(c)'
  BY Zenon DEF Answered, NoneInFlight, InFlight, Asking
<1>2. k \in Answered(c)' => HeldToo(c, k)
  BY Zenon, Zenon DEF Answered
<1>3. Held(c)'
  BY <1>1, <1>2, Zenon DEF Asking, Undecided, Held, HeldToo, TaskAt
<1> QED
  BY <1>1, <1>3, Zenon DEF Asking, Resting, Undecided, Sent, TaskAt

LEMMA AtEndFacts ==
    ASSUME IInv, NEW c \in Clients, AtEnd(c), UNCHANGED <<resp, srv>>
    PROVE  Nothing(c)' /\ \A rs, x : Sent(c, rs) /\ TaskAt(c, x)
BY Zenon DEF IInv, Owned, Stream, AtEnd, Nothing, Sent, TaskAt

LEMMA TailShorter ==
    ASSUME IInv, NEW c \in Clients, resp[c] # <<>>
    PROVE  Tail(resp[c]) \in Seq(Messages) /\ Len(Tail(resp[c])) <= ChannelCap /\ Head(resp[c]) \in Messages
<1>1. /\ resp[c] \in Seq(Messages) /\ Len(resp[c]) <= ChannelCap /\ ChannelCap \in Nat
  BY SessionsAssumption DEF IInv, Owned, WireShapes
<1> QED
  BY <1>1

LEMMA SkipFinishedStep == ASSUME IInv, NEW c \in Clients, NEW k \in Calls, SkipFinished(c, k) PROVE IInv'
<1> DEFINE rs == IF resp[c] = <<>> THEN resp[c] ELSE Tail(resp[c])
<1>1. /\ call[c][k] = "skipping" /\ (resp[c] # <<>> \/ AtEnd(c))
      /\ call' = [call EXCEPT ![c][k] = "failed"] /\ resp' = [resp EXCEPT ![c] = rs]
      /\ UNCHANGED <<catalogVars, cl, got, link, req, tx, srv, qs, applied, excused>>
  BY DEF SkipFinished
<1>2. rs \in Seq(Messages) /\ Len(rs) <= ChannelCap /\ (cl[c].at = "idle" => rs = <<>>)
  BY Unread, TailShorter
<1>3. resp'[c] = rs /\ call'[c][k] = "failed" /\ \A j \in Calls \ {k} : call'[c][j] = call[c][j]
  BY <1>1 DEF IInv, Owned, ClientShapes, WireShapes
<1>4. ASSUME "mixed" \notin excused[c] PROVE Resting(c)'
  <2>1. Asking(c, k) /\ Halfway(c, k)
    BY <1>1, <1>4, InFlightAsking, Zenon DEF InFlight, Asking, Awaiting
  <2>2. CASE AtEnd(c)
    <3>1. UNCHANGED <<resp, srv>>
      <4>1. rs = resp[c]
        BY <2>2 DEF AtEnd
      <4> QED
        BY <1>1, <4>1 DEF IInv, Owned, WireShapes
    <3>2. Nothing(c)' /\ Sent(c, <<>>) /\ TaskAt(c, "serving")
      BY <2>2, <3>1, AtEndFacts
    <3> QED
      BY <1>1, <1>3, <2>1, <3>2, CallOver
  <2>3. CASE resp[c] # <<>>
    <3>1. Takes(c)
      BY <1>1, <1>3, <2>3 DEF Takes
    <3>2. One(c, QueryFinished(k)) /\ TaskAt(c, "serving") /\ Sent(c, <<>>)
      BY <1>1, <2>1, <2>3 DEF Halfway, Nothing
    <3>3. Nothing(c)'
      BY <3>1, <3>2, TakesOne
    <3> QED
      BY <1>1, <1>3, <2>1, <3>2, <3>3, CallOver
  <2> QED
    BY <1>1, <2>2, <2>3
<1> HIDE DEF rs
<1>5. Reads(c, k, "failed", got[c][k], rs, excused[c])
  BY <1>1, <1>2, <1>4, Unread, Zenon DEF Reads, Progress, Phase
<1> QED
  BY <1>5, ReadsStep

LEMMA MessageKinds ==
    \A k : /\ QueryResult(k).is = "result" /\ QueryResult(k).for = k
           /\ QueryFinished(k).is = "finished" /\ ErrorMessage(k).is = "error"
BY DEF QueryResult, QueryFinished, ErrorMessage

\* The state of a call after a message, and the results it has then.
HeardAs(m) == CASE m.is = "result" -> "reading" [] m.is = "finished" -> "answered"
              [] m.is = "error" -> AfterError [] OTHER -> "failed"

Hears(c, k, x, g) ==
    /\ call[c][k] = "reading" /\ resp[c] # <<>> /\ resp'[c] = Tail(resp[c])
    /\ x = HeardAs(Head(resp[c]))
    /\ g = IF Head(resp[c]).is = "result" THEN Append(got[c][k], Head(resp[c]).for) ELSE got[c][k]
    /\ call'[c][k] = x /\ got'[c][k] = g
    /\ \A j \in Calls \ {k} : call'[c][j] = call[c][j] /\ got'[c][j] = got[c][j]
    /\ UNCHANGED <<cl, link, req, tx, srv, applied, excused>>

LEMMA ReadMessage ==
    ASSUME IInv, NEW c \in Clients, NEW k \in Calls, NEW x, NEW g, Hears(c, k, x, g),
           "mixed" \notin excused[c]
    PROVE  (x = "answered" => g = <<k>>) /\ Phase(c)'
<1> USE DEF Hears
<1> DEFINE m == Head(resp[c])
<1>1. Asking(c, k) /\ Takes(c)
  BY InFlightAsking, Zenon DEF InFlight, Takes
<1>2. ASSUME m.is \in {"result", "error"} PROVE Undecided(c)' /\ \A j \in Calls \ {k} : ~InFlight(c, j)'
  <2>1. x # "answered"
    BY <1>2 DEF HeardAs, AfterError
  <2>2. Answered(c)' \subseteq Answered(c)
    BY <2>1, Zenon DEF Answered
  <2> QED
    BY <1>1, <2>2, Zenon DEF Asking, Undecided, Held, InFlight
<1>3. CASE /\ Awaiting(c, k) /\ Sent(c, <<>>) /\ TaskAt(c, "serving") /\ HeldToo(c, k)
           /\ Two(c, QueryResult(k), QueryFinished(k))
  <2>1. m = QueryResult(k) /\ One(c, QueryFinished(k))'
    BY <1>1, <1>3, TakesTwo, Zenon
  <2>2. m.is = "result" /\ m.for = k /\ got[c][k] = <<>>
    BY <1>3, <2>1, MessageKinds, Zenon DEF Awaiting
  <2>3. x = "reading" /\ g = <<k>>
    BY <2>2, Build DEF HeardAs
  <2>4. Halfway(c, k)'
    BY <1>3, <2>1, <2>3, Zenon DEF Halfway, Sent, TaskAt, HeldToo
  <2>5. Asking(c, k)'
    BY <1>1, <1>2, <2>2, <2>4, Zenon DEF Asking
  <2> QED
    BY <2>3, <2>5, Zenon DEF Phase
<1>4. CASE Sent(c, <<>>) /\ TaskAt(c, "serving") /\ Two(c, ErrorMessage(k), QueryFinished(k))
  <2>1. m = ErrorMessage(k) /\ One(c, QueryFinished(k))'
    BY <1>1, <1>4, TakesTwo, Zenon
  <2>2. m.is = "error"
    BY <2>1, MessageKinds, Zenon
  <2>3. x = "skipping"
    BY <2>2 DEF HeardAs, AfterError
  <2>4. Halfway(c, k)'
    BY <1>4, <2>1, <2>3, Zenon DEF Halfway, Sent, TaskAt
  <2>5. Asking(c, k)'
    BY <1>1, <1>2, <2>2, <2>4, Zenon DEF Asking
  <2> QED
    BY <2>3, <2>5, Zenon DEF Phase
<1>5. CASE Sent(c, <<>>) /\ TaskAt(c, "leaving") /\ One(c, ErrorMessage(k))
  <2>1. m = ErrorMessage(k) /\ Nothing(c)'
    BY <1>1, <1>5, TakesOne, Zenon
  <2>2. m.is = "error"
    BY <2>1, MessageKinds, Zenon
  <2>3. x = "skipping"
    BY <2>2 DEF HeardAs, AfterError
  <2>4. Halfway(c, k)'
    BY <1>5, <2>1, <2>3, Zenon DEF Halfway, Sent, TaskAt
  <2>5. Asking(c, k)'
    BY <1>1, <1>2, <2>2, <2>4, Zenon DEF Asking
  <2> QED
    BY <2>3, <2>5, Zenon DEF Phase
<1>6. CASE /\ got[c][k] = <<k>> /\ Sent(c, <<>>) /\ TaskAt(c, "serving") /\ HeldToo(c, k)
           /\ One(c, QueryFinished(k))
  <2>1. m = QueryFinished(k) /\ Nothing(c)'
    BY <1>1, <1>6, TakesOne, Zenon
  <2>2. m.is = "finished"
    BY <2>1, MessageKinds, Zenon
  <2>3. x = "answered" /\ g = <<k>>
    BY <1>6, <2>2 DEF HeardAs
  <2>4. Resting(c)'
    BY <1>1, <1>6, <2>1, <2>3, CallOver, Zenon DEF TaskAt
  <2> QED
    BY <2>3, <2>4, Zenon DEF Phase
<1>7. ~Nothing(c)
  BY Zenon DEF Nothing
<1> QED
  BY <1>1, <1>3, <1>4, <1>5, <1>6, <1>7, Zenon DEF Asking, Awaiting, Halfway

LEMMA ReadAnswerStep == ASSUME IInv, NEW c \in Clients, NEW k \in Calls, ReadAnswer(c, k) PROVE IInv'
<1> DEFINE m == Head(resp[c])
<1>1. /\ call[c][k] = "reading"
      /\ UNCHANGED <<catalogVars, cl, link, req, tx, srv, qs, applied, excused>>
  BY DEF ReadAnswer
<1>2. CASE /\ resp[c] # <<>> /\ resp' = [resp EXCEPT ![c] = Tail(resp[c])]
           /\ call' = [call EXCEPT ![c][k] = HeardAs(m)]
           /\ got' = IF m.is = "result" THEN [got EXCEPT ![c][k] = Append(@, m.for)] ELSE got
  <2> DEFINE x == HeardAs(m)
  <2> DEFINE g == IF m.is = "result" THEN Append(got[c][k], m.for) ELSE got[c][k]
  <2>1. /\ Tail(resp[c]) \in Seq(Messages) /\ Len(Tail(resp[c])) <= ChannelCap /\ m \in Messages
        /\ got[c][k] \in Seq(Numbers) /\ got \in [Clients -> [Calls -> Seq(Numbers)]]
    BY <1>2, TailShorter, Unread, Zenon DEF IInv, Owned, ClientShapes
  <2>2. m.for \in Numbers
    BY <2>1 DEF Messages, Numbers
  <2>3. g \in Seq(Numbers)
    BY <2>1, <2>2
  <2>4. got' = [got EXCEPT ![c][k] = g]
    BY <1>2, <2>1, Zenon
  <2>5. x \in Progress \ {"unsent"}
    BY DEF HeardAs, Progress, AfterError
  <2> HIDE DEF x, g
  <2>6. /\ resp'[c] = Tail(resp[c]) /\ call'[c][k] = x /\ got'[c][k] = g
        /\ \A j \in Calls \ {k} : call'[c][j] = call[c][j] /\ got'[c][j] = got[c][j]
    BY <1>2, <2>4 DEF x, IInv, Owned, ClientShapes, WireShapes
  <2>7. "mixed" \notin excused[c] => (x = "answered" => g = <<k>>) /\ Phase(c)'
    <3>1. /\ x = HeardAs(Head(resp[c]))
          /\ g = IF Head(resp[c]).is = "result" THEN Append(got[c][k], Head(resp[c]).for) ELSE got[c][k]
      BY DEF x, g
    <3>2. Hears(c, k, x, g)
      BY <1>1, <1>2, <2>6, <3>1, Zenon DEF Hears
    <3> QED
      BY <3>2, ReadMessage
  <2>8. Reads(c, k, x, g, Tail(resp[c]), excused[c])
    <3>1. cl[c].at # "idle" /\ excused[c] \in SUBSET Reasons
      BY <1>2, Unread, Zenon
    <3>2. call' = [call EXCEPT ![c][k] = x] /\ excused' = [excused EXCEPT ![c] = excused[c]]
      BY <1>1, <1>2, Unread, Zenon DEF x
    <3> QED
      BY <1>1, <1>2, <2>1, <2>3, <2>4, <2>5, <2>7, <3>1, <3>2, Zenon DEF Reads
  <2> QED
    BY <2>8, ReadsStep
<1>3. CASE AtEnd(c) /\ call' = [call EXCEPT ![c][k] = "failed"] /\ UNCHANGED <<resp, got>>
  <2>1. call'[c][k] = "failed" /\ \A j \in Calls \ {k} : call'[c][j] = call[c][j]
    BY <1>3 DEF IInv, Owned, ClientShapes
  <2>2. ASSUME "mixed" \notin excused[c] PROVE Resting(c)'
    <3>1. Asking(c, k)
      BY <1>1, <2>2, InFlightAsking, Zenon DEF InFlight
    <3>2. Nothing(c)' /\ Sent(c, <<>>) /\ TaskAt(c, "serving")
      BY <1>1, <1>3, AtEndFacts
    <3> QED
      BY <1>1, <2>1, <3>1, <3>2, CallOver, Zenon
  <2>3. Reads(c, k, "failed", got[c][k], resp[c], excused[c])
    BY <1>1, <1>3, <2>2, Unread, Zenon DEF Reads, Progress, Phase
  <2> QED
    BY <2>3, ReadsStep
<1> QED
  BY <1>2, <1>3 DEF ReadAnswer, HeardAs
=============================================================================
