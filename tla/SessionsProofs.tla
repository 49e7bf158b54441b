--------------------------- MODULE SessionsProofs ---------------------------
(***************************************************************************)
(* The catalog never shuts down a database under a transaction it could    *)
(* see, its map and its directories agree, and a remote caller gets the    *)
(* answers of its own statements and the truth about its commit, for any   *)
(* number of clients, calls, databases and restarts and any capacity of    *)
(* the response channel.                                                   *)
(***************************************************************************)
EXTENDS StreamProofs
-----------------------------------------------------------------------------
LEMMA InitIInv == Init => IInv
<1> SUFFICES ASSUME Init PROVE IInv
  OBVIOUS
<1> DEFINE none == [at |-> "idle", told |-> "none", kept |-> FALSE]
<1> DEFINE off == [at |-> "off", finished |-> FALSE, db |-> 0, for |-> None, out |-> <<>>]
<1> DEFINE idle == [at |-> "idle", told |-> "none", db |-> 0]
<1>1. /\ none \in Remotes /\ none.at = "idle" /\ none.told = "none"
      /\ idle \in Locals /\ idle.at = "idle" /\ idle.told = "none"
      /\ NotApplied \in [done : BOOLEAN, writes : SUBSET Numbers] /\ ~NotApplied.done
  BY SessionsAssumption DEF Remotes, Locals, Replies, Dbs, NotApplied
<1>2. off \in Servers /\ off.at = "off" /\ off.out = <<>> /\ ~off.finished
  BY SessionsAssumption DEF Servers, Places, Dbs, Numbers
<1> HIDE DEF none, off, idle
<1>3. /\ tx = [s \in Sessions |-> NoTx] /\ srv = [c \in Clients |-> off] /\ cl = [c \in Clients |-> none]
      /\ qs = [q \in Queries |-> idle] /\ applied = [s \in Sessions |-> NotApplied]
  BY DEF Init, none, off, idle
<1>4. ServerShapes
  BY <1>1, <1>2, <1>3, NoTxType DEF ServerShapes
<1>5. ClientShapes
  <2>1. <<>> \in Seq(Numbers) /\ "unsent" \in Progress
    BY DEF Progress
  <2> QED
    BY <1>1, <1>3, <2>1, Zenon DEF Init, ClientShapes
<1>6. WireShapes
  BY SessionsAssumption DEF Init, WireShapes
<1>7. CatalogShapes
  BY SessionsAssumption DEF Init, CatalogShapes, Dbs, NoFiles
<1>8. \A c \in Clients : Stream(c)
  <2>1. "off" \notin {"starting", "ended"} /\ DOMAIN <<>> = {}
    OBVIOUS
  <2> QED
    BY <1>2, <1>3, <2>1, NoTxType, Zenon DEF Init, Stream, Sessions
<1>9. \A q \in Queries : Caller(q)
  BY <1>1, <1>3, NoTxType DEF Caller, Sessions
<1>10. Dropping
  BY <1>3, NoTxType, Zenon DEF Init, Dropping, Cleared
<1>11. Directories
  BY Zenon DEF Init, Directories, NoFiles
<1>12. \A c \in Clients : Fresh(c)
  BY <1>1, <1>2, <1>3, Zenon DEF Init, Fresh, Nothing, Sent, Undecided, Held, Sessions
<1>13. \A c \in Clients : Paired(c)
  BY <1>12, Zenon DEF Init, Paired, Phase
<1>14. \A q \in Queries : Reported(q)
  BY <1>1, <1>3, Zenon DEF Reported, Sessions
<1> QED
  BY <1>4, <1>5, <1>6, <1>7, <1>8, <1>9, <1>10, <1>11, <1>13, <1>14
  DEF IInv, Owned, Protocol

-----------------------------------------------------------------------------
(***************************************************************************)
(* The remote client: run_in_transaction.                                  *)
(***************************************************************************)
\* A step of run_in_transaction, and what remains to be shown for it.
Advances(c, r, l, rq, rs) ==
    /\ r \in Remotes /\ r.at # "idle" /\ l \in {"none", "up", "down"}
    /\ rs \in Seq(Messages) /\ Len(rs) <= ChannelCap
    /\ \/ rq = req[c]
       \/ \E m \in Requests : m.op # "start" /\ rq = Append(req[c], m)
    /\ cl' = [cl EXCEPT ![c] = r] /\ link' = [link EXCEPT ![c] = l]
    /\ req' = [req EXCEPT ![c] = rq] /\ resp' = [resp EXCEPT ![c] = rs]
    /\ call' \in [Clients -> [Calls -> Progress]] /\ \A d \in Clients \ {c} : call'[d] = call[d]
    /\ excused' \in [Sessions \cup {"catalog"} -> SUBSET Reasons]
    /\ \A s \in Sessions \cup {"catalog"} : excused[s] \subseteq excused'[s]
    /\ UNCHANGED <<catalogVars, got, tx, srv, qs, applied>>
    /\ Paired(c)'

LEMMA EmptyDomain == DOMAIN <<>> = {}
OBVIOUS

LEMMA AppendFacts ==
    ASSUME NEW S, NEW q \in Seq(S), NEW m \in S
    PROVE  /\ Append(q, m) \in Seq(S) /\ DOMAIN Append(q, m) = 1 .. Len(q) + 1
           /\ \A i \in 1 .. Len(q) + 1 : \/ i \in DOMAIN q /\ Append(q, m)[i] = q[i]
                                         \/ Append(q, m)[i] = m
OBVIOUS

LEMMA AdvanceStep ==
    ASSUME IInv, NEW c \in Clients, NEW r, NEW l, NEW rq, NEW rs, Advances(c, r, l, rq, rs)
    PROVE  IInv'
<1> USE DEF Advances
<1>1. c \in Sessions /\ req[c] \in Seq(Requests)
  BY DEF IInv, Owned, WireShapes, Sessions
<1>2. /\ rq \in Seq(Requests)
      /\ \A i \in DOMAIN rq : rq[i].op = "start" => i \in DOMAIN req[c] /\ rq[i] = req[c][i]
  <2>1. CASE rq = req[c]
    BY <1>1, <2>1
  <2>2. ASSUME NEW m \in Requests, m.op # "start", rq = Append(req[c], m)
        PROVE  /\ rq \in Seq(Requests)
               /\ \A i \in DOMAIN rq : rq[i].op = "start" => i \in DOMAIN req[c] /\ rq[i] = req[c][i]
    BY <1>1, <2>2, AppendFacts
  <2> QED
    BY <2>1, <2>2
<1>3. WireShapes' /\ req'[c] = rq /\ resp'[c] = rs /\ link'[c] = l
  BY <1>2 DEF IInv, Owned, WireShapes
<1>4. ClientShapes' /\ cl'[c] = r
  BY DEF IInv, Owned, ClientShapes
<1>5. CatalogShapes' /\ ServerShapes'
  BY DEF IInv, Owned, CatalogShapes, ServerShapes, catalogVars
<1>6. Alone(c)
  BY DEF IInv, Owned, WireShapes, ClientShapes, Alone, catalogVars
<1>7. Stream(c)'
  BY <1>2, <1>3, <1>4 DEF IInv, Owned, Stream, catalogVars
<1>8. Cleared(c)'
  BY <1>1 DEF IInv, Dropping, Cleared, Doomed, catalogVars
<1> QED
  BY <1>3, <1>4, <1>5, <1>6, <1>7, <1>8, AloneStep DEF Shapes

LEMMA DropFacts ==
    ASSUME IInv, NEW c \in Clients, Drop(c)
    PROVE  \E rs \in Seq(Messages) : /\ Len(rs) <= ChannelCap
                                     /\ link' = [link EXCEPT ![c] = "down"]
                                     /\ resp' = [resp EXCEPT ![c] = rs]
<1>1. <<>> \in Seq(Messages) /\ Len(<<>>) <= ChannelCap
  BY SessionsAssumption
<1> QED
  BY <1>1, Zenon DEF Drop

LEMMA ReturnFacts ==
    ASSUME IInv, NEW c \in Clients, NEW told, Return(c, told)
    PROVE  /\ cl' = [cl EXCEPT ![c] = Returns(cl[c], told)]
           /\ \E l \in {"none", "up", "down"}, rs \in Seq(Messages) :
                  /\ Len(rs) <= ChannelCap
                  /\ link' = [link EXCEPT ![c] = l] /\ resp' = [resp EXCEPT ![c] = rs]
<1>1. /\ resp[c] \in Seq(Messages) /\ Len(resp[c]) <= ChannelCap
      /\ UNCHANGED resp => resp' = [resp EXCEPT ![c] = resp[c]]
  BY OnTheWire
<1>2. link[c] \in {"none", "up", "down"} /\ (UNCHANGED link => link' = [link EXCEPT ![c] = link[c]])
  BY DEF IInv, Owned, WireShapes
<1>3. CASE Drop(c)
  BY <1>3, DropFacts, Zenon DEF Return
<1>4. CASE UNCHANGED <<link, resp>>
  BY <1>1, <1>2, <1>4, Zenon DEF Return
<1>5. CASE TakeResponse(c) /\ resp[c] # <<>>
  <2>1. Tail(resp[c]) \in Seq(Messages) /\ Len(Tail(resp[c])) <= ChannelCap
    BY <1>5, TailShorter
  <2> QED
    BY <1>2, <1>5, <2>1, Zenon DEF Return, TakeResponse
<1> QED
  BY <1>3, <1>4, <1>5, Zenon DEF Return

\* The phase of an undisturbed client, by the progress of run_in_transaction.
LEMMA PhaseOf ==
    ASSUME IInv, NEW c \in Clients, "mixed" \notin excused[c]
    PROVE  /\ cl[c].at = "idle" => Fresh(c)
           /\ cl[c].at = "starting" => Beginning(c)
           /\ cl[c].at = "open" /\ NoneInFlight(c) => Resting(c)
           /\ cl[c].at = "committing" => Concluding(c)
           /\ cl[c].at = "done" => Over(c)
<1>1. Phase(c)
  BY DEF IInv, Protocol, Paired
<1>2. \A k \in Calls : Asking(c, k) => cl[c].at = "open" /\ ~NoneInFlight(c)
  BY DEF Asking, Awaiting, Halfway, NoneInFlight, InFlight
<1> QED
  BY <1>1, <1>2, Zenon DEF Phase, Fresh, Beginning, Resting, Concluding, Over

LEMMA OpenStep == ASSUME IInv, NEW c \in Clients, NEW kept \in BOOLEAN, Open(c, kept) PROVE IInv'
<1> DEFINE r == [at |-> "starting", told |-> "none", kept |-> kept]
<1> DEFINE q == <<Request("start", None)>>
<1> DEFINE v == [srv[c] EXCEPT !.at = "serving"]
<1>1. /\ cl[c].at = "idle" /\ cl' = [cl EXCEPT ![c] = r] /\ link' = [link EXCEPT ![c] = "up"]
      /\ req' = [req EXCEPT ![c] = q] /\ srv' = [srv EXCEPT ![c] = v]
      /\ UNCHANGED <<catalogVars, call, got, resp, tx, qs, applied, excused>>
  BY DEF Open
<1>2. /\ tx[c].db = 0 /\ srv[c].at = "off" /\ srv[c] \in Servers
  BY <1>1 DEF IInv, Owned, Stream, ServerShapes
<1>3. r \in Remotes /\ r.at = "starting" /\ r.told = "none"
  BY DEF Remotes, Replies
<1>4. q \in Seq(Requests) /\ DOMAIN q = 1 .. 1
  BY DEF Request, Requests, Numbers
<1>5. v \in Servers /\ v.at = "serving" /\ v.out = srv[c].out /\ v.finished = srv[c].finished
  <2>1. "serving" \in Places
    BY DEF Places
  <2> QED
    BY <1>2, <2>1 DEF Servers
<1> HIDE DEF r, q, v
<1>6. /\ cl'[c] = r /\ link'[c] = "up" /\ req'[c] = q /\ srv'[c] = v
      /\ UNCHANGED <<call, got, resp, tx, applied, excused, created>>
  BY <1>1 DEF IInv, Owned, ClientShapes, WireShapes, ServerShapes, catalogVars
<1>7. Shapes'
  BY <1>1, <1>3, <1>4, <1>5
  DEF Shapes, IInv, Owned, ClientShapes, WireShapes, ServerShapes, CatalogShapes, catalogVars
<1>8. Alone(c)
  BY <1>1 DEF Alone, IInv, Owned, ClientShapes, WireShapes, ServerShapes, catalogVars
<1>9. Stream(c)'
  BY <1>2, <1>3, <1>4, <1>5, <1>6 DEF Stream
<1>10. Cleared(c)'
  BY <1>2, <1>6 DEF Cleared
<1>11. "mixed" \notin excused[c] => Beginning(c)'
  <2> SUFFICES ASSUME Fresh(c) PROVE Beginning(c)'
    BY <1>1, PhaseOf
  <2>1. Undecided(c)' /\ Nothing(c)' /\ TaskAt(c, "serving")' /\ Sent(c, <<Request("start", None)>>)'
    BY <1>5, <1>6 DEF Fresh, Undecided, Held, Answered, Nothing, TaskAt, Sent, q
  <2> QED
    BY <1>3, <1>6, <2>1 DEF Fresh, Beginning
<1>12. Paired(c)'
  BY <1>6, <1>11 DEF Paired, Phase, IInv, Protocol
<1> QED
  BY <1>7, <1>8, <1>9, <1>10, <1>12, AloneStep

\* What stays as it is, in the form Advances asks for.
LEMMA Standing ==
    ASSUME IInv, NEW c \in Clients
    PROVE  /\ cl[c] \in Remotes /\ link[c] \in {"none", "up", "down"} /\ excused[c] \in SUBSET Reasons
           /\ call \in [Clients -> [Calls -> Progress]]
           /\ UNCHANGED cl => cl' = [cl EXCEPT ![c] = cl[c]]
           /\ UNCHANGED link => link' = [link EXCEPT ![c] = link[c]]
           /\ UNCHANGED call => \A d \in Clients \ {c} : call'[d] = call[d]
           /\ UNCHANGED excused => /\ excused' \in [Sessions \cup {"catalog"} -> SUBSET Reasons]
                                   /\ \A s \in Sessions \cup {"catalog"} : excused[s] \subseteq excused'[s]
BY DEF IInv, Owned, ClientShapes, WireShapes, CatalogShapes, Sessions

LEMMA SendStep == ASSUME IInv, NEW c \in Clients, NEW k \in Calls, Send(c, k) PROVE IInv'
<1> DEFINE m == Request("execute", k)
<1> DEFINE why == (IF NoneInFlight(c) THEN {} ELSE {"mixed"})
                  \cup (IF cl[c].at = "open" THEN {} ELSE {"mixed", "outlived"})
<1>1. /\ call[c][k] = "unsent" /\ cl[c].at # "idle" /\ link[c] = "up"
      /\ call' = [call EXCEPT ![c][k] = "sent"]
      /\ req' = [req EXCEPT ![c] = Append(req[c], m)]
      /\ excused' = [excused EXCEPT ![c] = excused[c] \cup why]
      /\ UNCHANGED <<catalogVars, cl, got, link, resp, tx, srv, qs, applied>>
  BY DEF Send, Excuse, IInv, Owned, CatalogShapes, WireShapes, Sessions
<1>2. why \in SUBSET Reasons /\ ("mixed" \notin why => cl[c].at = "open" /\ NoneInFlight(c))
  BY DEF Reasons
<1>3. m \in Requests /\ m.op # "start" /\ req[c] \in Seq(Requests)
  BY OnTheWire, Zenon DEF Request, Requests, Numbers
<1> HIDE DEF m, why
<1>4. /\ call' \in [Clients -> [Calls -> Progress]] /\ call'[c] = [call[c] EXCEPT ![k] = "sent"]
      /\ \A d \in Clients \ {c} : call'[d] = call[d]
  BY <1>1, Standing DEF Progress
<1>5. /\ excused' \in [Sessions \cup {"catalog"} -> SUBSET Reasons] /\ excused'[c] = excused[c] \cup why
      /\ \A s \in Sessions \cup {"catalog"} : excused[s] \subseteq excused'[s]
  BY <1>1, <1>2, OnTheWire DEF IInv, Owned, CatalogShapes, Sessions
<1>6. /\ \A j \in Calls : j # k => call'[c][j] = call[c][j]
      /\ call'[c][k] = "sent" /\ req'[c] = Append(req[c], m)
  BY <1>1, <1>4, Standing DEF IInv, Owned, WireShapes
<1>7. ASSUME "mixed" \notin excused'[c] PROVE Asking(c, k)'
  <2>1. Resting(c) /\ got[c][k] = <<>>
    BY <1>1, <1>2, <1>5, <1>7, PhaseOf DEF IInv, Protocol, Paired
  <2>2. req[c] = <<>> => Append(req[c], m) = <<m>>
    OBVIOUS
  <2>3. Sent(c, <<Request("execute", k)>>)'
    BY <1>1, <1>6, <2>1, <2>2 DEF Resting, Sent, m
  <2>4. Undecided(c)' /\ TaskAt(c, "serving")' /\ Nothing(c)' /\ \A j \in Calls \ {k} : ~InFlight(c, j)'
    BY <1>1, <1>6, <2>1
    DEF Resting, Undecided, Held, Answered, TaskAt, Nothing, InFlight, NoneInFlight
  <2> QED
    BY <1>1, <1>6, <2>1, <2>3, <2>4 DEF Resting, Asking, Awaiting
<1>8. Paired(c)'
  BY <1>1, <1>5, <1>6, <1>7 DEF Paired, Phase, IInv, Protocol
<1>9. Advances(c, cl[c], link[c], Append(req[c], m), resp[c])
  BY <1>1, <1>3, <1>4, <1>5, <1>8, Standing, OnTheWire, Zenon DEF Advances
<1> QED
  BY <1>9, AdvanceStep

LEMMA Excusing ==
    ASSUME IInv, NEW c \in Clients, NEW why \in SUBSET Reasons, Excuse(c, why)
    PROVE  /\ excused' \in [Sessions \cup {"catalog"} -> SUBSET Reasons]
           /\ \A s \in Sessions \cup {"catalog"} : excused[s] \subseteq excused'[s]
           /\ "mixed" \notin excused'[c] => "mixed" \notin excused[c] /\ "mixed" \notin why
<1>1. /\ excused' = [excused EXCEPT ![c] = excused[c] \cup why]
      /\ excused \in [Sessions \cup {"catalog"} -> SUBSET Reasons] /\ c \in Sessions \cup {"catalog"}
  BY DEF Excuse, IInv, Owned, CatalogShapes, Sessions
<1> QED
  BY <1>1

LEMMA SendCommitStep == ASSUME IInv, NEW c \in Clients, SendCommit(c) PROVE IInv'
<1> DEFINE m == Request("commit", None)
<1> DEFINE r == [cl[c] EXCEPT !.at = "committing"]
<1> DEFINE why == IF NoneInFlight(c) THEN {} ELSE {"mixed", "outlived"}
<1>1. /\ cl[c].at = "open" /\ Excuse(c, why)
      /\ cl' = [cl EXCEPT ![c] = r]
      /\ req' = [req EXCEPT ![c] = Append(req[c], m)]
      /\ UNCHANGED <<catalogVars, call, got, link, resp, tx, srv, qs, applied>>
  BY DEF SendCommit, IInv, Owned, ClientShapes, WireShapes
<1>2. r \in Remotes /\ r.at = "committing" /\ r.told = cl[c].told
  BY Standing DEF Remotes
<1>3. m \in Requests /\ m.op # "start" /\ req[c] \in Seq(Requests)
  BY OnTheWire, Zenon DEF Request, Requests, Numbers
<1>8. why \in SUBSET Reasons /\ ("mixed" \notin why => NoneInFlight(c))
  BY DEF Reasons
<1> HIDE DEF m, r, why
<1>4. cl'[c] = r /\ req'[c] = Append(req[c], m)
  BY <1>1 DEF IInv, Owned, ClientShapes, WireShapes
<1>5. ASSUME "mixed" \notin excused'[c] PROVE Concluding(c)'
  <2>1. Resting(c)
    BY <1>1, <1>5, <1>8, PhaseOf, Excusing
  <2>2. req[c] = <<>> => Append(req[c], m) = <<m>>
    OBVIOUS
  <2>3. Sent(c, <<Request("commit", None)>>)'
    BY <1>1, <1>4, <2>1, <2>2 DEF Resting, Sent, m
  <2>4. Undecided(c)' /\ TaskAt(c, "serving")' /\ Nothing(c)' /\ NoneInFlight(c)'
    BY <1>1, <2>1
    DEF Resting, Undecided, Held, Answered, TaskAt, Nothing, InFlight, NoneInFlight
  <2> QED
    BY <1>1, <1>2, <1>4, <2>1, <2>3, <2>4, Zenon DEF Resting, Concluding
<1>6. Paired(c)'
  BY <1>1, <1>5, <1>8, Excusing, Zenon DEF Paired, Phase, IInv, Protocol
<1>7. Advances(c, r, link[c], Append(req[c], m), resp[c])
  BY <1>1, <1>2, <1>3, <1>6, <1>8, Excusing, Standing, OnTheWire, Zenon DEF Advances
<1> QED
  BY <1>7, AdvanceStep

LEMMA SendRollbackStep == ASSUME IInv, NEW c \in Clients, SendRollback(c) PROVE IInv'
<1> DEFINE m == Request("rollback", None)
<1> DEFINE r == Returns(cl[c], "rolled back")
<1> DEFINE why == IF NoneInFlight(c) THEN {} ELSE {"mixed", "outlived"}
<1>1. /\ cl[c].at = "open" /\ Excuse(c, why) /\ Return(c, "rolled back")
      /\ req' = [req EXCEPT ![c] = Append(req[c], m)]
      /\ UNCHANGED <<catalogVars, call, got, tx, srv, qs, applied>>
  BY Zenon DEF SendRollback, IInv, Owned, WireShapes
<1>2. r \in Remotes /\ r.at = "done" /\ r.told = "rolled back"
  BY Standing, ReturnsFields, Zenon DEF Replies
<1>3. m \in Requests /\ m.op = "rollback" /\ req[c] \in Seq(Requests)
  BY OnTheWire, Zenon DEF Request, Requests, Numbers
<1>4. why \in SUBSET Reasons /\ ("mixed" \notin why => NoneInFlight(c))
  BY DEF Reasons
<1>5. cl' = [cl EXCEPT ![c] = r]
  BY <1>1, ReturnFacts, Zenon
<1>6. PICK l \in {"none", "up", "down"}, rs \in Seq(Messages) :
         /\ Len(rs) <= ChannelCap
         /\ link' = [link EXCEPT ![c] = l] /\ resp' = [resp EXCEPT ![c] = rs]
  BY <1>1, ReturnFacts, Zenon
<1> HIDE DEF m, r, why
<1>7. cl'[c] = r /\ req'[c] = Append(req[c], m)
  BY <1>1, <1>5, Zenon DEF IInv, Owned, ClientShapes, WireShapes
<1>8. ASSUME "mixed" \notin excused'[c] PROVE Over(c)'
  <2>1. Resting(c)
    BY <1>1, <1>4, <1>8, PhaseOf, Excusing, Zenon
  <2>2. req[c] = <<>> => \A i \in DOMAIN Append(req[c], m) : Append(req[c], m)[i] = m
    OBVIOUS
  <2>3. \/ srv'[c].at = "ended"
        \/ \A i \in DOMAIN req'[c] : req'[c][i].op # "commit"
    BY <1>1, <1>3, <1>7, <2>1, <2>2, Zenon DEF Resting, Sent
  <2>4. NoneInFlight(c)' /\ ~applied'[c].done
    BY <1>1, <2>1, Zenon DEF Resting, Undecided, NoneInFlight, InFlight
  <2> QED
    BY <1>2, <1>7, <2>3, <2>4, Zenon DEF Over
<1>9. Paired(c)'
  BY <1>1, <1>4, <1>8, Excusing, Zenon DEF Paired, Phase, IInv, Protocol
<1>10. Advances(c, r, l, Append(req[c], m), rs)
  <2>1. \E x \in Requests : x.op # "start" /\ Append(req[c], m) = Append(req[c], x)
    BY <1>3
  <2> QED
    BY <1>1, <1>2, <1>4, <1>5, <1>6, <1>9, <2>1, Excusing, Standing, Zenon DEF Advances
<1> QED
  BY <1>10, AdvanceStep

LEMMA HangUpStep == ASSUME IInv, NEW c \in Clients, HangUp(c) PROVE IInv'
<1> DEFINE told == IF cl[c].at = "done" THEN cl[c].told ELSE "lost"
<1> DEFINE r == Returns(cl[c], told)
<1> DEFINE ended == [k \in Calls |-> IF InFlight(c, k) THEN "cancelled" ELSE call[c][k]]
<1>1. /\ cl' = [cl EXCEPT ![c] = r] /\ call' = [call EXCEPT ![c] = ended] /\ Drop(c)
      /\ UNCHANGED <<catalogVars, got, req, tx, srv, qs, applied, excused>>
  BY DEF HangUp, IInv, Owned, ClientShapes
<1>2. told \in Replies
  BY Standing, Zenon DEF Replies, Remotes
<1>3. r \in Remotes /\ r.at = "done" /\ r.told = told
  BY <1>2, Standing, ReturnsFields
<1>4. /\ ended \in [Calls -> Progress]
      /\ \A k \in Calls : /\ ended[k] \notin {"sent", "reading", "skipping"}
                          /\ ended[k] \in {"unsent", "answered"} => call[c][k] = ended[k]
                          /\ call[c][k] = "answered" => ended[k] = "answered"
  BY Standing DEF Progress, InFlight
<1>5. PICK rs \in Seq(Messages) : /\ Len(rs) <= ChannelCap
                                  /\ link' = [link EXCEPT ![c] = "down"]
                                  /\ resp' = [resp EXCEPT ![c] = rs]
  BY <1>1, DropFacts
<1>6. /\ told \in {"ok", "error", "rolled back", "none"} => cl[c].at = "done" /\ told = cl[c].told
      /\ told # "lost" => cl[c].at = "done" /\ told = cl[c].told
  OBVIOUS
<1> HIDE DEF told, r, ended
<1>7. cl'[c] = r /\ call'[c] = ended
  BY <1>1 DEF IInv, Owned, ClientShapes
<1>8. ASSUME "mixed" \notin excused[c] PROVE Over(c)'
  <2>1. NoneInFlight(c)' /\ Answered(c)' = Answered(c)
    BY <1>4, <1>7 DEF NoneInFlight, InFlight, Answered
  <2>2. CASE told = "lost"
    BY <1>3, <1>7, <2>1, <2>2, Zenon DEF Over
  <2>3. CASE told # "lost"
    <3>1. Over(c) /\ cl[c].told = told
      BY <1>6, <1>8, <2>3, PhaseOf, Zenon
    <3> QED
      BY <1>1, <1>3, <1>7, <2>1, <2>3, <3>1, Zenon DEF Over
  <2> QED
    BY <2>2, <2>3
<1>9. Paired(c)'
  <2>1. Paired(c) /\ got'[c] = got[c] /\ excused'[c] = excused[c]
    BY <1>1, Zenon DEF IInv, Protocol
  <2> QED
    BY <1>4, <1>7, <1>8, <2>1, Zenon DEF Paired, Phase
<1>10. call' \in [Clients -> [Calls -> Progress]] /\ \A d \in Clients \ {c} : call'[d] = call[d]
  BY <1>1, <1>4, Standing, Zenon
<1>11. Advances(c, r, "down", req[c], rs)
  BY <1>1, <1>3, <1>5, <1>9, <1>10, Standing, OnTheWire, Zenon DEF Advances
<1> QED
  BY <1>11, AdvanceStep

\* What run_in_transaction can read while it waits for one answer.
LEMMA OneAnswer ==
    ASSUME NEW c \in Clients, NEW m, One(c, m)
    PROVE  /\ resp[c] # <<>> => /\ Head(resp[c]) = m /\ Tail(resp[c]) = <<>>
                                /\ srv[c].out = <<>>
           /\ resp[c] = <<>> => srv[c].out = <<m>> \/ CutShort(c)
<1>1. Head(<<m>>) = m /\ Tail(<<m>>) = <<>> /\ <<m>> # <<>>
  OBVIOUS
<1>2. CASE resp[c] = <<m>> /\ srv[c].out = <<>>
  BY <1>1, <1>2
<1>3. CASE resp[c] = <<>>
  BY <1>3, <1>1 DEF One
<1> QED
  BY <1>2, <1>3 DEF One, CutShort

LEMMA ReadStartStep == ASSUME IInv, NEW c \in Clients, ReadStart(c) PROVE IInv'
<1>1. /\ cl[c].at = "starting"
      /\ UNCHANGED <<catalogVars, call, got, req, tx, srv, qs, applied, excused>>
  BY DEF ReadStart
<1>2. ASSUME NEW r \in Remotes, NEW l \in {"none", "up", "down"}, NEW rs \in Seq(Messages), Len(rs) <= ChannelCap,
             r.at # "idle", cl' = [cl EXCEPT ![c] = r], link' = [link EXCEPT ![c] = l],
             resp' = [resp EXCEPT ![c] = rs], "mixed" \notin excused[c] => Phase(c)'
      PROVE  IInv'
  <2>1. Paired(c)'
    BY <1>1, <1>2 DEF Paired, IInv, Protocol
  <2>2. Advances(c, r, l, req[c], rs)
    BY <1>1, <1>2, <2>1, Standing, OnTheWire, Zenon DEF Advances
  <2> QED
    BY <2>2, AdvanceStep
<1>3. CASE resp[c] # <<>> /\ Head(resp[c]).is = "finished"
  <2> DEFINE r == [cl[c] EXCEPT !.at = "open"]
  <2>1. cl' = [cl EXCEPT ![c] = r] /\ link' = [link EXCEPT ![c] = link[c]] /\ resp' = [resp EXCEPT ![c] = Tail(resp[c])]
    BY <1>3, Standing
    DEF ReadStart, TakeResponse, AtEnd, IInv, Owned, ClientShapes, WireShapes
  <2>2. r \in Remotes /\ r.at = "open" /\ r.told = cl[c].told
    BY Standing DEF Remotes
  <2>3. Tail(resp[c]) \in Seq(Messages) /\ Len(Tail(resp[c])) <= ChannelCap
    BY <1>3, TailShorter
  <2> HIDE DEF r
  <2>4. cl'[c] = r /\ link'[c] = link[c] /\ resp'[c] = Tail(resp[c])
    BY <2>1 DEF IInv, Owned, ClientShapes, WireShapes
  <2>5. ASSUME "mixed" \notin excused[c] PROVE Resting(c)'
    <3>1. Beginning(c)
      BY <1>1, <2>5, PhaseOf
    <3>2. Head(resp[c]) # ErrorMessage(None)
      BY <1>3 DEF ErrorMessage
    <3>3. Sent(c, <<>>) /\ TaskAt(c, "serving") /\ One(c, QueryFinished(None))
      BY <1>3, <3>1, <3>2, OneAnswer, Zenon DEF Beginning, Nothing
    <3>4. Nothing(c)'
      BY <1>1, <1>3, <2>4, <3>3, OneAnswer, Zenon DEF Nothing
    <3>5. Undecided(c)' /\ Sent(c, <<>>)' /\ TaskAt(c, "serving")'
      BY <1>1, <3>1, <3>3, Zenon DEF Beginning, Undecided, Held, Answered, Sent, TaskAt
    <3>6. NoneInFlight(c)'
      BY <1>1, <3>1 DEF Beginning, NoneInFlight, InFlight
    <3> QED
      BY <2>2, <2>4, <3>1, <3>4, <3>5, <3>6, Zenon DEF Beginning, Resting
  <2>6. "mixed" \notin excused[c] => Phase(c)'
    BY <2>5 DEF Phase
  <2> QED
    BY <1>2, <2>1, <2>2, <2>3, <2>6, Standing, Zenon
<1>4. CASE ~(resp[c] # <<>> /\ Head(resp[c]).is = "finished")
  <2>1. PICK told \in {"error", "lost"} :
           /\ cl' = [cl EXCEPT ![c] = [at |-> "done", told |-> told, kept |-> FALSE]] /\ Drop(c)
           /\ told = "error" => resp[c] # <<>>
    BY <1>4 DEF ReadStart
  <2> DEFINE r == [at |-> "done", told |-> told, kept |-> FALSE]
  <2>2. r \in Remotes /\ r.at = "done" /\ r.told = told
    BY Zenon DEF Remotes, Replies
  <2>3. cl' = [cl EXCEPT ![c] = r]
    BY <2>1
  <2> HIDE DEF r
  <2>4. PICK rs \in Seq(Messages) : /\ Len(rs) <= ChannelCap
                                    /\ link' = [link EXCEPT ![c] = "down"]
                                    /\ resp' = [resp EXCEPT ![c] = rs]
    BY <2>1, DropFacts
  <2>5. cl'[c] = r
    BY <2>3 DEF IInv, Owned, ClientShapes
  <2>6. ASSUME "mixed" \notin excused[c] PROVE Over(c)'
    <3>1. Beginning(c)
      BY <1>1, <2>6, PhaseOf
    <3>2. NoneInFlight(c)' /\ ~applied'[c].done
      BY <1>1, <3>1, Zenon DEF Beginning, NoneInFlight, InFlight, Undecided
    <3>3. told = "error" => \/ srv'[c].at = "ended"
                            \/ req'[c] = <<>>
      BY <1>1, <2>1, <3>1, Zenon DEF Beginning, Nothing, Sent
    <3>4. told \in {"error", "lost"} /\ DOMAIN <<>> = {}
      BY <2>1, EmptyDomain, Zenon
    <3> QED
      BY <2>2, <2>5, <3>2, <3>3, <3>4, Zenon DEF Over
  <2>7. "mixed" \notin excused[c] => Phase(c)'
    BY <2>6 DEF Phase
  <2> QED
    BY <1>2, <2>2, <2>3, <2>4, <2>7, Zenon
<1> QED
  BY <1>3, <1>4

LEMMA ReadCommitStep == ASSUME IInv, NEW c \in Clients, ReadCommit(c) PROVE IInv'
<1>1. /\ cl[c].at = "committing"
      /\ UNCHANGED <<catalogVars, call, got, req, tx, srv, qs, applied, excused>>
  BY DEF ReadCommit
<1>2. PICK told \in {"ok", "error", "lost"} :
         /\ Return(c, told)
         /\ told # "lost" => resp[c] # <<>> /\ (told = "ok" <=> Head(resp[c]).is = "committed")
  BY DEF ReadCommit
<1> DEFINE r == Returns(cl[c], told)
<1>3. r \in Remotes /\ r.at = "done" /\ r.told = told
  <2>1. told \in Replies
    BY <1>2, Zenon DEF Replies
  <2> QED
    BY <2>1, Standing, ReturnsFields
<1>4. cl' = [cl EXCEPT ![c] = r]
  BY <1>2, ReturnFacts
<1>5. PICK l \in {"none", "up", "down"}, rs \in Seq(Messages) :
         /\ Len(rs) <= ChannelCap
         /\ link' = [link EXCEPT ![c] = l] /\ resp' = [resp EXCEPT ![c] = rs]
  BY <1>2, ReturnFacts
<1> HIDE DEF r
<1>6. cl'[c] = r
  BY <1>4 DEF IInv, Owned, ClientShapes
<1>7. ASSUME "mixed" \notin excused[c] PROVE Over(c)'
  <2>1. Concluding(c)
    BY <1>1, <1>7, PhaseOf
  <2>2. NoneInFlight(c)' /\ Answered(c)' = Answered(c)
    BY <1>1, <2>1, Zenon DEF Concluding, NoneInFlight, InFlight, Answered
  <2>3. CASE told = "lost"
    BY <1>3, <1>6, <2>2, <2>3, Zenon DEF Over
  <2>4. CASE told # "lost"
    <3>1. /\ Sent(c, <<>>)
          /\ \/ One(c, CommitResult(TRUE)) /\ applied[c].done /\ Answered(c) \subseteq applied[c].writes
             \/ One(c, CommitResult(FALSE)) /\ ~applied[c].done
      BY <1>2, <2>1, <2>4, Zenon DEF Concluding, Nothing
    <3>2. CommitResult(TRUE).is = "committed" /\ CommitResult(FALSE).is # "committed"
      BY DEF CommitResult, ErrorMessage
    <3>3. \/ told = "ok" /\ applied[c].done /\ Answered(c) \subseteq applied[c].writes
          \/ told = "error" /\ ~applied[c].done
      BY <1>2, <2>4, <3>1, <3>2, OneAnswer, Zenon
    <3>4. (srv'[c].at = "ended" \/ req'[c] = <<>>) /\ DOMAIN <<>> = {}
      BY <1>1, <3>1 DEF Sent
    <3> QED
      BY <1>1, <1>3, <1>6, <2>2, <3>3, <3>4, Zenon DEF Over
  <2> QED
    BY <2>3, <2>4
<1>8. Paired(c)'
  BY <1>1, <1>7, Zenon DEF Paired, Phase, IInv, Protocol
<1>9. Advances(c, r, l, req[c], rs)
  BY <1>1, <1>3, <1>4, <1>5, <1>8, Standing, OnTheWire, Zenon DEF Advances
<1> QED
  BY <1>9, AdvanceStep

-----------------------------------------------------------------------------
(***************************************************************************)
(* A one-statement call, and run_in_transaction in process.                *)
(***************************************************************************)
Serves(q, u, t) ==
    /\ u \in Locals /\ t \in Txs
    /\ qs' = [qs EXCEPT ![q] = u] /\ tx' = [tx EXCEPT ![q] = t]
    /\ applied' \in [Sessions -> [done : BOOLEAN, writes : SUBSET Numbers]]
    /\ \A s \in Sessions \ {q} : applied'[s] = applied[s]
    /\ excused' \in [Sessions \cup {"catalog"} -> SUBSET Reasons]
    /\ \A s \in Sessions \cup {"catalog"} : excused[s] \subseteq excused'[s]
    /\ UNCHANGED <<catalogVars, clientVars, wireVars, srv>>
    /\ u.at = "looked" => u.db \in 1 .. created
    /\ t.db # 0 <=> u.at \in {"statement", "iterating", "closure"}
    /\ t.db # 0 /\ t.db \in Doomed /\ t.registered => "late" \in excused'[q]
    /\ u.told = "ok" => applied'[q].done
    /\ u.told \in {"error", "rolled back"} => ~applied'[q].done
    /\ u.at # "done" => u.told = "none" /\ ~applied'[q].done

LEMMA ServeStep == ASSUME IInv, NEW q \in Queries, NEW u, NEW t, Serves(q, u, t) PROVE IInv'
<1>1. /\ q \in Sessions /\ \A c \in Clients : c \in Sessions \ {q}
  BY SessionsAssumption DEF Sessions
<1>2. /\ qs'[q] = u /\ tx'[q] = t
      /\ \A p \in Queries \ {q} : qs'[p] = qs[p]
      /\ \A s \in Sessions \ {q} : tx'[s] = tx[s] /\ applied'[s] = applied[s]
  BY <1>1, Zenon DEF Serves, IInv, Owned, ServerShapes
<1>3. UNCHANGED <<live, files, closed, dropper, created, cl, call, got, link, req, resp, srv>>
  BY Zenon DEF Serves, catalogVars, clientVars, wireVars
<1>4. Shapes'
  <2>1. ServerShapes'
    BY <1>1, <1>3, Zenon DEF Serves, IInv, Owned, ServerShapes
  <2>2. ClientShapes' /\ WireShapes'
    BY <1>3 DEF IInv, Owned, ClientShapes, WireShapes
  <2>3. CatalogShapes'
    BY <1>3, Zenon DEF Serves, IInv, Owned, CatalogShapes
  <2> QED
    BY <2>1, <2>2, <2>3 DEF Shapes
<1>5. \A c \in Clients : Stream(c)'
  BY <1>1, <1>2, <1>3, SameStream, Zenon DEF IInv, Owned
<1>6. \A p \in Queries : Caller(p)'
  <2>1. \A p \in Queries \ {q} : p \in Sessions \ {q}
    BY DEF Sessions
  <2>2. \A p \in Queries \ {q} : Caller(p)'
    BY <1>2, <1>3, <2>1, Zenon DEF Caller, IInv, Owned
  <2>3. Caller(q)'
    BY <1>2, <1>3, Zenon DEF Serves, Caller
  <2> QED
    BY <2>2, <2>3, Zenon
<1>7. Dropping'
  <2>1. \A s \in Sessions \ {q} : Cleared(s)'
    BY <1>2, <1>3, Zenon DEF Serves, Dropping, Cleared, Doomed, IInv
  <2>2. Cleared(q)'
    BY <1>2, <1>3, Zenon DEF Serves, Cleared, Doomed
  <2> QED
    BY <1>3, <2>1, <2>2 DEF Dropping, Doomed, IInv
<1>8. Directories'
  BY <1>3, Zenon DEF Serves, Directories, IInv
<1>9. \A c \in Clients : Paired(c)'
  <2>1. \A c \in Clients : excused[c] \subseteq excused'[c]
    BY Zenon DEF Serves, Sessions
  <2> QED
    BY <1>1, <1>2, <1>3, <2>1, SamePaired DEF IInv, Protocol
<1>10. \A p \in Queries : Reported(p)'
  <2>1. \A p \in Queries \ {q} : p \in Sessions \ {q}
    BY DEF Sessions
  <2>2. \A p \in Queries \ {q} : Reported(p)'
    BY <1>2, <2>1, Zenon DEF Reported, IInv, Protocol
  <2>3. Reported(q)'
    BY <1>2, Zenon DEF Serves, Reported
  <2> QED
    BY <2>2, <2>3
<1> QED
  BY <1>4, <1>5, <1>6, <1>7, <1>8, <1>9, <1>10 DEF IInv, Owned, Shapes, Protocol

LEMMA Queried ==
    ASSUME IInv, NEW q \in Queries
    PROVE  /\ q \in Sessions /\ qs[q] \in Locals /\ tx[q] \in Txs
           /\ qs[q].at # "done" => qs[q].told = "none" /\ ~applied[q].done
           /\ applied \in [Sessions -> [done : BOOLEAN, writes : SUBSET Numbers]]
           /\ UNCHANGED tx => tx' = [tx EXCEPT ![q] = tx[q]]
           /\ UNCHANGED excused => /\ excused' \in [Sessions \cup {"catalog"} -> SUBSET Reasons]
                                   /\ \A s \in Sessions \cup {"catalog"} : excused[s] \subseteq excused'[s]
BY Zenon DEF IInv, Owned, ServerShapes, CatalogShapes, Protocol, Reported, Sessions

\* The caller is told, and has no transaction any more.
LEMMA ToldStep ==
    ASSUME IInv, NEW q \in Queries, qs[q].at # "done",
           NEW told \in Replies, Told(q, told), EndTx(q) \/ (UNCHANGED tx /\ tx[q].db = 0),
           \/ /\ UNCHANGED applied /\ told # "ok"
           \/ /\ applied' = [applied EXCEPT ![q] = [done |-> TRUE, writes |-> tx[q].buffer]]
              /\ told = "ok",
           UNCHANGED <<catalogVars, clientVars, wireVars, srv, excused>>
    PROVE  IInv'
<1> DEFINE u == [at |-> "done", told |-> told, db |-> 0]
<1>1. u \in Locals /\ u.at = "done" /\ u.told = told /\ qs' = [qs EXCEPT ![q] = u]
  BY SessionsAssumption DEF Locals, Told, Dbs
<1>2. PICK t \in Txs : t.db = 0 /\ tx' = [tx EXCEPT ![q] = t]
  BY NoTxType, Queried DEF EndTx
<1>3. /\ applied' \in [Sessions -> [done : BOOLEAN, writes : SUBSET Numbers]]
      /\ \A s \in Sessions \ {q} : applied'[s] = applied[s]
      /\ applied'[q].done <=> told = "ok"
  <2>1. tx[q].buffer \in SUBSET Numbers
    BY Queried DEF Txs
  <2>2. CASE UNCHANGED applied /\ told # "ok"
    BY <2>2, Queried
  <2>3. CASE /\ applied' = [applied EXCEPT ![q] = [done |-> TRUE, writes |-> tx[q].buffer]]
             /\ told = "ok"
    BY <2>1, <2>3, Queried
  <2> QED
    BY <2>2, <2>3
<1> HIDE DEF u
<1>4. Serves(q, u, t)
  BY <1>1, <1>2, <1>3, Queried, Zenon DEF Serves
<1> QED
  BY <1>4, ServeStep, Zenon

LEMMA QueryLookupStep == ASSUME IInv, NEW q \in Queries, QueryLookup(q) PROVE IInv'
<1>1. /\ qs[q].at = "idle" /\ tx[q].db = 0
      /\ UNCHANGED <<catalogVars, clientVars, wireVars, tx, srv, applied, excused>>
  BY Zenon DEF QueryLookup, IInv, Owned, Caller
<1>2. CASE live = 0
  <2>1. Told(q, "error") /\ "error" \in Replies
    BY <1>2 DEF QueryLookup, Replies
  <2> QED
    BY <1>1, <2>1, ToldStep, Zenon
<1>3. CASE live # 0
  <2> DEFINE u == [at |-> "looked", told |-> "none", db |-> live]
  <2>1. qs' = [qs EXCEPT ![q] = u]
    BY <1>3 DEF QueryLookup
  <2>2. u \in Locals /\ u.at = "looked" /\ u.told = "none" /\ u.db \in 1 .. created
    BY <1>3, SessionsAssumption DEF Locals, Replies, IInv, Owned, CatalogShapes, Dbs
  <2> HIDE DEF u
  <2>3. Serves(q, u, tx[q])
    BY <1>1, <2>1, <2>2, Queried, Zenon DEF Serves
  <2> QED
    BY <2>3, ServeStep
<1> QED
  BY <1>2, <1>3

LEMMA QueryBeginStep == ASSUME IInv, NEW q \in Queries, QueryBegin(q) PROVE IInv'
<1> DEFINE d == qs[q].db
<1>1. PICK registers \in BOOLEAN, at \in {"statement", "closure"} :
         BeginTx(q, d, registers) /\ qs' = [qs EXCEPT ![q].at = at]
  BY Zenon DEF QueryBegin
<1> DEFINE t == [db |-> d, registered |-> registers, buffer |-> {}]
<1> DEFINE u == [qs[q] EXCEPT !.at = at]
<1> DEFINE e == excused[q] \cup (IF live = d THEN {} ELSE {"late"})
<1>2. /\ qs[q].at = "looked" /\ qs' = [qs EXCEPT ![q] = u] /\ tx' = [tx EXCEPT ![q] = t]
      /\ excused' = [excused EXCEPT ![q] = e]
      /\ UNCHANGED <<catalogVars, clientVars, wireVars, srv, applied>>
  BY <1>1 DEF QueryBegin, BeginTx, Excuse, IInv, Owned, ServerShapes
<1>3. d \in 1 .. created /\ d \in Dbs
  BY <1>2, SessionsAssumption DEF IInv, Owned, Caller, CatalogShapes, Dbs
<1>4. t \in Txs /\ t.db = d
  BY <1>3 DEF Txs
<1>5. u \in Locals /\ u.at = at /\ u.told = "none" /\ at \in {"statement", "closure"}
  BY <1>1, <1>2, Queried, Zenon DEF Locals
<1>6. excused[q] \in SUBSET Reasons /\ excused \in [Sessions \cup {"catalog"} -> SUBSET Reasons]
  BY Queried DEF IInv, Owned, CatalogShapes
<1>7. /\ excused' \in [Sessions \cup {"catalog"} -> SUBSET Reasons]
      /\ \A s \in Sessions \cup {"catalog"} : excused[s] \subseteq excused'[s]
      /\ d # live => "late" \in excused'[q]
  <2>1. e \in SUBSET Reasons /\ excused[q] \subseteq e /\ (d # live => "late" \in e)
    BY <1>6 DEF Reasons
  <2> HIDE DEF e
  <2> QED
    BY <1>2, <1>6, <2>1, Queried, Zenon
<1>8. d = live => d \notin Doomed
  BY <1>3 DEF IInv, Dropping, Owned, CatalogShapes
<1>9. d # 0
  BY <1>3 DEF IInv, Owned, CatalogShapes, Dbs
<1> HIDE DEF u, t, e, d
<1>10. Serves(q, u, t)
  BY <1>2, <1>4, <1>5, <1>7, <1>8, <1>9, Queried, Zenon DEF Serves
<1> QED
  BY <1>10, ServeStep

LEMMA CommitAndTellStep ==
    ASSUME IInv, NEW q \in Queries, qs[q].at # "done", CommitAndTell(q),
           UNCHANGED <<catalogVars, clientVars, wireVars, srv, excused>>
    PROVE  IInv'
<1>1. PICK ok \in BOOLEAN : CommitTx(q, ok) /\ Told(q, IF ok THEN "ok" ELSE "error")
  BY DEF CommitAndTell
<1>2. EndTx(q) /\ "ok" \in Replies /\ "error" \in Replies
  BY <1>1 DEF CommitTx, Replies
<1>3. CASE ok
  <2>1. Told(q, "ok") /\ applied' = [applied EXCEPT ![q] = [done |-> TRUE, writes |-> tx[q].buffer]]
    BY <1>1, <1>3, Zenon DEF CommitTx
  <2> QED
    BY <1>2, <2>1, ToldStep, Zenon
<1>4. CASE ~ok
  <2>1. Told(q, "error") /\ UNCHANGED applied
    BY <1>1, <1>4 DEF CommitTx
  <2> QED
    BY <1>2, <2>1, ToldStep
<1> QED
  BY <1>3, <1>4

LEMMA RunStatementStep == ASSUME IInv, NEW q \in Queries, RunStatement(q) PROVE IInv'
<1>1. qs[q].at = "statement" /\ UNCHANGED <<catalogVars, clientVars, wireVars, srv, excused>>
  BY DEF RunStatement
<1>2. CASE EndTx(q) /\ Told(q, "error") /\ UNCHANGED applied
  <2>1. "error" \in Replies
    BY DEF Replies
  <2> QED
    BY <1>1, <1>2, <2>1, ToldStep
<1>3. CASE CommitAndTell(q)
  BY <1>1, <1>3, CommitAndTellStep
<1>4. CASE qs' = [qs EXCEPT ![q].at = "iterating"] /\ UNCHANGED <<tx, applied>>
  <2> DEFINE u == [qs[q] EXCEPT !.at = "iterating"]
  <2>1. qs' = [qs EXCEPT ![q] = u]
    BY <1>4
  <2>2. u \in Locals /\ u.at = "iterating" /\ u.told = "none"
    BY <1>1, Queried DEF Locals
  <2>3. tx[q].db # 0 /\ (tx[q].db \in Doomed /\ tx[q].registered => "late" \in excused[q])
    BY <1>1, Queried DEF IInv, Owned, Caller, Dropping, Cleared
  <2> HIDE DEF u
  <2>4. Serves(q, u, tx[q])
    BY <1>1, <1>4, <2>1, <2>2, <2>3, Queried, Zenon DEF Serves
  <2> QED
    BY <2>4, ServeStep
<1> QED
  BY <1>2, <1>3, <1>4 DEF RunStatement

LEMMA IterateStep == ASSUME IInv, NEW q \in Queries, Iterate(q) PROVE IInv'
<1>1. qs[q].at = "iterating" /\ UNCHANGED <<catalogVars, clientVars, wireVars, srv, excused>>
  BY DEF Iterate
<1>2. CASE CommitAndTell(q)
  BY <1>1, <1>2, CommitAndTellStep
<1>3. ASSUME NEW told \in {"error", "none"}, EndTx(q), Told(q, told), UNCHANGED applied PROVE IInv'
  <2>1. told \in Replies
    BY <1>3, Zenon DEF Replies
  <2> QED
    BY <1>1, <1>3, <2>1, ToldStep
<1> QED
  BY <1>2, <1>3 DEF Iterate

LEMMA RunClosureStep == ASSUME IInv, NEW q \in Queries, RunClosure(q) PROVE IInv'
<1>1. qs[q].at = "closure" /\ UNCHANGED <<catalogVars, clientVars, wireVars, srv, excused>>
  BY Zenon DEF RunClosure
<1>2. CASE CommitAndTell(q)
  BY <1>1, <1>2, CommitAndTellStep, Zenon
<1>3. CASE EndTx(q) /\ Told(q, "rolled back") /\ UNCHANGED applied
  <2>1. "rolled back" \in Replies
    BY DEF Replies
  <2> QED
    BY <1>1, <1>3, <2>1, ToldStep, Zenon
<1> QED
  BY <1>2, <1>3, Zenon DEF RunClosure

-----------------------------------------------------------------------------
(***************************************************************************)
(* The catalog.  Its steps touch no stream and no transaction, except the  *)
(* restart, which ends all of them.                                        *)
(***************************************************************************)
Administers ==
    /\ UNCHANGED <<cl, call, got, link, req, resp, tx, srv, qs, applied>>
    /\ CatalogShapes' /\ created <= created'
    /\ \A s \in Sessions : excused[s] \subseteq excused'[s]
    /\ Dropping' /\ Directories'

LEMMA AdministerStep == ASSUME IInv, Administers PROVE IInv'
<1>1. ServerShapes' /\ WireShapes' /\ ClientShapes'
  BY Zenon DEF Administers, IInv, Owned, ServerShapes, WireShapes, ClientShapes
<1>2. created \in Nat /\ created' \in Nat /\ created <= created'
  BY SessionsAssumption DEF Administers, CatalogShapes, IInv, Owned, Dbs
<1>3. \A d \in 1 .. created : d \in 1 .. created'
  BY <1>2
<1>4. \A c \in Clients : Stream(c)'
  BY <1>3, Zenon DEF Administers, IInv, Owned, Stream
<1>5. \A q \in Queries : Caller(q)'
  BY <1>3 DEF Administers, IInv, Owned, Caller
<1>6. \A c \in Clients : Paired(c)'
  BY SamePaired DEF Administers, IInv, Protocol, Sessions
<1>7. \A q \in Queries : Reported(q)'
  BY Zenon DEF Administers, IInv, Protocol, Reported
<1> QED
  BY <1>1, <1>4, <1>5, <1>6, <1>7 DEF Administers, IInv, Owned, Protocol

LEMMA CreateDbStep == ASSUME IInv, CreateDb PROVE IInv'
<1> DEFINE why == IF files = NoFiles /\ dropper.at = "idle" THEN {} ELSE {"reused"}
<1>1. /\ live = 0 /\ created < MaxDbs /\ created' = created + 1 /\ live' = created'
      /\ files' = [of |-> created', whole |-> files.whole] /\ Excuse("catalog", why)
      /\ UNCHANGED <<closed, dropper, tx, clientVars, wireVars, srv, qs, applied>>
  BY DEF CreateDb
<1>2. UNCHANGED <<cl, call, got, link, req, resp>>
  BY <1>1 DEF clientVars, wireVars
<1>3. /\ created \in Nat /\ created' \in Dbs /\ created <= created' /\ created' \notin 0 .. created
      /\ \A d \in 0 .. created : d \in 0 .. created'
      /\ \A d \in 1 .. created : d \in 1 .. created'
      /\ created' \in 0 .. created' /\ created' # 0
  BY <1>1, SessionsAssumption DEF IInv, Owned, CatalogShapes, Dbs
<1>4. /\ excused' \in [Sessions \cup {"catalog"} -> SUBSET Reasons]
      /\ \A s \in Sessions \cup {"catalog"} : excused[s] \subseteq excused'[s]
      /\ excused'["catalog"] = {} => excused["catalog"] = {} /\ why = {}
  <2>1. why \in SUBSET Reasons
    BY DEF Reasons
  <2> HIDE DEF why
  <2> QED
    BY <1>1, <2>1 DEF Excuse, IInv, Owned, CatalogShapes
<1>5. CatalogShapes'
  BY <1>1, <1>3, <1>4 DEF IInv, Owned, CatalogShapes
<1>6. Dropping'
  <2>1. created' \notin closed \cup {dropper.db}
    BY <1>3 DEF IInv, Owned, CatalogShapes
  <2>2. \A s \in Sessions : Cleared(s)'
    BY <1>1, <1>4 DEF IInv, Dropping, Cleared, Doomed
  <2> QED
    BY <1>1, <2>1, <2>2 DEF IInv, Dropping, Doomed
<1>7. Directories'
  <2>1. excused'["catalog"] = {} => files.whole /\ dropper.at = "idle"
    BY <1>4 DEF NoFiles
  <2> QED
    BY <1>1, <2>1 DEF Directories
<1> QED
  BY <1>1, <1>2, <1>3, <1>4, <1>5, <1>6, <1>7, AdministerStep DEF Administers

LEMMA Administering ==
    ASSUME IInv
    PROVE  /\ created \in Nat /\ created <= created /\ created \in Dbs
           /\ live \in 0 .. created /\ files \in [of : 0 .. created, whole : BOOLEAN]
           /\ dropper \in [at : {"idle", "quiesce", "remove", "removing"}, db : 0 .. created]
           /\ closed \subseteq 1 .. created
           /\ excused \in [Sessions \cup {"catalog"} -> SUBSET Reasons]
           /\ dropper.at = "idle" <=> dropper.db = 0
           /\ 0 \in 0 .. created
BY SessionsAssumption DEF IInv, Owned, CatalogShapes, Dbs, Dropping

LEMMA DropBeginStep == ASSUME IInv, DropBegin PROVE IInv'
<1>1. /\ live # 0 /\ dropper.at = "idle" /\ ~HasActiveTransactions(live) /\ live' = 0
      /\ dropper' = [at |-> "quiesce", db |-> live]
      /\ UNCHANGED <<files, closed, created, tx, clientVars, wireVars, srv, qs, applied, excused>>
  BY DEF DropBegin, DropAllowed, OffTheMap
<1>2. UNCHANGED <<cl, call, got, link, req, resp>>
  BY <1>1 DEF clientVars, wireVars
<1>3. CatalogShapes'
  BY <1>1, Administering DEF CatalogShapes
<1>4. Dropping'
  <2>1. \A s \in Sessions : Cleared(s)'
    BY <1>1 DEF HasActiveTransactions, IInv, Dropping, Cleared, Doomed
  <2> QED
    BY <1>1, <2>1 DEF Dropping
<1>5. Directories'
  BY <1>1 DEF Directories
<1> QED
  BY <1>1, <1>2, <1>3, <1>4, <1>5, Administering, AdministerStep DEF Administers

LEMMA DropQuiesceStep == ASSUME IInv, DropQuiesce PROVE IInv'
<1>1. /\ dropper.at = "quiesce" /\ closed' = closed \cup {dropper.db}
      /\ dropper' = [dropper EXCEPT !.at = "remove"]
      /\ UNCHANGED <<live, files, created, tx, clientVars, wireVars, srv, qs, applied, excused>>
  BY DEF DropQuiesce
<1>2. UNCHANGED <<cl, call, got, link, req, resp>>
  BY <1>1 DEF clientVars, wireVars
<1>3. dropper'.at = "remove" /\ dropper'.db = dropper.db
  BY <1>1, Administering
<1>4. CatalogShapes'
  BY <1>1, Administering DEF CatalogShapes
<1>5. Doomed' = Doomed
  BY <1>1, <1>3 DEF Doomed
<1>6. Dropping'
  BY <1>1, <1>3, <1>5 DEF IInv, Dropping, Cleared
<1>7. Directories'
  BY <1>1, <1>3 DEF IInv, Directories
<1> QED
  BY <1>1, <1>2, <1>4, <1>6, <1>7, Administering, AdministerStep DEF Administers

LEMMA DropRemoveStep == ASSUME IInv, DropRemove PROVE IInv'
<1>1. /\ dropper.at = "remove" /\ files' = [files EXCEPT !.whole = FALSE]
      /\ dropper' = [dropper EXCEPT !.at = "removing"]
      /\ UNCHANGED <<live, closed, created, tx, clientVars, wireVars, srv, qs, applied, excused>>
  BY DEF DropRemove
<1>2. UNCHANGED <<cl, call, got, link, req, resp>>
  BY <1>1 DEF clientVars, wireVars
<1>3. dropper'.at = "removing" /\ dropper'.db = dropper.db /\ files'.of = files.of
  BY <1>1, Administering
<1>4. CatalogShapes'
  BY <1>1, Administering, Zenon DEF CatalogShapes
<1>5. Doomed' = Doomed
  BY <1>1, <1>3 DEF Doomed
<1>6. Dropping'
  BY <1>1, <1>3, <1>5 DEF IInv, Dropping, Cleared
<1>7. Directories'
  BY <1>1, <1>3 DEF IInv, Directories
<1> QED
  BY <1>1, <1>2, <1>4, <1>6, <1>7, Administering, AdministerStep DEF Administers

\* The end of drop_db: what it has shut down stays shut down.
LEMMA DropOver ==
    ASSUME IInv, dropper.at = "removing", dropper' = [at |-> "idle", db |-> 0],
           UNCHANGED <<live, closed, tx>>, \A s \in Sessions : excused[s] \subseteq excused'[s]
    PROVE  Dropping'
<1>1. Doomed' \subseteq Doomed \cup {0}
  BY DEF Doomed
<1>2. \A s \in Sessions : Cleared(s)'
  BY <1>1 DEF IInv, Dropping, Cleared
<1> QED
  BY <1>1, <1>2 DEF IInv, Dropping

LEMMA DropRemovedStep == ASSUME IInv, DropRemoved PROVE IInv'
<1>1. /\ dropper.at = "removing" /\ files' = NoFiles /\ dropper' = [at |-> "idle", db |-> 0]
      /\ UNCHANGED <<live, closed, created, tx, clientVars, wireVars, srv, qs, applied, excused>>
  BY DEF DropRemoved
<1>2. UNCHANGED <<cl, call, got, link, req, resp>>
  BY <1>1 DEF clientVars, wireVars
<1>3. CatalogShapes'
  BY <1>1, Administering DEF CatalogShapes, NoFiles
<1>4. Dropping'
  BY <1>1, DropOver, Zenon
<1>5. Directories'
  BY <1>1 DEF IInv, Directories, NoFiles
<1> QED
  BY <1>1, <1>2, <1>3, <1>4, <1>5, Administering, AdministerStep DEF Administers

LEMMA DropFailsStep == ASSUME IInv, DropFails PROVE IInv'
<1>1. /\ dropper.at = "removing" /\ dropper' = [at |-> "idle", db |-> 0] /\ Excuse("catalog", {"torn"})
      /\ UNCHANGED <<live, files, closed, created, tx, clientVars, wireVars, srv, qs, applied>>
  BY DEF DropFails
<1>2. UNCHANGED <<cl, call, got, link, req, resp>>
  BY <1>1 DEF clientVars, wireVars
<1>3. /\ excused' \in [Sessions \cup {"catalog"} -> SUBSET Reasons]
      /\ \A s \in Sessions \cup {"catalog"} : excused[s] \subseteq excused'[s]
      /\ "torn" \in excused'["catalog"]
  BY <1>1, Administering DEF Excuse, Reasons
<1>4. CatalogShapes'
  BY <1>1, <1>3, Administering DEF CatalogShapes
<1>5. Dropping'
  BY <1>1, <1>3, DropOver, Zenon
<1>6. Directories'
  BY <1>3 DEF Directories
<1> QED
  BY <1>1, <1>2, <1>3, <1>4, <1>5, <1>6, Administering, AdministerStep DEF Administers

\* A restart ends the task of every stream: what has not been sent yet is lost.
Cut(c) ==
    /\ srv'[c].at = IF srv[c].at = "off" THEN "off" ELSE "ended"
    /\ srv'[c].out = <<>> /\ srv'[c].finished = srv[c].finished
    /\ cl'[c] = cl[c] /\ call'[c] = call[c] /\ got'[c] = got[c] /\ link'[c] = link[c]
    /\ req'[c] = req[c] /\ resp'[c] = resp[c] /\ applied'[c] = applied[c]
    /\ excused[c] \subseteq excused'[c]

LEMMA CutPaired == ASSUME NEW c \in Clients, Cut(c), Paired(c) PROVE Paired(c)'
<1>1. CASE srv[c].at = "off"
  <2>1. Fresh(c) => Fresh(c)'
    BY <1>1, Zenon DEF Cut, Fresh, Nothing, Sent, Undecided, Held
  <2>2. Over(c) => Over(c)'
    BY <1>1, Zenon DEF Cut, Over, NoneInFlight, InFlight, Answered
  <2>3. ~Beginning(c) /\ ~Resting(c) /\ ~Concluding(c) /\ \A k \in Calls : ~Asking(c, k)
    BY <1>1, Zenon DEF Beginning, Resting, Concluding, Asking, Awaiting, Halfway, TaskAt
  <2> QED
    BY <2>1, <2>2, <2>3, Zenon DEF Cut, Paired, Phase
<1>2. CASE srv[c].at # "off"
  <2>1. /\ \A rs : Sent(c, rs)'
        /\ \A x : TaskAt(c, x)'
        /\ Nothing(c) => Nothing(c)'
        /\ \A k \in Calls : HeldToo(c, k)' /\ (InFlight(c, k)' <=> InFlight(c, k))
    BY <1>2, Zenon DEF Cut, Sent, TaskAt, Nothing, HeldToo, InFlight
  <2>2. \A m : One(c, m) => One(c, m)'
    BY <1>2, Zenon DEF Cut, One, CutShort
  <2>3. \A m, n : Two(c, m, n) => Two(c, m, n)'
    BY <1>2, Zenon DEF Cut, Two, CutShort
  <2>4. Undecided(c) => Undecided(c)'
    BY <1>2, Zenon DEF Cut, Undecided, Held
  <2>5. ~Fresh(c)
    BY <1>2, Zenon DEF Fresh
  <2>6. Beginning(c) => Beginning(c)'
    BY <2>1, <2>2, <2>4, Zenon DEF Cut, Beginning
  <2>7. Resting(c) => Resting(c)'
    BY <2>1, <2>4, Zenon DEF Cut, Resting, NoneInFlight
  <2>8. Concluding(c) => Concluding(c)'
    BY <2>1, <2>2, <2>4, Zenon DEF Cut, Concluding, NoneInFlight, Answered
  <2>9. Over(c) => Over(c)'
    BY <1>2, <2>1, Zenon DEF Cut, Over, NoneInFlight, Answered
  <2>10. \A k \in Calls : Asking(c, k) => Asking(c, k)'
    <3> SUFFICES ASSUME NEW k \in Calls, Asking(c, k) PROVE Asking(c, k)'
      OBVIOUS
    <3>1. Awaiting(c, k) => Awaiting(c, k)'
      BY <1>2, <2>1, <2>2, <2>3, Zenon DEF Cut, Awaiting
    <3>2. Halfway(c, k) => Halfway(c, k)'
      BY <2>1, <2>2, Zenon DEF Cut, Halfway
    <3> QED
      BY <2>1, <2>4, <3>1, <3>2, Zenon DEF Cut, Asking
  <2> QED
    BY <2>5, <2>6, <2>7, <2>8, <2>9, <2>10, Zenon DEF Cut, Paired, Phase
<1> QED
  BY <1>1, <1>2

LEMMA RestartStep == ASSUME IInv, Restart PROVE IInv'
<1> DEFINE why == IF files.whole THEN {} ELSE {"torn"}
<1> DEFINE lost == [at |-> "done", told |-> "lost", db |-> 0]
<1> DEFINE gone == [at |-> "idle", db |-> 0]
<1>1. /\ live' \in Restored /\ closed' = {} /\ dropper' = gone
      /\ tx' = [s \in Sessions |-> NoTx]
      /\ srv' = [c \in Clients |-> Goes(srv[c], IF srv[c].at = "off" THEN "off" ELSE "ended", <<>>)]
      /\ qs' = [q \in Queries |-> IF qs[q].at \in {"idle", "done"} THEN qs[q] ELSE lost]
      /\ Excuse("catalog", why)
      /\ UNCHANGED <<files, created, clientVars, wireVars, applied>>
  BY Zenon DEF Restart
<1>2. UNCHANGED <<cl, call, got, link, req, resp>>
  BY <1>1, Zenon DEF clientVars, wireVars
<1>3. /\ excused' \in [Sessions \cup {"catalog"} -> SUBSET Reasons]
      /\ \A s \in Sessions \cup {"catalog"} : excused[s] \subseteq excused'[s]
      /\ excused'["catalog"] = {} => files.whole
  <2>1. why \in SUBSET Reasons /\ (why = {} => files.whole)
    BY DEF Reasons
  <2> HIDE DEF why
  <2> QED
    BY <1>1, <2>1, Administering, Zenon DEF Excuse
<1>4. lost \in Locals /\ lost.at = "done" /\ lost.told = "lost"
  BY SessionsAssumption DEF Locals, Replies, Dbs
<1>5. gone \in [at : {"idle", "quiesce", "remove", "removing"}, db : 0 .. created]
      /\ gone.at = "idle" /\ gone.db = 0
  BY Administering
<1> HIDE DEF why, lost, gone
<1>6. \A c \in Clients :
         /\ srv'[c] \in Servers
         /\ srv'[c].at = IF srv[c].at = "off" THEN "off" ELSE "ended"
         /\ srv'[c].out = <<>> /\ srv'[c].finished = srv[c].finished
  <2> SUFFICES ASSUME NEW c \in Clients
               PROVE  /\ srv'[c] \in Servers
                      /\ srv'[c].at = IF srv[c].at = "off" THEN "off" ELSE "ended"
                      /\ srv'[c].out = <<>> /\ srv'[c].finished = srv[c].finished
    OBVIOUS
  <2> DEFINE at == IF srv[c].at = "off" THEN "off" ELSE "ended"
  <2>1. at \in Places /\ <<>> \in Seq(Messages) /\ srv[c] \in Servers
    BY DEF Places, IInv, Owned, ServerShapes
  <2>2. srv'[c] = Goes(srv[c], at, <<>>)
    BY <1>1, Zenon
  <2> HIDE DEF at
  <2>3. srv'[c].at = at /\ srv'[c].out = <<>> /\ srv'[c].finished = srv[c].finished
    BY <2>1, <2>2, Zenon DEF Goes, Servers
  <2>5. srv'[c] \in Servers
    BY <2>1, <2>2, GoesType, Zenon
  <2>4. at = IF srv[c].at = "off" THEN "off" ELSE "ended"
    BY DEF at
  <2> QED
    BY <2>3, <2>4, <2>5
<1>7. /\ \A s \in Sessions : tx'[s] = NoTx
      /\ \A q \in Queries : (qs'[q] = qs[q] /\ qs[q].at \in {"idle", "done"}) \/ qs'[q] = lost
  BY <1>1
<1>8. Shapes'
  <2>1. ServerShapes'
    <3>1. srv' \in [Clients -> Servers]
      BY <1>1, <1>6, Zenon
    <3>2. qs' \in [Queries -> Locals]
      BY <1>1, <1>4 DEF IInv, Owned, ServerShapes
    <3>3. tx' \in [Sessions -> Txs]
      BY <1>1, NoTxType
    <3> QED
      BY <1>1, <3>1, <3>2, <3>3 DEF IInv, Owned, ServerShapes
  <2>2. ClientShapes' /\ WireShapes'
    BY <1>2 DEF IInv, Owned, ClientShapes, WireShapes
  <2>3. CatalogShapes'
    <3>1. live' \in 0 .. created
      <4>1. files.of \in 0 .. created
        BY Administering
      <4> QED
        BY <1>1, <4>1, Administering, Zenon DEF Restored
    <3> QED
      BY <1>1, <1>3, <1>5, <3>1, Administering, Zenon DEF CatalogShapes
  <2> QED
    BY <2>1, <2>2, <2>3 DEF Shapes
<1>9. \A c \in Clients : Stream(c)'
  <2> SUFFICES ASSUME NEW c \in Clients PROVE Stream(c)'
    OBVIOUS
  <2>1. Stream(c) /\ tx'[c].db = 0
    BY <1>7, NoTxType, Zenon DEF IInv, Owned, Sessions
  <2>2. srv'[c].at # "starting" /\ (srv[c].at = "off" => srv'[c].at = "off") /\ srv'[c].out = <<>>
    BY <1>6
  <2> QED
    BY <1>2, <2>1, <2>2, Zenon DEF Stream
<1>10. \A q \in Queries : Caller(q)'
  BY <1>4, <1>7, NoTxType DEF Caller, Sessions
<1>11. Dropping'
  BY <1>1, <1>5, <1>7, NoTxType, Zenon DEF Dropping, Cleared, Doomed
<1>12. Directories'
  BY <1>1, <1>3, <1>5, Administering DEF Directories, Restored
<1>13. \A c \in Clients : Paired(c)'
  <2>1. \A c \in Clients : Cut(c)
    BY <1>1, <1>2, <1>3, <1>6, Zenon DEF Cut, Sessions
  <2> QED
    BY <2>1, CutPaired DEF IInv, Protocol
<1>14. \A q \in Queries : Reported(q)'
  BY <1>1, <1>4, <1>7, Zenon DEF IInv, Protocol, Reported
<1> QED
  BY <1>8, <1>9, <1>10, <1>11, <1>12, <1>13, <1>14 DEF IInv, Owned, Shapes, Protocol

-----------------------------------------------------------------------------
LEMMA CatalogStepIInv == ASSUME IInv, CatalogStep PROVE IInv'
BY CreateDbStep, DropBeginStep, DropQuiesceStep, DropRemoveStep, DropRemovedStep, DropFailsStep, RestartStep
DEF CatalogStep

LEMMA ClientStepIInv == ASSUME IInv, NEW c \in Clients, ClientStep(c) PROVE IInv'
BY OpenStep, SendCommitStep, SendRollbackStep, HangUpStep, SendStep, CancelCallStep
DEF ClientStep

LEMMA AwaitStepIInv == ASSUME IInv, NEW c \in Clients, AwaitStep(c) PROVE IInv'
BY ReadStartStep, ReadCommitStep, LockStreamStep, ReadAnswerStep, SkipFinishedStep
DEF AwaitStep

LEMMA ServerStepIInv == ASSUME IInv, NEW c \in Clients, ServerStep(c) PROVE IInv'
BY AfterFinishStep, StartLookupStep, ExecuteStep, RejectStep, ExecutedStep, StartBeginStep, CommitStep,
   RollbackStep, PushStep, LeaveStep, StreamEndsStep
DEF ServerStep

LEMMA QueryStepIInv == ASSUME IInv, NEW q \in Queries, QueryStep(q) PROVE IInv'
BY QueryLookupStep, QueryBeginStep, RunStatementStep, IterateStep, RunClosureStep
DEF QueryStep

LEMMA StutterIInv == ASSUME IInv, UNCHANGED vars PROVE IInv'
<1>1. UNCHANGED <<live, files, closed, dropper, created, cl, call, got, link, req, resp, tx, srv, qs, applied, excused>>
  BY DEF vars, catalogVars, clientVars, wireVars
<1>2. CatalogShapes' /\ Dropping' /\ Directories'
  BY <1>1, Zenon DEF IInv, Owned, CatalogShapes, Dropping, Cleared, Doomed, Directories
<1> QED
  BY <1>1, <1>2, Administering, AdministerStep DEF Administers

LEMMA StepIInv == IInv /\ [Next]_vars => IInv'
BY CatalogStepIInv, ClientStepIInv, AwaitStepIInv, ServerStepIInv, QueryStepIInv, StutterIInv
DEF Next

LEMMA Invariance == Spec => []IInv
BY InitIInv, StepIInv, PTL DEF Spec

-----------------------------------------------------------------------------
\* drop_db never shuts a database down under a transaction its check could have
\* seen (has_active_transactions), and a transaction is open exactly while the task
\* or the call that owns it works on it.
THEOREM NoDropUnderATransaction == Spec => []DroppedIsIdle
<1>1. IInv => DroppedIsIdle
  <2> SUFFICES ASSUME IInv PROVE DroppedIsIdle
    OBVIOUS
  <2>1. TypeOK
    <3>1. live \in 0 .. MaxDbs /\ files.of \in 0 .. MaxDbs /\ closed \subseteq Ids
      BY SessionsAssumption DEF IInv, Owned, CatalogShapes, Dbs, Ids
    <3>2. \A c \in Clients : /\ Len(resp[c]) <= ChannelCap
                             /\ \A i \in 1 .. Len(resp[c]) : resp[c][i] \in Messages
      BY DEF IInv, Owned, WireShapes
    <3> QED
      BY <3>1, <3>2, Zenon DEF IInv, Owned, Stream, Caller, TypeOK
  <2>2. \A s \in Sessions : tx[s].db \in closed => tx[s].db # 0
    BY DEF IInv, Owned, CatalogShapes
  <2> QED
    BY <2>1, <2>2 DEF IInv, Dropping, Cleared, Doomed, DroppedIsIdle
<1> QED
  BY <1>1, Invariance, PTL

\* execute_query returns the results of its own statement, although the answers
\* carry no statement number: in a stream whose calls are made one after the other,
\* at most the answers to one request are on their way.
THEOREM AnswersAreOwn == Spec => []OwnAnswer
<1>1. IInv => OwnAnswer
  BY DEF IInv, Protocol, Paired, OwnAnswer
<1> QED
  BY <1>1, Invariance, PTL

\* A caller told "ok" finds every statement it was answered in the database, and one
\* told "error" or "rolled back" finds none, whatever the server loses in a restart.
THEOREM RepliesAreTrue == Spec => []ToldTheTruth
<1>1. IInv => ToldTheTruth
  <2> SUFFICES ASSUME IInv PROVE ToldTheTruth
    OBVIOUS
  <2>1. ASSUME NEW c \in Clients, "mixed" \notin excused[c]
        PROVE  /\ cl[c].told = "ok" => applied[c].done /\ Answered(c) \subseteq applied[c].writes
               /\ cl[c].told \in {"error", "rolled back"} => ~applied[c].done
    <3>1. Phase(c)
      BY <2>1 DEF IInv, Protocol, Paired
    <3>2. Over(c) \/ cl[c].told = "none"
      BY <3>1, Zenon DEF Phase, Fresh, Beginning, Resting, Concluding, Asking
    <3> QED
      BY <3>2, Zenon DEF Over
  <2>2. \A q \in Queries : /\ q \notin Clients
                           /\ qs[q].told = "ok" => applied[q].done
                           /\ qs[q].told \in {"error", "rolled back"} => ~applied[q].done
    BY SessionsAssumption, Zenon DEF IInv, Protocol, Reported
  <2> QED
    BY <2>1, <2>2, Zenon DEF ToldTheTruth, Answered, Sessions
<1> QED
  BY <1>1, Invariance, PTL

\* The map of DatabaseCatalog and the directories agree, through drops and restarts,
\* as long as no removal fails and no name is created again while it is being dropped.
THEOREM MapMatchesDirectories == Spec => []CatalogMatchesFiles
<1>1. IInv => CatalogMatchesFiles
  <2> SUFFICES ASSUME IInv, excused["catalog"] = {}
               PROVE  /\ live # 0 => files = [of |-> live, whole |-> TRUE]
                      /\ files.of # 0 /\ dropper.at = "idle" => live = files.of
    BY DEF CatalogMatchesFiles
  <2>1. files = [of |-> files.of, whole |-> files.whole] /\ files.whole \in BOOLEAN
    BY Administering
  <2> QED
    BY <2>1 DEF IInv, Directories
<1> QED
  BY <1>1, Invariance, PTL
=============================================================================
