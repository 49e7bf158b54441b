------------------------------ MODULE Sessions ------------------------------
(***************************************************************************)
(* The client-facing layer (crate dtdb_api), for one database name:        *)
(*                                                                         *)
(*   - DatabaseCatalog: create_db, drop_db and restore_databases over the  *)
(*     `databases` map and the directory of the name;                      *)
(*   - the server task of a Transaction stream, its request and response   *)
(*     channels, and the remote client with its RemoteTransactionClient    *)
(*     handles, whose calls may run at once, be cancelled, or outlive      *)
(*     run_in_transaction when the closure keeps a clone;                  *)
(*   - the one-statement calls: execute_query of the server and of the     *)
(*     in-process client (whose row iterator owns its transaction), and    *)
(*     the in-process run_in_transaction.                                  *)
(*                                                                         *)
(* What a statement computes is left to SqlSession, what a commit validates*)
(* and writes to Occ and TxnLog: here a statement succeeds, fails or       *)
(* panics, and a commit succeeds or is refused.                            *)
(***************************************************************************)
EXTENDS Naturals, Sequences, FiniteSets

CONSTANTS Clients,      \* remote clients, one transaction stream each
          Queries,      \* callers of the one-statement and in-process calls
          NCalls,       \* bound: execute_query calls of a remote client
          ChannelCap,   \* capacity of the response channel (128 in the code)
          MaxDbs,       \* bound: databases created
          MaxCrashes,   \* bound: restarts of the server
          MaxStarted,   \* bound: sessions, remote and other, that ever begin
          Budget        \* bound: databases, restarts and calls together

ASSUME SessionsAssumption == /\ ChannelCap \in Nat \ {0}
                             /\ NCalls \in Nat /\ MaxDbs \in Nat
                             /\ Clients \cap Queries = {}

VARIABLES
  live,      \* DatabaseCatalog.databases: the database of the name, 0 if none
  files,     \* the directory of the name: whose it is (0: no directory), whole or not
  closed,    \* databases on which Database::shutdown has run
  dropper,   \* progress of the drop_db call that has taken its database off the map
  created,   \* number of databases created so far
  crashes,
  tx,        \* the Transaction value of each session: its database, whether it is
             \* registered there, the statements whose writes its buffer holds
  cl,        \* remote client: progress of run_in_transaction and what it returned
  call,      \* remote client: state of each execute_query call
  got,       \* remote client: the results each call has collected
  link,      \* the stream: not opened, up, or dropped by the client
  req,       \* requests on their way to the server
  resp,      \* responses on their way to the client
  srv,       \* server task: progress, the `finished` flag, responses still to send
  qs,        \* one-statement calls: progress and what they returned
  applied,   \* ghost: the writes each session's commit has put in the database
  excused    \* ghost: what has happened that the properties below exempt

catalogVars == <<live, files, closed, dropper, created, crashes>>
clientVars == <<cl, call, got>>
wireVars == <<link, req, resp>>
vars == <<catalogVars, clientVars, wireVars, tx, srv, qs, applied, excused>>

Sessions == Clients \cup Queries
Calls == 1..NCalls
Ids == 1..MaxDbs
NoTx == [db |-> 0, registered |-> FALSE, buffer |-> {}]
NoFiles == [of |-> 0, whole |-> TRUE]
NotApplied == [done |-> FALSE, writes |-> {}]

(***************************************************************************)
(* The messages.  A response carries the call it answers (None for Start   *)
(* and the end of the transaction); the code has no such field, it is here *)
(* to say which answer a call has read.                                    *)
(***************************************************************************)
None == 0
Request(op, k) == [op |-> op, for |-> k]
QueryResult(k) == [is |-> "result", for |-> k]
QueryFinished(k) == [is |-> "finished", for |-> k]
ErrorMessage(k) == [is |-> "error", for |-> k]
CommitResult(ok) == [is |-> IF ok THEN "committed" ELSE "refused", for |-> None]

InFlight(c, k) == call[c][k] \in {"sent", "reading", "skipping"}
NoneInFlight(c) == \A k \in Calls : ~InFlight(c, k)
StreamFree(c) == \A k \in Calls : call[c][k] \notin {"reading", "skipping"}
Excuse(s, why) == excused' = [excused EXCEPT ![s] = @ \cup why]
Started == {c \in Clients : cl[c].at # "idle"} \cup {q \in Queries : qs[q].at # "idle"}
MayStart == Cardinality(Started) < MaxStarted
Affordable ==
  created + crashes + Cardinality({ck \in Clients \X Calls : call[ck[1]][ck[2]] # "unsent"}) < Budget
Serving(c) == srv[c].at = "serving" /\ srv[c].out = <<>>

\* A server task goes on to `at` with `out` to send, has found its database, runs the
\* statement of a call, or has ended its transaction
Goes(task, at, out) == [task EXCEPT !.at = at, !.for = None, !.out = out]
Found(task, d) == [task EXCEPT !.at = "starting", !.db = d]
Runs(task, k) == [task EXCEPT !.at = "executing", !.for = k]
Finishes(task, ok) == [task EXCEPT !.finished = TRUE, !.out = <<CommitResult(ok)>>]
Returns(client, told) == [client EXCEPT !.at = "done", !.told = told]

Init ==
  /\ live = 0 /\ files = NoFiles /\ closed = {} /\ created = 0 /\ crashes = 0
  /\ dropper = [at |-> "idle", db |-> 0]
  /\ tx = [s \in Sessions |-> NoTx]
  /\ cl = [c \in Clients |-> [at |-> "idle", told |-> "none", kept |-> FALSE]]
  /\ call = [c \in Clients |-> [k \in Calls |-> "unsent"]]
  /\ got = [c \in Clients |-> [k \in Calls |-> <<>>]]
  /\ link = [c \in Clients |-> "none"]
  /\ req = [c \in Clients |-> <<>>] /\ resp = [c \in Clients |-> <<>>]
  /\ srv = [c \in Clients |-> [at |-> "off", finished |-> FALSE, db |-> 0, for |-> None, out |-> <<>>]]
  /\ qs = [q \in Queries |-> [at |-> "idle", told |-> "none", db |-> 0]]
  /\ applied = [s \in Sessions |-> NotApplied]
  /\ excused = [s \in Sessions \cup {"catalog"} |-> {}]

-----------------------------------------------------------------------------
(***************************************************************************)
(* Transactions.  Only the two stronger isolation levels register in       *)
(* occ_active_transactions, which is all has_active_transactions looks at. *)
(***************************************************************************)
HasActiveTransactions(d) == \E s \in Sessions : tx[s].db = d /\ tx[s].registered

BeginTx(s, d, registers) ==
  /\ tx' = [tx EXCEPT ![s] = [db |-> d, registered |-> registers, buffer |-> {}]]
  /\ Excuse(s, IF live = d THEN {} ELSE {"late"})

\* Drop for Transaction: the buffer goes, the registration goes
EndTx(s) == tx' = [tx EXCEPT ![s] = NoTx]

\* Transaction::commit followed by the drop of the value
CommitTx(s, ok) ==
  /\ applied' = IF ok THEN [applied EXCEPT ![s] = [done |-> TRUE, writes |-> tx[s].buffer]] ELSE applied
  /\ EndTx(s)

-----------------------------------------------------------------------------
(***************************************************************************)
(* DatabaseCatalog.                                                        *)
(***************************************************************************)
DropAnyway(d) == TRUE
DropAllowed(d) == ~HasActiveTransactions(d)

\* what the map holds once drop_db has released its lock
StaysListed == live
OffTheMap == 0

\* create_db, under the write lock of the map from the check to the insert.
\* Files left under the name (by a drop that is still running, or that failed)
\* are opened as the new database's own.
CreateDb ==
  /\ live = 0 /\ created < MaxDbs /\ Affordable
  /\ created' = created + 1
  /\ live' = created'
  /\ files' = [of |-> created', whole |-> files.whole]
  /\ Excuse("catalog", IF files = NoFiles /\ dropper.at = "idle" THEN {} ELSE {"reused"})
  /\ UNCHANGED <<closed, dropper, crashes, tx, clientVars, wireVars, srv, qs, applied>>

\* drop_db up to the release of the lock; a refusal or an unknown name changes nothing
DropBegin ==
  /\ live # 0 /\ dropper.at = "idle"
  /\ DropAllowed(live)
  /\ dropper' = [at |-> "quiesce", db |-> live]
  /\ live' = OffTheMap
  /\ UNCHANGED <<files, closed, created, crashes, tx, clientVars, wireVars, srv, qs, applied, excused>>

DropQuiesce ==
  /\ dropper.at = "quiesce"
  /\ closed' = closed \cup {dropper.db}
  /\ dropper' = [dropper EXCEPT !.at = "remove"]
  /\ UNCHANGED <<live, files, created, crashes, tx, clientVars, wireVars, srv, qs, applied, excused>>

\* remove_dir_all deletes the files of the name one by one, whoever they belong to
DropRemove ==
  /\ dropper.at = "remove"
  /\ files' = [files EXCEPT !.whole = FALSE]
  /\ dropper' = [dropper EXCEPT !.at = "removing"]
  /\ UNCHANGED <<live, closed, created, crashes, tx, clientVars, wireVars, srv, qs, applied, excused>>

DropRemoved ==
  /\ dropper.at = "removing"
  /\ files' = NoFiles
  /\ dropper' = [at |-> "idle", db |-> 0]
  /\ UNCHANGED <<live, closed, created, crashes, tx, clientVars, wireVars, srv, qs, applied, excused>>

\* "Database removed from catalog but failed to delete files"
DropFails ==
  /\ dropper.at = "removing"
  /\ dropper' = [at |-> "idle", db |-> 0]
  /\ Excuse("catalog", {"torn"})
  /\ UNCHANGED <<live, files, closed, created, crashes, tx, clientVars, wireVars, srv, qs, applied>>

\* restore_databases: a directory with a db_options.bin is a database; a
\* directory half removed may or may not still have that file
Restored == IF files.of = 0 THEN {0} ELSE IF files.whole THEN {files.of} ELSE {0, files.of}

\* The server process dies and is started again: every task, stream and
\* transaction is gone, and what a client reads next is the end of its stream
Restart ==
  /\ crashes < MaxCrashes /\ Affordable
  /\ crashes' = crashes + 1
  /\ live' \in Restored
  /\ closed' = {}
  /\ dropper' = [at |-> "idle", db |-> 0]
  /\ tx' = [s \in Sessions |-> NoTx]
  /\ srv' = [c \in Clients |-> Goes(srv[c], IF srv[c].at = "off" THEN "off" ELSE "ended", <<>>)]
  /\ qs' = [q \in Queries |-> IF qs[q].at \in {"idle", "done"} THEN qs[q] ELSE [at |-> "done", told |-> "lost", db |-> 0]]
  /\ Excuse("catalog", IF files.whole THEN {} ELSE {"torn"})
  /\ UNCHANGED <<files, created, clientVars, wireVars, applied>>

-----------------------------------------------------------------------------
(***************************************************************************)
(* The remote client.                                                      *)
(***************************************************************************)
\* run_in_transaction: StartTransaction is queued and the stream opened.  The
\* closure may keep a clone of its handle beyond the end of the transaction.
Open(c, kept) ==
  /\ cl[c].at = "idle" /\ MayStart
  /\ cl' = [cl EXCEPT ![c] = [at |-> "starting", told |-> "none", kept |-> kept]]
  /\ link' = [link EXCEPT ![c] = "up"]
  /\ req' = [req EXCEPT ![c] = <<Request("start", None)>>]
  /\ srv' = [srv EXCEPT ![c].at = "serving"]
  /\ UNCHANGED <<catalogVars, call, got, resp, tx, qs, applied, excused>>

\* The stream is dropped, with the responses that are still in it
Drop(c) == link' = [link EXCEPT ![c] = "down"] /\ resp' = [resp EXCEPT ![c] = <<>>]
TakeResponse(c) == resp' = [resp EXCEPT ![c] = Tail(@)] /\ UNCHANGED link

\* The end of run_in_transaction; the stream goes down with the last handle
Return(c, told) ==
  /\ cl' = [cl EXCEPT ![c] = Returns(@, told)]
  /\ IF ~cl[c].kept THEN Drop(c)
     ELSE IF resp[c] = <<>> \/ told = "rolled back" THEN UNCHANGED <<link, resp>> ELSE TakeResponse(c)

\* the stream yields None (or an error) once the server task is gone
AtEnd(c) == resp[c] = <<>> /\ srv[c].at = "ended"

\* wait_for_query_finished, for the answer to Start.  The handle has not been
\* passed to the closure yet, so an error drops the stream.
ReadStart(c) ==
  /\ cl[c].at = "starting"
  /\ \/ /\ resp[c] # <<>>
        /\ IF Head(resp[c]).is = "finished"
             THEN cl' = [cl EXCEPT ![c].at = "open"] /\ TakeResponse(c)
             ELSE cl' = [cl EXCEPT ![c] = [at |-> "done", told |-> "error", kept |-> FALSE]] /\ Drop(c)
     \/ /\ AtEnd(c)
        /\ cl' = [cl EXCEPT ![c] = [at |-> "done", told |-> "lost", kept |-> FALSE]]
        /\ Drop(c)
  /\ UNCHANGED <<catalogVars, call, got, req, tx, srv, qs, applied, excused>>

\* execute_query, first half: the request is queued before the lock on the
\* response stream is taken
Send(c, k) ==
  /\ call[c][k] = "unsent" /\ \A j \in 1..(k - 1) : call[c][j] # "unsent"
  /\ link[c] = "up" /\ Affordable
  /\ cl[c].at = "open" \/ (cl[c].kept /\ cl[c].at \in {"committing", "done"})
  /\ call' = [call EXCEPT ![c][k] = "sent"]
  /\ req' = [req EXCEPT ![c] = Append(@, Request("execute", k))]
  /\ Excuse(c, (IF NoneInFlight(c) THEN {} ELSE {"mixed"})
               \cup (IF cl[c].at = "open" THEN {} ELSE {"mixed", "outlived"}))
  /\ UNCHANGED <<catalogVars, cl, got, link, resp, tx, srv, qs, applied>>

LockStream(c, k) ==
  /\ call[c][k] = "sent" /\ StreamFree(c) /\ cl[c].at # "committing"
  /\ call' = [call EXCEPT ![c][k] = "reading"]
  /\ UNCHANGED <<catalogVars, cl, got, wireVars, tx, srv, qs, applied, excused>>

\* what a call does after an ErrorMessage: it reads one more message, taken to
\* be the QueryFinished that follows
ErrorAtOnce == "failed"
AfterError == "skipping"

\* execute_query, second half: one message of the response stream
ReadAnswer(c, k) ==
  /\ call[c][k] = "reading"
  /\ \/ /\ resp[c] # <<>>
        /\ resp' = [resp EXCEPT ![c] = Tail(@)]
        /\ LET m == Head(resp[c]) IN
             /\ call' = [call EXCEPT ![c][k] = CASE m.is = "result" -> "reading"
                                                 [] m.is = "finished" -> "answered"
                                                 [] m.is = "error" -> AfterError
                                                 [] OTHER -> "failed"]
             /\ got' = IF m.is = "result" THEN [got EXCEPT ![c][k] = Append(@, m.for)] ELSE got
     \/ /\ AtEnd(c)
        /\ call' = [call EXCEPT ![c][k] = "failed"]
        /\ UNCHANGED <<resp, got>>
  /\ UNCHANGED <<catalogVars, cl, link, req, tx, srv, qs, applied, excused>>

SkipFinished(c, k) ==
  /\ call[c][k] = "skipping"
  /\ resp[c] # <<>> \/ AtEnd(c)
  /\ resp' = [resp EXCEPT ![c] = IF @ = <<>> THEN @ ELSE Tail(@)]
  /\ call' = [call EXCEPT ![c][k] = "failed"]
  /\ UNCHANGED <<catalogVars, cl, got, link, req, tx, srv, qs, applied, excused>>

\* The future of a call is dropped (a timeout, a select): its answers stay in
\* the stream
CancelCall(c, k) ==
  /\ InFlight(c, k)
  /\ call' = [call EXCEPT ![c][k] = "cancelled"]
  /\ Excuse(c, {"mixed"})
  /\ UNCHANGED <<catalogVars, cl, got, wireVars, tx, srv, qs, applied>>

\* The closure returned Ok
SendCommit(c) ==
  /\ cl[c].at = "open" /\ (cl[c].kept \/ NoneInFlight(c))
  /\ cl' = [cl EXCEPT ![c].at = "committing"]
  /\ req' = [req EXCEPT ![c] = Append(@, Request("commit", None))]
  /\ Excuse(c, IF NoneInFlight(c) THEN {} ELSE {"mixed", "outlived"})
  /\ UNCHANGED <<catalogVars, call, got, link, resp, tx, srv, qs, applied>>

\* read_commit_result waits for the lock on the stream like any call
ReadCommit(c) ==
  /\ cl[c].at = "committing" /\ StreamFree(c)
  /\ \/ /\ resp[c] # <<>>
        /\ Return(c, IF Head(resp[c]).is = "committed" THEN "ok" ELSE "error")
     \/ AtEnd(c) /\ Return(c, "lost")
  /\ UNCHANGED <<catalogVars, call, got, req, tx, srv, qs, applied, excused>>

\* The closure returned Err: the answer to Rollback is not read
SendRollback(c) ==
  /\ cl[c].at = "open" /\ (cl[c].kept \/ NoneInFlight(c))
  /\ req' = [req EXCEPT ![c] = Append(@, Request("rollback", None))]
  /\ Return(c, "rolled back")
  /\ Excuse(c, IF NoneInFlight(c) THEN {} ELSE {"mixed", "outlived"})
  /\ UNCHANGED <<catalogVars, call, got, tx, srv, qs, applied>>

\* The last handle is dropped, or the client is: its future is cancelled or its
\* connection breaks
HangUp(c) ==
  /\ link[c] = "up"
  /\ Drop(c)
  /\ cl' = [cl EXCEPT ![c] = Returns(@, IF @.at = "done" THEN @.told ELSE "lost")]
  /\ call' = [call EXCEPT ![c] = [k \in Calls |-> IF InFlight(c, k) THEN "cancelled" ELSE @[k]]]
  /\ UNCHANGED <<catalogVars, got, req, tx, srv, qs, applied, excused>>

-----------------------------------------------------------------------------
(***************************************************************************)
(* The server task of a Transaction stream.  It takes a request only when  *)
(* the answers to the one before have been sent.  Once the client has hung *)
(* up, requests still on their way may or may not reach the task.          *)
(***************************************************************************)
Answer(c, out) == srv' = [srv EXCEPT ![c].out = out]
End(c) == srv' = [srv EXCEPT ![c] = Goes(@, "ended", <<>>)]

\* SQL errors, rejected statements and bad parameters
ErrorOnly(k) == <<ErrorMessage(k)>>
ErrorAnswer(k) == <<ErrorMessage(k), QueryFinished(k)>>

\* a request that reaches the task
Received(c, op) ==
  /\ Serving(c)
  /\ req[c] # <<>> /\ Head(req[c]).op = op
  /\ req' = [req EXCEPT ![c] = Tail(@)]

\* any command once `finished` is set: an error, and nothing after it
AfterFinish(c) ==
  /\ srv[c].finished
  /\ \E op \in {"execute", "rollback", "commit"} : Received(c, op)
  /\ Answer(c, <<ErrorMessage(Head(req[c]).for)>>)
  /\ UNCHANGED <<catalogVars, clientVars, link, resp, tx, qs, applied, excused>>

\* StartTransaction: get_db_and_engine
StartLookup(c) ==
  /\ Received(c, "start") /\ ~srv[c].finished
  /\ srv' = [srv EXCEPT ![c] = IF live = 0 THEN Goes(@, "leaving", <<ErrorMessage(None)>>)
                                           ELSE Found(@, live)]
  /\ UNCHANGED <<catalogVars, clientVars, link, resp, tx, qs, applied, excused>>

\* ... and Transaction::new_with_isolation, at any of the isolation levels
StartBegin(c, registers) ==
  /\ srv[c].at = "starting"
  /\ BeginTx(c, srv[c].db, registers)
  /\ srv' = [srv EXCEPT ![c] = Goes(@, "serving", <<QueryFinished(None)>>)]
  /\ UNCHANGED <<catalogVars, clientVars, wireVars, qs, applied>>

\* ExecuteTxQuery: DDL and parameters that do not parse are refused
Reject(c) ==
  /\ Received(c, "execute") /\ ~srv[c].finished
  /\ Answer(c, ErrorAnswer(Head(req[c]).for))
  /\ UNCHANGED <<catalogVars, clientVars, link, resp, tx, qs, applied, excused>>

Execute(c) ==
  /\ Received(c, "execute") /\ ~srv[c].finished
  /\ srv' = [srv EXCEPT ![c] = Runs(@, Head(req[c]).for)]
  /\ UNCHANGED <<catalogVars, clientVars, link, resp, tx, qs, applied, excused>>

\* The blocking task returns.  A failed statement keeps the transaction (what it
\* leaves in the buffer is the subject of SqlDml); a panic drops it.
Executed(c) ==
  /\ srv[c].at = "executing"
  /\ LET k == srv[c].for IN
       \/ /\ tx' = [tx EXCEPT ![c].buffer = @ \cup {k}]
          /\ srv' = [srv EXCEPT ![c] = Goes(@, "serving", <<QueryResult(k), QueryFinished(k)>>)]
       \/ /\ srv' = [srv EXCEPT ![c] = Goes(@, "serving", ErrorAnswer(k))]
          /\ UNCHANGED tx
       \/ /\ EndTx(c)
          /\ srv' = [srv EXCEPT ![c] = Goes(@, "leaving", <<ErrorMessage(k)>>)]
  /\ UNCHANGED <<catalogVars, clientVars, wireVars, qs, applied, excused>>

AlwaysCommitted(c) ==
  \E ok \in BOOLEAN : CommitTx(c, ok) /\ srv' = [srv EXCEPT ![c] = Finishes(@, TRUE)]

\* CommitTransaction: the commit is validated or refused.  A panic is reported
\* as a refusal.
Committed(c) ==
  \E ok \in BOOLEAN : CommitTx(c, ok) /\ srv' = [srv EXCEPT ![c] = Finishes(@, ok)]

Commit(c) ==
  /\ Received(c, "commit") /\ ~srv[c].finished
  /\ Committed(c)
  /\ UNCHANGED <<catalogVars, clientVars, link, resp, qs, excused>>

Rollback(c) ==
  /\ Received(c, "rollback") /\ ~srv[c].finished
  /\ EndTx(c)
  /\ srv' = [srv EXCEPT ![c] = Finishes(@, TRUE)]
  /\ UNCHANGED <<catalogVars, clientVars, link, resp, qs, applied, excused>>

\* One send on the response channel, which blocks while the channel is full.
\* Once the client has hung up a send goes nowhere; if it fails and was to send a
\* result, the task ends and drops its transaction.
Push(c) ==
  /\ srv[c].out # <<>>
  /\ \/ /\ link[c] = "up" /\ Len(resp[c]) < ChannelCap
        /\ resp' = [resp EXCEPT ![c] = Append(@, Head(srv[c].out))]
        /\ srv' = [srv EXCEPT ![c].out = Tail(@)]
        /\ UNCHANGED tx
     \/ /\ link[c] = "down" /\ Head(srv[c].out).is = "result"
        /\ End(c) /\ EndTx(c)
        /\ UNCHANGED resp
     \/ /\ link[c] = "down"
        /\ srv' = [srv EXCEPT ![c].out = Tail(@)]
        /\ UNCHANGED <<resp, tx>>
  /\ UNCHANGED <<catalogVars, clientVars, link, req, qs, applied, excused>>

\* the task returns after an error it does not survive
Leave(c) ==
  /\ srv[c].at = "leaving" /\ srv[c].out = <<>>
  /\ End(c)
  /\ UNCHANGED <<catalogVars, clientVars, wireVars, tx, qs, applied, excused>>

StreamLeaks(c) ==
  /\ Serving(c) /\ link[c] = "down"
  /\ End(c)
  /\ req' = [req EXCEPT ![c] = <<>>]
  /\ UNCHANGED <<catalogVars, clientVars, link, resp, tx, qs, applied, excused>>

\* A stream error, or the end of the stream: a transaction still open is rolled back
StreamEnds(c) ==
  /\ Serving(c) /\ link[c] = "down"
  /\ End(c) /\ EndTx(c)
  /\ req' = [req EXCEPT ![c] = <<>>]
  /\ UNCHANGED <<catalogVars, clientVars, link, resp, qs, applied, excused>>

-----------------------------------------------------------------------------
(***************************************************************************)
(* The calls that are not a Transaction stream: execute_query of the       *)
(* server and of the in-process client, and the in-process                 *)
(* run_in_transaction.  All begin alike.                                   *)
(***************************************************************************)
Told(q, told) == qs' = [qs EXCEPT ![q] = [at |-> "done", told |-> told, db |-> 0]]

QueryLookup(q) ==
  /\ qs[q].at = "idle" /\ MayStart
  /\ IF live = 0 THEN Told(q, "error")
                 ELSE qs' = [qs EXCEPT ![q] = [at |-> "looked", told |-> "none", db |-> live]]
  /\ UNCHANGED <<catalogVars, clientVars, wireVars, tx, srv, applied, excused>>

\* only run_in_transaction takes an isolation level
QueryBegin(q) ==
  /\ qs[q].at = "looked"
  /\ \/ BeginTx(q, qs[q].db, TRUE) /\ qs' = [qs EXCEPT ![q].at = "statement"]
     \/ \E registers \in BOOLEAN : BeginTx(q, qs[q].db, registers) /\ qs' = [qs EXCEPT ![q].at = "closure"]
  /\ UNCHANGED <<catalogVars, clientVars, wireVars, srv, applied>>

\* the transaction ends with a commit, and the caller is told how that went
CommitAndTell(q) == \E ok \in BOOLEAN : CommitTx(q, ok) /\ Told(q, IF ok THEN "ok" ELSE "error")

\* A statement: it fails and its transaction is dropped; or its rows are drained
\* and it is committed (the server, and statements without rows); or, in process,
\* its rows are handed out by an iterator that owns the transaction
RunStatement(q) ==
  /\ qs[q].at = "statement"
  /\ \/ EndTx(q) /\ Told(q, "error") /\ UNCHANGED applied
     \/ CommitAndTell(q)
     \/ qs' = [qs EXCEPT ![q].at = "iterating"] /\ UNCHANGED <<tx, applied>>
  /\ UNCHANGED <<catalogVars, clientVars, wireVars, srv, excused>>

\* RowIterator: drained, failed, or dropped before its end
Iterate(q) ==
  /\ qs[q].at = "iterating"
  /\ \/ CommitAndTell(q)
     \/ \E told \in {"error", "none"} : EndTx(q) /\ Told(q, told) /\ UNCHANGED applied
  /\ UNCHANGED <<catalogVars, clientVars, wireVars, srv, excused>>

\* run_in_transaction_with_options in process
RunClosure(q) ==
  /\ qs[q].at = "closure"
  /\ \/ CommitAndTell(q)
     \/ EndTx(q) /\ Told(q, "rolled back") /\ UNCHANGED applied
  /\ UNCHANGED <<catalogVars, clientVars, wireVars, srv, excused>>

-----------------------------------------------------------------------------
CatalogStep == CreateDb \/ DropBegin \/ DropQuiesce \/ DropRemove \/ DropRemoved \/ DropFails \/ Restart

\* what the client decides, and what it waits for
ClientStep(c) ==
  \/ \E kept \in BOOLEAN : Open(c, kept)
  \/ SendCommit(c) \/ SendRollback(c) \/ HangUp(c)
  \/ \E k \in Calls : Send(c, k) \/ CancelCall(c, k)
AwaitStep(c) ==
  \/ ReadStart(c) \/ ReadCommit(c)
  \/ \E k \in Calls : LockStream(c, k) \/ ReadAnswer(c, k) \/ SkipFinished(c, k)

ServerStep(c) ==
  \/ AfterFinish(c) \/ StartLookup(c) \/ Execute(c) \/ Reject(c) \/ Executed(c)
  \/ \E registers \in BOOLEAN : StartBegin(c, registers)
  \/ Commit(c) \/ Rollback(c) \/ Push(c) \/ Leave(c) \/ StreamEnds(c)

QueryStep(q) == QueryLookup(q) \/ QueryBegin(q) \/ RunStatement(q) \/ Iterate(q) \/ RunClosure(q)

Next == \/ CatalogStep
        \/ \E c \in Clients : ClientStep(c) \/ AwaitStep(c) \/ ServerStep(c)
        \/ \E q \in Queries : QueryStep(q)

(***************************************************************************)
(* Fairness: tokio polls a task that can make progress and the blocking    *)
(* pool finishes what it runs, so the server tasks advance, and so does a  *)
(* client future that is waiting for its answer.  Whether the client goes  *)
(* on to its next call, ends its transaction or hangs up is its own affair *)
(* and is not assumed.                                                     *)
(***************************************************************************)
Fairness == \A c \in Clients : WF_vars(ServerStep(c)) /\ WF_vars(AwaitStep(c))

Spec == Init /\ [][Next]_vars /\ Fairness

-----------------------------------------------------------------------------
Messages == [is : {"result", "finished", "error", "committed", "refused"}, for : Calls \cup {None}]

\* Types; and a transaction is owned by a session that is using it, a request is
\* never left to a server task that has ended with the stream up, and the response
\* channel keeps within its capacity.
TypeOK ==
  /\ live \in 0..MaxDbs /\ files.of \in 0..MaxDbs /\ closed \subseteq Ids
  /\ \A c \in Clients : /\ Len(resp[c]) <= ChannelCap
                        /\ \A i \in 1..Len(resp[c]) : resp[c][i] \in Messages
                        /\ tx[c].db # 0 => srv[c].at \in {"serving", "executing"} /\ ~srv[c].finished
  /\ \A q \in Queries : tx[q].db # 0 <=> qs[q].at \in {"statement", "iterating", "closure"}

\* drop_db refuses a database that has active transactions (server.rs, drop_db):
\* once a drop has shut a database down no transaction is open on it.  Exempt are
\* the transactions the check cannot see: READ COMMITTED and READ UNCOMMITTED ones,
\* which never register, and those whose session had looked the database
\* up before it left the map and began afterwards ("late").  The state is well typed,
\* and a transaction is open exactly while the task that owns it works on it.
DroppedIsIdle ==
  /\ TypeOK
  /\ \A s \in Sessions : tx[s].db \in closed => ~tx[s].registered \/ "late" \in excused[s]

\* The results a remote call returns are those of its own statement, all of them,
\* although the protocol carries no statement number and the client pairs answers
\* with calls only by the order in which it reads them.  Exempt is a transaction in
\* which calls were in flight together or one was cancelled ("mixed").
OwnAnswer ==
  \A c \in Clients, k \in Calls :
    call[c][k] = "answered" /\ "mixed" \notin excused[c] => got[c][k] = <<k>>

\* A caller told that its transaction committed finds the writes of every statement
\* that was answered without an error in the database; a caller told that it failed
\* or was rolled back finds none.  Exempt are mixed streams.  A caller that lost its
\* connection is told neither.
ToldTheTruth ==
  \A s \in Sessions :
    LET told == IF s \in Clients THEN cl[s].told ELSE qs[s].told
        answered == IF s \in Clients THEN {k \in Calls : call[s][k] = "answered"} ELSE {}
    IN "mixed" \notin excused[s] =>
         /\ told = "ok" => /\ applied[s].done
                           /\ answered \subseteq applied[s].writes
         /\ told \in {"error", "rolled back"} => ~applied[s].done

\* A database in the catalog has its own directory, whole, and a directory that no
\* drop is working on belongs to a database in the catalog: also after a restart,
\* which rebuilds the map from the directories (restore_databases).  Exempt are a
\* name created again while its drop was running or after one that failed
\* ("reused"), and a removal that failed or was cut short by a crash ("torn").
CatalogMatchesFiles ==
  excused["catalog"] = {} =>
    /\ live # 0 => files = [of |-> live, whole |-> TRUE]
    /\ files.of # 0 /\ dropper.at = "idle" => live = files.of

\* Nothing dangles: once a client has hung up, its transaction is ended by the
\* server (auto-rollback at the end of the stream), so that it cannot hold up
\* drop_db for ever.
HangUpEndsTx == \A c \in Clients : link[c] = "down" ~> tx[c].db = 0

\* Every remote call returns, whatever the statement does to the transaction or to
\* the server task, and so does run_in_transaction once its closure has: the begin
\* and the commit are answered.  Exempt are calls on a handle that outlived its
\* transaction.
CallsReturn ==
  \A c \in Clients :
    /\ \A k \in Calls : InFlight(c, k) ~> (~InFlight(c, k) \/ "outlived" \in excused[c])
    /\ cl[c].at \in {"starting", "committing"} ~> cl[c].at \notin {"starting", "committing"}

\* Every remote call returns, with no exemption.
EveryCallReturns == \A c \in Clients, k \in Calls : InFlight(c, k) ~> ~InFlight(c, k)
=============================================================================
