------------------------------ MODULE OccProofs ------------------------------
(***************************************************************************)
(* Occ's history always covers what its unexposed transactions have to be  *)
(* validated against, and therefore they commit only on current data, for  *)
(* any transactions, keys and number of commits.                           *)
(***************************************************************************)
EXTENDS Occ, TLAPS

\* Versions never run ahead of the global one; while a commit is being applied
\* its keys already carry the next version.
VersionsBounded ==
    /\ \A t \in Txns : start[t] <= global
    /\ \A r \in history : r.v <= global
    /\ \A k \in Keys : \/ store[k] <= global
                       \/ lock # None /\ k \in writes[lock] \ todo[lock]
                       \/ k \in dirty
    /\ lock # None => /\ todo[lock] \subseteq writes[lock]
                      /\ \A k \in writes[lock] \ todo[lock] : store[k] = global + 1

\* A registered transaction is in the active set until it is dropped, and has read
\* nothing before it begins.
Living == {"running", "validated", "limited", "applying", "committed", "aborted"}
RegisteredIsActive ==
    /\ \A t \in Registered : pc[t] \in Living => t \in active
    /\ \A t \in Txns : pc[t] = "new" => obs[t] = {} /\ t \notin active

\* A pruning limit captured from a non-empty active set stays below the start of
\* every active transaction; a blind one can only hurt exposed transactions.
LimitsSafe ==
    /\ \A t \in Txns \ blind : pc[t] \in {"limited", "applying", "dropping", "loaded"} =>
          /\ limit[t] # None
          /\ limit[t] <= global
          /\ \A u \in active : limit[t] <= start[u]
    /\ blind # {} => active \subseteq exposed

\* Phase 1 leaves nothing unseen up to snapMax.
FirstPass ==
    \A t \in Txns : pc[t] \in {"validated", "limited"} =>
        /\ snapMax[t] <= global
        /\ \A r \in history : r.v > start[t] /\ r.v <= snapMax[t] => ~Conflicts(r, t)

\* A value read is still there, or its key changed since the reader began.
ReadsTracked ==
    \A t \in Txns : \A o \in obs[t] :
        /\ o[1] \in reads[t]
        /\ o[2] = store[o[1]] \/ store[o[1]] > start[t] \/ o[1] \in dirty

\* Whoever leaves last prunes up to the version it finds: with no transaction left
\* to be dropped, only the newest record stays or such a pruning is still to come.
LastOnePrunes ==
    /\ \A t \in active : pc[t] \in Living
    /\ (\A t \in Txns : pc[t] \notin Living) =>
          \/ \A r \in history : r.v = global
          \/ \E t \in Txns : \/ pc[t] = "dropping" /\ limit[t] = None
                             \/ pc[t] = "loaded" /\ limit[t] = global

IInv == /\ TypeOK
        /\ VersionsBounded
        /\ RegisteredIsActive
        /\ LimitsSafe
        /\ FirstPass
        /\ ReadsTracked
        /\ HistoryCovers
        /\ LastOnePrunes

\* The initial state satisfies the inductive invariant.
LEMMA InitIInv == Init => IInv
  BY OccAssumption DEF Init, IInv, TypeOK, VersionsBounded, RegisteredIsActive, LimitsSafe,
     FirstPass, ReadsTracked, HistoryCovers, LastOnePrunes, Phases, Living, None

\* Every step keeps the variables' shapes and the one holder of the write lock.
LEMMA TypePreserved == TypeOK /\ [Next]_vars => TypeOK'
<1> SUFFICES ASSUME TypeOK, [Next]_vars PROVE TypeOK'
  OBVIOUS
<1> USE OccAssumption DEF TypeOK, Phases, Record
<1>1. ASSUME NEW t \in Txns, Begin(t) PROVE TypeOK'
  BY <1>1 DEF Begin
<1>2. ASSUME NEW t \in Txns, Validate(t) PROVE TypeOK'
  BY <1>2 DEF Validate
<1>3. ASSUME NEW t \in Txns, ValidateReadOnly(t) PROVE TypeOK'
  BY <1>3 DEF ValidateReadOnly
<1>4. ASSUME NEW t \in Txns, Capture(t) PROVE TypeOK'
  BY <1>4 DEF Capture, CaptureMin
<1>5. ASSUME NEW t \in Txns, Lock(t) PROVE TypeOK'
  BY <1>5 DEF Lock, Unlocked
<1>6. ASSUME NEW t \in Txns, CommitFail(t) PROVE TypeOK'
  BY <1>6 DEF CommitFail
<1>7. ASSUME NEW t \in Txns, Finish(t) PROVE TypeOK'
  BY <1>7 DEF Finish, Retain
<1>8. ASSUME NEW t \in Txns, Unregister(t) PROVE TypeOK'
  BY <1>8 DEF Unregister, CaptureMin
<1>9. ASSUME NEW t \in Txns, LoadMin(t) PROVE TypeOK'
  BY <1>9 DEF LoadMin
<1>10. ASSUME NEW t \in Txns, Prune(t) PROVE TypeOK'
  BY <1>10 DEF Prune, Retain
<1>11. ASSUME NEW t \in Txns, NEW k \in MayRead[t], Read(t, k) PROVE TypeOK'
  BY <1>11 DEF Read
<1>12. ASSUME NEW t \in Txns, NEW k \in MayWrite[t], WriteKey(t, k) PROVE TypeOK'
  BY <1>12 DEF WriteKey
<1>13. ASSUME NEW t \in Txns, NEW k \in todo[t], ApplyKey(t, k) PROVE TypeOK'
  BY <1>13 DEF ApplyKey
<1>14. CASE UNCHANGED vars
  BY <1>14 DEF vars
<1> QED
  BY <1>1, <1>2, <1>3, <1>4, <1>5, <1>6, <1>7, <1>8, <1>9, <1>10, <1>11, <1>12, <1>13, Zenon,
     <1>14 DEF Next, Step

\* Every step: every version stays at or below the global one.
LEMMA VersionsBoundedPreserved == IInv /\ [Next]_vars => VersionsBounded'
<1> SUFFICES ASSUME IInv, TypeOK', [Next]_vars PROVE VersionsBounded'
  BY TypePreserved DEF IInv
<1> USE OccAssumption DEF IInv, TypeOK, Phases, Record, None, VersionsBounded
<1>1. ASSUME NEW t \in Txns, Begin(t) PROVE VersionsBounded'
  BY <1>1 DEF Begin, Unlocked
<1>2. ASSUME NEW t \in Txns, Validate(t) PROVE VersionsBounded'
  BY <1>2 DEF Validate, Unlocked, Clean, After
<1>3. ASSUME NEW t \in Txns, ValidateReadOnly(t) PROVE VersionsBounded'
  BY <1>3 DEF ValidateReadOnly
<1>4. ASSUME NEW t \in Txns, Capture(t) PROVE VersionsBounded'
  BY <1>4 DEF Capture, CaptureMin
<1>5. ASSUME NEW t \in Txns, Lock(t) PROVE VersionsBounded'
  BY <1>5 DEF Lock, Unlocked
<1>6. ASSUME NEW t \in Txns, CommitFail(t) PROVE VersionsBounded'
  BY <1>6 DEF CommitFail
<1>7. ASSUME NEW t \in Txns, Finish(t) PROVE VersionsBounded'
  BY <1>7 DEF Finish, Retain, PruneLimit
<1>8. ASSUME NEW t \in Txns, Unregister(t) PROVE VersionsBounded'
  BY <1>8 DEF Unregister, CaptureMin
<1>9. ASSUME NEW t \in Txns, LoadMin(t) PROVE VersionsBounded'
  BY <1>9 DEF LoadMin
<1>10. ASSUME NEW t \in Txns, Prune(t) PROVE VersionsBounded'
  BY <1>10 DEF Prune, Retain, Unlocked
<1>11. ASSUME NEW t \in Txns, NEW k \in MayRead[t], Read(t, k) PROVE VersionsBounded'
  BY <1>11 DEF Read
<1>12. ASSUME NEW t \in Txns, NEW k \in MayWrite[t], WriteKey(t, k) PROVE VersionsBounded'
  BY <1>12 DEF WriteKey
<1>13. ASSUME NEW t \in Txns, NEW k \in todo[t], ApplyKey(t, k) PROVE VersionsBounded'
  BY <1>13 DEF ApplyKey
<1>14. CASE UNCHANGED vars
  BY <1>14 DEF vars, Conflicts, Footprint
<1> QED
  BY <1>1, <1>2, <1>3, <1>4, <1>5, <1>6, <1>7, Zenon,
     <1>8, <1>9, <1>10, <1>11, <1>12, <1>13, <1>14 DEF Next, Step

\* Every step: registered transactions stay active until dropped.
LEMMA RegisteredIsActivePreserved == IInv /\ [Next]_vars => RegisteredIsActive'
<1> SUFFICES ASSUME IInv, TypeOK', [Next]_vars PROVE RegisteredIsActive'
  BY TypePreserved DEF IInv
<1> USE OccAssumption DEF IInv, TypeOK, Phases, Record, None, RegisteredIsActive, Living
<1>1. ASSUME NEW t \in Txns, Begin(t) PROVE RegisteredIsActive'
  BY <1>1 DEF Begin, Unlocked
<1>2. ASSUME NEW t \in Txns, Validate(t) PROVE RegisteredIsActive'
  BY <1>2 DEF Validate, Unlocked, Clean, After
<1>3. ASSUME NEW t \in Txns, ValidateReadOnly(t) PROVE RegisteredIsActive'
  BY <1>3 DEF ValidateReadOnly
<1>4. ASSUME NEW t \in Txns, Capture(t) PROVE RegisteredIsActive'
  BY <1>4 DEF Capture, CaptureMin
<1>5. ASSUME NEW t \in Txns, Lock(t) PROVE RegisteredIsActive'
  BY <1>5 DEF Lock, Unlocked
<1>6. ASSUME NEW t \in Txns, CommitFail(t) PROVE RegisteredIsActive'
  BY <1>6 DEF CommitFail
<1>7. ASSUME NEW t \in Txns, Finish(t) PROVE RegisteredIsActive'
  BY <1>7 DEF Finish, Retain, PruneLimit
<1>8. ASSUME NEW t \in Txns, Unregister(t) PROVE RegisteredIsActive'
  BY <1>8 DEF Unregister, CaptureMin
<1>9. ASSUME NEW t \in Txns, LoadMin(t) PROVE RegisteredIsActive'
  BY <1>9 DEF LoadMin
<1>10. ASSUME NEW t \in Txns, Prune(t) PROVE RegisteredIsActive'
  BY <1>10 DEF Prune, Retain, Unlocked
<1>11. ASSUME NEW t \in Txns, NEW k \in MayRead[t], Read(t, k) PROVE RegisteredIsActive'
  BY <1>11 DEF Read
<1>12. ASSUME NEW t \in Txns, NEW k \in MayWrite[t], WriteKey(t, k) PROVE RegisteredIsActive'
  BY <1>12 DEF WriteKey
<1>13. ASSUME NEW t \in Txns, NEW k \in todo[t], ApplyKey(t, k) PROVE RegisteredIsActive'
  BY <1>13 DEF ApplyKey
<1>14. CASE UNCHANGED vars
  BY <1>14 DEF vars, Conflicts, Footprint
<1> QED
  BY <1>1, <1>2, <1>3, <1>4, <1>5, <1>6, <1>7,
     <1>8, <1>9, <1>10, <1>11, <1>12, <1>13, <1>14 DEF Next, Step

\* Every step: captured pruning limits stay safe.
LEMMA LimitsSafePreserved == IInv /\ [Next]_vars => LimitsSafe'
<1> SUFFICES ASSUME IInv, TypeOK', [Next]_vars PROVE LimitsSafe'
  BY TypePreserved DEF IInv
<1> USE OccAssumption DEF IInv, TypeOK, Phases, Record, None, LimitsSafe, VersionsBounded, RegisteredIsActive
<1>1. ASSUME NEW t \in Txns, Begin(t) PROVE LimitsSafe'
  BY <1>1 DEF Begin, Unlocked
<1>2. ASSUME NEW t \in Txns, Validate(t) PROVE LimitsSafe'
  BY <1>2 DEF Validate, Unlocked, Clean, After
<1>3. ASSUME NEW t \in Txns, ValidateReadOnly(t) PROVE LimitsSafe'
  BY <1>3 DEF ValidateReadOnly
<1>4. ASSUME NEW t \in Txns, Capture(t) PROVE LimitsSafe'
  BY <1>4 DEF Capture, CaptureMin
<1>5. ASSUME NEW t \in Txns, Lock(t) PROVE LimitsSafe'
  BY <1>5 DEF Lock, Unlocked
<1>6. ASSUME NEW t \in Txns, CommitFail(t) PROVE LimitsSafe'
  BY <1>6 DEF CommitFail
<1>7. ASSUME NEW t \in Txns, Finish(t) PROVE LimitsSafe'
  BY <1>7 DEF Finish, Retain, PruneLimit
<1>8. ASSUME NEW t \in Txns, Unregister(t) PROVE LimitsSafe'
  BY <1>8 DEF Unregister, CaptureMin
<1>9. ASSUME NEW t \in Txns, LoadMin(t) PROVE LimitsSafe'
  BY <1>9 DEF LoadMin
<1>10. ASSUME NEW t \in Txns, Prune(t) PROVE LimitsSafe'
  BY <1>10 DEF Prune, Retain, Unlocked
<1>11. ASSUME NEW t \in Txns, NEW k \in MayRead[t], Read(t, k) PROVE LimitsSafe'
  BY <1>11 DEF Read
<1>12. ASSUME NEW t \in Txns, NEW k \in MayWrite[t], WriteKey(t, k) PROVE LimitsSafe'
  BY <1>12 DEF WriteKey
<1>13. ASSUME NEW t \in Txns, NEW k \in todo[t], ApplyKey(t, k) PROVE LimitsSafe'
  BY <1>13 DEF ApplyKey
<1>14. CASE UNCHANGED vars
  BY <1>14 DEF vars, Conflicts, Footprint
<1> QED
  BY <1>1, <1>2, <1>3, <1>4, <1>5, <1>6, <1>7, Zenon,
     <1>8, <1>9, <1>10, <1>11, <1>12, <1>13, <1>14 DEF Next, Step

\* Every step: phase 1 stays complete up to snapMax.
LEMMA FirstPassPreserved == IInv /\ [Next]_vars => FirstPass'
<1> SUFFICES ASSUME IInv, TypeOK', [Next]_vars PROVE FirstPass'
  BY TypePreserved DEF IInv
<1> USE OccAssumption DEF IInv, TypeOK, Phases, Record, None, FirstPass, VersionsBounded, Conflicts, Footprint
<1>1. ASSUME NEW t \in Txns, Begin(t) PROVE FirstPass'
  BY <1>1 DEF Begin, Unlocked
<1>2. ASSUME NEW t \in Txns, Validate(t) PROVE FirstPass'
  BY <1>2 DEF Validate, Unlocked, Clean, After
<1>3. ASSUME NEW t \in Txns, ValidateReadOnly(t) PROVE FirstPass'
  BY <1>3 DEF ValidateReadOnly
<1>4. ASSUME NEW t \in Txns, Capture(t) PROVE FirstPass'
  BY <1>4 DEF Capture, CaptureMin
<1>5. ASSUME NEW t \in Txns, Lock(t) PROVE FirstPass'
  BY <1>5 DEF Lock, Unlocked
<1>6. ASSUME NEW t \in Txns, CommitFail(t) PROVE FirstPass'
  BY <1>6 DEF CommitFail
<1>7. ASSUME NEW t \in Txns, Finish(t) PROVE FirstPass'
  BY <1>7 DEF Finish, Retain, PruneLimit
<1>8. ASSUME NEW t \in Txns, Unregister(t) PROVE FirstPass'
  BY <1>8 DEF Unregister, CaptureMin
<1>9. ASSUME NEW t \in Txns, LoadMin(t) PROVE FirstPass'
  BY <1>9 DEF LoadMin
<1>10. ASSUME NEW t \in Txns, Prune(t) PROVE FirstPass'
  BY <1>10 DEF Prune, Retain, Unlocked
<1>11. ASSUME NEW t \in Txns, NEW k \in MayRead[t], Read(t, k) PROVE FirstPass'
  BY <1>11 DEF Read
<1>12. ASSUME NEW t \in Txns, NEW k \in MayWrite[t], WriteKey(t, k) PROVE FirstPass'
  BY <1>12 DEF WriteKey
<1>13. ASSUME NEW t \in Txns, NEW k \in todo[t], ApplyKey(t, k) PROVE FirstPass'
  BY <1>13 DEF ApplyKey
<1>14. CASE UNCHANGED vars
  BY <1>14 DEF vars, Conflicts, Footprint
<1> QED
  BY <1>1, <1>2, <1>3, <1>4, <1>5, <1>6, <1>7, Zenon,
     <1>8, <1>9, <1>10, <1>11, <1>12, <1>13, <1>14 DEF Next, Step

\* Every step: tracked reads stay current or known to have changed.
LEMMA ReadsTrackedPreserved == IInv /\ [Next]_vars => ReadsTracked'
<1> SUFFICES ASSUME IInv, TypeOK', [Next]_vars PROVE ReadsTracked'
  BY TypePreserved DEF IInv
<1> USE OccAssumption DEF IInv, TypeOK, Phases, Record, None, ReadsTracked, VersionsBounded, RegisteredIsActive
<1>1. ASSUME NEW t \in Txns, Begin(t) PROVE ReadsTracked'
  BY <1>1 DEF Begin, Unlocked
<1>2. ASSUME NEW t \in Txns, Validate(t) PROVE ReadsTracked'
  BY <1>2 DEF Validate, Unlocked, Clean, After
<1>3. ASSUME NEW t \in Txns, ValidateReadOnly(t) PROVE ReadsTracked'
  BY <1>3 DEF ValidateReadOnly
<1>4. ASSUME NEW t \in Txns, Capture(t) PROVE ReadsTracked'
  BY <1>4 DEF Capture, CaptureMin
<1>5. ASSUME NEW t \in Txns, Lock(t) PROVE ReadsTracked'
  BY <1>5 DEF Lock, Unlocked
<1>6. ASSUME NEW t \in Txns, CommitFail(t) PROVE ReadsTracked'
  BY <1>6 DEF CommitFail
<1>7. ASSUME NEW t \in Txns, Finish(t) PROVE ReadsTracked'
  BY <1>7 DEF Finish, Retain, PruneLimit
<1>8. ASSUME NEW t \in Txns, Unregister(t) PROVE ReadsTracked'
  BY <1>8 DEF Unregister, CaptureMin
<1>9. ASSUME NEW t \in Txns, LoadMin(t) PROVE ReadsTracked'
  BY <1>9 DEF LoadMin
<1>10. ASSUME NEW t \in Txns, Prune(t) PROVE ReadsTracked'
  BY <1>10 DEF Prune, Retain, Unlocked
<1>11. ASSUME NEW t \in Txns, NEW k \in MayRead[t], Read(t, k) PROVE ReadsTracked'
  BY <1>11 DEF Read
<1>12. ASSUME NEW t \in Txns, NEW k \in MayWrite[t], WriteKey(t, k) PROVE ReadsTracked'
  BY <1>12 DEF WriteKey
<1>13. ASSUME NEW t \in Txns, NEW k \in todo[t], ApplyKey(t, k) PROVE ReadsTracked'
  BY <1>13 DEF ApplyKey
<1>14. CASE UNCHANGED vars
  BY <1>14 DEF vars, Conflicts, Footprint
<1> QED
  BY <1>1, <1>2, <1>3, <1>4, <1>5, <1>6, <1>7, Zenon,
     <1>8, <1>9, <1>10, <1>11, <1>12, <1>13, <1>14 DEF Next, Step

\* Every step: the history keeps covering the unexposed transactions.
LEMMA HistoryCoversPreserved == IInv /\ [Next]_vars => HistoryCovers'
<1> SUFFICES ASSUME IInv, TypeOK', [Next]_vars PROVE HistoryCovers'
  BY TypePreserved DEF IInv
<1> USE OccAssumption DEF IInv, TypeOK, Phases, Record, None, HistoryCovers, VersionsBounded, LimitsSafe, RegisteredIsActive
<1>1. ASSUME NEW t \in Txns, Begin(t) PROVE HistoryCovers'
  BY <1>1 DEF Begin, Unlocked
<1>2. ASSUME NEW t \in Txns, Validate(t) PROVE HistoryCovers'
  BY <1>2 DEF Validate, Unlocked, Clean, After
<1>3. ASSUME NEW t \in Txns, ValidateReadOnly(t) PROVE HistoryCovers'
  BY <1>3 DEF ValidateReadOnly
<1>4. ASSUME NEW t \in Txns, Capture(t) PROVE HistoryCovers'
  BY <1>4 DEF Capture, CaptureMin
<1>5. ASSUME NEW t \in Txns, Lock(t) PROVE HistoryCovers'
  BY <1>5 DEF Lock, Unlocked
<1>6. ASSUME NEW t \in Txns, CommitFail(t) PROVE HistoryCovers'
  BY <1>6 DEF CommitFail
<1>7. ASSUME NEW t \in Txns, Finish(t) PROVE HistoryCovers'
  <2>0. UNCHANGED <<active, start, store, exposed>>
    BY <1>7, Zenon DEF Finish
  <2> SUFFICES ASSUME NEW u \in active \ exposed, NEW k \in Keys \ dirty', store[k] > start[u]
               PROVE  \E r \in history' : r.v = store[k] /\ k \in r.keys
    BY <2>0
  <2>1. t \notin blind /\ lock = t /\ limit[t] # None /\ limit[t] <= start[u]
    BY <1>7 DEF Finish
  <2>2. history' = {r \in history \cup {[v |-> global + 1, keys |-> writes[t]]} :
                       r.v >= limit[t]}
    BY <1>7, <2>1 DEF Finish, Retain, PruneLimit
  <2>3. CASE k \in writes[t] \ todo[t]
    <3>1. store[k] = global + 1 /\ global + 1 >= limit[t]
      BY <2>1, <2>3
    <3>2. [v |-> global + 1, keys |-> writes[t]] \in history'
      BY <2>2, <3>1
    <3> QED
      BY <2>3, <3>1, <3>2
  <2>4. CASE k \notin writes[t] \ todo[t]
    <3>1. k \in Keys \ dirty
      BY <1>7, <2>4 DEF Finish
    <3> QED
      BY <2>1, <2>2, <2>4, <3>1
  <2> QED
    BY <2>3, <2>4
<1>8. ASSUME NEW t \in Txns, Unregister(t) PROVE HistoryCovers'
  BY <1>8 DEF Unregister, CaptureMin
<1>9. ASSUME NEW t \in Txns, LoadMin(t) PROVE HistoryCovers'
  BY <1>9 DEF LoadMin
<1>10. ASSUME NEW t \in Txns, Prune(t) PROVE HistoryCovers'
  BY <1>10 DEF Prune, Retain, Unlocked
<1>11. ASSUME NEW t \in Txns, NEW k \in MayRead[t], Read(t, k) PROVE HistoryCovers'
  BY <1>11 DEF Read
<1>12. ASSUME NEW t \in Txns, NEW k \in MayWrite[t], WriteKey(t, k) PROVE HistoryCovers'
  BY <1>12 DEF WriteKey
<1>13. ASSUME NEW t \in Txns, NEW k \in todo[t], ApplyKey(t, k) PROVE HistoryCovers'
  BY <1>13 DEF ApplyKey
<1>14. CASE UNCHANGED vars
  BY <1>14 DEF vars, Conflicts, Footprint
<1> QED
  BY <1>1, <1>2, <1>3, <1>4, <1>5, <1>6, <1>7, Zenon,
     <1>8, <1>9, <1>10, <1>11, <1>12, <1>13, <1>14 DEF Next, Step

\* Every step: the last pruning is done or still to come.
LEMMA LastOnePrunesPreserved == IInv /\ [Next]_vars => LastOnePrunes'
<1> SUFFICES ASSUME IInv, TypeOK', [Next]_vars PROVE LastOnePrunes'
  BY TypePreserved DEF IInv
<1> USE OccAssumption DEF IInv, TypeOK, Phases, Record, None, LastOnePrunes, Living
<1>1. ASSUME NEW t \in Txns, Begin(t) PROVE LastOnePrunes'
  BY <1>1 DEF Begin, Unlocked
<1>2. ASSUME NEW t \in Txns, Validate(t) PROVE LastOnePrunes'
  BY <1>2 DEF Validate, Unlocked, Clean, After
<1>3. ASSUME NEW t \in Txns, ValidateReadOnly(t) PROVE LastOnePrunes'
  BY <1>3 DEF ValidateReadOnly
<1>4. ASSUME NEW t \in Txns, Capture(t) PROVE LastOnePrunes'
  BY <1>4 DEF Capture, CaptureMin
<1>5. ASSUME NEW t \in Txns, Lock(t) PROVE LastOnePrunes'
  BY <1>5 DEF Lock, Unlocked
<1>6. ASSUME NEW t \in Txns, CommitFail(t) PROVE LastOnePrunes'
  BY <1>6 DEF CommitFail
<1>7. ASSUME NEW t \in Txns, Finish(t) PROVE LastOnePrunes'
  BY <1>7 DEF Finish, Retain, PruneLimit
<1>8. ASSUME NEW t \in Txns, Unregister(t) PROVE LastOnePrunes'
  <2>1. \A u \in active' : pc'[u] \in Living
    BY <1>8 DEF Unregister
  <2>2. CASE active \ {t} = {}
    <3>1. pc'[t] = "dropping" /\ limit'[t] = None
      BY <1>8, <2>2 DEF Unregister, CaptureMin
    <3> HIDE DEF IInv, TypeOK, Phases, Record, None, Living
    <3> QED
      BY <2>1, <3>1
  <2>3. CASE active \ {t} # {}
    <3>1. PICK u \in active' : u \in Txns
      BY <1>8, <2>3 DEF Unregister
    <3> QED
      BY <2>1, <3>1
  <2> QED
    BY <2>2, <2>3
<1>9. ASSUME NEW t \in Txns, LoadMin(t) PROVE LastOnePrunes'
  BY <1>9 DEF LoadMin
<1>10. ASSUME NEW t \in Txns, Prune(t) PROVE LastOnePrunes'
  BY <1>10 DEF Prune, Retain, Unlocked, VersionsBounded
<1>11. ASSUME NEW t \in Txns, NEW k \in MayRead[t], Read(t, k) PROVE LastOnePrunes'
  BY <1>11 DEF Read
<1>12. ASSUME NEW t \in Txns, NEW k \in MayWrite[t], WriteKey(t, k) PROVE LastOnePrunes'
  BY <1>12 DEF WriteKey
<1>13. ASSUME NEW t \in Txns, NEW k \in todo[t], ApplyKey(t, k) PROVE LastOnePrunes'
  BY <1>13 DEF ApplyKey
<1>14. CASE UNCHANGED vars
  BY <1>14 DEF vars
<1> QED
  BY <1>1, <1>2, <1>3, <1>4, <1>5, <1>6, <1>7, Zenon,
     <1>8, <1>9, <1>10, <1>11, <1>12, <1>13, <1>14 DEF Next, Step

\* The variables keep their shapes and the write lock its one holder.
THEOREM TypeCorrect == Spec => []TypeOK
<1>1. Init => TypeOK
  BY InitIInv DEF IInv
<1> QED
  BY <1>1, TypePreserved, PTL DEF Spec

\* The invariant is inductive.
LEMMA IInvPreserved == IInv /\ [Next]_vars => IInv'
  BY TypePreserved, VersionsBoundedPreserved, RegisteredIsActivePreserved,
     LimitsSafePreserved, FirstPassPreserved, ReadsTrackedPreserved,
     HistoryCoversPreserved, LastOnePrunesPreserved DEF IInv

\* validate_and_commit and unregister_transaction never lose the record a running,
\* unexposed transaction has still to be validated against.
THEOREM HistoryCoversAlways == Spec => []HistoryCovers
<1>1. IInv => HistoryCovers
  BY DEF IInv
<1> QED
  BY InitIInv, IInvPreserved, <1>1, PTL DEF Spec

\* The history is bounded by the transactions that are alive: when all of them are
\* gone, unregister_transaction has pruned all records but the newest.
THEOREM HistoryAlwaysBounded == Spec => []HistoryBounded
<1>1. IInv => HistoryBounded
  BY DEF IInv, LastOnePrunes, HistoryBounded, Living
<1> QED
  BY InitIInv, IInvPreserved, <1>1, PTL DEF Spec

\* Both validation passes together, or the single one of a read-only transaction,
\* leave no conflicting record after the start version.
LEMMA DecidedClean ==
  ASSUME IInv, [Next]_vars, NEW t \in Registered, Decides(t)
  PROVE  Unlocked /\ \A r \in history : r.v > start[t] => ~Conflicts(r, t)
<1> USE OccAssumption DEF IInv, TypeOK, Decides, Phases, Record, None
<1>1. t \in Txns /\ (Lock(t) \/ ValidateReadOnly(t))
  <2>1. t \in Txns /\ pc'[t] # pc[t] /\ Next
    BY DEF vars
  <2>2. PICK u \in Txns : Step(u)
    BY <2>1 DEF Next
  <2>3. \/ Begin(u) \/ Validate(u) \/ ValidateReadOnly(u) \/ Capture(u) \/ Lock(u)
        \/ CommitFail(u) \/ Finish(u) \/ Unregister(u) \/ LoadMin(u) \/ Prune(u)
    BY <2>1, <2>2 DEF Step, Read, WriteKey, ApplyKey
  <2>4. u = t
    <3>1. \E at \in Phases : pc' = [pc EXCEPT ![u] = at]
      BY <2>3, Zenon
      DEF Begin, Validate, ValidateReadOnly, Capture, Lock, CommitFail, Finish,
                         Unregister, LoadMin, Prune
    <3> QED
      BY <2>1, <3>1
  <2>5. ~(Begin(t) \/ Validate(t) \/ Capture(t) \/ CommitFail(t) \/ Finish(t))
    BY <2>1, Zenon DEF Begin, Validate, Capture, CommitFail, Finish
  <2>6. ~(Unregister(t) \/ LoadMin(t) \/ Prune(t))
    BY <2>1 DEF Unregister, LoadMin, Prune
  <2> QED
    BY <2>1, <2>3, <2>4, <2>5, <2>6
<1>2. CASE Lock(t)
  BY <1>1, <1>2 DEF Lock, Clean, After, FirstPass
<1>3. CASE ValidateReadOnly(t)
  BY <1>1, <1>3 DEF ValidateReadOnly, Clean, After
<1> QED
  BY <1>1, <1>2, <1>3

\* SnapshotIsolation transactions outside the pruning window commit only when
\* everything they read or write is as they found it at their start version.
THEOREM ConsistentCommitAlways == Spec => ConsistentCommit
<1>1. ASSUME IInv, [Next]_vars, NEW t \in Registered \ exposed, Decides(t)
      PROVE  Unchanged(t)
  <2>1. Unlocked /\ \A r \in history : r.v > start[t] => ~Conflicts(r, t)
    BY <1>1, DecidedClean
  <2>2. t \in active
    BY <1>1 DEF IInv, RegisteredIsActive, Living, Decides
  <2>3. \A k \in Footprint(t) \ dirty : store[k] <= start[t]
    BY <1>1, <2>1, <2>2, OccAssumption
       DEF IInv, TypeOK, Record, HistoryCovers, Unlocked, Conflicts, Footprint
  <2>4. \A o \in obs[t] : o[1] \in dirty \/ o[2] = store[o[1]]
    BY <1>1, <2>3, OccAssumption DEF IInv, TypeOK, ReadsTracked, Footprint
  <2> QED
    BY <2>3, <2>4, Zenon DEF Unchanged
<1>2. IInv /\ [Next]_vars =>
          [\A t \in Registered \ exposed : Decides(t) => Unchanged(t)]_vars
  BY <1>1
<1> QED
  BY InitIInv, IInvPreserved, <1>2, PTL DEF Spec, ConsistentCommit
=============================================================================
