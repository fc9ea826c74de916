--------------------- MODULE SupplierConfirmationProofs ---------------------
(***************************************************************************)
(* Theorems about SupplierConfirmation for every set of suppliers, nodes   *)
(* and task slots and any number of crashes.                               *)
(***************************************************************************)
EXTENDS SupplierConfirmation, TLAPS

\* The initial state is typed.
LEMMA TypedInit == Init => TypeOK
  BY ConfirmationAssumption DEF Init, TypeOK

\* A task that cancels for a silent supplier has one: without SilentKnown,
\* NoSupplier could enter canceledBy.
SilentKnown == \A t \in Tasks : pc[t] = "autoCancel" => silent[t] \in Suppliers

Typed == TypeOK /\ SilentKnown

\* Every step keeps the types.
LEMMA TypedStep == Typed /\ [Next]_vars => Typed'
  <1> SUFFICES ASSUME Typed, [Next]_vars PROVE Typed'
    OBVIOUS
  <1> USE ConfirmationAssumption DEF nodeVars
  <1>1. ASSUME NEW t \in Tasks, TakeLock(t)
       PROVE  Typed'
    BY <1>1 DEF TakeLock, Typed, TypeOK, SilentKnown, supplierVars, httpVars
  <1>2. ASSUME NEW t \in Tasks, EndWait(t)
       PROVE  Typed'
    BY <1>2 DEF EndWait, Typed, TypeOK, SilentKnown, orderVars, supplierVars, httpVars
  <1>3. ASSUME NEW t \in Tasks, AutoCancel(t)
       PROVE  Typed'
    BY <1>3 DEF AutoCancel, Typed, TypeOK, SilentKnown, orderVars, httpVars
  <1>4. ASSUME NEW t \in Tasks, Release(t)
       PROVE  Typed'
    BY <1>4 DEF Release, Typed, TypeOK, SilentKnown, supplierVars, httpVars
  <1>5. ASSUME NEW t \in Tasks, NEW s \in Suppliers, Collect(t, s)
       PROVE  Typed'
    BY <1>5 DEF Collect, Typed, TypeOK, SilentKnown, orderVars, supplierVars, httpVars
  <1>6. ASSUME NEW n \in Nodes, NEW s \in Suppliers, NotifyDone(n, s)
       PROVE  Typed'
    BY <1>6 DEF NotifyDone, Typed, TypeOK, SilentKnown, orderVars, httpVars
  <1>7. ASSUME NEW s \in Suppliers, AcceptCheck(s)
       PROVE  Typed'
    BY <1>7 DEF AcceptCheck, Typed, TypeOK, SilentKnown, orderVars, supplierVars, taskVars
  <1>8. ASSUME NEW s \in Suppliers, WithdrawCheck(s)
       PROVE  Typed'
    BY <1>8 DEF WithdrawCheck, Typed, TypeOK, SilentKnown, orderVars, supplierVars,
                taskVars
  <1>9. ASSUME NEW s \in Suppliers, AcceptWrite(s)
       PROVE  Typed'
    BY <1>9 DEF AcceptWrite, Typed, TypeOK, SilentKnown, orderVars, taskVars
  <1>10. ASSUME NEW s \in Suppliers, AcceptCount(s)
       PROVE  Typed'
    BY <1>10 DEF AcceptCount, Typed, TypeOK, SilentKnown, orderVars, supplierVars,
                 taskVars
  <1>11. ASSUME NEW s \in Suppliers, AcceptConfirm(s)
       PROVE  Typed'
    BY <1>11 DEF AcceptConfirm, Typed, TypeOK, SilentKnown, supplierVars, taskVars
  <1>12. ASSUME NEW s \in Suppliers, WithdrawWrite(s)
       PROVE  Typed'
    BY <1>12 DEF WithdrawWrite, Typed, TypeOK, SilentKnown, taskVars
  <1>13. ASSUME NEW s \in Suppliers, AcceptLost(s)
       PROVE  Typed'
    BY <1>13 DEF AcceptLost, Typed, TypeOK, SilentKnown, orderVars, supplierVars, taskVars
  <1>14. ASSUME ClientCancelCheck
       PROVE  Typed'
    BY <1>14 DEF ClientCancelCheck, Typed, TypeOK, SilentKnown, orderVars, supplierVars,
                 taskVars
  <1>15. ASSUME ClientCancelWrite
       PROVE  Typed'
    BY <1>15 DEF ClientCancelWrite, Typed, TypeOK, SilentKnown, supplierVars, taskVars
  <1>16. ASSUME NEW n \in Nodes, Crash(n)
       PROVE  Typed'
    BY <1>16 DEF Crash, Typed, TypeOK, SilentKnown, orderVars, supplierVars, httpVars
  <1>17. ASSUME NEW n \in Nodes, ReapFind(n) \/ ReapRelease(n)
       PROVE  Typed'
    BY <1>17 DEF ReapFind, ReapRelease, Typed, TypeOK, SilentKnown, orderVars,
                 supplierVars, taskVars, httpVars
  <1>18. CASE UNCHANGED vars
    BY <1>18 DEF vars, Typed, TypeOK, SilentKnown, orderVars, supplierVars, taskVars,
                 httpVars
  <1>19. QED
    BY <1>1, <1>2, <1>3, <1>4, <1>5, <1>6, <1>7, <1>8, <1>9, <1>10, <1>11, <1>12,
       <1>13, <1>14, <1>15, <1>16, <1>17, <1>18
    DEF Next, TaskStep, FinishHandler

\* The typing facts the other proofs start from.
LEMMA TypedAlways == Spec => []Typed
  <1>1. Init => Typed
    BY TypedInit DEF Init, Typed, SilentKnown
  <1>2. QED
    BY <1>1, TypedStep, PTL DEF Spec

\* Type correctness: no interleaving of tasks, handlers, crashes and
\* releases takes a variable out of its type.
THEOREM ConfirmationTypeCorrect == Spec => []TypeOK
  <1>1. Typed => TypeOK
    BY DEF Typed
  <1>2. QED
    BY <1>1, TypedAlways, PTL

-----------------------------------------------------------------------------
(* Who has confirmed.  A handler that is about to confirm has seen all     *)
(* suppliers accept, and acceptances are never taken back.                 *)

CountIsRight == \A s \in Suppliers : accepting[s] = "counted" => acceptedBy = Suppliers

ConfirmInv == ConfirmedByAll /\ CountIsRight

answerVars == <<confirmed, acceptedBy, accepting>>

\* Only accepting handlers touch acceptances and the confirmation.
LEMMA AnswerFrame ==
  [Next]_vars =>
    \/ UNCHANGED answerVars
    \/ \E s \in Suppliers : \/ AcceptCheck(s) \/ AcceptWrite(s) \/ AcceptCount(s)
                           \/ AcceptConfirm(s) \/ AcceptLost(s)
  <1> HAVE [Next]_vars
  <1>1. ASSUME NEW t \in Tasks, TakeLock(t) \/ EndWait(t) \/ AutoCancel(t) \/ Release(t)
       PROVE  UNCHANGED answerVars
    BY <1>1 DEF TakeLock, EndWait, AutoCancel, Release, answerVars, orderVars,
                supplierVars, httpVars
  <1>2. ASSUME NEW t \in Tasks, NEW s \in Suppliers, Collect(t, s)
       PROVE  UNCHANGED answerVars
    BY <1>2 DEF Collect, answerVars, orderVars, supplierVars, httpVars
  <1>3. ASSUME NEW n \in Nodes, NEW s \in Suppliers, NotifyDone(n, s)
       PROVE  UNCHANGED answerVars
    BY <1>3 DEF NotifyDone, answerVars, orderVars, httpVars
  <1>4. ASSUME NEW s \in Suppliers, WithdrawCheck(s) \/ WithdrawWrite(s)
       PROVE  UNCHANGED answerVars
    BY <1>4 DEF WithdrawCheck, WithdrawWrite, answerVars, orderVars,
                supplierVars, taskVars
  <1>5. ASSUME ClientCancelCheck \/ ClientCancelWrite
       PROVE  UNCHANGED answerVars
    BY <1>5 DEF ClientCancelCheck, ClientCancelWrite, answerVars, orderVars, supplierVars,
                taskVars
  <1>6. ASSUME NEW n \in Nodes, Crash(n) \/ ReapFind(n) \/ ReapRelease(n)
       PROVE  UNCHANGED answerVars
    BY <1>6 DEF Crash, ReapFind, ReapRelease, answerVars, orderVars, supplierVars,
                taskVars, httpVars
  <1>7. CASE UNCHANGED vars
    BY <1>7 DEF vars, answerVars, orderVars, supplierVars, taskVars, httpVars
  <1>8. QED
    BY <1>1, <1>2, <1>3, <1>4, <1>5, <1>6, <1>7
    DEF Next, TaskStep, FinishHandler

\* Every step keeps ConfirmInv.
LEMMA ConfirmStep == Typed /\ ConfirmInv /\ [Next]_vars => ConfirmInv'
  <1> SUFFICES ASSUME Typed, ConfirmInv, [Next]_vars PROVE ConfirmInv'
    OBVIOUS
  <1>1. CASE UNCHANGED answerVars
    BY <1>1 DEF answerVars, ConfirmInv, ConfirmedByAll, CountIsRight
  <1>2. ASSUME NEW s \in Suppliers, AcceptCheck(s)
       PROVE  ConfirmInv'
    BY <1>2 DEF AcceptCheck, ConfirmInv, ConfirmedByAll, CountIsRight, Typed, TypeOK,
                orderVars, supplierVars, taskVars
  <1>3. ASSUME NEW s \in Suppliers, AcceptWrite(s)
       PROVE  ConfirmInv'
    BY <1>3 DEF AcceptWrite, ConfirmInv, ConfirmedByAll, CountIsRight, Typed, TypeOK,
                orderVars, taskVars
  <1>4. ASSUME NEW s \in Suppliers, AcceptCount(s)
       PROVE  ConfirmInv'
    BY <1>4 DEF AcceptCount, ConfirmInv, ConfirmedByAll, CountIsRight, Typed, TypeOK,
                orderVars, supplierVars, taskVars
  <1>5. ASSUME NEW s \in Suppliers, AcceptConfirm(s)
       PROVE  ConfirmInv'
    BY <1>5 DEF AcceptConfirm, ConfirmInv, ConfirmedByAll, CountIsRight, Typed, TypeOK,
                supplierVars, taskVars
  <1>6. ASSUME NEW s \in Suppliers, AcceptLost(s)
       PROVE  ConfirmInv'
    BY <1>6 DEF AcceptLost, ConfirmInv, ConfirmedByAll, CountIsRight, Typed, TypeOK,
                orderVars, supplierVars, taskVars
  <1>7. QED
    BY <1>1, <1>2, <1>3, <1>4, <1>5, <1>6, AnswerFrame

\* allSuppliersHaveConfirmed is true only if every supplier has accepted,
\* also when handlers die half-way and locks are released too early.
THEOREM ConfirmationSound == Spec => []ConfirmedByAll
  <1>1. Init => ConfirmInv
    BY DEF Init, ConfirmInv, ConfirmedByAll, CountIsRight
  <1>2. ConfirmInv => ConfirmedByAll
    BY DEF ConfirmInv
  <1>3. QED
    BY <1>1, <1>2, ConfirmStep, TypedAlways, PTL DEF Spec

\* As long as no handler dies, the last supplier to accept confirms the order.
LEMMA LastAcceptStep ==
  ~HandlersMayCrash /\ Typed /\ LastAcceptConfirms /\ [Next]_vars => LastAcceptConfirms'
  <1> SUFFICES ASSUME ~HandlersMayCrash, Typed, LastAcceptConfirms, [Next]_vars
               PROVE  LastAcceptConfirms'
    OBVIOUS
  <1>1. CASE UNCHANGED answerVars
    BY <1>1 DEF answerVars, LastAcceptConfirms
  <1>2. ASSUME NEW s \in Suppliers, AcceptCheck(s)
       PROVE  LastAcceptConfirms'
    BY <1>2 DEF AcceptCheck, LastAcceptConfirms, Typed, TypeOK, orderVars, supplierVars,
                taskVars
  <1>3. ASSUME NEW s \in Suppliers, AcceptWrite(s)
       PROVE  LastAcceptConfirms'
    BY <1>3 DEF AcceptWrite, LastAcceptConfirms, Typed, TypeOK, orderVars, taskVars
  <1>4. ASSUME NEW s \in Suppliers, AcceptCount(s)
       PROVE  LastAcceptConfirms'
    BY <1>4 DEF AcceptCount, LastAcceptConfirms, Typed, TypeOK, orderVars, supplierVars,
                taskVars
  <1>5. ASSUME NEW s \in Suppliers, AcceptConfirm(s)
       PROVE  LastAcceptConfirms'
    BY <1>5 DEF AcceptConfirm, LastAcceptConfirms, Typed, TypeOK, supplierVars, taskVars
  <1>6. ASSUME NEW s \in Suppliers, AcceptLost(s)
       PROVE  LastAcceptConfirms'
    BY <1>6 DEF AcceptLost, LastAcceptConfirms, Typed, TypeOK, orderVars, supplierVars,
                taskVars
  <1>7. QED
    BY <1>1, <1>2, <1>3, <1>4, <1>5, <1>6, AnswerFrame

\* However many suppliers accept at the same time, an order all have accepted
\* is confirmed or about to be, provided the handlers do not die.
THEOREM NoConfirmationLost ==
  ASSUME ~HandlersMayCrash PROVE Spec => []LastAcceptConfirms
  <1>1. Init => LastAcceptConfirms
    BY ConfirmationAssumption DEF Init, LastAcceptConfirms
  <1>2. Typed /\ LastAcceptConfirms /\ [Next]_vars => LastAcceptConfirms'
    BY LastAcceptStep
  <1>3. QED
    BY <1>1, <1>2, TypedAlways, PTL DEF Spec

-----------------------------------------------------------------------------
(* Who has canceled.                                                       *)

causeVars == <<status, canceledByClient, canceledBy, canceling>>

\* The steps that cancel, or find that somebody has canceled.
LEMMA CauseFrame ==
  [Next]_vars =>
    \/ UNCHANGED causeVars
    \/ \E t \in Tasks, s \in Suppliers : Collect(t, s)
    \/ \E t \in Tasks : AutoCancel(t) \/ Release(t)
    \/ \E s \in Suppliers : WithdrawWrite(s)
    \/ ClientCancelWrite
    \/ \E n \in Nodes : Crash(n)
  <1> HAVE [Next]_vars
  <1>1. ASSUME NEW t \in Tasks, TakeLock(t) \/ EndWait(t)
       PROVE  UNCHANGED causeVars
    BY <1>1 DEF TakeLock, EndWait, causeVars, orderVars, supplierVars, httpVars
  <1>2. ASSUME NEW n \in Nodes, NEW s \in Suppliers, NotifyDone(n, s)
       PROVE  UNCHANGED causeVars
    BY <1>2 DEF NotifyDone, causeVars, orderVars, httpVars
  <1>3. ASSUME NEW s \in Suppliers,
               \/ AcceptCheck(s) \/ WithdrawCheck(s) \/ AcceptWrite(s)
               \/ AcceptCount(s) \/ AcceptConfirm(s) \/ AcceptLost(s)
       PROVE  UNCHANGED causeVars
    BY <1>3 DEF AcceptCheck, WithdrawCheck, AcceptWrite, AcceptCount,
                AcceptConfirm, AcceptLost, causeVars, orderVars, supplierVars, taskVars
  <1>4. ASSUME ClientCancelCheck
       PROVE  UNCHANGED causeVars
    BY <1>4 DEF ClientCancelCheck, causeVars, orderVars, supplierVars, taskVars
  <1>5. ASSUME NEW n \in Nodes, ReapFind(n) \/ ReapRelease(n)
       PROVE  UNCHANGED causeVars
    BY <1>5 DEF ReapFind, ReapRelease, causeVars, orderVars, supplierVars, taskVars,
                httpVars
  <1>6. CASE UNCHANGED vars
    BY <1>6 DEF vars, causeVars, orderVars, supplierVars, taskVars, httpVars
  <1>7. QED
    BY <1>1, <1>2, <1>3, <1>4, <1>5, <1>6
    DEF Next, TaskStep, FinishHandler

\* Every step keeps a cause on record.
LEMMA CauseStep == Typed /\ CanceledHasCause /\ [Next]_vars => CanceledHasCause'
  <1> SUFFICES ASSUME Typed, CanceledHasCause, [Next]_vars PROVE CanceledHasCause'
    OBVIOUS
  <1>1. CASE UNCHANGED causeVars
    BY <1>1 DEF causeVars, CanceledHasCause
  <1>2. ASSUME NEW t \in Tasks, NEW s \in Suppliers, Collect(t, s)
       PROVE  CanceledHasCause'
    BY <1>2 DEF Collect, CanceledHasCause, Typed, TypeOK, SilentKnown, orderVars,
                supplierVars, httpVars
  <1>3. ASSUME NEW t \in Tasks, AutoCancel(t)
       PROVE  CanceledHasCause'
    BY <1>3 DEF AutoCancel, CanceledHasCause, Typed, TypeOK, SilentKnown, orderVars,
                httpVars
  <1>4. ASSUME NEW t \in Tasks, Release(t)
       PROVE  CanceledHasCause'
    BY <1>4 DEF Release, CanceledHasCause, Typed, TypeOK, SilentKnown, supplierVars,
                httpVars
  <1>5. ASSUME NEW s \in Suppliers, WithdrawWrite(s)
       PROVE  CanceledHasCause'
    BY <1>5 DEF WithdrawWrite, CanceledHasCause, Typed, TypeOK, SilentKnown, taskVars
  <1>6. ASSUME ClientCancelWrite
       PROVE  CanceledHasCause'
    BY <1>6 DEF ClientCancelWrite, CanceledHasCause, Typed, TypeOK, SilentKnown,
                supplierVars, taskVars
  <1>7. ASSUME NEW n \in Nodes, Crash(n)
       PROVE  CanceledHasCause'
    BY <1>7 DEF Crash, CanceledHasCause, Typed, TypeOK, SilentKnown, orderVars,
                supplierVars, httpVars
  <1>8. QED
    BY <1>1, <1>2, <1>3, <1>4, <1>5, <1>6, <1>7, CauseFrame

\* A canceled order has a canceling client or supplier on record.
THEOREM CancellationHasCause == Spec => []CanceledHasCause
  <1>1. Init => CanceledHasCause
    BY DEF Init, CanceledHasCause
  <1>2. QED
    BY <1>1, CauseStep, TypedAlways, PTL DEF Spec

\* No step takes a canceled order back to processing: not the task that
\* releases it with the status it read minutes ago, not a handler that has
\* checked the order before the cancellation.
THEOREM CancellationFinal == Spec => CanceledStays
  <1>1. [Next]_vars /\ status = "canceled" => status' = "canceled"
    <2> HAVE [Next]_vars /\ status = "canceled"
    <2>1. ASSUME NEW t \in Tasks, AutoCancel(t) \/ Release(t)
         PROVE  status' = "canceled"
      BY <2>1 DEF AutoCancel, Release, orderVars
    <2>2. ASSUME NEW t \in Tasks, NEW s \in Suppliers, Collect(t, s)
         PROVE  status' = "canceled"
      BY <2>2 DEF Collect, orderVars
    <2>3. ASSUME NEW s \in Suppliers, WithdrawWrite(s)
         PROVE  status' = "canceled"
      BY <2>3 DEF WithdrawWrite
    <2>4. ASSUME NEW n \in Nodes, Crash(n)
         PROVE  status' = "canceled"
      BY <2>4 DEF Crash, orderVars
    <2>5. QED
      BY <2>1, <2>2, <2>3, <2>4, CauseFrame DEF causeVars, ClientCancelWrite
  <1>2. QED
    BY <1>1, PTL DEF Spec, CanceledStays

-----------------------------------------------------------------------------
(* The lock.  It is exclusive only as long as no living node is taken for  *)
(* dead and no dead one is reaped twice; then the node of a working task   *)
(* is alive and keeps its lock, and what a reaper unlocks is still locked  *)
(* by a dead node.                                                         *)

LockInv ==
  /\ LockIsExclusive
  /\ \A t \in Working : Home[t] \in alive
  /\ reapers # {} => lockedBy \in Nodes \ alive

workVars == <<pc, lockedBy, nodeVars>>

\* Handlers and clients touch neither the tasks nor the lock.
LEMMA WorkFrame ==
  [Next]_vars =>
    \/ UNCHANGED workVars
    \/ \E t \in Tasks : TakeLock(t) \/ EndWait(t) \/ AutoCancel(t) \/ Release(t)
    \/ \E t \in Tasks, s \in Suppliers : Collect(t, s)
    \/ \E n \in Nodes : Crash(n) \/ ReapFind(n) \/ ReapRelease(n)
  <1> USE DEF nodeVars
  <1> HAVE [Next]_vars
  <1>1. ASSUME NEW n \in Nodes, NEW s \in Suppliers, NotifyDone(n, s)
       PROVE  UNCHANGED workVars
    BY <1>1 DEF NotifyDone, workVars, orderVars, httpVars
  <1>2. ASSUME NEW s \in Suppliers,
               \/ AcceptCheck(s) \/ WithdrawCheck(s) \/ AcceptWrite(s)
               \/ AcceptCount(s) \/ AcceptConfirm(s) \/ WithdrawWrite(s) \/ AcceptLost(s)
       PROVE  UNCHANGED workVars
    BY <1>2 DEF AcceptCheck, WithdrawCheck, AcceptWrite, AcceptCount,
                AcceptConfirm, WithdrawWrite, AcceptLost, workVars, orderVars, supplierVars,
                taskVars
  <1>3. ASSUME ClientCancelCheck \/ ClientCancelWrite
       PROVE  UNCHANGED workVars
    BY <1>3 DEF ClientCancelCheck, ClientCancelWrite, workVars, orderVars, supplierVars,
                taskVars
  <1>4. CASE UNCHANGED vars
    BY <1>4 DEF vars, workVars, orderVars, supplierVars, taskVars, httpVars
  <1>5. QED
    BY <1>1, <1>2, <1>3, <1>4
    DEF Next, TaskStep, FinishHandler

\* Every step keeps the lock with its worker.
LEMMA LockStep ==
  ASSUME SlowNodes = {} PROVE Typed /\ OneReaper /\ LockInv /\ [Next]_vars => LockInv'
  <1> SUFFICES ASSUME SlowNodes = {}, Typed, OneReaper, LockInv, [Next]_vars
               PROVE  LockInv'
    OBVIOUS
  <1> USE ConfirmationAssumption DEF nodeVars
  <1>1. CASE UNCHANGED workVars
    BY <1>1 DEF workVars, LockInv, LockIsExclusive, Working
  <1>2. ASSUME NEW t \in Tasks, TakeLock(t)
       PROVE  LockInv'
    BY <1>2 DEF TakeLock, LockInv, LockIsExclusive, Working, Typed, TypeOK, supplierVars,
                httpVars
  <1>3. ASSUME NEW t \in Tasks, EndWait(t)
       PROVE  LockInv'
    BY <1>3 DEF EndWait, LockInv, LockIsExclusive, Working, Typed, TypeOK, orderVars,
                supplierVars, httpVars
  <1>4. ASSUME NEW t \in Tasks, AutoCancel(t)
       PROVE  LockInv'
    BY <1>4 DEF AutoCancel, LockInv, LockIsExclusive, Working, Typed, TypeOK, orderVars,
                httpVars
  <1>5. ASSUME NEW t \in Tasks, Release(t)
       PROVE  LockInv'
    BY <1>5 DEF Release, LockInv, LockIsExclusive, Working, Typed, TypeOK, supplierVars,
                httpVars
  <1>6. ASSUME NEW t \in Tasks, NEW s \in Suppliers, Collect(t, s)
       PROVE  LockInv'
    BY <1>6 DEF Collect, LockInv, LockIsExclusive, Working, Typed, TypeOK, orderVars,
                supplierVars, httpVars
  <1>7. ASSUME NEW n \in Nodes, Crash(n)
       PROVE  LockInv'
    BY <1>7 DEF Crash, LockInv, LockIsExclusive, Working, Typed, TypeOK, orderVars,
                supplierVars, httpVars
  <1>8. ASSUME NEW n \in Nodes, ReapFind(n) \/ ReapRelease(n)
       PROVE  LockInv'
    BY <1>8 DEF ReapFind, ReapRelease, OneReaper, LockInv, LockIsExclusive, Working, Typed,
                TypeOK, orderVars, supplierVars, taskVars, httpVars
  <1>9. QED
    BY <1>1, <1>2, <1>3, <1>4, <1>5, <1>6, <1>7, <1>8, WorkFrame

\* If no living node is ever taken for dead and no two reapers unlock the
\* order of one dead node, at most one task works on the order at a time and
\* the order is locked for its node.
THEOREM LockExclusive ==
  ASSUME SlowNodes = {} PROVE Spec /\ []OneReaper => []LockIsExclusive
  <1>1. Init => LockInv
    BY DEF Init, LockInv, LockIsExclusive, Working
  <1>2. LockInv => LockIsExclusive
    BY DEF LockInv
  <1>3. Typed /\ OneReaper /\ LockInv /\ [Next]_vars => LockInv'
    BY LockStep
  <1>4. QED
    BY <1>1, <1>2, <1>3, TypedAlways, PTL DEF Spec

-----------------------------------------------------------------------------
(* The refinement.  A task that cancels has found a supplier who canceled, *)
(* and a handler that confirms has seen everybody accept (ConfirmInv).     *)

FoundCause == canceling # {} => canceledBy # {}

agreementVars == <<acceptedBy, canceledBy, status, confirmed, canceledByClient>>

\* Every step keeps FoundCause: answers are never taken back.
LEMMA FoundCauseStep == Typed /\ FoundCause /\ [Next]_vars => FoundCause'
  <1> SUFFICES ASSUME Typed, FoundCause, [Next]_vars PROVE FoundCause'
    OBVIOUS
  <1>1. CASE UNCHANGED causeVars
    BY <1>1 DEF causeVars, FoundCause
  <1>2. ASSUME NEW t \in Tasks, NEW s \in Suppliers, Collect(t, s)
       PROVE  FoundCause'
    BY <1>2 DEF Collect, FoundCause, supplierVars
  <1>3. ASSUME NEW t \in Tasks, AutoCancel(t)
       PROVE  FoundCause'
    BY <1>3 DEF AutoCancel, FoundCause
  <1>4. ASSUME NEW t \in Tasks, Release(t)
       PROVE  FoundCause'
    BY <1>4 DEF Release, FoundCause, supplierVars
  <1>5. ASSUME NEW s \in Suppliers, WithdrawWrite(s)
       PROVE  FoundCause'
    BY <1>5 DEF WithdrawWrite, FoundCause, taskVars
  <1>6. ASSUME ClientCancelWrite
       PROVE  FoundCause'
    BY <1>6 DEF ClientCancelWrite, FoundCause, supplierVars, taskVars
  <1>7. ASSUME NEW n \in Nodes, Crash(n)
       PROVE  FoundCause'
    BY <1>7 DEF Crash, FoundCause, supplierVars
  <1>8. QED
    BY <1>1, <1>2, <1>3, <1>4, <1>5, <1>6, <1>7, CauseFrame

\* The steps that neither give an answer nor draw a conclusion.
LEMMA AgreementFrame ==
  [Next]_vars =>
    \/ UNCHANGED agreementVars
    \/ \E t \in Tasks : AutoCancel(t) \/ Release(t)
    \/ \E s \in Suppliers : AcceptWrite(s) \/ AcceptConfirm(s) \/ WithdrawWrite(s)
    \/ ClientCancelWrite
  <1> HAVE [Next]_vars
  <1>1. ASSUME NEW t \in Tasks, TakeLock(t) \/ EndWait(t)
       PROVE  UNCHANGED agreementVars
    BY <1>1 DEF TakeLock, EndWait, agreementVars, orderVars, supplierVars, httpVars
  <1>2. ASSUME NEW t \in Tasks, NEW s \in Suppliers, Collect(t, s)
       PROVE  UNCHANGED agreementVars
    BY <1>2 DEF Collect, agreementVars, orderVars, supplierVars
  <1>3. ASSUME NEW n \in Nodes, NEW s \in Suppliers, NotifyDone(n, s)
       PROVE  UNCHANGED agreementVars
    BY <1>3 DEF NotifyDone, agreementVars, orderVars
  <1>4. ASSUME NEW s \in Suppliers,
               \/ AcceptCheck(s) \/ AcceptCount(s) \/ AcceptLost(s)
               \/ WithdrawCheck(s)
       PROVE  UNCHANGED agreementVars
    BY <1>4 DEF AcceptCheck, AcceptCount, AcceptLost, WithdrawCheck,
                agreementVars, orderVars, supplierVars
  <1>5. ASSUME ClientCancelCheck
       PROVE  UNCHANGED agreementVars
    BY <1>5 DEF ClientCancelCheck, agreementVars, orderVars, supplierVars
  <1>6. ASSUME NEW n \in Nodes, Crash(n) \/ ReapFind(n) \/ ReapRelease(n)
       PROVE  UNCHANGED agreementVars
    BY <1>6 DEF Crash, ReapFind, ReapRelease, agreementVars, orderVars, supplierVars
  <1>7. CASE UNCHANGED vars
    BY <1>7 DEF vars, agreementVars, orderVars, supplierVars
  <1>8. QED
    BY <1>1, <1>2, <1>3, <1>4, <1>5, <1>6, <1>7
    DEF Next, TaskStep, FinishHandler

\* A supplier who is about to withdraw has accepted.
WithdrawKnown == withdrawing \subseteq acceptedBy

withdrawVars == <<acceptedBy, withdrawing>>

\* Every step keeps WithdrawKnown: acceptances are never taken back.
LEMMA WithdrawStep == Typed /\ WithdrawKnown /\ [Next]_vars => WithdrawKnown'
  <1> SUFFICES ASSUME Typed, WithdrawKnown, [Next]_vars PROVE WithdrawKnown'
    OBVIOUS
  <1>1. CASE UNCHANGED withdrawVars
    BY <1>1 DEF withdrawVars, WithdrawKnown
  <1>2. ASSUME NEW s \in Suppliers, AcceptWrite(s) \/ WithdrawCheck(s) \/ WithdrawWrite(s)
       PROVE  WithdrawKnown'
    BY <1>2 DEF AcceptWrite, WithdrawCheck, WithdrawWrite, WithdrawKnown, supplierVars
  <1>3. ASSUME NEW t \in Tasks, TakeLock(t) \/ EndWait(t) \/ AutoCancel(t) \/ Release(t)
       PROVE  UNCHANGED withdrawVars
    BY <1>3 DEF TakeLock, EndWait, AutoCancel, Release, withdrawVars, supplierVars,
                httpVars
  <1>4. ASSUME NEW t \in Tasks, NEW s \in Suppliers, Collect(t, s)
       PROVE  UNCHANGED withdrawVars
    BY <1>4 DEF Collect, withdrawVars, supplierVars, httpVars
  <1>5. ASSUME NEW n \in Nodes, NEW s \in Suppliers, NotifyDone(n, s)
       PROVE  UNCHANGED withdrawVars
    BY <1>5 DEF NotifyDone, withdrawVars, httpVars
  <1>6. ASSUME NEW s \in Suppliers,
               AcceptCheck(s) \/ AcceptCount(s) \/ AcceptConfirm(s) \/ AcceptLost(s)
       PROVE  UNCHANGED withdrawVars
    BY <1>6 DEF AcceptCheck, AcceptCount, AcceptConfirm, AcceptLost, withdrawVars,
                supplierVars
  <1>7. ASSUME ClientCancelCheck \/ ClientCancelWrite
       PROVE  UNCHANGED withdrawVars
    BY <1>7 DEF ClientCancelCheck, ClientCancelWrite, withdrawVars, supplierVars
  <1>8. ASSUME NEW n \in Nodes, Crash(n) \/ ReapFind(n) \/ ReapRelease(n)
       PROVE  UNCHANGED withdrawVars
    BY <1>8 DEF Crash, ReapFind, ReapRelease, withdrawVars, supplierVars, httpVars
  <1>9. CASE UNCHANGED vars
    BY <1>1, <1>9 DEF vars, withdrawVars, supplierVars, httpVars
  <1>10. QED
    BY <1>1, <1>2, <1>3, <1>4, <1>5, <1>6, <1>7, <1>8, <1>9
    DEF Next, TaskStep, FinishHandler

\* A step of the confirmation is a step of the agreement or a stutter.
LEMMA AgreementStep ==
  Typed /\ ConfirmInv /\ FoundCause /\ WithdrawKnown /\ [Next]_vars
    => [Agreement!Next]_(Agreement!vars)
  <1> SUFFICES ASSUME Typed, ConfirmInv, FoundCause, WithdrawKnown, [Next]_vars
               PROVE  [Agreement!Next]_(Agreement!vars)
    OBVIOUS
  <1>1. CASE UNCHANGED agreementVars
    BY <1>1 DEF agreementVars, Agreement!vars
  <1>2. ASSUME NEW t \in Tasks, AutoCancel(t)
       PROVE  Agreement!Next
    <2>1. silent[t] \in Suppliers
      BY <1>2 DEF AutoCancel, Typed, SilentKnown
    <2>2. Agreement!Decline(silent[t])
      BY <1>2 DEF AutoCancel, Agreement!Decline, orderVars
    <2>3. QED
      BY <2>1, <2>2 DEF Agreement!Next
  <1>3. ASSUME NEW t \in Tasks, Release(t)
       PROVE  [Agreement!Next]_(Agreement!vars)
    <2>1. CASE t \in canceling /\ status = "processing"
      <3>1. Agreement!Cancel
        BY <1>3, <2>1 DEF Release, FoundCause, Agreement!Cancel, supplierVars
      <3>2. QED
        BY <3>1 DEF Agreement!Next
    <2>2. CASE ~(t \in canceling /\ status = "processing")
      BY <1>3, <2>2 DEF Release, Typed, TypeOK, Agreement!vars, supplierVars
    <2>3. QED
      BY <2>1, <2>2
  <1>4. ASSUME NEW s \in Suppliers, AcceptWrite(s)
       PROVE  Agreement!Next
    <2>1. Agreement!Accept(s)
      BY <1>4 DEF AcceptWrite, Agreement!Accept, orderVars
    <2>2. QED
      BY <2>1 DEF Agreement!Next
  <1>5. ASSUME NEW s \in Suppliers, AcceptConfirm(s)
       PROVE  [Agreement!Next]_(Agreement!vars)
    <2>1. CASE ~confirmed
      <3>1. Agreement!Confirm
        BY <1>5, <2>1 DEF AcceptConfirm, ConfirmInv, CountIsRight, Agreement!Confirm,
                          supplierVars
      <3>2. QED
        BY <3>1 DEF Agreement!Next
    <2>2. CASE confirmed
      <3>1. confirmed' = confirmed
        BY <1>5, <2>2 DEF AcceptConfirm, Typed, TypeOK
      <3>2. QED
        BY <1>5, <3>1 DEF AcceptConfirm, Agreement!vars, supplierVars
    <2>3. QED
      BY <2>1, <2>2
  <1>6. ASSUME NEW s \in Suppliers, WithdrawWrite(s)
       PROVE  Agreement!Next
    <2>1. Agreement!Withdraw(s)
      BY <1>6 DEF WithdrawWrite, WithdrawKnown, Agreement!Withdraw
    <2>2. QED
      BY <2>1 DEF Agreement!Next
  <1>7. ASSUME ClientCancelWrite
       PROVE  Agreement!Next
    <2>1. Agreement!ClientCancel
      BY <1>7 DEF ClientCancelWrite, Agreement!ClientCancel, supplierVars
    <2>2. QED
      BY <2>1 DEF Agreement!Next
  <1>8. QED
    BY <1>1, <1>2, <1>3, <1>4, <1>5, <1>6, <1>7, AgreementFrame

\* With crashes, slow nodes and dying handlers, the confirmation of an order
\* is still an agreement between its suppliers.
THEOREM ConfirmationImplementsAgreement == Spec => ImplementsAgreement
  <1>1. Init => ConfirmInv /\ FoundCause /\ WithdrawKnown /\ Agreement!Init
    BY DEF Init, ConfirmInv, ConfirmedByAll, CountIsRight, FoundCause, WithdrawKnown,
           Agreement!Init
  <1>2. QED
    BY <1>1, TypedAlways, ConfirmStep, FoundCauseStep, WithdrawStep, AgreementStep, PTL
    DEF Spec, ImplementsAgreement, Agreement!Spec
=============================================================================
