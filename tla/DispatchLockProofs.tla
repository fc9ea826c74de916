------------------------- MODULE DispatchLockProofs -------------------------
(***************************************************************************)
(* What the soft lock of an order is worth in CourierDispatch.  The lock   *)
(* names a node and not a task, a task keeps it over minutes and never     *)
(* checks it between two offers, couriers who return an order and reapers  *)
(* remove it without asking whose it is.  Proved are the conditions under  *)
(* which it still keeps two tasks from offering one order.                 *)
(***************************************************************************)
EXTENDS CourierDispatchProofs

-----------------------------------------------------------------------------
(* Who is alive.  Without slow nodes only the dead look dead.              *)

\* Tasks run on living nodes, only dead nodes are stale or being reaped, and
\* a reaper has orders in hand only while it releases them.
Living ==
  /\ \A t \in Tasks : pc[t] # "idle" => Home[t] \in alive
  /\ stale \cap alive = {}
  /\ \A n \in Nodes : reaping[n] # "idle" => reapNode[n] \notin alive
  /\ \A n \in Nodes : reapOrders[n] # {} => reaping[n] = "releasing"

\* All nodes live and no reaper runs initially.
LEMMA LivingInit == Init => Living
  BY DEF Init, Living

\* Tasks start on living nodes, and nodes that have died stay dead.
LEMMA LivingStep ==
  ASSUME SlowNodes = {} PROVE Typed /\ Living /\ [Next]_vars => Living'
  <1> SUFFICES ASSUME SlowNodes = {}, Typed, Living, [Next]_vars PROVE Living'
    OBVIOUS
  <1> USE DispatchAssumption
  <1>1. CASE UNCHANGED <<nodeVars, pc>>
    BY <1>1 DEF Living, nodeVars
  <1>2. ASSUME NEW t \in Tasks, TaskStep(t)
       PROVE  Living'
    <2>1. UNCHANGED nodeVars
      BY <1>2 DEF TaskStep, Recheck, FetchCouriers, SkipCourier, Offer, OfferFails, Decide,
                  AutoReject, Assign, AssignFails
    <2>2. \A u \in Tasks : pc'[u] # "idle" => pc[u] # "idle"
      BY <1>2 DEF TaskStep, Recheck, FetchCouriers, SkipCourier, Offer, OfferFails, Decide,
                  AutoReject, Assign, AssignFails, Typed, TypeOK
    <2>3. QED
      BY <2>1, <2>2 DEF Living, nodeVars
  <1>3. ASSUME NEW t \in Tasks, NEW o \in Orders, TakeLock(t, o)
       PROVE  Living'
    BY <1>3 DEF TakeLock, Living, Typed, TypeOK, nodeVars
  <1>4. ASSUME NEW n \in Nodes, Crash(n)
       PROVE  Living'
    BY <1>4 DEF Crash, Living, Typed, TypeOK
  <1>5. ASSUME NEW n \in Nodes, GoStale(n) \/ Heartbeat(n)
       PROVE  Living'
    BY <1>5 DEF GoStale, Heartbeat, Living, taskVars
  <1>6. ASSUME NEW n \in Nodes, NEW m \in Nodes, ReapSelect(n, m)
       PROVE  Living'
    BY <1>6 DEF ReapSelect, Living, Typed, TypeOK, taskVars
  <1>7. ASSUME NEW n \in Nodes, ReapLock(n)
       PROVE  Living'
    BY <1>7 DEF ReapLock, Living, Typed, TypeOK, taskVars
  <1>8. ASSUME NEW n \in Nodes, NEW o \in Orders, ReapRelease(n, o)
       PROVE  Living'
    BY <1>8 DEF ReapRelease, Living, Typed, TypeOK, taskVars
  <1>9. ASSUME NEW n \in Nodes, ReapReleaseFails(n) \/ ReapFinish(n)
       PROVE  Living'
    BY <1>9 DEF ReapReleaseFails, ReapFinish, Living, Typed, TypeOK, taskVars
  <1>10. ASSUME NEW o \in Orders, OrderStep(o)
       PROVE  UNCHANGED <<nodeVars, pc>>
    BY <1>10 DEF OrderStep, SuppliersConfirm, Expire, ClientCancelCheck, ClientCancelWrite,
                 taskVars
  <1>11. ASSUME NEW c \in Couriers, CourierStep(c)
       PROVE  UNCHANGED <<nodeVars, pc>>
    BY <1>11 DEF CourierStep, AcceptStart, AcceptRefused, AcceptWrite, AcceptCheck, RejectCheck,
                 RejectWrite, ReturnCheck, ReturnWrite, Take, Deliver, taskVars
  <1>12. CASE UNCHANGED vars
    BY <1>12, <1>1 DEF vars, taskVars
  <1>13. QED
    BY <1>1, <1>2, <1>3, <1>4, <1>5, <1>6, <1>7, <1>8, <1>9, <1>10, <1>11, <1>12
    DEF Next, ReapStep

-----------------------------------------------------------------------------
(* Any number of suppliers, any number of slots on a node.                 *)

\* No task offers the order to the courier.
NotAsked(o, c) == \A t \in Tasks : Offering(t) /\ job[t] = o => asking[t] # c

\* Some courier has both accepted and rejected the order, as one who gives it
\* back does, and for good: no task is about to reset his request.
GivenBack(o) == \E c \in Couriers : <<o, c>> \in accepted \cap rejected /\ NotAsked(o, c)

\* Two tasks work on one order only if it has been given back.
Alone ==
  \A t, u \in Tasks : t # u /\ job[t] = job[u] /\ job[t] \in Orders => GivenBack(job[t])

\* Until then a task's order is assigned, or locked for the task's node.
Holds ==
  \A t \in Tasks : job[t] \in Orders =>
    \/ GivenBack(job[t])
    \/ courierId[job[t]] # NoCourier
    \/ job[t] \in locked /\ lockedByNuid[job[t]] = Home[t]

\* Until then whoever has the order, or is giving it back, has accepted it.
BoundAccepted ==
  \A o \in Orders, c \in Couriers : courierId[o] = c \/ returning[c] = o =>
    GivenBack(o) \/ (<<o, c>> \in accepted /\ NotAsked(o, c))

\* Until then whoever is about to get the order has accepted it.
AssigneeAccepted ==
  \A t \in Tasks : pc[t] = "assign" =>
    GivenBack(job[t]) \/ <<job[t], asking[t]>> \in accepted

\* Until then what a reaper has in hand is as it found it.
ReapedUntouched ==
  \A n \in Nodes, o \in Orders : o \in reapOrders[n] =>
    \/ GivenBack(o)
    \/ o \in locked /\ lockedByNuid[o] = reapNode[n] /\ courierId[o] = NoCourier

\* An instance that believes the order locked has not assigned it.
LockedUnassigned == \A t \in memLocked : memCourier[t] = NoCourier

ShareInv == /\ Alone /\ Holds /\ BoundAccepted /\ AssigneeAccepted /\ ReapedUntouched
            /\ LockedUnassigned

\* Nobody works initially.
LEMMA ShareInit == Init => ShareInv
  BY DispatchAssumption
  DEF Init, ShareInv, Alone, Holds, BoundAccepted, AssigneeAccepted, ReapedUntouched,
      LockedUnassigned

\* The steps that change who is asked, has accepted or rejected.
LEMMA AnswersFrame ==
  [Next]_vars =>
    \/ UNCHANGED <<pc, job, asking, accepted, rejected>>
    \/ \E t \in Tasks : TaskStep(t) \/ \E o \in Orders : TakeLock(t, o)
    \/ \E c \in Couriers : AcceptWrite(c) \/ RejectWrite(c) \/ ReturnWrite(c)
    \/ \E n \in Nodes : Crash(n)
  <1> HAVE [Next]_vars
  <1>1. ASSUME NEW o \in Orders, OrderStep(o)
       PROVE  UNCHANGED <<pc, job, asking, accepted, rejected>>
    BY <1>1 DEF OrderStep, SuppliersConfirm, Expire, ClientCancelCheck, ClientCancelWrite,
                taskVars, requestVars
  <1>2. ASSUME NEW c \in Couriers,
               AcceptStart(c) \/ AcceptRefused(c) \/ ReturnCheck(c) \/ Take(c) \/ Deliver(c)
       PROVE  UNCHANGED <<pc, job, asking, accepted, rejected>>
    BY <1>2 DEF AcceptStart, AcceptRefused, ReturnCheck, Take, Deliver, taskVars, requestVars
  <1>3. ASSUME NEW c \in Couriers, NEW o \in Orders, AcceptCheck(c, o) \/ RejectCheck(c, o)
       PROVE  UNCHANGED <<pc, job, asking, accepted, rejected>>
    BY <1>3 DEF AcceptCheck, RejectCheck, taskVars, requestVars
  <1>4. ASSUME NEW n \in Nodes, GoStale(n) \/ Heartbeat(n) \/ ReapStep(n)
       PROVE  UNCHANGED <<pc, job, asking, accepted, rejected>>
    BY <1>4 DEF GoStale, Heartbeat, ReapSelect, ReapLock, ReapReleaseFails, ReapFinish,
                ReapRelease, ReapStep, taskVars, requestVars
  <1>5. CASE UNCHANGED vars
    BY <1>5 DEF vars, taskVars, requestVars
  <1>6. QED
    BY <1>1, <1>2, <1>3, <1>4, <1>5 DEF Next, CourierStep

\* An order that has been given back stays so: a courier who has answered is
\* not asked again, so no failing assignment resets his request.
LEMMA GivenBackStays ==
  Typed /\ [Next]_vars => \A o \in Orders : GivenBack(o) => GivenBack(o)'
  <1> SUFFICES ASSUME Typed, [Next]_vars, NEW o \in Orders, NEW c \in Couriers,
                      <<o, c>> \in accepted, <<o, c>> \in rejected, NotAsked(o, c)
               PROVE  <<o, c>> \in accepted' /\ <<o, c>> \in rejected' /\ NotAsked(o, c)'
    BY DEF GivenBack
  <1>1. CASE UNCHANGED <<pc, job, asking, accepted, rejected>>
    BY <1>1 DEF NotAsked, Offering
  <1>2. ASSUME NEW t \in Tasks, NEW p \in Orders, TakeLock(t, p)
       PROVE  <<o, c>> \in accepted' /\ <<o, c>> \in rejected' /\ NotAsked(o, c)'
    BY <1>2 DEF TakeLock, NotAsked, Offering, Typed, TypeOK, requestVars
  <1>3. ASSUME NEW t \in Tasks, Recheck(t)
       PROVE  <<o, c>> \in accepted' /\ <<o, c>> \in rejected' /\ NotAsked(o, c)'
    BY <1>3 DEF Recheck, NotAsked, Offering, Typed, TypeOK, requestVars
  <1>4. ASSUME NEW t \in Tasks, NEW S \in SUBSET Couriers, FetchCouriers(t, S)
       PROVE  <<o, c>> \in accepted' /\ <<o, c>> \in rejected' /\ NotAsked(o, c)'
    BY <1>4 DEF FetchCouriers, NotAsked, Offering, requestVars
  <1>5. ASSUME NEW t \in Tasks, NEW d \in Couriers, SkipCourier(t, d) \/ OfferFails(t, d)
       PROVE  <<o, c>> \in accepted' /\ <<o, c>> \in rejected' /\ NotAsked(o, c)'
    BY <1>5 DEF SkipCourier, OfferFails, NotAsked, Offering, requestVars
  <1>6. ASSUME NEW t \in Tasks, NEW d \in Couriers, Offer(t, d)
       PROVE  <<o, c>> \in accepted' /\ <<o, c>> \in rejected' /\ NotAsked(o, c)'
    BY <1>6 DEF Offer, Answered, NotAsked, Offering, Typed, TypeOK
  <1>7. ASSUME NEW t \in Tasks, Decide(t)
       PROVE  <<o, c>> \in accepted' /\ <<o, c>> \in rejected' /\ NotAsked(o, c)'
    BY <1>7 DEF Decide, NotAsked, Offering, Typed, TypeOK, requestVars
  <1>8. ASSUME NEW t \in Tasks, AutoReject(t) \/ Assign(t)
       PROVE  <<o, c>> \in accepted' /\ <<o, c>> \in rejected' /\ NotAsked(o, c)'
    BY <1>8 DEF AutoReject, Assign, NotAsked, Offering, Typed, TypeOK, requestVars
  <1>9. ASSUME NEW t \in Tasks, AssignFails(t)
       PROVE  <<o, c>> \in accepted' /\ <<o, c>> \in rejected' /\ NotAsked(o, c)'
    BY <1>9 DEF AssignFails, NotAsked, Offering, Typed, TypeOK
  <1>10. ASSUME NEW d \in Couriers, AcceptWrite(d) \/ ReturnWrite(d)
       PROVE  <<o, c>> \in accepted' /\ <<o, c>> \in rejected' /\ NotAsked(o, c)'
    BY <1>10 DEF AcceptWrite, ReturnWrite, NotAsked, Offering, taskVars
  <1>11. ASSUME NEW d \in Couriers, RejectWrite(d)
       PROVE  <<o, c>> \in accepted' /\ <<o, c>> \in rejected' /\ NotAsked(o, c)'
    BY <1>11 DEF RejectWrite, NotAsked, Offering, taskVars
  <1>12. ASSUME NEW n \in Nodes, Crash(n)
       PROVE  <<o, c>> \in accepted' /\ <<o, c>> \in rejected' /\ NotAsked(o, c)'
    BY <1>12, DispatchAssumption DEF Crash, NotAsked, Offering, Typed, TypeOK, requestVars
  <1>13. QED
    BY <1>1, <1>2, <1>3, <1>4, <1>5, <1>6, <1>7, <1>8, <1>9, <1>10, <1>11, <1>12,
       AnswersFrame DEF TaskStep

shareVars == <<pc, job, asking, memLocked, memCourier, accepted, rejected, courierId,
               locked, lockedByNuid, returning, reapNode, reapOrders>>

\* The steps that leave all of this alone.
LEMMA ShareFrame ==
  [Next]_vars =>
    \/ UNCHANGED shareVars
    \/ \E t \in Tasks : TaskStep(t) \/ \E o \in Orders : TakeLock(t, o)
    \/ \E c \in Couriers : AcceptWrite(c) \/ RejectWrite(c) \/ ReturnCheck(c) \/ ReturnWrite(c)
    \/ \E n \in Nodes : Crash(n) \/ ReapStep(n)
  <1> HAVE [Next]_vars
  <1>1. ASSUME NEW o \in Orders, OrderStep(o)
       PROVE  UNCHANGED shareVars
    BY <1>1 DEF OrderStep, SuppliersConfirm, Expire, ClientCancelCheck, ClientCancelWrite,
                shareVars, orderVars, requestVars, taskVars, nodeVars, httpVars
  <1>2. ASSUME NEW c \in Couriers,
               AcceptStart(c) \/ AcceptRefused(c) \/ Take(c) \/ Deliver(c)
       PROVE  UNCHANGED shareVars
    BY <1>2 DEF AcceptStart, AcceptRefused, Take, Deliver, shareVars, orderVars,
                requestVars, taskVars, nodeVars, httpVars
  <1>3. ASSUME NEW c \in Couriers, NEW o \in Orders, AcceptCheck(c, o) \/ RejectCheck(c, o)
       PROVE  UNCHANGED shareVars
    BY <1>3 DEF AcceptCheck, RejectCheck, shareVars, orderVars, requestVars, taskVars, nodeVars
  <1>4. ASSUME NEW n \in Nodes, GoStale(n) \/ Heartbeat(n)
       PROVE  UNCHANGED shareVars
    BY <1>4 DEF GoStale, Heartbeat, shareVars, orderVars, requestVars, taskVars, httpVars
  <1>5. CASE UNCHANGED vars
    BY <1>5 DEF vars, shareVars, orderVars, requestVars, taskVars, nodeVars, httpVars
  <1>6. QED
    BY <1>1, <1>2, <1>3, <1>4, <1>5 DEF Next, CourierStep

\* What a step that neither locks, unlocks, assigns nor asks may do to
\* ShareInv: the facts it needs are kept.
LEMMA ShareKept ==
  ASSUME Typed, ShareInv,
         \A o \in Orders : GivenBack(o) => GivenBack(o)',
         \A t \in Tasks : job'[t] \in Orders => job'[t] = job[t],
         \A t \in Tasks : pc'[t] = "assign" =>
           \/ pc[t] = "assign" /\ asking'[t] = asking[t] /\ job'[t] = job[t]
           \/ <<job'[t], asking'[t]>> \in accepted,
         \A t \in Tasks, c \in Couriers : Offering(t)' /\ asking'[t] = c /\ job'[t] \in Orders
           => (Offering(t) /\ asking[t] = c) \/ <<job[t], c>> \notin accepted,
         \A t \in memLocked' : memCourier'[t] = NoCourier,
         accepted \subseteq accepted',
         UNCHANGED <<courierId, locked, lockedByNuid>>,
         \A o \in Orders, c \in Couriers : returning'[c] = o => returning[c] = o \/ courierId[o] = c,
         \A n \in Nodes : \A o \in reapOrders'[n] :
           reapNode'[n] = reapNode[n] /\ o \in reapOrders[n]
  PROVE  ShareInv'
  <1>1. Alone'
    BY DEF ShareInv, Alone
  <1>2. Holds'
    BY DEF ShareInv, Holds
  <1>3. BoundAccepted'
    <2> SUFFICES ASSUME NEW o \in Orders, NEW c \in Couriers, courierId'[o] = c \/ returning'[c] = o,
                        ~GivenBack(o)'
                 PROVE  <<o, c>> \in accepted' /\ NotAsked(o, c)'
      BY DEF BoundAccepted
    <2>1. <<o, c>> \in accepted /\ NotAsked(o, c)
      BY DEF ShareInv, BoundAccepted
    <2>2. QED
      BY <2>1 DEF NotAsked, Offering
  <1>4. AssigneeAccepted'
    BY DEF ShareInv, AssigneeAccepted, Typed, Shape, TypeOK
  <1>5. ReapedUntouched'
    BY DEF ShareInv, ReapedUntouched
  <1>6. QED
    BY <1>1, <1>2, <1>3, <1>4, <1>5 DEF ShareInv, LockedUnassigned

\* A task that offers has an order and a courier.
LEMMA OfferingKnown ==
  Typed => \A t \in Tasks : Offering(t) => job[t] \in Orders /\ asking[t] \in Couriers
  <1> SUFFICES ASSUME Typed, NEW t \in Tasks, Offering(t)
               PROVE  job[t] \in Orders /\ asking[t] \in Couriers
    OBVIOUS
  <1>1. job[t] \in Orders \cup {NoOrder}
    BY DEF Typed, TypeOK
  <1>2. job[t] # NoOrder /\ asking[t] \in Couriers
    BY DEF Typed, Shape, Offering
  <1>3. QED
    BY <1>1, <1>2

\* Every step keeps ShareInv.
LEMMA ShareStep ==
  Typed /\ Living /\ OneReaper /\ ShareInv /\ [Next]_vars => ShareInv'
  <1> SUFFICES ASSUME Typed, Living, OneReaper, ShareInv, [Next]_vars PROVE ShareInv'
    OBVIOUS
  <1> USE DispatchAssumption
  <1>0. \A o \in Orders : GivenBack(o) => GivenBack(o)'
    BY GivenBackStays
  <1>m. \A t \in memLocked : memCourier[t] = NoCourier
    BY DEF ShareInv, LockedUnassigned
  <1>1. CASE UNCHANGED shareVars
    BY <1>0, <1>1, <1>m, ShareKept DEF shareVars, Offering
  <1>2. ASSUME NEW t \in Tasks, NEW o \in Orders, TakeLock(t, o)
       PROVE  ShareInv'
    <2>1. /\ courierId[o] = NoCourier /\ o \notin locked
          /\ locked' = locked \cup {o}
          /\ lockedByNuid' = [lockedByNuid EXCEPT ![o] = Home[t]]
          /\ pc' = [pc EXCEPT ![t] = "search"] /\ job' = [job EXCEPT ![t] = o]
          /\ UNCHANGED <<asking, memLocked, memCourier, accepted, rejected, courierId,
                         returning, reapNode, reapOrders>>
      BY <1>2 DEF TakeLock, Dispatchable, requestVars, nodeVars, httpVars
    <2>2. \A u \in Tasks : job[u] = o => GivenBack(o)
      BY <2>1 DEF ShareInv, Holds
    <2>3. Alone'
      BY <1>0, <2>1, <2>2 DEF ShareInv, Alone, Typed, TypeOK
    <2>4. Holds'
      BY <1>0, <2>1, <2>2 DEF ShareInv, Holds, Typed, TypeOK
    <2>5. BoundAccepted'
      <3>1. \A p \in Orders, c \in Couriers : NotAsked(p, c) => NotAsked(p, c)'
        BY <2>1 DEF NotAsked, Offering, Typed, TypeOK
      <3>2. QED
        BY <1>0, <2>1, <3>1 DEF ShareInv, BoundAccepted
    <2>6. AssigneeAccepted'
      BY <1>0, <2>1 DEF ShareInv, AssigneeAccepted, Typed, TypeOK, Shape
    <2>7. ReapedUntouched'
      BY <1>0, <2>1 DEF ShareInv, ReapedUntouched, Typed, TypeOK
    <2>8. QED
      BY <2>1, <2>3, <2>4, <2>5, <2>6, <2>7, <1>m DEF ShareInv, LockedUnassigned
  <1>3. ASSUME NEW t \in Tasks, Recheck(t)
       PROVE  ShareInv'
    <2>1. /\ memCourier' = [memCourier EXCEPT ![t] = NoCourier]
          /\ memLocked' \in {memLocked \cup {t}, memLocked \ {t}}
          /\ \/ UNCHANGED <<pc, job>>
             \/ pc' = [pc EXCEPT ![t] = "idle"] /\ job' = [job EXCEPT ![t] = NoOrder]
      BY <1>3 DEF Recheck
    <2>2. UNCHANGED <<asking, courierId, locked, lockedByNuid, accepted, returning, reapNode,
                      reapOrders>>
      BY <1>3 DEF Recheck, orderVars, requestVars, nodeVars, httpVars
    <2>3. \A u \in Tasks : /\ job'[u] \in Orders => job'[u] = job[u]
                           /\ pc'[u] # "idle" => pc'[u] = pc[u] /\ job'[u] = job[u]
      BY <2>1 DEF Typed, TypeOK
    <2>4. \A u \in memLocked' : memCourier'[u] = NoCourier
      BY <2>1, <1>m DEF Typed, TypeOK
    <2>5. \A u \in Tasks : pc'[u] = "assign" => pc[u] = "assign" /\ job'[u] = job[u]
      BY <2>3
    <2>6. \A u \in Tasks : Offering(u)' => Offering(u)
      BY <2>3 DEF Offering
    <2>7. QED
      BY <1>0, <2>2, <2>3, <2>4, <2>5, <2>6, ShareKept
  <1>4. ASSUME NEW t \in Tasks, NEW S \in SUBSET Couriers, FetchCouriers(t, S)
       PROVE  ShareInv'
    <2>1. UNCHANGED shareVars
      BY <1>4 DEF FetchCouriers, shareVars, orderVars, requestVars, nodeVars, httpVars
    <2>2. QED
      BY <2>1, <1>1
  <1>5. ASSUME NEW t \in Tasks, NEW c \in Couriers, SkipCourier(t, c) \/ OfferFails(t, c)
       PROVE  ShareInv'
    <2>1. UNCHANGED <<pc, job, asking, memLocked, memCourier, accepted, courierId, locked,
                      lockedByNuid, returning, reapNode, reapOrders>>
      BY <1>5 DEF SkipCourier, OfferFails, orderVars, requestVars, nodeVars, httpVars
    <2>2. QED
      BY <1>0, <1>m, <2>1, ShareKept DEF Offering
  <1>6. ASSUME NEW t \in Tasks, NEW c \in Couriers, Offer(t, c)
       PROVE  ShareInv'
    <2>1. /\ <<job[t], c>> \notin accepted
          /\ pc' = [pc EXCEPT ![t] = "wait"] /\ asking' = [asking EXCEPT ![t] = c]
          /\ UNCHANGED <<job, memLocked, memCourier, accepted, courierId, locked,
                         lockedByNuid, returning, reapNode, reapOrders>>
      BY <1>6 DEF Offer, Answered, orderVars, requestVars, nodeVars, httpVars
    <2>2. QED
      BY <1>0, <1>m, <2>1, ShareKept DEF Offering, Typed, TypeOK
  <1>7. ASSUME NEW t \in Tasks, Decide(t)
       PROVE  ShareInv'
    <2>1. /\ pc[t] = "wait"
          /\ UNCHANGED <<job, memLocked, memCourier, accepted, courierId, locked,
                         lockedByNuid, returning, reapNode, reapOrders>>
          /\ \A u \in Tasks \ {t} : pc'[u] = pc[u] /\ asking'[u] = asking[u]
      BY <1>7 DEF Decide, Typed, TypeOK, orderVars, requestVars, nodeVars, httpVars
    <2>2. /\ pc'[t] = "assign" => <<job[t], asking[t]>> \in accepted /\ asking'[t] = asking[t]
          /\ Offering(t)' => asking'[t] = asking[t]
      BY <1>7 DEF Decide, Offering, Typed, TypeOK
    <2>3. QED
      BY <1>0, <1>m, <2>1, <2>2, ShareKept DEF Offering
  <1>8. ASSUME NEW t \in Tasks, AutoReject(t)
       PROVE  ShareInv'
    <2>1. /\ pc' = [pc EXCEPT ![t] = "search"] /\ asking' = [asking EXCEPT ![t] = NoCourier]
          /\ UNCHANGED <<job, memLocked, memCourier, accepted, courierId, locked,
                         lockedByNuid, returning, reapNode, reapOrders>>
      BY <1>8 DEF AutoReject, orderVars, nodeVars, httpVars
    <2>2. QED
      BY <1>0, <1>m, <2>1, ShareKept DEF Offering, Typed, TypeOK
  <1>9. ASSUME NEW t \in Tasks, Assign(t)
       PROVE  ShareInv'
    <2>a. pc[t] = "assign" /\ Home[t] \in alive
      BY <1>9 DEF Assign, Living
    <2>b. PICK a \in Orders, b \in Couriers : a = job[t] /\ b = asking[t]
      BY <2>a, OfferingKnown DEF Offering
    <2>1. b # NoCourier
      OBVIOUS
    <2>2. /\ pc' = [pc EXCEPT ![t] = "search"] /\ asking' = [asking EXCEPT ![t] = NoCourier]
          /\ memLocked' = memLocked \ {t} /\ memCourier' = [memCourier EXCEPT ![t] = b]
          /\ UNCHANGED <<job, accepted, returning, reapNode, reapOrders>>
      BY <1>9, <2>b DEF Assign, requestVars, nodeVars, httpVars
    <2>3. \A p \in Orders \ {a} : /\ courierId'[p] = courierId[p]
                                  /\ lockedByNuid'[p] = lockedByNuid[p]
                                  /\ p \in locked' <=> p \in locked
      BY <1>9, <2>b DEF Assign, Typed, TypeOK
    <2>4. /\ courierId'[a] \in {b, courierId[a]}
          /\ courierId'[a] = b \/ (locked' = locked /\ lockedByNuid'[a] = lockedByNuid[a])
      <3>1. CASE memCourier[t] = b
        <4>1. t \notin memLocked
          BY <3>1, <2>1, <1>m
        <4>2. QED
          BY <1>9, <2>b, <3>1, <4>1 DEF Assign, Typed, TypeOK
      <3>2. CASE memCourier[t] # b
        BY <1>9, <2>b, <3>2 DEF Assign, Typed, TypeOK
      <3>3. QED
        BY <3>1, <3>2
    <2>5. /\ \A u \in Tasks \ {t} : job[u] = a => GivenBack(a)
          /\ GivenBack(a) \/ <<a, b>> \in accepted
      BY <2>a, <2>b DEF ShareInv, Alone, AssigneeAccepted
    <2>6. Alone'
      BY <1>0, <2>2 DEF ShareInv, Alone
    <2>7. Holds'
      BY <1>0, <2>1, <2>2, <2>3, <2>4 DEF ShareInv, Holds
    <2>8. BoundAccepted'
      <3> SUFFICES ASSUME NEW p \in Orders, NEW c \in Couriers,
                          courierId'[p] = c \/ returning'[c] = p, ~GivenBack(p)'
                   PROVE  <<p, c>> \in accepted' /\ NotAsked(p, c)'
        BY DEF BoundAccepted
      <3>1. \A q \in Orders, d \in Couriers : NotAsked(q, d) => NotAsked(q, d)'
        BY <2>2, DispatchAssumption DEF NotAsked, Offering, Typed, TypeOK
      <3>2. CASE p = a /\ c = b
        <4>1. ~GivenBack(a) /\ <<a, b>> \in accepted
          BY <1>0, <2>5, <3>2
        <4>2. \A u \in Tasks \ {t} : job[u] # a
          BY <4>1, <2>5
        <4>3. NotAsked(p, c)'
          BY <4>2, <3>2, <2>2 DEF NotAsked, Offering, Typed, TypeOK
        <4>4. QED
          BY <4>1, <4>3, <3>2, <2>2
      <3>3. CASE ~(p = a /\ c = b)
        <4>1. courierId[p] = c \/ returning[c] = p
          BY <2>2, <2>3, <2>4, <3>3
        <4>2. QED
          BY <1>0, <2>2, <3>1, <4>1 DEF ShareInv, BoundAccepted
      <3>4. QED
        BY <3>2, <3>3
    <2>9. AssigneeAccepted'
      BY <1>0, <2>2 DEF ShareInv, AssigneeAccepted, Typed, TypeOK, Shape
    <2>10. ReapedUntouched'
      <3>1. \A n \in Nodes : a \in reapOrders[n] => GivenBack(a)
        <4> SUFFICES ASSUME NEW n \in Nodes, a \in reapOrders[n], ~GivenBack(a)
                     PROVE  FALSE
          OBVIOUS
        <4>1. lockedByNuid[a] = reapNode[n] /\ courierId[a] = NoCourier
          BY <2>1 DEF ShareInv, ReapedUntouched
        <4>2. lockedByNuid[a] = Home[t]
          BY <4>1, <2>b DEF ShareInv, Holds
        <4>3. QED
          BY <4>1, <4>2, <2>a DEF Living
      <3>2. QED
        BY <1>0, <2>1, <2>2, <2>3, <3>1 DEF ShareInv, ReapedUntouched
    <2>11. LockedUnassigned'
      BY <2>2, <1>m DEF LockedUnassigned, Typed, TypeOK
    <2>12. QED
      BY <2>6, <2>7, <2>8, <2>9, <2>10, <2>11 DEF ShareInv
  <1>10. ASSUME NEW t \in Tasks, AssignFails(t)
       PROVE  ShareInv'
    <2>1. pc[t] = "assign"
      BY <1>10 DEF AssignFails
    <2>b. PICK a \in Orders, b \in Couriers : a = job[t] /\ b = asking[t]
      BY <2>1, OfferingKnown DEF Offering
    <2>2. /\ pc' = [pc EXCEPT ![t] = "search"] /\ asking' = [asking EXCEPT ![t] = NoCourier]
          /\ accepted' = accepted \ {<<a, b>>}
          /\ UNCHANGED <<job, courierId, locked, lockedByNuid, returning, reapNode, reapOrders>>
      BY <1>10, <2>b DEF AssignFails, orderVars, nodeVars, httpVars
    <2>3. \A u \in memLocked' : memCourier'[u] = NoCourier
      BY <1>10, <1>m DEF AssignFails, Typed, TypeOK
    <2>4. \A u \in Tasks \ {t} : job[u] = a => GivenBack(a)
      BY <2>b DEF ShareInv, Alone
    <2>5. Alone' /\ Holds' /\ ReapedUntouched'
      BY <1>0, <2>2 DEF ShareInv, Alone, Holds, ReapedUntouched
    <2>6. BoundAccepted'
      <3> SUFFICES ASSUME NEW p \in Orders, NEW c \in Couriers,
                          courierId'[p] = c \/ returning'[c] = p, ~GivenBack(p)'
                   PROVE  <<p, c>> \in accepted' /\ NotAsked(p, c)'
        BY DEF BoundAccepted
      <3>1. <<p, c>> \in accepted /\ NotAsked(p, c)
        BY <1>0, <2>2 DEF ShareInv, BoundAccepted
      <3>2. ~(p = a /\ c = b)
        BY <3>1, <2>1, <2>b DEF NotAsked, Offering
      <3>3. NotAsked(p, c)'
        BY <3>1, <2>2, DispatchAssumption DEF NotAsked, Offering, Typed, TypeOK
      <3>4. QED
        BY <3>1, <3>2, <3>3, <2>2
    <2>7. AssigneeAccepted'
      <3> SUFFICES ASSUME NEW u \in Tasks, pc'[u] = "assign", NEW p, p = job'[u],
                          ~GivenBack(p)'
                   PROVE  <<p, asking'[u]>> \in accepted'
        BY DEF AssigneeAccepted
      <3>1. u # t /\ pc[u] = "assign" /\ asking'[u] = asking[u] /\ p = job[u]
        BY <2>2 DEF Typed, TypeOK
      <3>2. p \in Orders /\ ~GivenBack(p)
        BY <1>0, <3>1, OfferingKnown DEF Offering
      <3>3. p # a
        BY <3>1, <3>2, <2>4
      <3>4. QED
        BY <3>1, <3>2, <3>3, <2>2 DEF ShareInv, AssigneeAccepted
    <2>8. QED
      BY <2>3, <2>5, <2>6, <2>7 DEF ShareInv, LockedUnassigned
  <1>11. ASSUME NEW c \in Couriers, AcceptWrite(c) \/ ReturnCheck(c) \/ RejectWrite(c)
       PROVE  ShareInv'
    <2>1. /\ UNCHANGED <<pc, job, asking, memLocked, memCourier, courierId, locked,
                         lockedByNuid, reapNode, reapOrders>>
          /\ accepted \subseteq accepted'
      BY <1>11 DEF AcceptWrite, ReturnCheck, RejectWrite, orderVars, requestVars, taskVars, nodeVars
    <2>2. \A o \in Orders, d \in Couriers :
            returning'[d] = o => returning[d] = o \/ courierId[o] = d
      BY <1>11 DEF AcceptWrite, ReturnCheck, RejectWrite, httpVars, Typed, TypeOK
    <2>3. QED
      BY <1>0, <1>m, <2>1, <2>2, ShareKept DEF Offering
  <1>12. ASSUME NEW c \in Couriers, ReturnWrite(c)
       PROVE  ShareInv'
    <2>o. PICK o \in Orders : o = returning[c]
      BY <1>12 DEF ReturnWrite, Typed, TypeOK
    <2>1. /\ returning' = [returning EXCEPT ![c] = NoOrder]
          /\ rejected' = rejected \cup {<<o, c>>}
          /\ courierId' = [courierId EXCEPT ![o] = NoCourier] /\ locked' = locked \ {o}
          /\ UNCHANGED <<pc, job, asking, memLocked, memCourier, accepted, lockedByNuid,
                         reapNode, reapOrders>>
      BY <1>12, <2>o DEF ReturnWrite, taskVars, nodeVars
    <2>2. GivenBack(o)'
      <3>1. CASE GivenBack(o)
        BY <3>1, <1>0
      <3>2. CASE ~GivenBack(o)
        <4>1. <<o, c>> \in accepted /\ NotAsked(o, c)
          BY <2>o, <3>2 DEF ShareInv, BoundAccepted
        <4>2. NotAsked(o, c)'
          BY <4>1, <2>1 DEF NotAsked, Offering
        <4>3. QED
          BY <4>1, <4>2, <2>1 DEF GivenBack
      <3>3. QED
        BY <3>1, <3>2
    <2>3. \A p \in Orders \ {o} : courierId'[p] = courierId[p] /\ (p \in locked' <=> p \in locked)
      BY <2>1 DEF Typed, TypeOK
    <2>4. Alone' /\ Holds' /\ ReapedUntouched'
      BY <1>0, <2>1, <2>2, <2>3 DEF ShareInv, Alone, Holds, ReapedUntouched
    <2>5. BoundAccepted'
      <3>1. \A p \in Orders, d \in Couriers : NotAsked(p, d) => NotAsked(p, d)'
        BY <2>1 DEF NotAsked, Offering
      <3>2. \A d \in Couriers, p \in Orders : returning'[d] = p => returning[d] = p
        BY <2>1 DEF Typed, TypeOK
      <3>3. QED
        BY <1>0, <2>1, <2>2, <2>3, <3>1, <3>2 DEF ShareInv, BoundAccepted
    <2>6. AssigneeAccepted'
      BY <1>0, <2>1 DEF ShareInv, AssigneeAccepted, Typed, TypeOK, Shape
    <2>7. QED
      BY <2>1, <2>4, <2>5, <2>6, <1>m DEF ShareInv, LockedUnassigned
  <1>13. ASSUME NEW n \in Nodes, Crash(n)
       PROVE  ShareInv'
    <2>1. /\ UNCHANGED <<courierId, locked, lockedByNuid, accepted, returning>>
          /\ \A u \in Tasks : /\ job'[u] \in Orders => job'[u] = job[u]
                              /\ pc'[u] # "idle" => /\ pc'[u] = pc[u] /\ job'[u] = job[u]
                                                    /\ asking'[u] = asking[u]
          /\ \A u \in memLocked' : u \in memLocked /\ memCourier'[u] = memCourier[u]
          /\ \A m \in Nodes : \A o \in reapOrders'[m] :
                 reapNode'[m] = reapNode[m] /\ o \in reapOrders[m]
      BY <1>13 DEF Crash, Offering, Typed, TypeOK, orderVars, requestVars, httpVars
    <2>2. \A u \in Tasks : pc'[u] = "assign" =>
            pc[u] = "assign" /\ asking'[u] = asking[u] /\ job'[u] = job[u]
      BY <2>1
    <2>3. \A u \in Tasks : Offering(u)' => Offering(u) /\ asking'[u] = asking[u]
      BY <2>1 DEF Offering
    <2>4. QED
      BY <1>0, <1>m, <2>1, <2>2, <2>3, ShareKept
  <1>14. ASSUME NEW n \in Nodes, ReapReleaseFails(n) \/ ReapFinish(n) \/ \E m \in Nodes : ReapSelect(n, m)
       PROVE  ShareInv'
    <2>1. /\ UNCHANGED <<pc, job, asking, memLocked, memCourier, accepted, courierId, locked,
                         lockedByNuid, returning>>
          /\ \A m \in Nodes : \A o \in reapOrders'[m] :
                 reapNode'[m] = reapNode[m] /\ o \in reapOrders[m]
      BY <1>14 DEF ReapReleaseFails, ReapFinish, ReapSelect, Living, Typed, TypeOK, orderVars,
                   requestVars, taskVars, httpVars
    <2>2. QED
      BY <1>0, <1>m, <2>1, ShareKept DEF Offering
  <1>15. ASSUME NEW n \in Nodes, ReapLock(n)
       PROVE  ShareInv'
    <2>1. /\ UNCHANGED <<pc, job, asking, memLocked, memCourier, accepted, courierId, locked,
                         lockedByNuid, returning, reapNode>>
          /\ \A m \in Nodes : \A o \in reapOrders'[m] :
               \/ o \in reapOrders[m]
               \/ o \in locked /\ lockedByNuid[o] = reapNode[m] /\ courierId[o] = NoCourier
      BY <1>15 DEF ReapLock, Typed, TypeOK, orderVars, requestVars, taskVars, httpVars
    <2>2. Alone' /\ Holds' /\ ReapedUntouched'
      BY <1>0, <2>1 DEF ShareInv, Alone, Holds, ReapedUntouched
    <2>3. BoundAccepted'
      <3>1. \A p \in Orders, d \in Couriers : NotAsked(p, d) => NotAsked(p, d)'
        BY <2>1 DEF NotAsked, Offering
      <3>2. QED
        BY <1>0, <2>1, <3>1 DEF ShareInv, BoundAccepted
    <2>4. AssigneeAccepted'
      BY <1>0, <2>1 DEF ShareInv, AssigneeAccepted, Typed, TypeOK, Shape
    <2>5. QED
      BY <2>1, <2>2, <2>3, <2>4, <1>m DEF ShareInv, LockedUnassigned
  <1>16. ASSUME NEW n \in Nodes, NEW o \in Orders, ReapRelease(n, o)
       PROVE  ShareInv'
    <2>1. /\ o \in reapOrders[n] /\ reaping[n] # "idle" /\ reapNode[n] \notin alive
          /\ locked' = locked \ {o} /\ lockedByNuid' = [lockedByNuid EXCEPT ![o] = NoNode]
          /\ reapOrders' = [reapOrders EXCEPT ![n] = @ \ {o}]
          /\ UNCHANGED <<pc, job, asking, memLocked, memCourier, accepted, courierId,
                         returning, reapNode>>
      BY <1>16 DEF ReapRelease, Living, requestVars, taskVars, httpVars
    <2>2. GivenBack(o) \/ (lockedByNuid[o] = reapNode[n] /\ courierId[o] = NoCourier)
      BY <2>1 DEF ShareInv, ReapedUntouched
    <2>3. \A t \in Tasks : job[t] = o => GivenBack(o)
      <3>1. \A t \in Tasks : job[t] = o => Home[t] \in alive
        BY DEF Typed, TypeOK, Shape, Living
      <3>2. QED
        BY <2>1, <2>2, <3>1 DEF ShareInv, Holds
    <2>4. \A m \in Nodes \ {n} : o \in reapOrders[m] => GivenBack(o)
      <3> SUFFICES ASSUME NEW m \in Nodes \ {n}, o \in reapOrders[m], ~GivenBack(o)
                   PROVE  FALSE
        OBVIOUS
      <3>1. reapNode[m] = reapNode[n]
        BY <2>2 DEF ShareInv, ReapedUntouched
      <3>2. reaping[m] # "idle"
        BY DEF Living
      <3>3. QED
        BY <3>1, <3>2, <2>1 DEF OneReaper
    <2>5. Alone'
      BY <1>0, <2>1 DEF ShareInv, Alone
    <2>6. Holds'
      BY <1>0, <2>1, <2>3 DEF ShareInv, Holds, Typed, TypeOK
    <2>7. ReapedUntouched'
      BY <1>0, <2>1, <2>4 DEF ShareInv, ReapedUntouched, Typed, TypeOK
    <2>8. BoundAccepted'
      <3>1. \A p \in Orders, d \in Couriers : NotAsked(p, d) => NotAsked(p, d)'
        BY <2>1 DEF NotAsked, Offering
      <3>2. QED
        BY <1>0, <2>1, <3>1 DEF ShareInv, BoundAccepted
    <2>9. AssigneeAccepted'
      BY <1>0, <2>1 DEF ShareInv, AssigneeAccepted, Typed, TypeOK, Shape
    <2>10. QED
      BY <2>1, <2>5, <2>6, <2>7, <2>8, <2>9, <1>m DEF ShareInv, LockedUnassigned
  <1>17. QED
    BY <1>1, <1>2, <1>3, <1>4, <1>5, <1>6, <1>7, <1>8, <1>9, <1>10, <1>11, <1>12, <1>13,
       <1>14, <1>15, <1>16, ShareFrame DEF TaskStep, ReapStep

-----------------------------------------------------------------------------
(* The theorem.                                                            *)

\* For any number of suppliers and of slots on a node: as long as living
\* nodes are seen in time and no dead node is reaped twice, two tasks offer
\* one order only after one courier has both accepted and rejected it, as a
\* courier who gives it back does.
THEOREM SharedOrderWasReturned ==
  ASSUME SlowNodes = {}
  PROVE  Spec /\ []OneReaper => []SharedOnlyAfterReturn
  <1>1. Typed /\ Living /\ OneReaper /\ ShareInv /\ [Next]_vars => ShareInv'
    BY ShareStep
  <1>2. Typed /\ Living /\ [Next]_vars => Living'
    BY LivingStep
  <1>3. Typed /\ ShareInv => SharedOnlyAfterReturn
    <2>1. Typed => \A t \in Tasks : Offering(t) => job[t] \in Orders
      BY DispatchAssumption DEF Typed, TypeOK, Shape, Offering
    <2>2. ShareInv => \A t, u \in Tasks : t # u /\ job[t] = job[u] /\ job[t] \in Orders =>
                        \E c \in Couriers : <<job[t], c>> \in accepted \cap rejected
      BY DEF ShareInv, Alone, GivenBack
    <2>3. QED
      BY <2>1, <2>2 DEF SharedOnlyAfterReturn
  <1>4. QED
    BY <1>1, <1>2, <1>3, ShareInit, LivingInit, TypedAlways, PTL DEF Spec
=============================================================================
