----------------------- MODULE CourierDispatchProofs -----------------------
(***************************************************************************)
(* Theorems about CourierDispatch for every number of orders, couriers,    *)
(* nodes and task slots, any number of crashes, slow nodes and failing     *)
(* transactions.                                                           *)
(***************************************************************************)
EXTENDS CourierDispatch, TLAPS

\* What the program counters say of the local variables.
Shape ==
  /\ \A t \in Tasks : pc[t] = "idle" <=> job[t] = NoOrder
  /\ \A t \in Tasks : Offering(t) =>
       asking[t] \in Couriers /\ <<job[t], asking[t]>> \in requested
  /\ \A c \in Couriers : accepting[c] = "checked" => acceptOrder[c] \in Orders

Typed == TypeOK /\ Shape

\* The initial state is typed, and no task is at work.
LEMMA TypedInit == Init => Typed
  BY DispatchAssumption DEF Init, Typed, TypeOK, Shape, Offering, Offers

\* Every step keeps the types and what the program counters say.
LEMMA TypedStep == Typed /\ [Next]_vars => Typed'
  <1> SUFFICES ASSUME Typed, [Next]_vars PROVE Typed'
    OBVIOUS
  <1> USE DispatchAssumption
  <1>1. ASSUME NEW o \in Orders, SuppliersConfirm(o)
       PROVE  Typed'
    BY <1>1 DEF SuppliersConfirm, Typed, TypeOK, Shape, Offering, Offers, courierVars,
                requestVars, taskVars, nodeVars, httpVars
  <1>2. ASSUME NEW o \in Orders, Expire(o)
       PROVE  Typed'
    BY <1>2 DEF Expire, Typed, TypeOK, Shape, Offering, Offers, courierVars, requestVars,
                taskVars, nodeVars, httpVars
  <1>3. ASSUME NEW o \in Orders, ClientCancelCheck(o)
       PROVE  Typed'
    BY <1>3 DEF ClientCancelCheck, Typed, TypeOK, Shape, Offering, Offers, orderVars,
                courierVars, requestVars, taskVars, nodeVars
  <1>4. ASSUME NEW o \in Orders, ClientCancelWrite(o)
       PROVE  Typed'
    BY <1>4 DEF ClientCancelWrite, Typed, TypeOK, Shape, Offering, Offers, courierVars,
                requestVars, taskVars, nodeVars
  <1>5. ASSUME NEW t \in Tasks, NEW o \in Orders, TakeLock(t, o)
       PROVE  Typed'
    BY <1>5 DEF TakeLock, Typed, TypeOK, Shape, Offering, Offers, courierVars,
                requestVars, nodeVars, httpVars
  <1>6. ASSUME NEW t \in Tasks, Recheck(t)
       PROVE  Typed'
    <2>1. CASE OwnLock(job[t], Home[t])
      BY <1>6, <2>1 DEF Recheck, Typed, TypeOK, Shape, Offering, Offers, orderVars,
                        courierVars, requestVars, nodeVars, httpVars
    <2>2. CASE ~OwnLock(job[t], Home[t])
      <3>1. /\ pc' = [pc EXCEPT ![t] = "idle"] /\ job' = [job EXCEPT ![t] = NoOrder]
            /\ memLocked' = memLocked \ {t} /\ memCourier' = [memCourier EXCEPT ![t] = NoCourier]
            /\ UNCHANGED <<left, todo, asking, orderVars, courierVars, requestVars, nodeVars,
                           httpVars>>
        BY <1>6, <2>2 DEF Recheck
      <3>2. TypeOK'
        BY <3>1 DEF Typed, TypeOK, Offers, orderVars, courierVars, requestVars, nodeVars, httpVars
      <3>3. Shape'
        BY <3>1 DEF Typed, TypeOK, Shape, Offering, requestVars, httpVars
      <3>4. QED
        BY <3>2, <3>3 DEF Typed
    <2>3. QED
      BY <2>1, <2>2
  <1>7. ASSUME NEW t \in Tasks, NEW S \in SUBSET Couriers, FetchCouriers(t, S)
       PROVE  Typed'
    BY <1>7 DEF FetchCouriers, Typed, TypeOK, Shape, Offering, Offers, orderVars,
                courierVars, requestVars, nodeVars, httpVars
  <1>8. ASSUME NEW t \in Tasks, NEW c \in Couriers, SkipCourier(t, c)
       PROVE  Typed'
    BY <1>8 DEF SkipCourier, Typed, TypeOK, Shape, Offering, Offers, orderVars,
                courierVars, requestVars, nodeVars, httpVars
  <1>9. ASSUME NEW t \in Tasks, NEW c \in Couriers, Offer(t, c)
       PROVE  Typed'
    BY <1>9 DEF Offer, Typed, TypeOK, Shape, Offering, Offers, orderVars, nodeVars,
                httpVars
  <1>10. ASSUME NEW t \in Tasks, NEW c \in Couriers, OfferFails(t, c)
       PROVE  Typed'
    BY <1>10 DEF OfferFails, Typed, TypeOK, Shape, Offering, Offers, orderVars, nodeVars,
                 httpVars
  <1>11. ASSUME NEW t \in Tasks, Decide(t)
       PROVE  Typed'
    BY <1>11 DEF Decide, Typed, TypeOK, Shape, Offering, Offers, orderVars, requestVars,
                 nodeVars, httpVars
  <1>12. ASSUME NEW t \in Tasks, AutoReject(t)
       PROVE  Typed'
    BY <1>12 DEF AutoReject, Typed, TypeOK, Shape, Offering, Offers, orderVars,
                 courierVars, nodeVars, httpVars
  <1>13. ASSUME NEW t \in Tasks, Assign(t)
       PROVE  Typed'
    BY <1>13 DEF Assign, Typed, TypeOK, Shape, Offering, Offers, requestVars, nodeVars,
                 httpVars
  <1>14. ASSUME NEW t \in Tasks, AssignFails(t)
       PROVE  Typed'
    BY <1>14 DEF AssignFails, Typed, TypeOK, Shape, Offering, Offers, orderVars,
                 courierVars, nodeVars, httpVars
  <1>15. ASSUME NEW c \in Couriers, AcceptStart(c)
       PROVE  Typed'
    BY <1>15 DEF AcceptStart, Typed, TypeOK, Shape, Offering, Offers, orderVars,
                 courierVars, requestVars, taskVars, nodeVars
  <1>16. ASSUME NEW c \in Couriers, NEW o \in Orders, AcceptCheck(c, o)
       PROVE  Typed'
    BY <1>16 DEF AcceptCheck, Typed, TypeOK, Shape, Offering, Offers, orderVars,
                 courierVars, requestVars, taskVars, nodeVars
  <1>17. ASSUME NEW c \in Couriers, AcceptRefused(c)
       PROVE  Typed'
    BY <1>17 DEF AcceptRefused, Typed, TypeOK, Shape, Offering, Offers, orderVars,
                 courierVars, requestVars, taskVars, nodeVars
  <1>18. ASSUME NEW c \in Couriers, AcceptWrite(c)
       PROVE  Typed'
    BY <1>18 DEF AcceptWrite, Typed, TypeOK, Shape, Offering, Offers, orderVars,
                 courierVars, taskVars, nodeVars
  <1>19. ASSUME NEW c \in Couriers, RejectWrite(c) \/ \E o \in Orders : RejectCheck(c, o)
       PROVE  Typed'
    <2>1. ASSUME NEW o \in Orders, RejectCheck(c, o) PROVE Typed'
      BY <2>1 DEF RejectCheck, Typed, TypeOK, Shape, Offering, Offers, orderVars,
                  courierVars, requestVars, taskVars, nodeVars
    <2>2. CASE RejectWrite(c)
      BY <2>2 DEF RejectWrite, Typed, TypeOK, Shape, Offering, Offers, orderVars,
                  courierVars, taskVars, nodeVars
    <2>3. QED
      BY <1>19, <2>1, <2>2
  <1>20. ASSUME NEW c \in Couriers, ReturnCheck(c)
       PROVE  Typed'
    BY <1>20 DEF ReturnCheck, Typed, TypeOK, Shape, Offering, Offers, orderVars,
                 courierVars, requestVars, taskVars, nodeVars
  <1>21. ASSUME NEW c \in Couriers, ReturnWrite(c)
       PROVE  Typed'
    BY <1>21 DEF ReturnWrite, Typed, TypeOK, Shape, Offering, Offers, taskVars, nodeVars
  <1>22. ASSUME NEW c \in Couriers, Take(c)
       PROVE  Typed'
    BY <1>22 DEF Take, Typed, TypeOK, Shape, Offering, Offers, courierVars, requestVars,
                 taskVars, nodeVars, httpVars
  <1>23. ASSUME NEW c \in Couriers, Deliver(c)
       PROVE  Typed'
    BY <1>23 DEF Deliver, Typed, TypeOK, Shape, Offering, Offers, requestVars, taskVars,
                 nodeVars, httpVars
  <1>24. ASSUME NEW n \in Nodes, Crash(n)
       PROVE  Typed'
    BY <1>24 DEF Crash, Typed, TypeOK, Shape, Offering, Offers, orderVars, courierVars,
                 requestVars, httpVars
  <1>25. ASSUME NEW n \in Nodes, GoStale(n)
       PROVE  Typed'
    BY <1>25 DEF GoStale, Typed, TypeOK, Shape, Offering, Offers, orderVars, courierVars,
                 requestVars, taskVars, httpVars
  <1>26. ASSUME NEW n \in Nodes, Heartbeat(n)
       PROVE  Typed'
    BY <1>26 DEF Heartbeat, Typed, TypeOK, Shape, Offering, Offers, orderVars,
                 courierVars, requestVars, taskVars, httpVars
  <1>27. ASSUME NEW n \in Nodes, NEW m \in Nodes, ReapSelect(n, m)
       PROVE  Typed'
    BY <1>27 DEF ReapSelect, Typed, TypeOK, Shape, Offering, Offers, orderVars,
                 courierVars, requestVars, taskVars, httpVars
  <1>28. ASSUME NEW n \in Nodes, ReapLock(n)
       PROVE  Typed'
    BY <1>28 DEF ReapLock, Typed, TypeOK, Shape, Offering, Offers, orderVars, courierVars,
                 requestVars, taskVars, httpVars
  <1>29. ASSUME NEW n \in Nodes, NEW o \in Orders, ReapRelease(n, o)
       PROVE  Typed'
    BY <1>29 DEF ReapRelease, Typed, TypeOK, Shape, Offering, Offers, courierVars,
                 requestVars, taskVars, httpVars
  <1>30. ASSUME NEW n \in Nodes, ReapReleaseFails(n)
       PROVE  Typed'
    BY <1>30 DEF ReapReleaseFails, Typed, TypeOK, Shape, Offering, Offers, orderVars,
                 courierVars, requestVars, taskVars, httpVars
  <1>31. ASSUME NEW n \in Nodes, ReapFinish(n)
       PROVE  Typed'
    BY <1>31 DEF ReapFinish, Typed, TypeOK, Shape, Offering, Offers, orderVars,
                 courierVars, requestVars, taskVars, httpVars
  <1>32. CASE UNCHANGED vars
    BY <1>32 DEF vars, Typed, TypeOK, Shape, Offering, Offers, orderVars, courierVars,
                 requestVars, taskVars, nodeVars, httpVars
  <1>33. QED
    BY <1>1, <1>2, <1>3, <1>4, <1>5, <1>6, <1>7, <1>8, <1>9, <1>10, <1>11, <1>12, <1>13,
       <1>14, <1>15, <1>16, <1>17, <1>18, <1>19, <1>20, <1>21, <1>22, <1>23, <1>24, <1>25,
       <1>26, <1>27, <1>28, <1>29, <1>30, <1>31, <1>32
    DEF Next, OrderStep, TaskStep, CourierStep, ReapStep

-----------------------------------------------------------------------------
(* Stranded orders.  Whatever ties a courier to an order, the order's row,  *)
(* the courier's row or a give-back still in flight, goes back to a request *)
(* sent to that courier; requests are never deleted.                        *)

TiesRequested ==
  \A o \in Orders, c \in Couriers :
    courierId[o] = c \/ activeOrderId[c] = o \/ returning[c] = o => <<o, c>> \in requested

StrandInv == TiesRequested /\ StrandedOnlyIfOverbooked

\* Nothing is requested or assigned initially.
LEMMA StrandInit == Init => StrandInv
  BY DispatchAssumption DEF Init, StrandInv, TiesRequested, StrandedOnlyIfOverbooked

tieVars == <<status, courierId, activeOrderId, returning, requested>>

\* Few steps touch what ties couriers to orders.
LEMMA TieFrame ==
  [Next]_vars =>
    \/ UNCHANGED tieVars
    \/ \E o \in Orders : ClientCancelWrite(o)
    \/ \E t \in Tasks : Assign(t) \/ \E c \in Couriers : Offer(t, c) \/ OfferFails(t, c)
    \/ \E c \in Couriers : ReturnCheck(c) \/ ReturnWrite(c) \/ Deliver(c)
  <1> HAVE [Next]_vars
  <1>1. ASSUME NEW o \in Orders, SuppliersConfirm(o) \/ Expire(o) \/ ClientCancelCheck(o)
       PROVE  UNCHANGED tieVars
    BY <1>1 DEF SuppliersConfirm, Expire, ClientCancelCheck, tieVars, orderVars,
                courierVars, requestVars, taskVars, nodeVars, httpVars
  <1>2. ASSUME NEW t \in Tasks, NEW o \in Orders, TakeLock(t, o)
       PROVE  UNCHANGED tieVars
    BY <1>2 DEF TakeLock, tieVars, courierVars, requestVars, nodeVars, httpVars
  <1>3. ASSUME NEW t \in Tasks, Recheck(t) \/ Decide(t) \/ AutoReject(t) \/ AssignFails(t)
       PROVE  UNCHANGED tieVars
    BY <1>3 DEF Recheck, Decide, AutoReject, AssignFails, tieVars, orderVars, courierVars,
                requestVars, nodeVars, httpVars
  <1>4. ASSUME NEW t \in Tasks, NEW S \in SUBSET Couriers, FetchCouriers(t, S)
       PROVE  UNCHANGED tieVars
    BY <1>4 DEF FetchCouriers, tieVars, orderVars, courierVars, requestVars, nodeVars,
                httpVars
  <1>5. ASSUME NEW t \in Tasks, NEW c \in Couriers, SkipCourier(t, c)
       PROVE  UNCHANGED tieVars
    BY <1>5 DEF SkipCourier, tieVars, orderVars, courierVars, requestVars, nodeVars,
                httpVars
  <1>6. ASSUME NEW c \in Couriers,
               AcceptStart(c) \/ AcceptRefused(c) \/ AcceptWrite(c) \/ RejectWrite(c) \/ Take(c)
       PROVE  UNCHANGED tieVars
    BY <1>6 DEF AcceptStart, AcceptRefused, AcceptWrite, RejectWrite, Take, tieVars, orderVars,
                courierVars, requestVars, taskVars, nodeVars, httpVars
  <1>7. ASSUME NEW c \in Couriers, NEW o \in Orders, AcceptCheck(c, o) \/ RejectCheck(c, o)
       PROVE  UNCHANGED tieVars
    BY <1>7 DEF AcceptCheck, RejectCheck, tieVars, orderVars, courierVars, requestVars,
                taskVars, nodeVars, httpVars
  <1>8. ASSUME NEW n \in Nodes, Crash(n) \/ GoStale(n) \/ Heartbeat(n) \/ ReapStep(n)
       PROVE  UNCHANGED tieVars
    BY <1>8 DEF Crash, GoStale, Heartbeat, ReapSelect, ReapLock, ReapReleaseFails,
                ReapFinish, ReapRelease, ReapStep, tieVars, orderVars, courierVars,
                requestVars, taskVars, httpVars
  <1>9. CASE UNCHANGED vars
    BY <1>9 DEF vars, tieVars, orderVars, courierVars, requestVars, taskVars, nodeVars,
                httpVars
  <1>10. QED
    BY <1>1, <1>2, <1>3, <1>4, <1>5, <1>6, <1>7, <1>8, <1>9
    DEF Next, OrderStep, TaskStep, CourierStep, ReapStep

\* Every step keeps StrandInv; the assignment and the return are the hard ones.
LEMMA StrandStep == Typed /\ StrandInv /\ [Next]_vars => StrandInv'
  <1> SUFFICES ASSUME Typed, StrandInv, [Next]_vars PROVE StrandInv'
    OBVIOUS
  <1> USE DispatchAssumption
  <1>1. CASE UNCHANGED tieVars
    BY <1>1 DEF tieVars, StrandInv, TiesRequested, StrandedOnlyIfOverbooked
  <1>2. ASSUME NEW o \in Orders, ClientCancelWrite(o)
       PROVE  StrandInv'
    <2>1. \A p \in Orders : status'[p] = "processing" => status[p] = "processing"
      BY <1>2 DEF ClientCancelWrite, Typed, TypeOK
    <2>2. UNCHANGED <<courierId, activeOrderId, returning, requested>>
      BY <1>2 DEF ClientCancelWrite, courierVars, requestVars
    <2>3. QED
      BY <2>1, <2>2 DEF StrandInv, TiesRequested, StrandedOnlyIfOverbooked
  <1>3. ASSUME NEW t \in Tasks, NEW c \in Couriers, Offer(t, c)
       PROVE  StrandInv'
    BY <1>3 DEF Offer, StrandInv, TiesRequested, StrandedOnlyIfOverbooked, Typed, TypeOK,
                orderVars, nodeVars, httpVars
  <1>4. ASSUME NEW t \in Tasks, NEW c \in Couriers, OfferFails(t, c)
       PROVE  StrandInv'
    BY <1>4 DEF OfferFails, StrandInv, TiesRequested, StrandedOnlyIfOverbooked, Typed,
                TypeOK, orderVars, nodeVars, httpVars
  <1>5. ASSUME NEW t \in Tasks, Assign(t)
       PROVE  StrandInv'
    <2> DEFINE a == job[t]
               b == asking[t]
    <2>1. /\ a \in Orders /\ b \in Couriers /\ <<a, b>> \in requested
          /\ UNCHANGED <<status, requested, returning>>
      BY <1>5 DEF Assign, Typed, TypeOK, Shape, Offering, Offers, requestVars, httpVars
    <2>2. /\ courierId' = [courierId EXCEPT ![a] = IF memCourier[t] = b THEN @ ELSE b]
          /\ activeOrderId' = [activeOrderId EXCEPT ![b] = a]
      BY <1>5 DEF Assign
    <2>3. /\ courierId \in [Orders -> Couriers \cup {NoCourier}]
          /\ activeOrderId \in [Couriers -> Orders \cup {NoOrder}]
      BY DEF Typed, TypeOK
    <2> HIDE DEF a, b
    <2>4. TiesRequested'
      BY <2>1, <2>2, <2>3 DEF TiesRequested, StrandInv
    <2>5. StrandedOnlyIfOverbooked'
      <3> SUFFICES ASSUME NEW p \in Orders, NEW d \in Couriers, status[p] = "processing",
                          courierId'[p] = d, activeOrderId'[d] # p
                   PROVE  \E q \in Orders \ {p} : <<q, d>> \in requested
        BY <2>1 DEF StrandedOnlyIfOverbooked
      <3>1. CASE d = b
        BY <3>1, <2>1, <2>2, <2>3
      <3>2. CASE d # b
        <4>1. activeOrderId[d] # p /\ courierId[p] = d
          BY <3>2, <2>1, <2>2, <2>3
        <4>2. QED
          BY <4>1 DEF StrandInv, StrandedOnlyIfOverbooked
      <3>3. QED
        BY <3>1, <3>2
    <2>6. QED
      BY <2>4, <2>5 DEF StrandInv
  <1>6. ASSUME NEW c \in Couriers, ReturnCheck(c)
       PROVE  StrandInv'
    BY <1>6 DEF ReturnCheck, StrandInv, TiesRequested, StrandedOnlyIfOverbooked, Typed,
                TypeOK, orderVars, courierVars, requestVars, taskVars, nodeVars
  <1>7. ASSUME NEW c \in Couriers, ReturnWrite(c)
       PROVE  StrandInv'
    <2> DEFINE a == returning[c]
    <2>1. /\ a \in Orders /\ <<a, c>> \in requested
          /\ UNCHANGED <<status, requested>>
      BY <1>7 DEF ReturnWrite, Typed, TypeOK, StrandInv, TiesRequested
    <2>2. /\ courierId' = [courierId EXCEPT ![a] = NoCourier]
          /\ activeOrderId' = [activeOrderId EXCEPT ![c] = NoOrder]
          /\ returning' = [returning EXCEPT ![c] = NoOrder]
      BY <1>7 DEF ReturnWrite
    <2>3. /\ courierId \in [Orders -> Couriers \cup {NoCourier}]
          /\ activeOrderId \in [Couriers -> Orders \cup {NoOrder}]
          /\ returning \in [Couriers -> Orders \cup {NoOrder}]
      BY DEF Typed, TypeOK
    <2> HIDE DEF a
    <2>4. TiesRequested'
      BY <2>1, <2>2, <2>3 DEF TiesRequested, StrandInv
    <2>5. StrandedOnlyIfOverbooked'
      <3> SUFFICES ASSUME NEW p \in Orders, NEW d \in Couriers, status[p] = "processing",
                          courierId'[p] = d, activeOrderId'[d] # p
                   PROVE  \E q \in Orders \ {p} : <<q, d>> \in requested
        BY <2>1 DEF StrandedOnlyIfOverbooked
      <3>1. p # a /\ courierId[p] = d
        BY <2>1, <2>2, <2>3
      <3>2. CASE d = c
        BY <3>1, <3>2, <2>1
      <3>3. CASE d # c
        <4>1. activeOrderId[d] # p
          BY <3>3, <2>2, <2>3
        <4>2. QED
          BY <4>1, <3>1 DEF StrandInv, StrandedOnlyIfOverbooked
      <3>4. QED
        BY <3>2, <3>3
    <2>6. QED
      BY <2>4, <2>5 DEF StrandInv
  <1>8. ASSUME NEW c \in Couriers, Deliver(c)
       PROVE  StrandInv'
    <2> DEFINE a == activeOrderId[c]
    <2>1. /\ a \in Orders /\ <<a, c>> \in requested
          /\ UNCHANGED <<courierId, requested, returning>>
      BY <1>8 DEF Deliver, Typed, TypeOK, StrandInv, TiesRequested, requestVars, httpVars
    <2>2. /\ status' = [status EXCEPT ![a] = "delivered"]
          /\ activeOrderId' = [activeOrderId EXCEPT ![c] = NoOrder]
      BY <1>8 DEF Deliver
    <2>3. /\ status \in [Orders -> {"processing", "canceled", "delivered"}]
          /\ activeOrderId \in [Couriers -> Orders \cup {NoOrder}]
      BY DEF Typed, TypeOK
    <2> HIDE DEF a
    <2>4. TiesRequested'
      BY <2>1, <2>2, <2>3 DEF TiesRequested, StrandInv
    <2>5. StrandedOnlyIfOverbooked'
      <3> SUFFICES ASSUME NEW p \in Orders, NEW d \in Couriers, status'[p] = "processing",
                          courierId[p] = d, activeOrderId'[d] # p
                   PROVE  \E q \in Orders \ {p} : <<q, d>> \in requested
        BY <2>1 DEF StrandedOnlyIfOverbooked
      <3>1. p # a /\ status[p] = "processing"
        BY <2>1, <2>2, <2>3
      <3>2. CASE d = c
        BY <3>1, <3>2, <2>1
      <3>3. CASE d # c
        <4>1. activeOrderId[d] # p
          BY <3>3, <2>2, <2>3
        <4>2. QED
          BY <4>1, <3>1 DEF StrandInv, StrandedOnlyIfOverbooked
      <3>4. QED
        BY <3>2, <3>3
    <2>6. QED
      BY <2>4, <2>5 DEF StrandInv
  <1>9. QED
    BY <1>1, <1>2, <1>3, <1>4, <1>5, <1>6, <1>7, <1>8, TieFrame

-----------------------------------------------------------------------------
(* Locks.                                                                   *)

\* Nobody locks an order before its suppliers have confirmed it.
LockedConfirmed == locked \subseteq confirmed

LockInv == LockedConfirmed /\ EligibleLockHasWorker

\* Nothing is locked initially.
LEMMA LockInit == Init => LockInv
  BY DEF Init, LockInv, LockedConfirmed, EligibleLockHasWorker

lockVars == <<status, confirmed, expired, courierId, locked, lockedByNuid, job, alive>>

\* The steps that change an order, its lock, or who works on it.
LEMMA LockFrame ==
  [Next]_vars =>
    \/ UNCHANGED lockVars
    \/ \E o \in Orders : SuppliersConfirm(o) \/ Expire(o) \/ ClientCancelWrite(o)
    \/ \E t \in Tasks : Recheck(t) \/ Assign(t) \/ \E o \in Orders : TakeLock(t, o)
    \/ \E c \in Couriers : ReturnWrite(c) \/ Deliver(c)
    \/ \E n \in Nodes : Crash(n) \/ \E o \in Orders : ReapRelease(n, o)
  <1> HAVE [Next]_vars
  <1>1. ASSUME NEW o \in Orders, ClientCancelCheck(o)
       PROVE  UNCHANGED lockVars
    BY <1>1 DEF ClientCancelCheck, lockVars, orderVars, courierVars, requestVars,
                taskVars, nodeVars
  <1>2. ASSUME NEW t \in Tasks, Decide(t) \/ AutoReject(t) \/ AssignFails(t)
       PROVE  UNCHANGED lockVars
    BY <1>2 DEF Decide, AutoReject, AssignFails, lockVars, orderVars, courierVars,
                requestVars, nodeVars, httpVars
  <1>3. ASSUME NEW t \in Tasks, NEW S \in SUBSET Couriers, FetchCouriers(t, S)
       PROVE  UNCHANGED lockVars
    BY <1>3 DEF FetchCouriers, lockVars, orderVars, courierVars, requestVars, nodeVars,
                httpVars
  <1>4. ASSUME NEW t \in Tasks, NEW c \in Couriers,
               SkipCourier(t, c) \/ Offer(t, c) \/ OfferFails(t, c)
       PROVE  UNCHANGED lockVars
    BY <1>4 DEF SkipCourier, Offer, OfferFails, lockVars, orderVars, courierVars,
                requestVars, nodeVars, httpVars
  <1>5. ASSUME NEW c \in Couriers,
               \/ AcceptStart(c) \/ AcceptRefused(c) \/ AcceptWrite(c) \/ RejectWrite(c)
               \/ ReturnCheck(c) \/ Take(c)
       PROVE  UNCHANGED lockVars
    BY <1>5 DEF AcceptStart, AcceptRefused, AcceptWrite, RejectWrite, ReturnCheck, Take,
                lockVars, orderVars, courierVars, requestVars, taskVars, nodeVars, httpVars
  <1>6. ASSUME NEW c \in Couriers, NEW o \in Orders, AcceptCheck(c, o) \/ RejectCheck(c, o)
       PROVE  UNCHANGED lockVars
    BY <1>6 DEF AcceptCheck, RejectCheck, lockVars, orderVars, courierVars, requestVars,
                taskVars, nodeVars, httpVars
  <1>7. ASSUME NEW n \in Nodes,
               GoStale(n) \/ Heartbeat(n) \/ ReapLock(n) \/ ReapReleaseFails(n) \/ ReapFinish(n)
       PROVE  UNCHANGED lockVars
    BY <1>7 DEF GoStale, Heartbeat, ReapLock, ReapReleaseFails, ReapFinish, lockVars,
                orderVars, courierVars, requestVars, taskVars, httpVars
  <1>8. ASSUME NEW n \in Nodes, NEW m \in Nodes, ReapSelect(n, m)
       PROVE  UNCHANGED lockVars
    BY <1>8 DEF ReapSelect, lockVars, orderVars, courierVars, requestVars, taskVars,
                httpVars
  <1>9. CASE UNCHANGED vars
    BY <1>9 DEF vars, lockVars, orderVars, courierVars, requestVars, taskVars, nodeVars,
                httpVars
  <1>10. QED
    BY <1>1, <1>2, <1>3, <1>4, <1>5, <1>6, <1>7, <1>8, <1>9
    DEF Next, OrderStep, TaskStep, CourierStep, ReapStep

\* Every step keeps LockInv: a task that ends has no order left to work for.
LEMMA LockStep == Typed /\ LockInv /\ [Next]_vars => LockInv'
  <1> SUFFICES ASSUME Typed, LockInv, [Next]_vars PROVE LockInv'
    OBVIOUS
  <1> USE DispatchAssumption
  <1>1. CASE UNCHANGED lockVars
    BY <1>1 DEF lockVars, LockInv, LockedConfirmed, EligibleLockHasWorker, Dispatchable
  <1>2. ASSUME NEW o \in Orders, SuppliersConfirm(o)
       PROVE  LockInv'
    BY <1>2 DEF SuppliersConfirm, LockInv, LockedConfirmed, EligibleLockHasWorker,
                Dispatchable, Typed, TypeOK, courierVars, requestVars, taskVars, nodeVars,
                httpVars
  <1>3. ASSUME NEW o \in Orders, Expire(o)
       PROVE  LockInv'
    BY <1>3 DEF Expire, LockInv, LockedConfirmed, EligibleLockHasWorker, Dispatchable,
                Typed, TypeOK, courierVars, requestVars, taskVars, nodeVars, httpVars
  <1>4. ASSUME NEW o \in Orders, ClientCancelWrite(o)
       PROVE  LockInv'
    BY <1>4 DEF ClientCancelWrite, LockInv, LockedConfirmed, EligibleLockHasWorker,
                Dispatchable, Typed, TypeOK, courierVars, requestVars, taskVars, nodeVars
  <1>5. ASSUME NEW t \in Tasks, NEW o \in Orders, TakeLock(t, o)
       PROVE  LockInv'
    BY <1>5 DEF TakeLock, LockInv, LockedConfirmed, EligibleLockHasWorker, Dispatchable,
                Typed, TypeOK, courierVars, requestVars, nodeVars, httpVars, Shape
  <1>6. ASSUME NEW t \in Tasks, Recheck(t)
       PROVE  LockInv'
    BY <1>6 DEF Recheck, LockInv, LockedConfirmed, EligibleLockHasWorker, Dispatchable,
                Typed, TypeOK, orderVars, courierVars, requestVars, nodeVars, httpVars,
                OwnLock, Shape
  <1>7. ASSUME NEW t \in Tasks, Assign(t)
       PROVE  LockInv'
    <2> DEFINE a == job[t]
               b == asking[t]
    <2>1. /\ a \in Orders /\ b \in Couriers
          /\ UNCHANGED <<status, confirmed, expired, job, alive>>
      BY <1>7 DEF Assign, Typed, TypeOK, Shape, Offering, Offers, nodeVars
    <2>2. LockedConfirmed'
      BY <1>7, <2>1 DEF Assign, LockInv, LockedConfirmed
    <2>3. ASSUME NEW p \in Orders, p # a
          PROVE  /\ courierId'[p] = courierId[p] /\ lockedByNuid'[p] = lockedByNuid[p]
                 /\ p \in locked' <=> p \in locked
      BY <1>7, <2>3 DEF Assign, Typed, TypeOK
    <2>4. ASSUME NEW p \in Orders, p = a, Dispatchable(p)', p \in locked'
          PROVE  Dispatchable(p) /\ p \in locked /\ lockedByNuid'[p] = lockedByNuid[p]
      <3>1. courierId'[p] = NoCourier
        BY <2>4 DEF Dispatchable
      <3>2. courierId'[p] = IF memCourier[t] = b THEN courierId[p] ELSE b
        BY <1>7, <2>1, <2>4 DEF Assign, Typed, TypeOK
      <3>3. memCourier[t] = b /\ courierId[p] = NoCourier
        BY <3>1, <3>2, <2>1
      <3>4. t \notin memLocked
        BY <1>7, <2>4 DEF Assign
      <3>5. locked' = locked /\ lockedByNuid'[p] = lockedByNuid[p]
        BY <1>7, <2>1, <3>4 DEF Assign, Typed, TypeOK
      <3>6. QED
        BY <2>1, <2>4, <3>3, <3>5 DEF Dispatchable
    <2> HIDE DEF a, b
    <2>5. EligibleLockHasWorker'
      <3> SUFFICES ASSUME NEW p \in Orders, Dispatchable(p)', p \in locked',
                          lockedByNuid'[p] \in alive
                   PROVE  \E u \in Tasks : job[u] = p /\ Home[u] = lockedByNuid'[p]
        BY <2>1 DEF EligibleLockHasWorker
      <3>1. Dispatchable(p) /\ p \in locked /\ lockedByNuid'[p] = lockedByNuid[p]
        BY <2>1, <2>3, <2>4 DEF Dispatchable
      <3>2. QED
        BY <3>1 DEF LockInv, EligibleLockHasWorker
    <2>6. QED
      BY <2>2, <2>5 DEF LockInv
  <1>8. ASSUME NEW c \in Couriers, ReturnWrite(c)
       PROVE  LockInv'
    BY <1>8 DEF ReturnWrite, LockInv, LockedConfirmed, EligibleLockHasWorker,
                Dispatchable, Typed, TypeOK, taskVars, nodeVars
  <1>9. ASSUME NEW c \in Couriers, Deliver(c)
       PROVE  LockInv'
    BY <1>9 DEF Deliver, LockInv, LockedConfirmed, EligibleLockHasWorker, Dispatchable,
                Typed, TypeOK, requestVars, taskVars, nodeVars, httpVars
  <1>10. ASSUME NEW n \in Nodes, Crash(n)
       PROVE  LockInv'
    BY <1>10 DEF Crash, LockInv, LockedConfirmed, EligibleLockHasWorker, Dispatchable,
                 Typed, TypeOK, orderVars, courierVars, requestVars, httpVars, Shape
  <1>11. ASSUME NEW n \in Nodes, NEW o \in Orders, ReapRelease(n, o)
       PROVE  LockInv'
    BY <1>11 DEF ReapRelease, LockInv, LockedConfirmed, EligibleLockHasWorker,
                 Dispatchable, Typed, TypeOK, courierVars, requestVars, taskVars, httpVars
  <1>12. QED
    BY <1>1, <1>2, <1>3, <1>4, <1>5, <1>6, <1>7, <1>8, <1>9, <1>10, <1>11, LockFrame

-----------------------------------------------------------------------------
(* Consent.                                                                *)

\* A task that assigns works from an acceptance that is still on record.
Consent == \A t \in Tasks : pc[t] = "assign" => <<job[t], asking[t]>> \in accepted

\* What AssignmentNeedsConsent says of a single step.
ConsentStep == \A o \in Orders : courierId'[o] \notin {courierId[o], NoCourier}
                 => <<o, courierId'[o]>> \in accepted

consentVars == <<pc, job, asking, accepted, courierId>>

\* The steps that change who is asked, has accepted or is assigned.
LEMMA ConsentFrame ==
  [Next]_vars =>
    \/ UNCHANGED consentVars
    \/ \E t \in Tasks : Recheck(t) \/ Decide(t) \/ AutoReject(t) \/ Assign(t) \/ AssignFails(t)
    \/ \E t \in Tasks, o \in Orders : TakeLock(t, o)
    \/ \E t \in Tasks, c \in Couriers : Offer(t, c)
    \/ \E c \in Couriers : AcceptWrite(c) \/ ReturnWrite(c)
    \/ \E n \in Nodes : Crash(n)
  <1> HAVE [Next]_vars
  <1>1. ASSUME NEW o \in Orders, OrderStep(o)
       PROVE  UNCHANGED consentVars
    BY <1>1 DEF SuppliersConfirm, Expire, ClientCancelCheck, ClientCancelWrite, OrderStep,
                consentVars, orderVars, courierVars, requestVars, taskVars, nodeVars,
                httpVars
  <1>2. ASSUME NEW t \in Tasks, NEW S \in SUBSET Couriers, FetchCouriers(t, S)
       PROVE  UNCHANGED consentVars
    BY <1>2 DEF FetchCouriers, consentVars, orderVars, courierVars, requestVars, nodeVars,
                httpVars
  <1>3. ASSUME NEW t \in Tasks, NEW c \in Couriers, SkipCourier(t, c) \/ OfferFails(t, c)
       PROVE  UNCHANGED consentVars
    BY <1>3 DEF SkipCourier, OfferFails, consentVars, orderVars, courierVars, requestVars,
                nodeVars, httpVars
  <1>4. ASSUME NEW c \in Couriers,
               \/ AcceptStart(c) \/ AcceptRefused(c) \/ RejectWrite(c) \/ ReturnCheck(c)
               \/ Take(c) \/ Deliver(c)
       PROVE  UNCHANGED consentVars
    BY <1>4 DEF AcceptStart, AcceptRefused, RejectWrite, ReturnCheck, Take, Deliver, consentVars,
                orderVars, courierVars, requestVars, taskVars, nodeVars, httpVars
  <1>5. ASSUME NEW c \in Couriers, NEW o \in Orders, AcceptCheck(c, o) \/ RejectCheck(c, o)
       PROVE  UNCHANGED consentVars
    BY <1>5 DEF AcceptCheck, RejectCheck, consentVars, orderVars, courierVars, requestVars,
                taskVars, nodeVars, httpVars
  <1>6. ASSUME NEW n \in Nodes, GoStale(n) \/ Heartbeat(n) \/ ReapStep(n)
       PROVE  UNCHANGED consentVars
    BY <1>6 DEF GoStale, Heartbeat, ReapSelect, ReapLock, ReapReleaseFails, ReapFinish,
                ReapRelease, ReapStep, consentVars, orderVars, courierVars, requestVars,
                taskVars, httpVars
  <1>7. CASE UNCHANGED vars
    BY <1>7 DEF vars, consentVars, orderVars, courierVars, requestVars, taskVars,
                nodeVars, httpVars
  <1>8. QED
    BY <1>1, <1>2, <1>3, <1>4, <1>5, <1>6, <1>7
    DEF Next, OrderStep, TaskStep, CourierStep, ReapStep

\* Without failing transactions acceptances are never taken back, so Consent
\* is kept; with it, a step assigns only to a courier who has accepted.
LEMMA ConsentKept ==
  ~TxMayFail /\ Typed /\ Consent /\ [Next]_vars => Consent' /\ [ConsentStep]_vars
  <1> SUFFICES ASSUME ~TxMayFail, Typed, Consent, [Next]_vars
               PROVE  Consent' /\ ConsentStep
    OBVIOUS
  <1> USE DispatchAssumption
  <1>1. CASE UNCHANGED consentVars
    BY <1>1 DEF consentVars, Consent, ConsentStep
  <1>2. ASSUME NEW t \in Tasks, NEW o \in Orders, TakeLock(t, o)
       PROVE  Consent' /\ ConsentStep
    BY <1>2 DEF TakeLock, Consent, ConsentStep, Typed, TypeOK, courierVars, requestVars,
                nodeVars, httpVars
  <1>3. ASSUME NEW t \in Tasks, Recheck(t)
       PROVE  Consent' /\ ConsentStep
    BY <1>3 DEF Recheck, Consent, ConsentStep, Typed, TypeOK, orderVars, courierVars,
                requestVars, nodeVars, httpVars
  <1>4. ASSUME NEW t \in Tasks, NEW c \in Couriers, Offer(t, c)
       PROVE  Consent' /\ ConsentStep
    BY <1>4 DEF Offer, Consent, ConsentStep, Typed, TypeOK, orderVars, nodeVars, httpVars
  <1>5. ASSUME NEW t \in Tasks, Decide(t)
       PROVE  Consent' /\ ConsentStep
    BY <1>5 DEF Decide, Consent, ConsentStep, Typed, TypeOK, orderVars, requestVars,
                nodeVars, httpVars
  <1>6. ASSUME NEW t \in Tasks, AutoReject(t)
       PROVE  Consent' /\ ConsentStep
    BY <1>6 DEF AutoReject, Consent, ConsentStep, Typed, TypeOK, orderVars, courierVars,
                nodeVars, httpVars
  <1>7. ASSUME NEW t \in Tasks, Assign(t)
       PROVE  Consent' /\ ConsentStep
    BY <1>7 DEF Assign, Consent, ConsentStep, Typed, TypeOK, requestVars, nodeVars,
                httpVars
  <1>8. ASSUME NEW t \in Tasks, AssignFails(t)
       PROVE  Consent' /\ ConsentStep
    BY <1>8 DEF AssignFails, Consent, ConsentStep, Typed, TypeOK, orderVars, courierVars,
                nodeVars, httpVars
  <1>9. ASSUME NEW c \in Couriers, AcceptWrite(c)
       PROVE  Consent' /\ ConsentStep
    BY <1>9 DEF AcceptWrite, Consent, ConsentStep, Typed, TypeOK, orderVars, courierVars,
                taskVars, nodeVars
  <1>10. ASSUME NEW c \in Couriers, ReturnWrite(c)
       PROVE  Consent' /\ ConsentStep
    BY <1>10 DEF ReturnWrite, Consent, ConsentStep, Typed, TypeOK, taskVars, nodeVars
  <1>11. ASSUME NEW n \in Nodes, Crash(n)
       PROVE  Consent' /\ ConsentStep
    BY <1>11 DEF Crash, Consent, ConsentStep, Typed, TypeOK, orderVars, courierVars,
                 requestVars, httpVars
  <1>12. QED
    BY <1>1, <1>2, <1>3, <1>4, <1>5, <1>6, <1>7, <1>8, <1>9, <1>10, <1>11, ConsentFrame

-----------------------------------------------------------------------------
(* Marked couriers.  A mark is set by the step that makes a task wait, and   *)
(* the step that ends the waiting removes it.                               *)

\* Whoever waits goes on waiting, and nobody is marked, but for three steps.
LEMMA WaitersStay ==
  Typed /\ [Next]_vars =>
    \/ /\ asked' \subseteq asked /\ alive' = alive
       /\ \A t \in Tasks : pc[t] = "wait" => pc'[t] = "wait" /\ asking'[t] = asking[t]
    \/ \E t \in Tasks : Decide(t) \/ \E c \in Couriers : Offer(t, c)
    \/ \E n \in Nodes : Crash(n)
  <1> DEFINE Stay ==
        /\ asked' \subseteq asked /\ alive' = alive
        /\ \A t \in Tasks : pc[t] = "wait" => pc'[t] = "wait" /\ asking'[t] = asking[t]
  <1> SUFFICES ASSUME Typed, [Next]_vars
               PROVE  \/ Stay
                      \/ \E t \in Tasks : Decide(t) \/ \E c \in Couriers : Offer(t, c)
                      \/ \E n \in Nodes : Crash(n)
    OBVIOUS
  <1>1. ASSUME NEW o \in Orders, OrderStep(o)
       PROVE  Stay
    BY <1>1 DEF SuppliersConfirm, Expire, ClientCancelCheck, ClientCancelWrite, OrderStep,
                orderVars, courierVars, taskVars, nodeVars
  <1>2. ASSUME NEW t \in Tasks, NEW o \in Orders, TakeLock(t, o)
       PROVE  Stay
    BY <1>2 DEF TakeLock, Typed, TypeOK, courierVars, nodeVars
  <1>3. ASSUME NEW t \in Tasks, Recheck(t)
       PROVE  Stay
    BY <1>3 DEF Recheck, Typed, TypeOK, courierVars, nodeVars
  <1>4. ASSUME NEW t \in Tasks, AutoReject(t) \/ Assign(t) \/ AssignFails(t)
       PROVE  Stay
    BY <1>4 DEF AutoReject, Assign, AssignFails, Typed, TypeOK, courierVars, nodeVars
  <1>5. ASSUME NEW t \in Tasks, NEW S \in SUBSET Couriers, FetchCouriers(t, S)
       PROVE  Stay
    BY <1>5 DEF FetchCouriers, courierVars, nodeVars
  <1>6. ASSUME NEW t \in Tasks, NEW c \in Couriers, SkipCourier(t, c) \/ OfferFails(t, c)
       PROVE  Stay
    BY <1>6 DEF SkipCourier, OfferFails, courierVars, nodeVars
  <1>7. ASSUME NEW c \in Couriers, CourierStep(c)
       PROVE  Stay
    BY <1>7 DEF AcceptStart, AcceptRefused, AcceptWrite, AcceptCheck, RejectCheck,
                RejectWrite, ReturnCheck, ReturnWrite, Take, Deliver, CourierStep, courierVars, taskVars, nodeVars
  <1>8. ASSUME NEW n \in Nodes, GoStale(n) \/ Heartbeat(n) \/ ReapStep(n)
       PROVE  Stay
    BY <1>8 DEF GoStale, Heartbeat, ReapSelect, ReapLock, ReapReleaseFails, ReapFinish,
                ReapRelease, ReapStep, courierVars, taskVars
  <1>9. CASE UNCHANGED vars
    BY <1>9 DEF vars, courierVars, taskVars, nodeVars
  <1> HIDE DEF Stay
  <1>10. QED
    BY <1>1, <1>2, <1>3, <1>4, <1>5, <1>6, <1>7, <1>8, <1>9
    DEF Next, TaskStep

\* A marked courier has somebody who waits for him after every step, too.
LEMMA WaiterStep == Typed /\ AskedHasWaiter /\ [Next]_vars => AskedHasWaiter'
  <1> SUFFICES ASSUME Typed, AskedHasWaiter, [Next]_vars PROVE AskedHasWaiter'
    OBVIOUS
  <1>1. CASE /\ asked' \subseteq asked /\ alive' = alive
             /\ \A t \in Tasks : pc[t] = "wait" => pc'[t] = "wait" /\ asking'[t] = asking[t]
    BY <1>1 DEF AskedHasWaiter
  <1>2. ASSUME NEW t \in Tasks, NEW c \in Couriers, Offer(t, c)
       PROVE  AskedHasWaiter'
    BY <1>2 DEF Offer, AskedHasWaiter, Typed, TypeOK, nodeVars
  <1>3. ASSUME NEW t \in Tasks, Decide(t)
       PROVE  AskedHasWaiter'
    <2>1. /\ asked' = asked \ {asking[t]} /\ alive' = alive
          /\ \A u \in Tasks \ {t} : pc'[u] = pc[u] /\ asking'[u] = asking[u]
      BY <1>3 DEF Decide, Typed, TypeOK, nodeVars
    <2>2. QED
      BY <2>1 DEF AskedHasWaiter
  <1>4. ASSUME NEW n \in Nodes, Crash(n)
       PROVE  AskedHasWaiter'
    BY <1>4 DEF Crash, AskedHasWaiter
  <1>5. QED
    BY <1>1, <1>2, <1>3, <1>4, WaitersStay

-----------------------------------------------------------------------------
(* The theorems.                                                            *)

\* Every variable keeps its type: in particular an assignment, a request and
\* a rejection always name an order and a courier.
THEOREM TypeCorrect == Spec => []TypeOK
  <1>1. Typed => TypeOK
    BY DEF Typed
  <1>2. QED
    BY <1>1, TypedInit, TypedStep, PTL DEF Spec

\* The typing facts the following theorems start from.
LEMMA TypedAlways == Spec => []Typed
  BY TypedInit, TypedStep, PTL DEF Spec

\* However tasks, couriers, cancelations, reapers and failing transactions
\* interleave, an order is stranded on a courier who works for another order
\* only if that courier was offered another order too.
THEOREM StrandedSafe == Spec => []StrandedOnlyIfOverbooked
  <1>1. StrandInv => StrandedOnlyIfOverbooked
    BY DEF StrandInv
  <1>2. QED
    BY <1>1, StrandInit, StrandStep, TypedAlways, PTL DEF Spec

\* No search is abandoned: while its node lives, the lock of an order that
\* still needs a courier belongs to a running task.
THEOREM SearchNotAbandoned == Spec => []EligibleLockHasWorker
  <1>1. LockInv => EligibleLockHasWorker
    BY DEF LockInv
  <1>2. QED
    BY <1>1, LockInit, LockStep, TypedAlways, PTL DEF Spec

\* The mark that hides a courier from every search is never left behind while
\* all nodes live: a task waits for the courier, whatever answers, returns and
\* deliveries remove the mark in between.
THEOREM MarkHasWaiter == Spec => []AskedHasWaiter
  <1>1. Init => AskedHasWaiter
    BY DEF Init, AskedHasWaiter
  <1>2. QED
    BY <1>1, WaiterStep, TypedAlways, PTL DEF Spec

\* As long as transactions do not fail, no order is ever given to a courier
\* who has not accepted it, whatever tasks, answers and timeouts race.
THEOREM ConsentRespected ==
  ASSUME ~TxMayFail PROVE Spec => AssignmentNeedsConsent
  <1>1. Init => Consent
    BY DEF Init, Consent
  <1>2. Typed /\ Consent /\ [Next]_vars => Consent' /\ [ConsentStep]_vars
    BY ConsentKept
  <1>3. QED
    BY <1>1, <1>2, TypedAlways, PTL DEF Spec, AssignmentNeedsConsent, ConsentStep
=============================================================================
