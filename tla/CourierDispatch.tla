--------------------------- MODULE CourierDispatch ---------------------------
(***************************************************************************)
(* How a confirmed order gets a courier.  Every master node runs the cron  *)
(* job order.find-courier: a task takes a soft lock on an order (columns   *)
(* isLocked and lockedByNuid), offers the order to one courier after the   *)
(* other and writes the assignment.  Around it run the HTTP handlers by    *)
(* which couriers accept, reject, give back, take and deliver an order and *)
(* clients cancel one, the heartbeat of the nodes, and the job that        *)
(* releases the locks of nodes that have not been seen for a while.        *)
(*                                                                         *)
(* One action is one database statement or transaction together with the  *)
(* local code up to the next await that matters; a handler that reads,     *)
(* awaits and then writes is two actions.  A boolean column is the set of  *)
(* rows in which it is true.                                               *)
(***************************************************************************)
EXTENDS Integers, FiniteSets

CONSTANTS
  Orders, Couriers, Nodes,
  Tasks,          \* slots for concurrent runs of the find-courier task
  Home,           \* the node on which each slot runs
  NoOrder, NoCourier, NoNode,
  Suppliers,      \* suppliers (restaurants) of an order
  FetchLimit,     \* couriers fetched for one supplier (10 in the code)
  Rejecters,      \* bound: couriers who may reject an offer themselves
  MaxCrashes,     \* bound: nodes that may crash
  OrdersExpire,   \* may an order outlive the age limit of the search?
  SlowNodes,      \* nodes that may look dead while they are alive
  TxMayFail       \* may a transaction fail and roll back?

ASSUME DispatchAssumption ==
  /\ Home \in [Tasks -> Nodes]
  /\ NoOrder \notin Orders /\ NoCourier \notin Couriers /\ NoNode \notin Nodes
  /\ Suppliers \in Nat \ {0}
  /\ FetchLimit \in Nat \ {0}
  /\ Rejecters \subseteq Couriers
  /\ MaxCrashes \in Nat /\ SlowNodes \subseteq Nodes
  /\ {OrdersExpire, TxMayFail} \subseteq BOOLEAN

VARIABLES
  \* table Order
  status, confirmed, expired, taken, courierId, locked, lockedByNuid,
  \* table Courier: activeOrderId (with hasActiveOrder), isOrderRequestSent
  activeOrderId, asked,
  \* table CourierOrderRequest: the rows, and those with isAccepted, isRejected
  requested, accepted, rejected,
  \* the find-courier tasks
  pc, job, left, todo, asking, memLocked, memCourier,
  \* the master nodes, their rows in table MasterNode and their reapers
  alive, stale, row, reaping, reapNode, reapOrders,
  \* HTTP handlers between their checks and their writes
  clientCancels, accepting, acceptOrder, rejecting, returning, returnAsked

orderVars   == <<status, confirmed, expired, taken, courierId, locked, lockedByNuid>>
courierVars == <<activeOrderId, asked>>
requestVars == <<requested, accepted, rejected>>
taskVars    == <<pc, job, left, todo, asking, memLocked, memCourier>>
nodeVars    == <<alive, stale, row, reaping, reapNode, reapOrders>>
httpVars    == <<clientCancels, accepting, acceptOrder, rejecting, returning,
                 returnAsked>>
vars == <<orderVars, courierVars, requestVars, taskVars, nodeVars, httpVars>>

Offers == Orders \X Couriers

TypeOK ==
  /\ status \in [Orders -> {"processing", "canceled", "delivered"}]
  /\ confirmed \subseteq Orders /\ expired \subseteq Orders
  /\ taken \subseteq Orders /\ locked \subseteq Orders
  /\ courierId \in [Orders -> Couriers \cup {NoCourier}]
  /\ lockedByNuid \in [Orders -> Nodes \cup {NoNode}]
  /\ activeOrderId \in [Couriers -> Orders \cup {NoOrder}]
  /\ asked \subseteq Couriers
  /\ requested \subseteq Offers /\ accepted \subseteq Offers /\ rejected \subseteq Offers
  /\ pc \in [Tasks -> {"idle", "search", "wait", "assign", "autoReject"}]
  /\ job \in [Tasks -> Orders \cup {NoOrder}]
  /\ left \in [Tasks -> 0..Suppliers]
  /\ todo \in [Tasks -> SUBSET Couriers]
  /\ asking \in [Tasks -> Couriers \cup {NoCourier}]
  /\ memLocked \subseteq Tasks
  /\ memCourier \in [Tasks -> Couriers \cup {NoCourier}]
  /\ alive \subseteq Nodes /\ stale \subseteq Nodes
  /\ row \in [Nodes -> {"free", "locked", "absent"}]
  /\ reaping \in [Nodes -> {"idle", "selected", "releasing"}]
  /\ reapNode \in [Nodes -> Nodes \cup {NoNode}]
  /\ reapOrders \in [Nodes -> SUBSET Orders]
  /\ clientCancels \subseteq Orders
  /\ accepting \in [Couriers -> {"idle", "started", "checked"}]
  /\ acceptOrder \in [Couriers -> Orders \cup {NoOrder}]
  /\ rejecting \in [Couriers -> Orders \cup {NoOrder}]
  /\ returning \in [Couriers -> Orders \cup {NoOrder}]
  /\ returnAsked \subseteq Couriers

Init ==
  /\ status = [o \in Orders |-> "processing"]
  /\ confirmed = {} /\ expired = {} /\ taken = {}
  /\ courierId = [o \in Orders |-> NoCourier]
  /\ locked = {} /\ lockedByNuid = [o \in Orders |-> NoNode]
  /\ activeOrderId = [c \in Couriers |-> NoOrder]
  /\ asked = {}
  /\ requested = {} /\ accepted = {} /\ rejected = {}
  /\ pc = [t \in Tasks |-> "idle"]
  /\ job = [t \in Tasks |-> NoOrder]
  /\ left = [t \in Tasks |-> 0]
  /\ todo = [t \in Tasks |-> {}]
  /\ asking = [t \in Tasks |-> NoCourier]
  /\ memLocked = {}
  /\ memCourier = [t \in Tasks |-> NoCourier]
  /\ alive = Nodes /\ stale = {}
  /\ row = [n \in Nodes |-> "free"]
  /\ reaping = [n \in Nodes |-> "idle"]
  /\ reapNode = [n \in Nodes |-> NoNode]
  /\ reapOrders = [n \in Nodes |-> {}]
  /\ clientCancels = {}
  /\ accepting = [c \in Couriers |-> "idle"]
  /\ acceptOrder = [c \in Couriers |-> NoOrder]
  /\ rejecting = [c \in Couriers |-> NoOrder]
  /\ returning = [c \in Couriers |-> NoOrder]
  /\ returnAsked = {}

-----------------------------------------------------------------------------
(* The life of an order outside the search.                                *)

\* The last restaurant accepts.  Its handler has read the order before, so
\* nothing is rechecked; modelled in detail by SupplierConfirmation.
SuppliersConfirm(o) ==
  /\ o \notin confirmed
  /\ confirmed' = confirmed \cup {o}
  /\ UNCHANGED <<status, expired, taken, courierId, locked, lockedByNuid,
                 courierVars, requestVars, taskVars, nodeVars, httpVars>>

\* createdAt falls behind getDefaultMaxAgeOfOrder.
Expire(o) ==
  /\ OrdersExpire
  /\ o \notin expired
  /\ expired' = expired \cup {o}
  /\ UNCHANGED <<status, confirmed, taken, courierId, locked, lockedByNuid,
                 courierVars, requestVars, taskVars, nodeVars, httpVars>>

\* The client's cancel request passes its checks: not yet confirmed by all.
\* No courier can be set at that point.  The restaurants' cancel handlers and
\* the notify-suppliers task cancel under the same condition with the same
\* effect on these tables.
ClientCancelCheck(o) ==
  /\ o \notin clientCancels
  /\ status[o] = "processing" /\ o \notin confirmed
  /\ clientCancels' = clientCancels \cup {o}
  /\ UNCHANGED <<orderVars, courierVars, requestVars, taskVars, nodeVars,
                 accepting, acceptOrder, rejecting, returning, returnAsked>>

\* ... and writes.  courierId was null when read, so setting it to null
\* changes nothing in memory and is not part of the UPDATE statement.
ClientCancelWrite(o) ==
  /\ o \in clientCancels
  /\ clientCancels' = clientCancels \ {o}
  /\ status' = [status EXCEPT ![o] = "canceled"]
  /\ UNCHANGED <<confirmed, expired, taken, courierId, locked, lockedByNuid,
                 courierVars, requestVars, taskVars, nodeVars,
                 accepting, acceptOrder, rejecting, returning, returnAsked>>

-----------------------------------------------------------------------------
(* The find-courier task.                                                  *)

\* findNextOrder: the conditions every query of the job repeats.
Dispatchable(o) ==
  /\ status[o] = "processing"
  /\ courierId[o] = NoCourier
  /\ o \in confirmed
  /\ o \notin expired

\* ... together with isLocked: true, lockedByNuid: <this node>.
OwnLock(o, n) == Dispatchable(o) /\ o \in locked /\ lockedByNuid[o] = n

FreeCouriers == {c \in Couriers : activeOrderId[c] = NoOrder /\ c \notin asked}

Answered(o, c) == <<o, c>> \in accepted \cup rejected

\* Variant: the select of findNextOrder forgets isLocked: false.
TakeLockShared(t, o) ==
  /\ pc[t] = "idle" /\ Home[t] \in alive
  /\ Dispatchable(o)
  /\ locked' = locked \cup {o}
  /\ lockedByNuid' = [lockedByNuid EXCEPT ![o] = Home[t]]
  /\ pc' = [pc EXCEPT ![t] = "search"]
  /\ job' = [job EXCEPT ![t] = o]
  /\ UNCHANGED <<status, confirmed, expired, taken, courierId, left, todo, asking,
                 memLocked, memCourier, courierVars, requestVars, nodeVars, httpVars>>

\* findNextOrder: select an order nobody has locked and lock it.
TakeLock(t, o) ==
  /\ pc[t] = "idle" /\ Home[t] \in alive
  /\ Dispatchable(o) /\ o \notin locked
  /\ locked' = locked \cup {o}
  /\ lockedByNuid' = [lockedByNuid EXCEPT ![o] = Home[t]]
  /\ pc' = [pc EXCEPT ![t] = "search"]
  /\ job' = [job EXCEPT ![t] = o]
  /\ UNCHANGED <<status, confirmed, expired, taken, courierId, left, todo, asking,
                 memLocked, memCourier, courierVars, requestVars, nodeVars, httpVars>>

\* Variant: one round over the suppliers, then the task gives up.
RecheckOnce(t) ==
  /\ pc[t] = "search" /\ todo[t] = {} /\ left[t] = 0
  /\ IF OwnLock(job[t], Home[t]) /\ t \notin memLocked
     THEN /\ left' = [left EXCEPT ![t] = Suppliers]
          /\ memLocked' = memLocked \cup {t}
          /\ UNCHANGED <<pc, job>>
     ELSE /\ pc' = [pc EXCEPT ![t] = "idle"]
          /\ job' = [job EXCEPT ![t] = NoOrder]
          /\ memLocked' = memLocked \ {t}
          /\ UNCHANGED left
  /\ memCourier' = [memCourier EXCEPT ![t] = NoCourier]
  /\ UNCHANGED <<todo, asking, orderVars, courierVars, requestVars, nodeVars, httpVars>>

\* The task re-reads its order, after locking it and after every round over
\* the suppliers.  It begins a round with a fresh instance of the row, or
\* ends.  Ending leaves the lock as it is.
Recheck(t) ==
  /\ pc[t] = "search" /\ todo[t] = {} /\ left[t] = 0
  /\ IF OwnLock(job[t], Home[t])
     THEN /\ left' = [left EXCEPT ![t] = Suppliers]
          /\ memLocked' = memLocked \cup {t}
          /\ UNCHANGED <<pc, job>>
     ELSE /\ pc' = [pc EXCEPT ![t] = "idle"]
          /\ job' = [job EXCEPT ![t] = NoOrder]
          /\ memLocked' = memLocked \ {t}
          /\ UNCHANGED left
  /\ memCourier' = [memCourier EXCEPT ![t] = NoCourier]
  /\ UNCHANGED <<todo, asking, orderVars, courierVars, requestVars, nodeVars, httpVars>>

\* Variant: the loop over the suppliers runs once too often.
FetchOneMore(t, S) ==
  /\ pc[t] = "search" /\ todo[t] = {} /\ left[t] >= 0
  /\ S \subseteq FreeCouriers
  /\ Cardinality(S) <= FetchLimit
  /\ S = FreeCouriers \/ Cardinality(S) = FetchLimit
  /\ todo' = [todo EXCEPT ![t] = S]
  /\ left' = [left EXCEPT ![t] = @ - 1]
  /\ UNCHANGED <<pc, job, asking, memLocked, memCourier,
                 orderVars, courierVars, requestVars, nodeVars, httpVars>>

\* For the next supplier, fetch at most FetchLimit couriers, in no stated
\* order.  The list is not refreshed while the task works through it.
FetchCouriers(t, S) ==
  /\ pc[t] = "search" /\ todo[t] = {} /\ left[t] > 0
  /\ S \subseteq FreeCouriers
  /\ Cardinality(S) <= FetchLimit
  /\ S = FreeCouriers \/ Cardinality(S) = FetchLimit
  /\ todo' = [todo EXCEPT ![t] = S]
  /\ left' = [left EXCEPT ![t] = @ - 1]
  /\ UNCHANGED <<pc, job, asking, memLocked, memCourier,
                 orderVars, courierVars, requestVars, nodeVars, httpVars>>

\* Variant: `break` where the code has `continue`.
SkipRest(t, c) ==
  /\ pc[t] = "search" /\ c \in todo[t]
  /\ Answered(job[t], c)
  /\ todo' = [todo EXCEPT ![t] = {}]
  /\ UNCHANGED <<pc, job, left, asking, memLocked, memCourier,
                 orderVars, courierVars, requestVars, nodeVars, httpVars>>

\* A courier who has answered this order before is not asked again.
SkipCourier(t, c) ==
  /\ pc[t] = "search" /\ c \in todo[t]
  /\ Answered(job[t], c)
  /\ todo' = [todo EXCEPT ![t] = @ \ {c}]
  /\ UNCHANGED <<pc, job, left, asking, memLocked, memCourier,
                 orderVars, courierVars, requestVars, nodeVars, httpVars>>

\* Find or create the request, mark the courier as asked, push it to him.
Offer(t, c) ==
  /\ pc[t] = "search" /\ c \in todo[t]
  /\ ~Answered(job[t], c)
  /\ requested' = requested \cup {<<job[t], c>>}
  /\ asked' = asked \cup {c}
  /\ pc' = [pc EXCEPT ![t] = "wait"]
  /\ asking' = [asking EXCEPT ![t] = c]
  /\ todo' = [todo EXCEPT ![t] = @ \ {c}]
  /\ UNCHANGED <<job, left, memLocked, memCourier, accepted, rejected, activeOrderId,
                 orderVars, nodeVars, httpVars>>

\* Variant: the courier stays marked when the push fails.
OfferFailsMarked(t, c) ==
  /\ pc[t] = "search" /\ c \in todo[t]
  /\ ~Answered(job[t], c)
  /\ requested' = requested \cup {<<job[t], c>>}
  /\ rejected' = rejected \cup {<<job[t], c>>}
  /\ asked' = asked \cup {c}
  /\ todo' = [todo EXCEPT ![t] = @ \ {c}]
  /\ UNCHANGED <<pc, job, left, asking, memLocked, memCourier, accepted, activeOrderId,
                 orderVars, nodeVars, httpVars>>

\* The push failed: unmark the courier, reject for him, go on.
OfferFails(t, c) ==
  /\ pc[t] = "search" /\ c \in todo[t]
  /\ ~Answered(job[t], c)
  /\ requested' = requested \cup {<<job[t], c>>}
  /\ rejected' = rejected \cup {<<job[t], c>>}
  /\ asked' = asked \ {c}
  /\ todo' = [todo EXCEPT ![t] = @ \ {c}]
  /\ UNCHANGED <<pc, job, left, asking, memLocked, memCourier, accepted, activeOrderId,
                 orderVars, nodeVars, httpVars>>

\* Variant: silence is taken for consent.
DecideOptimistic(t) ==
  LET c == asking[t] IN
  /\ pc[t] = "wait"
  /\ asked' = asked \ {c}
  /\ pc' = [pc EXCEPT ![t] = IF <<job[t], c>> \in rejected THEN "search" ELSE "assign"]
  /\ asking' = [asking EXCEPT ![t] =
                  IF <<job[t], c>> \in rejected THEN NoCourier ELSE c]
  /\ UNCHANGED <<job, left, todo, memLocked, memCourier, activeOrderId,
                 requestVars, orderVars, nodeVars, httpVars>>

\* The wait ends, with an answer or after AWAIT_COURIER_RESPONSE: unmark the
\* courier and read the answer.
Decide(t) ==
  LET c == asking[t] IN
  /\ pc[t] = "wait"
  /\ asked' = asked \ {c}
  /\ pc' = [pc EXCEPT ![t] =
              IF <<job[t], c>> \in rejected THEN "search"
              ELSE IF <<job[t], c>> \in accepted THEN "assign"
              ELSE "autoReject"]
  /\ asking' = [asking EXCEPT ![t] =
                  IF <<job[t], c>> \in rejected THEN NoCourier ELSE c]
  /\ UNCHANGED <<job, left, todo, memLocked, memCourier, activeOrderId,
                 requestVars, orderVars, nodeVars, httpVars>>

\* No answer: the task rejects for the courier, without looking again.
AutoReject(t) ==
  /\ pc[t] = "autoReject"
  /\ rejected' = rejected \cup {<<job[t], asking[t]>>}
  /\ pc' = [pc EXCEPT ![t] = "search"]
  /\ asking' = [asking EXCEPT ![t] = NoCourier]
  /\ UNCHANGED <<job, left, todo, memLocked, memCourier, requested, accepted,
                 courierVars, orderVars, nodeVars, httpVars>>

\* One transaction: assign and unlock the order, occupy the courier.  Only
\* columns that differ from the instance in memory are written: a second
\* assignment by the same task writes the courier and not the lock.  The
\* "double check if client has canceled" compares a column the query never
\* loads, so it never fires.  Then leave the loop over the couriers.
Assign(t) ==
  LET o == job[t]
      c == asking[t]
  IN
  /\ pc[t] = "assign"
  /\ courierId' = [courierId EXCEPT ![o] = IF memCourier[t] = c THEN @ ELSE c]
  /\ locked' = IF t \in memLocked THEN locked \ {o} ELSE locked
  /\ lockedByNuid' = [lockedByNuid EXCEPT ![o] = IF t \in memLocked THEN NoNode ELSE @]
  /\ activeOrderId' = [activeOrderId EXCEPT ![c] = o]
  /\ memLocked' = memLocked \ {t}
  /\ memCourier' = [memCourier EXCEPT ![t] = c]
  /\ todo' = [todo EXCEPT ![t] = {}]
  /\ pc' = [pc EXCEPT ![t] = "search"]
  /\ asking' = [asking EXCEPT ![t] = NoCourier]
  /\ UNCHANGED <<job, left, status, confirmed, expired, taken, asked,
                 requestVars, nodeVars, httpVars>>

\* The transaction fails: the request is reset, outside of it, and the next
\* courier is tried.  If the UPDATE of the order had succeeded, the instance
\* in memory keeps the values that were rolled back.
AssignFails(t) ==
  LET o == job[t]
      c == asking[t]
  IN
  /\ TxMayFail
  /\ pc[t] = "assign"
  /\ accepted' = accepted \ {<<o, c>>}
  /\ rejected' = rejected \ {<<o, c>>}
  /\ \/ memLocked' = memLocked \ {t} /\ memCourier' = [memCourier EXCEPT ![t] = c]
     \/ UNCHANGED <<memLocked, memCourier>>
  /\ pc' = [pc EXCEPT ![t] = "search"]
  /\ asking' = [asking EXCEPT ![t] = NoCourier]
  /\ UNCHANGED <<job, left, todo, requested, courierVars, orderVars, nodeVars, httpVars>>

-----------------------------------------------------------------------------
(* Couriers.  One request of each kind at a time per courier.              *)

\* accept: the courier's row is loaded by the access middleware, before the
\* handler sleeps 1500 ms.
AcceptStart(c) ==
  /\ accepting[c] = "idle"
  /\ activeOrderId[c] = NoOrder
  /\ accepting' = [accepting EXCEPT ![c] = "started"]
  /\ UNCHANGED <<orderVars, courierVars, requestVars, taskVars, nodeVars,
                 clientCancels, acceptOrder, rejecting, returning, returnAsked>>

AcceptCheck(c, o) ==
  /\ accepting[c] = "started"
  /\ <<o, c>> \in requested /\ ~Answered(o, c)
  /\ status[o] = "processing" /\ courierId[o] = NoCourier /\ o \in confirmed
  /\ accepting' = [accepting EXCEPT ![c] = "checked"]
  /\ acceptOrder' = [acceptOrder EXCEPT ![c] = o]
  /\ UNCHANGED <<orderVars, courierVars, requestVars, taskVars, nodeVars,
                 clientCancels, rejecting, returning, returnAsked>>

\* The request of the courier is gone, answered or never was: 404.
AcceptRefused(c) ==
  /\ accepting[c] = "started"
  /\ accepting' = [accepting EXCEPT ![c] = "idle"]
  /\ UNCHANGED <<orderVars, courierVars, requestVars, taskVars, nodeVars,
                 clientCancels, acceptOrder, rejecting, returning, returnAsked>>

AcceptWrite(c) ==
  /\ accepting[c] = "checked"
  /\ accepted' = accepted \cup {<<acceptOrder[c], c>>}
  /\ accepting' = [accepting EXCEPT ![c] = "idle"]
  /\ acceptOrder' = [acceptOrder EXCEPT ![c] = NoOrder]
  /\ UNCHANGED <<orderVars, courierVars, requested, rejected, taskVars, nodeVars,
                 clientCancels, rejecting, returning, returnAsked>>

\* reject: find the unanswered request ...
RejectCheck(c, o) ==
  /\ c \in Rejecters /\ rejecting[c] = NoOrder
  /\ <<o, c>> \in requested /\ ~Answered(o, c)
  /\ rejecting' = [rejecting EXCEPT ![c] = o]
  /\ UNCHANGED <<orderVars, courierVars, requestVars, taskVars, nodeVars,
                 clientCancels, accepting, acceptOrder, returning, returnAsked>>

\* ... and reject it, whatever has been answered since.
RejectWrite(c) ==
  /\ rejecting[c] # NoOrder
  /\ rejected' = rejected \cup {<<rejecting[c], c>>}
  /\ rejecting' = [rejecting EXCEPT ![c] = NoOrder]
  /\ UNCHANGED <<orderVars, courierVars, requested, accepted, taskVars, nodeVars,
                 clientCancels, accepting, acceptOrder, returning, returnAsked>>

\* current/cancel, the courier gives his order back: the checks ...
ReturnCheck(c) ==
  LET o == activeOrderId[c] IN
  /\ returning[c] = NoOrder /\ o # NoOrder
  /\ <<o, c>> \in requested
  /\ status[o] = "processing" /\ courierId[o] = c
  /\ o \notin locked /\ o \notin taken
  /\ returning' = [returning EXCEPT ![c] = o]
  /\ returnAsked' = IF c \in asked THEN returnAsked \cup {c} ELSE returnAsked \ {c}
  /\ UNCHANGED <<orderVars, courierVars, requestVars, taskVars, nodeVars,
                 clientCancels, accepting, acceptOrder, rejecting>>

\* Variant: the order keeps its courier.
ReturnWriteKeepsOrder(c) ==
  LET o == returning[c] IN
  /\ o # NoOrder
  /\ rejected' = rejected \cup {<<o, c>>}
  /\ locked' = locked \ {o}
  /\ activeOrderId' = [activeOrderId EXCEPT ![c] = NoOrder]
  /\ asked' = IF c \in returnAsked THEN asked \ {c} ELSE asked
  /\ returning' = [returning EXCEPT ![c] = NoOrder]
  /\ returnAsked' = returnAsked \ {c}
  /\ UNCHANGED <<status, confirmed, expired, taken, courierId, lockedByNuid, requested,
                 accepted, taskVars, nodeVars, clientCancels, accepting, acceptOrder, rejecting>>

\* ... and one transaction that locks the order, marks the request rejected,
\* frees order and courier, and unlocks the order again.
ReturnWrite(c) ==
  LET o == returning[c] IN
  /\ o # NoOrder
  /\ rejected' = rejected \cup {<<o, c>>}
  /\ courierId' = [courierId EXCEPT ![o] = NoCourier]
  /\ locked' = locked \ {o}
  /\ activeOrderId' = [activeOrderId EXCEPT ![c] = NoOrder]
  /\ asked' = IF c \in returnAsked THEN asked \ {c} ELSE asked
  /\ returning' = [returning EXCEPT ![c] = NoOrder]
  /\ returnAsked' = returnAsked \ {c}
  /\ UNCHANGED <<status, confirmed, expired, taken, lockedByNuid, requested, accepted,
                 taskVars, nodeVars, clientCancels, accepting, acceptOrder, rejecting>>

\* The courier collects the order; from then on he cannot give it back.
Take(c) ==
  LET o == activeOrderId[c] IN
  /\ o # NoOrder /\ o \notin taken
  /\ status[o] = "processing" /\ courierId[o] = c /\ o \in confirmed
  /\ taken' = taken \cup {o}
  /\ UNCHANGED <<status, confirmed, expired, courierId, locked, lockedByNuid,
                 courierVars, requestVars, taskVars, nodeVars, httpVars>>

\* set-as-delivered; client-didnt-get-in-touch asks and writes the same.
Deliver(c) ==
  LET o == activeOrderId[c] IN
  /\ o # NoOrder /\ o \in taken
  /\ status[o] = "processing" /\ courierId[o] = c /\ o \in confirmed
  /\ status' = [status EXCEPT ![o] = "delivered"]
  /\ activeOrderId' = [activeOrderId EXCEPT ![c] = NoOrder]
  /\ asked' = asked \ {c}
  /\ UNCHANGED <<confirmed, expired, taken, courierId, locked, lockedByNuid,
                 requestVars, taskVars, nodeVars, httpVars>>

-----------------------------------------------------------------------------
(* Master nodes.  A node that boots draws a new nuid, so a crashed nuid     *)
(* never comes back.                                                       *)

Crash(n) ==
  LET gone == {t \in Tasks : Home[t] = n} IN
  /\ n \in alive
  /\ Cardinality(Nodes \ alive) < MaxCrashes
  /\ alive' = alive \ {n}
  /\ pc' = [t \in Tasks |-> IF t \in gone THEN "idle" ELSE pc[t]]
  /\ job' = [t \in Tasks |-> IF t \in gone THEN NoOrder ELSE job[t]]
  /\ left' = [t \in Tasks |-> IF t \in gone THEN 0 ELSE left[t]]
  /\ todo' = [t \in Tasks |-> IF t \in gone THEN {} ELSE todo[t]]
  /\ asking' = [t \in Tasks |-> IF t \in gone THEN NoCourier ELSE asking[t]]
  /\ memLocked' = memLocked \ gone
  /\ memCourier' = [t \in Tasks |-> IF t \in gone THEN NoCourier ELSE memCourier[t]]
  /\ reaping' = [reaping EXCEPT ![n] = "idle"]
  /\ reapNode' = [reapNode EXCEPT ![n] = NoNode]
  /\ reapOrders' = [reapOrders EXCEPT ![n] = {}]
  /\ UNCHANGED <<stale, row, orderVars, courierVars, requestVars, httpVars>>

\* lastSeenAt falls behind the age at which a node is taken for dead.
GoStale(n) ==
  /\ n \notin stale
  /\ n \notin alive \/ n \in SlowNodes
  /\ stale' = stale \cup {n}
  /\ UNCHANGED <<alive, row, reaping, reapNode, reapOrders,
                 orderVars, courierVars, requestVars, taskVars, httpVars>>

\* master-nodes.update-current: find the own row or create it.  A row that
\* is locked is not found and cannot be created twice, so nothing happens.
Heartbeat(n) ==
  /\ n \in alive /\ row[n] # "locked"
  /\ n \in stale \/ row[n] = "absent"
  /\ row' = [row EXCEPT ![n] = "free"]
  /\ stale' = stale \ {n}
  /\ UNCHANGED <<alive, reaping, reapNode, reapOrders,
                 orderVars, courierVars, requestVars, taskVars, httpVars>>

\* master-nodes.find-dead-nodes: select a node not seen for long ...
ReapSelect(n, m) ==
  /\ n \in alive /\ reaping[n] = "idle"
  /\ m \in stale /\ row[m] = "free"
  /\ reaping' = [reaping EXCEPT ![n] = "selected"]
  /\ reapNode' = [reapNode EXCEPT ![n] = m]
  /\ UNCHANGED <<alive, stale, row, reapOrders,
                 orderVars, courierVars, requestVars, taskVars, httpVars>>

\* ... lock its row and read the orders it has locked ...
ReapLock(n) ==
  LET m == reapNode[n] IN
  /\ reaping[n] = "selected"
  /\ row' = [row EXCEPT ![m] = IF @ = "absent" THEN @ ELSE "locked"]
  /\ reapOrders' = [reapOrders EXCEPT ![n] =
                      {o \in locked : /\ lockedByNuid[o] = m
                                      /\ status[o] = "processing"
                                      /\ courierId[o] = NoCourier}]
  /\ reaping' = [reaping EXCEPT ![n] = "releasing"]
  /\ UNCHANGED <<alive, stale, reapNode,
                 orderVars, courierVars, requestVars, taskVars, httpVars>>

\* Variant: the owner is erased and the lock stays.
ReapReleaseOwnerOnly(n, o) ==
  /\ o \in reapOrders[n]
  /\ lockedByNuid' = [lockedByNuid EXCEPT ![o] = NoNode]
  /\ reapOrders' = [reapOrders EXCEPT ![n] = @ \ {o}]
  /\ UNCHANGED <<status, confirmed, expired, taken, courierId, locked, alive, stale, row,
                 reaping, reapNode, courierVars, requestVars, taskVars, httpVars>>

\* ... unlock them one by one, whatever has happened to them since ...
ReapRelease(n, o) ==
  /\ o \in reapOrders[n]
  /\ locked' = locked \ {o}
  /\ lockedByNuid' = [lockedByNuid EXCEPT ![o] = NoNode]
  /\ reapOrders' = [reapOrders EXCEPT ![n] = @ \ {o}]
  /\ UNCHANGED <<status, confirmed, expired, taken, courierId, alive, stale, row, reaping,
                 reapNode, courierVars, requestVars, taskVars, httpVars>>

\* ... unless a transaction fails: the handler of the failure rolls back a
\* transaction that is not in its scope, which throws and ends the task.  The
\* row stays locked.
ReapReleaseFails(n) ==
  /\ TxMayFail
  /\ reapOrders[n] # {}
  /\ reaping' = [reaping EXCEPT ![n] = "idle"]
  /\ reapNode' = [reapNode EXCEPT ![n] = NoNode]
  /\ reapOrders' = [reapOrders EXCEPT ![n] = {}]
  /\ UNCHANGED <<alive, stale, row,
                 orderVars, courierVars, requestVars, taskVars, httpVars>>

\* ... and unlock the row and destroy it.  (Sequelize's update resolves to the
\* instance, so no order is counted as not released without an exception.)
ReapFinish(n) ==
  /\ reaping[n] = "releasing" /\ reapOrders[n] = {}
  /\ row' = [row EXCEPT ![reapNode[n]] = "absent"]
  /\ reaping' = [reaping EXCEPT ![n] = "idle"]
  /\ reapNode' = [reapNode EXCEPT ![n] = NoNode]
  /\ UNCHANGED <<alive, stale, reapOrders,
                 orderVars, courierVars, requestVars, taskVars, httpVars>>

-----------------------------------------------------------------------------
OrderStep(o) == SuppliersConfirm(o) \/ Expire(o) \/ ClientCancelCheck(o) \/ ClientCancelWrite(o)

TaskStep(t) ==
  \/ Recheck(t)
  \/ \E S \in SUBSET Couriers : FetchCouriers(t, S)
  \/ \E c \in Couriers : SkipCourier(t, c) \/ Offer(t, c) \/ OfferFails(t, c)
  \/ Decide(t) \/ AutoReject(t) \/ Assign(t) \/ AssignFails(t)

CourierStep(c) ==
  \/ AcceptStart(c) \/ AcceptRefused(c) \/ AcceptWrite(c) \/ RejectWrite(c)
  \/ \E o \in Orders : AcceptCheck(c, o) \/ RejectCheck(c, o)
  \/ ReturnCheck(c) \/ ReturnWrite(c) \/ Take(c) \/ Deliver(c)

ReapStep(n) ==
  \/ \E m \in Nodes : ReapSelect(n, m)
  \/ ReapLock(n) \/ ReapReleaseFails(n) \/ ReapFinish(n)
  \/ \E o \in Orders : ReapRelease(n, o)

Next ==
  \/ \E o \in Orders : OrderStep(o)
  \/ \E t \in Tasks, o \in Orders : TakeLock(t, o)
  \/ \E t \in Tasks : TaskStep(t)
  \/ \E c \in Couriers : CourierStep(c)
  \/ \E n \in Nodes : Crash(n) \/ GoStale(n) \/ Heartbeat(n) \/ ReapStep(n)

Spec == Init /\ [][Next]_vars

\* The cron framework ticks every second on a live node and a task awaits
\* only timers and the database; couriers, clients and crashes owe nothing.
\* Every dead node grows stale with the clock.
Fairness ==
  /\ \A o \in Orders : WF_vars(\E t \in Tasks : TakeLock(t, o))
  /\ \A t \in Tasks : WF_vars(TaskStep(t))
  /\ \A n \in Nodes : /\ WF_vars(n \notin alive /\ GoStale(n))
                      /\ WF_vars(Heartbeat(n))
                      /\ WF_vars(ReapStep(n))

FairSpec == Spec /\ Fairness

-----------------------------------------------------------------------------
(* Properties.                                                             *)

\* While a live node holds the lock of an order that still needs a courier,
\* one of its tasks is working on that order: a task only ends when its
\* order no longer qualifies, so the search is never silently abandoned.
EligibleLockHasWorker ==
  \A o \in Orders : Dispatchable(o) /\ o \in locked /\ lockedByNuid[o] \in alive
    => \E t \in Tasks : job[t] = o /\ Home[t] = lockedByNuid[o]

\* A courier whose order says it is his, but who does not have it as active
\* order (he cannot take, deliver or give it back), got there only by being
\* offered another order as well; no other interleaving strands an order.
StrandedOnlyIfOverbooked ==
  \A o \in Orders, c \in Couriers :
    status[o] = "processing" /\ courierId[o] = c /\ activeOrderId[c] # o
      => \E p \in Orders \ {o} : <<p, c>> \in requested

\* The mark that hides a courier from every search (isOrderRequestSent) is
\* set only while a task waits for him, unless a node has crashed.
AskedHasWaiter ==
  \A c \in asked : alive # Nodes \/ \E t \in Tasks : pc[t] = "wait" /\ asking[t] = c

Offering(t) == pc[t] \in {"wait", "assign", "autoReject"}

\* The comment on allowMultipleTasksAtTheSameTime says "each sub-process own
\* order", and the code does not keep to it: a task never looks at its lock
\* between two offers, and a courier who gives the order back unlocks it for
\* the next task.  What the lock is still worth: two tasks offer one order
\* only after some courier has both accepted and rejected it, as the return
\* of an order does and an answer that crosses another one may do.
SharedOnlyAfterReturn ==
  \A t, u \in Tasks : t # u /\ Offering(t) /\ Offering(u) /\ job[t] = job[u]
    => \E c \in Couriers : <<job[t], c>> \in accepted \cap rejected

\* No two reapers have selected the same dead node before one locks its row.
OneReaper ==
  \A n, m \in Nodes :
    n # m /\ reaping[n] # "idle" /\ reaping[m] # "idle" => reapNode[n] # reapNode[m]

\* An order changes to a courier only if that courier has accepted it.
AssignmentNeedsConsent ==
  [][\A o \in Orders : courierId'[o] \notin {courierId[o], NoCourier}
        => <<o, courierId'[o]>> \in accepted]_vars

\* "double check if client has canceled in wait time": a canceled order
\* gets no courier.
NoCourierForCanceled ==
  [][\A o \in Orders : courierId'[o] \notin {courierId[o], NoCourier}
        => status[o] # "canceled"]_vars

\* The order of a crashed node does not stay locked: a surviving node
\* releases it, unless it stops needing a courier first.
DeadLockReleased ==
  \A o \in Orders :
    Dispatchable(o) /\ o \in locked /\ lockedByNuid[o] \notin alive
      ~> ~Dispatchable(o) \/ o \notin locked

\* "find-next: (courier)": as long as an order needs a courier, every courier
\* who is free is asked in the end.
EveryFreeCourierAsked ==
  \A o \in Orders, c \in Couriers :
    Dispatchable(o) /\ c \in FreeCouriers
      ~> ~Dispatchable(o) \/ c \notin FreeCouriers \/ <<o, c>> \in requested
=============================================================================
