------------------------ MODULE SupplierConfirmation ------------------------
(***************************************************************************)
(* How a paid order is confirmed by its suppliers (restaurants).  The cron *)
(* job order.notify-suppliers locks an order, notifies its suppliers,      *)
(* waits for their answers for at most 300 seconds, cancels for those who  *)
(* kept silent, and cancels the order if one supplier has canceled.  Next  *)
(* to it run the handlers by which a supplier accepts or withdraws and the *)
(* client cancels.  Nothing relates two orders, so there is one order.     *)
(*                                                                         *)
(* One action is one database statement or transaction; a handler that     *)
(* reads, awaits and then writes is several actions.                       *)
(***************************************************************************)
EXTENDS Integers, FiniteSets

CONSTANTS
  Suppliers,        \* the rows of table OrderSupplier of the order
  Nodes,            \* master nodes
  Tasks,            \* slots for concurrent runs of the notify-suppliers task
  Home,             \* the node on which each slot runs
  NoNode, NoSupplier,
  MaxCrashes,       \* bound: nodes that may crash
  MaxReapers,       \* bound: reapers that have the order in hand at a time
  SlowNodes,        \* nodes that may look dead while they are alive
  HandlersMayCrash  \* may an accepting handler die half-way?

ASSUME ConfirmationAssumption ==
  /\ Home \in [Tasks -> Nodes]
  /\ NoNode \notin Nodes /\ NoSupplier \notin Suppliers
  /\ Suppliers # {} /\ IsFiniteSet(Suppliers)
  /\ MaxCrashes \in Nat /\ MaxReapers \in Nat \ {0} /\ SlowNodes \subseteq Nodes
  /\ HandlersMayCrash \in BOOLEAN

VARIABLES
  \* table Order: allSuppliersHaveConfirmed, isCanceledByClient, and the node
  \* that has locked the order (isLocked with lockedByNuid)
  status, confirmed, canceledByClient, lockedBy,
  \* table OrderSupplier: isRestaurantNotified, isAcceptedByRestaurant, ...
  notified, acceptedBy, canceledBy,
  \* the notify-suppliers tasks, and their notifications under way
  pc, todo, silent, canceling, notifying,
  \* master nodes: who lives, and whose reaper is about to unlock the order
  alive, reapers,
  \* HTTP handlers between their checks and their writes
  accepting, withdrawing, clientChecked

orderVars    == <<status, confirmed, canceledByClient, lockedBy>>
supplierVars == <<notified, acceptedBy, canceledBy>>
taskVars     == <<pc, todo, silent, canceling, notifying>>
httpVars     == <<accepting, withdrawing, clientChecked>>
nodeVars     == <<alive, reapers>>
vars == <<orderVars, supplierVars, taskVars, nodeVars, httpVars>>

TypeOK ==
  /\ status \in {"processing", "canceled"}
  /\ confirmed \in BOOLEAN /\ canceledByClient \in BOOLEAN
  /\ lockedBy \in Nodes \cup {NoNode}
  /\ notified \subseteq Suppliers
  /\ acceptedBy \subseteq Suppliers /\ canceledBy \subseteq Suppliers
  /\ pc \in [Tasks -> {"idle", "wait", "collect", "autoCancel"}]
  /\ todo \in [Tasks -> SUBSET Suppliers]
  /\ silent \in [Tasks -> Suppliers \cup {NoSupplier}]
  /\ canceling \subseteq Tasks
  /\ notifying \subseteq Nodes \X Suppliers
  /\ alive \subseteq Nodes /\ reapers \subseteq alive
  /\ accepting \in [Suppliers -> {"idle", "checked", "written", "counted"}]
  /\ withdrawing \subseteq Suppliers
  /\ clientChecked \in BOOLEAN

\* The client has paid: status is processing.
Init ==
  /\ status = "processing"
  /\ confirmed = FALSE /\ canceledByClient = FALSE
  /\ lockedBy = NoNode
  /\ notified = {} /\ acceptedBy = {} /\ canceledBy = {}
  /\ pc = [t \in Tasks |-> "idle"]
  /\ todo = [t \in Tasks |-> {}]
  /\ silent = [t \in Tasks |-> NoSupplier]
  /\ canceling = {} /\ notifying = {}
  /\ alive = Nodes /\ reapers = {}
  /\ accepting = [s \in Suppliers |-> "idle"]
  /\ withdrawing = {} /\ clientChecked = FALSE

Answered == acceptedBy \cup canceledBy

-----------------------------------------------------------------------------
(* The notify-suppliers task.                                              *)

\* Variant: the query forgets isLocked: false.
TakeLockShared(t) ==
  LET batch == Suppliers \ (notified \cup Answered) IN
  /\ pc[t] = "idle" /\ Home[t] \in alive
  /\ status = "processing" /\ ~confirmed /\ ~canceledByClient
  /\ batch # {}
  /\ lockedBy' = Home[t]
  /\ pc' = [pc EXCEPT ![t] = "wait"]
  /\ todo' = [todo EXCEPT ![t] = batch]
  /\ notifying' = notifying \cup ({Home[t]} \X batch)
  /\ UNCHANGED <<status, confirmed, canceledByClient, supplierVars,
                 silent, canceling, nodeVars, httpVars>>

\* Select the order and its untouched suppliers, lock it, and start one
\* notification for each of them.  The query also wants an order updated in
\* the last 30 minutes: under FairSpec it is taken before it is too old.
TakeLock(t) ==
  LET batch == Suppliers \ (notified \cup Answered) IN
  /\ pc[t] = "idle" /\ Home[t] \in alive
  /\ status = "processing" /\ ~confirmed /\ ~canceledByClient
  /\ lockedBy = NoNode
  /\ batch # {}
  /\ lockedBy' = Home[t]
  /\ pc' = [pc EXCEPT ![t] = "wait"]
  /\ todo' = [todo EXCEPT ![t] = batch]
  /\ notifying' = notifying \cup ({Home[t]} \X batch)
  /\ UNCHANGED <<status, confirmed, canceledByClient, supplierVars,
                 silent, canceling, nodeVars, httpVars>>

\* A notification ends, perhaps long after the task; it records whether the
\* restaurant was reached.  A flag that somebody else has set stays set.
NotifyDone(n, s) ==
  /\ <<n, s>> \in notifying
  /\ notifying' = notifying \ {<<n, s>>}
  /\ notified' \in {notified, notified \cup {s}}
  /\ UNCHANGED <<orderVars, acceptedBy, canceledBy, pc, todo, silent, canceling,
                 nodeVars, httpVars>>

\* Every supplier has answered, or 300 seconds have passed: at any time.
EndWait(t) ==
  /\ pc[t] = "wait"
  /\ pc' = [pc EXCEPT ![t] = "collect"]
  /\ UNCHANGED <<todo, silent, canceling, notifying, orderVars, supplierVars, nodeVars, httpVars>>

\* Re-read one supplier.
Collect(t, s) ==
  /\ pc[t] = "collect" /\ s \in todo[t]
  /\ todo' = [todo EXCEPT ![t] = @ \ {s}]
  /\ canceling' = IF s \in canceledBy \ acceptedBy THEN canceling \cup {t} ELSE canceling
  /\ IF s \in Answered
     THEN UNCHANGED <<pc, silent>>
     ELSE /\ pc' = [pc EXCEPT ![t] = "autoCancel"]
          /\ silent' = [silent EXCEPT ![t] = s]
  /\ UNCHANGED <<notifying, orderVars, supplierVars, nodeVars, httpVars>>

\* Variant: cancels without asking whether there is a silent supplier.
AutoCancelAlways(t) ==
  /\ pc[t] \in {"collect", "autoCancel"}
  /\ canceledBy' = canceledBy \cup {silent[t]}
  /\ canceling' = canceling \cup {t}
  /\ silent' = [silent EXCEPT ![t] = NoSupplier]
  /\ pc' = [pc EXCEPT ![t] = "collect"]
  /\ UNCHANGED <<todo, notifying, orderVars, notified, acceptedBy, nodeVars, httpVars>>

\* Variant: the task counts the supplier as canceled and does not write it.
AutoCancelUnsaved(t) ==
  /\ pc[t] = "autoCancel"
  /\ canceling' = canceling \cup {t}
  /\ silent' = [silent EXCEPT ![t] = NoSupplier]
  /\ pc' = [pc EXCEPT ![t] = "collect"]
  /\ UNCHANGED <<todo, notifying, orderVars, supplierVars, nodeVars, httpVars>>

\* Cancel for a supplier who was silent when read.
AutoCancel(t) ==
  /\ pc[t] = "autoCancel"
  /\ canceledBy' = canceledBy \cup {silent[t]}
  /\ canceling' = canceling \cup {t}
  /\ silent' = [silent EXCEPT ![t] = NoSupplier]
  /\ pc' = [pc EXCEPT ![t] = "collect"]
  /\ UNCHANGED <<todo, notifying, orderVars, notified, acceptedBy, nodeVars, httpVars>>

\* Variant: the UPDATE statement contains the status the task has in memory.
ReleaseWithStatus(t) ==
  /\ pc[t] = "collect" /\ todo[t] = {}
  /\ status' = IF t \in canceling THEN "canceled" ELSE "processing"
  /\ lockedBy' = NoNode
  /\ pc' = [pc EXCEPT ![t] = "idle"]
  /\ canceling' = canceling \ {t}
  /\ UNCHANGED <<confirmed, canceledByClient, todo, silent, notifying,
                 supplierVars, nodeVars, httpVars>>

\* Variant: the lock is not released.
ReleaseKeepsLock(t) ==
  /\ pc[t] = "collect" /\ todo[t] = {}
  /\ pc' = [pc EXCEPT ![t] = "idle"]
  /\ canceling' = canceling \ {t}
  /\ UNCHANGED <<orderVars, todo, silent, notifying, supplierVars, nodeVars, httpVars>>

\* Variant: an order that counts as confirmed is not canceled.
ReleaseUnlessConfirmed(t) ==
  /\ pc[t] = "collect" /\ todo[t] = {}
  /\ status' = IF t \in canceling /\ ~confirmed THEN "canceled" ELSE status
  /\ lockedBy' = NoNode
  /\ pc' = [pc EXCEPT ![t] = "idle"]
  /\ canceling' = canceling \ {t}
  /\ UNCHANGED <<confirmed, canceledByClient, todo, silent, notifying,
                 supplierVars, nodeVars, httpVars>>

\* Unlock the order, whoever holds the lock by now, and cancel it if one
\* supplier has canceled; no UPDATE contains a status that has not changed.
Release(t) ==
  /\ pc[t] = "collect" /\ todo[t] = {}
  /\ status' = IF t \in canceling THEN "canceled" ELSE status
  /\ lockedBy' = NoNode
  /\ pc' = [pc EXCEPT ![t] = "idle"]
  /\ canceling' = canceling \ {t}
  /\ UNCHANGED <<confirmed, canceledByClient, todo, silent, notifying,
                 supplierVars, nodeVars, httpVars>>

-----------------------------------------------------------------------------
(* The restaurants.  One request of each kind at a time per restaurant.    *)

\* What accepting a request asks of the order; it does not look at its status.
\* Refusing one (order-requests/cancel) asks the same and then changes nothing:
\* it has not loaded all columns of the checksum it writes with, which throws,
\* and the transaction is rolled back.
OpenForAnswers == lockedBy # NoNode /\ ~confirmed /\ ~canceledByClient

AcceptCheck(s) ==
  /\ accepting[s] = "idle"
  /\ OpenForAnswers /\ s \notin Answered
  /\ accepting' = [accepting EXCEPT ![s] = "checked"]
  /\ UNCHANGED <<orderVars, supplierVars, taskVars, nodeVars, withdrawing, clientChecked>>

AcceptWrite(s) ==
  /\ accepting[s] = "checked"
  /\ acceptedBy' = acceptedBy \cup {s}
  /\ notified' = notified \cup {s}
  /\ accepting' = [accepting EXCEPT ![s] = "written"]
  /\ UNCHANGED <<orderVars, canceledBy, taskVars, nodeVars, withdrawing, clientChecked>>

\* Variant: counts the answers.
AcceptCountAnswers(s) ==
  /\ accepting[s] = "written"
  /\ accepting' = [accepting EXCEPT ![s] = IF Answered = Suppliers THEN "counted" ELSE "idle"]
  /\ UNCHANGED <<orderVars, supplierVars, taskVars, nodeVars, withdrawing, clientChecked>>

\* Count the suppliers who have accepted: is this the last one?
AcceptCount(s) ==
  /\ accepting[s] = "written"
  /\ accepting' = [accepting EXCEPT ![s] = IF acceptedBy = Suppliers THEN "counted" ELSE "idle"]
  /\ UNCHANGED <<orderVars, supplierVars, taskVars, nodeVars, withdrawing, clientChecked>>

\* Variant: confirms only an order the task still holds.
AcceptConfirmIfLocked(s) ==
  /\ accepting[s] = "counted"
  /\ confirmed' = (lockedBy # NoNode)
  /\ accepting' = [accepting EXCEPT ![s] = "idle"]
  /\ UNCHANGED <<status, canceledByClient, lockedBy, supplierVars, taskVars, nodeVars,
                 withdrawing, clientChecked>>

\* Nothing about the order is looked at again, its status and lock included.
AcceptConfirm(s) ==
  /\ accepting[s] = "counted"
  /\ confirmed' = TRUE
  /\ accepting' = [accepting EXCEPT ![s] = "idle"]
  /\ UNCHANGED <<status, canceledByClient, lockedBy, supplierVars, taskVars, nodeVars,
                 withdrawing, clientChecked>>

\* The process of the handler dies.
AcceptLost(s) ==
  /\ HandlersMayCrash
  /\ accepting[s] # "idle"
  /\ accepting' = [accepting EXCEPT ![s] = "idle"]
  /\ UNCHANGED <<orderVars, supplierVars, taskVars, nodeVars, withdrawing, clientChecked>>

\* orders/cancel: a supplier who has accepted changes his mind, while others
\* have not accepted yet.  This handler looks at the status, not at the lock.
WithdrawCheck(s) ==
  /\ s \notin withdrawing
  /\ status = "processing" /\ ~confirmed /\ ~canceledByClient
  /\ s \in acceptedBy \ canceledBy
  /\ withdrawing' = withdrawing \cup {s}
  /\ UNCHANGED <<orderVars, supplierVars, taskVars, nodeVars, accepting, clientChecked>>

\* Variant: the supplier's earlier acceptance is taken back.
WithdrawTakesBack(s) ==
  /\ s \in withdrawing
  /\ status' = "canceled"
  /\ canceledBy' = canceledBy \cup {s}
  /\ acceptedBy' = acceptedBy \ {s}
  /\ withdrawing' = withdrawing \ {s}
  /\ UNCHANGED <<confirmed, canceledByClient, lockedBy, notified, taskVars,
                 nodeVars, accepting, clientChecked>>

\* The order and the supplier are written in one transaction.
WithdrawWrite(s) ==
  /\ s \in withdrawing
  /\ status' = "canceled"
  /\ canceledBy' = canceledBy \cup {s}
  /\ withdrawing' = withdrawing \ {s}
  /\ UNCHANGED <<confirmed, canceledByClient, lockedBy, notified, acceptedBy, taskVars,
                 nodeVars, accepting, clientChecked>>

-----------------------------------------------------------------------------
(* The client, and what happens around the order.                          *)

ClientCancelCheck ==
  /\ ~clientChecked
  /\ status = "processing" /\ ~canceledByClient /\ ~confirmed
  /\ clientChecked' = TRUE
  /\ UNCHANGED <<orderVars, supplierVars, taskVars, nodeVars, accepting, withdrawing>>

ClientCancelWrite ==
  /\ clientChecked
  /\ status' = "canceled" /\ canceledByClient' = TRUE
  /\ clientChecked' = FALSE
  /\ UNCHANGED <<confirmed, lockedBy, supplierVars, taskVars, nodeVars, accepting, withdrawing>>

\* A master node dies with its tasks and notifications.
Crash(n) ==
  LET gone == {t \in Tasks : Home[t] = n} IN
  /\ n \in alive
  /\ Cardinality(Nodes \ alive) < MaxCrashes
  /\ alive' = alive \ {n}
  /\ pc' = [t \in Tasks |-> IF t \in gone THEN "idle" ELSE pc[t]]
  /\ todo' = [t \in Tasks |-> IF t \in gone THEN {} ELSE todo[t]]
  /\ silent' = [t \in Tasks |-> IF t \in gone THEN NoSupplier ELSE silent[t]]
  /\ canceling' = canceling \ gone
  /\ notifying' = notifying \ ({n} \X Suppliers)
  /\ reapers' = reapers \ {n}
  /\ UNCHANGED <<orderVars, supplierVars, httpVars>>

\* master-nodes.find-dead-nodes: find the order locked by a node not seen for
\* long (see CourierDispatch for how it gets to that node) ...
ReapFind(n) ==
  /\ n \in alive \ reapers /\ Cardinality(reapers) < MaxReapers
  /\ lockedBy \in (Nodes \ alive) \cup SlowNodes
  /\ status = "processing"
  /\ reapers' = reapers \cup {n}
  /\ UNCHANGED <<alive, orderVars, supplierVars, taskVars, httpVars>>

\* ... and unlock it, whatever has happened to it since.
ReapRelease(n) ==
  /\ n \in reapers
  /\ lockedBy' = NoNode
  /\ reapers' = reapers \ {n}
  /\ UNCHANGED <<alive, status, confirmed, canceledByClient, supplierVars, taskVars, httpVars>>

-----------------------------------------------------------------------------
TaskStep(t) ==
  \/ EndWait(t) \/ AutoCancel(t) \/ Release(t)
  \/ \E s \in Suppliers : Collect(t, s)

\* What a handler still has to do once it has started.
FinishHandler(s) == AcceptWrite(s) \/ AcceptCount(s) \/ AcceptConfirm(s) \/ WithdrawWrite(s)

Next ==
  \/ \E t \in Tasks : TakeLock(t) \/ TaskStep(t)
  \/ \E n \in Nodes, s \in Suppliers : NotifyDone(n, s)
  \/ \E s \in Suppliers : \/ AcceptCheck(s) \/ WithdrawCheck(s)
                         \/ FinishHandler(s) \/ AcceptLost(s)
  \/ ClientCancelCheck \/ ClientCancelWrite
  \/ \E n \in Nodes : Crash(n) \/ ReapFind(n) \/ ReapRelease(n)

Spec == Init /\ [][Next]_vars

\* The cron framework ticks on every live node, a task awaits only timers and
\* the database, a handler that has started goes on, and dead nodes are
\* found.  Restaurants and clients need not do anything.
Fairness ==
  /\ WF_vars(\E t \in Tasks : TakeLock(t))
  /\ \A t \in Tasks : WF_vars(TaskStep(t))
  /\ \A s \in Suppliers : WF_vars(FinishHandler(s))
  /\ WF_vars(ClientCancelWrite)
  /\ WF_vars(\E n \in Nodes : lockedBy \notin alive /\ ReapFind(n))
  /\ \A n \in Nodes : WF_vars(ReapRelease(n))

FairSpec == Spec /\ Fairness

-----------------------------------------------------------------------------
(* Properties.                                                             *)

Working == {t \in Tasks : pc[t] # "idle"}

\* No two reapers have found the order locked by a dead node before one of
\* them unlocks it.
OneReaper == \A n, m \in reapers : n = m

\* One task at a time works on the order, and it holds the lock; this needs
\* every node that is alive to be seen in time, and OneReaper.
LockIsExclusive ==
  \A t, u \in Working : lockedBy = Home[t] /\ t = u

\* An order counts as confirmed by all suppliers only when all have accepted.
ConfirmedByAll == confirmed => acceptedBy = Suppliers

\* Suppliers who accept at the same time each write before they count, so one
\* of them sees all: an order accepted by all never waits unconfirmed.
LastAcceptConfirms ==
  acceptedBy = Suppliers /\ ~confirmed
    => \E s \in Suppliers : accepting[s] \in {"written", "counted"}

\* An order is canceled only if the client or a supplier is recorded to have
\* canceled; a canceling task has found such a supplier.
CanceledHasCause ==
  status = "canceled" \/ canceling # {} => canceledByClient \/ canceledBy # {}

\* A task that took its order before the cancellation and releases it
\* afterwards does not bring it back to processing.  (A payment that succeeds
\* late does, see OrderPayments.)
CanceledStays == [][status = "canceled" => status' = "canceled"]_vars

\* "else: it will be auto-canceled": an order that waits for its suppliers is
\* confirmed or canceled in the end, whatever they do.
OrderResolved == status = "processing" /\ ~confirmed ~> status = "canceled" \/ confirmed

\* What is left when locks, tasks, handlers and nodes are hidden.
Agreement ==
  INSTANCE OrderAgreement WITH accepted <- acceptedBy, declined <- canceledBy,
                               byClient <- canceledByClient

\* Every step of tasks and handlers, also of those that crash or have lost
\* their lock, gives one answer, or draws the conclusion the answers allow.
ImplementsAgreement == Agreement!Spec

\* Without crashes the conclusions are drawn: an order a task has declined for
\* a silent supplier is canceled by its release, even if it was confirmed in
\* the meantime, and the last acceptance confirms.
ImplementsFairAgreement == Agreement!FairSpec
=============================================================================
