# Verification of the wxw food-delivery backend

The repository is the backend of a food-delivery service: HTTP routes for
clients, couriers, restaurants and administrators, cron jobs that move paid
orders along, payments through Stripe, push and socket notifications, and one
MariaDB database.  It runs as several Node.js processes; the nodes of type
*master* also run the cron jobs.  There is no queue and no coordinator: the
processes meet only in the rows of the database.  A soft lock (the columns
`isLocked` and `lockedByNuid` of an order) says who is working on what, a
checksum column says whether a row was tampered with, and everything else is
read, awaited over, and written back.

This directory holds TLA+ modules for the parts of that program in which the
processes race with each other, with a failure, or with Stripe; TLC runs that
check them on small instances; and proofs, checked by TLAPS, for every instance.
Paths below are relative to `src/src/`.

## 1 Inventory

| component | state | operations | hard behaviour |
|---|---|---|---|
| **Courier search** `cron/jobs/dev.order.find-courier.job.js` | order: `status`, `courierId`, `isLocked`, `lockedByNuid`; courier: `activeOrderId`, `isOrderRequestSent`; request: `isAccepted`, `isRejected`; the task's own list of couriers and Sequelize instance | lock an order; per supplier fetch couriers; per courier offer, wait 45 s, assign or auto-reject | runs for minutes on data read once; several tasks per node; the lock names a node and not a task; a rolled-back transaction leaves the instance in memory changed |
| **Courier's requests and active order** `routes/private/courier/` | the same columns | accept, reject, give back, take, deliver | checks and writes are separated by awaits, one even by a sleep of 1.5 s |
| **Master node registry and reaper** `cron/jobs/dev.master-nodes.*` | `MasterNode`: `nuid`, `lastSeenAt`, `isLocked` | heartbeat; select, lock, release the orders of, and destroy a node not seen for a while | a slow node looks dead; the reaper can fail or die half-way |
| **Confirmation by the suppliers** `cron/jobs/dev.order.notify-suppliers.real-restos.job.js` | order: lock, `status`; supplier: `isRestaurantNotified`, `isAcceptedByRestaurant`, `isCanceledByRestaurant` | lock, notify without awaiting, wait 300 s, cancel for silent suppliers, release or cancel | time-out against late answers; crash between its writes |
| **Restaurant's answers** `routes/private/restaurant/order-requests`, `orders/cancel` | the same, and `allSuppliersHaveConfirmed` | accept (write, count, confirm), cancel, withdraw | concurrent last accepts |
| **Client's cancellation** `routes/private/client/orders/cancel` | `status`, `isCanceledByClient` | check, write, refund | the order is confirmed, or paid, between check and write |
| **Client's confirmation** `routes/private/client/orders/confirm` | order: `status`, `paymentIntentId`, `isPaid`; Stripe's intents | create an intent, record it, charge, commit; or leave the charge to the client's device | the order lives in an undeclared variable which all requests of a process share; a second attempt; a crash between charge and record |
| **Payments and webhooks** `services/payments`, `routes/public/services/stripe/web-hook` | `isPaid`, `isRefunded`, `status`, the checksum | `charge.succeeded`, `charge.refunded`, intents, refunds | webhooks late or out of order; they check the row, await, and write from their copy; the route answers success whatever happened |
| **On-site and catering orders** `routes/private/restaurant/orders/on-site-presence`, `cron/jobs/dev.order.auto-reject-expired-on-site-presence.job.js` | `status`, `allSuppliersHaveConfirmed` | accept, reject, expire | answers race each other and the payment; updates without the checksum |
| **Delayed orders** `cron/jobs/dev.order.push-delayed-order-to-main-loop.job.js` | `status`, `isOrderDelayed` | select, push in a transaction, or cancel when it fails | cancels a paid order from its catch clause |
| **Courier's balance** `routes/private/courier/withdraw`, `admin/couriers/withdraw`, `courier/orders/current/set-as-delivered`, `admin/couriers/delete` | courier: `balance`, `totalOrders`, `checksum`; `CourierWithdrawRequest` with a checksum of its own | ask, approve in full or in part, reject, earn, restrict | absolute values computed from copies read before the transaction; rows locked in two orders; the transfer is made before the commit |
| **Restaurant's balance** `cron/jobs/dev.restaurants-auto-payout.job.js`, `dev.order-supplier.apply-balance.job.js`, `dev.statistic.collect-daily-restaurants-orders-info.job.js` | restaurant: `balance`, totals, `checksum`; `RestaurantTransfer`; `isAppliedToBalance` | pay out, credit, count | every master node pays the same balance; an error row that waits for its own transaction; the statistics leave the checksum behind |
| **Cron framework** `services/cron/BaseJob.js` | `_processed`, `_prevValue`, `_isRunning` of an item | tick, start, end | the timer goes on while the callback that started the task waits, and both write the item |
| **Second payments** `services/payments/items/split-payment-processor.item.js` | `OrderPaymentSplit` | charge the second part | its first query names a column that does not exist, so it fails |
| **Restaurant's work on an order** `routes/private/restaurant/orders` | supplier flags | ready, delay | lost updates |
| **Order creation and updates**, **other cron jobs** | single rows | create, set fields, rate; clean-up, reminders | each is one statement or one transaction per row |
| **Admin, profile, menu, public routes, sessions, sockets, infrastructure, migrations, boot tasks** | single rows | create, read, update, delete | nothing that two steps of two actors decide |

What makes the modelled ones correct: two tasks offer one order only after it
came back from a courier; a lock never outlives its worker; an order goes to a courier only with
his consent, and never after it was canceled; a courier never loses sight of
his order, and is never hidden from the searches for good; an order is
confirmed exactly when all suppliers have accepted, canceled only for a recorded
reason, and one of the two in the end.  What a row says of money is true: paid
means charged, refunded means paid back, nobody works on an unpaid order and
nobody pays for a canceled one; a balance is what was earned minus what went
out; nothing goes out twice, and what goes out is what was approved, to the cent; a checksum never locks out the honest owner of a row.

`PROJECT.json` lists the hazards of the code, each at its line, with the
properties aimed at it, or why none is.

## 2 Plan

| order | module | what it models |
|---|---|---|
| done | `CourierDispatch` | search, couriers' handlers, heartbeat and reaper, client's cancellation |
| done | `SupplierConfirmation` | notify-suppliers, restaurants' and client's handlers |
| done | `OrderAgreement` | what confirmation promises, without locks, tasks and nodes; `SupplierConfirmation` implements it |
| done | `OrderPayments` | client confirm, webhooks, cancellations with and without refund, on-site and catering answers, delayed orders |
| done | `Cents` | dollars become cents, shared by the two modules that transfer money |
| done | `CourierBalance` | withdrawals, deliveries and their checksums |
| done | `CronRunner`, `RestaurantPayout` | one item of the scheduler, and the payouts and credits it drives |
| done | the eight `...Proofs` modules | type correctness, every safety property of the runs, and the refinement |
| left | an abstract order over status, money and courier | created, paid, confirmed or canceled, assigned, delivered; `CourierDispatch` and `OrderPayments` would implement it together |
| left | restaurant's work on an order | ready and delay: lost updates of one row, of the kind `CourierBalance` shows |

## 3 Modules and code

One action is one database statement or transaction, with the code around it up
to the next await after which something else may have happened.  Transactions
are atomic (InnoDB, REPEATABLE READ); where one of them awaits Stripe before it
commits, its uncommitted part is a function of the program counter, and the rows
it has written are locked.  A boolean column is the set of rows in which it is
true, or a member of a set of flags.  A statement fails only where a constant or
a bound on faults says so.  Definitions called *Variant* are plausible
mistakes; no specification uses them.  `PROJECT.json` names for every property a
definition which, replaced by such a variant, violates it.

### CourierDispatch

| state | code |
|---|---|
| `status`, `confirmed`, `expired`, `taken`, `courierId`, `locked`, `lockedByNuid` | `Order`: `status`, `allSuppliersHaveConfirmed`, `createdAt` behind the age limit, first supplier `isTakenByCourier`, `courierId`, `isLocked`, `lockedByNuid` |
| `activeOrderId`, `asked` | `Courier`: `activeOrderId` with `hasActiveOrder`, `isOrderRequestSent` |
| `requested`, `accepted`, `rejected` | `CourierOrderRequest`: the row, `isAccepted`, `isRejected` |
| `pc`, `job`, `left`, `todo`, `asking` | a task: where it is, its order, suppliers to go, couriers to go, the courier asked |
| `memLocked`, `memCourier` | the Sequelize instance of the order in the task: does it believe the order locked, which courier does it believe assigned |
| `alive`, `stale`, `row`, `reaping`, `reapNode`, `reapOrders` | nodes, `lastSeenAt` too old, `MasterNode.isLocked` or no row, the reaper of each node |
| `clientCancels`, `accepting`, `acceptOrder`, `rejecting`, `returning`, `returnAsked` | handlers between their checks and their writes |

`TakeLock`, `Recheck`, `FetchCouriers`, `SkipCourier`, `Offer`, `OfferFails`,
`Decide`, `AutoReject`, `Assign` and `AssignFails` are the task.  Three details
of the code shape them.  (1) Sequelize writes only columns that differ from the
instance in memory: when a task assigns a second courier, or assigns after a
rolled-back transaction, it writes the courier and not the lock.  (2) The check
for a cancellation inside the assignment reads `status`, which the query never
loads, and therefore never fires.  (3) The release of the lock at the end of a
task is commented out; a task that ends leaves the lock as it is.  `AcceptStart`,
`AcceptCheck` and `AcceptWrite` are one handler with its sleep and its two
awaits; `RejectCheck` and `RejectWrite`, `ReturnCheck` and `ReturnWrite` likewise.  `ReapSelect` to `ReapFinish`
are the reaper: a failing release ends its task with the row of the dead node
locked, because the catch clause uses a variable of the try block.

Abstractions: there is one request row per order and courier (`findOrCreate` of
the code); `Offer` joins the request, the mark and the push, between which no
other actor looks at them; the list of dead nodes is read for one node at a
time; a supplier is only a round of the loop; payment flags, distances, arrival
and prices are left out; every courier has at most one request of each kind
under way; the courier's row is read by `Take` and `Deliver` in the step that
writes it.

### SupplierConfirmation

One order, since nothing relates two.  `lockedBy` stands for `isLocked` with
`lockedByNuid`; `notified`, `acceptedBy`, `canceledBy` are the flags of table
`OrderSupplier`; `todo`, `silent`, `canceling` are the task's loop over the
suppliers, the supplier it is canceling for, and whether it has found a
canceled one; `notifying` are the notifications the task has started and does
not await.  The restaurant's accept handler is four actions (`AcceptCheck`,
`AcceptWrite`, `AcceptCount`, `AcceptConfirm`), and may die between them
(`AcceptLost`).  `WithdrawCheck` and `WithdrawWrite` are `orders/cancel`, by which
a restaurant takes its acceptance back, as it runs in production, where it is
refused once all suppliers have confirmed.  The other cancel handler,
`order-requests/cancel`, is no action: it loads three columns of the order and
updates it with a checksum over many more, `getChecksum` throws on the first that
is undefined, and the transaction is rolled back; so a restaurant that has not
answered can refuse an order only by letting the time run out.  The accept handler does not
look at the status of the order.  The reaper is two steps: `ReapFind`, when a node has found
the dead node (`reapers` are the nodes that have), and `ReapRelease`, when it
unlocks the order; between the two another node may find it as well.  The query's age limit is left out:
`TakeLock` need not be taken under `Spec`, and under `FairSpec` it is taken
before an order grows old.  `CourierDispatch!SuppliersConfirm` is what the last
`AcceptConfirm` does.

### OrderAgreement

The suppliers answer (`accepted`, `declined`), an answer is never taken back,
one refusal is enough to cancel and it takes all acceptances to confirm.
`SupplierConfirmation` implements it under `accepted <- acceptedBy`,
`declined <- canceledBy`, `byClient <- canceledByClient`; `status` and
`confirmed` are the columns themselves.  Locks, tasks, notifications and nodes
are hidden.  A supplier may appear on both sides, since the code lets an
acceptance be written after somebody has canceled for him.

### OrderPayments

| state | code |
|---|---|
| `order[o]`, `seal[o]` | `Order`: `status`, `isPaid`, `isRefunded`, the columns under the checksum that change here, and the values the checksum was computed from |
| `intent[o]` | `paymentIntentId` |
| `flags[o]` | `isPaymentRequested` ("requested"), `allSuppliersHaveConfirmed`, `isCanceledByClient`, the delayed order was pushed |
| `stripe`, `events` | Stripe's payment intents with the order and client in their metadata; webhooks not yet delivered |
| `op`, `pc`, `target`, `made`, `mine` | a request, webhook or job in flight: what, where, its order, its intent, the Sequelize instance it has read |
| `mOrder` | the variable that the confirm handler assigns without declaring it (`confirm/index.js:32`) |
| `stale`, `crossed`, `outrun`, `unasked` | history: written from an outdated copy; confirmed while another confirmation was in flight; refund reported before payment; canceled by code that asks for no refund |

`ConfirmRead` to `CommitFails` are the confirm handler, `HookRead` to
`HookRefunded` the webhooks, `CancelWrite`, `NotifyWrite`, `PushWrite`,
`PushFails`, `RejectWrite` and `Expire` the ways to cancel or go on, `Ask` the
requests for a refund.  Three details of the code shape them.  (1) An update
writes the columns that differ from the instance in memory and a checksum over
the whole instance; so an update from an outdated copy can lose no column and
still break the checksum, and a row with a broken checksum is touched by no
webhook and by no cancellation of its client.  (2) Every step of a confirmation
uses whatever `mOrder` is at that moment, except for the intent, which it holds
itself.  (3) The webhook of a success asks no question about the status: it
takes a canceled order back to processing, and then asks for a refund only if
its copy says that the client has canceled, or that it is not in processing.

Abstractions: accepting an on-site and a catering order is one handler; only
on-site orders expire; accepting does not require payment, which is why
`ProcessingWasCharged` speaks of the usual kind only; delivered orders, second
payments and the branches of the cancellations that refund split orders (their
condition cannot hold) are left out; the amount check of the charge handler
compares the amount with itself; cancelling an intent and refunding it, which a
cancellation requests both, are one step, since only the one that fits the state
of the intent succeeds; there is one process, because `mOrder` is the only
thing a process shares.  When the process dies Stripe sends the webhooks again
that were not answered, and only those: a webhook whose handler failed is
answered with success.

Behaviours the model shows and the properties name as exceptions: a second
attempt may leave two intents charged (`ChargedOnce`); two clients who confirm
in the same process can move each other's orders (`crossed`); a rejection or
expiry leaves a broken checksum behind, after which the success webhook is
ignored; a refund webhook that overtakes the success webhook is ignored for ever
(`outrun`).

### CourierBalance

One courier, his requests of withdrawal and his orders.  `courier` and
`request` are the columns under the checksums, `courierSeal` and `requestSeal`
what these were computed from; `mCourier`, `mRequest` the copies a handler has
read.  `StartCreate`/`Create`, `StartDeliver`/`FindOrder`/`Deliver`,
`StartApprove`/`FindCourier`/`WriteApproval`/`WriteLeftOver`/`Transfer`/`Approve`,
`StartReject`/`FindCourier`/`WriteReturn`/`Reject` and
`StartRestrict`/`Restrict` are the five handlers; `HoldsCourier` and
`HoldsRequest` say which rows their transactions have locked.  A handler writes
an absolute balance computed from its copy.  History: `fresh` is which copies
are still what the database has, `stale` the rows written from one that was not,
`due` the balance had every change been applied to the row, `sent` and `stray`
what Stripe has transferred, and how much of it by transactions that did not
commit.  Amounts are integers in cents, of which `Dollar` make a dollar, so that
the rounding of `toFixed()` appears.  Where the amounts are doubles in the code
two constants say what a double can do.  `Short` are the amounts for which
`Math.floor(amount * 100)` is a cent less than the amount (8.20 becomes 819);
`InCents` of module `Cents` is that conversion, used by the transfers of this
module and of `RestaurantPayout`.  `Below` are the pairs of amounts whose
difference comes out just below the exact one, which decides how `toFixed()`
rounds half a dollar; `Rounded` takes twice the difference to tell such a half
from an exact one.  `client-didnt-get-in-touch` pays like
`set-as-delivered` and is the same action; the payout to the courier's bank
after the transfer decides only `isCompleted`, which nothing here reads.

### CronRunner and RestaurantPayout

`CronRunner` is one item `{each: n}` of a `BaseJob` that does not allow two
tasks at a time: `clock` the second, `prev` and `processed` the fields of the
item, `startedAt` the second in which the waiting callback was started.
`TaskEnds` writes the item where the callback goes on, with the values it had at
its start: it can mark a slot as processed that nobody ran in, and so slots are
dropped.

`RestaurantPayout` extends it.  One restaurant (they do not interact), its row,
the transaction that has locked it (`rowLock`), and on every master node a
payout task (`Start`, `Prepare`, `Debit`, `Transfer`, `Commit`, `RollBack`,
`End`) and a task of apply-balance (`ApplyFind` to `ApplyFails`).  Both change
the balance by an SQL expression, the payout asks Stripe before it commits, and
its failure row waits for the transaction it is written from and so ends in a
rollback after the transfer.  `Statistics` changes a total under the checksum.
Nodes not in `Timed` may start a task at any moment, which covers their
schedulers.  The transfer sends `InCents` of the balance it has debited, so a cent
may be debited and never sent.  `sent` and `stray` as above; `booked` is the sum of the committed
transfers.  apply-balance is switched off in this commit (`Parts = {}`) and is
modelled as it would run.

## 4 Runs

Two task slots are enough for every race between two tasks, one node or two
tells the node's lock from the task's; two orders and one courier make the
orders compete, one order and two couriers make the couriers compete.  Two
handlers make every race between a read and a write of the same row.

| run | instance | properties | shows |
|---|---|---|---|
| `dispatch_shared` | 2 orders, 1 courier, 2 suppliers, both slots on one node; orders expire, transactions fail | `TypeOK`, `StrandedOnlyIfOverbooked`, `AskedHasWaiter`, `SharedOnlyAfterReturn` | a courier loses sight of his order only by being overbooked; the mark that hides a courier is set only while somebody waits for him; two tasks do share an order, but offer it only after one courier has both accepted and rejected it |
| `dispatch_recovery` | 1 order, 2 couriers, 2 nodes of which one may crash; fair | `AssignmentNeedsConsent`, `DeadLockReleased`, `EveryFreeCourierAsked` | assignment needs consent; the dead node's lock is released; every free courier is asked |
| `dispatch_slow_nodes` | 1 order, 1 courier, 2 nodes, one may look dead while alive; transactions fail | `EligibleLockHasWorker` | a lock held by a live node has a task behind it |
| `confirm_resolves` | 2 suppliers, 2 nodes, nothing crashes; fair | `TypeOK`, `LockIsExclusive`, `LastAcceptConfirms`, `OrderResolved`, `ImplementsFairAgreement` | the lock is exclusive; concurrent accepts never leave an order accepted by all unconfirmed; the order is confirmed or canceled in the end; the fair agreement is implemented |
| `confirm_faults` | as above with a crash, a slow node, dying handlers | `ConfirmedByAll`, `CanceledHasCause`, `CanceledStays`, `ImplementsAgreement` | confirmed only by all; canceled only with a cause; canceled stays canceled; the agreement is implemented whatever fails |
| `order_payments` | a regular and an on-site order, 2 handlers, 2 intents, 4 requests, 1 fault | `PaymentsTypeOK`, `MoneyFlagsAreTrue`, `ProcessingWasCharged`, `OrderStaysSealed`, `BooksAgreeAtRest`, `CanceledIsPaidBack` | what the rows say of the money is true; at rest and without faults the books agree with Stripe, except where the history names why not |
| `courier_balance` | 2 handlers, 2 requests, 1 order, 1 fault; 4 cents are a dollar, requests and prices of 9 cents, of which 8 are sent (`Short`), approvals of 3, 7, 8 and 9 leave one and a half dollars that come out just below (`Below`), an exact half, a quarter and nothing; fair | `CourierTypeOK`, `NothingLost`, `CourierStaysSealed`, `SettledOnce`, `RoundedByHalfADollar`, `HandlersEnd` | only a write from an outdated copy loses money or locks the courier out; a request is paid once, at most a cent short of what was approved; roundings stay within half a dollar; no handler waits for ever |
| `restaurant_payout` | 2 nodes, one with a timer (4 seconds to the minute, each 2), 1 part, 1 fault, 1 day; a balance of 2 is sent as 1 (`Short`); fair | `PayoutTypeOK`, `BalanceIsExplained`, `SentOnlyOnce`, `PaidOut` | the books balance; nothing is sent twice; a balance worth a payout is paid although slots are dropped, unless the statistics break the checksum first |

Four runs show where the code departs from what the repository says of it:

| run | what it says | what happens |
|---|---|---|
| `dispatch_cancel_race` | find-courier :529, double check if client has canceled | The cancel handler checks, the order is confirmed, offered and accepted, the handler writes, and the task assigns the canceled order. |
| `dispatch_release_fails` | find-dead-nodes :197, release the order if the node has crashed | A failed release leaves the row of the dead node locked; no reaper selects it again. |
| `confirm_crash` | remove.non-paid :68, else it will be auto-canceled | The node dies after it has canceled for the last silent supplier and before it cancels the order; no query selects the order any more. |
| `payments_rejected` | `ON_SITE_PRESENCE_POSTMAN_TEST_GUIDE.md` :590, :626, refund was processed | A paid on-site order is rejected or expires; the refund is asked for only if `stripePaymentIntentId` is set, a column that does not exist. |

Three limits are known from the model and stated by no property.  The comment on
`allowMultipleTasksAtTheSameTime` (find-courier :12), "each sub-process own
order", is not what the code does.  A task assigns its order and the courier gives
it back, before the task has ended; another task locks the order and offers it;
and the first one goes on as well, with the next supplier (an order of several,
the tasks on one node or two), or with a new round, since it finds the order locked
for its node again (two tasks of one node, even if the order has one supplier).
TLC finds each of these as soon as "no two tasks offer one order" is made an
invariant of such an instance; only for orders of one supplier and one task per
node does it hold.  `dispatch_shared` contains the shared orders, and `SharedOnlyAfterReturn`
says what is left of the claim: one courier has accepted and rejected the order
before.  With three nodes that fails too, by a double reap, and so does
`LockIsExclusive`: two live nodes find the same dead
one, since they read the rows without a lock (find-dead-nodes :67), and the
second unlocks an order after the first has, and a task has locked it again.
With two nodes there is no second reaper.  `EveryFreeCourierAsked` fails with
more couriers than `FetchLimit`, since every round may fetch the ones who have
answered.

Bounds: `MaxCrashes` nodes crash; `Rejecters` are the couriers who may press
"reject" (one of two in `dispatch_recovery`; a time-out or a failed push rejects
for any of them); `FetchLimit` stands for 10 and is at least the
number of couriers; `MaxReapers` nodes
reap in `SupplierConfirmation` at a time, `MaxFaults` failures, `MaxRequests` requests, `MaxDays`
statistics, `Intents` payment intents, and in `CourierBalance` the set of
`Requests`.  `MaxStale = 0` lets no new handler start once a row has been written
from an outdated copy: what follows is not covered by the properties, which make
that their condition, while every way into that state is searched.  Four
requests and one fault let a confirmation, its webhook, a cancellation and a
second confirmation meet with a failure; `order_payments` has also been run with
five requests, and `confirm_faults`, which has one reaper, with two.  Everything
else is finite and searched completely.  Symmetry is used only in runs without
liveness properties.  Deadlock is not checked: an
order that has been delivered, or a system that has used up its requests and
faults, has nothing left to do.

Fairness.  `BaseJob` ticks every second on every live node, so a job that can
do something is run again: weak fairness of `TakeLock` over all slots together,
of every task's next step (it awaits only timers and the database), and of the
reaper of every node; the heartbeat likewise; a dead node grows stale with the
clock.  In `SupplierConfirmation` a handler that has begun also goes on, unless
it dies.  In `CourierBalance` a handler that has begun goes on; one that waits
for a row is ended by the database, which is an action of its own (`LockFails`).
In `RestaurantPayout` the clock runs, a task that has begun goes on, and the
timer fires again and again: strong fairness of its polls outside the slots and
of `Start`, since a busy event loop may miss a second but not every one of them.
Couriers, restaurants, clients, administrators, Stripe's webhooks, crashes and
failures owe nothing.

## 5 Proofs

The `...Proofs` modules prove, for any sets of orders, couriers, nodes, slots,
suppliers, handlers, requests and intents, and any number of crashes and faults:

**CourierDispatch.**
* `TypeCorrect`: `Spec => []TypeOK`.  The types are not inductive alone
  (`Assign` writes `job[t]` and `asking[t]`); `Shape` adds what the program
  counters say of the local variables.
* `StrandedSafe`: `Spec => []StrandedOnlyIfOverbooked`.  The invariant adds
  `TiesRequested`: whatever ties a courier to an order (the order's `courierId`,
  his `activeOrderId`, a return under way) goes back to a request for that
  order; `Shape` says the same of an offer.  When an assignment or a late return
  takes an active order from a courier, he then has a request for another one.
* `SearchNotAbandoned`: `Spec => []EligibleLockHasWorker`.  The invariant adds
  that locked orders are confirmed (`LockedConfirmed`); the proof is by the
  way tasks end: only in `Recheck`, and only when the lock is not theirs.
* `ConsentRespected`: `Spec => AssignmentNeedsConsent`, an action property, if
  no transaction fails.  The invariant `Consent` says that a task about to
  assign has an accepted request.  The assumption is needed: a failed
  transaction resets the request but not the instance in memory.
* `MarkHasWaiter`: `Spec => []AskedHasWaiter`, inductive as stated with the
  types.  Every step that ends a wait clears the mark (`WaitersStay`).
* `SharedOrderWasReturned` (in `DispatchLockProofs`):
  `Spec /\ []OneReaper => []SharedOnlyAfterReturn` for any number of slots and
  suppliers, if no living node is taken for dead.  `Living` says that only dead
  nodes are reaped.  `ShareInv` says that no two tasks work on one order, that a
  task's order is locked for its node or assigned, and that what a reaper has in
  hand is locked for a dead node and not assigned; each only until some courier
  has accepted and rejected the order for good, that is, no task that would reset
  his request is offering it to him (`GivenBack`).  It adds that whoever has the
  order, or is about to get it, has accepted it, so that the step which takes it
  from him makes it `GivenBack`.

**SupplierConfirmation.**
* `ConfirmationTypeCorrect`: inductive as stated.
* `ConfirmationSound`: the invariant adds `CountIsRight`: a handler that is
  about to confirm has seen all suppliers accept, and no acceptance is ever
  taken back.
* `CancellationHasCause`: inductive as stated, because the property includes
  the task that is going to cancel and has read a cancellation or written one.
* `NoConfirmationLost`, if handlers do not die: inductive as stated; the
  handler whose write completes the acceptances has still to count.
* `LockExclusive`: `Spec /\ []OneReaper => []LockIsExclusive`, if no living node is
  taken for dead.  The invariant adds that a working task's node is alive and
  holds the lock, and that while somebody reaps, the order is locked for a dead
  node.
* `CancellationFinal`: `Spec => CanceledStays`, an action property; it needs the
  types and nothing else, since every write of `status` either looks at it or
  writes the cancellation.
* `ConfirmationImplementsAgreement`: `Spec => Agreement!Spec`.  Initial states
  map to initial states, and every step to one step of `OrderAgreement` or a
  stutter; the invariants used are `CountIsRight` and that a task that is
  going to cancel has found a refusal (`FoundCause`).

**RestaurantPayout.**
* `PayoutTypeCorrect`: the balance stays a natural number because a debit that
  was made is `Covered` by the balance until it commits, which holds because the
  row lock keeps every other writer out (`LockHeld`).
* `BooksBalance`: `Spec => []BalanceIsExplained`.  The invariant adds that a part
  is credited by one task (`PartsHeld`), which makes every commit a new part.
* `NothingSentTwice`: `Spec => []SentOnlyOnce`.  `SentExplained`: what was sent
  is at most what was booked, what was rolled back, and what the holder of the row
  lock has sent and not committed; less by the cents the conversion loses.

**CourierBalance.**
* `CourierTypeCorrect`: `Shape` says which copies and amounts go with each
  program counter; a partial approval is below its request.
* `BalanceIsDue` and `NobodyLockedOut`: `Current` says that a copy marked fresh is
  the row, `Reserved` that two handlers never create the same request,
  `Ledger` that as long as no stale write has happened the balance is due and
  the row satisfies its checksum.
* `RequestSettledOnce`: `OneSender` (the lock of the request admits one handler
  past the first update), `Unanswered` (a fresh copy that a handler is going to
  answer is of an unanswered row), `AnsweredOnce`, and `SentIsBooked`: what was
  sent and not rolled back is `InCents` of what is approved, or of what the handler
  between transfer and commit approves.  `InCentsNear` (in `CentsProofs`) says
  that this is the amount or a cent less, for every set `Short`.
* `RoundingBounded`: `Spec => []RoundedByHalfADollar`.  `RoundedNear` is the
  arithmetic of `toFixed()`; `ApprovedNear` carries what the approval has
  computed, through the transfer, to the row.

**OrderPayments.**
* `PaymentsTypeCorrect`: `RowsTyped`, `StripeTyped` (an intent that exists has an
  order, and only such intents are reported) and `HandlersTyped` (what each kind
  of handler has in hand).
* `MoneyFlagsCorrect`: `Spec => []MoneyFlagsAreTrue`.  Intents only go forward
  (`Forward`), so money once charged remains charged or paid back, and
  `EventsTrue` says that a webhook, undelivered or being handled, reports what
  happened to an intent of that order and client.
* `ProcessingCharged`: `Spec => []ProcessingWasCharged`.  `ConfirmsOwn` says that
  as long as the order in `mOrder` did not cross another, it and the intent are
  those of the handler, and a handler about to commit has charged; `ReadsPaid`
  that a delayed order about to be pushed was charged, and that only split
  orders are accepted or rejected.
* `SealKept`: `Spec => []OrderStaysSealed`.  `CopiesBehind` says that no copy is
  ahead of its row (an order that has left "created" does not return,
  `RowForward`) and `MOrderOpen` that the row in `mOrder` could be confirmed, or
  just has been.
* `BooksAgree` (in `PaymentsAtRestProofs`): `Spec => []BooksAgreeAtRest`.  A property
  of states at rest needs to know who will still speak.  `PaidKnown` and
  `BackKnown` say that while nothing has failed, a charge or refund is written in
  the row or `Told`: a webhook is under way or being handled.  Such a webhook finds the
  row it can write, because the row is sealed (`OrderStaysSealed`) and a refunded
  one is a paid one (`RefundedRow`).  That an order may come to name an intent whose
  webhook has long been handled is excluded by `Secret`, an intent its
  confirmation has not recorded is uncharged and known to nobody else, and
  `Solo`, without crossing `mOrder` names the intent recorded last.
* `CanceledPaidBack`: `Spec => []CanceledIsPaidBack`.  `CancelsPaid`: who cancels
  has seen the order paid or in processing, so it was charged, and by
  `ChargedOnce` with the one intent it names.  `AskKnows`: who has canceled asks
  for that intent.  `Owed`: as long as it is charged, some
  handler is about to ask for it: the cancellation, or the webhook of a payment
  that came later.

Each is `Init => IInv`, `IInv /\ [Next]_vars => IInv'`, `IInv => Inv`, combined by
PTL.  Typing has one step per action.  Every other invariant has a frame lemma
(`TieFrame`, `LockFrame`, `AnswerFrame`, `LedgerFrame`, `StripeFrame`, `RowFrame`,
...) that names the actions which may touch its variables, and one step for each
of those.  In `OrderPaymentsProofs` the lemmas `StripeForward`, `HandlerStep`,
`MOrderStep` and `RowStep` say once what any step may do to the intents, to a
handler, to `mOrder` and to a row, and the invariants are proved from these.  

The assumptions are the named ones on the constants, which TLC evaluates in every
run, and these, each of which some run meets:
* `~TxMayFail` for `ConsentRespected` and `~HandlersMayCrash` for
  `NoConfirmationLost`: a failed transaction, or a handler that dies, is how the
  code breaks the property.
* `SlowNodes = {}` and `[]OneReaper` for `LockExclusive` and
  `SharedOrderWasReturned`: a node taken for dead, or a dead node reaped twice,
  loses a lock that is in use (section 4).  `OneReaper` holds in every
  behaviour with two nodes if only dead nodes look dead, since a node does not
  reap itself; with more it is the condition under which the lock can be relied
  on, and not a promise of the code.

Every invariant and every action property of a passing run is stated by a theorem.
Only model-checked are the liveness properties (`DeadLockReleased`,
`EveryFreeCourierAsked`, `OrderResolved`, `PaidOut`, `HandlersEnd`) and the
fairness of `ImplementsFairAgreement`, since fairness and ENABLED are out of the
prover's reach.  There is no recursive definition, so nothing needs
induction over data.

## 6 Not modelled

* **Second payments**: the processor fails in its first query (the users have no
  column `clientId`), on every node and in every order of events.
* **Order creation and updates, restaurant's work, ratings, other cron jobs**:
  arithmetic and updates on the rows of one request; the two lost updates there
  (two delays of one order, two ratings of one courier) are of the kind
  `NothingLost` shows.  Three jobs that would cancel or remove orders
  (auto-cancel-unaccepted, remove.non-paid-or-discarded, clean-courier-active-order)
  are disabled.
* **Failures of single statements outside transactions** in the dispatch, and the
  two commented-out clean-ups (boot task 04 that would release order locks, the
  reset of a dead node's couriers), which do not run.
* **Everything else**: admin, profile, menu, public and session routes, guests,
  sockets and push, mail, SMS, storage, geocoding, translation, logging,
  migrations, seeders and generated data.  They make up most of the lines of the
  repository and read or write single rows without relating two steps of two
  actors; this is why the modules cover a small share of its lines.
