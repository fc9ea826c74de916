---------------------------- MODULE OrderPayments ----------------------------
(***************************************************************************)
(* The payment of an order.  The client's confirm handler creates a        *)
(* payment intent and charges the card, or leaves the charge to the        *)
(* client's device; Stripe reports charges and refunds by webhooks, which  *)
(* arrive in any order, each handled once; the order is canceled by its    *)
(* client, by a restaurant or by a cron job, some of which ask Stripe for  *)
(* a refund; an order of a catering or an on-site event (Split) waits in   *)
(* "created" until the restaurant accepts it, rejects it or lets it        *)
(* expire.  Handlers read the order, wait, and write what differs from     *)
(* the copy they have read, with a checksum over their copy.               *)
(*                                                                         *)
(* One process of the application, whose requests and jobs in flight are   *)
(* Handlers.  The confirm handler keeps its order in a variable that it    *)
(* does not declare, so the whole process has one: mOrder.                 *)
(***************************************************************************)
EXTENDS Naturals

CONSTANTS Handlers, Orders,
          Split,        \* catering and on-site-presence orders
          OnSite,       \* the latter
          Intents,      \* bound: the payment intents Stripe may create
          MaxRequests,  \* bound: requests, webhooks and jobs that find an order
          MaxFaults,    \* bound: failures of Stripe, the database, the process
          None

ASSUME PaymentsAssumption ==
  /\ OnSite \subseteq Split /\ Split \subseteq Orders
  /\ MaxRequests \in Nat /\ MaxFaults \in Nat
  /\ None \notin Orders \cup Intents

VARIABLES
  order, seal,          \* the columns the checksum covers, and the checksum
  intent,               \* Order.paymentIntentId
  flags,                \* the set of the other columns that are true
  stripe, events,       \* Stripe's intents; webhooks it has still to deliver
  \* a handler: what it does, on which order, with which intent, its copy
  op, pc, target, made, mine,
  mOrder,
  requests, faults,
  \* history: orders written from an outdated copy; orders confirmed while
  \* another confirmation was in flight; orders whose refund was reported
  \* before their payment; orders canceled by code that asks for no refund
  stale, crossed, outrun, unasked

rowVars     == <<order, seal, intent, flags>>
stripeVars  == <<stripe, events>>
handlerVars == <<op, pc, target, made, mine>>
historyVars == <<stale, crossed, outrun, unasked>>
vars == <<rowVars, stripeVars, handlerVars, mOrder, requests, faults,
          historyVars>>

Row == [status : {"created", "processing", "canceled", "refunded"},
        paid : BOOLEAN, refunded : BOOLEAN]
Flags == {"requested", "confirmed", "byClient", "pushed"}
NewRow == [status |-> "created", paid |-> FALSE, refunded |-> FALSE]
Copy == [of : Orders \cup {None}, row : Row, intent : Intents \cup {None},
         flags : SUBSET Flags]
NoCopy == [of |-> None, row |-> NewRow, intent |-> None, flags |-> {}]
Intent == [state : {"none", "new", "given", "charged", "refunded", "canceled"},
           order : Orders \cup {None}, client : Orders \cup {None}]
Ops == {"none", "confirm", "paid", "refunded", "client", "restaurant",
        "notify", "push", "accept", "reject"}

PaymentsTypeOK ==
  /\ order \in [Orders -> Row] /\ seal \in [Orders -> Row]
  /\ intent \in [Orders -> Intents \cup {None}]
  /\ flags \in [Orders -> SUBSET Flags]
  /\ stripe \in [Intents -> Intent]
  /\ events \subseteq {"paid", "refunded"} \X Intents
  /\ op \in [Handlers -> Ops]
  /\ pc \in [Handlers -> {"idle", "prepare", "record", "charge", "request",
                          "commit", "write", "ask"}]
  /\ target \in [Handlers -> Orders \cup {None}]
  /\ made \in [Handlers -> Intents \cup {None}]
  /\ mine \in [Handlers -> Copy] /\ mOrder \in Copy
  /\ requests \in 0 .. MaxRequests /\ faults \in 0 .. MaxFaults
  /\ stale \subseteq Orders /\ crossed \subseteq Orders
  /\ outrun \subseteq Orders /\ unasked \subseteq Orders

Init ==
  /\ order = [o \in Orders |-> NewRow] /\ seal = [o \in Orders |-> NewRow]
  /\ intent = [o \in Orders |-> None] /\ flags = [o \in Orders |-> {}]
  /\ stripe = [i \in Intents |->
                 [state |-> "none", order |-> None, client |-> None]]
  /\ events = {}
  /\ op = [h \in Handlers |-> "none"] /\ pc = [h \in Handlers |-> "idle"]
  /\ target = [h \in Handlers |-> None] /\ made = [h \in Handlers |-> None]
  /\ mine = [h \in Handlers |-> NoCopy] /\ mOrder = NoCopy
  /\ requests = 0 /\ faults = 0
  /\ stale = {} /\ crossed = {} /\ outrun = {} /\ unasked = {}

-----------------------------------------------------------------------------
(* Helpers.                                                                *)

\* isValidChecksum
Sealed(o) == seal[o] = order[o]

CopyOf(o) == [of |-> o, row |-> order[o], intent |-> intent[o],
              flags |-> flags[o]]

\* update of the instance "copy" to the row "new": the columns that differ
\* are written.
Written(row, copy, new) ==
  [c \in DOMAIN row |-> IF new[c] # copy[c] THEN new[c] ELSE row[c]]

WriteColumns(copy, new) ==
  order' = [order EXCEPT ![copy.of] = Written(@, copy.row, new)]

\* The same with checksum: true.  The checksum is written when it differs too.
WriteRow(copy, new) ==
  /\ WriteColumns(copy, new)
  /\ IF new = copy.row THEN UNCHANGED <<seal, stale>>
     ELSE /\ seal' = [seal EXCEPT ![copy.of] = new]
          /\ stale' = IF order[copy.of] = copy.row THEN stale
                      ELSE stale \cup {copy.of}

Raise(o, flag) == flags' = [flags EXCEPT ![o] = @ \cup {flag}]

Fault == faults < MaxFaults /\ faults' = faults + 1

Begin(h, name, label, o, i) ==
  /\ op[h] = "none" /\ requests < MaxRequests /\ requests' = requests + 1
  /\ op' = [op EXCEPT ![h] = name] /\ pc' = [pc EXCEPT ![h] = label]
  /\ target' = [target EXCEPT ![h] = o] /\ made' = [made EXCEPT ![h] = i]

Goto(h, label) ==
  /\ pc' = [pc EXCEPT ![h] = label]
  /\ UNCHANGED <<op, target, made, mine>>

Confirming == {h \in Handlers : op[h] = "confirm"}

\* The handler has answered; what mOrder held is of no use to anybody once
\* the last confirmation has ended.
Leave(h) ==
  /\ op' = [op EXCEPT ![h] = "none"] /\ pc' = [pc EXCEPT ![h] = "idle"]
  /\ target' = [target EXCEPT ![h] = None]
  /\ made' = [made EXCEPT ![h] = None]
  /\ mine' = [mine EXCEPT ![h] = NoCopy]
Keep(h, copy) == mOrder' = IF Confirming \subseteq {h} THEN NoCopy ELSE copy

\* Stripe moves an intent to a state, and reports a charge or a refund.
Move(i, state) == stripe' = [stripe EXCEPT ![i].state = state]
Give(i) == stripe' = [stripe EXCEPT ![i].state =
                        IF @ = "new" THEN "given" ELSE @]
Report(kind, i) == events' = events \cup {<<kind, i>>}

-----------------------------------------------------------------------------
(* The client confirms his order.                                          *)

\* The order is found and kept in mOrder; its own checksum is not looked at.
ConfirmRead(h, o) ==
  /\ Begin(h, "confirm", "prepare", o, None) /\ UNCHANGED mine
  /\ order[o].status = "created" /\ ~order[o].paid /\ ~order[o].refunded
  /\ mOrder' = CopyOf(o)
  /\ crossed' = IF Confirming = {} THEN crossed
                ELSE crossed \cup {o, mOrder.of} \cup
                       {target[x] : x \in Confirming}
  /\ UNCHANGED <<rowVars, stripeVars, faults, stale, outrun, unasked>>

\* paymentIntentCancel of the intent that mOrder names; whether it succeeds
\* is not looked at, and it does not once the intent is charged.
Superseded ==
  [i \in Intents |->
     IF i = mOrder.intent /\ stripe[i].state \in {"new", "given"}
     THEN [stripe[i] EXCEPT !.state = "canceled"] ELSE stripe[i]]

\* The metadata of the intent: mOrder.id, and the id of this client.
Created(h, i, old) ==
  stripe' = [old EXCEPT ![i] = [state |-> "new", order |-> mOrder.of,
                                client |-> target[h]]]

CreateIntent(h, i) ==
  /\ op[h] = "confirm" /\ pc[h] = "prepare" /\ stripe[i].state = "none"
  /\ \/ Created(h, i, Superseded) /\ UNCHANGED faults
     \/ Fault /\ Created(h, i, stripe)      \* the old one could not be reached
  /\ pc' = [pc EXCEPT ![h] = "record"] /\ made' = [made EXCEPT ![h] = i]
  /\ UNCHANGED <<requests, rowVars, events, op, target, mine, mOrder,
                 historyVars>>

CreateRefused(h) ==
  /\ op[h] = "confirm" /\ pc[h] = "prepare" /\ Fault
  /\ stripe' = Superseded
  /\ Leave(h) /\ Keep(h, mOrder)
  /\ UNCHANGED <<requests, rowVars, events, historyVars>>

\* Variant: isPaid as in the environment "dev".
RecordIntentPaid(h) ==
  /\ op[h] = "confirm" /\ pc[h] = "record"
  /\ intent' = [intent EXCEPT ![mOrder.of] = made[h]]
  /\ WriteRow(mOrder, [mOrder.row EXCEPT !.paid = TRUE])
  /\ Goto(h, "charge") /\ UNCHANGED <<flags, stripe>>
  /\ mOrder' = [mOrder EXCEPT !.intent = made[h]]
  /\ UNCHANGED <<requests, events, faults, crossed, outrun, unasked>>

\* mOrder, whichever it is now, gets the intent.  A card is charged next; with
\* GooglePay or ApplePay the client is given the secret of the intent.
RecordIntent(h) ==
  /\ op[h] = "confirm" /\ pc[h] = "record"
  /\ intent' = [intent EXCEPT ![mOrder.of] = made[h]]
  /\ \/ /\ Goto(h, "charge") /\ UNCHANGED stripe
        /\ mOrder' = [mOrder EXCEPT !.intent = made[h]]
     \/ /\ Leave(h) /\ Give(made[h])
        /\ Keep(h, [mOrder EXCEPT !.intent = made[h]])
  /\ UNCHANGED <<requests, order, seal, flags, events, faults, historyVars>>

\* paymentIntentConfirm: the card is charged.
Charge(h) ==
  /\ op[h] = "confirm" /\ pc[h] = "charge" /\ stripe[made[h]].state = "new"
  /\ Move(made[h], "charged") /\ Report("paid", made[h])
  /\ \/ Goto(h, "commit") /\ UNCHANGED <<mOrder, faults>>
     \/ Fault /\ Leave(h) /\ Keep(h, mOrder)        \* the answer is lost
  /\ UNCHANGED <<requests, rowVars, historyVars>>

\* Variant: the result is not looked at.
ChargeRefusedGoesOn(h) ==
  /\ op[h] = "confirm" /\ pc[h] = "charge"
  /\ Goto(h, "commit")
  /\ UNCHANGED <<requests, rowVars, stripeVars, mOrder, faults, historyVars>>

\* It is not: no funds, or a second factor is asked for; with the secret the
\* client may still pay.  Or the intent was canceled by another confirmation.
ChargeRefused(h) ==
  /\ op[h] = "confirm" /\ pc[h] = "charge"
  /\ Give(made[h])
  /\ \/ Leave(h) /\ Keep(h, mOrder)
     \/ /\ stripe[made[h]].state = "new"
        /\ Goto(h, "request") /\ UNCHANGED mOrder
  /\ UNCHANGED <<requests, rowVars, events, faults, historyVars>>

RequestAction(h) ==
  /\ op[h] = "confirm" /\ pc[h] = "request"
  /\ Raise(mOrder.of, "requested")
  /\ Leave(h) /\ Keep(h, mOrder)
  /\ UNCHANGED <<requests, order, seal, intent, stripeVars, faults,
                 historyVars>>

\* mOrder as the handler has it in memory after its updates; whether it is
\* an event was found out from the order the intent was made for.
Confirmed(h) ==
  [mOrder EXCEPT !.intent = made[h],
     !.row.status = IF stripe[made[h]].order \in Split THEN @
                    ELSE "processing"]

\* The transaction after a charge; the checksum written once more after it
\* is the same.
Commit(h) ==
  /\ op[h] = "confirm" /\ pc[h] = "commit"
  /\ intent' = IF mOrder.intent = made[h] THEN intent
               ELSE [intent EXCEPT ![mOrder.of] = made[h]]
  /\ WriteRow(mOrder, Confirmed(h).row)
  /\ Leave(h) /\ Keep(h, Confirmed(h))
  /\ UNCHANGED <<requests, flags, stripeVars, faults, crossed, outrun,
                 unasked>>

\* It is rolled back, the instance in memory is not, and the refund is next.
CommitFails(h) ==
  /\ op[h] = "confirm" /\ pc[h] = "commit" /\ Fault
  /\ mOrder' = Confirmed(h) /\ Goto(h, "ask")
  /\ UNCHANGED <<requests, rowVars, stripeVars, historyVars>>

\* The client pays on his device.
ClientPays(i) ==
  /\ stripe[i].state = "given"
  /\ Move(i, "charged") /\ Report("paid", i)
  /\ UNCHANGED <<requests, rowVars, handlerVars, mOrder, faults, historyVars>>

-----------------------------------------------------------------------------
(* Webhooks.                                                               *)

\* The order of the metadata must name the intent, and belong to the client.
Found(i) ==
  /\ stripe[i].order = stripe[i].client
  /\ intent[stripe[i].order] = i

\* Variant: an order that is in processing is taken to be paid.
WantedUntilProcessing(kind, o) ==
  IF kind = "paid" THEN order[o].status # "processing"
  ELSE order[o].paid /\ ~order[o].refunded

\* What the handler looks for before it writes: "paid" and "refunded" are the
\* events charge.succeeded and charge.refunded.
Wanted(kind, o) ==
  IF kind = "paid" THEN ~order[o].paid
  ELSE order[o].paid /\ ~order[o].refunded

HookRead(h, kind, i) ==
  LET o == stripe[i].order IN
  /\ <<kind, i>> \in events /\ Found(i) /\ Sealed(o) /\ Wanted(kind, o)
  /\ Begin(h, kind, "write", o, i)
  /\ mine' = [mine EXCEPT ![h] = CopyOf(o)]
  /\ events' = events \ {<<kind, i>>}
  /\ UNCHANGED <<rowVars, stripe, mOrder, faults, historyVars>>

\* The handler does nothing, and the route answers success all the same.
HookIgnores(kind, i) ==
  LET o == stripe[i].order IN
  /\ <<kind, i>> \in events /\ ~(Found(i) /\ Sealed(o) /\ Wanted(kind, o))
  /\ events' = events \ {<<kind, i>>}
  /\ outrun' = IF kind = "refunded" /\ Found(i) /\ ~order[o].paid
               THEN outrun \cup {o} ELSE outrun
  /\ UNCHANGED <<requests, rowVars, stripe, handlerVars, mOrder, faults, stale,
                 crossed, unasked>>

\* Variant: a status that the column does not have.
PaidRowOwnStatus(o, row) == [row EXCEPT !.paid = TRUE, !.status = "paid"]

PaidRow(o, row) ==
  [row EXCEPT !.paid = TRUE,
              !.status = IF o \in Split THEN @ ELSE "processing"]

\* The order is paid, whatever became of it; a refund is asked for when the
\* instance in memory says so.
HookPaid(h) ==
  LET new == PaidRow(target[h], mine[h].row) IN
  /\ op[h] = "paid" /\ pc[h] = "write"
  /\ WriteRow(mine[h], new)
  /\ IF /\ new.status # "processing" \/ "byClient" \in mine[h].flags
        /\ {"requested", "confirmed"} \subseteq mine[h].flags
        /\ ~new.refunded
     THEN Goto(h, "ask") ELSE Leave(h)
  /\ UNCHANGED <<requests, intent, flags, stripeVars, mOrder, faults, crossed,
                 outrun, unasked>>

HookRefunded(h) ==
  /\ op[h] = "refunded" /\ pc[h] = "write"
  /\ WriteRow(mine[h],
       [mine[h].row EXCEPT !.status = "refunded", !.refunded = TRUE])
  /\ Leave(h)
  /\ UNCHANGED <<requests, intent, flags, stripeVars, mOrder, faults, crossed,
                 outrun, unasked>>

-----------------------------------------------------------------------------
(* The order is canceled, or goes on.                                      *)

\* A handler or a job reads an order to which "guard" applies.
ReadFor(h, name, o, guard) ==
  /\ guard
  /\ Begin(h, name, "write", o, intent[o])
  /\ mine' = [mine EXCEPT ![h] = CopyOf(o)]
  /\ UNCHANGED <<rowVars, stripeVars, mOrder, faults, historyVars>>

Unconfirmed(o) == order[o].status = "processing" /\ "confirmed" \notin flags[o]

ClientCancelRead(h, o) ==
  ReadFor(h, "client", o,
          Unconfirmed(o) /\ Sealed(o) /\ "byClient" \notin flags[o])
RestaurantCancelRead(h, o) ==
  ReadFor(h, "restaurant", o,
          Unconfirmed(o) /\ Sealed(o) /\ "byClient" \notin flags[o])
NotifyRead(h, o) ==
  ReadFor(h, "notify", o, Unconfirmed(o) /\ "byClient" \notin flags[o])
PushRead(h, o) ==
  ReadFor(h, "push", o,
          /\ o \notin Split /\ order[o].paid
          /\ order[o].status \in {"processing", "created"}
          /\ flags[o] \cap {"confirmed", "byClient", "pushed"} = {})
AcceptRead(h, o) ==
  ReadFor(h, "accept", o, o \in Split /\ order[o].status = "created")
RejectRead(h, o) ==
  ReadFor(h, "reject", o, o \in Split /\ order[o].status = "created")

Canceled(h) == [mine[h].row EXCEPT !.status = "canceled"]

\* The client or a restaurant cancels; the money is asked for next.
CancelWrite(h) ==
  /\ op[h] \in {"client", "restaurant"} /\ pc[h] = "write"
  /\ WriteRow(mine[h], Canceled(h))
  /\ IF op[h] = "client" THEN Raise(target[h], "byClient") ELSE UNCHANGED flags
  /\ Goto(h, "ask")
  /\ UNCHANGED <<requests, intent, stripeVars, mOrder, faults, crossed, outrun,
                 unasked>>

\* Variant: Stripe is not asked.
AskNothing(h) ==
  /\ pc[h] = "ask" /\ UNCHANGED stripeVars
  /\ Leave(h) /\ Keep(h, mOrder)
  /\ UNCHANGED <<requests, rowVars, faults, historyVars>>

\* paymentIntentRefund, and paymentIntentCancel for a cancellation, in
\* either order: the one that fits the state of the intent succeeds, and none
\* may fit.  Neither result is looked at.
Ask(h) ==
  LET i == made[h]
      Refundable == i # None /\ stripe[i].state = "charged"
      Cancelable == /\ op[h] \in {"client", "restaurant"}
                    /\ i # None /\ stripe[i].state \in {"new", "given"}
  IN
  /\ pc[h] = "ask"
  /\ \/ Refundable /\ Move(i, "refunded") /\ Report("refunded", i)
     \/ Cancelable /\ Move(i, "canceled") /\ UNCHANGED events
     \/ ~Refundable /\ ~Cancelable /\ UNCHANGED stripeVars
  /\ Leave(h) /\ Keep(h, mOrder)
  /\ UNCHANGED <<requests, rowVars, faults, historyVars>>

\* The suppliers did not accept, see SupplierConfirmation.
NotifyWrite(h) ==
  /\ op[h] = "notify" /\ pc[h] = "write"
  /\ WriteRow(mine[h], Canceled(h))
  /\ unasked' = unasked \cup {target[h]}
  /\ Leave(h)
  /\ UNCHANGED <<requests, intent, flags, stripeVars, mOrder, faults, crossed,
                 outrun>>

\* The delayed order is pushed to the restaurants, or, if its transaction
\* fails, canceled.
PushWrite(h) ==
  /\ op[h] = "push" /\ pc[h] = "write"
  /\ WriteRow(mine[h], [mine[h].row EXCEPT !.status = "processing"])
  /\ Raise(target[h], "pushed") /\ Leave(h)
  /\ UNCHANGED <<requests, intent, stripeVars, mOrder, faults, crossed, outrun,
                 unasked>>

PushFails(h) ==
  /\ op[h] = "push" /\ pc[h] = "write" /\ Fault
  /\ WriteRow(mine[h], Canceled(h)) /\ Goto(h, "ask")
  /\ UNCHANGED <<requests, intent, flags, stripeVars, mOrder, crossed, outrun,
                 unasked>>

\* Variant: no checksum.
AcceptWriteUnsealed(h) ==
  /\ op[h] = "accept" /\ pc[h] = "write"
  /\ WriteColumns(mine[h], [mine[h].row EXCEPT !.status = "processing"])
  /\ Raise(target[h], "confirmed") /\ Leave(h)
  /\ UNCHANGED <<requests, seal, intent, stripeVars, mOrder, faults,
                 historyVars>>

AcceptWrite(h) ==
  /\ op[h] = "accept" /\ pc[h] = "write"
  /\ WriteRow(mine[h], [mine[h].row EXCEPT !.status = "processing"])
  /\ Raise(target[h], "confirmed") /\ Leave(h)
  /\ UNCHANGED <<requests, intent, stripeVars, mOrder, faults, crossed, outrun,
                 unasked>>

\* No checksum, and no refund: the column that should name the intent,
\* stripePaymentIntentId, does not exist.
RejectWrite(h) ==
  /\ op[h] = "reject" /\ pc[h] = "write"
  /\ WriteColumns(mine[h], Canceled(h))
  /\ unasked' = unasked \cup {target[h]}
  /\ Leave(h)
  /\ UNCHANGED <<requests, seal, intent, flags, stripeVars, mOrder, faults,
                 stale, crossed, outrun>>

\* The job that rejects expired on-site orders, in one transaction with locked rows.
Expire(o) ==
  /\ o \in OnSite /\ order[o].status = "created"
  /\ WriteColumns(CopyOf(o), [order[o] EXCEPT !.status = "canceled"])
  /\ unasked' = unasked \cup {o}
  /\ UNCHANGED <<requests, seal, intent, flags, stripeVars, handlerVars,
                 mOrder, faults, stale, crossed, outrun>>

\* All suppliers accept, see SupplierConfirmation.
SuppliersConfirm(o) ==
  /\ o \notin Split /\ Unconfirmed(o)
  /\ Raise(o, "confirmed")
  /\ UNCHANGED <<requests, order, seal, intent, stripeVars, handlerVars,
                 mOrder, faults, historyVars>>

-----------------------------------------------------------------------------
(* Failures.                                                               *)

\* The database or Stripe fails, the handler answers with an error: a webhook
\* is answered success even so.
Fails(h) ==
  /\ op[h] # "none" /\ pc[h] # "commit" /\ Fault
  /\ op[h] = "push" => pc[h] = "ask"
  /\ Leave(h) /\ Keep(h, mOrder)
  /\ UNCHANGED <<requests, rowVars, stripeVars, historyVars>>

\* The process dies; Stripe sends again what was not answered.
Crash ==
  /\ Fault /\ \E h \in Handlers : op[h] # "none"
  /\ op' = [h \in Handlers |-> "none"] /\ pc' = [h \in Handlers |-> "idle"]
  /\ target' = [h \in Handlers |-> None] /\ made' = [h \in Handlers |-> None]
  /\ mine' = [h \in Handlers |-> NoCopy] /\ mOrder' = NoCopy
  /\ events' = events \cup {<<op[h], made[h]>> :
                 h \in {x \in Handlers : op[x] \in {"paid", "refunded"}}}
  /\ UNCHANGED <<requests, rowVars, stripe, historyVars>>

Confirm(h) ==
  \/ \E o \in Orders : ConfirmRead(h, o)
  \/ \E i \in Intents : CreateIntent(h, i)
  \/ CreateRefused(h) \/ RecordIntent(h) \/ Charge(h) \/ ChargeRefused(h)
  \/ RequestAction(h) \/ Commit(h) \/ CommitFails(h)

Hook(h) ==
  \/ \E kind \in {"paid", "refunded"}, i \in Intents : HookRead(h, kind, i)
  \/ HookPaid(h) \/ HookRefunded(h)

Read(h, o) ==
  \/ ClientCancelRead(h, o) \/ RestaurantCancelRead(h, o) \/ NotifyRead(h, o)
  \/ PushRead(h, o) \/ AcceptRead(h, o) \/ RejectRead(h, o)

Write(h) ==
  \/ CancelWrite(h) \/ NotifyWrite(h) \/ PushWrite(h) \/ PushFails(h)
  \/ AcceptWrite(h) \/ RejectWrite(h) \/ Ask(h)

Next ==
  \/ \E h \in Handlers :
       \/ Confirm(h) \/ Hook(h) \/ Write(h) \/ Fails(h)
       \/ \E o \in Orders : Read(h, o)
  \/ \E i \in Intents :
       ClientPays(i) \/ \E kind \in {"paid", "refunded"} : HookIgnores(kind, i)
  \/ \E o \in Orders : Expire(o) \/ SuppliersConfirm(o)
  \/ Crash

Spec == Init /\ [][Next]_vars

-----------------------------------------------------------------------------
(* Properties.                                                             *)

\* Stripe has charged, or has paid back, an intent made for this order by
\* its client.
Own(o) == {i \in Intents : stripe[i].order = o /\ stripe[i].client = o}
ChargedFor(o) == {i \in Own(o) : stripe[i].state = "charged"}
PaidBackFor(o) == {i \in Own(o) : stripe[i].state = "refunded"}

\* Orders for which at most one intent was charged: with a second attempt of
\* the client the first intent may be charged all the same.
ChargedOnce ==
  {o \in Orders : \A i, j \in ChargedFor(o) \cup PaidBackFor(o) : i = j}

\* Every webhook has been handled and no request is in flight.
AtRest == events = {} /\ \A h \in Handlers : op[h] = "none"

\* Orders written from a copy that was out of date, or without a checksum:
\* rejected or expired.
Broken == stale \cup (Split \cap unasked)

\* What the row says of the money is true: an order is marked as paid only
\* when an intent of its own was charged, even where a confirmation has
\* given it the intent of another order, and as refunded only when it was
\* paid back (charge.handler: the lookup, the checks, the two updates).
MoneyFlagsAreTrue ==
  \A o \in Orders :
    /\ order[o].paid => ChargedFor(o) \cup PaidBackFor(o) # {}
    /\ order[o].refunded => PaidBackFor(o) # {}

\* An order of the usual kind is in the hands of the restaurants only when
\* its client was charged for it, unless confirmations were in flight at the
\* same time, in which case one moves the order of the other (confirm:
\* "mOrder =" at :32).
ProcessingWasCharged ==
  \A o \in Orders \ (Split \cup crossed) :
    order[o].status = "processing" => ChargedFor(o) \cup PaidBackFor(o) # {}

\* The row satisfies its checksum, without which no webhook and no
\* cancellation touches it, unless somebody wrote it from a copy that was
\* out of date, or a restaurant has rejected it or let it expire; an order
\* that can still be confirmed always does.
OrderStaysSealed ==
  \A o \in Orders :
    /\ Sealed(o) \/ o \in Broken
    /\ order[o].status = "created" => Sealed(o)

\* When everything has been handled and nothing has failed, the books of the
\* application and of Stripe agree about the intent an order names: charged,
\* the order is paid and not refunded, paid back, it is both and not with
\* the restaurants.  Except for an order whose checksum has been broken, whose
\* confirmations crossed, or whose refund was reported before its payment.
BooksAgreeAtRest ==
  AtRest /\ faults = 0 =>
    \A o \in ChargedOnce \ (crossed \cup outrun \cup Broken) :
      intent[o] \in Own(o) =>
        CASE stripe[intent[o]].state = "charged" ->
               order[o].paid /\ ~order[o].refunded
          [] stripe[intent[o]].state = "refunded" ->
               /\ order[o].paid /\ order[o].refunded
               /\ order[o].status = "refunded"
          [] OTHER -> TRUE

\* Nobody pays for an order that was canceled: when everything has been
\* handled and nothing has failed, the intent it names is not charged, unless
\* it was canceled by a job or a restaurant that asks for no refund, or its
\* confirmations crossed.
CanceledIsPaidBack ==
  AtRest /\ faults = 0 =>
    \A o \in ChargedOnce \ (crossed \cup unasked) :
      order[o].status = "canceled" =>
        intent[o] = None \/ stripe[intent[o]].state # "charged"

\* A paid order that the restaurant rejects, or lets expire, is refunded
\* (ON_SITE_PRESENCE_POSTMAN_TEST_GUIDE.md:589, :624).
RejectedIsPaidBack ==
  \A o \in Split :
    order[o].status = "canceled" /\ order[o].paid => ChargedFor(o) = {}
=============================================================================
