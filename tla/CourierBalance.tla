--------------------------- MODULE CourierBalance ---------------------------
(***************************************************************************)
(* The balance of a courier.  Delivering an order adds its delivery price, *)
(* a request of withdrawal takes its amount out, an admin approves it (the *)
(* money goes out through Stripe, the part he does not approve comes back) *)
(* or rejects it (all of it comes back).  Every handler reads the rows,    *)
(* checks them, computes the new values in memory and writes them back     *)
(* with a checksum over what it has in memory: the transaction locks the   *)
(* rows it writes, not those it has read.  Stripe is asked before the      *)
(* transaction commits.                                                    *)
(*                                                                         *)
(* Handlers are the requests in flight.  A row is a record of the columns  *)
(* that its checksum covers and that change; the checksum is the record it *)
(* was computed from.  What a transaction has written and not committed is *)
(* a function of its program counter.                                      *)
(***************************************************************************)
EXTENDS Cents, FiniteSets

CONSTANTS
  Handlers, Requests, Orders,
  Price,        \* Order.deliveryPrice
  Amounts,      \* what the courier may ask for
  Approvals,    \* what an admin may enter
  Dollar,       \* a dollar, in the unit of the amounts, which is a cent
  Below,        \* pairs of amounts whose difference, in doubles, is just below
                \* the exact one
  MaxFaults,    \* bound: failures of Stripe, of the database, of the process
  MaxStale,     \* bound: rows in "stale" with which requests are still made
  None

ASSUME BalanceAssumption ==
  /\ Price \in Nat \ {0} /\ Dollar \in Nat \ {0}
  /\ MaxFaults \in Nat /\ MaxStale \in Nat
  /\ Amounts \subseteq Nat \ {0} /\ Approvals \subseteq Nat \ {0}
  /\ \A p \in Below : p \in Nat \X Nat /\ p[2] < p[1]
  /\ None \notin Requests \cup Orders /\ Requests \cap Orders = {}
  /\ "courier" \notin Requests

VARIABLES
  courier, courierSeal,      \* the row of Courier and its checksum
  activeOrder, delivered,
  request, requestSeal,      \* CourierWithdrawRequest; amount 0: no such row
  \* a handler: what it does, on which row, the amount it was given, the rows
  \* as it has read them
  op, pc, target, asked, mCourier, mRequest,
  faults,
  \* history: which copies are still what the database has; the rows written
  \* from a copy that was not; the balance had every change been applied to
  \* the row itself; what Stripe has sent, and how much of it by transactions
  \* that did not commit
  fresh, stale, due, sent, stray

courierVars == <<courier, courierSeal, activeOrder, delivered>>
requestVars == <<request, requestSeal>>
handlerVars == <<op, pc, target, asked, mCourier, mRequest>>
moneyVars   == <<sent, stray>>
vars == <<courierVars, requestVars, handlerVars, faults, fresh, stale, due,
          moneyVars>>

CourierRow == [balance : Nat, orders : Nat, restricted : BOOLEAN]
RequestRow == [amount : Nat, initialized : BOOLEAN, accepted : BOOLEAN,
               rejected : BOOLEAN, approved : Nat, refunded : Nat]

NewCourier == [balance |-> 0, orders |-> 0, restricted |-> FALSE]
NewRequest(a) == [amount |-> a, initialized |-> FALSE, accepted |-> FALSE,
                  rejected |-> FALSE, approved |-> 0, refunded |-> 0]

CourierTypeOK ==
  /\ courier \in CourierRow /\ courierSeal \in CourierRow
  /\ activeOrder \in Orders \cup {None} /\ delivered \subseteq Orders
  /\ request \in [Requests -> RequestRow]
  /\ requestSeal \in [Requests -> RequestRow]
  /\ op \in [Handlers ->
             {"none", "create", "deliver", "approve", "reject", "restrict"}]
  /\ pc \in [Handlers -> {"idle", "order", "courier", "begin", "balance",
                          "request", "transfer", "sent", "write"}]
  /\ target \in [Handlers -> Requests \cup Orders \cup {None}]
  /\ asked \in [Handlers -> Nat]
  /\ mCourier \in [Handlers -> CourierRow]
  /\ mRequest \in [Handlers -> RequestRow]
  /\ faults \in 0 .. MaxFaults
  /\ fresh \in [Handlers -> SUBSET {"courier", "request"}]
  /\ stale \subseteq {"courier"} \cup Requests
  /\ due \in Int
  /\ sent \in [Requests -> Nat] /\ stray \in [Requests -> Nat]

Init ==
  /\ courier = NewCourier /\ courierSeal = NewCourier
  /\ activeOrder = None /\ delivered = {}
  /\ request = [r \in Requests |-> NewRequest(0)]
  /\ requestSeal = [r \in Requests |-> NewRequest(0)]
  /\ op = [h \in Handlers |-> "none"] /\ pc = [h \in Handlers |-> "idle"]
  /\ target = [h \in Handlers |-> None] /\ asked = [h \in Handlers |-> 0]
  /\ mCourier = [h \in Handlers |-> NewCourier]
  /\ mRequest = [h \in Handlers |-> NewRequest(0)]
  /\ faults = 0
  /\ fresh = [h \in Handlers |-> {}] /\ stale = {} /\ due = 0
  /\ sent = [r \in Requests |-> 0] /\ stray = [r \in Requests |-> 0]

-----------------------------------------------------------------------------
(* Helpers.                                                                *)

\* isValidChecksum
Sealed == courierSeal = courier
SealedRequest(r) == requestSeal[r] = request[r]

\* update of the instance "copy" to "mine": only the columns that differ are
\* written.
Written(row, copy, mine) ==
  [c \in DOMAIN row |-> IF mine[c] # copy[c] THEN mine[c] ELSE row[c]]

\* Variant: Math.ceil.
RoundedUp(twice) == Dollar * ((twice + 2 * Dollar - 1) \div (2 * Dollar))

\* (x).toFixed() of half of "twice": whole dollars, a half is rounded up.
Rounded(twice) == Dollar * ((twice + Dollar) \div (2 * Dollar))

\* What an approval leaves over, as refundedAmount.  A difference just below a
\* half, 8.20 - 0.70 for one, is rounded down.
LeftOver(h) ==
  Rounded(2 * (mRequest[h].amount - asked[h])
            - IF <<mRequest[h].amount, asked[h]>> \in Below THEN 1 ELSE 0)
Partial(h) == asked[h] # mRequest[h].amount

\* The rows a transaction has written and not yet committed.
HoldsCourier(h) ==
  \/ pc[h] = "request"
  \/ pc[h] \in {"transfer", "sent"} /\ Partial(h)
HoldsRequest(h, r) ==
  target[h] = r /\ pc[h] \in {"balance", "transfer", "sent"}
CourierFree == \A h \in Handlers : ~HoldsCourier(h)
RequestFree(r) == \A h \in Handlers : ~HoldsRequest(h, r)

Goto(h, label) ==
  /\ pc' = [pc EXCEPT ![h] = label]
  /\ UNCHANGED <<op, target, asked, mCourier, mRequest>>

Begin(h, name, label, on, a) ==
  /\ pc[h] = "idle"
  /\ op' = [op EXCEPT ![h] = name]
  /\ pc' = [pc EXCEPT ![h] = label]
  /\ target' = [target EXCEPT ![h] = on]
  /\ asked' = [asked EXCEPT ![h] = a]

\* The handler answers and forgets its rows.
Leave(h) ==
  /\ op' = [op EXCEPT ![h] = "none"]
  /\ pc' = [pc EXCEPT ![h] = "idle"]
  /\ target' = [target EXCEPT ![h] = None]
  /\ asked' = [asked EXCEPT ![h] = 0]
  /\ mCourier' = [mCourier EXCEPT ![h] = NewCourier]
  /\ mRequest' = [mRequest EXCEPT ![h] = NewRequest(0)]

\* The same without a commit: the transaction, if there is one, is rolled back.
Abandon(h) ==
  /\ Leave(h)
  /\ fresh' = [fresh EXCEPT ![h] = {}]
  /\ UNCHANGED <<courierVars, requestVars, stale, due, sent>>

ReadsCourier(h) ==
  /\ mCourier' = [mCourier EXCEPT ![h] = courier]
  /\ fresh' = [fresh EXCEPT ![h] = @ \cup {"courier"}]

\* History of a commit by h that writes the row of the courier ("courier")
\* or of a request: the other copies of that row are out of date now.
Outdates(h, rows) ==
  /\ fresh' = [x \in Handlers |->
       fresh[x] \ ( (IF "courier" \in rows THEN {"courier"} ELSE {}) \cup
                    (IF target[x] \in rows THEN {"request"} ELSE {}) \cup
                    (IF x = h THEN {"courier", "request"} ELSE {}) )]
  /\ stale' = stale \cup
       {row \in rows : IF row = "courier" THEN "courier" \notin fresh[h]
                       ELSE target[h] = row /\ "request" \notin fresh[h]}

WriteCourier(h, mine) ==
  /\ courier' = Written(courier, mCourier[h], mine)
  /\ courierSeal' = mine

WriteRequest(h, mine) ==
  /\ request' = [request EXCEPT ![target[h]] = Written(@, mRequest[h], mine)]
  /\ requestSeal' = [requestSeal EXCEPT ![target[h]] = mine]

Fault == faults < MaxFaults /\ faults' = faults + 1

-----------------------------------------------------------------------------
(* The courier asks for a withdrawal.                                      *)

\* Variant: the balance is not looked at.
StartCreateUnchecked(h, r, a) ==
  /\ request[r].amount = 0 /\ \A x \in Handlers : target[x] # r
  /\ Begin(h, "create", "write", r, a)
  /\ Sealed /\ ~courier.restricted
  /\ ReadsCourier(h) /\ UNCHANGED mRequest
  /\ UNCHANGED <<courierVars, requestVars, faults, stale, due, moneyVars>>

\* The checks of create, on req.courier.  The new row is set aside here, a
\* bound: there is none left when all of them are taken.
StartCreate(h, r, a) ==
  /\ request[r].amount = 0 /\ \A x \in Handlers : target[x] # r
  /\ Begin(h, "create", "write", r, a)
  /\ Sealed /\ ~courier.restricted /\ a <= courier.balance
  /\ ReadsCourier(h) /\ UNCHANGED mRequest
  /\ UNCHANGED <<courierVars, requestVars, faults, stale, due, moneyVars>>

\* A new row, and the amount is taken out of the balance that was read.
Create(h) ==
  /\ op[h] = "create" /\ pc[h] = "write" /\ CourierFree
  /\ request' = [request EXCEPT ![target[h]] = NewRequest(asked[h])]
  /\ requestSeal' = [requestSeal EXCEPT ![target[h]] = NewRequest(asked[h])]
  /\ WriteCourier(h, [mCourier[h] EXCEPT !.balance = @ - asked[h]])
  /\ due' = due - asked[h]
  /\ Outdates(h, {"courier"}) /\ Leave(h)
  /\ UNCHANGED <<activeOrder, delivered, faults, moneyVars>>

-----------------------------------------------------------------------------
(* The courier delivers his order.                                         *)

\* Accepting an order, see CourierDispatch.
TakeOrder(o) ==
  /\ activeOrder = None /\ o \notin delivered
  /\ activeOrder' = o
  /\ UNCHANGED <<courier, courierSeal, delivered, requestVars, handlerVars,
                 faults, fresh, stale, due, moneyVars>>

\* set-as-delivered or client-didnt-get-in-touch: req.courier, with its order ...
StartDeliver(h) ==
  /\ Begin(h, "deliver", "order", activeOrder, 0)
  /\ Sealed /\ activeOrder # None
  /\ ReadsCourier(h) /\ UNCHANGED mRequest
  /\ UNCHANGED <<courierVars, requestVars, faults, stale, due, moneyVars>>

\* ... then the order, if it is still processing ...
FindOrder(h) ==
  /\ pc[h] = "order" /\ target[h] \notin delivered
  /\ Goto(h, "write")
  /\ UNCHANGED <<courierVars, requestVars, faults, fresh, stale, due, moneyVars>>

OrderNotFound(h) ==
  /\ pc[h] = "order" /\ target[h] \in delivered
  /\ Abandon(h) /\ UNCHANGED <<faults, stray>>

Earns(row) == [row EXCEPT !.balance = @ + Price, !.orders = @ + 1]

\* Variant: "checksum" is the first key of the update instead of the last.
DeliverSealsFirst(h) ==
  /\ op[h] = "deliver" /\ pc[h] = "write" /\ CourierFree
  /\ courier' = Written(courier, mCourier[h], Earns(mCourier[h]))
  /\ courierSeal' = mCourier[h]
  /\ activeOrder' = None /\ delivered' = delivered \cup {target[h]}
  /\ due' = due + Price
  /\ Outdates(h, {"courier"}) /\ Leave(h)
  /\ UNCHANGED <<requestVars, faults, moneyVars>>

\* ... and both are written.
Deliver(h) ==
  /\ op[h] = "deliver" /\ pc[h] = "write" /\ CourierFree
  /\ WriteCourier(h, Earns(mCourier[h]))
  /\ activeOrder' = None /\ delivered' = delivered \cup {target[h]}
  /\ due' = due + Price
  /\ Outdates(h, {"courier"}) /\ Leave(h)
  /\ UNCHANGED <<requestVars, faults, moneyVars>>

-----------------------------------------------------------------------------
(* The admins answer.                                                      *)

\* Variant: only a request that was rejected cannot be approved.
OpenForApprovalLax(r) == SealedRequest(r) /\ ~request[r].rejected

\* The checks of approve on the request.
OpenForApproval(r) ==
  /\ ~request[r].initialized /\ SealedRequest(r)
  /\ ~request[r].rejected /\ ~request[r].accepted

StartApprove(h, r, a) ==
  /\ OpenForApproval(r) /\ a <= request[r].amount
  /\ Begin(h, "approve", "courier", r, a)
  /\ mRequest' = [mRequest EXCEPT ![h] = request[r]]
  /\ fresh' = [fresh EXCEPT ![h] = {"request"}]
  /\ UNCHANGED <<courierVars, requestVars, mCourier, faults, stale, due,
                 moneyVars>>

\* The checks of reject, which do not look at isInitialized.
StartReject(h, r) ==
  /\ request[r].amount > 0 /\ SealedRequest(r)
  /\ ~request[r].rejected /\ ~request[r].accepted
  /\ Begin(h, "reject", "courier", r, 0)
  /\ mRequest' = [mRequest EXCEPT ![h] = request[r]]
  /\ fresh' = [fresh EXCEPT ![h] = {"request"}]
  /\ UNCHANGED <<courierVars, requestVars, mCourier, faults, stale, due,
                 moneyVars>>

\* Both read the courier next.
FindCourier(h) ==
  /\ pc[h] = "courier" /\ ~courier.restricted /\ Sealed
  /\ ReadsCourier(h)
  /\ pc' = [pc EXCEPT ![h] = "begin"]
  /\ UNCHANGED <<op, target, asked, mRequest, courierVars, requestVars, faults,
                 stale, due, moneyVars>>

CourierNotFound(h) ==
  /\ pc[h] = "courier" /\ (courier.restricted \/ ~Sealed)
  /\ Abandon(h) /\ UNCHANGED <<faults, stray>>

\* The first update of approve locks the request; a partial approval that
\* leaves over less than half a dollar is refused.
WriteApproval(h) ==
  /\ op[h] = "approve" /\ pc[h] = "begin" /\ RequestFree(target[h])
  /\ ~Partial(h) \/ LeftOver(h) > 0
  /\ Goto(h, IF Partial(h) THEN "balance" ELSE "transfer")
  /\ UNCHANGED <<courierVars, requestVars, faults, fresh, stale, due, moneyVars>>

\* Variant: the answer is sent and the transaction is not rolled back.
NothingLeftOverLeaks(h) ==
  /\ op[h] = "approve" /\ pc[h] = "begin" /\ RequestFree(target[h])
  /\ Partial(h) /\ LeftOver(h) = 0
  /\ Goto(h, "leaked")
  /\ UNCHANGED <<courierVars, requestVars, faults, fresh, stale, due, moneyVars>>

NothingLeftOver(h) ==
  /\ op[h] = "approve" /\ pc[h] = "begin" /\ RequestFree(target[h])
  /\ Partial(h) /\ LeftOver(h) = 0
  /\ Abandon(h) /\ UNCHANGED <<faults, stray>>

\* The rest of a partial approval goes back to the courier, whose row is locked
\* by that.
WriteLeftOver(h) ==
  /\ pc[h] = "balance" /\ CourierFree
  /\ Goto(h, "transfer")
  /\ UNCHANGED <<courierVars, requestVars, faults, fresh, stale, due, moneyVars>>

\* Stripe sends the money, in cents.  The payout from the courier's Stripe account to his
\* bank follows; it only decides isCompleted, which is never set without
\* isInitialized.
Transfer(h) ==
  /\ pc[h] = "transfer"
  /\ sent' = [sent EXCEPT ![target[h]] = @ + InCents(asked[h])]
  /\ Goto(h, "sent")
  /\ UNCHANGED <<courierVars, requestVars, faults, fresh, stale, due, stray>>

\* Stripe refuses.
TransferRefused(h) ==
  /\ pc[h] = "transfer" /\ Fault
  /\ Abandon(h) /\ UNCHANGED stray

Approved(h) ==
  [mRequest[h] EXCEPT !.initialized = TRUE, !.accepted = TRUE,
     !.approved = asked[h],
     !.refunded = IF Partial(h) THEN LeftOver(h) ELSE 0]

\* Variant: the approved amount goes back to the balance, not the rest.
ApproveGivesBack(h) ==
  /\ pc[h] = "sent"
  /\ WriteRequest(h, Approved(h))
  /\ IF Partial(h)
     THEN WriteCourier(h, [mCourier[h] EXCEPT !.balance = @ + asked[h]])
     ELSE UNCHANGED <<courier, courierSeal>>
  /\ due' = due + Approved(h).refunded
  /\ Outdates(h, {target[h]} \cup IF Partial(h) THEN {"courier"} ELSE {})
  /\ Leave(h)
  /\ UNCHANGED <<activeOrder, delivered, faults, moneyVars>>

\* The last update of the request, and the commit.
Approve(h) ==
  /\ pc[h] = "sent"
  /\ WriteRequest(h, Approved(h))
  /\ IF Partial(h)
     THEN WriteCourier(h, [mCourier[h] EXCEPT !.balance = @ + LeftOver(h)])
     ELSE UNCHANGED <<courier, courierSeal>>
  /\ due' = due + Approved(h).refunded
  /\ Outdates(h, {target[h]} \cup IF Partial(h) THEN {"courier"} ELSE {})
  /\ Leave(h)
  /\ UNCHANGED <<activeOrder, delivered, faults, moneyVars>>

\* Reject writes the courier first ...
WriteReturn(h) ==
  /\ op[h] = "reject" /\ pc[h] = "begin" /\ CourierFree
  /\ Goto(h, "request")
  /\ UNCHANGED <<courierVars, requestVars, faults, fresh, stale, due, moneyVars>>

\* ... and then the request.
Reject(h) ==
  /\ pc[h] = "request" /\ RequestFree(target[h])
  /\ WriteRequest(h, [mRequest[h] EXCEPT !.rejected = TRUE])
  /\ WriteCourier(h,
       [mCourier[h] EXCEPT !.balance = @ + mRequest[h].amount])
  /\ due' = due + mRequest[h].amount
  /\ Outdates(h, {"courier", target[h]}) /\ Leave(h)
  /\ UNCHANGED <<activeOrder, delivered, faults, moneyVars>>

\* An admin restricts the courier; his checksum is not looked at, and written
\* anew.
StartRestrict(h) ==
  /\ Begin(h, "restrict", "write", None, 0)
  /\ ~courier.restricted
  /\ ReadsCourier(h) /\ UNCHANGED mRequest
  /\ UNCHANGED <<courierVars, requestVars, faults, stale, due, moneyVars>>

Restrict(h) ==
  /\ op[h] = "restrict" /\ pc[h] = "write" /\ CourierFree
  /\ WriteCourier(h, [mCourier[h] EXCEPT !.restricted = TRUE])
  /\ Outdates(h, {"courier"}) /\ Leave(h)
  /\ UNCHANGED <<activeOrder, delivered, requestVars, faults, due, moneyVars>>

-----------------------------------------------------------------------------
(* What goes wrong.                                                        *)

Waits(h) ==
  \/ (pc[h] \in {"write", "balance"} \/ (op[h] = "reject" /\ pc[h] = "begin"))
     /\ ~CourierFree
  \/ (pc[h] = "request" \/ (op[h] = "approve" /\ pc[h] = "begin"))
     /\ ~RequestFree(target[h])

\* The database gives up the wait for a row: a deadlock, or the time is over.
LockFails(h) ==
  /\ Waits(h)
  /\ Abandon(h) /\ UNCHANGED <<faults, stray>>

\* The handler throws or its process dies, before or after Stripe has sent the
\* money.
Fails(h) ==
  /\ pc[h] # "idle" /\ Fault
  /\ stray' = IF pc[h] = "sent"
              THEN [stray EXCEPT ![target[h]] = @ + InCents(asked[h])]
              ELSE stray
  /\ Abandon(h)

-----------------------------------------------------------------------------
Step(h) ==
  \/ Create(h) \/ FindOrder(h) \/ OrderNotFound(h) \/ Deliver(h)
  \/ FindCourier(h) \/ CourierNotFound(h)
  \/ WriteApproval(h) \/ NothingLeftOver(h) \/ WriteLeftOver(h)
  \/ Transfer(h) \/ Approve(h)
  \/ WriteReturn(h) \/ Reject(h) \/ Restrict(h) \/ LockFails(h)

Starts(h) ==
  /\ Cardinality(stale) <= MaxStale
  /\ \/ \E r \in Requests : \E a \in Amounts : StartCreate(h, r, a)
     \/ StartDeliver(h)
     \/ \E r \in Requests : \E a \in Approvals : StartApprove(h, r, a)
     \/ \E r \in Requests : StartReject(h, r)
     \/ StartRestrict(h)

Next ==
  \/ \E o \in Orders : TakeOrder(o)
  \/ \E h \in Handlers : Starts(h) \/ Step(h) \/ TransferRefused(h) \/ Fails(h)

Spec == Init /\ [][Next]_vars

\* A handler that was started goes on.
FairSpec == Spec /\ \A h \in Handlers : WF_vars(Step(h))

-----------------------------------------------------------------------------
(* Properties.                                                             *)

\* However the handlers interleave and fail, the balance is what it would be
\* had each change been applied to the row itself, unless a handler has written
\* the row from a copy that another one had made out of date:
\* courier/withdraw/requests/create, set-as-delivered, approve and reject all
\* write an absolute balance.
NothingLost == "courier" \notin stale => courier.balance = due

\* Under the same condition the checksum of the row is right, and the courier is
\* never locked out by "Security check error", which no handler of his could
\* repair.
CourierStaysSealed == "courier" \notin stale => Sealed

\* A request is answered once.  Not counting what transactions that did not
\* commit had sent, Stripe has sent nothing for a request that is not approved,
\* and for one that is never more than was approved, of which the conversion to
\* cents may lose one; unless a second admin wrote the request from a copy that
\* was out of date.
SettledOnce ==
  \A r \in Requests \ stale :
    /\ ~(request[r].accepted /\ request[r].rejected)
    /\ (\A h \in Handlers : ~(pc[h] = "sent" /\ target[h] = r))
       => sent[r] - stray[r] \in
            IF request[r].accepted
            THEN request[r].approved - 1 .. request[r].approved ELSE {0}

\* What was approved and what went back to the balance differ from what was
\* asked for by half a dollar at most: refundedAmount is in whole dollars.
RoundedByHalfADollar ==
  \A r \in Requests \ stale :
    request[r].accepted =>
      LET gap == request[r].approved + request[r].refunded - request[r].amount
      IN  2 * gap \in -Dollar .. Dollar

\* Every handler ends, though approve locks the request before the courier and
\* reject the courier before the request.
HandlersEnd == \A h \in Handlers : pc[h] # "idle" ~> pc[h] = "idle"
=============================================================================
