------------------------ MODULE CourierBalanceProofs ------------------------
(***************************************************************************)
(* Theorems about CourierBalance for any number of handlers, requests,     *)
(* orders and faults, and any amounts.                                     *)
(***************************************************************************)
EXTENDS CourierBalance, CentsProofs, TLAPS

-----------------------------------------------------------------------------
(* Rows.                                                                   *)

\* An update of an instance yields a row; it yields the instance itself if the
\* row has not changed since the instance was read.
LEMMA WrittenCourier ==
  ASSUME NEW row \in CourierRow, NEW copy \in CourierRow, NEW mine \in CourierRow
  PROVE  /\ Written(row, copy, mine) \in CourierRow
         /\ row = copy => Written(row, copy, mine) = mine
  <1> DEFINE w == Written(row, copy, mine)
  <1>1. /\ DOMAIN row = {"balance", "orders", "restricted"}
        /\ DOMAIN mine = {"balance", "orders", "restricted"}
    BY DEF CourierRow
  <1>2. w = [balance |-> w.balance, orders |-> w.orders,
             restricted |-> w.restricted]
    BY <1>1 DEF Written, CourierRow
  <1>3. w.balance \in Nat /\ w.orders \in Nat /\ w.restricted \in BOOLEAN
    BY <1>1 DEF Written, CourierRow
  <1>4. w \in CourierRow
    BY <1>2, <1>3 DEF CourierRow
  <1>5. ASSUME row = copy PROVE w = mine
    BY <1>5, <1>1, <1>2 DEF Written, CourierRow
  <1>6. QED
    BY <1>4, <1>5

\* The same for a request, whose amount no update changes.
LEMMA WrittenRequest ==
  ASSUME NEW row \in RequestRow, NEW copy \in RequestRow, NEW mine \in RequestRow
  PROVE  /\ Written(row, copy, mine) \in RequestRow
         /\ row = copy => Written(row, copy, mine) = mine
         /\ mine.amount = copy.amount => Written(row, copy, mine).amount = row.amount
  <1> DEFINE w == Written(row, copy, mine)
             cols == {"amount", "initialized", "accepted", "rejected",
                      "approved", "refunded"}
  <1>1. DOMAIN row = cols /\ DOMAIN mine = cols
    BY DEF RequestRow
  <1>2. w = [amount |-> w.amount, initialized |-> w.initialized,
             accepted |-> w.accepted, rejected |-> w.rejected,
             approved |-> w.approved, refunded |-> w.refunded]
    BY <1>1 DEF Written, RequestRow
  <1>3. /\ w.amount \in Nat /\ w.initialized \in BOOLEAN /\ w.accepted \in BOOLEAN
        /\ w.rejected \in BOOLEAN /\ w.approved \in Nat /\ w.refunded \in Nat
    BY <1>1 DEF Written, RequestRow
  <1>4. w \in RequestRow
    BY <1>2, <1>3 DEF RequestRow
  <1>5. ASSUME row = copy PROVE w = mine
    BY <1>5, <1>1, <1>2 DEF Written, RequestRow
  <1>6. mine.amount = copy.amount => w.amount = row.amount
    BY <1>1 DEF Written, RequestRow
  <1>7. QED
    BY <1>4, <1>5, <1>6

\* Rounding an amount, given as its double, yields an amount.
LEMMA RoundedType ==
  ASSUME NEW twice \in Nat
  PROVE  Rounded(twice) \in Nat
  <1>1. \A a, b \in Nat : b > 0 => a \div b \in Nat
    OBVIOUS
  <1>2. \A a, b \in Nat : a * b \in Nat
    OBVIOUS
  <1>3. /\ Dollar \in Nat /\ twice + Dollar \in Nat
        /\ 2 * Dollar \in Nat /\ 2 * Dollar > 0
    BY BalanceAssumption
  <1>4. (twice + Dollar) \div (2 * Dollar) \in Nat
    BY ONLY <1>1, <1>3
  <1>5. QED
    BY <1>2, <1>3, <1>4 DEF Rounded

\* ... and rounding moves an amount by at most half a dollar, also if the double
\* it is rounded from lies just below.
LEMMA RoundedNear ==
  ASSUME NEW x \in Nat, NEW twice \in Nat, twice \in {2 * x, 2 * x - 1}
  PROVE  2 * (Rounded(twice) - x) \in -Dollar .. Dollar
  <1>1. \A a, b \in Nat : b > 0 => /\ a \div b \in Nat
                                  /\ b * (a \div b) <= a /\ a < b * (a \div b) + b
    OBVIOUS
  <1>2. /\ Dollar \in Nat /\ twice + Dollar \in Nat
        /\ 2 * Dollar \in Nat /\ 2 * Dollar > 0
    BY BalanceAssumption
  <1> DEFINE k == (twice + Dollar) \div (2 * Dollar)
  <1>3. /\ k \in Nat /\ (2 * Dollar) * k <= twice + Dollar
        /\ twice + Dollar < (2 * Dollar) * k + 2 * Dollar
    BY <1>1, <1>2
  <1> HIDE DEF k
  <1>4. Dollar * k \in Nat /\ (2 * Dollar) * k = 2 * (Dollar * k)
    BY <1>2, <1>3
  <1>5. Rounded(twice) = Dollar * k
    BY DEF Rounded, k
  <1>6. \A y \in Nat : 2 * y <= twice + Dollar /\ twice + Dollar < 2 * y + 2 * Dollar
                       => 2 * (y - x) \in -Dollar .. Dollar
    BY <1>2
  <1>7. QED
    BY <1>3, <1>4, <1>5, <1>6

\* What is given back of a request that is approved in part.
LEMMA LeftOverNear ==
  ASSUME NEW h \in Handlers, mRequest[h].amount \in Nat, asked[h] \in Nat,
         asked[h] <= mRequest[h].amount
  PROVE  /\ LeftOver(h) \in Nat
         /\ 2 * (LeftOver(h) - (mRequest[h].amount - asked[h])) \in -Dollar .. Dollar
  <1> DEFINE rest  == mRequest[h].amount - asked[h]
             pair  == <<mRequest[h].amount, asked[h]>>
             twice == 2 * rest - IF pair \in Below THEN 1 ELSE 0
  <1>1. rest \in Nat
    OBVIOUS
  <1>2. pair \in Below => rest > 0
    BY BalanceAssumption
  <1>3. twice \in Nat /\ twice \in {2 * rest, 2 * rest - 1}
    BY <1>1, <1>2
  <1>4. LeftOver(h) = Rounded(twice)
    BY DEF LeftOver
  <1> HIDE DEF rest, twice
  <1>5. Rounded(twice) \in Nat /\ 2 * (Rounded(twice) - rest) \in -Dollar .. Dollar
    BY <1>1, <1>3, RoundedType, RoundedNear
  <1>6. QED
    BY <1>4, <1>5 DEF rest

-----------------------------------------------------------------------------
(* Types.  The withdrawal of a handler is covered by the balance it read,  *)
(* so no row it writes has a negative one.                                 *)

\* What a handler has in hand, by what it does.
Shape ==
  \A h \in Handlers :
    /\ op[h] = "none" <=> pc[h] = "idle"
    /\ op[h] = "none" => fresh[h] = {} /\ target[h] = None
    /\ op[h] = "create" => /\ pc[h] = "write" /\ target[h] \in Requests
                           /\ asked[h] <= mCourier[h].balance
    /\ op[h] = "deliver" => pc[h] \in {"order", "write"} /\ target[h] \in Orders
    /\ op[h] = "restrict" => pc[h] = "write" /\ target[h] = None
    /\ op[h] = "approve" =>
         pc[h] \in {"courier", "begin", "balance", "transfer", "sent"}
    /\ op[h] = "reject" => pc[h] \in {"courier", "begin", "request"}
    /\ op[h] \in {"approve", "reject"} =>
         /\ target[h] \in Requests /\ asked[h] <= mRequest[h].amount

Typed == CourierTypeOK /\ Shape

\* The rows a handler writes are rows.
LEMMA MineTyped ==
  ASSUME Typed, NEW h \in Handlers
  PROVE  /\ op[h] = "create" =>
              /\ [mCourier[h] EXCEPT !.balance = @ - asked[h]] \in CourierRow
              /\ NewRequest(asked[h]) \in RequestRow
         /\ Earns(mCourier[h]) \in CourierRow
         /\ [mCourier[h] EXCEPT !.restricted = TRUE] \in CourierRow
         /\ [mCourier[h] EXCEPT !.balance = @ + mRequest[h].amount] \in CourierRow
         /\ [mRequest[h] EXCEPT !.rejected = TRUE] \in RequestRow
         /\ op[h] = "approve" =>
              /\ LeftOver(h) \in Nat
              /\ [mCourier[h] EXCEPT !.balance = @ + LeftOver(h)] \in CourierRow
              /\ Approved(h) \in RequestRow
  <1>1. /\ mCourier[h] \in CourierRow /\ mRequest[h] \in RequestRow /\ asked[h] \in Nat
    BY DEF Typed, CourierTypeOK
  <1>2. ASSUME op[h] = "approve" PROVE LeftOver(h) \in Nat
    <2>1. mRequest[h].amount \in Nat /\ asked[h] <= mRequest[h].amount
      BY <1>1, <1>2 DEF Typed, Shape, RequestRow
    <2>2. QED
      BY <1>1, <2>1, LeftOverNear
  <1>3. ASSUME op[h] = "approve" PROVE Approved(h) \in RequestRow
    BY <1>1, <1>2, <1>3 DEF Approved, RequestRow
  <1>4. ASSUME op[h] = "approve"
        PROVE  [mCourier[h] EXCEPT !.balance = @ + LeftOver(h)] \in CourierRow
    BY <1>1, <1>2, <1>4 DEF CourierRow
  <1>5. ASSUME op[h] = "create"
        PROVE  [mCourier[h] EXCEPT !.balance = @ - asked[h]] \in CourierRow
    BY <1>1, <1>5 DEF CourierRow, Typed, Shape
  <1>6. Earns(mCourier[h]) \in CourierRow
    <2>1. /\ mCourier[h].balance + Price \in Nat
          /\ mCourier[h].orders + 1 \in Nat
      BY <1>1, BalanceAssumption DEF CourierRow
    <2>2. QED
      BY <1>1, <2>1 DEF CourierRow, Earns
  <1>7. [mCourier[h] EXCEPT !.restricted = TRUE] \in CourierRow
    BY <1>1 DEF CourierRow
  <1>a. [mCourier[h] EXCEPT !.balance = @ + mRequest[h].amount] \in CourierRow
    <2>1. mCourier[h].balance + mRequest[h].amount \in Nat
      BY <1>1 DEF CourierRow, RequestRow
    <2>2. QED
      BY <1>1, <2>1 DEF CourierRow
  <1>8. [mRequest[h] EXCEPT !.rejected = TRUE] \in RequestRow
    BY <1>1 DEF RequestRow
  <1>9. NewRequest(asked[h]) \in RequestRow
    BY <1>1 DEF RequestRow, NewRequest
  <1>10. QED
    BY <1>2, <1>3, <1>4, <1>5, <1>6, <1>7, <1>8, <1>9, <1>a

\* What a handler writes to the row of the courier.
LEMMA CourierCommit ==
  ASSUME Typed, NEW h \in Handlers, NEW mine \in CourierRow, WriteCourier(h, mine)
  PROVE  /\ courier' \in CourierRow /\ courierSeal' = mine
         /\ mCourier[h] = courier => courier' = mine
  BY WrittenCourier DEF WriteCourier, Typed, CourierTypeOK

\* What it writes to the row of a request.
LEMMA RequestCommit ==
  ASSUME Typed, NEW h \in Handlers, NEW mine \in RequestRow,
         target[h] \in Requests, WriteRequest(h, mine)
  PROVE  /\ request' \in [Requests -> RequestRow]
         /\ requestSeal' \in [Requests -> RequestRow]
         /\ mRequest[h] = request[target[h]] => request'[target[h]] = mine
         /\ mine.amount = mRequest[h].amount
              => request'[target[h]].amount = request[target[h]].amount
         /\ \A q \in Requests : q # target[h] => request'[q] = request[q]
  BY WrittenRequest DEF WriteRequest, Typed, CourierTypeOK

\* A commit leaves the handler idle and changes no other.
LEMMA CommitLeaves ==
  ASSUME Typed, NEW h \in Handlers, NEW rows \in SUBSET ({"courier"} \cup Requests),
         Leave(h), Outdates(h, rows)
  PROVE  /\ op' \in [Handlers -> {"none", "create", "deliver", "approve",
                                    "reject", "restrict"}]
         /\ pc' \in [Handlers -> {"idle", "order", "courier", "begin", "balance",
                                   "request", "transfer", "sent", "write"}]
         /\ target' \in [Handlers -> Requests \cup Orders \cup {None}]
         /\ asked' \in [Handlers -> Nat]
         /\ mCourier' \in [Handlers -> CourierRow]
         /\ mRequest' \in [Handlers -> RequestRow]
         /\ fresh' \in [Handlers -> SUBSET {"courier", "request"}]
         /\ stale' \subseteq {"courier"} \cup Requests
         /\ Shape'
  <1>1. NewCourier \in CourierRow /\ NewRequest(0) \in RequestRow
    BY DEF NewCourier, NewRequest, CourierRow, RequestRow
  <1>2. fresh' \in [Handlers -> SUBSET {"courier", "request"}] /\ fresh'[h] = {}
    BY DEF Outdates, Typed, CourierTypeOK
  <1>3. stale' \subseteq {"courier"} \cup Requests
    BY DEF Outdates, Typed, CourierTypeOK
  <1>4. \A x \in Handlers : fresh'[x] \subseteq fresh[x]
    BY DEF Outdates
  <1>5. Shape'
    BY <1>2, <1>4 DEF Leave, Typed, CourierTypeOK, Shape
  <1>6. QED
    BY <1>1, <1>2, <1>3, <1>5 DEF Leave, Typed, CourierTypeOK

\* Every step keeps the types and the shape.
LEMMA TypedStep == Typed /\ [Next]_vars => Typed'
  <1> SUFFICES ASSUME Typed, [Next]_vars PROVE Typed'
    OBVIOUS
  <1> USE BalanceAssumption
  <1>a. NewCourier \in CourierRow /\ NewRequest(0) \in RequestRow
    BY DEF NewCourier, NewRequest, CourierRow, RequestRow
  <1>b. \A h \in Handlers : InCents(asked[h]) \in Nat
    BY InCentsNear DEF Typed, CourierTypeOK
  <1>1. ASSUME NEW o \in Orders, TakeOrder(o)
       PROVE  Typed'
    BY <1>1, <1>a DEF TakeOrder, Typed, CourierTypeOK, Shape, requestVars, handlerVars,
                      moneyVars
  <1>2. ASSUME NEW h \in Handlers, NEW r \in Requests, NEW a \in Amounts,
               StartCreate(h, r, a)
       PROVE  Typed'
    BY <1>2, <1>a DEF StartCreate, Typed, CourierTypeOK, Shape, Begin, ReadsCourier,
                      courierVars, requestVars, moneyVars
  <1>3. ASSUME NEW h \in Handlers, NEW r \in Requests, NEW a \in Approvals,
               StartApprove(h, r, a)
       PROVE  Typed'
    BY <1>3, <1>a DEF StartApprove, Typed, CourierTypeOK, Shape, Begin, OpenForApproval,
                      courierVars, requestVars, moneyVars
  <1>4. ASSUME NEW h \in Handlers, NEW r \in Requests, StartReject(h, r)
       PROVE  Typed'
    BY <1>4, <1>a DEF StartReject, RequestRow, Typed, CourierTypeOK, Shape, Begin, courierVars,
                      requestVars, moneyVars
  <1>5. ASSUME NEW h \in Handlers, StartDeliver(h)
       PROVE  Typed'
    BY <1>5, <1>a DEF StartDeliver, Typed, CourierTypeOK, Shape, Begin, ReadsCourier,
                      courierVars, requestVars, moneyVars
  <1>6. ASSUME NEW h \in Handlers, StartRestrict(h)
       PROVE  Typed'
    BY <1>6, <1>a DEF StartRestrict, Typed, CourierTypeOK, Shape, Begin, ReadsCourier,
                      courierVars, requestVars, moneyVars
  <1>7. ASSUME NEW h \in Handlers, Create(h)
       PROVE  Typed'
    <2>1. op[h] = "create" /\ target[h] \in Requests
      BY <1>7 DEF Create, Typed, Shape
    <2>2. /\ NewRequest(asked[h]) \in RequestRow
          /\ [mCourier[h] EXCEPT !.balance = @ - asked[h]] \in CourierRow
      BY <2>1, MineTyped
    <2>3. courier' \in CourierRow /\ courierSeal' \in CourierRow /\ due' \in Int
      BY <1>7, <2>2, CourierCommit DEF Create, Typed, CourierTypeOK
    <2>4. QED
      BY <1>7, <2>1, <2>2, <2>3, CommitLeaves DEF Create, moneyVars, Typed, CourierTypeOK
  <1>8. ASSUME NEW h \in Handlers, FindOrder(h)
       PROVE  Typed'
    BY <1>8, <1>a DEF FindOrder, Typed, CourierTypeOK, Shape, Goto, courierVars,
                      requestVars, moneyVars
  <1>9. ASSUME NEW h \in Handlers, OrderNotFound(h)
       PROVE  Typed'
    BY <1>9, <1>a DEF OrderNotFound, Typed, CourierTypeOK, Shape, Abandon, Leave,
                      courierVars, requestVars
  <1>10. ASSUME NEW h \in Handlers, Deliver(h)
       PROVE  Typed'
    <2>1. op[h] = "deliver" /\ target[h] \in Orders /\ due' \in Int
      BY <1>10 DEF Deliver, Typed, CourierTypeOK, Shape
    <2>2. courier' \in CourierRow /\ courierSeal' \in CourierRow
      BY <1>10, MineTyped, CourierCommit DEF Deliver
    <2>3. QED
      BY <1>10, <2>1, <2>2, CommitLeaves
      DEF Deliver, requestVars, moneyVars, Typed, CourierTypeOK
  <1>11. ASSUME NEW h \in Handlers, FindCourier(h)
       PROVE  Typed'
    BY <1>11, <1>a DEF FindCourier, Typed, CourierTypeOK, Shape, ReadsCourier,
                       courierVars, requestVars, moneyVars
  <1>12. ASSUME NEW h \in Handlers, CourierNotFound(h)
       PROVE  Typed'
    BY <1>12, <1>a DEF CourierNotFound, Typed, CourierTypeOK, Shape, Abandon, Leave,
                       courierVars, requestVars
  <1>13. ASSUME NEW h \in Handlers, WriteApproval(h)
       PROVE  Typed'
    BY <1>13, <1>a DEF WriteApproval, Typed, CourierTypeOK, Shape, Goto, courierVars,
                       requestVars, moneyVars
  <1>14. ASSUME NEW h \in Handlers, NothingLeftOver(h)
       PROVE  Typed'
    BY <1>14, <1>a DEF NothingLeftOver, Typed, CourierTypeOK, Shape, Abandon, Leave,
                       courierVars, requestVars
  <1>15. ASSUME NEW h \in Handlers, WriteLeftOver(h)
       PROVE  Typed'
    BY <1>15, <1>a DEF WriteLeftOver, Typed, CourierTypeOK, Shape, Goto, courierVars,
                       requestVars, moneyVars
  <1>16. ASSUME NEW h \in Handlers, Transfer(h)
       PROVE  Typed'
    BY <1>16, <1>a, <1>b DEF Transfer, Typed, CourierTypeOK, Shape, Goto, courierVars,
                       requestVars
  <1>17. ASSUME NEW h \in Handlers, TransferRefused(h)
       PROVE  Typed'
    BY <1>17, <1>a DEF TransferRefused, Typed, CourierTypeOK, Shape, Abandon, Fault,
                       Leave, courierVars, requestVars
  <1>18. ASSUME NEW h \in Handlers, Approve(h)
       PROVE  Typed'
    <2>1. op[h] = "approve" /\ target[h] \in Requests
      BY <1>18 DEF Approve, Typed, CourierTypeOK, Shape
    <2>2. Approved(h) \in RequestRow /\ Approved(h).refunded \in Nat /\ due' \in Int
      <3>1. Approved(h) \in RequestRow
        BY <2>1, MineTyped
      <3>2. Approved(h).refunded \in Nat
        BY <3>1 DEF RequestRow
      <3>3. QED
        BY <1>18, <3>1, <3>2 DEF Approve, Typed, CourierTypeOK
    <2>3. courier' \in CourierRow /\ courierSeal' \in CourierRow
      <3>1. [mCourier[h] EXCEPT !.balance = @ + LeftOver(h)] \in CourierRow
        BY <2>1, MineTyped
      <3>2. QED
        BY <1>18, <3>1, CourierCommit DEF Approve, Typed, CourierTypeOK
    <2>4. /\ request' \in [Requests -> RequestRow]
          /\ requestSeal' \in [Requests -> RequestRow]
      BY <1>18, <2>1, <2>2, RequestCommit DEF Approve
    <2>5. QED
      BY <1>18, <2>1, <2>2, <2>3, <2>4, CommitLeaves
      DEF Approve, moneyVars, Typed, CourierTypeOK
  <1>19. ASSUME NEW h \in Handlers, WriteReturn(h)
       PROVE  Typed'
    BY <1>19, <1>a DEF WriteReturn, Typed, CourierTypeOK, Shape, Goto, courierVars,
                       requestVars, moneyVars
  <1>20. ASSUME NEW h \in Handlers, Reject(h)
       PROVE  Typed'
    <2>1. target[h] \in Requests /\ mRequest[h].amount \in Nat /\ due' \in Int
      BY <1>20 DEF Reject, Typed, CourierTypeOK, Shape, RequestRow
    <2>2. courier' \in CourierRow /\ courierSeal' \in CourierRow
      BY <1>20, MineTyped, CourierCommit DEF Reject
    <2>3. /\ request' \in [Requests -> RequestRow]
          /\ requestSeal' \in [Requests -> RequestRow]
      BY <1>20, <2>1, MineTyped, RequestCommit DEF Reject
    <2>4. QED
      BY <1>20, <2>1, <2>2, <2>3, CommitLeaves
      DEF Reject, moneyVars, Typed, CourierTypeOK
  <1>21. ASSUME NEW h \in Handlers, Restrict(h)
       PROVE  Typed'
    <2>1. courier' \in CourierRow /\ courierSeal' \in CourierRow
      BY <1>21, MineTyped, CourierCommit DEF Restrict
    <2>2. QED
      BY <1>21, <2>1, CommitLeaves
      DEF Restrict, requestVars, moneyVars, Typed, CourierTypeOK
  <1>22. ASSUME NEW h \in Handlers, LockFails(h)
       PROVE  Typed'
    BY <1>22, <1>a DEF LockFails, Typed, CourierTypeOK, Shape, Abandon, Waits, Leave,
                       courierVars, requestVars
  <1>23. ASSUME NEW h \in Handlers, Fails(h)
       PROVE  Typed'
    BY <1>23, <1>a, <1>b DEF Fails, Typed, CourierTypeOK, Shape, Abandon, Fault, Leave,
                       courierVars, requestVars
  <1>24. CASE UNCHANGED vars
    BY <1>24, <1>a DEF vars, Typed, CourierTypeOK, Shape, courierVars, requestVars,
                       handlerVars, moneyVars
  <1>25. QED
    BY <1>1, <1>2, <1>3, <1>4, <1>5, <1>6, <1>7, <1>8, <1>9, <1>10, <1>11, <1>12, <1>13,
       <1>14, <1>15, <1>16, <1>17, <1>18, <1>19, <1>20, <1>21, <1>22, <1>23, <1>24
    DEF Next, Starts, Step

\* The typing facts the other proofs start from.
LEMMA TypedAlways == Spec => []Typed
  <1>1. Init => Typed
    BY BalanceAssumption
    DEF Init, Typed, CourierTypeOK, Shape, NewCourier, NewRequest, CourierRow, RequestRow
  <1>2. QED
    BY <1>1, TypedStep, PTL DEF Spec

\* Type correctness: in no interleaving of the handlers does an amount get
\* negative.
THEOREM CourierTypeCorrect == Spec => []CourierTypeOK
  <1>1. Typed => CourierTypeOK
    BY DEF Typed
  <1>2. QED
    BY <1>1, TypedAlways, PTL

-----------------------------------------------------------------------------
(* The balance.  A copy that no commit has made out of date is the row, so  *)
(* writing it back loses nothing.                                          *)

Current ==
  \A h \in Handlers :
    /\ "courier" \in fresh[h] => mCourier[h] = courier
    /\ "request" \in fresh[h] => /\ op[h] \in {"approve", "reject"}
                                 /\ mRequest[h] = request[target[h]]

\* The row a withdrawal will create is nobody else's; the one an admin answers
\* exists.
Reserved ==
  \A h \in Handlers :
    /\ op[h] = "create" =>
         /\ request[target[h]].amount = 0
         /\ \A x \in Handlers : target[x] = target[h] => x = h
    /\ op[h] \in {"approve", "reject"} => request[target[h]].amount > 0

\* A commit by h makes the copies of the rows it writes out of date.
LEMMA Outdating ==
  ASSUME Typed, NEW h \in Handlers, NEW rows \in SUBSET ({"courier"} \cup Requests),
         Outdates(h, rows)
  PROVE  /\ \A x \in Handlers :
              /\ fresh'[x] \subseteq fresh[x]
              /\ "courier" \in rows => "courier" \notin fresh'[x]
              /\ target[x] \in rows => "request" \notin fresh'[x]
         /\ fresh'[h] = {}
         /\ stale \subseteq stale'
         /\ "courier" \in rows /\ "courier" \notin fresh[h] => "courier" \in stale'
         /\ target[h] \in rows /\ target[h] # "courier" /\ "request" \notin fresh[h]
              => target[h] \in stale'
  BY BalanceAssumption DEF Outdates, Typed, CourierTypeOK

\* What a commit does to the rows that the handlers have in hand, given what it
\* does to the requests.
LEMMA CommitKeepsCopies ==
  ASSUME Typed, Current, Reserved, NEW h \in Handlers,
         NEW rows \in SUBSET ({"courier"} \cup Requests),
         Leave(h), Outdates(h, rows),
         courier' = courier \/ "courier" \in rows,
         \A r \in Requests : r # target[h] => request'[r] = request[r],
         \/ request' = request
         \/ op[h] = "create" /\ request'[target[h]].amount \in Nat
         \/ /\ target[h] \in rows
            /\ request'[target[h]].amount = request[target[h]].amount
  PROVE  Current' /\ Reserved'
  <1>1. \A x \in Handlers : x # h =>
          /\ op'[x] = op[x] /\ target'[x] = target[x]
          /\ mCourier'[x] = mCourier[x] /\ mRequest'[x] = mRequest[x]
    BY DEF Leave, Typed, CourierTypeOK
  <1>2. op'[h] = "none" /\ target'[h] = None /\ fresh'[h] = {}
    BY Outdating DEF Leave, Typed, CourierTypeOK
  <1>3. ASSUME NEW x \in Handlers, x # h, "courier" \in fresh'[x]
        PROVE  mCourier'[x] = courier'
    BY <1>1, <1>3, Outdating DEF Current
  <1>4. ASSUME NEW x \in Handlers, x # h, "request" \in fresh'[x]
        PROVE  /\ op'[x] \in {"approve", "reject"}
               /\ mRequest'[x] = request'[target'[x]]
    <2>1. "request" \in fresh[x] /\ target[x] \notin rows
      BY <1>4, Outdating
    <2>2. op[x] \in {"approve", "reject"} /\ mRequest[x] = request[target[x]]
      BY <2>1 DEF Current
    <2>3. target[x] \in Requests
      BY <2>2 DEF Typed, Shape
    <2>4. request'[target[x]] = request[target[x]]
      <3>1. CASE op[h] = "create"
        BY <2>2, <2>3, <3>1, <1>4 DEF Reserved
      <3>2. CASE op[h] # "create"
        BY <2>1, <2>3, <3>2
      <3>3. QED
        BY <3>1, <3>2
    <2>5. QED
      BY <1>1, <1>4, <2>2, <2>4
  <1>5. Current'
    BY <1>2, <1>3, <1>4 DEF Current
  <1>6. ASSUME NEW x \in Handlers, x # h, op'[x] = "create"
        PROVE  /\ request'[target'[x]].amount = 0
               /\ \A y \in Handlers : target'[y] = target'[x] => y = x
    <2>1. /\ op[x] = "create" /\ target[x] \in Requests
          /\ request[target[x]].amount = 0 /\ target[x] # target[h]
      BY <1>1, <1>6 DEF Reserved, Typed, Shape
    <2>2. target[x] # None
      BY <2>1, BalanceAssumption
    <2>3. QED
      BY <1>1, <1>2, <1>6, <2>1, <2>2 DEF Reserved
  <1>7. ASSUME NEW x \in Handlers, x # h, op'[x] \in {"approve", "reject"}
        PROVE  request'[target'[x]].amount > 0
    <2>1. /\ op[x] \in {"approve", "reject"} /\ target[x] \in Requests
          /\ request[target[x]].amount > 0
      BY <1>1, <1>7 DEF Reserved, Typed, Shape
    <2>2. CASE op[h] = "create"
      BY <1>1, <1>7, <2>1, <2>2 DEF Reserved
    <2>3. CASE op[h] # "create"
      BY <1>1, <1>7, <2>1, <2>3
    <2>4. QED
      BY <2>2, <2>3
  <1>8. Reserved'
    BY <1>2, <1>6, <1>7 DEF Reserved
  <1>9. QED
    BY <1>5, <1>8

\* An admin never sees another amount than the one that was asked for.
SameAmount ==
  \A h \in Handlers : op[h] \in {"approve", "reject"} =>
    mRequest[h].amount = request[target[h]].amount

\* Every step keeps the copies.
LEMMA CopiesStep ==
  Typed /\ Current /\ Reserved /\ SameAmount /\ [Next]_vars
    => (Current /\ Reserved /\ SameAmount)'
  <1> SUFFICES ASSUME Typed, Current, Reserved, SameAmount, [Next]_vars
               PROVE  (Current /\ Reserved /\ SameAmount)'
    OBVIOUS
  <1> USE BalanceAssumption
  <1>1. ASSUME NEW o \in Orders, TakeOrder(o)
       PROVE  (Current /\ Reserved /\ SameAmount)'
    BY <1>1 DEF TakeOrder, Current, Reserved, SameAmount, Typed, CourierTypeOK, Shape,
                RequestRow, requestVars, handlerVars, moneyVars
  <1>2. ASSUME NEW h \in Handlers, NEW r \in Requests, NEW a \in Amounts,
               StartCreate(h, r, a)
       PROVE  (Current /\ Reserved /\ SameAmount)'
    BY <1>2 DEF StartCreate, Current, Reserved, SameAmount, Typed, CourierTypeOK, Shape,
                RequestRow, Begin, ReadsCourier, courierVars, requestVars, moneyVars
  <1>3. ASSUME NEW h \in Handlers, NEW r \in Requests, NEW a \in Approvals,
               StartApprove(h, r, a)
       PROVE  (Current /\ Reserved /\ SameAmount)'
    BY <1>3 DEF StartApprove, Current, Reserved, SameAmount, Typed, CourierTypeOK, Shape,
                RequestRow, Begin, OpenForApproval, courierVars, requestVars, moneyVars
  <1>4. ASSUME NEW h \in Handlers, NEW r \in Requests, StartReject(h, r)
       PROVE  (Current /\ Reserved /\ SameAmount)'
    BY <1>4 DEF StartReject, Current, Reserved, SameAmount, Typed, CourierTypeOK, Shape,
                RequestRow, Begin, courierVars, requestVars, moneyVars
  <1>5. ASSUME NEW h \in Handlers, StartDeliver(h)
       PROVE  (Current /\ Reserved /\ SameAmount)'
    BY <1>5 DEF StartDeliver, Current, Reserved, SameAmount, Typed, CourierTypeOK, Shape,
                RequestRow, Begin, ReadsCourier, courierVars, requestVars, moneyVars
  <1>6. ASSUME NEW h \in Handlers, StartRestrict(h)
       PROVE  (Current /\ Reserved /\ SameAmount)'
    BY <1>6 DEF StartRestrict, Current, Reserved, SameAmount, Typed, CourierTypeOK, Shape,
                RequestRow, Begin, ReadsCourier, courierVars, requestVars, moneyVars
  <1>7. ASSUME NEW h \in Handlers, Create(h)
       PROVE  (Current /\ Reserved /\ SameAmount)'
    <2>1. op[h] = "create" /\ target[h] \in Requests /\ target[h] # "courier"
      BY <1>7 DEF Create, Typed, Shape
    <2>2. /\ \A q \in Requests : q # target[h] => request'[q] = request[q]
          /\ request'[target[h]].amount = asked[h] /\ asked[h] \in Nat
      BY <1>7, <2>1 DEF Create, NewRequest, Typed, CourierTypeOK
    <2>3. Current' /\ Reserved'
      BY <1>7, <2>1, <2>2, CommitKeepsCopies DEF Create
    <2>4. SameAmount'
      <3> SUFFICES ASSUME NEW x \in Handlers, op'[x] \in {"approve", "reject"}
                   PROVE  mRequest'[x].amount = request'[target'[x]].amount
        BY DEF SameAmount
      <3>1. x # h
        BY <1>7 DEF Create, Leave, Typed, CourierTypeOK
      <3>2. op[x] = op'[x] /\ target'[x] = target[x] /\ mRequest'[x] = mRequest[x]
        BY <1>7, <3>1 DEF Create, Leave, Typed, CourierTypeOK
      <3>3. target[x] \in Requests /\ target[x] # target[h]
        BY <2>1, <3>1, <3>2 DEF Reserved, Typed, Shape
      <3>4. QED
        BY <2>2, <3>2, <3>3 DEF SameAmount
    <2>5. QED
      BY <2>3, <2>4
  <1>8. ASSUME NEW h \in Handlers, FindOrder(h)
       PROVE  (Current /\ Reserved /\ SameAmount)'
    BY <1>8 DEF FindOrder, Current, Reserved, SameAmount, Typed, CourierTypeOK, Shape,
                RequestRow, Goto, courierVars, requestVars, moneyVars
  <1>9. ASSUME NEW h \in Handlers, OrderNotFound(h)
       PROVE  (Current /\ Reserved /\ SameAmount)'
    BY <1>9 DEF OrderNotFound, Current, Reserved, SameAmount, Typed, CourierTypeOK, Shape,
                RequestRow, Abandon, Leave, courierVars, requestVars
  <1>10. ASSUME NEW h \in Handlers, Deliver(h)
       PROVE  (Current /\ Reserved /\ SameAmount)'
    <2>1. Current' /\ Reserved'
      BY <1>10, CommitKeepsCopies DEF Deliver, requestVars
    <2>2. SameAmount'
      BY <1>10 DEF Deliver, Leave, requestVars, SameAmount, Typed, CourierTypeOK
    <2>3. QED
      BY <2>1, <2>2
  <1>11. ASSUME NEW h \in Handlers, FindCourier(h)
       PROVE  (Current /\ Reserved /\ SameAmount)'
    BY <1>11 DEF FindCourier, Current, Reserved, SameAmount, Typed, CourierTypeOK, Shape,
                 RequestRow, ReadsCourier, courierVars, requestVars, moneyVars
  <1>12. ASSUME NEW h \in Handlers, CourierNotFound(h)
       PROVE  (Current /\ Reserved /\ SameAmount)'
    BY <1>12 DEF CourierNotFound, Current, Reserved, SameAmount, Typed, CourierTypeOK,
                 Shape, RequestRow, Abandon, Leave, courierVars, requestVars
  <1>13. ASSUME NEW h \in Handlers, WriteApproval(h)
       PROVE  (Current /\ Reserved /\ SameAmount)'
    BY <1>13 DEF WriteApproval, Current, Reserved, SameAmount, Typed, CourierTypeOK,
                 Shape, RequestRow, Goto, courierVars, requestVars, moneyVars
  <1>14. ASSUME NEW h \in Handlers, NothingLeftOver(h)
       PROVE  (Current /\ Reserved /\ SameAmount)'
    BY <1>14 DEF NothingLeftOver, Current, Reserved, SameAmount, Typed, CourierTypeOK,
                 Shape, RequestRow, Abandon, Leave, courierVars, requestVars
  <1>15. ASSUME NEW h \in Handlers, WriteLeftOver(h)
       PROVE  (Current /\ Reserved /\ SameAmount)'
    BY <1>15 DEF WriteLeftOver, Current, Reserved, SameAmount, Typed, CourierTypeOK,
                 Shape, RequestRow, Goto, courierVars, requestVars, moneyVars
  <1>16. ASSUME NEW h \in Handlers, Transfer(h)
       PROVE  (Current /\ Reserved /\ SameAmount)'
    BY <1>16 DEF Transfer, Current, Reserved, SameAmount, Typed, CourierTypeOK, Shape,
                 RequestRow, Goto, courierVars, requestVars
  <1>17. ASSUME NEW h \in Handlers, TransferRefused(h)
       PROVE  (Current /\ Reserved /\ SameAmount)'
    BY <1>17 DEF TransferRefused, Current, Reserved, SameAmount, Typed, CourierTypeOK,
                 Shape, RequestRow, Abandon, Fault, Leave, courierVars, requestVars
  <1>18. ASSUME NEW h \in Handlers, Approve(h)
       PROVE  (Current /\ Reserved /\ SameAmount)'
    <2>1. op[h] = "approve" /\ target[h] \in Requests
      BY <1>18 DEF Approve, Typed, CourierTypeOK, Shape
    <2> DEFINE mine == Approved(h)
    <2>2. mine \in RequestRow /\ mine.amount = mRequest[h].amount
      <3>1. mine \in RequestRow
        BY <2>1, MineTyped
      <3>2. mine.amount = mRequest[h].amount
        BY DEF Approved, Typed, CourierTypeOK, RequestRow
      <3>3. QED
        BY <3>1, <3>2
    <2>3. /\ \A q \in Requests : q # target[h] => request'[q] = request[q]
          /\ request'[target[h]].amount = request[target[h]].amount
      BY <1>18, <2>1, <2>2, RequestCommit DEF Approve
    <2> DEFINE rows == {target[h]} \cup IF Partial(h) THEN {"courier"} ELSE {}
    <2>4. /\ rows \in SUBSET ({"courier"} \cup Requests) /\ target[h] \in rows
          /\ courier' = courier \/ "courier" \in rows
          /\ Leave(h) /\ Outdates(h, rows)
      BY <1>18, <2>1 DEF Approve
    <2>5. Current' /\ Reserved'
      BY <2>3, <2>4, CommitKeepsCopies
    <2>6. SameAmount'
      <3> SUFFICES ASSUME NEW x \in Handlers, op'[x] \in {"approve", "reject"}
                   PROVE  mRequest'[x].amount = request'[target'[x]].amount
        BY DEF SameAmount
      <3>1. x # h
        BY <2>4 DEF Leave, Typed, CourierTypeOK
      <3>2. op[x] = op'[x] /\ target'[x] = target[x] /\ mRequest'[x] = mRequest[x]
        BY <2>4, <3>1 DEF Leave, Typed, CourierTypeOK
      <3>3. target[x] \in Requests
        BY <3>2 DEF Typed, Shape
      <3>4. request'[target[x]].amount = request[target[x]].amount
        BY <2>1, <2>3, <3>3
      <3>5. QED
        BY <3>2, <3>4 DEF SameAmount
    <2>7. QED
      BY <2>5, <2>6
  <1>19. ASSUME NEW h \in Handlers, WriteReturn(h)
       PROVE  (Current /\ Reserved /\ SameAmount)'
    BY <1>19 DEF WriteReturn, Current, Reserved, SameAmount, Typed, CourierTypeOK, Shape,
                 RequestRow, Goto, courierVars, requestVars, moneyVars
  <1>20. ASSUME NEW h \in Handlers, Reject(h)
       PROVE  (Current /\ Reserved /\ SameAmount)'
    <2>1. op[h] = "reject" /\ target[h] \in Requests
      BY <1>20 DEF Reject, Typed, CourierTypeOK, Shape
    <2> DEFINE mine == [mRequest[h] EXCEPT !.rejected = TRUE]
    <2>2. mine \in RequestRow /\ mine.amount = mRequest[h].amount
      <3>1. mine \in RequestRow
        BY <2>1, MineTyped
      <3>2. mine.amount = mRequest[h].amount
        BY DEF Typed, CourierTypeOK, RequestRow
      <3>3. QED
        BY <3>1, <3>2
    <2>3. /\ \A q \in Requests : q # target[h] => request'[q] = request[q]
          /\ request'[target[h]].amount = request[target[h]].amount
      BY <1>20, <2>1, <2>2, RequestCommit DEF Reject
    <2> DEFINE rows == {"courier", target[h]}
    <2>4. /\ rows \in SUBSET ({"courier"} \cup Requests) /\ target[h] \in rows
          /\ courier' = courier \/ "courier" \in rows
          /\ Leave(h) /\ Outdates(h, rows)
      BY <1>20, <2>1 DEF Reject
    <2>5. Current' /\ Reserved'
      BY <2>3, <2>4, CommitKeepsCopies
    <2>6. SameAmount'
      <3> SUFFICES ASSUME NEW x \in Handlers, op'[x] \in {"approve", "reject"}
                   PROVE  mRequest'[x].amount = request'[target'[x]].amount
        BY DEF SameAmount
      <3>1. x # h
        BY <2>4 DEF Leave, Typed, CourierTypeOK
      <3>2. op[x] = op'[x] /\ target'[x] = target[x] /\ mRequest'[x] = mRequest[x]
        BY <2>4, <3>1 DEF Leave, Typed, CourierTypeOK
      <3>3. target[x] \in Requests
        BY <3>2 DEF Typed, Shape
      <3>4. request'[target[x]].amount = request[target[x]].amount
        BY <2>1, <2>3, <3>3
      <3>5. QED
        BY <3>2, <3>4 DEF SameAmount
    <2>7. QED
      BY <2>5, <2>6
  <1>21. ASSUME NEW h \in Handlers, Restrict(h)
       PROVE  (Current /\ Reserved /\ SameAmount)'
    <2>1. Current' /\ Reserved'
      BY <1>21, CommitKeepsCopies DEF Restrict, requestVars
    <2>2. SameAmount'
      BY <1>21 DEF Restrict, Leave, requestVars, SameAmount, Typed, CourierTypeOK
    <2>3. QED
      BY <2>1, <2>2
  <1>22. ASSUME NEW h \in Handlers, LockFails(h)
       PROVE  (Current /\ Reserved /\ SameAmount)'
    BY <1>22 DEF LockFails, Current, Reserved, SameAmount, Typed, CourierTypeOK, Shape,
                 RequestRow, Abandon, Waits, Leave, courierVars, requestVars
  <1>23. ASSUME NEW h \in Handlers, Fails(h)
       PROVE  (Current /\ Reserved /\ SameAmount)'
    BY <1>23 DEF Fails, Current, Reserved, SameAmount, Typed, CourierTypeOK, Shape,
                 RequestRow, Abandon, Fault, Leave, courierVars, requestVars
  <1>24. CASE UNCHANGED vars
    BY <1>24 DEF vars, Current, Reserved, SameAmount, Typed, CourierTypeOK, Shape,
                 RequestRow, courierVars, requestVars, handlerVars, moneyVars
  <1>25. QED
    BY <1>1, <1>2, <1>3, <1>4, <1>5, <1>6, <1>7, <1>8, <1>9, <1>10, <1>11, <1>12, <1>13,
       <1>14, <1>15, <1>16, <1>17, <1>18, <1>19, <1>20, <1>21, <1>22, <1>23, <1>24
    DEF Next, Starts, Step

\* The copies are what they should be.
LEMMA CopiesAlways == Spec => [](Current /\ Reserved /\ SameAmount)
  <1>1. Init => Current /\ Reserved /\ SameAmount
    BY DEF Init, Current, Reserved, SameAmount
  <1>2. QED
    BY <1>1, TypedAlways, CopiesStep, PTL DEF Spec

Ledger == "courier" \notin stale => courier.balance = due /\ Sealed

ledgerVars == <<courier, courierSeal, stale, due>>

\* Only commits write the row of the courier.
LEMMA LedgerFrame ==
  [Next]_vars =>
    \/ UNCHANGED ledgerVars
    \/ \E h \in Handlers : \/ Create(h) \/ Deliver(h) \/ Approve(h) \/ Reject(h)
                           \/ Restrict(h)
  <1> HAVE [Next]_vars
  <1>1. ASSUME NEW o \in Orders, TakeOrder(o)
       PROVE  UNCHANGED ledgerVars
    BY <1>1 DEF TakeOrder, ledgerVars, requestVars, handlerVars, moneyVars
  <1>2. ASSUME NEW h \in Handlers, NEW r \in Requests, NEW a \in Amounts,
               \/ StartCreate(h, r, a)
       PROVE  UNCHANGED ledgerVars
    BY <1>2 DEF StartCreate, ledgerVars, Begin, ReadsCourier, courierVars, requestVars,
                moneyVars
  <1>3. ASSUME NEW h \in Handlers, NEW r \in Requests, NEW a \in Approvals,
               \/ StartApprove(h, r, a)
       PROVE  UNCHANGED ledgerVars
    BY <1>3 DEF StartApprove, ledgerVars, Begin, OpenForApproval, courierVars,
                requestVars, moneyVars
  <1>4. ASSUME NEW h \in Handlers, NEW r \in Requests, StartReject(h, r)
       PROVE  UNCHANGED ledgerVars
    BY <1>4 DEF StartReject, ledgerVars, Begin, courierVars, requestVars, moneyVars
  <1>5. ASSUME NEW h \in Handlers,
               \/ StartDeliver(h) \/ StartRestrict(h) \/ FindOrder(h)
               \/ OrderNotFound(h) \/ FindCourier(h) \/ CourierNotFound(h)
               \/ WriteApproval(h) \/ NothingLeftOver(h) \/ WriteLeftOver(h)
               \/ Transfer(h) \/ TransferRefused(h) \/ WriteReturn(h) \/ LockFails(h)
               \/ Fails(h)
       PROVE  UNCHANGED ledgerVars
    BY <1>5 DEF StartDeliver, StartRestrict, FindOrder, OrderNotFound, FindCourier,
                CourierNotFound, WriteApproval, NothingLeftOver, WriteLeftOver, Transfer,
                TransferRefused, WriteReturn, LockFails, Fails, ledgerVars, Begin,
                ReadsCourier, courierVars, requestVars, moneyVars, Goto, Abandon, Leave,
                Fault, Waits
  <1>6. CASE UNCHANGED vars
    BY <1>6 DEF vars, ledgerVars, courierVars, requestVars, handlerVars, moneyVars
  <1>7. QED
    BY <1>1, <1>2, <1>3, <1>4, <1>5, <1>6
    DEF Next, Starts, Step

\* A commit of the row of the courier keeps the ledger if the copy it was made
\* from had what is due.
LEMMA LedgerCommit ==
  ASSUME Typed, Current, Ledger, NEW h \in Handlers, NEW mine \in CourierRow,
         NEW rows \in SUBSET ({"courier"} \cup Requests), "courier" \in rows,
         WriteCourier(h, mine), Outdates(h, rows),
         due' \in Int, mine.balance - mCourier[h].balance = due' - due
  PROVE  Ledger'
  <1>1. CASE "courier" \in fresh[h]
    <2>1. mCourier[h] = courier
      BY <1>1 DEF Current
    <2>2. courier' = mine /\ courierSeal' = mine
      BY <2>1, CourierCommit
    <2>3. stale \subseteq stale'
      BY Outdating
    <2>4. ASSUME "courier" \notin stale PROVE mine.balance = due'
      <3>1. courier.balance = due /\ due \in Int /\ courier.balance \in Nat
        BY <2>4 DEF Ledger, Typed, CourierTypeOK, CourierRow
      <3>2. mine.balance \in Nat
        BY DEF CourierRow
      <3>3. mine.balance - courier.balance = due' - due
        BY <2>1
      <3>4. QED
        BY <3>1, <3>2, <3>3
    <2>5. QED
      BY <2>2, <2>3, <2>4 DEF Ledger, Sealed
  <1>2. CASE "courier" \notin fresh[h]
    BY <1>2, Outdating DEF Ledger
  <1>3. QED
    BY <1>1, <1>2

\* Every step keeps the ledger.
LEMMA LedgerStep == Typed /\ Current /\ Ledger /\ [Next]_vars => Ledger'
  <1> SUFFICES ASSUME Typed, Current, Ledger, [Next]_vars PROVE Ledger'
    OBVIOUS
  <1> USE BalanceAssumption
  <1>t. Typed'
    BY TypedStep
  <1>d. due \in Int /\ due' \in Int /\ \A h \in Handlers : mCourier[h] \in CourierRow
    BY <1>t DEF Typed, CourierTypeOK
  <1>1. CASE UNCHANGED ledgerVars
    BY <1>1 DEF ledgerVars, Ledger, Sealed
  <1>2. ASSUME NEW h \in Handlers, Create(h)
       PROVE  Ledger'
    <2> DEFINE mine == [mCourier[h] EXCEPT !.balance = @ - asked[h]]
    <2>1. mine \in CourierRow
      BY <1>2, MineTyped DEF Create
    <2>2. /\ WriteCourier(h, mine) /\ due' = due - asked[h]
          /\ Outdates(h, {"courier"}) /\ asked[h] \in Nat
      BY <1>2 DEF Create, Typed, CourierTypeOK
    <2>3. mine.balance - mCourier[h].balance = due' - due
      BY <1>d, <2>2 DEF CourierRow
    <2>4. QED
      BY <1>d, <2>1, <2>2, <2>3, LedgerCommit
  <1>3. ASSUME NEW h \in Handlers, Deliver(h)
       PROVE  Ledger'
    <2> DEFINE mine == Earns(mCourier[h])
    <2>1. mine \in CourierRow
      BY MineTyped
    <2>2. /\ WriteCourier(h, mine) /\ due' = due + Price
          /\ Outdates(h, {"courier"})
      BY <1>3 DEF Deliver
    <2>3. mine.balance - mCourier[h].balance = due' - due
      BY <1>d, <2>2 DEF CourierRow, Earns
    <2>4. QED
      BY <1>d, <2>1, <2>2, <2>3, LedgerCommit
  <1>4. ASSUME NEW h \in Handlers, Approve(h)
       PROVE  Ledger'
    <2>1. op[h] = "approve" /\ target[h] \in Requests
      BY <1>4 DEF Approve, Typed, CourierTypeOK, Shape
    <2>2. CASE Partial(h)
      <3> DEFINE mine == [mCourier[h] EXCEPT !.balance = @ + LeftOver(h)]
                 rows == {"courier", target[h]}
      <3>1. mine \in CourierRow /\ LeftOver(h) \in Nat
        BY <2>1, MineTyped
      <3>2. Approved(h).refunded = LeftOver(h)
        BY <2>2 DEF Approved, Typed, CourierTypeOK, RequestRow
      <3>3. {target[h]} \cup {"courier"} = rows
        OBVIOUS
      <3>4. /\ WriteCourier(h, mine) /\ due' = due + LeftOver(h)
            /\ Outdates(h, rows)
        BY <1>4, <2>2, <3>2, <3>3 DEF Approve
      <3>5. mine.balance - mCourier[h].balance = due' - due
        BY <1>d, <3>1, <3>4 DEF CourierRow
      <3>6. QED
        BY <1>d, <2>1, <3>1, <3>4, <3>5, LedgerCommit
    <2>3. CASE ~Partial(h)
      <3>1. Approved(h).refunded = 0
        BY <2>3 DEF Approved, Typed, CourierTypeOK, RequestRow
      <3>2. /\ UNCHANGED <<courier, courierSeal>> /\ due' = due + 0
            /\ stale \subseteq stale'
        BY <1>4, <2>3, <3>1 DEF Approve, Outdates
      <3>3. QED
        BY <1>d, <3>2 DEF Ledger, Sealed
    <2>4. QED
      BY <2>2, <2>3
  <1>5. ASSUME NEW h \in Handlers, Reject(h)
       PROVE  Ledger'
    <2> DEFINE mine == [mCourier[h] EXCEPT !.balance = @ + mRequest[h].amount]
               rows == {"courier", target[h]}
    <2>1. mine \in CourierRow
      BY MineTyped
    <2>2. rows \in SUBSET ({"courier"} \cup Requests)
      BY <1>5 DEF Reject, Typed, CourierTypeOK, Shape
    <2>3. /\ WriteCourier(h, mine) /\ due' = due + mRequest[h].amount
          /\ Outdates(h, rows) /\ mRequest[h].amount \in Nat
      BY <1>5 DEF Reject, Typed, CourierTypeOK, RequestRow
    <2>4. mine.balance - mCourier[h].balance = due' - due
      BY <1>d, <2>3 DEF CourierRow
    <2>5. QED
      BY <1>d, <2>1, <2>2, <2>3, <2>4, LedgerCommit
  <1>6. ASSUME NEW h \in Handlers, Restrict(h)
       PROVE  Ledger'
    <2> DEFINE mine == [mCourier[h] EXCEPT !.restricted = TRUE]
    <2>1. mine \in CourierRow
      BY MineTyped
    <2>2. WriteCourier(h, mine) /\ due' = due /\ Outdates(h, {"courier"})
      BY <1>6 DEF Restrict
    <2>3. mine.balance - mCourier[h].balance = due' - due
      BY <1>d, <2>2 DEF CourierRow
    <2>4. QED
      BY <1>d, <2>1, <2>2, <2>3, LedgerCommit
  <1>7. QED
    BY <1>1, <1>2, <1>3, <1>4, <1>5, <1>6, LedgerFrame

\* The ledger agrees with the row as long as no stale copy was written.
LEMMA LedgerAlways == Spec => []Ledger
  <1>1. Init => Ledger
    BY DEF Init, Ledger, Sealed, NewCourier
  <1>2. QED
    BY <1>1, TypedAlways, CopiesAlways, LedgerStep, PTL DEF Spec

\* The only way to lose or create money in the balance of a courier is a write
\* from a copy that another handler had made out of date.
THEOREM BalanceIsDue == Spec => []NothingLost
  <1>1. Ledger => NothingLost
    BY DEF Ledger, NothingLost
  <1>2. QED
    BY <1>1, LedgerAlways, PTL

\* And so is the only way to lock the courier out.
THEOREM NobodyLockedOut == Spec => []CourierStaysSealed
  <1>1. Ledger => CourierStaysSealed
    BY DEF Ledger, CourierStaysSealed
  <1>2. QED
    BY <1>1, LedgerAlways, PTL

-----------------------------------------------------------------------------
(* The requests.  Only the handler that has locked a request is sending     *)
(* money for it, and only one that nobody has answered is answered.        *)

OneSender ==
  \A h, x \in Handlers, r \in Requests :
    HoldsRequest(h, r) /\ HoldsRequest(x, r) => x = h

\* Every step keeps the lock of a request exclusive.
LEMMA OneSenderStep == Typed /\ OneSender /\ [Next]_vars => OneSender'
  <1> SUFFICES ASSUME Typed, OneSender, [Next]_vars PROVE OneSender'
    OBVIOUS
  <1> USE BalanceAssumption
  <1>1. ASSUME NEW o \in Orders, TakeOrder(o)
       PROVE  OneSender'
    BY <1>1 DEF TakeOrder, OneSender, HoldsRequest, Typed, CourierTypeOK, Shape,
                requestVars, handlerVars, moneyVars
  <1>2. ASSUME NEW h \in Handlers, NEW r \in Requests, NEW a \in Amounts,
               StartCreate(h, r, a)
       PROVE  OneSender'
    BY <1>2 DEF StartCreate, OneSender, HoldsRequest, Typed, CourierTypeOK, Shape, Begin,
                courierVars, requestVars, moneyVars
  <1>3. ASSUME NEW h \in Handlers, NEW r \in Requests, NEW a \in Approvals,
               StartApprove(h, r, a)
       PROVE  OneSender'
    BY <1>3 DEF StartApprove, OneSender, HoldsRequest, Typed, CourierTypeOK, Shape, Begin,
                courierVars, requestVars, moneyVars
  <1>4. ASSUME NEW h \in Handlers, NEW r \in Requests, StartReject(h, r)
       PROVE  OneSender'
    BY <1>4 DEF StartReject, OneSender, HoldsRequest, Typed, CourierTypeOK, Shape, Begin,
                courierVars, requestVars, moneyVars
  <1>5. ASSUME NEW h \in Handlers, StartDeliver(h)
       PROVE  OneSender'
    BY <1>5 DEF StartDeliver, OneSender, HoldsRequest, Typed, CourierTypeOK, Shape, Begin,
                courierVars, requestVars, moneyVars
  <1>6. ASSUME NEW h \in Handlers, StartRestrict(h)
       PROVE  OneSender'
    BY <1>6 DEF StartRestrict, OneSender, HoldsRequest, Typed, CourierTypeOK, Shape,
                Begin, courierVars, requestVars, moneyVars
  <1>7. ASSUME NEW h \in Handlers, Create(h)
       PROVE  OneSender'
    BY <1>7 DEF Create, OneSender, HoldsRequest, Typed, CourierTypeOK, Shape, Leave,
                moneyVars
  <1>8. ASSUME NEW h \in Handlers, FindOrder(h)
       PROVE  OneSender'
    BY <1>8 DEF FindOrder, OneSender, HoldsRequest, Typed, CourierTypeOK, Shape, Goto,
                courierVars, requestVars, moneyVars
  <1>9. ASSUME NEW h \in Handlers, OrderNotFound(h)
       PROVE  OneSender'
    BY <1>9 DEF OrderNotFound, OneSender, HoldsRequest, Typed, CourierTypeOK, Shape,
                Abandon, Leave, courierVars, requestVars
  <1>10. ASSUME NEW h \in Handlers, Deliver(h)
       PROVE  OneSender'
    BY <1>10 DEF Deliver, OneSender, HoldsRequest, Typed, CourierTypeOK, Shape, Leave,
                 requestVars, moneyVars
  <1>11. ASSUME NEW h \in Handlers, FindCourier(h)
       PROVE  OneSender'
    BY <1>11 DEF FindCourier, OneSender, HoldsRequest, Typed, CourierTypeOK, Shape,
                 courierVars, requestVars, moneyVars
  <1>12. ASSUME NEW h \in Handlers, CourierNotFound(h)
       PROVE  OneSender'
    BY <1>12 DEF CourierNotFound, OneSender, HoldsRequest, Typed, CourierTypeOK, Shape,
                 Abandon, Leave, courierVars, requestVars
  <1>13. ASSUME NEW h \in Handlers, WriteApproval(h)
       PROVE  OneSender'
    BY <1>13 DEF WriteApproval, OneSender, HoldsRequest, Typed, CourierTypeOK, Shape,
                 Goto, RequestFree, courierVars, requestVars, moneyVars
  <1>14. ASSUME NEW h \in Handlers, NothingLeftOver(h)
       PROVE  OneSender'
    BY <1>14 DEF NothingLeftOver, OneSender, HoldsRequest, Typed, CourierTypeOK, Shape,
                 Abandon, RequestFree, Leave, courierVars, requestVars
  <1>15. ASSUME NEW h \in Handlers, WriteLeftOver(h)
       PROVE  OneSender'
    BY <1>15 DEF WriteLeftOver, OneSender, HoldsRequest, Typed, CourierTypeOK, Shape,
                 Goto, courierVars, requestVars, moneyVars
  <1>16. ASSUME NEW h \in Handlers, Transfer(h)
       PROVE  OneSender'
    BY <1>16 DEF Transfer, OneSender, HoldsRequest, Typed, CourierTypeOK, Shape, Goto,
                 courierVars, requestVars
  <1>17. ASSUME NEW h \in Handlers, TransferRefused(h)
       PROVE  OneSender'
    BY <1>17 DEF TransferRefused, OneSender, HoldsRequest, Typed, CourierTypeOK, Shape,
                 Abandon, Leave, courierVars, requestVars
  <1>18. ASSUME NEW h \in Handlers, Approve(h)
       PROVE  OneSender'
    BY <1>18 DEF Approve, OneSender, HoldsRequest, Typed, CourierTypeOK, Shape, Leave,
                 moneyVars
  <1>19. ASSUME NEW h \in Handlers, WriteReturn(h)
       PROVE  OneSender'
    BY <1>19 DEF WriteReturn, OneSender, HoldsRequest, Typed, CourierTypeOK, Shape, Goto,
                 courierVars, requestVars, moneyVars
  <1>20. ASSUME NEW h \in Handlers, Reject(h)
       PROVE  OneSender'
    BY <1>20 DEF Reject, OneSender, HoldsRequest, Typed, CourierTypeOK, Shape, Leave,
                 RequestFree, moneyVars
  <1>21. ASSUME NEW h \in Handlers, Restrict(h)
       PROVE  OneSender'
    BY <1>21 DEF Restrict, OneSender, HoldsRequest, Typed, CourierTypeOK, Shape, Leave,
                 requestVars, moneyVars
  <1>22. ASSUME NEW h \in Handlers, LockFails(h)
       PROVE  OneSender'
    BY <1>22 DEF LockFails, OneSender, HoldsRequest, Typed, CourierTypeOK, Shape, Abandon,
                 Leave, courierVars, requestVars
  <1>23. ASSUME NEW h \in Handlers, Fails(h)
       PROVE  OneSender'
    BY <1>23 DEF Fails, OneSender, HoldsRequest, Typed, CourierTypeOK, Shape, Abandon,
                 Leave, courierVars, requestVars
  <1>24. CASE UNCHANGED vars
    BY <1>24 DEF vars, OneSender, HoldsRequest, Typed, CourierTypeOK, Shape, courierVars,
                 requestVars, handlerVars, moneyVars
  <1>25. QED
    BY <1>1, <1>2, <1>3, <1>4, <1>5, <1>6, <1>7, <1>8, <1>9, <1>10, <1>11, <1>12, <1>13,
       <1>14, <1>15, <1>16, <1>17, <1>18, <1>19, <1>20, <1>21, <1>22, <1>23, <1>24
    DEF Next, Starts, Step

\* What an answered request was to send.
Booked(r) == IF request[r].accepted THEN InCents(request[r].approved) ELSE 0

\* A request that does not exist yet, or that is being answered from a copy that
\* is up to date, has no answer.
Unanswered ==
  /\ \A r \in Requests : request[r].amount = 0 =>
       ~request[r].accepted /\ ~request[r].rejected
  /\ \A h \in Handlers : op[h] \in {"approve", "reject"} =>
       ~mRequest[h].accepted /\ ~mRequest[h].rejected

AnsweredOnce ==
  \A r \in Requests \ stale : ~(request[r].accepted /\ request[r].rejected)

SentIsBooked ==
  \A r \in Requests \ stale :
    /\ \A h \in Handlers : pc[h] = "sent" /\ target[h] = r =>
         sent[r] = stray[r] + Booked(r) + InCents(asked[h])
    /\ (\A h \in Handlers : ~(pc[h] = "sent" /\ target[h] = r)) =>
         sent[r] = stray[r] + Booked(r)

\* What an answer writes to its request; h has an up-to-date copy, or the row is
\* stale from now on.
LEMMA AnswerWrites ==
  ASSUME Typed, Current, SameAmount, Unanswered, NEW h \in Handlers,
         Approve(h) \/ Reject(h)
  PROVE  /\ target[h] \in Requests /\ pc'[h] = "idle"
         /\ \A q \in Requests : q # target[h] => request'[q] = request[q]
         /\ request'[target[h]].amount = request[target[h]].amount
         /\ stale \subseteq stale'
         /\ target[h] \notin stale' =>
              /\ ~request[target[h]].accepted /\ ~request[target[h]].rejected
              /\ Approve(h) => /\ request'[target[h]].accepted
                               /\ ~request'[target[h]].rejected
                               /\ request'[target[h]].approved = asked[h]
                               /\ request'[target[h]] = Approved(h)
              /\ Reject(h) => ~request'[target[h]].accepted
  <1> DEFINE r == target[h]
  <1>1. /\ op[h] \in {"approve", "reject"} /\ r \in Requests
        /\ Approve(h) => op[h] = "approve"
    BY DEF Approve, Reject, Typed, CourierTypeOK, Shape
  <1> DEFINE rows == IF Reject(h) THEN {"courier", r}
                     ELSE {r} \cup IF Partial(h) THEN {"courier"} ELSE {}
  <1>2. ~(Approve(h) /\ Reject(h))
    BY DEF Approve, Reject
  <1>3. /\ rows \in SUBSET ({"courier"} \cup Requests) /\ r \in rows
        /\ Outdates(h, rows) /\ Leave(h)
    BY <1>1, <1>2 DEF Approve, Reject
  <1>4. /\ stale \subseteq stale'
        /\ "request" \notin fresh[h] => r \in stale'
    BY <1>1, <1>3, Outdating, BalanceAssumption
  <1>5. pc'[h] = "idle"
    BY <1>3 DEF Leave, Typed, CourierTypeOK
  <1> DEFINE mine == IF Approve(h) THEN Approved(h)
                     ELSE [mRequest[h] EXCEPT !.rejected = TRUE]
  <1>6. mine \in RequestRow
    BY <1>1, MineTyped
  <1>7. mine.amount = mRequest[h].amount
    BY DEF Approved, Typed, CourierTypeOK, RequestRow
  <1>8. WriteRequest(h, mine)
    BY DEF Approve, Reject
  <1>9. /\ \A x \in Requests : x # r => request'[x] = request[x]
        /\ request'[r].amount = request[r].amount
        /\ mRequest[h] = request[r] => request'[r] = mine
    BY <1>1, <1>6, <1>7, <1>8, RequestCommit
  <1>10. ASSUME r \notin stale'
         PROVE  /\ ~request[r].accepted /\ ~request[r].rejected
                /\ Approve(h) => /\ request'[r].accepted /\ ~request'[r].rejected
                                 /\ request'[r].approved = asked[h]
                                 /\ request'[r] = Approved(h)
                /\ Reject(h) => ~request'[r].accepted
    <2>1. mRequest[h] = request[r] /\ request'[r] = mine
      BY <1>4, <1>9, <1>10 DEF Current
    <2>2. ~mRequest[h].accepted /\ ~mRequest[h].rejected
      BY <1>1 DEF Unanswered
    <2>3. mRequest[h] \in RequestRow
      BY DEF Typed, CourierTypeOK
    <2>4. ASSUME Approve(h)
          PROVE  /\ request'[r].accepted /\ ~request'[r].rejected
                 /\ request'[r].approved = asked[h] /\ request'[r] = Approved(h)
      <3>1. request'[r] = Approved(h)
        BY <2>1, <2>4
      <3>2. /\ Approved(h).accepted /\ Approved(h).rejected = mRequest[h].rejected
            /\ Approved(h).approved = asked[h]
        BY <2>3 DEF Approved, RequestRow
      <3>3. QED
        BY <2>2, <3>1, <3>2
    <2>5. ASSUME Reject(h) PROVE ~request'[r].accepted
      <3>1. request'[r] = [mRequest[h] EXCEPT !.rejected = TRUE]
        BY <1>2, <2>1, <2>5
      <3>2. [mRequest[h] EXCEPT !.rejected = TRUE].accepted = mRequest[h].accepted
        BY <2>3 DEF RequestRow
      <3>3. QED
        BY <2>2, <3>1, <3>2
    <2>6. QED
      BY <2>1, <2>2, <2>4, <2>5
  <1>11. QED
    BY <1>1, <1>4, <1>5, <1>9, <1>10

\* Every step keeps Unanswered.
LEMMA UnansweredStep ==
  Typed /\ Current /\ Reserved /\ SameAmount /\ Unanswered /\ [Next]_vars
    => Unanswered'
  <1> SUFFICES ASSUME Typed, Current, Reserved, SameAmount, Unanswered, [Next]_vars
               PROVE  Unanswered'
    OBVIOUS
  <1> USE BalanceAssumption
  <1>a. ~NewRequest(0).accepted /\ ~NewRequest(0).rejected
    BY DEF NewRequest
  <1>1. ASSUME NEW o \in Orders, TakeOrder(o)
       PROVE  Unanswered'
    BY <1>1, <1>a DEF TakeOrder, Unanswered, Typed, CourierTypeOK, Shape, requestVars,
                      handlerVars, moneyVars
  <1>2. ASSUME NEW h \in Handlers, NEW r \in Requests, NEW a \in Amounts,
               StartCreate(h, r, a)
       PROVE  Unanswered'
    BY <1>2, <1>a DEF StartCreate, Unanswered, Typed, CourierTypeOK, Shape, Begin,
                      ReadsCourier, courierVars, requestVars, moneyVars
  <1>3. ASSUME NEW h \in Handlers, NEW r \in Requests, NEW a \in Approvals,
               StartApprove(h, r, a)
       PROVE  Unanswered'
    BY <1>3, <1>a DEF StartApprove, Unanswered, Typed, CourierTypeOK, Shape, Begin,
                      OpenForApproval, courierVars, requestVars, moneyVars
  <1>4. ASSUME NEW h \in Handlers, NEW r \in Requests, StartReject(h, r)
       PROVE  Unanswered'
    BY <1>4, <1>a DEF StartReject, Unanswered, Typed, CourierTypeOK, Shape, Begin,
                      courierVars, requestVars, moneyVars
  <1>5. ASSUME NEW h \in Handlers, StartDeliver(h)
       PROVE  Unanswered'
    BY <1>5, <1>a DEF StartDeliver, Unanswered, Typed, CourierTypeOK, Shape, Begin,
                      ReadsCourier, courierVars, requestVars, moneyVars
  <1>6. ASSUME NEW h \in Handlers, StartRestrict(h)
       PROVE  Unanswered'
    BY <1>6, <1>a DEF StartRestrict, Unanswered, Typed, CourierTypeOK, Shape, Begin,
                      ReadsCourier, courierVars, requestVars, moneyVars
  <1>7. ASSUME NEW h \in Handlers, Create(h)
       PROVE  Unanswered'
    <2>1. /\ \A q \in Requests : q # target[h] => request'[q] = request[q]
          /\ target[h] \in Requests => request'[target[h]] = NewRequest(asked[h])
      BY <1>7 DEF Create, Typed, CourierTypeOK
    <2>2. ~NewRequest(asked[h]).accepted /\ ~NewRequest(asked[h]).rejected
      BY DEF NewRequest
    <2>3. \A x \in Handlers : op'[x] \in {"approve", "reject"} =>
            op'[x] = op[x] /\ mRequest'[x] = mRequest[x]
      BY <1>7 DEF Create, Leave, Typed, CourierTypeOK
    <2>4. QED
      BY <2>1, <2>2, <2>3 DEF Unanswered
  <1>8. ASSUME NEW h \in Handlers, FindOrder(h)
       PROVE  Unanswered'
    BY <1>8, <1>a DEF FindOrder, Unanswered, Typed, CourierTypeOK, Shape, Goto,
                      courierVars, requestVars, moneyVars
  <1>9. ASSUME NEW h \in Handlers, OrderNotFound(h)
       PROVE  Unanswered'
    BY <1>9, <1>a DEF OrderNotFound, Unanswered, Typed, CourierTypeOK, Shape, Abandon,
                      Leave, courierVars, requestVars
  <1>10. ASSUME NEW h \in Handlers, Deliver(h)
       PROVE  Unanswered'
    BY <1>10, <1>a DEF Deliver, Unanswered, Typed, CourierTypeOK, Shape, Leave, Outdates,
                       requestVars, moneyVars
  <1>11. ASSUME NEW h \in Handlers, FindCourier(h)
       PROVE  Unanswered'
    BY <1>11, <1>a DEF FindCourier, Unanswered, Typed, CourierTypeOK, Shape, ReadsCourier,
                       courierVars, requestVars, moneyVars
  <1>12. ASSUME NEW h \in Handlers, CourierNotFound(h)
       PROVE  Unanswered'
    BY <1>12, <1>a DEF CourierNotFound, Unanswered, Typed, CourierTypeOK, Shape, Abandon,
                       Leave, courierVars, requestVars
  <1>13. ASSUME NEW h \in Handlers, WriteApproval(h)
       PROVE  Unanswered'
    BY <1>13, <1>a DEF WriteApproval, Unanswered, Typed, CourierTypeOK, Shape, Goto,
                       courierVars, requestVars, moneyVars
  <1>14. ASSUME NEW h \in Handlers, NothingLeftOver(h)
       PROVE  Unanswered'
    BY <1>14, <1>a DEF NothingLeftOver, Unanswered, Typed, CourierTypeOK, Shape, Abandon,
                       Leave, courierVars, requestVars
  <1>15. ASSUME NEW h \in Handlers, WriteLeftOver(h)
       PROVE  Unanswered'
    BY <1>15, <1>a DEF WriteLeftOver, Unanswered, Typed, CourierTypeOK, Shape, Goto,
                       courierVars, requestVars, moneyVars
  <1>16. ASSUME NEW h \in Handlers, Transfer(h)
       PROVE  Unanswered'
    BY <1>16, <1>a DEF Transfer, Unanswered, Typed, CourierTypeOK, Shape, Goto,
                       courierVars, requestVars
  <1>17. ASSUME NEW h \in Handlers, TransferRefused(h)
       PROVE  Unanswered'
    BY <1>17, <1>a DEF TransferRefused, Unanswered, Typed, CourierTypeOK, Shape, Abandon,
                       Leave, courierVars, requestVars
  <1>18. ASSUME NEW h \in Handlers, Approve(h)
       PROVE  Unanswered'
    <2>1. /\ target[h] \in Requests /\ request[target[h]].amount > 0
      BY <1>18 DEF Approve, Typed, CourierTypeOK, Shape, Reserved
    <2>2. /\ \A q \in Requests : q # target[h] => request'[q] = request[q]
          /\ request'[target[h]].amount = request[target[h]].amount
      BY <1>18, AnswerWrites
    <2>3. \A x \in Handlers : op'[x] \in {"approve", "reject"} =>
            op'[x] = op[x] /\ mRequest'[x] = mRequest[x]
      BY <1>18 DEF Approve, Leave, Typed, CourierTypeOK
    <2>4. QED
      BY <2>1, <2>2, <2>3 DEF Unanswered
  <1>19. ASSUME NEW h \in Handlers, WriteReturn(h)
       PROVE  Unanswered'
    BY <1>19, <1>a DEF WriteReturn, Unanswered, Typed, CourierTypeOK, Shape, Goto,
                       courierVars, requestVars, moneyVars
  <1>20. ASSUME NEW h \in Handlers, Reject(h)
       PROVE  Unanswered'
    <2>1. /\ target[h] \in Requests /\ request[target[h]].amount > 0
      BY <1>20 DEF Reject, Typed, CourierTypeOK, Shape, Reserved
    <2>2. /\ \A q \in Requests : q # target[h] => request'[q] = request[q]
          /\ request'[target[h]].amount = request[target[h]].amount
      BY <1>20, AnswerWrites
    <2>3. \A x \in Handlers : op'[x] \in {"approve", "reject"} =>
            op'[x] = op[x] /\ mRequest'[x] = mRequest[x]
      BY <1>20 DEF Reject, Leave, Typed, CourierTypeOK
    <2>4. QED
      BY <2>1, <2>2, <2>3 DEF Unanswered
  <1>21. ASSUME NEW h \in Handlers, Restrict(h)
       PROVE  Unanswered'
    BY <1>21, <1>a DEF Restrict, Unanswered, Typed, CourierTypeOK, Shape, Leave, Outdates,
                       requestVars, moneyVars
  <1>22. ASSUME NEW h \in Handlers, LockFails(h)
       PROVE  Unanswered'
    BY <1>22, <1>a DEF LockFails, Unanswered, Typed, CourierTypeOK, Shape, Abandon, Leave,
                       courierVars, requestVars
  <1>23. ASSUME NEW h \in Handlers, Fails(h)
       PROVE  Unanswered'
    BY <1>23, <1>a DEF Fails, Unanswered, Typed, CourierTypeOK, Shape, Abandon, Leave,
                       courierVars, requestVars
  <1>24. CASE UNCHANGED vars
    BY <1>24, <1>a DEF vars, Unanswered, Typed, CourierTypeOK, Shape, courierVars,
                       requestVars, handlerVars, moneyVars
  <1>25. QED
    BY <1>1, <1>2, <1>3, <1>4, <1>5, <1>6, <1>7, <1>8, <1>9, <1>10, <1>11, <1>12, <1>13,
       <1>14, <1>15, <1>16, <1>17, <1>18, <1>19, <1>20, <1>21, <1>22, <1>23, <1>24
    DEF Next, Starts, Step

answerVars == <<request, stale>>

\* Only commits answer a request or make a row stale.
LEMMA AnswerFrame ==
  [Next]_vars =>
    \/ UNCHANGED answerVars
    \/ \E h \in Handlers : \/ Create(h) \/ Approve(h) \/ Reject(h) \/ Deliver(h)
                           \/ Restrict(h)
  <1> HAVE [Next]_vars
  <1>1. ASSUME NEW o \in Orders, TakeOrder(o)
       PROVE  UNCHANGED answerVars
    BY <1>1 DEF TakeOrder, answerVars, requestVars, handlerVars, moneyVars
  <1>2. ASSUME NEW h \in Handlers, NEW r \in Requests, NEW a \in Amounts,
               \/ StartCreate(h, r, a)
       PROVE  UNCHANGED answerVars
    BY <1>2 DEF StartCreate, answerVars, Begin, ReadsCourier, courierVars, requestVars,
                moneyVars
  <1>3. ASSUME NEW h \in Handlers, NEW r \in Requests, NEW a \in Approvals,
               \/ StartApprove(h, r, a)
       PROVE  UNCHANGED answerVars
    BY <1>3 DEF StartApprove, answerVars, Begin, OpenForApproval, courierVars,
                requestVars, moneyVars
  <1>4. ASSUME NEW h \in Handlers, NEW r \in Requests, StartReject(h, r)
       PROVE  UNCHANGED answerVars
    BY <1>4 DEF StartReject, answerVars, Begin, courierVars, requestVars, moneyVars
  <1>5. ASSUME NEW h \in Handlers,
               \/ StartDeliver(h) \/ StartRestrict(h) \/ FindOrder(h)
               \/ OrderNotFound(h) \/ FindCourier(h) \/ CourierNotFound(h)
               \/ WriteApproval(h) \/ NothingLeftOver(h) \/ WriteLeftOver(h)
               \/ Transfer(h) \/ TransferRefused(h) \/ WriteReturn(h) \/ LockFails(h)
               \/ Fails(h)
       PROVE  UNCHANGED answerVars
    BY <1>5 DEF StartDeliver, StartRestrict, FindOrder, OrderNotFound, FindCourier,
                CourierNotFound, WriteApproval, NothingLeftOver, WriteLeftOver, Transfer,
                TransferRefused, WriteReturn, LockFails, Fails, answerVars, Begin,
                ReadsCourier, courierVars, requestVars, moneyVars, Goto, Abandon, Leave,
                Fault, Waits
  <1>6. CASE UNCHANGED vars
    BY <1>6 DEF vars, answerVars, courierVars, requestVars, handlerVars, moneyVars
  <1>7. QED
    BY <1>1, <1>2, <1>3, <1>4, <1>5, <1>6
    DEF Next, Starts, Step

\* Every step keeps AnsweredOnce.
LEMMA AnsweredStep ==
  Typed /\ Current /\ SameAmount /\ Unanswered /\ AnsweredOnce /\ [Next]_vars
    => AnsweredOnce'
  <1> SUFFICES ASSUME Typed, Current, SameAmount, Unanswered, AnsweredOnce, [Next]_vars
               PROVE  AnsweredOnce'
    OBVIOUS
  <1>1. CASE UNCHANGED answerVars
    BY <1>1 DEF answerVars, AnsweredOnce
  <1>2. ASSUME NEW h \in Handlers, Create(h)
       PROVE  AnsweredOnce'
    <2>1. /\ \A q \in Requests : q # target[h] => request'[q] = request[q]
          /\ target[h] \in Requests => request'[target[h]] = NewRequest(asked[h])
          /\ stale \subseteq stale'
      BY <1>2 DEF Create, Outdates, Typed, CourierTypeOK
    <2>2. ~NewRequest(asked[h]).accepted
      BY DEF NewRequest
    <2>3. QED
      BY <2>1, <2>2 DEF AnsweredOnce
  <1>3. ASSUME NEW h \in Handlers, Approve(h) \/ Reject(h)
       PROVE  AnsweredOnce'
    BY <1>3, AnswerWrites DEF AnsweredOnce
  <1>4. ASSUME NEW h \in Handlers, Deliver(h) \/ Restrict(h)
       PROVE  AnsweredOnce'
    BY <1>4 DEF Deliver, Restrict, Outdates, requestVars, AnsweredOnce
  <1>5. QED
    BY <1>1, <1>2, <1>3, <1>4, AnswerFrame

\* Every step keeps SentIsBooked.
LEMMA SentStep ==
  /\ Typed /\ Current /\ Reserved /\ SameAmount /\ Unanswered /\ OneSender
  /\ SentIsBooked /\ [Next]_vars
  => SentIsBooked'
  <1> SUFFICES ASSUME Typed, Current, Reserved, SameAmount, Unanswered, OneSender,
                      SentIsBooked, [Next]_vars
               PROVE  SentIsBooked'
    OBVIOUS
  <1> USE BalanceAssumption
  <1>1. ASSUME NEW o \in Orders, TakeOrder(o)
       PROVE  SentIsBooked'
    BY <1>1 DEF TakeOrder, SentIsBooked, Booked, Typed, CourierTypeOK, Shape, requestVars,
                handlerVars, moneyVars
  <1>2. ASSUME NEW h \in Handlers, NEW r \in Requests, NEW a \in Amounts,
               StartCreate(h, r, a)
       PROVE  SentIsBooked'
    BY <1>2 DEF StartCreate, SentIsBooked, Booked, Typed, CourierTypeOK, Shape, Begin,
                ReadsCourier, courierVars, requestVars, moneyVars
  <1>3. ASSUME NEW h \in Handlers, NEW r \in Requests, NEW a \in Approvals,
               StartApprove(h, r, a)
       PROVE  SentIsBooked'
    BY <1>3 DEF StartApprove, SentIsBooked, Booked, Typed, CourierTypeOK, Shape, Begin,
                courierVars, requestVars, moneyVars
  <1>4. ASSUME NEW h \in Handlers, NEW r \in Requests, StartReject(h, r)
       PROVE  SentIsBooked'
    BY <1>4 DEF StartReject, SentIsBooked, Booked, Typed, CourierTypeOK, Shape, Begin,
                courierVars, requestVars, moneyVars
  <1>5. ASSUME NEW h \in Handlers, StartDeliver(h)
       PROVE  SentIsBooked'
    BY <1>5 DEF StartDeliver, SentIsBooked, Booked, Typed, CourierTypeOK, Shape, Begin,
                ReadsCourier, courierVars, requestVars, moneyVars
  <1>6. ASSUME NEW h \in Handlers, StartRestrict(h)
       PROVE  SentIsBooked'
    BY <1>6 DEF StartRestrict, SentIsBooked, Booked, Typed, CourierTypeOK, Shape, Begin,
                ReadsCourier, courierVars, requestVars, moneyVars
  <1>7. ASSUME NEW h \in Handlers, Create(h)
       PROVE  SentIsBooked'
    <2>1. \A x \in Handlers : x # h =>
            pc'[x] = pc[x] /\ target'[x] = target[x] /\ asked'[x] = asked[x]
      BY <1>7 DEF Create, Leave, Typed, CourierTypeOK
    <2>2. pc'[h] = "idle" /\ UNCHANGED <<sent, stray>>
      BY <1>7 DEF Create, Leave, moneyVars, Typed, CourierTypeOK
    <2>3. /\ target[h] \in Requests /\ request[target[h]].amount = 0
          /\ pc[h] = "write" /\ \A x \in Handlers : target[x] = target[h] => x = h
      BY <1>7 DEF Create, Typed, Shape, Reserved
    <2>4. ~request[target[h]].accepted
      BY <2>3 DEF Unanswered
    <2>5. /\ \A q \in Requests : q # target[h] => request'[q] = request[q]
          /\ request'[target[h]] = NewRequest(asked[h]) /\ stale \subseteq stale'
      BY <1>7, <2>3 DEF Create, Outdates, Typed, CourierTypeOK
    <2>6. ~NewRequest(asked[h]).accepted
      BY DEF NewRequest
    <2>7. \A r \in Requests : Booked(r)' = Booked(r)
      BY <2>4, <2>5, <2>6 DEF Booked
    <2>8. QED
      BY <2>1, <2>2, <2>3, <2>5, <2>7 DEF SentIsBooked
  <1>8. ASSUME NEW h \in Handlers, FindOrder(h)
       PROVE  SentIsBooked'
    BY <1>8 DEF FindOrder, SentIsBooked, Booked, Typed, CourierTypeOK, Shape, Goto,
                courierVars, requestVars, moneyVars
  <1>9. ASSUME NEW h \in Handlers, OrderNotFound(h)
       PROVE  SentIsBooked'
    BY <1>9 DEF OrderNotFound, SentIsBooked, Booked, Typed, CourierTypeOK, Shape, Abandon,
                Leave, courierVars, requestVars
  <1>10. ASSUME NEW h \in Handlers, Deliver(h)
       PROVE  SentIsBooked'
    BY <1>10 DEF Deliver, SentIsBooked, Booked, Typed, CourierTypeOK, Shape, Leave,
                 Outdates, requestVars, moneyVars
  <1>11. ASSUME NEW h \in Handlers, FindCourier(h)
       PROVE  SentIsBooked'
    BY <1>11 DEF FindCourier, SentIsBooked, Booked, Typed, CourierTypeOK, Shape,
                 ReadsCourier, courierVars, requestVars, moneyVars
  <1>12. ASSUME NEW h \in Handlers, CourierNotFound(h)
       PROVE  SentIsBooked'
    BY <1>12 DEF CourierNotFound, SentIsBooked, Booked, Typed, CourierTypeOK, Shape,
                 Abandon, Leave, courierVars, requestVars
  <1>13. ASSUME NEW h \in Handlers, WriteApproval(h)
       PROVE  SentIsBooked'
    BY <1>13 DEF WriteApproval, SentIsBooked, Booked, Typed, CourierTypeOK, Shape, Goto,
                 courierVars, requestVars, moneyVars
  <1>14. ASSUME NEW h \in Handlers, NothingLeftOver(h)
       PROVE  SentIsBooked'
    BY <1>14 DEF NothingLeftOver, SentIsBooked, Booked, Typed, CourierTypeOK, Shape,
                 Abandon, Leave, courierVars, requestVars
  <1>15. ASSUME NEW h \in Handlers, WriteLeftOver(h)
       PROVE  SentIsBooked'
    BY <1>15 DEF WriteLeftOver, SentIsBooked, Booked, Typed, CourierTypeOK, Shape, Goto,
                 courierVars, requestVars, moneyVars
  <1>16. ASSUME NEW h \in Handlers, Transfer(h)
       PROVE  SentIsBooked'
    <2> DEFINE r == target[h]
    <2>1. r \in Requests /\ pc'[h] = "sent"
      BY <1>16 DEF Transfer, Goto, Typed, CourierTypeOK, Shape
    <2>2. \A x \in Handlers : x # h => pc'[x] = pc[x]
      BY <1>16 DEF Transfer, Goto, Typed, CourierTypeOK
    <2>3. UNCHANGED <<request, stale, stray, target, asked>>
      BY <1>16 DEF Transfer, Goto, requestVars
    <2>4. \A x \in Handlers : ~(pc[x] = "sent" /\ target[x] = r)
      BY <1>16, <2>1 DEF Transfer, OneSender, HoldsRequest
    <2>5. /\ \A q \in Requests : q # r => sent'[q] = sent[q]
          /\ sent'[r] = sent[r] + InCents(asked[h])
      BY <1>16, <2>1 DEF Transfer, Typed, CourierTypeOK
    <2>6. ASSUME NEW q \in Requests \ stale', q # r
          PROVE  /\ \A x \in Handlers : pc'[x] = "sent" /\ target'[x] = q =>
                      sent'[q] = stray'[q] + Booked(q)' + InCents(asked'[x])
                 /\ (\A x \in Handlers : ~(pc'[x] = "sent" /\ target'[x] = q)) =>
                      sent'[q] = stray'[q] + Booked(q)'
      BY <2>1, <2>2, <2>3, <2>5, <2>6 DEF SentIsBooked, Booked
    <2>7. ASSUME r \in Requests \ stale'
          PROVE  \A x \in Handlers : pc'[x] = "sent" /\ target'[x] = r =>
                      sent'[r] = stray'[r] + Booked(r)' + InCents(asked'[x])
      <3>1. sent[r] = stray[r] + Booked(r)
        BY <2>1, <2>3, <2>4, <2>7 DEF SentIsBooked
      <3>2. \A x \in Handlers : pc'[x] = "sent" /\ target'[x] = r => x = h
        BY <2>2, <2>3, <2>4
      <3>3. sent'[r] = stray'[r] + Booked(r)' + InCents(asked'[h])
        BY <2>3, <2>5, <3>1 DEF Booked
      <3>4. QED
        BY <3>2, <3>3
    <2>8. QED
      BY <2>1, <2>3, <2>6, <2>7 DEF SentIsBooked
  <1>17. ASSUME NEW h \in Handlers, TransferRefused(h)
       PROVE  SentIsBooked'
    BY <1>17 DEF TransferRefused, SentIsBooked, Booked, Typed, CourierTypeOK, Shape,
                 Abandon, Leave, courierVars, requestVars
  <1>18. ASSUME NEW h \in Handlers, Approve(h)
       PROVE  SentIsBooked'
    <2>1. \A x \in Handlers : x # h =>
            pc'[x] = pc[x] /\ target'[x] = target[x] /\ asked'[x] = asked[x]
      BY <1>18 DEF Approve, Leave, Typed, CourierTypeOK
    <2>2. pc'[h] = "idle" /\ UNCHANGED <<sent, stray>>
      BY <1>18 DEF Approve, Leave, moneyVars, Typed, CourierTypeOK
    <2>3. pc[h] = "sent" /\ target[h] \in Requests
      BY <1>18, AnswerWrites DEF Approve
    <2> PICK r \in Requests : r = target[h]
      BY <2>3
    <2>4. \A x \in Handlers : pc[x] = "sent" /\ target[x] = target[h] => x = h
      BY <2>3 DEF OneSender, HoldsRequest
    <2>5. /\ \A q \in Requests : q # target[h] => request'[q] = request[q]
          /\ stale \subseteq stale'
      BY <1>18, AnswerWrites
    <2>6. ASSUME NEW q \in Requests \ stale', q # r
          PROVE  /\ \A x \in Handlers : pc'[x] = "sent" /\ target'[x] = q =>
                      sent'[q] = stray'[q] + Booked(q)' + InCents(asked'[x])
                 /\ (\A x \in Handlers : ~(pc'[x] = "sent" /\ target'[x] = q)) =>
                      sent'[q] = stray'[q] + Booked(q)'
      BY <2>1, <2>2, <2>5, <2>6 DEF SentIsBooked, Booked
    <2>7. ASSUME r \notin stale'
          PROVE  sent'[r] = stray'[r] + Booked(r)'
      <3>1. /\ ~request[target[h]].accepted /\ request'[target[h]].accepted
            /\ request'[target[h]].approved = asked[h]
        BY <1>18, <2>7, AnswerWrites
      <3>2. sent[target[h]] = stray[target[h]] + Booked(target[h]) + InCents(asked[h])
        BY <2>3, <2>5, <2>7 DEF SentIsBooked
      <3>3. Booked(r) = 0 /\ Booked(r)' = InCents(asked[h])
        BY <3>1 DEF Booked
      <3>4. /\ sent[target[h]] \in Nat /\ stray[target[h]] \in Nat
            /\ InCents(asked[h]) \in Nat
        BY <2>3, InCentsNear DEF Typed, CourierTypeOK
      <3>5. QED
        BY <2>2, <3>2, <3>3, <3>4
    <2>8. \A x \in Handlers : ~(pc'[x] = "sent" /\ target'[x] = r)
      BY <2>1, <2>2, <2>4
    <2>9. QED
      BY <2>6, <2>7, <2>8 DEF SentIsBooked
  <1>19. ASSUME NEW h \in Handlers, WriteReturn(h)
       PROVE  SentIsBooked'
    BY <1>19 DEF WriteReturn, SentIsBooked, Booked, Typed, CourierTypeOK, Shape, Goto,
                 courierVars, requestVars, moneyVars
  <1>20. ASSUME NEW h \in Handlers, Reject(h)
       PROVE  SentIsBooked'
    <2>1. \A x \in Handlers : x # h =>
            pc'[x] = pc[x] /\ target'[x] = target[x] /\ asked'[x] = asked[x]
      BY <1>20 DEF Reject, Leave, Typed, CourierTypeOK
    <2>2. pc'[h] = "idle" /\ UNCHANGED <<sent, stray>>
      BY <1>20 DEF Reject, Leave, moneyVars, Typed, CourierTypeOK
    <2>3. pc[h] = "request" /\ target[h] \in Requests
      BY <1>20, AnswerWrites DEF Reject
    <2> PICK r \in Requests : r = target[h]
      BY <2>3
    <2>4. \A x \in Handlers : ~(pc[x] = "sent" /\ target[x] = target[h])
      BY <1>20 DEF Reject, RequestFree, HoldsRequest
    <2>5. /\ \A q \in Requests : q # target[h] => request'[q] = request[q]
          /\ stale \subseteq stale'
      BY <1>20, AnswerWrites
    <2>6. ASSUME NEW q \in Requests \ stale', q # r
          PROVE  /\ \A x \in Handlers : pc'[x] = "sent" /\ target'[x] = q =>
                      sent'[q] = stray'[q] + Booked(q)' + InCents(asked'[x])
                 /\ (\A x \in Handlers : ~(pc'[x] = "sent" /\ target'[x] = q)) =>
                      sent'[q] = stray'[q] + Booked(q)'
      BY <2>1, <2>2, <2>3, <2>5, <2>6 DEF SentIsBooked, Booked
    <2>7. ASSUME r \notin stale'
          PROVE  sent'[r] = stray'[r] + Booked(r)'
      <3>1. ~request[target[h]].accepted /\ ~request'[target[h]].accepted
        BY <1>20, <2>7, AnswerWrites
      <3>2. QED
        BY <2>2, <2>3, <2>4, <2>5, <2>7, <3>1 DEF SentIsBooked, Booked
    <2>8. \A x \in Handlers : ~(pc'[x] = "sent" /\ target'[x] = r)
      BY <2>1, <2>2, <2>4
    <2>9. QED
      BY <2>6, <2>7, <2>8 DEF SentIsBooked
  <1>21. ASSUME NEW h \in Handlers, Restrict(h)
       PROVE  SentIsBooked'
    BY <1>21 DEF Restrict, SentIsBooked, Booked, Typed, CourierTypeOK, Shape, Leave,
                 Outdates, requestVars, moneyVars
  <1>22. ASSUME NEW h \in Handlers, LockFails(h)
       PROVE  SentIsBooked'
    BY <1>22 DEF LockFails, SentIsBooked, Booked, Typed, CourierTypeOK, Shape, Abandon,
                 Waits, Leave, courierVars, requestVars
  <1>23. ASSUME NEW h \in Handlers, Fails(h)
       PROVE  SentIsBooked'
    <2>1. \A x \in Handlers : x # h =>
            pc'[x] = pc[x] /\ target'[x] = target[x] /\ asked'[x] = asked[x]
      BY <1>23 DEF Fails, Abandon, Leave, Typed, CourierTypeOK
    <2>2. pc'[h] = "idle" /\ UNCHANGED <<sent, request, stale>>
      BY <1>23 DEF Fails, Abandon, Leave, requestVars, Typed, CourierTypeOK
    <2>3. CASE pc[h] # "sent"
      <3>1. UNCHANGED stray
        BY <1>23, <2>3 DEF Fails
      <3>2. QED
        BY <2>1, <2>2, <2>3, <3>1 DEF SentIsBooked, Booked
    <2>4. CASE pc[h] = "sent"
      <3>1. target[h] \in Requests
        BY <2>4 DEF Typed, CourierTypeOK, Shape
      <3> PICK r \in Requests : r = target[h]
        BY <3>1
      <3>2. /\ \A q \in Requests : q # target[h] => stray'[q] = stray[q]
            /\ stray'[target[h]] = stray[target[h]] + InCents(asked[h])
        BY <1>23, <2>4, <3>1 DEF Fails, Typed, CourierTypeOK
      <3>3. \A x \in Handlers : pc[x] = "sent" /\ target[x] = target[h] => x = h
        BY <2>4, <3>1 DEF OneSender, HoldsRequest
      <3>4. ASSUME r \notin stale
            PROVE  sent'[r] = stray'[r] + Booked(r)'
        <4>1. sent[target[h]] = stray[target[h]] + Booked(target[h]) + InCents(asked[h])
          BY <2>4, <3>1, <3>4 DEF SentIsBooked
        <4>2. Booked(r)' = Booked(r) /\ Booked(r) \in Nat
          BY <2>2, <3>1, InCentsNear DEF Booked, Typed, CourierTypeOK, RequestRow
        <4>3. stray[target[h]] \in Nat /\ InCents(asked[h]) \in Nat
          BY <3>1, InCentsNear DEF Typed, CourierTypeOK
        <4>4. QED
          BY <2>2, <3>2, <4>1, <4>2, <4>3
      <3>5. \A x \in Handlers : ~(pc'[x] = "sent" /\ target'[x] = r)
        BY <2>1, <2>2, <3>3
      <3>6. ASSUME NEW q \in Requests \ stale', q # r
            PROVE  /\ \A x \in Handlers : pc'[x] = "sent" /\ target'[x] = q =>
                        sent'[q] = stray'[q] + Booked(q)' + InCents(asked'[x])
                   /\ (\A x \in Handlers : ~(pc'[x] = "sent" /\ target'[x] = q)) =>
                        sent'[q] = stray'[q] + Booked(q)'
        BY <2>1, <2>2, <3>2, <3>6 DEF SentIsBooked, Booked
      <3>7. QED
        BY <2>2, <3>4, <3>5, <3>6 DEF SentIsBooked
    <2>5. QED
      BY <2>3, <2>4
  <1>24. CASE UNCHANGED vars
    BY <1>24 DEF vars, SentIsBooked, Booked, Typed, CourierTypeOK, Shape, courierVars,
                 requestVars, handlerVars, moneyVars
  <1>25. QED
    BY <1>1, <1>2, <1>3, <1>4, <1>5, <1>6, <1>7, <1>8, <1>9, <1>10, <1>11, <1>12, <1>13,
       <1>14, <1>15, <1>16, <1>17, <1>18, <1>19, <1>20, <1>21, <1>22, <1>23, <1>24
    DEF Next, Starts, Step

\* However many admins answer it, and whatever fails, a request is answered
\* once, and besides what was rolled back Stripe sends nothing before it is
\* approved, and then never more than was approved and at most a cent less;
\* unless it was answered from a copy that another answer had made out of date.
THEOREM RequestSettledOnce == Spec => []SettledOnce
  <1> DEFINE Inv == Unanswered /\ OneSender /\ AnsweredOnce /\ SentIsBooked
  <1>1. Init => Inv
    BY DEF Init, Unanswered, OneSender, AnsweredOnce, SentIsBooked, Booked,
           HoldsRequest, NewRequest
  <1>2. /\ Typed /\ Current /\ Reserved /\ SameAmount /\ Inv /\ [Next]_vars
        => Inv'
    BY UnansweredStep, OneSenderStep, AnsweredStep, SentStep
  <1>3. Typed /\ Inv => SettledOnce
    <2> SUFFICES ASSUME Typed, Inv, NEW r \in Requests \ stale
                 PROVE  /\ ~(request[r].accepted /\ request[r].rejected)
                        /\ (\A h \in Handlers : ~(pc[h] = "sent" /\ target[h] = r))
                           => sent[r] - stray[r] \in
                                IF request[r].accepted
                                THEN request[r].approved - 1 .. request[r].approved
                                ELSE {0}
      BY DEF SettledOnce
    <2>1. ~(request[r].accepted /\ request[r].rejected)
      BY DEF AnsweredOnce
    <2>2. ASSUME \A h \in Handlers : ~(pc[h] = "sent" /\ target[h] = r)
          PROVE  sent[r] = stray[r] + Booked(r)
      BY <2>2 DEF SentIsBooked
    <2>3. sent[r] \in Nat /\ stray[r] \in Nat /\ request[r].approved \in Nat
      BY DEF Typed, CourierTypeOK, RequestRow
    <2>4. /\ InCents(request[r].approved) \in Nat
          /\ InCents(request[r].approved)
               \in request[r].approved - 1 .. request[r].approved
      BY <2>3, InCentsNear
    <2>5. QED
      BY <2>1, <2>2, <2>3, <2>4 DEF Booked
  <1>4. QED
    BY <1>1, <1>2, <1>3, TypedAlways, CopiesAlways, PTL DEF Spec

-----------------------------------------------------------------------------
(* The cents.  An approval and what it gives back are rounded apart only    *)
(* once, and nobody writes an answered request from an up-to-date copy.     *)

\* What an approval writes makes up for the request but for half a dollar.
LEMMA ApprovedNear ==
  ASSUME Typed, NEW h \in Handlers, op[h] = "approve"
  PROVE  2 * (Approved(h).approved + Approved(h).refunded - Approved(h).amount)
           \in -Dollar .. Dollar
  <1> DEFINE rest == mRequest[h].amount - asked[h]
  <1>1. /\ mRequest[h] \in RequestRow /\ asked[h] \in Nat
        /\ mRequest[h].amount \in Nat /\ asked[h] <= mRequest[h].amount
        /\ Dollar \in Nat
    BY BalanceAssumption DEF Typed, CourierTypeOK, Shape, RequestRow
  <1>2. /\ Approved(h).approved = asked[h] /\ Approved(h).amount = mRequest[h].amount
        /\ Approved(h).refunded = IF Partial(h) THEN LeftOver(h) ELSE 0
    BY <1>1 DEF Approved, RequestRow
  <1>3. CASE Partial(h)
    <2>1. LeftOver(h) \in Nat /\ 2 * (LeftOver(h) - rest) \in -Dollar .. Dollar
      BY <1>1, LeftOverNear
    <2>2. asked[h] + LeftOver(h) - mRequest[h].amount = LeftOver(h) - rest
      BY <1>1, <2>1
    <2>3. QED
      BY <1>2, <1>3, <2>1, <2>2
  <1>4. CASE ~Partial(h)
    BY <1>1, <1>2, <1>4 DEF Partial
  <1>5. QED
    BY <1>3, <1>4

\* Every step keeps RoundedByHalfADollar.
LEMMA RoundingStep ==
  Typed /\ Current /\ SameAmount /\ Unanswered /\ RoundedByHalfADollar /\ [Next]_vars
    => RoundedByHalfADollar'
  <1> SUFFICES ASSUME Typed, Current, SameAmount, Unanswered, RoundedByHalfADollar,
                      [Next]_vars
               PROVE  RoundedByHalfADollar'
    OBVIOUS
  <1>1. CASE UNCHANGED answerVars
    BY <1>1 DEF answerVars, RoundedByHalfADollar
  <1>2. ASSUME NEW h \in Handlers, Create(h)
       PROVE  RoundedByHalfADollar'
    <2>1. /\ \A q \in Requests : q # target[h] => request'[q] = request[q]
          /\ target[h] \in Requests => request'[target[h]] = NewRequest(asked[h])
          /\ stale \subseteq stale'
      BY <1>2 DEF Create, Outdates, Typed, CourierTypeOK
    <2>2. ~NewRequest(asked[h]).accepted
      BY DEF NewRequest
    <2>3. QED
      BY <2>1, <2>2 DEF RoundedByHalfADollar
  <1>3. ASSUME NEW h \in Handlers, Approve(h)
       PROVE  RoundedByHalfADollar'
    <2>1. op[h] = "approve"
      BY <1>3 DEF Approve, Typed, Shape, CourierTypeOK
    <2>2. /\ target[h] \in Requests /\ stale \subseteq stale'
          /\ \A q \in Requests : q # target[h] => request'[q] = request[q]
          /\ target[h] \notin stale' => request'[target[h]] = Approved(h)
      BY <1>3, AnswerWrites
    <2>3. QED
      BY <2>1, <2>2, ApprovedNear DEF RoundedByHalfADollar
  <1>4. ASSUME NEW h \in Handlers, Reject(h)
       PROVE  RoundedByHalfADollar'
    BY <1>4, AnswerWrites DEF RoundedByHalfADollar
  <1>5. ASSUME NEW h \in Handlers, Deliver(h) \/ Restrict(h)
       PROVE  RoundedByHalfADollar'
    BY <1>5 DEF Deliver, Restrict, Outdates, requestVars, RoundedByHalfADollar
  <1>6. QED
    BY <1>1, <1>2, <1>3, <1>4, <1>5, AnswerFrame

\* Whatever part of a request is approved, what the courier gets and what goes
\* back to his balance add up to what he asked for, but for half a dollar.
THEOREM RoundingBounded == Spec => []RoundedByHalfADollar
  <1> DEFINE Inv == Unanswered /\ RoundedByHalfADollar
  <1>1. Init => Inv
    BY DEF Init, Unanswered, RoundedByHalfADollar, NewRequest
  <1>2. Typed /\ Current /\ Reserved /\ SameAmount /\ Inv /\ [Next]_vars => Inv'
    BY UnansweredStep, RoundingStep
  <1>3. QED
    BY <1>1, <1>2, TypedAlways, CopiesAlways, PTL DEF Spec
=============================================================================
