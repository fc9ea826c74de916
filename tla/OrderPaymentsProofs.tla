------------------------ MODULE OrderPaymentsProofs ------------------------
(***************************************************************************)
(* Theorems about OrderPayments for any number of handlers, orders,        *)
(* intents, requests and faults.                                           *)
(***************************************************************************)
EXTENDS OrderPayments, TLAPS

-----------------------------------------------------------------------------
(* Rows.                                                                   *)

\* An update writes the columns that differ from the copy, and no other.
LEMMA WrittenRow ==
  ASSUME NEW row \in Row, NEW copy \in Row, NEW new \in Row
  PROVE  /\ Written(row, copy, new) \in Row
         /\ row = copy => Written(row, copy, new) = new
         /\ new = copy => Written(row, copy, new) = row
         /\ Written(row, copy, new).status =
              IF new.status # copy.status THEN new.status ELSE row.status
         /\ \/ Written(row, copy, new).paid = row.paid
            \/ new.paid # copy.paid /\ Written(row, copy, new).paid = new.paid
         /\ \/ Written(row, copy, new).refunded = row.refunded
            \/ /\ new.refunded # copy.refunded
               /\ Written(row, copy, new).refunded = new.refunded
         /\ new.paid # copy.paid => Written(row, copy, new).paid = new.paid
         /\ new.refunded # copy.refunded =>
              Written(row, copy, new).refunded = new.refunded
  <1> DEFINE w == Written(row, copy, new)
  <1>1. DOMAIN row = {"status", "paid", "refunded"}
    BY DEF Row
  <1>2. w = [status |-> w.status, paid |-> w.paid, refunded |-> w.refunded]
    BY <1>1 DEF Written
  <1>3. /\ w.status = IF new.status # copy.status THEN new.status ELSE row.status
        /\ w.paid = IF new.paid # copy.paid THEN new.paid ELSE row.paid
        /\ w.refunded = IF new.refunded # copy.refunded THEN new.refunded
                        ELSE row.refunded
    BY <1>1 DEF Written
  <1>4. w \in Row
    BY <1>2, <1>3 DEF Row
  <1>5. row = [status |-> row.status, paid |-> row.paid, refunded |-> row.refunded]
        /\ new = [status |-> new.status, paid |-> new.paid, refunded |-> new.refunded]
    BY DEF Row
  <1>6. ASSUME row = copy PROVE w = new
    <2>1. w.status = new.status
      BY <1>3, <1>6
    <2>2. w.paid = new.paid
      BY <1>3, <1>6
    <2>3. w.refunded = new.refunded
      BY <1>3, <1>6
    <2>4. QED
      BY <1>2, <1>5, <2>1, <2>2, <2>3
  <1>7. ASSUME new = copy PROVE w = row
    BY <1>2, <1>3, <1>5, <1>7
  <1>8. QED
    BY <1>3, <1>4, <1>6, <1>7

-----------------------------------------------------------------------------
(* Types.                                                                  *)

\* The rows, the counters and the history.
RowsTyped ==
  /\ order \in [Orders -> Row] /\ seal \in [Orders -> Row]
  /\ intent \in [Orders -> Intents \cup {None}]
  /\ flags \in [Orders -> SUBSET Flags]
  /\ requests \in 0 .. MaxRequests /\ faults \in 0 .. MaxFaults
  /\ stale \subseteq Orders /\ crossed \subseteq Orders
  /\ outrun \subseteq Orders /\ unasked \subseteq Orders

\* An intent that exists was made for an order, and is the only kind of
\* which a webhook tells.
StripeTyped ==
  /\ stripe \in [Intents -> Intent]
  /\ events \subseteq {"paid", "refunded"} \X Intents
  /\ \A i \in Intents : stripe[i].state # "none" =>
       stripe[i].order \in Orders /\ stripe[i].client \in Orders
  /\ \A kind \in {"paid", "refunded"}, i \in Intents :
       <<kind, i>> \in events => stripe[i].state # "none"

\* What a handler has in hand, by what it does.
HandlersTyped ==
  /\ op \in [Handlers -> Ops]
  /\ pc \in [Handlers -> {"idle", "prepare", "record", "charge", "request",
                          "commit", "write", "ask"}]
  /\ target \in [Handlers -> Orders \cup {None}]
  /\ made \in [Handlers -> Intents \cup {None}]
  /\ mine \in [Handlers -> Copy] /\ mOrder \in Copy
  /\ \A h \in Handlers :
       /\ (op[h] = "none") <=> (pc[h] = "idle")
       /\ op[h] = "confirm" =>
            /\ pc[h] \in {"prepare", "record", "charge", "request", "commit", "ask"}
            /\ target[h] \in Orders /\ mOrder.of \in Orders
            /\ pc[h] # "prepare" => made[h] \in Intents
       /\ op[h] \notin {"none", "confirm"} =>
            /\ pc[h] \in {"write", "ask"}
            /\ target[h] \in Orders /\ mine[h].of = target[h]
       /\ op[h] \in {"paid", "refunded"} =>
            made[h] \in Intents /\ stripe[made[h]].state # "none"

\* What a step does to an intent that exists: it stays the intent of its
\* order, a charged one stays charged or is paid back, and that is final.
Forward ==
  \A i \in Intents : stripe[i].state # "none" =>
    /\ stripe'[i].order = stripe[i].order /\ stripe'[i].client = stripe[i].client
    /\ stripe'[i].state # "none"
    /\ stripe[i].state = "charged" => stripe'[i].state \in {"charged", "refunded"}
    /\ stripe[i].state = "refunded" => stripe'[i].state = "refunded"

Typed == RowsTyped /\ StripeTyped /\ HandlersTyped

\* A copy of a row; the copies a handler starts and ends with.
LEMMA CopyTyped ==
  ASSUME Typed
  PROVE  /\ \A o \in Orders : CopyOf(o) \in Copy /\ CopyOf(o).of = o
         /\ NoCopy \in Copy
  BY DEF Typed, RowsTyped, CopyOf, NoCopy, NewRow, Copy, Row

\* The rows that are written are rows.
LEMMA NewRowsTyped ==
  ASSUME NEW copy \in Copy
  PROVE  /\ copy.row \in Row
         /\ \A s \in {"created", "processing", "canceled", "refunded"} :
              [copy.row EXCEPT !.status = s] \in Row
         /\ \A o : PaidRow(o, copy.row) \in Row
         /\ [copy.row EXCEPT !.status = "refunded", !.refunded = TRUE] \in Row
  BY DEF Copy, Row, PaidRow

\* The row of mOrder after its updates.
LEMMA ConfirmedTyped ==
  ASSUME Typed, NEW h \in Handlers, made[h] \in Intents
  PROVE  /\ Confirmed(h) \in Copy /\ Confirmed(h).of = mOrder.of
         /\ [mOrder EXCEPT !.intent = made[h]] \in Copy
         /\ [mOrder EXCEPT !.intent = made[h]].of = mOrder.of
         /\ [mOrder EXCEPT !.intent = made[h]].row = mOrder.row
         /\ Confirmed(h).row \in Row
         /\ Confirmed(h).row.status \in {mOrder.row.status, "processing"}
         /\ Confirmed(h).row.paid = mOrder.row.paid
         /\ Confirmed(h).row.refunded = mOrder.row.refunded
  <1>1. mOrder \in Copy
    BY DEF Typed, RowsTyped, HandlersTyped
  <1>2. QED
    BY <1>1 DEF Confirmed, Copy, Row

\* The columns of an order after an update.
LEMMA ColumnsTyped ==
  ASSUME Typed, NEW copy \in Copy, copy.of \in Orders, NEW new \in Row,
         WriteColumns(copy, new)
  PROVE  /\ order' \in [Orders -> Row]
         /\ \A o \in Orders : o # copy.of => order'[o] = order[o]
         /\ order'[copy.of] = Written(order[copy.of], copy.row, new)
  <1>1. copy.row \in Row /\ order[copy.of] \in Row
    BY DEF Copy, Typed, RowsTyped, HandlersTyped
  <1>2. Written(order[copy.of], copy.row, new) \in Row
    BY <1>1, WrittenRow
  <1>3. QED
    BY <1>2 DEF WriteColumns, Typed, RowsTyped, HandlersTyped

\* The same with a checksum.
LEMMA RowTyped ==
  ASSUME Typed, NEW copy \in Copy, copy.of \in Orders, NEW new \in Row,
         WriteRow(copy, new)
  PROVE  /\ order' \in [Orders -> Row] /\ seal' \in [Orders -> Row]
         /\ stale' \subseteq Orders
  BY ColumnsTyped DEF WriteRow, Typed, RowsTyped, HandlersTyped

\* A handler begins.
LEMMA BeginTyped ==
  ASSUME HandlersTyped, Forward, NEW h \in Handlers, NEW name \in Ops, NEW label,
         NEW o \in Orders, NEW i \in Intents \cup {None}, Begin(h, name, label, o, i),
         \/ /\ name = "confirm" /\ label = "prepare" /\ UNCHANGED mine
            /\ mOrder' \in Copy /\ mOrder'.of \in Orders
         \/ /\ name \notin {"none", "confirm"} /\ label = "write" /\ UNCHANGED mOrder
            /\ name \in {"paid", "refunded"} =>
                 i \in Intents /\ stripe[i].state # "none"
            /\ \E copy \in Copy : copy.of = o /\ mine' = [mine EXCEPT ![h] = copy]
  PROVE  HandlersTyped'
  BY DEF HandlersTyped, Begin, Ops, Forward

\* A handler goes on.
LEMMA GotoTyped ==
  ASSUME HandlersTyped, Forward, NEW h \in Handlers, NEW label, Goto(h, label),
         \/ UNCHANGED mOrder
         \/ /\ mOrder' \in Copy
            /\ op[h] = "confirm" => mOrder'.of = mOrder.of,
         \/ op[h] = "confirm" /\ pc[h] # "prepare"
              /\ label \in {"charge", "request", "commit", "ask"}
         \/ op[h] \notin {"none", "confirm"} /\ label = "ask" /\ UNCHANGED mOrder
  PROVE  HandlersTyped'
  BY DEF HandlersTyped, Goto, Forward

\* A handler ends.
LEMMA LeaveTyped ==
  ASSUME HandlersTyped, Forward, NEW h \in Handlers, Leave(h), NoCopy \in Copy,
         \/ UNCHANGED mOrder
         \/ \E copy \in Copy : copy.of = mOrder.of /\ Keep(h, copy)
  PROVE  HandlersTyped'
  <1>1. /\ \A x \in Handlers : x # h =>
             /\ op'[x] = op[x] /\ pc'[x] = pc[x] /\ target'[x] = target[x]
             /\ made'[x] = made[x] /\ mine'[x] = mine[x]
        /\ op'[h] = "none" /\ pc'[h] = "idle"
    BY DEF Leave, HandlersTyped
  <1>2. /\ op' \in [Handlers -> Ops] /\ target' \in [Handlers -> Orders \cup {None}]
        /\ pc' \in [Handlers -> {"idle", "prepare", "record", "charge", "request",
                                   "commit", "write", "ask"}]
        /\ made' \in [Handlers -> Intents \cup {None}] /\ mine' \in [Handlers -> Copy]
    BY DEF Leave, HandlersTyped, Ops
  <1>3. mOrder' \in Copy
    BY DEF Keep, HandlersTyped
  <1>4. ASSUME NEW x \in Handlers, x # h, op[x] = "confirm" PROVE mOrder'.of = mOrder.of
    BY <1>4 DEF Keep, Confirming
  <1>5. QED
    BY <1>1, <1>2, <1>3, <1>4 DEF HandlersTyped, Forward

\* A handler reads an order, to cancel it, to push it or to answer for it.
LEMMA ReadTyped ==
  ASSUME Typed, NEW h \in Handlers, NEW o \in Orders,
         NEW name \in Ops \ {"none", "confirm", "paid", "refunded"},
         ReadFor(h, name, o, TRUE)
  PROVE  Typed'
  <1>1. RowsTyped'
    BY PaymentsAssumption DEF Typed, RowsTyped, ReadFor, Begin, rowVars, historyVars
  <1>2. StripeTyped' /\ Forward
    BY DEF Typed, StripeTyped, Forward, ReadFor, stripeVars
  <1>3. Begin(h, name, "write", o, intent[o]) /\ intent[o] \in Intents \cup {None}
    BY DEF Typed, RowsTyped, ReadFor
  <1>4. \E copy \in Copy : copy.of = o /\ mine' = [mine EXCEPT ![h] = copy]
    BY CopyTyped DEF ReadFor
  <1>5. HandlersTyped'
    BY <1>2, <1>3, <1>4, BeginTyped DEF Typed, ReadFor
  <1>6. QED
    BY <1>1, <1>2, <1>5 DEF Typed

\* Stripe moves an intent that exists, and may report it.
LEMMA MoveTyped ==
  ASSUME StripeTyped, NEW i \in Intents,
         NEW s \in {"charged", "refunded", "canceled"}, Move(i, s),
         \/ stripe[i].state \in {"new", "given"}
         \/ stripe[i].state = "charged" /\ s = "refunded",
         \/ UNCHANGED events
         \/ \E kind \in {"paid", "refunded"} : Report(kind, i)
  PROVE  StripeTyped' /\ Forward
  <1>1. [stripe[i] EXCEPT !.state = s] \in Intent
    BY DEF StripeTyped, Intent
  <1>2. stripe' = [stripe EXCEPT ![i] = [stripe[i] EXCEPT !.state = s]]
    BY DEF Move, StripeTyped
  <1>3. /\ stripe' \in [Intents -> Intent]
        /\ stripe'[i].state = s /\ stripe'[i].order = stripe[i].order
        /\ stripe'[i].client = stripe[i].client
        /\ \A j \in Intents : j # i => stripe'[j] = stripe[j]
    BY <1>1, <1>2 DEF StripeTyped, Intent
  <1>4. QED
    BY <1>3 DEF StripeTyped, Report, Forward

\* The client is given the intent.
LEMMA GiveTyped ==
  ASSUME StripeTyped, NEW i \in Intents, Give(i), UNCHANGED events
  PROVE  StripeTyped' /\ Forward
  <1> DEFINE s == IF stripe[i].state = "new" THEN "given" ELSE stripe[i].state
  <1>1. [stripe[i] EXCEPT !.state = s] \in Intent
    BY DEF StripeTyped, Intent
  <1>2. stripe' = [stripe EXCEPT ![i] = [stripe[i] EXCEPT !.state = s]]
    BY DEF Give, StripeTyped
  <1>3. /\ stripe' \in [Intents -> Intent]
        /\ stripe'[i].state = s /\ stripe'[i].order = stripe[i].order
        /\ stripe'[i].client = stripe[i].client
        /\ \A j \in Intents : j # i => stripe'[j] = stripe[j]
    BY <1>1, <1>2 DEF StripeTyped, Intent
  <1>4. QED
    BY <1>3 DEF StripeTyped, Forward

\* Canceling the superseded intent leaves Stripe's table a table, in which the
\* same intents exist, for the same orders.
LEMMA SupersededTyped ==
  ASSUME StripeTyped
  PROVE  /\ Superseded \in [Intents -> Intent]
         /\ \A i \in Intents :
              /\ Superseded[i].order = stripe[i].order
              /\ Superseded[i].client = stripe[i].client
              /\ \/ Superseded[i] = stripe[i]
                 \/ /\ stripe[i].state \in {"new", "given"}
                    /\ Superseded[i].state = "canceled"
  <1>1. \A i \in Intents : [stripe[i] EXCEPT !.state = "canceled"] \in Intent
    BY DEF StripeTyped, Intent
  <1>2. \A i \in Intents : stripe[i] \in Intent
    BY DEF StripeTyped
  <1>3. \A i \in Intents : Superseded[i] \in Intent
    BY <1>1, <1>2 DEF Superseded
  <1>4. Superseded \in [Intents -> Intent]
    BY <1>3 DEF Superseded
  <1>5. ASSUME NEW i \in Intents
        PROVE  /\ Superseded[i].order = stripe[i].order
               /\ Superseded[i].client = stripe[i].client
               /\ \/ Superseded[i] = stripe[i]
                  \/ /\ stripe[i].state \in {"new", "given"}
                     /\ Superseded[i].state = "canceled"
    BY <1>2 DEF Superseded, Intent
  <1>6. QED
    BY <1>4, <1>5

\* Creating an intent, whether or not the old one is canceled.
LEMMA CreatedTyped ==
  ASSUME StripeTyped, HandlersTyped, NEW h \in Handlers, op[h] = "confirm",
         NEW i \in Intents, stripe[i].state = "none", UNCHANGED events,
         Created(h, i, Superseded) \/ Created(h, i, stripe)
  PROVE  /\ StripeTyped' /\ Forward
         /\ stripe'[i] = [state |-> "new", order |-> mOrder.of, client |-> target[h]]
         /\ \A j \in Intents : j # i => stripe'[j] = Superseded[j] \/ stripe'[j] = stripe[j]
  <1> DEFINE made_ == [state |-> "new", order |-> mOrder.of, client |-> target[h]]
  <1>1. made_ \in Intent /\ target[h] \in Orders /\ mOrder.of \in Orders
    BY DEF HandlersTyped, Intent
  <1>2. /\ stripe' \in [Intents -> Intent] /\ stripe'[i] = made_
        /\ \A j \in Intents : j # i => stripe'[j] = Superseded[j] \/ stripe'[j] = stripe[j]
    BY <1>1, SupersededTyped DEF Created, StripeTyped
  <1>3. ASSUME NEW j \in Intents, stripe'[j].state # "none"
        PROVE  stripe'[j].order \in Orders /\ stripe'[j].client \in Orders
    BY <1>1, <1>2, <1>3, SupersededTyped DEF StripeTyped
  <1>4. ASSUME NEW j \in Intents, stripe[j].state # "none"
        PROVE  stripe'[j].state # "none"
    BY <1>2, <1>4, SupersededTyped
  <1>5. Forward
    BY <1>2, SupersededTyped DEF Forward
  <1>6. QED
    BY <1>2, <1>3, <1>4, <1>5 DEF StripeTyped

\* The actions that change what Stripe has.
LEMMA StripeFrame ==
  [Next]_vars =>
    \/ UNCHANGED stripe
    \/ \E h \in Handlers, i \in Intents : CreateIntent(h, i)
    \/ \E h \in Handlers : \/ CreateRefused(h) \/ RecordIntent(h) \/ Charge(h)
                           \/ ChargeRefused(h) \/ Ask(h)
    \/ \E i \in Intents : ClientPays(i)
  <1> HAVE [Next]_vars
  <1>1. ASSUME NEW h \in Handlers, NEW o \in Orders,
               \/ ConfirmRead(h, o) \/ ClientCancelRead(h, o)
               \/ RestaurantCancelRead(h, o) \/ NotifyRead(h, o) \/ PushRead(h, o)
               \/ AcceptRead(h, o) \/ RejectRead(h, o)
       PROVE  UNCHANGED stripe
    BY <1>1 DEF ConfirmRead, ClientCancelRead, RestaurantCancelRead, NotifyRead, PushRead,
                AcceptRead, RejectRead, Begin, rowVars, stripeVars, ReadFor,
                historyVars
  <1>2. ASSUME NEW h \in Handlers,
               \/ RequestAction(h) \/ Commit(h) \/ CommitFails(h) \/ HookPaid(h)
               \/ HookRefunded(h) \/ CancelWrite(h) \/ NotifyWrite(h) \/ PushWrite(h)
               \/ PushFails(h) \/ AcceptWrite(h) \/ RejectWrite(h) \/ Fails(h)
       PROVE  UNCHANGED stripe
    BY <1>2 DEF RequestAction, Commit, CommitFails, HookPaid, HookRefunded, CancelWrite,
                NotifyWrite, PushWrite, PushFails, AcceptWrite, RejectWrite, Fails,
                Leave, Keep, Raise, stripeVars, historyVars, Goto, Fault,
                rowVars
  <1>3. ASSUME NEW h \in Handlers, NEW kind \in {"paid", "refunded"}, NEW i \in Intents,
               \/ HookRead(h, kind, i)
       PROVE  UNCHANGED stripe
    BY <1>3 DEF HookRead, Begin, rowVars, historyVars
  <1>4. ASSUME NEW i \in Intents, NEW kind \in {"paid", "refunded"},
               \/ HookIgnores(kind, i)
       PROVE  UNCHANGED stripe
    BY <1>4 DEF HookIgnores, rowVars, handlerVars
  <1>5. ASSUME NEW o \in Orders, Expire(o) \/ SuppliersConfirm(o)
       PROVE  UNCHANGED stripe
    BY <1>5 DEF Expire, SuppliersConfirm, stripeVars, handlerVars, Raise,
                historyVars
  <1>6. ASSUME Crash
       PROVE  UNCHANGED stripe
    BY <1>6 DEF Crash, Fault, rowVars, historyVars
  <1>7. CASE UNCHANGED vars
    BY <1>7 DEF vars, rowVars, stripeVars, handlerVars, historyVars
  <1>8. QED
    BY <1>1, <1>2, <1>3, <1>4, <1>5, <1>6, <1>7
    DEF Next, Confirm, Hook, Read, Write

\* Stripe goes forward only.
LEMMA StripeForward == Typed /\ [Next]_vars => Forward
  <1> SUFFICES ASSUME Typed, [Next]_vars PROVE Forward
    OBVIOUS
  <1>1. CASE UNCHANGED stripe
    BY <1>1 DEF Forward
  <1>2. ASSUME NEW h \in Handlers, NEW i \in Intents, CreateIntent(h, i)
       PROVE  Forward
    BY <1>2, CreatedTyped DEF CreateIntent, Typed
  <1>3. ASSUME NEW h \in Handlers, CreateRefused(h)
       PROVE  Forward
    BY <1>3, SupersededTyped DEF CreateRefused, Typed, Forward
  <1>4. ASSUME NEW h \in Handlers, RecordIntent(h)
       PROVE  Forward
    BY <1>4, GiveTyped DEF RecordIntent, Typed, HandlersTyped, Forward
  <1>5. ASSUME NEW h \in Handlers, Charge(h)
       PROVE  Forward
    BY <1>5, MoveTyped DEF Charge, Typed, HandlersTyped
  <1>6. ASSUME NEW h \in Handlers, ChargeRefused(h)
       PROVE  Forward
    BY <1>6, GiveTyped DEF ChargeRefused, Typed, HandlersTyped
  <1>7. ASSUME NEW h \in Handlers, Ask(h)
       PROVE  Forward
    BY <1>7, MoveTyped DEF Ask, Typed, HandlersTyped, Forward, stripeVars
  <1>8. ASSUME NEW i \in Intents, ClientPays(i)
       PROVE  Forward
    BY <1>8, MoveTyped DEF ClientPays, Typed
  <1>9. QED
    BY <1>1, <1>2, <1>3, <1>4, <1>5, <1>6, <1>7, <1>8, StripeFrame


\* Every step keeps the types.
LEMMA TypedStep == Typed /\ [Next]_vars => Typed'
  <1> SUFFICES ASSUME Typed, [Next]_vars PROVE Typed'
    OBVIOUS
  <1> USE PaymentsAssumption
  <1>f. Forward
    BY StripeForward
  <1>1. ASSUME NEW h \in Handlers, NEW o \in Orders, ConfirmRead(h, o)
       PROVE  Typed'
    <2>1. RowsTyped'
      BY <1>1 DEF ConfirmRead, Typed, RowsTyped, Begin, rowVars, stripeVars, Confirming,
                  HandlersTyped
    <2>2. StripeTyped'
      BY <1>1 DEF ConfirmRead, Typed, StripeTyped, stripeVars
    <2>3. HandlersTyped'
      BY <1>1, <1>f, CopyTyped, BeginTyped DEF ConfirmRead, Typed, Ops
    <2>4. QED
      BY <2>1, <2>2, <2>3 DEF Typed
  <1>2. ASSUME NEW h \in Handlers, NEW i \in Intents, CreateIntent(h, i)
       PROVE  Typed'
    <2>1. RowsTyped'
      BY <1>2 DEF CreateIntent, Typed, RowsTyped, Fault, rowVars, historyVars
    <2>2. StripeTyped'
      BY <1>2, CreatedTyped DEF CreateIntent, Typed
    <2>3. HandlersTyped'
      BY <1>2, <1>f DEF CreateIntent, Typed, HandlersTyped, Forward
    <2>4. QED
      BY <2>1, <2>2, <2>3 DEF Typed
  <1>3. ASSUME NEW h \in Handlers, CreateRefused(h)
       PROVE  Typed'
    <2>1. RowsTyped'
      BY <1>3 DEF CreateRefused, Typed, RowsTyped, Fault, rowVars, historyVars
    <2>2. StripeTyped'
      BY <1>3, SupersededTyped DEF CreateRefused, Typed, StripeTyped
    <2>3. HandlersTyped'
      BY <1>3, <1>f, CopyTyped, LeaveTyped DEF CreateRefused, Typed, HandlersTyped
    <2>4. QED
      BY <2>1, <2>2, <2>3 DEF Typed
  <1>4. ASSUME NEW h \in Handlers, RecordIntent(h)
       PROVE  Typed'
    <2>1. RowsTyped'
      BY <1>4 DEF RecordIntent, Typed, RowsTyped, historyVars, HandlersTyped
    <2>2. StripeTyped'
      BY <1>4, GiveTyped DEF RecordIntent, Typed, HandlersTyped, StripeTyped
    <2>3. made[h] \in Intents /\ pc[h] # "prepare"
      BY <1>4 DEF RecordIntent, Typed, HandlersTyped
    <2>4. HandlersTyped'
      <3>1. CASE Goto(h, "charge") /\ mOrder' = [mOrder EXCEPT !.intent = made[h]]
        BY <1>f, <1>4, <2>3, <3>1, ConfirmedTyped, GotoTyped DEF RecordIntent, Typed
      <3>2. CASE Leave(h) /\ Keep(h, [mOrder EXCEPT !.intent = made[h]])
        BY <1>f, <2>3, <3>2, CopyTyped, ConfirmedTyped, LeaveTyped DEF Typed
      <3>3. QED
        BY <1>4, <3>1, <3>2 DEF RecordIntent
    <2>5. QED
      BY <2>1, <2>2, <2>3, <2>4 DEF Typed
  <1>5. ASSUME NEW h \in Handlers, Charge(h)
       PROVE  Typed'
    <2>1. RowsTyped'
      BY <1>5 DEF Charge, Typed, RowsTyped, Fault, rowVars, historyVars
    <2>2. StripeTyped'
      BY <1>5, MoveTyped DEF Charge, Typed, HandlersTyped
    <2>3. HandlersTyped'
      BY <1>5, <1>f, CopyTyped, GotoTyped, LeaveTyped DEF Charge, Typed, HandlersTyped
    <2>4. QED
      BY <2>1, <2>2, <2>3 DEF Typed
  <1>6. ASSUME NEW h \in Handlers, ChargeRefused(h)
       PROVE  Typed'
    <2>1. RowsTyped'
      BY <1>6 DEF ChargeRefused, Typed, RowsTyped, rowVars, historyVars
    <2>2. StripeTyped'
      BY <1>6, GiveTyped DEF ChargeRefused, Typed, HandlersTyped
    <2>3. HandlersTyped'
      BY <1>6, <1>f, CopyTyped, GotoTyped, LeaveTyped DEF ChargeRefused, Typed,
                                                          HandlersTyped
    <2>4. QED
      BY <2>1, <2>2, <2>3 DEF Typed
  <1>7. ASSUME NEW h \in Handlers, RequestAction(h)
       PROVE  Typed'
    <2>1. RowsTyped'
      BY <1>7 DEF RequestAction, Typed, RowsTyped, Raise, stripeVars, historyVars,
                  HandlersTyped, Flags
    <2>2. StripeTyped'
      BY <1>7 DEF RequestAction, Typed, StripeTyped, stripeVars
    <2>3. HandlersTyped'
      BY <1>7, <1>f, CopyTyped, LeaveTyped DEF RequestAction, Typed, HandlersTyped
    <2>4. QED
      BY <2>1, <2>2, <2>3 DEF Typed
  <1>8. ASSUME NEW h \in Handlers, Commit(h)
       PROVE  Typed'
    <2>1. RowsTyped'
      BY <1>8, ConfirmedTyped, RowTyped DEF Commit, Typed, RowsTyped, HandlersTyped
    <2>2. StripeTyped'
      BY <1>8 DEF Commit, Typed, StripeTyped, stripeVars
    <2>3. HandlersTyped'
      BY <1>8, <1>f, CopyTyped, ConfirmedTyped, LeaveTyped DEF Commit, Typed,
                                                               HandlersTyped
    <2>4. QED
      BY <2>1, <2>2, <2>3 DEF Typed
  <1>9. ASSUME NEW h \in Handlers, CommitFails(h)
       PROVE  Typed'
    <2>1. RowsTyped'
      BY <1>9 DEF CommitFails, Typed, RowsTyped, Fault, rowVars, stripeVars, historyVars
    <2>2. StripeTyped'
      BY <1>9 DEF CommitFails, Typed, StripeTyped, stripeVars
    <2>3. HandlersTyped'
      BY <1>9, <1>f, ConfirmedTyped, GotoTyped DEF CommitFails, Typed, HandlersTyped
    <2>4. QED
      BY <2>1, <2>2, <2>3 DEF Typed
  <1>10. ASSUME NEW h \in Handlers, NEW kind \in {"paid", "refunded"}, NEW i \in Intents,
                HookRead(h, kind, i)
       PROVE  Typed'
    <2> DEFINE o == stripe[i].order
    <2>1. stripe[i].state # "none" /\ o \in Orders
      BY <1>10 DEF HookRead, Typed, StripeTyped
    <2>2. RowsTyped'
      BY <1>10 DEF HookRead, Typed, RowsTyped, Begin, rowVars, historyVars
    <2>3. StripeTyped'
      BY <1>10 DEF HookRead, Typed, StripeTyped
    <2>4. Begin(h, kind, "write", o, i) /\ UNCHANGED mOrder /\ kind \in Ops
      BY <1>10 DEF HookRead, Ops
    <2>5. \E copy \in Copy : copy.of = o /\ mine' = [mine EXCEPT ![h] = copy]
      BY <1>10, <2>1, CopyTyped DEF HookRead
    <2>6. HandlersTyped'
      <3>1. kind \notin {"none", "confirm"}
        OBVIOUS
      <3>2. QED
        BY <1>f, <2>1, <2>4, <2>5, <3>1, BeginTyped DEF Typed
    <2>7. QED
      BY <2>2, <2>3, <2>6 DEF Typed
  <1>11. ASSUME NEW h \in Handlers, HookPaid(h)
       PROVE  Typed'
    <2>1. RowsTyped'
      BY <1>11, NewRowsTyped, RowTyped DEF HookPaid, Typed, RowsTyped, HandlersTyped
    <2>2. StripeTyped'
      BY <1>11 DEF HookPaid, Typed, StripeTyped, stripeVars
    <2>3. HandlersTyped'
      BY <1>11, <1>f, CopyTyped, GotoTyped, LeaveTyped DEF HookPaid, Typed
    <2>4. QED
      BY <2>1, <2>2, <2>3 DEF Typed
  <1>12. ASSUME NEW h \in Handlers, HookRefunded(h)
       PROVE  Typed'
    <2>1. RowsTyped'
      BY <1>12, NewRowsTyped, RowTyped DEF HookRefunded, Typed, RowsTyped, HandlersTyped
    <2>2. StripeTyped'
      BY <1>12 DEF HookRefunded, Typed, StripeTyped, stripeVars
    <2>3. HandlersTyped'
      BY <1>12, <1>f, CopyTyped, LeaveTyped DEF HookRefunded, Typed, HandlersTyped
    <2>4. QED
      BY <2>1, <2>2, <2>3 DEF Typed
  <1>13. ASSUME NEW h \in Handlers, NEW o \in Orders, ClientCancelRead(h, o)
       PROVE  Typed'
    <2>1. ReadFor(h, "client", o, TRUE)
      BY <1>13 DEF ClientCancelRead, ReadFor
    <2>2. QED
      BY <2>1, ReadTyped DEF Ops
  <1>14. ASSUME NEW h \in Handlers, NEW o \in Orders, RestaurantCancelRead(h, o)
       PROVE  Typed'
    <2>1. ReadFor(h, "restaurant", o, TRUE)
      BY <1>14 DEF RestaurantCancelRead, ReadFor
    <2>2. QED
      BY <2>1, ReadTyped DEF Ops
  <1>15. ASSUME NEW h \in Handlers, NEW o \in Orders, NotifyRead(h, o)
       PROVE  Typed'
    <2>1. ReadFor(h, "notify", o, TRUE)
      BY <1>15 DEF NotifyRead, ReadFor
    <2>2. QED
      BY <2>1, ReadTyped DEF Ops
  <1>16. ASSUME NEW h \in Handlers, NEW o \in Orders, PushRead(h, o)
       PROVE  Typed'
    <2>1. ReadFor(h, "push", o, TRUE)
      BY <1>16 DEF PushRead, ReadFor
    <2>2. QED
      BY <2>1, ReadTyped DEF Ops
  <1>17. ASSUME NEW h \in Handlers, NEW o \in Orders, AcceptRead(h, o)
       PROVE  Typed'
    <2>1. ReadFor(h, "accept", o, TRUE)
      BY <1>17 DEF AcceptRead, ReadFor
    <2>2. QED
      BY <2>1, ReadTyped DEF Ops
  <1>18. ASSUME NEW h \in Handlers, NEW o \in Orders, RejectRead(h, o)
       PROVE  Typed'
    <2>1. ReadFor(h, "reject", o, TRUE)
      BY <1>18 DEF RejectRead, ReadFor
    <2>2. QED
      BY <2>1, ReadTyped DEF Ops
  <1>19. ASSUME NEW h \in Handlers, CancelWrite(h)
       PROVE  Typed'
    <2>1. /\ mine[h] \in Copy /\ mine[h].of = target[h]
          /\ target[h] \in Orders /\ Canceled(h) \in Row
      BY <1>19, NewRowsTyped DEF CancelWrite, Typed, HandlersTyped, Canceled
    <2>2. order' \in [Orders -> Row] /\ seal' \in [Orders -> Row] /\ stale' \subseteq Orders
      BY <1>19, <2>1, RowTyped DEF CancelWrite, Typed
    <2>3. RowsTyped'
      BY <1>19, <2>1, <2>2 DEF CancelWrite, Typed, RowsTyped, Raise, Flags
    <2>4. StripeTyped'
      BY <1>19 DEF CancelWrite, Typed, StripeTyped, stripeVars
    <2>5. HandlersTyped'
      BY <1>19, <1>f, GotoTyped DEF CancelWrite, Typed, HandlersTyped
    <2>6. QED
      BY <2>1, <2>2, <2>3, <2>4, <2>5 DEF Typed
  <1>20. ASSUME NEW h \in Handlers, NotifyWrite(h)
       PROVE  Typed'
    <2>1. /\ mine[h] \in Copy /\ mine[h].of = target[h]
          /\ target[h] \in Orders /\ Canceled(h) \in Row
      BY <1>20, NewRowsTyped DEF NotifyWrite, Typed, HandlersTyped, Canceled
    <2>2. order' \in [Orders -> Row] /\ seal' \in [Orders -> Row] /\ stale' \subseteq Orders
      BY <1>20, <2>1, RowTyped DEF NotifyWrite, Typed
    <2>3. RowsTyped'
      BY <1>20, <2>1, <2>2 DEF NotifyWrite, Typed, RowsTyped
    <2>4. StripeTyped'
      BY <1>20 DEF NotifyWrite, Typed, StripeTyped, stripeVars
    <2>5. HandlersTyped'
      BY <1>20, <1>f, CopyTyped, LeaveTyped DEF NotifyWrite, Typed, HandlersTyped
    <2>6. QED
      BY <2>1, <2>2, <2>3, <2>4, <2>5 DEF Typed
  <1>21. ASSUME NEW h \in Handlers, PushWrite(h)
       PROVE  Typed'
    <2>1. /\ mine[h] \in Copy /\ mine[h].of = target[h]
          /\ target[h] \in Orders /\ [mine[h].row EXCEPT !.status = "processing"] \in Row
      BY <1>21, NewRowsTyped DEF PushWrite, Typed, HandlersTyped
    <2>2. order' \in [Orders -> Row] /\ seal' \in [Orders -> Row] /\ stale' \subseteq Orders
      BY <1>21, <2>1, RowTyped DEF PushWrite, Typed
    <2>3. RowsTyped'
      BY <1>21, <2>1, <2>2 DEF PushWrite, Typed, RowsTyped, Raise, Flags
    <2>4. StripeTyped'
      BY <1>21 DEF PushWrite, Typed, StripeTyped, stripeVars
    <2>5. HandlersTyped'
      BY <1>21, <1>f, CopyTyped, LeaveTyped DEF PushWrite, Typed, HandlersTyped
    <2>6. QED
      BY <2>1, <2>2, <2>3, <2>4, <2>5 DEF Typed
  <1>22. ASSUME NEW h \in Handlers, PushFails(h)
       PROVE  Typed'
    <2>1. /\ mine[h] \in Copy /\ mine[h].of = target[h]
          /\ target[h] \in Orders /\ Canceled(h) \in Row
      BY <1>22, NewRowsTyped DEF PushFails, Typed, HandlersTyped, Canceled
    <2>2. order' \in [Orders -> Row] /\ seal' \in [Orders -> Row] /\ stale' \subseteq Orders
      BY <1>22, <2>1, RowTyped DEF PushFails, Typed
    <2>3. RowsTyped'
      BY <1>22, <2>1, <2>2 DEF PushFails, Typed, RowsTyped, Fault
    <2>4. StripeTyped'
      BY <1>22 DEF PushFails, Typed, StripeTyped, stripeVars
    <2>5. HandlersTyped'
      BY <1>22, <1>f, GotoTyped DEF PushFails, Typed, HandlersTyped
    <2>6. QED
      BY <2>1, <2>2, <2>3, <2>4, <2>5 DEF Typed
  <1>23. ASSUME NEW h \in Handlers, AcceptWrite(h)
       PROVE  Typed'
    <2>1. /\ mine[h] \in Copy /\ mine[h].of = target[h]
          /\ target[h] \in Orders /\ [mine[h].row EXCEPT !.status = "processing"] \in Row
      BY <1>23, NewRowsTyped DEF AcceptWrite, Typed, HandlersTyped
    <2>2. order' \in [Orders -> Row] /\ seal' \in [Orders -> Row] /\ stale' \subseteq Orders
      BY <1>23, <2>1, RowTyped DEF AcceptWrite, Typed
    <2>3. RowsTyped'
      BY <1>23, <2>1, <2>2 DEF AcceptWrite, Typed, RowsTyped, Raise, Flags
    <2>4. StripeTyped'
      BY <1>23 DEF AcceptWrite, Typed, StripeTyped, stripeVars
    <2>5. HandlersTyped'
      BY <1>23, <1>f, CopyTyped, LeaveTyped DEF AcceptWrite, Typed, HandlersTyped
    <2>6. QED
      BY <2>1, <2>2, <2>3, <2>4, <2>5 DEF Typed
  <1>24. ASSUME NEW h \in Handlers, RejectWrite(h)
       PROVE  Typed'
    <2>1. /\ mine[h] \in Copy /\ mine[h].of = target[h]
          /\ target[h] \in Orders /\ Canceled(h) \in Row
      BY <1>24, NewRowsTyped DEF RejectWrite, Typed, HandlersTyped, Canceled
    <2>2. order' \in [Orders -> Row]
      BY <1>24, <2>1, ColumnsTyped DEF RejectWrite, Typed
    <2>3. RowsTyped'
      BY <1>24, <2>1, <2>2 DEF RejectWrite, Typed, RowsTyped
    <2>4. StripeTyped'
      BY <1>24 DEF RejectWrite, Typed, StripeTyped, stripeVars
    <2>5. HandlersTyped'
      BY <1>24, <1>f, CopyTyped, LeaveTyped DEF RejectWrite, Typed, HandlersTyped
    <2>6. QED
      BY <2>1, <2>2, <2>3, <2>4, <2>5 DEF Typed
  <1>25. ASSUME NEW h \in Handlers, Ask(h)
       PROVE  Typed'
    <2>1. RowsTyped'
      BY <1>25 DEF Ask, Typed, RowsTyped, rowVars, stripeVars, historyVars
    <2>2. StripeTyped'
      BY <1>25, MoveTyped DEF Ask, Typed, HandlersTyped, StripeTyped, stripeVars
    <2>3. HandlersTyped'
      BY <1>25, <1>f, CopyTyped, LeaveTyped DEF Ask, Typed, HandlersTyped
    <2>4. QED
      BY <2>1, <2>2, <2>3 DEF Typed
  <1>26. ASSUME NEW h \in Handlers, Fails(h)
       PROVE  Typed'
    <2>1. RowsTyped'
      BY <1>26 DEF Fails, Typed, RowsTyped, Fault, rowVars, stripeVars, historyVars
    <2>2. StripeTyped'
      BY <1>26 DEF Fails, Typed, StripeTyped, stripeVars
    <2>3. HandlersTyped'
      BY <1>26, <1>f, CopyTyped, LeaveTyped DEF Fails, Typed, HandlersTyped
    <2>4. QED
      BY <2>1, <2>2, <2>3 DEF Typed
  <1>27. ASSUME NEW i \in Intents, ClientPays(i)
       PROVE  Typed'
    <2>1. RowsTyped'
      BY <1>27 DEF ClientPays, Typed, RowsTyped, rowVars, historyVars
    <2>2. StripeTyped'
      BY <1>27, MoveTyped DEF ClientPays, Typed
    <2>3. HandlersTyped'
      BY <1>27, <1>f DEF ClientPays, Typed, HandlersTyped, handlerVars, Forward
    <2>4. QED
      BY <2>1, <2>2, <2>3 DEF Typed
  <1>28. ASSUME NEW i \in Intents, NEW kind \in {"paid", "refunded"},
                HookIgnores(kind, i)
       PROVE  Typed'
    <2>1. RowsTyped'
      BY <1>28 DEF HookIgnores, Typed, RowsTyped, rowVars, Found, StripeTyped
    <2>2. StripeTyped'
      BY <1>28 DEF HookIgnores, Typed, StripeTyped
    <2>3. HandlersTyped'
      BY <1>28, <1>f DEF HookIgnores, Typed, HandlersTyped, handlerVars, Forward
    <2>4. QED
      BY <2>1, <2>2, <2>3 DEF Typed
  <1>29. ASSUME NEW o \in Orders, Expire(o)
       PROVE  Typed'
    <2>1. RowsTyped'
      BY <1>29, CopyTyped, ColumnsTyped DEF Expire, Typed, RowsTyped, Row, CopyOf
    <2>2. StripeTyped'
      BY <1>29 DEF Expire, Typed, StripeTyped, stripeVars
    <2>3. HandlersTyped'
      BY <1>29, <1>f DEF Expire, Typed, HandlersTyped, handlerVars, Forward
    <2>4. QED
      BY <2>1, <2>2, <2>3 DEF Typed
  <1>30. ASSUME NEW o \in Orders, SuppliersConfirm(o)
       PROVE  Typed'
    <2>1. RowsTyped'
      BY <1>30 DEF SuppliersConfirm, Typed, RowsTyped, Raise, stripeVars, historyVars,
                   Flags
    <2>2. StripeTyped'
      BY <1>30 DEF SuppliersConfirm, Typed, StripeTyped, stripeVars
    <2>3. HandlersTyped'
      BY <1>30, <1>f DEF SuppliersConfirm, Typed, HandlersTyped, handlerVars, Forward
    <2>4. QED
      BY <2>1, <2>2, <2>3 DEF Typed
  <1>31. ASSUME Crash
       PROVE  Typed'
    <2>1. RowsTyped'
      BY <1>31 DEF Crash, Typed, RowsTyped, Fault, rowVars, historyVars
    <2>2. StripeTyped'
      <3>1. \A e \in events' : e \in {"paid", "refunded"} \X Intents
        BY <1>31 DEF Crash, Typed, StripeTyped, HandlersTyped
      <3>2. ASSUME NEW kind \in {"paid", "refunded"}, NEW i \in Intents,
                   <<kind, i>> \in events'
            PROVE  stripe[i].state # "none"
        BY <1>31, <3>2 DEF Crash, Typed, StripeTyped, HandlersTyped
      <3>3. QED
        BY <1>31, <3>1, <3>2 DEF Crash, Typed, StripeTyped
    <2>3. HandlersTyped'
      BY <1>31, CopyTyped DEF Crash, Typed, HandlersTyped, Ops
    <2>4. QED
      BY <2>1, <2>2, <2>3 DEF Typed
  <1>32. CASE UNCHANGED vars
    BY <1>32 DEF vars, Typed, RowsTyped, StripeTyped, HandlersTyped, rowVars, stripeVars,
                 handlerVars, historyVars
  <1>33. QED
    BY <1>1, <1>2, <1>3, <1>4, <1>5, <1>6, <1>7, <1>8, <1>9, <1>10, <1>11, <1>12, <1>13,
       <1>14, <1>15, <1>16, <1>17, <1>18, <1>19, <1>20, <1>21, <1>22, <1>23, <1>24,
       <1>25, <1>26, <1>27, <1>28, <1>29, <1>30, <1>31, <1>32
    DEF Next, Confirm, Hook, Read, Write

\* The types hold at first.
LEMMA TypedInit == Init => Typed
  BY PaymentsAssumption DEF Init, Typed, RowsTyped, StripeTyped, HandlersTyped, Ops,
                            Intent, NoCopy, Copy, NewRow, Row

\* The columns, the intents, the webhooks and what the handlers hold have their
\* types in every reachable state, for any number of handlers, orders and
\* intents.
THEOREM PaymentsTypeCorrect == Spec => []PaymentsTypeOK
  <1>1. Init => Typed
    BY TypedInit
  <1>2. Typed /\ [Next]_vars => Typed'
    BY TypedStep
  <1>3. Typed => PaymentsTypeOK
    BY DEF Typed, RowsTyped, StripeTyped, HandlersTyped, PaymentsTypeOK
  <1>4. QED
    BY <1>1, <1>2, <1>3, PTL DEF Spec

-----------------------------------------------------------------------------
(* What a step does to a handler, to mOrder and to a row.                  *)

\* A handler that confirms goes on: it creates an intent for the order that
\* mOrder holds, or charges one, or neither.
ConfirmsOn(x) ==
  \/ pc'[x] = pc[x] /\ made'[x] = made[x]
  \/ /\ pc[x] = "prepare" /\ made'[x] \in Intents
     /\ \E i \in Intents : CreateIntent(x, i) /\ made'[x] = i
     /\ stripe'[made'[x]].order = mOrder.of /\ stripe'[made'[x]].client = target[x]
     /\ stripe'[made'[x]].state = "new" /\ pc'[x] = "record"
  \/ /\ pc[x] = "record" /\ made'[x] = made[x]
     /\ pc'[x] = "charge" /\ mOrder'.intent = made[x]
  \/ /\ pc[x] \notin {"prepare", "record"} /\ made'[x] = made[x]
     /\ \/ pc'[x] \in {"request", "ask"}
        \/ pc'[x] = "commit" /\ stripe'[made[x]].state = "charged"

\* A handler begins to handle the order it has read; if it is not one of a
\* webhook, with the intent that the order names.
Reads(x) ==
  /\ op[x] = "none" /\ target'[x] \in Orders /\ mine'[x] = CopyOf(target'[x])
  /\ UNCHANGED <<order, stripe>>
  /\ \/ /\ op'[x] \in {"paid", "refunded"} /\ made'[x] \in Intents
        /\ <<op'[x], made'[x]>> \in events /\ Found(made'[x])
        /\ target'[x] = stripe[made'[x]].order /\ Wanted(op'[x], target'[x])
     \/ /\ made'[x] = intent[target'[x]]
        /\ \/ op'[x] \in {"client", "restaurant", "notify"} /\ Unconfirmed(target'[x])
           \/ /\ op'[x] = "push" /\ target'[x] \notin Split /\ order[target'[x]].paid
              /\ order[target'[x]].status \in {"processing", "created"}
           \/ /\ op'[x] \in {"accept", "reject"} /\ target'[x] \in Split
              /\ order[target'[x]].status = "created"

HandlerChange(x) ==
  \/ op'[x] = "none"
  \/ /\ op[x] # "none" /\ op'[x] = op[x] /\ target'[x] = target[x]
     /\ IF op[x] = "confirm" THEN ConfirmsOn(x)
        ELSE made'[x] = made[x] /\ mine'[x] = mine[x]
  \/ \E o \in Orders : ConfirmRead(x, o)
  \/ Reads(x)

\* Every step does one of these to every handler.
LEMMA HandlerStep ==
  ASSUME Typed, [Next]_vars
  PROVE  \A x \in Handlers : HandlerChange(x)
  <1> SUFFICES ASSUME NEW x \in Handlers PROVE HandlerChange(x)
    OBVIOUS
  <1>u. (UNCHANGED <<op, pc, target, made, mine>>) => HandlerChange(x)
    BY DEF HandlerChange, ConfirmsOn, Typed, HandlersTyped
  <1>l. ASSUME NEW h \in Handlers, Leave(h) PROVE HandlerChange(x)
    BY <1>l DEF Leave, HandlerChange, ConfirmsOn, Typed, HandlersTyped
  <1>g. ASSUME NEW h \in Handlers, NEW label, Goto(h, label),
               op[h] # "none",
               op[h] = "confirm" => /\ pc[h] \notin {"prepare", "record"}
                                    /\ label \in {"request", "ask"}
       PROVE  HandlerChange(x)
    BY <1>g DEF Goto, HandlerChange, ConfirmsOn, Typed, HandlersTyped
  <1>r. ASSUME NEW h \in Handlers, NEW o \in Orders, NEW name \in Ops,
               ReadFor(h, name, o, TRUE),
               \/ name \in {"client", "restaurant", "notify"} /\ Unconfirmed(o)
               \/ /\ name = "push" /\ o \notin Split /\ order[o].paid
                  /\ order[o].status \in {"processing", "created"}
               \/ name \in {"accept", "reject"} /\ o \in Split /\ order[o].status = "created"
       PROVE  HandlerChange(x)
    <2>1. CASE x = h
      <3>1. /\ op[x] = "none" /\ op'[x] = name /\ target'[x] = o /\ mine'[x] = CopyOf(o)
            /\ made'[x] = intent[o] /\ UNCHANGED <<order, stripe>>
        BY <1>r, <2>1 DEF ReadFor, Begin, rowVars, stripeVars, Typed, HandlersTyped
      <3>2. Reads(x)
        BY <1>r, <3>1 DEF Reads
      <3>3. QED
        BY <3>2 DEF HandlerChange
    <2>2. CASE x # h
      BY <1>r, <2>2, <1>u DEF ReadFor, Begin, HandlerChange, ConfirmsOn, Typed, HandlersTyped
    <2>3. QED
      BY <2>1, <2>2
  <1>1. ASSUME NEW h \in Handlers, NEW o \in Orders, ConfirmRead(h, o)
       PROVE  HandlerChange(x)
    BY <1>1 DEF ConfirmRead, Begin, HandlerChange, ConfirmsOn, Typed, HandlersTyped
  <1>2. ASSUME NEW h \in Handlers, NEW i \in Intents, CreateIntent(h, i)
       PROVE  HandlerChange(x)
    <2>1. CASE x = h
      <3>1. /\ stripe'[i] = [state |-> "new", order |-> mOrder.of, client |-> target[h]]
            /\ made'[x] = i /\ pc'[x] = "record"
        BY <1>2, <2>1, CreatedTyped DEF CreateIntent, Typed, HandlersTyped
      <3>2. \E j \in Intents : CreateIntent(x, j) /\ made'[x] = j
        BY <1>2, <2>1, <3>1
      <3>3. pc[x] = "prepare" /\ op[x] # "none" /\ op'[x] = op[x] /\ target'[x] = target[x]
        BY <1>2, <2>1 DEF CreateIntent
      <3>4. op[x] = "confirm" /\ stripe'[made'[x]].order = mOrder.of
        BY <1>2, <2>1, <3>1 DEF CreateIntent
      <3>5. ConfirmsOn(x)
        BY <2>1, <3>1, <3>2, <3>3, <3>4 DEF ConfirmsOn
      <3>6. QED
        BY <3>3, <3>4, <3>5 DEF HandlerChange
    <2>2. CASE x # h
      BY <1>2, <2>2 DEF CreateIntent, HandlerChange, ConfirmsOn, Typed, HandlersTyped
    <2>3. QED
      BY <2>1, <2>2
  <1>3. ASSUME NEW h \in Handlers, CreateRefused(h)
       PROVE  HandlerChange(x)
    BY <1>3, <1>l DEF CreateRefused
  <1>4. ASSUME NEW h \in Handlers, RecordIntent(h)
       PROVE  HandlerChange(x)
    <2>1. CASE Goto(h, "charge") /\ mOrder' = [mOrder EXCEPT !.intent = made[h]]
      <3>1. mOrder'.intent = made[h]
        BY <2>1 DEF Typed, HandlersTyped, Copy
      <3>2. QED
        BY <1>4, <2>1, <3>1 DEF RecordIntent, Goto, HandlerChange, ConfirmsOn
    <2>2. CASE Leave(h)
      BY <2>2, <1>l
    <2>3. QED
      BY <1>4, <2>1, <2>2 DEF RecordIntent
  <1>5. ASSUME NEW h \in Handlers, Charge(h)
       PROVE  HandlerChange(x)
    <2>1. CASE Goto(h, "commit")
      <3>1. made[h] \in Intents /\ stripe'[made[h]].state = "charged"
        BY <1>5 DEF Charge, Move, Typed, HandlersTyped, StripeTyped, Intent
      <3>2. QED
        BY <1>5, <2>1, <3>1 DEF Charge, Goto, HandlerChange, ConfirmsOn, Typed, HandlersTyped
    <2>2. CASE Leave(h)
      BY <2>2, <1>l
    <2>3. QED
      BY <1>5, <2>1, <2>2 DEF Charge
  <1>6. ASSUME NEW h \in Handlers, ChargeRefused(h)
       PROVE  HandlerChange(x)
    BY <1>6, <1>l, <1>g DEF ChargeRefused
  <1>7. ASSUME NEW h \in Handlers, RequestAction(h)
       PROVE  HandlerChange(x)
    BY <1>7, <1>l DEF RequestAction
  <1>8. ASSUME NEW h \in Handlers, Commit(h)
       PROVE  HandlerChange(x)
    BY <1>8, <1>l DEF Commit
  <1>9. ASSUME NEW h \in Handlers, CommitFails(h)
       PROVE  HandlerChange(x)
    BY <1>9, <1>g DEF CommitFails
  <1>10. ASSUME NEW h \in Handlers, NEW kind \in {"paid", "refunded"}, NEW i \in Intents,
                HookRead(h, kind, i)
       PROVE  HandlerChange(x)
    <2>1. CASE x = h
      <3>1. /\ op[x] = "none" /\ op'[x] = kind /\ made'[x] = i
            /\ target'[x] = stripe[i].order /\ mine'[x] = CopyOf(stripe[i].order)
        BY <1>10, <2>1 DEF HookRead, Begin, Typed, HandlersTyped
      <3>2. stripe[i].order \in Orders
        BY <1>10 DEF HookRead, Typed, StripeTyped
      <3>3. Reads(x)
        BY <1>10, <3>1, <3>2 DEF HookRead, Reads, rowVars
      <3>4. QED
        BY <3>3 DEF HandlerChange
    <2>2. CASE x # h
      BY <1>10, <2>2 DEF HookRead, Begin, HandlerChange, ConfirmsOn, Typed, HandlersTyped
    <2>3. QED
      BY <2>1, <2>2
  <1>11. ASSUME NEW h \in Handlers, HookPaid(h)
       PROVE  HandlerChange(x)
    BY <1>11, <1>l, <1>g DEF HookPaid
  <1>12. ASSUME NEW h \in Handlers, HookRefunded(h)
       PROVE  HandlerChange(x)
    BY <1>12, <1>l DEF HookRefunded
  <1>13. ASSUME NEW h \in Handlers, NEW o \in Orders, ClientCancelRead(h, o)
       PROVE  HandlerChange(x)
    <2>1. ReadFor(h, "client", o, TRUE)
      BY <1>13 DEF ClientCancelRead, ReadFor
    <2>2. QED
      BY <1>13, <2>1, <1>r DEF ClientCancelRead, ReadFor, Ops
  <1>14. ASSUME NEW h \in Handlers, NEW o \in Orders, RestaurantCancelRead(h, o)
       PROVE  HandlerChange(x)
    <2>1. ReadFor(h, "restaurant", o, TRUE)
      BY <1>14 DEF RestaurantCancelRead, ReadFor
    <2>2. QED
      BY <1>14, <2>1, <1>r DEF RestaurantCancelRead, ReadFor, Ops
  <1>15. ASSUME NEW h \in Handlers, NEW o \in Orders, NotifyRead(h, o)
       PROVE  HandlerChange(x)
    <2>1. ReadFor(h, "notify", o, TRUE)
      BY <1>15 DEF NotifyRead, ReadFor
    <2>2. QED
      BY <1>15, <2>1, <1>r DEF NotifyRead, ReadFor, Ops
  <1>16. ASSUME NEW h \in Handlers, NEW o \in Orders, PushRead(h, o)
       PROVE  HandlerChange(x)
    <2>1. ReadFor(h, "push", o, TRUE)
      BY <1>16 DEF PushRead, ReadFor
    <2>2. QED
      BY <1>16, <2>1, <1>r DEF PushRead, ReadFor, Ops
  <1>17. ASSUME NEW h \in Handlers, NEW o \in Orders, AcceptRead(h, o)
       PROVE  HandlerChange(x)
    <2>1. ReadFor(h, "accept", o, TRUE)
      BY <1>17 DEF AcceptRead, ReadFor
    <2>2. QED
      BY <1>17, <2>1, <1>r DEF AcceptRead, ReadFor, Ops
  <1>18. ASSUME NEW h \in Handlers, NEW o \in Orders, RejectRead(h, o)
       PROVE  HandlerChange(x)
    <2>1. ReadFor(h, "reject", o, TRUE)
      BY <1>18 DEF RejectRead, ReadFor
    <2>2. QED
      BY <1>18, <2>1, <1>r DEF RejectRead, ReadFor, Ops
  <1>19. ASSUME NEW h \in Handlers, CancelWrite(h)
       PROVE  HandlerChange(x)
    BY <1>19, <1>g DEF CancelWrite
  <1>20. ASSUME NEW h \in Handlers, NotifyWrite(h)
       PROVE  HandlerChange(x)
    BY <1>20, <1>l DEF NotifyWrite
  <1>21. ASSUME NEW h \in Handlers, PushWrite(h)
       PROVE  HandlerChange(x)
    BY <1>21, <1>l DEF PushWrite
  <1>22. ASSUME NEW h \in Handlers, PushFails(h)
       PROVE  HandlerChange(x)
    BY <1>22, <1>g DEF PushFails
  <1>23. ASSUME NEW h \in Handlers, AcceptWrite(h)
       PROVE  HandlerChange(x)
    BY <1>23, <1>l DEF AcceptWrite
  <1>24. ASSUME NEW h \in Handlers, RejectWrite(h)
       PROVE  HandlerChange(x)
    BY <1>24, <1>l DEF RejectWrite
  <1>25. ASSUME NEW h \in Handlers, Ask(h)
       PROVE  HandlerChange(x)
    BY <1>25, <1>l DEF Ask
  <1>26. ASSUME NEW h \in Handlers, Fails(h)
       PROVE  HandlerChange(x)
    BY <1>26, <1>l DEF Fails
  <1>27. ASSUME NEW i \in Intents, ClientPays(i)
       PROVE  HandlerChange(x)
    BY <1>27, <1>u DEF ClientPays, handlerVars
  <1>28. ASSUME NEW i \in Intents, NEW kind \in {"paid", "refunded"},
                HookIgnores(kind, i)
       PROVE  HandlerChange(x)
    BY <1>28, <1>u DEF HookIgnores, handlerVars
  <1>29. ASSUME NEW o \in Orders, Expire(o)
       PROVE  HandlerChange(x)
    BY <1>29, <1>u DEF Expire, handlerVars
  <1>30. ASSUME NEW o \in Orders, SuppliersConfirm(o)
       PROVE  HandlerChange(x)
    BY <1>30, <1>u DEF SuppliersConfirm, handlerVars
  <1>31. ASSUME Crash
       PROVE  HandlerChange(x)
    BY <1>31 DEF Crash, HandlerChange
  <1>32. CASE UNCHANGED vars
    BY <1>32, <1>u DEF vars, handlerVars
  <1>33. QED
    BY <1>1, <1>2, <1>3, <1>4, <1>5, <1>6, <1>7, <1>8, <1>9, <1>10, <1>11, <1>12, <1>13,
       <1>14, <1>15, <1>16, <1>17, <1>18, <1>19, <1>20, <1>21, <1>22, <1>23, <1>24,
       <1>25, <1>26, <1>27, <1>28, <1>29, <1>30, <1>31, <1>32
    DEF Next, Confirm, Hook, Read, Write

\* What a step does to mOrder: it is cleared when no confirmation is left, gets
\* another intent, or the status of the transaction after a charge, or is the
\* order of the confirmation that begins.
MOrderChange ==
  \/ /\ mOrder'.of = mOrder.of /\ mOrder'.row = mOrder.row
     /\ UNCHANGED crossed
  \/ UNCHANGED crossed /\ \A x \in Handlers : op'[x] # "confirm"
  \/ /\ mOrder'.of = mOrder.of /\ UNCHANGED crossed
     /\ \E h \in Handlers : mOrder'.row = Confirmed(h).row /\ made[h] \in Intents
  \/ \E h \in Handlers, o \in Orders : ConfirmRead(h, o)

mOrderFrame == <<mOrder, crossed>>

\* The actions that change mOrder.
LEMMA MOrderFrame ==
  [Next]_vars =>
    \/ UNCHANGED mOrderFrame
    \/ \E h \in Handlers, o \in Orders : ConfirmRead(h, o)
    \/ \E h \in Handlers : \/ CreateRefused(h) \/ RecordIntent(h) \/ Charge(h)
                           \/ ChargeRefused(h) \/ RequestAction(h) \/ Commit(h)
                           \/ CommitFails(h) \/ Ask(h) \/ Fails(h)
    \/ Crash
  <1> HAVE [Next]_vars
  <1>1. ASSUME NEW h \in Handlers, NEW i \in Intents, CreateIntent(h, i)
       PROVE  UNCHANGED mOrderFrame
    BY <1>1 DEF CreateIntent, mOrderFrame, Fault, rowVars, historyVars
  <1>2. ASSUME NEW h \in Handlers, NEW kind \in {"paid", "refunded"}, NEW i \in Intents,
               \/ HookRead(h, kind, i)
       PROVE  UNCHANGED mOrderFrame
    BY <1>2 DEF HookRead, mOrderFrame, Begin, rowVars, historyVars
  <1>3. ASSUME NEW h \in Handlers,
               \/ HookPaid(h) \/ HookRefunded(h) \/ CancelWrite(h) \/ NotifyWrite(h)
               \/ PushWrite(h) \/ PushFails(h) \/ AcceptWrite(h) \/ RejectWrite(h)
       PROVE  UNCHANGED mOrderFrame
    BY <1>3 DEF HookPaid, HookRefunded, CancelWrite, NotifyWrite, PushWrite, PushFails,
                AcceptWrite, RejectWrite, mOrderFrame, Goto, Leave, stripeVars, Raise,
                Fault
  <1>4. ASSUME NEW h \in Handlers, NEW o \in Orders,
               \/ ClientCancelRead(h, o) \/ RestaurantCancelRead(h, o)
               \/ NotifyRead(h, o) \/ PushRead(h, o) \/ AcceptRead(h, o)
               \/ RejectRead(h, o)
       PROVE  UNCHANGED mOrderFrame
    BY <1>4 DEF ClientCancelRead, RestaurantCancelRead, NotifyRead, PushRead, AcceptRead,
                RejectRead, mOrderFrame, ReadFor, Begin, rowVars, stripeVars, historyVars
  <1>5. ASSUME NEW i \in Intents, ClientPays(i)
       PROVE  UNCHANGED mOrderFrame
    BY <1>5 DEF ClientPays, mOrderFrame, Move, Report, rowVars, handlerVars, historyVars
  <1>6. ASSUME NEW i \in Intents, NEW kind \in {"paid", "refunded"},
               \/ HookIgnores(kind, i)
       PROVE  UNCHANGED mOrderFrame
    BY <1>6 DEF HookIgnores, mOrderFrame, rowVars, handlerVars
  <1>7. ASSUME NEW o \in Orders, Expire(o) \/ SuppliersConfirm(o)
       PROVE  UNCHANGED mOrderFrame
    BY <1>7 DEF Expire, SuppliersConfirm, mOrderFrame, stripeVars, handlerVars, Raise,
                historyVars
  <1>8. CASE UNCHANGED vars
    BY <1>8 DEF vars, mOrderFrame, rowVars, stripeVars, handlerVars, historyVars
  <1>9. QED
    BY <1>1, <1>2, <1>3, <1>4, <1>5, <1>6, <1>7, <1>8
    DEF Next, Confirm, Hook, Read, Write

\* Every step does one of these to mOrder.
LEMMA MOrderStep == Typed /\ [Next]_vars => MOrderChange
  <1> SUFFICES ASSUME Typed, [Next]_vars PROVE MOrderChange
    OBVIOUS
  <1>k. ASSUME NEW h \in Handlers, NEW copy \in Copy, Leave(h), Keep(h, copy),
               copy.of = mOrder.of, UNCHANGED crossed,
               \/ copy.row = mOrder.row
               \/ copy.row = Confirmed(h).row /\ made[h] \in Intents
       PROVE  MOrderChange
    <2>1. CASE Confirming \subseteq {h}
      BY <1>k, <2>1 DEF Confirming, Leave, MOrderChange, Typed, HandlersTyped
    <2>2. CASE ~(Confirming \subseteq {h})
      BY <1>k, <2>2 DEF Keep, MOrderChange
    <2>3. QED
      BY <2>1, <2>2
  <1>m. mOrder \in Copy
    BY DEF Typed, HandlersTyped
  <1>1. CASE UNCHANGED mOrderFrame
    BY <1>1 DEF mOrderFrame, MOrderChange
  <1>2. ASSUME NEW h \in Handlers, NEW o \in Orders, ConfirmRead(h, o)
       PROVE  MOrderChange
    BY <1>2 DEF MOrderChange
  <1>3. ASSUME NEW h \in Handlers,
               CreateRefused(h) \/ Charge(h) \/ ChargeRefused(h) \/ RequestAction(h)
               \/ Ask(h) \/ Fails(h)
       PROVE  MOrderChange
    <2>1. UNCHANGED crossed
      BY <1>3 DEF CreateRefused, Charge, ChargeRefused, RequestAction, Ask, Fails, historyVars
    <2>2. UNCHANGED mOrder \/ (Leave(h) /\ Keep(h, mOrder))
      BY <1>3 DEF CreateRefused, Charge, ChargeRefused, RequestAction, Ask, Fails
    <2>3. QED
      BY <2>1, <2>2, <1>k, <1>m DEF MOrderChange
  <1>4. ASSUME NEW h \in Handlers, RecordIntent(h)
       PROVE  MOrderChange
    <2>1. made[h] \in Intents /\ UNCHANGED crossed
      BY <1>4 DEF RecordIntent, historyVars, Typed, HandlersTyped
    <2>2. CASE mOrder' = [mOrder EXCEPT !.intent = made[h]]
      BY <2>1, <2>2, ConfirmedTyped DEF MOrderChange
    <2>3. CASE Leave(h) /\ Keep(h, [mOrder EXCEPT !.intent = made[h]])
      BY <2>1, <2>3, <1>k, ConfirmedTyped
    <2>4. QED
      BY <1>4, <2>2, <2>3 DEF RecordIntent
  <1>5. ASSUME NEW h \in Handlers, Commit(h)
       PROVE  MOrderChange
    <2>1. made[h] \in Intents /\ UNCHANGED crossed
      BY <1>5 DEF Commit, Typed, HandlersTyped
    <2>2. QED
      BY <1>5, <2>1, <1>k, ConfirmedTyped DEF Commit
  <1>6. ASSUME NEW h \in Handlers, CommitFails(h)
       PROVE  MOrderChange
    <2>1. made[h] \in Intents /\ UNCHANGED crossed
      BY <1>6 DEF CommitFails, historyVars, Typed, HandlersTyped
    <2>2. QED
      BY <1>6, <2>1, ConfirmedTyped DEF CommitFails, MOrderChange
  <1>7. CASE Crash
    BY <1>7 DEF Crash, MOrderChange, historyVars
  <1>8. QED
    BY <1>1, <1>2, <1>3, <1>4, <1>5, <1>6, <1>7, MOrderFrame

\* What a step does to a row: a confirmation writes it, another handler does, or
\* the job that lets it expire.
RowChange(o) ==
  \/ UNCHANGED <<order[o], seal[o]>>
  \/ \E h \in Handlers :
       /\ op[h] = "confirm" /\ pc[h] = "commit" /\ mOrder.of = o
       /\ WriteRow(mOrder, Confirmed(h).row)
  \/ \E h \in Handlers :
       /\ op[h] \notin {"none", "confirm"} /\ target[h] = o
       /\ \E new \in Row :
            /\ CASE op[h] = "paid" -> new = PaidRow(o, mine[h].row)
                 [] op[h] = "refunded" ->
                      new = [mine[h].row EXCEPT !.status = "refunded", !.refunded = TRUE]
                 [] op[h] = "push" ->
                      \/ new = [mine[h].row EXCEPT !.status = "processing"]
                      \/ new = Canceled(h)
                 [] op[h] = "accept" -> new = [mine[h].row EXCEPT !.status = "processing"]
                 [] OTHER -> new = Canceled(h)
            /\ \/ WriteRow(mine[h], new)
               \/ /\ op[h] = "reject" /\ target[h] \in unasked'
                  /\ WriteColumns(mine[h], new) /\ UNCHANGED seal
  \/ Expire(o)

rowFrame == <<order, seal, stale, unasked>>

\* The actions that write a row.
LEMMA RowFrame ==
  [Next]_vars =>
    \/ UNCHANGED rowFrame
    \/ \E h \in Handlers : \/ Commit(h) \/ HookPaid(h) \/ HookRefunded(h)
                           \/ CancelWrite(h) \/ NotifyWrite(h) \/ PushWrite(h)
                           \/ PushFails(h) \/ AcceptWrite(h) \/ RejectWrite(h)
    \/ \E o \in Orders : Expire(o)
  <1> HAVE [Next]_vars
  <1>1. ASSUME NEW h \in Handlers, NEW o \in Orders,
               \/ ConfirmRead(h, o) \/ ClientCancelRead(h, o)
               \/ RestaurantCancelRead(h, o) \/ NotifyRead(h, o) \/ PushRead(h, o)
               \/ AcceptRead(h, o) \/ RejectRead(h, o)
       PROVE  UNCHANGED rowFrame
    BY <1>1 DEF ConfirmRead, ClientCancelRead, RestaurantCancelRead, NotifyRead, PushRead,
                AcceptRead, RejectRead, rowFrame, Begin, rowVars, stripeVars, ReadFor,
                historyVars
  <1>2. ASSUME NEW h \in Handlers, NEW i \in Intents, CreateIntent(h, i)
       PROVE  UNCHANGED rowFrame
    BY <1>2 DEF CreateIntent, rowFrame, Fault, rowVars, historyVars
  <1>3. ASSUME NEW h \in Handlers,
               \/ CreateRefused(h) \/ RecordIntent(h) \/ Charge(h) \/ ChargeRefused(h)
               \/ RequestAction(h) \/ CommitFails(h) \/ Ask(h) \/ Fails(h)
       PROVE  UNCHANGED rowFrame
    BY <1>3 DEF CreateRefused, RecordIntent, Charge, ChargeRefused, RequestAction,
                CommitFails, Ask, Fails, rowFrame, Leave, Keep, Fault, rowVars,
                historyVars, Goto, Give, Move, Report, Raise, stripeVars
  <1>4. ASSUME NEW h \in Handlers, NEW kind \in {"paid", "refunded"}, NEW i \in Intents,
               \/ HookRead(h, kind, i)
       PROVE  UNCHANGED rowFrame
    BY <1>4 DEF HookRead, rowFrame, Begin, rowVars, historyVars
  <1>5. ASSUME NEW i \in Intents, ClientPays(i)
       PROVE  UNCHANGED rowFrame
    BY <1>5 DEF ClientPays, rowFrame, Move, Report, rowVars, handlerVars, historyVars
  <1>6. ASSUME NEW i \in Intents, NEW kind \in {"paid", "refunded"},
               \/ HookIgnores(kind, i)
       PROVE  UNCHANGED rowFrame
    BY <1>6 DEF HookIgnores, rowFrame, rowVars, handlerVars
  <1>7. ASSUME NEW o \in Orders, SuppliersConfirm(o)
       PROVE  UNCHANGED rowFrame
    BY <1>7 DEF SuppliersConfirm, rowFrame, Raise, stripeVars, handlerVars, historyVars
  <1>8. ASSUME Crash
       PROVE  UNCHANGED rowFrame
    BY <1>8 DEF Crash, rowFrame, Fault, rowVars, historyVars
  <1>9. CASE UNCHANGED vars
    BY <1>9 DEF vars, rowFrame, rowVars, stripeVars, handlerVars, historyVars
  <1>10. QED
    BY <1>1, <1>2, <1>3, <1>4, <1>5, <1>6, <1>7, <1>8, <1>9
    DEF Next, Confirm, Hook, Read, Write

\* An update changes no other row.
LEMMA OtherRows ==
  ASSUME Typed, NEW copy \in Copy, copy.of \in Orders, NEW new \in Row,
         \/ WriteRow(copy, new)
         \/ WriteColumns(copy, new) /\ UNCHANGED seal
  PROVE  \A o \in Orders : o # copy.of => UNCHANGED <<order[o], seal[o]>>
  BY ColumnsTyped DEF WriteRow, Typed, RowsTyped

\* Every step does one of these to every row.
LEMMA RowStep ==
  ASSUME Typed, [Next]_vars
  PROVE  \A o \in Orders : RowChange(o)
  <1> SUFFICES ASSUME NEW o \in Orders PROVE RowChange(o)
    OBVIOUS
  <1>w. ASSUME NEW h \in Handlers, op[h] \notin {"none", "confirm"}, NEW new \in Row,
               CASE op[h] = "paid" -> new = PaidRow(target[h], mine[h].row)
                 [] op[h] = "refunded" ->
                      new = [mine[h].row EXCEPT !.status = "refunded", !.refunded = TRUE]
                 [] op[h] = "push" ->
                      \/ new = [mine[h].row EXCEPT !.status = "processing"]
                      \/ new = Canceled(h)
                 [] op[h] = "accept" -> new = [mine[h].row EXCEPT !.status = "processing"]
                 [] OTHER -> new = Canceled(h),
               \/ WriteRow(mine[h], new)
               \/ /\ op[h] = "reject" /\ target[h] \in unasked'
                  /\ WriteColumns(mine[h], new) /\ UNCHANGED seal
       PROVE  RowChange(o)
    <2>1. mine[h] \in Copy /\ mine[h].of = target[h] /\ target[h] \in Orders
      BY <1>w DEF Typed, HandlersTyped
    <2>2. CASE o = target[h]
      BY <1>w, <2>2 DEF RowChange
    <2>3. CASE o # target[h]
      BY <1>w, <2>1, <2>3, OtherRows DEF RowChange
    <2>4. QED
      BY <2>2, <2>3
  <1>n. ASSUME NEW h \in Handlers, op[h] \notin {"none", "confirm"}
       PROVE  /\ PaidRow(target[h], mine[h].row) \in Row
              /\ [mine[h].row EXCEPT !.status = "refunded", !.refunded = TRUE] \in Row
              /\ [mine[h].row EXCEPT !.status = "processing"] \in Row
              /\ Canceled(h) \in Row
    BY <1>n, NewRowsTyped DEF Typed, HandlersTyped, Canceled
  <1>1. CASE UNCHANGED rowFrame
    BY <1>1 DEF rowFrame, RowChange
  <1>2. ASSUME NEW h \in Handlers, Commit(h)
       PROVE  RowChange(o)
    <2>1. mOrder \in Copy /\ mOrder.of \in Orders /\ Confirmed(h).row \in Row
      BY <1>2, ConfirmedTyped DEF Commit, Typed, HandlersTyped
    <2>2. QED
      BY <1>2, <2>1, OtherRows DEF Commit, RowChange
  <1>3. ASSUME NEW h \in Handlers, HookPaid(h)
       PROVE  RowChange(o)
    BY <1>3, <1>w, <1>n DEF HookPaid
  <1>4. ASSUME NEW h \in Handlers, HookRefunded(h)
       PROVE  RowChange(o)
    BY <1>4, <1>w, <1>n DEF HookRefunded
  <1>5. ASSUME NEW h \in Handlers, CancelWrite(h)
       PROVE  RowChange(o)
    BY <1>5, <1>w, <1>n DEF CancelWrite
  <1>6. ASSUME NEW h \in Handlers, NotifyWrite(h)
       PROVE  RowChange(o)
    BY <1>6, <1>w, <1>n DEF NotifyWrite
  <1>7. ASSUME NEW h \in Handlers, PushWrite(h)
       PROVE  RowChange(o)
    BY <1>7, <1>w, <1>n DEF PushWrite
  <1>8. ASSUME NEW h \in Handlers, PushFails(h)
       PROVE  RowChange(o)
    BY <1>8, <1>w, <1>n DEF PushFails
  <1>9. ASSUME NEW h \in Handlers, AcceptWrite(h)
       PROVE  RowChange(o)
    BY <1>9, <1>w, <1>n DEF AcceptWrite
  <1>10. ASSUME NEW h \in Handlers, RejectWrite(h)
       PROVE  RowChange(o)
    BY <1>10, <1>w, <1>n DEF RejectWrite
  <1>11. ASSUME NEW q \in Orders, Expire(q)
       PROVE  RowChange(o)
    <2>1. CASE o = q
      BY <1>11, <2>1 DEF RowChange
    <2>2. CASE o # q
      BY <1>11, <2>2 DEF Expire, WriteColumns, CopyOf, RowChange, Typed, RowsTyped
    <2>3. QED
      BY <2>1, <2>2
  <1>12. QED
    BY <1>1, <1>2, <1>3, <1>4, <1>5, <1>6, <1>7, <1>8, <1>9, <1>10, <1>11, RowFrame

-----------------------------------------------------------------------------
(* What the row says of the money is true.                                 *)

\* The client was charged for the order; the money was paid back.
Money(o) == ChargedFor(o) \cup PaidBackFor(o) # {}
Back(o) == PaidBackFor(o) # {}

\* Both stay so.
LEMMA MoneyForward ==
  ASSUME Typed, Forward, NEW o \in Orders
  PROVE  (Money(o) => Money(o)') /\ (Back(o) => Back(o)')
  <1>1. ASSUME NEW i \in ChargedFor(o) PROVE i \in (ChargedFor(o) \cup PaidBackFor(o))'
    BY <1>1 DEF ChargedFor, PaidBackFor, Own, Forward
  <1>2. ASSUME NEW i \in PaidBackFor(o) PROVE i \in PaidBackFor(o)'
    BY <1>2 DEF PaidBackFor, Own, Forward
  <1>3. QED
    BY <1>1, <1>2 DEF Money, Back

\* A webhook tells of something that has happened, and is handled for the
\* order it is about.
EventsTrue ==
  /\ \A i \in Intents :
       /\ <<"paid", i>> \in events => stripe[i].state \in {"charged", "refunded"}
       /\ <<"refunded", i>> \in events => stripe[i].state = "refunded"
  /\ \A h \in Handlers :
       /\ op[h] = "paid" => stripe[made[h]].state \in {"charged", "refunded"}
       /\ op[h] = "refunded" => stripe[made[h]].state = "refunded"
       /\ op[h] \in {"paid", "refunded"} => made[h] \in Own(target[h])

\* A webhook under way was under way, was being handled by a process that has
\* died, or tells of what Stripe has just done.
EventChange(kind, i) ==
  \/ <<kind, i>> \in events
  \/ \E h \in Handlers : op[h] = kind /\ made[h] = i
  \/ kind = "paid" /\ stripe'[i].state = "charged"
  \/ kind = "refunded" /\ stripe'[i].state = "refunded"

\* The actions that change the webhooks under way.
LEMMA EventFrame ==
  [Next]_vars =>
    \/ UNCHANGED events
    \/ \E h \in Handlers : \/ Charge(h) \/ Ask(h)
    \/ \E i \in Intents : ClientPays(i)
    \/ \E h \in Handlers, kind \in {"paid", "refunded"}, i \in Intents :
         HookRead(h, kind, i)
    \/ \E kind \in {"paid", "refunded"}, i \in Intents : HookIgnores(kind, i)
    \/ Crash
  <1> HAVE [Next]_vars
  <1>1. ASSUME NEW h \in Handlers, NEW o \in Orders,
               \/ ConfirmRead(h, o) \/ ClientCancelRead(h, o)
               \/ RestaurantCancelRead(h, o) \/ NotifyRead(h, o) \/ PushRead(h, o)
               \/ AcceptRead(h, o) \/ RejectRead(h, o)
       PROVE  UNCHANGED events
    BY <1>1 DEF ConfirmRead, ClientCancelRead, RestaurantCancelRead, NotifyRead, PushRead,
                AcceptRead, RejectRead, Begin, rowVars, stripeVars, ReadFor,
                historyVars
  <1>2. ASSUME NEW h \in Handlers, NEW i \in Intents, CreateIntent(h, i)
       PROVE  UNCHANGED events
    BY <1>2 DEF CreateIntent, Fault, rowVars, historyVars
  <1>3. ASSUME NEW h \in Handlers,
               \/ CreateRefused(h) \/ RecordIntent(h) \/ ChargeRefused(h)
               \/ RequestAction(h) \/ Commit(h) \/ CommitFails(h) \/ HookPaid(h)
               \/ HookRefunded(h) \/ CancelWrite(h) \/ NotifyWrite(h) \/ PushWrite(h)
               \/ PushFails(h) \/ AcceptWrite(h) \/ RejectWrite(h) \/ Fails(h)
       PROVE  UNCHANGED events
    BY <1>3 DEF CreateRefused, RecordIntent, ChargeRefused, RequestAction, Commit,
                CommitFails, HookPaid, HookRefunded, CancelWrite, NotifyWrite, PushWrite,
                PushFails, AcceptWrite, RejectWrite, Fails, Leave, Keep, Fault,
                rowVars, historyVars, Goto, Give, Raise, stripeVars
  <1>4. ASSUME NEW o \in Orders, Expire(o) \/ SuppliersConfirm(o)
       PROVE  UNCHANGED events
    BY <1>4 DEF Expire, SuppliersConfirm, stripeVars, handlerVars, Raise, historyVars
  <1>5. CASE UNCHANGED vars
    BY <1>5 DEF vars, rowVars, stripeVars, handlerVars, historyVars
  <1>6. QED
    BY <1>1, <1>2, <1>3, <1>4, <1>5
    DEF Next, Confirm, Hook, Read, Write

LEMMA EventStep ==
  ASSUME Typed, [Next]_vars, NEW kind \in {"paid", "refunded"}, NEW i \in Intents,
         <<kind, i>> \in events'
  PROVE  EventChange(kind, i)
  <1>1. CASE UNCHANGED events
    BY <1>1 DEF EventChange
  <1>2. ASSUME NEW h \in Handlers, Charge(h)
       PROVE  EventChange(kind, i)
    <2>1. made[h] \in Intents /\ stripe'[made[h]].state = "charged"
      BY <1>2 DEF Charge, Move, Typed, HandlersTyped, StripeTyped, Intent
    <2>2. QED
      BY <1>2, <2>1 DEF Charge, Report, EventChange
  <1>3. ASSUME NEW h \in Handlers, Ask(h)
       PROVE  EventChange(kind, i)
    <2>1. CASE UNCHANGED events
      BY <2>1 DEF EventChange
    <2>2. CASE /\ made[h] # None /\ Move(made[h], "refunded")
               /\ Report("refunded", made[h])
      <3>1. made[h] \in Intents
        BY <2>2 DEF Typed, HandlersTyped
      <3>2. stripe'[made[h]].state = "refunded"
        BY <2>2, <3>1 DEF Move, Typed, StripeTyped, Intent
      <3>3. QED
        BY <2>2, <3>2 DEF Report, EventChange
    <2>3. QED
      BY <1>3, <2>1, <2>2 DEF Ask, stripeVars
  <1>4. ASSUME NEW j \in Intents, ClientPays(j)
       PROVE  EventChange(kind, i)
    <2>1. stripe'[j].state = "charged"
      BY <1>4 DEF ClientPays, Move, Typed, StripeTyped, Intent
    <2>2. QED
      BY <1>4, <2>1 DEF ClientPays, Report, EventChange
  <1>5. ASSUME NEW k \in {"paid", "refunded"}, NEW j \in Intents,
               HookIgnores(k, j) \/ \E h \in Handlers : HookRead(h, k, j)
       PROVE  EventChange(kind, i)
    BY <1>5 DEF HookRead, HookIgnores, EventChange
  <1>6. CASE Crash
    BY <1>6 DEF Crash, EventChange
  <1>7. QED
    BY <1>1, <1>2, <1>3, <1>4, <1>5, <1>6, EventFrame

\* Every step keeps the webhooks true.
LEMMA EventsTrueStep == Typed /\ EventsTrue /\ [Next]_vars => EventsTrue'
  <1> SUFFICES ASSUME Typed, EventsTrue, [Next]_vars PROVE EventsTrue'
    OBVIOUS
  <1>f. Forward
    BY StripeForward
  <1>1. ASSUME NEW kind \in {"paid", "refunded"}, NEW i \in Intents,
               <<kind, i>> \in events'
       PROVE  /\ kind = "paid" => stripe'[i].state \in {"charged", "refunded"}
              /\ kind = "refunded" => stripe'[i].state = "refunded"
    <2>1. EventChange(kind, i)
      BY <1>1, EventStep
    <2>2. CASE <<kind, i>> \in events
      BY <1>f, <2>2 DEF EventsTrue, Forward
    <2>3. ASSUME NEW h \in Handlers, op[h] = kind, made[h] = i
          PROVE  /\ kind = "paid" => stripe'[i].state \in {"charged", "refunded"}
                 /\ kind = "refunded" => stripe'[i].state = "refunded"
      BY <1>f, <2>3 DEF EventsTrue, Forward
    <2>4. QED
      BY <2>1, <2>2, <2>3 DEF EventChange
  <1>2. ASSUME NEW h \in Handlers, op'[h] \in {"paid", "refunded"}
       PROVE  /\ op'[h] = "paid" => stripe'[made'[h]].state \in {"charged", "refunded"}
              /\ op'[h] = "refunded" => stripe'[made'[h]].state = "refunded"
              /\ (made[h] \in Own(target[h]))'
    <2>1. HandlerChange(h)
      BY HandlerStep
    <2>2. CASE op'[h] = op[h] /\ target'[h] = target[h] /\ made'[h] = made[h]
      <3>1. made[h] \in Own(target[h])
        BY <1>2, <2>2 DEF EventsTrue
      <3>2. QED
        BY <1>f, <1>2, <2>2, <3>1 DEF EventsTrue, Forward, Own
    <2>3. CASE Reads(h)
      <3>1. /\ made'[h] \in Intents /\ <<op'[h], made'[h]>> \in events
            /\ Found(made'[h]) /\ target'[h] = stripe[made'[h]].order
        BY <1>2, <2>3 DEF Reads
      <3>2. stripe[made'[h]].state # "none"
        BY <1>2, <3>1 DEF Typed, StripeTyped
      <3>3. (made[h] \in Own(target[h]))'
        BY <1>f, <3>1, <3>2 DEF Own, Found, Forward
      <3>4. QED
        BY <1>f, <1>2, <3>1, <3>3 DEF EventsTrue, Forward
    <2>4. QED
      BY <1>2, <2>1, <2>2, <2>3 DEF HandlerChange, ConfirmRead, Begin, Typed, HandlersTyped
  <1>3. QED
    BY <1>1, <1>2 DEF EventsTrue

\* The rows.
LEMMA FlagsTrueStep ==
  ASSUME Typed, EventsTrue, MoneyFlagsAreTrue, [Next]_vars
  PROVE  MoneyFlagsAreTrue'
  <1>f. Forward
    BY StripeForward
  <1> SUFFICES ASSUME NEW o \in Orders
               PROVE  /\ order'[o].paid => Money(o)'
                      /\ order'[o].refunded => Back(o)'
    BY DEF MoneyFlagsAreTrue, Money, Back
  <1>1. (order[o].paid => Money(o)') /\ (order[o].refunded => Back(o)')
    BY <1>f, MoneyForward DEF MoneyFlagsAreTrue, Money, Back
  <1>2. RowChange(o)
    BY RowStep
  <1>3. CASE UNCHANGED <<order[o], seal[o]>>
    BY <1>1, <1>3
  <1>4. ASSUME NEW h \in Handlers, op[h] = "confirm", pc[h] = "commit", mOrder.of = o,
               WriteRow(mOrder, Confirmed(h).row)
       PROVE  /\ order'[o].paid => Money(o)'
              /\ order'[o].refunded => Back(o)'
    <2>1. made[h] \in Intents /\ mOrder \in Copy
      BY <1>4 DEF Typed, HandlersTyped
    <2>2. order'[o] = Written(order[o], mOrder.row, Confirmed(h).row)
      BY <1>4, <2>1, ConfirmedTyped, ColumnsTyped DEF WriteRow
    <2>3. order[o] \in Row /\ mOrder.row \in Row
      BY <2>1, NewRowsTyped DEF Typed, RowsTyped
    <2>4. order'[o].paid = order[o].paid /\ order'[o].refunded = order[o].refunded
      <3>1. /\ Confirmed(h).row \in Row /\ Confirmed(h).row.paid = mOrder.row.paid
            /\ Confirmed(h).row.refunded = mOrder.row.refunded
        BY <2>1, ConfirmedTyped
      <3>2. order'[o].paid = order[o].paid
        BY <2>2, <2>3, <3>1, WrittenRow
      <3>3. order'[o].refunded = order[o].refunded
        BY <2>2, <2>3, <3>1, WrittenRow
      <3>4. QED
        BY <3>2, <3>3
    <2>5. QED
      BY <1>1, <2>4
  <1>5. ASSUME NEW h \in Handlers, op[h] \notin {"none", "confirm"}, target[h] = o,
               NEW new \in Row,
               CASE op[h] = "paid" -> new = PaidRow(o, mine[h].row)
                 [] op[h] = "refunded" ->
                      new = [mine[h].row EXCEPT !.status = "refunded", !.refunded = TRUE]
                 [] op[h] = "push" ->
                      \/ new = [mine[h].row EXCEPT !.status = "processing"]
                      \/ new = Canceled(h)
                 [] op[h] = "accept" -> new = [mine[h].row EXCEPT !.status = "processing"]
                 [] OTHER -> new = Canceled(h),
               WriteColumns(mine[h], new)
       PROVE  /\ order'[o].paid => Money(o)'
              /\ order'[o].refunded => Back(o)'
    <2>1. /\ mine[h] \in Copy /\ mine[h].of = o
          /\ mine[h].row \in Row /\ order[o] \in Row
      BY <1>5, NewRowsTyped DEF Typed, HandlersTyped, RowsTyped
    <2>2. order'[o] = Written(order[o], mine[h].row, new)
      BY <1>5, <2>1, ColumnsTyped
    <2>3. /\ new.paid = mine[h].row.paid \/ op[h] = "paid"
          /\ new.refunded = mine[h].row.refunded \/ op[h] = "refunded"
      BY <1>5, <2>1 DEF Row, PaidRow, Canceled
    <2>4. /\ op[h] = "paid" => Money(o)
          /\ op[h] = "refunded" => Back(o)
      BY <1>5 DEF EventsTrue, Money, Back, ChargedFor, PaidBackFor, Own
    <2>5. /\ op[h] = "paid" => Money(o)'
          /\ op[h] = "refunded" => Back(o)'
      BY <1>f, <2>4, MoneyForward
    <2>6. order'[o].paid => order[o].paid \/ op[h] = "paid"
      BY <2>1, <2>2, <2>3, WrittenRow
    <2>7. order'[o].refunded => order[o].refunded \/ op[h] = "refunded"
      BY <2>1, <2>2, <2>3, WrittenRow
    <2>8. QED
      BY <1>1, <2>5, <2>6, <2>7
  <1>6. CASE Expire(o)
    <2>1. order'[o].paid = order[o].paid /\ order'[o].refunded = order[o].refunded
      <3>1. CopyOf(o) \in Copy /\ CopyOf(o).of = o /\ CopyOf(o).row = order[o]
        BY CopyTyped DEF CopyOf
      <3>2. order[o] \in Row /\ [order[o] EXCEPT !.status = "canceled"] \in Row
        BY DEF Typed, RowsTyped, Row
      <3>3. order'[o] = [order[o] EXCEPT !.status = "canceled"]
        BY <1>6, <3>1, <3>2, ColumnsTyped, WrittenRow DEF Expire
      <3>4. QED
        BY <3>2, <3>3 DEF Row
    <2>2. QED
      BY <1>1, <2>1
  <1>7. QED
    BY <1>2, <1>3, <1>4, <1>5, <1>6 DEF RowChange, WriteRow

\* An order is marked as paid only when an intent of its own was charged, and
\* as refunded only when it was paid back, whatever handlers, webhooks and
\* crashes come between.
THEOREM MoneyFlagsCorrect == Spec => []MoneyFlagsAreTrue
  <1> DEFINE Inv == Typed /\ EventsTrue /\ MoneyFlagsAreTrue
  <1>1. Init => Inv
    <2>1. Init => Typed
      BY TypedInit
    <2>2. Init => EventsTrue /\ MoneyFlagsAreTrue
      BY DEF Init, EventsTrue, MoneyFlagsAreTrue, NewRow
    <2>3. QED
      BY <2>1, <2>2
  <1>2. Inv /\ [Next]_vars => Inv'
    BY TypedStep, EventsTrueStep, FlagsTrueStep
  <1>3. Inv => MoneyFlagsAreTrue
    OBVIOUS
  <1> HIDE DEF Inv
  <1>4. QED
    BY <1>1, <1>2, <1>3, PTL DEF Spec

-----------------------------------------------------------------------------
(* An order in processing was charged for.                                 *)

\* A confirmation has an intent that exists.  Unless confirmations have
\* crossed, mOrder is the order of the confirmation, the intent is one of that
\* order, and it is charged before the transaction.
ConfirmsOwn ==
  \A h \in Handlers : op[h] = "confirm" =>
    /\ pc[h] # "prepare" => stripe[made[h]].state # "none"
    /\ mOrder.of \notin crossed =>
         /\ mOrder.of = target[h]
         /\ pc[h] # "prepare" => made[h] \in Own(target[h])
         /\ pc[h] = "commit" => stripe[made[h]].state \in {"charged", "refunded"}

\* A delayed order that is going to be pushed was charged for; only catering
\* and on-site orders are accepted or rejected.
ReadsPaid ==
  \A h \in Handlers :
    /\ op[h] = "push" => Money(target[h])
    /\ op[h] \in {"accept", "reject"} => target[h] \in Split

\* The confirmations.
LEMMA ConfirmsOwnStep == Typed /\ ConfirmsOwn /\ [Next]_vars => ConfirmsOwn'
  <1> SUFFICES ASSUME Typed, ConfirmsOwn, [Next]_vars,
                      NEW h \in Handlers, op'[h] = "confirm"
               PROVE  /\ pc'[h] # "prepare" => stripe'[made'[h]].state # "none"
                      /\ mOrder'.of \notin crossed' =>
                           /\ mOrder'.of = target'[h]
                           /\ pc'[h] # "prepare" => (made[h] \in Own(target[h]))'
                           /\ pc'[h] = "commit" =>
                                stripe'[made'[h]].state \in {"charged", "refunded"}
    BY DEF ConfirmsOwn
  <1>f. Forward
    BY StripeForward
  <1>1. HandlerChange(h)
    BY HandlerStep
  <1>2. MOrderChange
    BY MOrderStep
  <1>3. ASSUME NEW o \in Orders, ConfirmRead(h, o)
       PROVE  /\ pc'[h] = "prepare"
              /\ mOrder'.of = target'[h] \/ mOrder'.of \in crossed'
    BY <1>3 DEF ConfirmRead, Begin, CopyOf, Typed, HandlersTyped
  <1>4. CASE op[h] = "confirm" /\ target'[h] = target[h] /\ ConfirmsOn(h)
    <2>1. ASSUME mOrder'.of \notin crossed'
          PROVE  mOrder'.of = mOrder.of /\ mOrder.of \notin crossed
      <3>1. ASSUME NEW x \in Handlers, NEW o \in Orders, ConfirmRead(x, o)
            PROVE  mOrder'.of \in crossed'
        BY <1>4, <3>1 DEF ConfirmRead, CopyOf, Confirming
      <3>2. QED
        BY <1>2, <2>1, <3>1 DEF MOrderChange
    <2>2. pc'[h] # "prepare" => stripe'[made'[h]].state # "none"
      <3>1. CASE pc'[h] = pc[h] /\ made'[h] = made[h]
        BY <1>f, <1>4, <3>1 DEF ConfirmsOwn, Forward, Typed, HandlersTyped
      <3>2. CASE stripe'[made'[h]].state = "new"
        BY <3>2
      <3>3. CASE pc[h] # "prepare" /\ made'[h] = made[h]
        BY <1>f, <1>4, <3>3 DEF ConfirmsOwn, Forward, Typed, HandlersTyped
      <3>4. QED
        BY <1>4, <3>1, <3>2, <3>3 DEF ConfirmsOn
    <2>3. ASSUME mOrder'.of \notin crossed'
          PROVE  /\ mOrder'.of = target'[h]
                 /\ pc'[h] # "prepare" => (made[h] \in Own(target[h]))'
                 /\ pc'[h] = "commit" =>
                      stripe'[made'[h]].state \in {"charged", "refunded"}
      <3>1. mOrder'.of = target'[h] /\ mOrder.of = target[h]
        BY <1>4, <2>1, <2>3 DEF ConfirmsOwn
      <3>2. pc[h] # "prepare" =>
              /\ made[h] \in Own(target[h]) /\ stripe[made[h]].state # "none"
              /\ pc[h] = "commit" => stripe[made[h]].state \in {"charged", "refunded"}
        BY <1>4, <2>1, <2>3 DEF ConfirmsOwn
      <3>3. pc[h] # "prepare" /\ made'[h] = made[h] => (made[h] \in Own(target[h]))'
        BY <1>f, <1>4, <3>2 DEF Forward, Own
      <3>4. CASE pc'[h] = pc[h] /\ made'[h] = made[h]
        BY <1>f, <1>4, <3>1, <3>2, <3>3, <3>4 DEF Forward, Own
      <3>5. CASE /\ made'[h] \in Intents /\ stripe'[made'[h]].order = mOrder.of
                 /\ stripe'[made'[h]].client = target[h] /\ pc'[h] = "record"
        BY <1>4, <3>1, <3>5 DEF Own
      <3>6. CASE /\ pc[h] # "prepare" /\ made'[h] = made[h]
                 /\ \/ pc'[h] \in {"charge", "request", "ask"}
                    \/ pc'[h] = "commit" /\ stripe'[made[h]].state = "charged"
        BY <3>1, <3>3, <3>6
      <3>7. QED
        BY <1>4, <3>4, <3>5, <3>6 DEF ConfirmsOn
    <2>4. QED
      BY <2>2, <2>3
  <1>5. QED
    BY <1>1, <1>3, <1>4 DEF HandlerChange, Reads

\* The other handlers.
LEMMA ReadsPaidStep ==
  ASSUME Typed, MoneyFlagsAreTrue, ReadsPaid, [Next]_vars
  PROVE  ReadsPaid'
  <1> SUFFICES ASSUME NEW h \in Handlers
               PROVE  /\ op'[h] = "push" => Money(target[h])'
                      /\ op'[h] \in {"accept", "reject"} => target'[h] \in Split
    BY DEF ReadsPaid
  <1>f. Forward
    BY StripeForward
  <1>1. HandlerChange(h)
    BY HandlerStep
  <1>2. CASE op'[h] = op[h] /\ target'[h] = target[h]
    <2>1. ASSUME op[h] = "push" PROVE Money(target[h])'
      <3>1. PICK o \in Orders : o = target[h]
        BY <2>1 DEF Typed, HandlersTyped
      <3>2. Money(o)'
        BY <1>f, <2>1, <3>1, MoneyForward DEF ReadsPaid
      <3>3. QED
        BY <1>2, <3>1, <3>2
    <2>2. QED
      BY <1>2, <2>1 DEF ReadsPaid
  <1>3. CASE Reads(h)
    <2>1. ASSUME op'[h] = "push" PROVE Money(target[h])'
      <3>1. PICK o \in Orders : o = target'[h]
        BY <1>3 DEF Reads
      <3>2. Money(o)
        BY <1>3, <2>1, <3>1 DEF Reads, MoneyFlagsAreTrue, Money
      <3>3. Money(o)'
        BY <1>f, <3>2, MoneyForward
      <3>4. QED
        BY <3>1, <3>3
    <2>2. QED
      BY <1>3, <2>1 DEF Reads
  <1>4. QED
    BY <1>1, <1>2, <1>3 DEF HandlerChange, ConfirmRead, Begin, Typed, HandlersTyped

\* The rows.
LEMMA ProcessingStep ==
  ASSUME Typed, EventsTrue, ConfirmsOwn, ReadsPaid, ProcessingWasCharged, [Next]_vars
  PROVE  ProcessingWasCharged'
  <1>f. Forward
    BY StripeForward
  <1>c. crossed \subseteq crossed'
    BY MOrderStep DEF MOrderChange, ConfirmRead
  <1> SUFFICES ASSUME NEW o \in Orders, o \notin Split, o \notin crossed',
                      order'[o].status = "processing"
               PROVE  Money(o)'
    BY DEF ProcessingWasCharged, Money
  <1>1. Money(o) => Money(o)'
    BY <1>f, MoneyForward
  <1>2. order[o].status = "processing" => Money(o)
    BY <1>c DEF ProcessingWasCharged, Money
  <1>3. RowChange(o)
    BY RowStep
  <1>4. CASE UNCHANGED <<order[o], seal[o]>>
    BY <1>1, <1>2, <1>4
  <1>5. ASSUME NEW h \in Handlers, op[h] = "confirm", pc[h] = "commit", mOrder.of = o
       PROVE  Money(o)
    BY <1>c, <1>5 DEF ConfirmsOwn, Own, Money, ChargedFor, PaidBackFor
  <1>6. ASSUME NEW h \in Handlers, op[h] \notin {"none", "confirm"}, target[h] = o,
               NEW new \in Row,
               CASE op[h] = "paid" -> new = PaidRow(o, mine[h].row)
                 [] op[h] = "refunded" ->
                      new = [mine[h].row EXCEPT !.status = "refunded", !.refunded = TRUE]
                 [] op[h] = "push" ->
                      \/ new = [mine[h].row EXCEPT !.status = "processing"]
                      \/ new = Canceled(h)
                 [] op[h] = "accept" -> new = [mine[h].row EXCEPT !.status = "processing"]
                 [] OTHER -> new = Canceled(h),
               WriteColumns(mine[h], new)
       PROVE  Money(o)
    <2>1. CASE op[h] = "paid"
      BY <1>6, <2>1 DEF EventsTrue, Money, ChargedFor, PaidBackFor, Own
    <2>2. CASE op[h] \in {"push", "accept"}
      BY <1>6, <2>2 DEF ReadsPaid
    <2>3. CASE op[h] \notin {"paid", "push", "accept"}
      <3>1. /\ mine[h] \in Copy /\ mine[h].of = o
            /\ mine[h].row \in Row /\ order[o] \in Row
        BY <1>6, NewRowsTyped DEF Typed, HandlersTyped, RowsTyped
      <3>2. new.status \in {"canceled", "refunded"}
        BY <1>6, <2>3, <3>1 DEF Canceled, Row
      <3>3. order'[o] = Written(order[o], mine[h].row, new)
        BY <1>6, <3>1, ColumnsTyped
      <3>4. order'[o].status = order[o].status \/ order'[o].status = new.status
        BY <3>1, <3>3, WrittenRow
      <3>5. QED
        BY <1>2, <3>2, <3>4
    <2>4. QED
      BY <2>1, <2>2, <2>3
  <1>7. CASE Expire(o)
    BY <1>7, PaymentsAssumption DEF Expire
  <1>8. QED
    BY <1>1, <1>3, <1>4, <1>5, <1>6, <1>7 DEF RowChange, WriteRow

\* An order of the usual kind is in processing only when its client was
\* charged, unless confirmations were in flight at the same time.
THEOREM ProcessingCharged == Spec => []ProcessingWasCharged
  <1> DEFINE Inv == /\ Typed /\ EventsTrue /\ MoneyFlagsAreTrue /\ ConfirmsOwn
                    /\ ReadsPaid /\ ProcessingWasCharged
  <1>1. Init => Inv
    <2>1. Init => Typed
      BY TypedInit
    <2>2. Init => EventsTrue /\ MoneyFlagsAreTrue
      BY DEF Init, EventsTrue, MoneyFlagsAreTrue, NewRow
    <2>3. Init => ConfirmsOwn /\ ReadsPaid /\ ProcessingWasCharged
      BY DEF Init, ConfirmsOwn, ReadsPaid, ProcessingWasCharged, NewRow
    <2>4. QED
      BY <2>1, <2>2, <2>3
  <1>2. Inv /\ [Next]_vars => Inv'
    BY TypedStep, EventsTrueStep, FlagsTrueStep, ConfirmsOwnStep, ReadsPaidStep,
       ProcessingStep
  <1>3. Inv => ProcessingWasCharged
    OBVIOUS
  <1> HIDE DEF Inv
  <1>4. QED
    BY <1>1, <1>2, <1>3, PTL DEF Spec

-----------------------------------------------------------------------------
(* The row satisfies its checksum.                                         *)

\* The row of mOrder is one that can be confirmed, or just has been.
MOrderOpen ==
  \A h \in Handlers : op[h] = "confirm" =>
    /\ mOrder.row.status \in {"created", "processing"}
    /\ ~mOrder.row.paid /\ ~mOrder.row.refunded

\* A copy is not ahead of its row: an order that has left "created" does not
\* return, and one that was refunded has left it.
CopiesBehind ==
  /\ \A o \in Orders : order[o].refunded => order[o].status # "created"
  /\ \A h \in Handlers : op[h] \notin {"none", "confirm"} =>
       /\ mine[h].row.status # "created" => order[target[h]].status # "created"
       /\ mine[h].row.refunded => order[target[h]].refunded
       /\ op[h] = "paid" => ~mine[h].row.paid
       /\ op[h] = "reject" => target[h] \in Split

\* The row of mOrder.
LEMMA MOrderOpenStep == Typed /\ MOrderOpen /\ [Next]_vars => MOrderOpen'
  <1> SUFFICES ASSUME Typed, MOrderOpen, [Next]_vars,
                      NEW h \in Handlers, op'[h] = "confirm"
               PROVE  /\ mOrder'.row.status \in {"created", "processing"}
                      /\ ~mOrder'.row.paid /\ ~mOrder'.row.refunded
    BY DEF MOrderOpen
  <1>1. HandlerChange(h) /\ MOrderChange
    BY HandlerStep, MOrderStep
  <1>2. ASSUME NEW x \in Handlers, NEW o \in Orders, ConfirmRead(x, o)
       PROVE  /\ mOrder'.row.status \in {"created", "processing"}
              /\ ~mOrder'.row.paid /\ ~mOrder'.row.refunded
    BY <1>2 DEF ConfirmRead, CopyOf
  <1>3. CASE op[h] = "confirm"
    <2>1. CASE mOrder'.row = mOrder.row
      BY <1>3, <2>1 DEF MOrderOpen
    <2>2. ASSUME NEW x \in Handlers, mOrder'.row = Confirmed(x).row, made[x] \in Intents
          PROVE  /\ mOrder'.row.status \in {"created", "processing"}
                 /\ ~mOrder'.row.paid /\ ~mOrder'.row.refunded
      <3>1. /\ mOrder'.row.status \in {mOrder.row.status, "processing"}
            /\ mOrder'.row.paid = mOrder.row.paid
            /\ mOrder'.row.refunded = mOrder.row.refunded
        BY <2>2, ConfirmedTyped
      <3>2. QED
        BY <1>3, <3>1 DEF MOrderOpen
    <2>3. QED
      BY <1>1, <1>2, <2>1, <2>2 DEF MOrderChange
  <1>4. QED
    BY <1>1, <1>2, <1>3 DEF HandlerChange, Reads

\* What a handler other than a confirmation writes.
LEMMA NewColumns ==
  ASSUME Typed, NEW h \in Handlers, op[h] \notin {"none", "confirm"}, NEW new \in Row,
         CASE op[h] = "paid" -> new = PaidRow(target[h], mine[h].row)
           [] op[h] = "refunded" ->
                new = [mine[h].row EXCEPT !.status = "refunded", !.refunded = TRUE]
           [] op[h] = "push" ->
                \/ new = [mine[h].row EXCEPT !.status = "processing"]
                \/ new = Canceled(h)
           [] op[h] = "accept" -> new = [mine[h].row EXCEPT !.status = "processing"]
           [] OTHER -> new = Canceled(h)
  PROVE  /\ mine[h] \in Copy /\ mine[h].of = target[h] /\ target[h] \in Orders
         /\ mine[h].row \in Row /\ order[target[h]] \in Row
         /\ \/ new.status # "created"
            \/ op[h] = "paid" /\ new.status = mine[h].row.status
         /\ op[h] = "paid" => new.paid
         /\ op[h] # "refunded" => new.refunded = mine[h].row.refunded
         /\ op[h] = "refunded" => new.refunded /\ new.status = "refunded"
  <1>1. /\ mine[h] \in Copy /\ mine[h].of = target[h] /\ target[h] \in Orders
        /\ mine[h].row \in Row /\ order[target[h]] \in Row
    BY NewRowsTyped DEF Typed, HandlersTyped, RowsTyped
  <1>2. \/ new.status # "created"
        \/ op[h] = "paid" /\ new.status = mine[h].row.status
    BY <1>1 DEF Row, PaidRow, Canceled
  <1>3. op[h] = "paid" => new.paid
    BY <1>1 DEF Row, PaidRow
  <1>4. op[h] # "refunded" => new.refunded = mine[h].row.refunded
    BY <1>1 DEF Row, PaidRow, Canceled
  <1>5. op[h] = "refunded" => new.refunded /\ new.status = "refunded"
    BY <1>1 DEF Row
  <1>6. QED
    BY <1>1, <1>2, <1>3, <1>4, <1>5

\* What a confirmation writes: nothing but the status.
LEMMA ConfirmColumns ==
  ASSUME Typed, NEW h \in Handlers, op[h] = "confirm", pc[h] = "commit",
         WriteRow(mOrder, Confirmed(h).row)
  PROVE  /\ mOrder \in Copy /\ mOrder.of \in Orders /\ made[h] \in Intents
         /\ mOrder.row \in Row /\ Confirmed(h).row \in Row /\ order[mOrder.of] \in Row
         /\ order'[mOrder.of] = Written(order[mOrder.of], mOrder.row, Confirmed(h).row)
         /\ order'[mOrder.of].refunded = order[mOrder.of].refunded
         /\ \/ order'[mOrder.of].status = "processing"
            \/ Confirmed(h).row = mOrder.row
  <1>1. /\ mOrder \in Copy /\ mOrder.of \in Orders /\ made[h] \in Intents
        /\ mOrder.row \in Row /\ Confirmed(h).row \in Row /\ order[mOrder.of] \in Row
    BY ConfirmedTyped, NewRowsTyped DEF Typed, HandlersTyped, RowsTyped
  <1>2. order'[mOrder.of] = Written(order[mOrder.of], mOrder.row, Confirmed(h).row)
    BY <1>1, ColumnsTyped DEF WriteRow
  <1>3. /\ Confirmed(h).row.status \in {mOrder.row.status, "processing"}
        /\ Confirmed(h).row.paid = mOrder.row.paid
        /\ Confirmed(h).row.refunded = mOrder.row.refunded
    BY <1>1, ConfirmedTyped
  <1>4. order'[mOrder.of].refunded = order[mOrder.of].refunded
    BY <1>1, <1>2, <1>3, WrittenRow
  <1>5. CASE Confirmed(h).row.status = mOrder.row.status
    <2>1. \A r \in Row :
            r = [status |-> r.status, paid |-> r.paid, refunded |-> r.refunded]
      BY DEF Row
    <2>2. Confirmed(h).row = mOrder.row
      BY <1>1, <1>3, <1>5, <2>1
    <2>3. QED
      BY <1>1, <1>2, <1>4, <2>2
  <1>6. CASE Confirmed(h).row.status # mOrder.row.status
    <2>1. order'[mOrder.of].status = "processing"
      BY <1>1, <1>2, <1>3, <1>6, WrittenRow
    <2>2. QED
      BY <1>1, <1>2, <1>4, <2>1
  <1>7. QED
    BY <1>5, <1>6

\* A row goes forward only: it does not return to "created", a refund is final,
\* and a row that is refunded has left "created".
LEMMA RowForward ==
  ASSUME Typed, CopiesBehind, [Next]_vars, NEW o \in Orders
  PROVE  /\ order[o].status # "created" => order'[o].status # "created"
         /\ order[o].refunded => order'[o].refunded
         /\ order'[o].refunded => order'[o].status # "created"
  <1>1. RowChange(o)
    BY RowStep
  <1>2. CASE UNCHANGED <<order[o], seal[o]>>
    BY <1>2 DEF CopiesBehind
  <1>3. ASSUME NEW h \in Handlers, op[h] = "confirm", pc[h] = "commit", mOrder.of = o,
               WriteRow(mOrder, Confirmed(h).row)
       PROVE  /\ order[o].status # "created" => order'[o].status # "created"
              /\ order[o].refunded => order'[o].refunded
              /\ order'[o].refunded => order'[o].status # "created"
    <2>1. order'[o].refunded = order[o].refunded
      BY <1>3, ConfirmColumns
    <2>2. order'[o].status = order[o].status \/ order'[o].status = "processing"
      <3>1. CASE Confirmed(h).row = mOrder.row
        BY <1>3, <3>1, ConfirmColumns, WrittenRow
      <3>2. QED
        BY <1>3, <3>1, ConfirmColumns
    <2>3. QED
      BY <2>1, <2>2 DEF CopiesBehind
  <1>4. ASSUME NEW h \in Handlers, op[h] \notin {"none", "confirm"}, target[h] = o,
               NEW new \in Row,
               CASE op[h] = "paid" -> new = PaidRow(o, mine[h].row)
                 [] op[h] = "refunded" ->
                      new = [mine[h].row EXCEPT !.status = "refunded", !.refunded = TRUE]
                 [] op[h] = "push" ->
                      \/ new = [mine[h].row EXCEPT !.status = "processing"]
                      \/ new = Canceled(h)
                 [] op[h] = "accept" -> new = [mine[h].row EXCEPT !.status = "processing"]
                 [] OTHER -> new = Canceled(h),
               WriteColumns(mine[h], new)
       PROVE  /\ order[o].status # "created" => order'[o].status # "created"
              /\ order[o].refunded => order'[o].refunded
              /\ order'[o].refunded => order'[o].status # "created"
    <2>1. /\ mine[h] \in Copy /\ mine[h].of = o /\ mine[h].row \in Row /\ order[o] \in Row
          /\ new.status # "created" \/ new.status = mine[h].row.status
          /\ op[h] # "refunded" => new.refunded = mine[h].row.refunded
          /\ op[h] = "refunded" => new.refunded /\ new.status = "refunded"
      BY <1>4, NewColumns
    <2>2. order'[o] = Written(order[o], mine[h].row, new)
      BY <1>4, <2>1, ColumnsTyped
    <2>3. order'[o].status =
            IF new.status # mine[h].row.status THEN new.status ELSE order[o].status
      BY <2>1, <2>2, WrittenRow
    <2>4. order[o].status # "created" => order'[o].status # "created"
      BY <2>1, <2>3
    <2>5. CASE op[h] # "refunded"
      <3>1. order'[o].refunded = order[o].refunded
        BY <2>1, <2>2, <2>5, WrittenRow
      <3>2. QED
        BY <2>4, <3>1 DEF CopiesBehind
    <2>6. CASE op[h] = "refunded"
      <3>1. order'[o].status # "created"
        BY <1>4, <2>1, <2>3, <2>6 DEF CopiesBehind
      <3>2. order[o].refunded => order'[o].refunded
        BY <2>1, <2>2, <2>6, WrittenRow
      <3>3. QED
        BY <3>1, <3>2
    <2>7. QED
      BY <2>5, <2>6
  <1>5. CASE Expire(o)
    <2>1. CopyOf(o) \in Copy /\ CopyOf(o).of = o /\ CopyOf(o).row = order[o]
      BY CopyTyped DEF CopyOf
    <2>2. order[o] \in Row /\ [order[o] EXCEPT !.status = "canceled"] \in Row
      BY DEF Typed, RowsTyped, Row
    <2>3. order'[o] = [order[o] EXCEPT !.status = "canceled"]
      BY <1>5, <2>1, <2>2, ColumnsTyped, WrittenRow DEF Expire
    <2>4. order'[o].status = "canceled" /\ order'[o].refunded = order[o].refunded
      BY <2>2, <2>3 DEF Row
    <2>5. QED
      BY <2>4
  <1>6. QED
    BY <1>1, <1>2, <1>3, <1>4, <1>5 DEF RowChange, WriteRow

\* Every step keeps the copies behind their rows.
LEMMA CopiesBehindStep == Typed /\ CopiesBehind /\ [Next]_vars => CopiesBehind'
  <1> SUFFICES ASSUME Typed, CopiesBehind, [Next]_vars PROVE CopiesBehind'
    OBVIOUS
  <1>1. \A o \in Orders : order'[o].refunded => order'[o].status # "created"
    BY RowForward
  <1>2. ASSUME NEW h \in Handlers, op'[h] \notin {"none", "confirm"}
       PROVE  /\ mine'[h].row.status # "created" =>
                   order'[target'[h]].status # "created"
              /\ mine'[h].row.refunded => order'[target'[h]].refunded
              /\ op'[h] = "paid" => ~mine'[h].row.paid
              /\ op'[h] = "reject" => target'[h] \in Split
    <2>1. HandlerChange(h)
      BY HandlerStep
    <2>2. CASE /\ op'[h] = op[h] /\ target'[h] = target[h] /\ mine'[h] = mine[h]
      <3>1. target[h] \in Orders
        BY <1>2, <2>2 DEF Typed, HandlersTyped
      <3>2. QED
        BY <1>2, <2>2, <3>1, RowForward DEF CopiesBehind
    <2>3. CASE Reads(h)
      <3>1. mine'[h].row = order'[target'[h]] /\ UNCHANGED order
        BY <2>3 DEF Reads, CopyOf
      <3>2. op'[h] = "paid" => ~mine'[h].row.paid
        BY <2>3, <3>1 DEF Reads, Wanted
      <3>3. op'[h] = "reject" => target'[h] \in Split
        BY <2>3 DEF Reads
      <3>4. QED
        BY <3>1, <3>2, <3>3
    <2>4. QED
      BY <1>2, <2>1, <2>2, <2>3
      DEF HandlerChange, ConfirmRead, Begin, Typed, HandlersTyped
  <1>3. QED
    BY <1>1, <1>2 DEF CopiesBehind

\* What history has recorded stays.
LEMMA HistoryGrows ==
  ASSUME Typed, [Next]_vars
  PROVE  stale \subseteq stale' /\ unasked \subseteq unasked'
  <1>1. CASE UNCHANGED rowFrame
    BY <1>1 DEF rowFrame
  <1>2. ASSUME NEW h \in Handlers,
               \/ Commit(h) \/ HookPaid(h) \/ HookRefunded(h) \/ CancelWrite(h)
               \/ NotifyWrite(h) \/ PushWrite(h) \/ PushFails(h) \/ AcceptWrite(h)
               \/ RejectWrite(h)
       PROVE  stale \subseteq stale' /\ unasked \subseteq unasked'
    BY <1>2 DEF Commit, HookPaid, HookRefunded, CancelWrite, NotifyWrite, PushWrite,
                PushFails, AcceptWrite, RejectWrite, WriteRow
  <1>3. ASSUME NEW o \in Orders, Expire(o)
       PROVE  stale \subseteq stale' /\ unasked \subseteq unasked'
    BY <1>3 DEF Expire
  <1>4. QED
    BY <1>1, <1>2, <1>3, RowFrame

\* A write with a checksum leaves the row sealed, or is recorded as one from an
\* outdated copy; it leaves a row as it is if it changes nothing.
LEMMA SealedWrite ==
  ASSUME Typed, NEW copy \in Copy, copy.of \in Orders, NEW new \in Row,
         WriteRow(copy, new)
  PROVE  /\ new = copy.row => UNCHANGED <<order[copy.of], seal[copy.of]>>
         /\ new # copy.row => seal'[copy.of] = new
         /\ \/ UNCHANGED <<order[copy.of], seal[copy.of]>>
            \/ Sealed(copy.of)'
            \/ copy.of \in stale'
  <1>1. copy.row \in Row /\ order[copy.of] \in Row
    BY NewRowsTyped DEF Typed, RowsTyped
  <1>2. order'[copy.of] = Written(order[copy.of], copy.row, new)
    BY ColumnsTyped DEF WriteRow
  <1>3. CASE new = copy.row
    BY <1>1, <1>2, <1>3, WrittenRow DEF WriteRow
  <1>4. CASE new # copy.row
    <2>1. seal'[copy.of] = new
      BY <1>4 DEF WriteRow, Typed, RowsTyped
    <2>2. CASE order[copy.of] = copy.row
      BY <1>1, <1>2, <1>4, <2>1, <2>2, WrittenRow DEF Sealed
    <2>3. CASE order[copy.of] # copy.row
      BY <1>4, <2>1, <2>3 DEF WriteRow
    <2>4. QED
      BY <1>4, <2>1, <2>2, <2>3
  <1>5. QED
    BY <1>3, <1>4

\* The rows.
LEMMA SealedStep ==
  ASSUME Typed, MOrderOpen, CopiesBehind, OrderStaysSealed, [Next]_vars
  PROVE  OrderStaysSealed'
  <1> SUFFICES ASSUME NEW o \in Orders
               PROVE  /\ Sealed(o)' \/ (o \in Broken)'
                      /\ order'[o].status = "created" => Sealed(o)'
    BY DEF OrderStaysSealed
  <1>h. o \in Broken => (o \in Broken)'
    BY HistoryGrows DEF Broken
  <1>1. /\ Sealed(o) \/ o \in Broken
        /\ order[o].status = "created" => Sealed(o)
        /\ order'[o].status = "created" => order[o].status = "created"
    BY RowForward DEF OrderStaysSealed
  <1>2. RowChange(o)
    BY RowStep
  <1>3. CASE UNCHANGED <<order[o], seal[o]>>
    BY <1>h, <1>1, <1>3 DEF Sealed
  <1>4. ASSUME NEW h \in Handlers, op[h] = "confirm", pc[h] = "commit", mOrder.of = o,
               WriteRow(mOrder, Confirmed(h).row)
       PROVE  /\ Sealed(o)' \/ (o \in Broken)'
              /\ order'[o].status = "created" => Sealed(o)'
    <2>1. CASE Confirmed(h).row = mOrder.row
      <3>1. UNCHANGED <<order[o], seal[o]>>
        BY <1>4, <2>1, ConfirmColumns, SealedWrite
      <3>2. QED
        BY <1>3, <3>1
    <2>2. CASE Confirmed(h).row # mOrder.row
      <3>1. order'[o].status = "processing"
        BY <1>4, <2>2, ConfirmColumns
      <3>2. \/ UNCHANGED <<order[o], seal[o]>>
            \/ Sealed(o)'
            \/ o \in stale'
        BY <1>4, ConfirmColumns, SealedWrite
      <3>3. QED
        BY <1>3, <3>1, <3>2 DEF Broken
    <2>3. QED
      BY <2>1, <2>2
  <1>5. ASSUME NEW h \in Handlers, op[h] \notin {"none", "confirm"}, target[h] = o,
               NEW new \in Row,
               CASE op[h] = "paid" -> new = PaidRow(o, mine[h].row)
                 [] op[h] = "refunded" ->
                      new = [mine[h].row EXCEPT !.status = "refunded", !.refunded = TRUE]
                 [] op[h] = "push" ->
                      \/ new = [mine[h].row EXCEPT !.status = "processing"]
                      \/ new = Canceled(h)
                 [] op[h] = "accept" -> new = [mine[h].row EXCEPT !.status = "processing"]
                 [] OTHER -> new = Canceled(h),
               \/ WriteRow(mine[h], new)
               \/ /\ op[h] = "reject" /\ target[h] \in unasked'
                  /\ WriteColumns(mine[h], new) /\ UNCHANGED seal
       PROVE  /\ Sealed(o)' \/ (o \in Broken)'
              /\ order'[o].status = "created" => Sealed(o)'
    <2>1. /\ mine[h] \in Copy /\ mine[h].of = o /\ mine[h].row \in Row /\ order[o] \in Row
          /\ \/ new.status # "created"
             \/ op[h] = "paid" /\ new.status = mine[h].row.status
          /\ op[h] = "paid" => new.paid
          /\ op[h] # "refunded" => new.refunded = mine[h].row.refunded
      BY <1>5, NewColumns
    <2>2. order'[o] = Written(order[o], mine[h].row, new)
      BY <1>5, <2>1, ColumnsTyped DEF WriteRow
    <2>3. Sealed(o)' \/ (o \in Broken)'
      <3>1. CASE WriteRow(mine[h], new)
        <4>1. \/ UNCHANGED <<order[o], seal[o]>>
              \/ Sealed(o)'
              \/ o \in stale'
          BY <2>1, <3>1, SealedWrite
        <4>2. QED
          BY <1>3, <4>1 DEF Broken
      <3>2. CASE op[h] = "reject" /\ target[h] \in unasked'
        BY <1>5, <3>2 DEF CopiesBehind, Broken
      <3>3. QED
        BY <1>5, <3>1, <3>2
    <2>4. ASSUME order'[o].status = "created" PROVE Sealed(o)'
      <3>1. order[o].status = "created" /\ mine[h].row.status = "created"
        BY <1>1, <1>5, <2>4 DEF CopiesBehind
      <3>2. op[h] = "paid" /\ new.status = "created"
        BY <2>1, <2>2, <2>4, <3>1, WrittenRow
      <3>3. /\ ~order[o].refunded /\ ~mine[h].row.refunded /\ ~mine[h].row.paid
        BY <1>5, <3>1, <3>2 DEF CopiesBehind
      <3>4. new.paid /\ ~new.refunded
        BY <2>1, <3>2, <3>3
      <3>5. order'[o] \in Row /\ order'[o].paid /\ ~order'[o].refunded
        <4>1. order'[o] \in Row
          BY <2>1, <2>2, WrittenRow
        <4>2. order'[o].paid = new.paid
          <5>1. new.paid # mine[h].row.paid
            BY <3>3, <3>4
          <5>2. QED
            BY <2>1, <2>2, <5>1, WrittenRow
        <4>3. order'[o].refunded = order[o].refunded
          <5>1. new.refunded = mine[h].row.refunded
            BY <2>1, <3>2
          <5>2. QED
            BY <2>1, <2>2, <5>1, WrittenRow
        <4>4. QED
          BY <3>3, <3>4, <4>1, <4>2, <4>3
      <3>6. order'[o] = new
        <4>1. \A r \in Row :
                /\ r = [status |-> r.status, paid |-> r.paid, refunded |-> r.refunded]
                /\ r.paid \in BOOLEAN /\ r.refunded \in BOOLEAN
          BY DEF Row
        <4>2. order'[o].paid = new.paid
          BY <3>4, <3>5, <4>1
        <4>3. order'[o].refunded = new.refunded
          BY <3>4, <3>5, <4>1
        <4>4. QED
          BY <2>4, <3>2, <3>5, <4>1, <4>2, <4>3
      <3>7. seal'[o] = new
        <4>1. new # mine[h].row
          BY <3>3, <3>4
        <4>2. WriteRow(mine[h], new)
          BY <1>5, <3>2
        <4>3. QED
          BY <2>1, <4>1, <4>2, SealedWrite
      <3>8. QED
        BY <3>6, <3>7 DEF Sealed
    <2>5. QED
      BY <2>3, <2>4
  <1>6. CASE Expire(o)
    <2>1. o \in Split /\ o \in unasked'
      BY <1>6, PaymentsAssumption DEF Expire
    <2>2. CopyOf(o) \in Copy /\ CopyOf(o).of = o /\ CopyOf(o).row = order[o]
      BY CopyTyped DEF CopyOf
    <2>3. order[o] \in Row /\ [order[o] EXCEPT !.status = "canceled"] \in Row
      BY DEF Typed, RowsTyped, Row
    <2>4. order'[o] = [order[o] EXCEPT !.status = "canceled"]
      BY <1>6, <2>2, <2>3, ColumnsTyped, WrittenRow DEF Expire
    <2>5. order'[o].status = "canceled"
      BY <2>3, <2>4 DEF Row
    <2>6. QED
      BY <2>1, <2>5 DEF Broken
  <1>7. QED
    BY <1>2, <1>3, <1>4, <1>5, <1>6 DEF RowChange

\* The row satisfies its checksum unless it was written from an outdated copy,
\* rejected or let expire, and always while it can be confirmed.
THEOREM SealKept == Spec => []OrderStaysSealed
  <1> DEFINE Inv == Typed /\ MOrderOpen /\ CopiesBehind /\ OrderStaysSealed
  <1>1. Init => Inv
    <2>1. Init => Typed
      BY TypedInit
    <2>2. Init => MOrderOpen /\ CopiesBehind /\ OrderStaysSealed
      BY DEF Init, MOrderOpen, CopiesBehind, OrderStaysSealed, NewRow, Sealed
    <2>3. QED
      BY <2>1, <2>2
  <1>2. Inv /\ [Next]_vars => Inv'
    BY TypedStep, MOrderOpenStep, CopiesBehindStep, SealedStep
  <1>3. Inv => OrderStaysSealed
    OBVIOUS
  <1> HIDE DEF Inv
  <1>4. QED
    BY <1>1, <1>2, <1>3, PTL DEF Spec
=============================================================================
