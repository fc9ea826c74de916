------------------------ MODULE PaymentsAtRestProofs ------------------------
(***************************************************************************)
(* What the application and Stripe agree on when everything has been       *)
(* handled: the theorems BooksAgree and CanceledPaidBack, for any number   *)
(* of handlers, orders, intents, requests and faults.                      *)
(***************************************************************************)
EXTENDS OrderPaymentsProofs

-----------------------------------------------------------------------------
(* What a step leaves alone.                                               *)

\* What is counted and recorded for good.
LEMMA RecordsGrow ==
  ASSUME Typed, [Next]_vars
  PROVE  /\ crossed \subseteq crossed' /\ outrun \subseteq outrun'
         /\ stale \subseteq stale' /\ unasked \subseteq unasked'
         /\ faults' = 0 => faults = 0
  <1> DEFINE Kept == outrun \subseteq outrun' /\ (faults' = 0 => faults = 0)
  <1>n. faults \in Nat
    BY PaymentsAssumption DEF Typed, RowsTyped
  <1>f. Fault => (faults' = 0 => faults = 0)
    BY <1>n DEF Fault
  <1>1. ASSUME NEW h \in Handlers, NEW o \in Orders,
               \/ ConfirmRead(h, o) \/ ClientCancelRead(h, o)
               \/ RestaurantCancelRead(h, o) \/ NotifyRead(h, o) \/ PushRead(h, o)
               \/ AcceptRead(h, o) \/ RejectRead(h, o)
       PROVE  Kept
    BY <1>1 DEF ConfirmRead, ClientCancelRead, RestaurantCancelRead, NotifyRead, PushRead,
                AcceptRead, RejectRead, ReadFor, historyVars
  <1>2. ASSUME NEW h \in Handlers, NEW i \in Intents, CreateIntent(h, i)
       PROVE  Kept
    BY <1>2, <1>f DEF CreateIntent, historyVars
  <1>3. ASSUME NEW h \in Handlers,
               \/ CreateRefused(h) \/ RecordIntent(h) \/ Charge(h) \/ ChargeRefused(h)
               \/ RequestAction(h) \/ Commit(h) \/ CommitFails(h) \/ HookPaid(h)
               \/ HookRefunded(h) \/ Fails(h)
       PROVE  Kept
    BY <1>3, <1>f DEF CreateRefused, RecordIntent, Charge, ChargeRefused, RequestAction,
                      Commit, CommitFails, HookPaid, HookRefunded, Fails, historyVars
  <1>4. ASSUME NEW h \in Handlers,
               \/ CancelWrite(h) \/ NotifyWrite(h) \/ PushWrite(h) \/ PushFails(h)
               \/ AcceptWrite(h) \/ RejectWrite(h) \/ Ask(h)
       PROVE  Kept
    BY <1>4, <1>f DEF CancelWrite, NotifyWrite, PushWrite, PushFails, AcceptWrite,
                      RejectWrite, Ask, historyVars
  <1>5. ASSUME NEW kind \in {"paid", "refunded"}, NEW i \in Intents,
               \/ HookIgnores(kind, i) \/ \E h \in Handlers : HookRead(h, kind, i)
       PROVE  Kept
    BY <1>5 DEF HookIgnores, HookRead, historyVars
  <1>6. ASSUME NEW i \in Intents, ClientPays(i) PROVE Kept
    BY <1>6 DEF ClientPays, historyVars
  <1>7. ASSUME NEW o \in Orders, Expire(o) \/ SuppliersConfirm(o) PROVE Kept
    BY <1>7 DEF Expire, SuppliersConfirm, historyVars
  <1>8. CASE Crash
    BY <1>8, <1>f DEF Crash, historyVars
  <1>9. CASE UNCHANGED vars
    BY <1>9 DEF vars, historyVars
  <1>10. Kept
    BY <1>1, <1>2, <1>3, <1>4, <1>5, <1>6, <1>7, <1>8, <1>9
    DEF Next, Confirm, Hook, Read, Write
  <1>11. crossed \subseteq crossed'
    BY MOrderStep DEF MOrderChange, ConfirmRead
  <1>12. QED
    BY <1>10, <1>11, HistoryGrows

\* The actions that write the intent of an order.
LEMMA IntentFrame ==
  [Next]_vars => \/ UNCHANGED intent
                 \/ \E h \in Handlers : RecordIntent(h) \/ Commit(h)
  <1> HAVE [Next]_vars
  <1>1. ASSUME NEW h \in Handlers, NEW o \in Orders,
               \/ ConfirmRead(h, o) \/ ClientCancelRead(h, o)
               \/ RestaurantCancelRead(h, o) \/ NotifyRead(h, o) \/ PushRead(h, o)
               \/ AcceptRead(h, o) \/ RejectRead(h, o)
       PROVE  UNCHANGED intent
    BY <1>1 DEF ConfirmRead, ClientCancelRead, RestaurantCancelRead, NotifyRead, PushRead,
                AcceptRead, RejectRead, ReadFor, rowVars
  <1>2. ASSUME NEW h \in Handlers, NEW i \in Intents, CreateIntent(h, i)
       PROVE  UNCHANGED intent
    BY <1>2 DEF CreateIntent, rowVars
  <1>3. ASSUME NEW h \in Handlers,
               \/ CreateRefused(h) \/ Charge(h) \/ ChargeRefused(h) \/ RequestAction(h)
               \/ CommitFails(h) \/ HookPaid(h) \/ HookRefunded(h) \/ Fails(h)
               \/ CancelWrite(h) \/ NotifyWrite(h) \/ PushWrite(h) \/ PushFails(h)
               \/ AcceptWrite(h) \/ RejectWrite(h) \/ Ask(h)
       PROVE  UNCHANGED intent
    BY <1>3 DEF CreateRefused, Charge, ChargeRefused, RequestAction, CommitFails, HookPaid,
                HookRefunded, Fails, CancelWrite, NotifyWrite, PushWrite, PushFails,
                AcceptWrite, RejectWrite, Ask, rowVars
  <1>4. ASSUME NEW kind \in {"paid", "refunded"}, NEW i \in Intents,
               \/ HookIgnores(kind, i) \/ \E h \in Handlers : HookRead(h, kind, i)
       PROVE  UNCHANGED intent
    BY <1>4 DEF HookIgnores, HookRead, rowVars
  <1>5. ASSUME NEW i \in Intents, ClientPays(i) PROVE UNCHANGED intent
    BY <1>5 DEF ClientPays, rowVars
  <1>6. ASSUME NEW o \in Orders, Expire(o) \/ SuppliersConfirm(o) PROVE UNCHANGED intent
    BY <1>6 DEF Expire, SuppliersConfirm
  <1>7. CASE Crash
    BY <1>7 DEF Crash, rowVars
  <1>8. CASE UNCHANGED vars
    BY <1>8 DEF vars, rowVars
  <1>9. QED
    BY <1>1, <1>2, <1>3, <1>4, <1>5, <1>6, <1>7, <1>8
    DEF Next, Confirm, Hook, Read, Write

\* What a step does to the intent of an order, and to the intent of mOrder.
LEMMA IntentStep ==
  ASSUME Typed, [Next]_vars, NEW o \in Orders
  PROVE  \/ intent'[o] = intent[o]
         \/ \E h \in Handlers :
              /\ RecordIntent(h) \/ (Commit(h) /\ mOrder.intent # made[h])
              /\ mOrder.of = o /\ intent'[o] = made[h]
  <1>1. ASSUME NEW h \in Handlers, RecordIntent(h) \/ Commit(h)
       PROVE  \/ intent'[o] = intent[o]
              \/ /\ RecordIntent(h) \/ (Commit(h) /\ mOrder.intent # made[h])
                 /\ mOrder.of = o /\ intent'[o] = made[h]
    <2>1. \/ UNCHANGED intent
          \/ /\ RecordIntent(h) \/ (Commit(h) /\ mOrder.intent # made[h])
             /\ intent' = [intent EXCEPT ![mOrder.of] = made[h]]
      BY <1>1 DEF RecordIntent, Commit
    <2>2. QED
      BY <2>1 DEF Typed, RowsTyped
  <1>2. QED
    BY <1>1, IntentFrame

LEMMA MOrderIntentStep ==
  ASSUME Typed, [Next]_vars
  PROVE  \/ mOrder'.intent = mOrder.intent
         \/ mOrder'.intent = None /\ \A x \in Handlers : op'[x] # "confirm"
         \/ \E h \in Handlers :
              /\ RecordIntent(h) \/ Commit(h) \/ CommitFails(h)
              /\ mOrder'.intent = made[h]
         \/ \E h \in Handlers, o \in Orders :
              ConfirmRead(h, o) /\ mOrder'.intent = intent[o]
  <1>k. ASSUME NEW h \in Handlers, NEW copy, Leave(h), Keep(h, copy)
       PROVE  \/ mOrder'.intent = copy.intent
              \/ mOrder'.intent = None /\ \A x \in Handlers : op'[x] # "confirm"
    <2>1. CASE Confirming \subseteq {h}
      BY <1>k, <2>1 DEF Confirming, Leave, Keep, NoCopy, Typed, HandlersTyped
    <2>2. CASE ~(Confirming \subseteq {h})
      BY <1>k, <2>2 DEF Keep
    <2>3. QED
      BY <2>1, <2>2
  <1>m. ASSUME NEW h \in Handlers
       PROVE  /\ Confirmed(h).intent = made[h]
              /\ [mOrder EXCEPT !.intent = made[h]].intent = made[h]
    BY DEF Confirmed, Typed, HandlersTyped, Copy
  <1>1. CASE UNCHANGED mOrderFrame
    BY <1>1 DEF mOrderFrame
  <1>2. ASSUME NEW h \in Handlers, NEW o \in Orders, ConfirmRead(h, o)
       PROVE  mOrder'.intent = intent[o]
    BY <1>2 DEF ConfirmRead, CopyOf
  <1>3. ASSUME NEW h \in Handlers,
               CreateRefused(h) \/ Charge(h) \/ ChargeRefused(h) \/ RequestAction(h)
               \/ Ask(h) \/ Fails(h)
       PROVE  \/ mOrder'.intent = mOrder.intent
              \/ mOrder'.intent = None /\ \A x \in Handlers : op'[x] # "confirm"
    <2>1. UNCHANGED mOrder \/ (Leave(h) /\ Keep(h, mOrder))
      BY <1>3 DEF CreateRefused, Charge, ChargeRefused, RequestAction, Ask, Fails
    <2>2. QED
      BY <2>1, <1>k
  <1>4. ASSUME NEW h \in Handlers, RecordIntent(h) \/ Commit(h) \/ CommitFails(h)
       PROVE  \/ mOrder'.intent = made[h]
              \/ mOrder'.intent = None /\ \A x \in Handlers : op'[x] # "confirm"
    <2>1. \/ mOrder' = [mOrder EXCEPT !.intent = made[h]]
          \/ mOrder' = Confirmed(h)
          \/ Leave(h) /\ Keep(h, [mOrder EXCEPT !.intent = made[h]])
          \/ Leave(h) /\ Keep(h, Confirmed(h))
      BY <1>4 DEF RecordIntent, Commit, CommitFails
    <2>2. QED
      BY <2>1, <1>k, <1>m
  <1>5. CASE Crash
    BY <1>5 DEF Crash, NoCopy
  <1>6. QED
    BY <1>1, <1>2, <1>3, <1>4, <1>5, MOrderFrame

-----------------------------------------------------------------------------
(* Who knows an intent.                                                    *)

\* The orders, the handlers and mOrder name intents that exist.
IntentsExist ==
  \A i \in Intents : stripe[i].state = "none" =>
    /\ \A o \in Orders : intent[o] # i
    /\ \A h \in Handlers : op[h] # "none" => made[h] # i
    /\ mOrder.intent # i

\* An intent that its confirmation has not recorded yet is not charged, and
\* nobody else knows it.
Secret ==
  \A h \in Handlers : op[h] = "confirm" /\ pc[h] = "record" =>
    /\ stripe[made[h]].state = "new"
    /\ \A o \in Orders : intent[o] # made[h]
    /\ \A x \in Handlers : x # h /\ op[x] # "none" => made[x] # made[h]
    /\ mOrder.intent # made[h]

\* Unless confirmations have crossed there is one, and mOrder names the intent
\* it has recorded.
Solo ==
  \A h \in Handlers : op[h] = "confirm" /\ mOrder.of \notin crossed =>
    /\ \A x \in Handlers : op[x] = "confirm" => x = h
    /\ pc[h] \in {"charge", "request", "commit", "ask"} => mOrder.intent = made[h]

\* Every step keeps the intents that are named among those that exist.
LEMMA IntentsExistStep ==
  ASSUME Typed, EventsTrue, IntentsExist, [Next]_vars
  PROVE  IntentsExist'
  <1> SUFFICES ASSUME NEW i \in Intents, stripe'[i].state = "none"
               PROVE  /\ \A o \in Orders : intent'[o] # i
                      /\ \A h \in Handlers : op'[h] # "none" => made'[h] # i
                      /\ mOrder'.intent # i
    BY DEF IntentsExist
  <1>1. stripe[i].state = "none"
    BY StripeForward DEF Forward
  <1>2. /\ \A o \in Orders : intent[o] # i
        /\ \A h \in Handlers : op[h] # "none" => made[h] # i
        /\ mOrder.intent # i
    BY <1>1 DEF IntentsExist
  <1>3. ASSUME NEW h \in Handlers, RecordIntent(h) \/ Commit(h) \/ CommitFails(h)
       PROVE  made[h] # i
    BY <1>2, <1>3 DEF RecordIntent, Commit, CommitFails
  <1>4. \A o \in Orders : intent'[o] # i
    BY <1>2, <1>3, IntentStep
  <1>5. ASSUME NEW h \in Handlers, op'[h] # "none" PROVE made'[h] # i
    <2>1. HandlerChange(h)
      BY HandlerStep
    <2>2. CASE op[h] # "none" /\ made'[h] = made[h]
      BY <1>2, <2>2
    <2>3. CASE stripe'[made'[h]].state = "new"
      BY <2>3
    <2>4. ASSUME NEW o \in Orders, ConfirmRead(h, o) PROVE made'[h] # i
      BY <2>4, PaymentsAssumption DEF ConfirmRead, Begin, Typed, HandlersTyped
    <2>5. CASE Reads(h)
      BY <1>1, <1>2, <2>5 DEF Reads, EventsTrue
    <2>6. QED
      BY <1>5, <2>1, <2>2, <2>3, <2>4, <2>5 DEF HandlerChange, ConfirmsOn
  <1>6. mOrder'.intent # i
    BY <1>2, <1>3, MOrderIntentStep, PaymentsAssumption
  <1>7. QED
    BY <1>4, <1>5, <1>6

\* A new intent stays new unless somebody who knows it does something with it.
LEMMA NewStays ==
  ASSUME Typed, [Next]_vars, NEW i \in Intents, stripe[i].state = "new",
         mOrder.intent # i
  PROVE  \/ stripe'[i].state = "new"
         \/ \E h \in Handlers :
              /\ RecordIntent(h) \/ Charge(h) \/ ChargeRefused(h) \/ Ask(h)
              /\ made[h] = i
  <1>s. Superseded[i] = stripe[i]
    BY DEF Superseded
  <1>1. ASSUME NEW h \in Handlers, NEW j \in Intents, CreateIntent(h, j)
       PROVE  stripe'[i] = stripe[i]
    BY <1>1, <1>s DEF CreateIntent, Created, Superseded, Typed, StripeTyped
  <1>2. ASSUME NEW h \in Handlers, CreateRefused(h)
       PROVE  stripe'[i] = stripe[i]
    BY <1>2, <1>s DEF CreateRefused
  <1>3. ASSUME NEW h \in Handlers, made[h] # i,
               RecordIntent(h) \/ Charge(h) \/ ChargeRefused(h) \/ Ask(h)
       PROVE  stripe'[i] = stripe[i]
    BY <1>3 DEF RecordIntent, Charge, ChargeRefused, Ask, Give, Move, stripeVars,
                Typed, StripeTyped
  <1>4. ASSUME NEW j \in Intents, ClientPays(j)
       PROVE  stripe'[i] = stripe[i]
    BY <1>4 DEF ClientPays, Move, Typed, StripeTyped
  <1>5. \/ stripe'[i] = stripe[i]
        \/ \E h \in Handlers :
             /\ RecordIntent(h) \/ Charge(h) \/ ChargeRefused(h) \/ Ask(h)
             /\ made[h] = i
    BY <1>1, <1>2, <1>3, <1>4, StripeFrame
  <1>6. QED
    BY <1>5

\* Every step keeps the intents secret that are not recorded.
LEMMA SecretStep ==
  ASSUME Typed, EventsTrue, IntentsExist, Secret, [Next]_vars
  PROVE  Secret'
  <1> SUFFICES ASSUME NEW h \in Handlers, op'[h] = "confirm", pc'[h] = "record"
               PROVE  /\ stripe'[made'[h]].state = "new"
                      /\ \A o \in Orders : intent'[o] # made'[h]
                      /\ \A x \in Handlers : x # h /\ op'[x] # "none" =>
                           made'[x] # made'[h]
                      /\ mOrder'.intent # made'[h]
    BY DEF Secret
  <1>1. \/ op[h] = "confirm" /\ pc[h] = "record" /\ made'[h] = made[h]
        \/ \E i \in Intents : CreateIntent(h, i) /\ made'[h] = i
    <2>1. HandlerChange(h)
      BY HandlerStep
    <2>2. \A o \in Orders : ~ConfirmRead(h, o)
      BY DEF ConfirmRead, Begin, Typed, HandlersTyped
    <2>3. ~Reads(h)
      BY DEF Reads
    <2>4. QED
      BY <2>1, <2>2, <2>3 DEF HandlerChange, ConfirmsOn
  <1>2. ASSUME NEW i \in Intents, CreateIntent(h, i), made'[h] = i
       PROVE  /\ stripe'[made'[h]].state = "new"
              /\ \A o \in Orders : intent'[o] # made'[h]
              /\ \A x \in Handlers : x # h /\ op'[x] # "none" => made'[x] # made'[h]
              /\ mOrder'.intent # made'[h]
    <2>1. stripe[i].state = "none"
      BY <1>2 DEF CreateIntent
    <2>2. stripe'[i].state = "new"
      <3>1. stripe'[i] = [state |-> "new", order |-> mOrder.of, client |-> target[h]]
        BY <1>2, CreatedTyped DEF CreateIntent, Typed, HandlersTyped
      <3>2. QED
        BY <3>1
    <2>3. UNCHANGED <<intent, op, mOrder>> /\ made' = [made EXCEPT ![h] = i]
      BY <1>2 DEF CreateIntent, rowVars
    <2>4. QED
      BY <1>2, <2>1, <2>2, <2>3 DEF IntentsExist, Typed, HandlersTyped
  <1>3. ASSUME op[h] = "confirm", pc[h] = "record", made'[h] = made[h]
       PROVE  /\ stripe'[made'[h]].state = "new"
              /\ \A o \in Orders : intent'[o] # made'[h]
              /\ \A x \in Handlers : x # h /\ op'[x] # "none" => made'[x] # made'[h]
              /\ mOrder'.intent # made'[h]
    <2> DEFINE i == made[h]
    <2>1. /\ i \in Intents /\ stripe[i].state = "new"
          /\ \A o \in Orders : intent[o] # i
          /\ \A x \in Handlers : x # h /\ op[x] # "none" => made[x] # i
          /\ mOrder.intent # i
      BY <1>3 DEF Secret, Typed, HandlersTyped
    <2>2. ASSUME NEW x \in Handlers,
                 \/ RecordIntent(x) \/ Charge(x) \/ ChargeRefused(x) \/ Ask(x)
                 \/ Commit(x) \/ CommitFails(x)
         PROVE  made[x] # i
      <3>1. op[x] # "none"
        BY <2>2 DEF RecordIntent, Charge, ChargeRefused, Ask, Commit, CommitFails, Typed,
                    HandlersTyped
      <3>2. x # h
        BY <1>3, <2>2 DEF RecordIntent, Charge, ChargeRefused, Ask, Commit, CommitFails,
                          Goto, Leave, Typed, HandlersTyped
      <3>3. QED
        BY <2>1, <3>1, <3>2
    <2>3. stripe'[i].state = "new"
      BY <2>1, <2>2, NewStays
    <2>4. \A o \in Orders : intent'[o] # i
      BY <2>1, <2>2, IntentStep
    <2>5. ASSUME NEW x \in Handlers, x # h, op'[x] # "none" PROVE made'[x] # i
      <3>1. HandlerChange(x)
        BY HandlerStep
      <3>2. CASE op[x] # "none" /\ made'[x] = made[x]
        BY <2>1, <2>5, <3>2
      <3>3. ASSUME NEW j \in Intents, CreateIntent(x, j), made'[x] = j PROVE made'[x] # i
        BY <2>1, <3>3 DEF CreateIntent
      <3>4. ASSUME NEW o \in Orders, ConfirmRead(x, o) PROVE made'[x] # i
        BY <2>1, <3>4, PaymentsAssumption DEF ConfirmRead, Begin, Typed, HandlersTyped
      <3>5. CASE Reads(x)
        BY <2>1, <3>5 DEF Reads, EventsTrue
      <3>6. QED
        BY <2>5, <3>1, <3>2, <3>3, <3>4, <3>5 DEF HandlerChange, ConfirmsOn
    <2>6. mOrder'.intent # i
      BY <2>1, <2>2, MOrderIntentStep, PaymentsAssumption
    <2>7. QED
      BY <1>3, <2>3, <2>4, <2>5, <2>6
  <1>4. QED
    BY <1>1, <1>2, <1>3

\* Every step keeps confirmations apart, or records that they have crossed.
LEMMA SoloStep ==
  ASSUME Typed, Solo, [Next]_vars
  PROVE  Solo'
  <1> SUFFICES ASSUME NEW h \in Handlers, op'[h] = "confirm", mOrder'.of \notin crossed'
               PROVE  /\ \A x \in Handlers : op'[x] = "confirm" => x = h
                      /\ pc'[h] \in {"charge", "request", "commit", "ask"} =>
                           mOrder'.intent = made'[h]
    BY DEF Solo
  <1>1. ASSUME NEW y \in Handlers, NEW o \in Orders, ConfirmRead(y, o)
       PROVE  /\ \A x \in Handlers : op'[x] = "confirm" => x = h
              /\ pc'[h] = "prepare"
    <2>1. Confirming = {}
      BY <1>1 DEF ConfirmRead, CopyOf
    <2>2. \A x \in Handlers : op'[x] = "confirm" => x = y
      BY <1>1, <2>1 DEF ConfirmRead, Begin, Confirming, Typed, HandlersTyped
    <2>3. QED
      BY <1>1, <2>2 DEF ConfirmRead, Begin, Typed, HandlersTyped
  <1>2. ASSUME \A y \in Handlers, o \in Orders : ~ConfirmRead(y, o)
       PROVE  /\ \A x \in Handlers : op'[x] = "confirm" => x = h
              /\ pc'[h] \in {"charge", "request", "commit", "ask"} =>
                   mOrder'.intent = made'[h]
    <2>1. \A x \in Handlers : op'[x] = "confirm" =>
            op[x] = "confirm" /\ ConfirmsOn(x)
      BY <1>2, HandlerStep DEF HandlerChange, Reads
    <2>2. mOrder'.of = mOrder.of /\ crossed' = crossed
      BY <1>2, MOrderStep DEF MOrderChange
    <2>3. /\ \A x \in Handlers : op[x] = "confirm" => x = h
          /\ pc[h] \in {"charge", "request", "commit", "ask"} => mOrder.intent = made[h]
      BY <2>1, <2>2 DEF Solo
    <2>4. ASSUME pc'[h] \in {"charge", "request", "commit", "ask"}
         PROVE  mOrder'.intent = made'[h]
      <3>1. \/ mOrder'.intent = mOrder.intent
            \/ mOrder'.intent = made[h]
        <4>1. ASSUME NEW y \in Handlers, RecordIntent(y) \/ Commit(y) \/ CommitFails(y)
             PROVE  y = h
          BY <2>3, <4>1 DEF RecordIntent, Commit, CommitFails
        <4>2. QED
          BY <1>2, <4>1, MOrderIntentStep
      <3>2. \/ made'[h] = made[h] /\ pc[h] \in {"charge", "request", "commit", "ask"}
            \/ made'[h] = made[h] /\ mOrder'.intent = made[h]
        BY <2>1, <2>4 DEF ConfirmsOn, Typed, HandlersTyped
      <3>3. QED
        BY <2>3, <3>1, <3>2
    <2>5. QED
      BY <2>1, <2>3, <2>4
  <1>3. QED
    BY <1>1, <1>2
-----------------------------------------------------------------------------
(* What has been charged or paid back is being told.                       *)

\* What a handler does that writes or asks, when nothing fails: it waits, or
\* makes one of these steps.
LEMMA OwnStep ==
  ASSUME Typed, [Next]_vars, NEW h \in Handlers, pc[h] \in {"write", "ask"},
         faults' = 0
  PROVE  \/ op'[h] = op[h] /\ pc'[h] = pc[h] /\ made'[h] = made[h]
         \/ HookPaid(h) \/ HookRefunded(h) \/ CancelWrite(h) \/ NotifyWrite(h)
         \/ PushWrite(h) \/ AcceptWrite(h) \/ RejectWrite(h) \/ Ask(h)
  <1> DEFINE Still == op'[h] = op[h] /\ pc'[h] = pc[h] /\ made'[h] = made[h]
  <1>n. ~Fault
    BY PaymentsAssumption DEF Fault, Typed, RowsTyped
  <1>b. ASSUME NEW x \in Handlers, NEW name, NEW label, NEW o, NEW i,
               Begin(x, name, label, o, i)
       PROVE  Still
    BY <1>b DEF Begin, Typed, HandlersTyped
  <1>g. ASSUME NEW x \in Handlers, x # h, NEW label, Goto(x, label) PROVE Still
    BY <1>g DEF Goto, Typed, HandlersTyped
  <1>l. ASSUME NEW x \in Handlers, x # h, Leave(x) PROVE Still
    BY <1>l DEF Leave, Typed, HandlersTyped
  <1>u. (UNCHANGED handlerVars) => Still
    BY DEF handlerVars
  <1>1. ASSUME NEW x \in Handlers, NEW o \in Orders,
               \/ ConfirmRead(x, o) \/ ClientCancelRead(x, o)
               \/ RestaurantCancelRead(x, o) \/ NotifyRead(x, o) \/ PushRead(x, o)
               \/ AcceptRead(x, o) \/ RejectRead(x, o)
       PROVE  Still
    BY <1>1, <1>b DEF ConfirmRead, ClientCancelRead, RestaurantCancelRead, NotifyRead,
                      PushRead, AcceptRead, RejectRead, ReadFor
  <1>2. ASSUME NEW x \in Handlers, NEW i \in Intents, CreateIntent(x, i)
       PROVE  Still
    BY <1>2 DEF CreateIntent, Typed, HandlersTyped
  <1>3. ASSUME NEW x \in Handlers,
               \/ CreateRefused(x) \/ RecordIntent(x) \/ Charge(x) \/ ChargeRefused(x)
               \/ RequestAction(x) \/ Commit(x)
       PROVE  Still
    <2>1. x # h /\ (Leave(x) \/ \E label : Goto(x, label))
      BY <1>3 DEF CreateRefused, RecordIntent, Charge, ChargeRefused, RequestAction, Commit
    <2>2. QED
      BY <2>1, <1>g, <1>l
  <1>4. ASSUME NEW x \in Handlers, x # h,
               \/ HookPaid(x) \/ HookRefunded(x) \/ CancelWrite(x) \/ NotifyWrite(x)
               \/ PushWrite(x) \/ AcceptWrite(x) \/ RejectWrite(x) \/ Ask(x)
       PROVE  Still
    <2>1. Leave(x) \/ \E label : Goto(x, label)
      BY <1>4 DEF HookPaid, HookRefunded, CancelWrite, NotifyWrite, PushWrite, AcceptWrite,
                  RejectWrite, Ask
    <2>2. QED
      BY <1>4, <2>1, <1>g, <1>l
  <1>5. ASSUME NEW x \in Handlers, CommitFails(x) \/ PushFails(x) \/ Fails(x)
       PROVE  FALSE
    BY <1>5, <1>n DEF CommitFails, PushFails, Fails
  <1>6. ASSUME NEW kind \in {"paid", "refunded"}, NEW i \in Intents,
               \/ HookIgnores(kind, i) \/ \E x \in Handlers : HookRead(x, kind, i)
       PROVE  Still
    BY <1>6, <1>b, <1>u DEF HookIgnores, HookRead
  <1>7. ASSUME NEW i \in Intents, ClientPays(i) PROVE Still
    BY <1>7, <1>u DEF ClientPays
  <1>8. ASSUME NEW o \in Orders, Expire(o) \/ SuppliersConfirm(o) PROVE Still
    BY <1>8, <1>u DEF Expire, SuppliersConfirm
  <1>9. ~Crash
    BY <1>n DEF Crash
  <1>10. CASE UNCHANGED vars
    BY <1>10, <1>u DEF vars
  <1>11. QED
    BY <1>1, <1>2, <1>3, <1>4, <1>5, <1>6, <1>7, <1>8, <1>9, <1>10
    DEF Next, Confirm, Hook, Read, Write

\* A webhook under way, or being handled.
Told(kind, i) ==
  \/ <<kind, i>> \in events
  \/ \E h \in Handlers : op[h] = kind /\ pc[h] = "write" /\ made[h] = i

\* It remains so until it is handled or ignored, when nothing fails.
LEMMA TellStep ==
  ASSUME Typed, [Next]_vars, faults' = 0,
         NEW kind \in {"paid", "refunded"}, NEW i \in Intents, Told(kind, i)
  PROVE  \/ Told(kind, i)'
         \/ HookIgnores(kind, i)
         \/ \E h \in Handlers :
              /\ op[h] = kind /\ made[h] = i
              /\ HookPaid(h) \/ HookRefunded(h)
  <1>1. CASE <<kind, i>> \in events
    <2>1. CASE UNCHANGED events
      BY <1>1, <2>1 DEF Told
    <2>2. ASSUME NEW h \in Handlers, Charge(h) \/ Ask(h)
         PROVE  <<kind, i>> \in events'
      BY <1>1, <2>2 DEF Charge, Ask, Report, stripeVars
    <2>3. ASSUME NEW j \in Intents, ClientPays(j)
         PROVE  <<kind, i>> \in events'
      BY <1>1, <2>3 DEF ClientPays, Report
    <2>4. ASSUME NEW h \in Handlers, NEW k \in {"paid", "refunded"}, NEW j \in Intents,
                 HookRead(h, k, j)
         PROVE  Told(kind, i)'
      <3>1. CASE k = kind /\ j = i
        BY <2>4, <3>1 DEF HookRead, Begin, Told, Typed, HandlersTyped
      <3>2. CASE ~(k = kind /\ j = i)
        BY <1>1, <2>4, <3>2 DEF HookRead, Told
      <3>3. QED
        BY <3>1, <3>2
    <2>5. ASSUME NEW k \in {"paid", "refunded"}, NEW j \in Intents, HookIgnores(k, j)
         PROVE  Told(kind, i)' \/ HookIgnores(kind, i)
      <3>1. CASE k = kind /\ j = i
        BY <2>5, <3>1
      <3>2. CASE ~(k = kind /\ j = i)
        BY <1>1, <2>5, <3>2 DEF HookIgnores, Told
      <3>3. QED
        BY <3>1, <3>2
    <2>6. CASE Crash
      BY <1>1, <2>6 DEF Crash, Told
    <2>7. QED
      BY <2>1, <2>2, <2>3, <2>4, <2>5, <2>6, EventFrame DEF Told
  <1>2. ASSUME NEW h \in Handlers, op[h] = kind, pc[h] = "write", made[h] = i
       PROVE  \/ Told(kind, i)'
              \/ HookPaid(h) \/ HookRefunded(h)
    <2>1. ~(CancelWrite(h) \/ NotifyWrite(h) \/ PushWrite(h) \/ AcceptWrite(h)
            \/ RejectWrite(h) \/ Ask(h))
      BY <1>2 DEF CancelWrite, NotifyWrite, PushWrite, AcceptWrite, RejectWrite, Ask
    <2>2. QED
      BY <1>2, <2>1, OwnStep DEF Told
  <1>3. QED
    BY <1>1, <1>2 DEF Told

\* Stripe tells of every charge, and nothing else changes with it ...
LEMMA ChargeTold ==
  ASSUME Typed, [Next]_vars, NEW i \in Intents,
         stripe'[i].state \in {"charged", "refunded"},
         stripe[i].state \notin {"charged", "refunded"}
  PROVE  /\ stripe'[i].state = "charged" /\ <<"paid", i>> \in events'
         /\ UNCHANGED <<order, intent>>
         /\ stripe[i].state # "none"
         /\ \A h \in Handlers : ~Reads(h)
  <1>t. i \in DOMAIN stripe /\ \A j \in Intents : stripe[j] \in Intent
    BY DEF Typed, StripeTyped
  <1>1. ASSUME NEW h \in Handlers, NEW j \in Intents, CreateIntent(h, j) PROVE FALSE
    <2>1. i # j => stripe'[i] = Superseded[i] \/ stripe'[i] = stripe[i]
      BY <1>1, CreatedTyped DEF CreateIntent, Typed
    <2>2. i = j => stripe'[i].state = "new"
      <3>1. stripe'[j] = [state |-> "new", order |-> mOrder.of, client |-> target[h]]
        BY <1>1, CreatedTyped DEF CreateIntent, Typed, HandlersTyped
      <3>2. QED
        BY <3>1
    <2>3. QED
      BY <2>1, <2>2, SupersededTyped DEF Typed
  <1>2. ASSUME NEW h \in Handlers, CreateRefused(h) PROVE FALSE
    BY <1>2, SupersededTyped DEF CreateRefused, Typed
  <1>3. ASSUME NEW h \in Handlers, RecordIntent(h) \/ ChargeRefused(h) PROVE FALSE
    BY <1>3, <1>t DEF RecordIntent, ChargeRefused, Give, Intent, Typed, StripeTyped
  <1>4. ASSUME NEW h \in Handlers, Charge(h)
       PROVE  /\ stripe'[i].state = "charged" /\ <<"paid", i>> \in events'
              /\ UNCHANGED <<order, intent>>
              /\ stripe[i].state # "none"
    <2>1. made[h] = i
      BY <1>4, <1>t DEF Charge, Move, Intent, Typed, StripeTyped
    <2>2. QED
      BY <1>4, <2>1, <1>t DEF Charge, Move, Report, Goto, Intent, Typed, StripeTyped, rowVars
  <1>5. ASSUME NEW h \in Handlers, Ask(h) PROVE FALSE
    BY <1>5, <1>t DEF Ask, Move, Intent, Typed, StripeTyped, stripeVars
  <1>6. ASSUME NEW j \in Intents, ClientPays(j)
       PROVE  /\ stripe'[i].state = "charged" /\ <<"paid", i>> \in events'
              /\ UNCHANGED <<order, intent>>
              /\ stripe[i].state # "none"
    <2>1. j = i
      BY <1>6, <1>t DEF ClientPays, Move, Intent, Typed, StripeTyped
    <2>2. QED
      BY <1>6, <2>1, <1>t DEF ClientPays, Move, Report, Intent, Typed, StripeTyped, rowVars
  <1>7. stripe' # stripe
    OBVIOUS
  <1>8. \A h \in Handlers : ~Reads(h)
    BY <1>7 DEF Reads
  <1>9. QED
    BY <1>1, <1>2, <1>3, <1>4, <1>5, <1>6, <1>7, <1>8, StripeFrame

\* ... and of every refund.
LEMMA RefundTold ==
  ASSUME Typed, [Next]_vars, NEW i \in Intents,
         stripe'[i].state = "refunded", stripe[i].state # "refunded"
  PROVE  <<"refunded", i>> \in events' /\ stripe[i].state = "charged"
  <1>t. i \in DOMAIN stripe /\ \A j \in Intents : stripe[j] \in Intent
    BY DEF Typed, StripeTyped
  <1>1. stripe[i].state = "charged"
    BY ChargeTold
  <1>2. ASSUME NEW h \in Handlers, NEW j \in Intents, CreateIntent(h, j) PROVE FALSE
    <2>1. stripe'[i] = Superseded[i] \/ stripe'[i] = stripe[i]
      BY <1>1, <1>2, CreatedTyped DEF CreateIntent, Typed
    <2>2. QED
      BY <2>1, SupersededTyped DEF Typed
  <1>3. ASSUME NEW h \in Handlers, CreateRefused(h) PROVE FALSE
    BY <1>3, SupersededTyped DEF CreateRefused, Typed
  <1>4. ASSUME NEW h \in Handlers, RecordIntent(h) \/ ChargeRefused(h) PROVE FALSE
    BY <1>4, <1>t DEF RecordIntent, ChargeRefused, Give, Intent, Typed, StripeTyped
  <1>5. ASSUME NEW h \in Handlers, Charge(h) PROVE FALSE
    BY <1>5, <1>t DEF Charge, Move, Intent, Typed, StripeTyped
  <1>6. ASSUME NEW h \in Handlers, Ask(h) PROVE <<"refunded", i>> \in events'
    <2>1. made[h] = i
      BY <1>6, <1>t DEF Ask, Move, Intent, Typed, StripeTyped, stripeVars
    <2>2. QED
      BY <1>1, <1>6, <2>1, PaymentsAssumption DEF Ask, Report
  <1>7. ASSUME NEW j \in Intents, ClientPays(j) PROVE FALSE
    BY <1>7, <1>t DEF ClientPays, Move, Intent, Typed, StripeTyped
  <1>8. QED
    BY <1>1, <1>2, <1>3, <1>4, <1>5, <1>6, <1>7, StripeFrame
-----------------------------------------------------------------------------
(* The books agree.                                                        *)

\* A handler other than a confirmation has read a row that is not refunded.
CopiesOpen ==
  \A h \in Handlers : op[h] \notin {"none", "confirm"} =>
    /\ op[h] # "paid" => mine[h].row.status # "refunded" \/ op[h] = "refunded"
    /\ op[h] = "refunded" => mine[h].row.paid /\ ~mine[h].row.refunded

\* A refunded row is a paid one that has the status "refunded".
RefundedRow ==
  \A o \in Orders \ Broken : order[o].refunded =>
    order[o].paid /\ order[o].status = "refunded"

\* While nothing has failed, the row of a charged order is paid or will be told
\* of, and that of an order that was paid back is refunded or will be told of.
PaidKnown ==
  faults = 0 =>
    \A o \in Orders \ (crossed \cup Broken) : \A i \in Own(o) :
      intent[o] = i /\ stripe[i].state \in {"charged", "refunded"} =>
        order[o].paid \/ Told("paid", i)
BackKnown ==
  faults = 0 =>
    \A o \in Orders \ (crossed \cup outrun \cup Broken) : \A i \in Own(o) :
      intent[o] = i /\ stripe[i].state = "refunded" =>
        order[o].refunded \/ Told("refunded", i)

LEMMA CopiesOpenStep ==
  ASSUME Typed, CopiesOpen, [Next]_vars
  PROVE  CopiesOpen'
  <1> SUFFICES ASSUME NEW h \in Handlers, op'[h] \notin {"none", "confirm"}
               PROVE  /\ op'[h] # "paid" =>
                           mine'[h].row.status # "refunded" \/ op'[h] = "refunded"
                      /\ op'[h] = "refunded" =>
                           mine'[h].row.paid /\ ~mine'[h].row.refunded
    BY DEF CopiesOpen
  <1>1. HandlerChange(h)
    BY HandlerStep
  <1>2. CASE Reads(h)
    <2>1. mine'[h].row = order[target'[h]]
      BY <1>2 DEF Reads, CopyOf
    <2>2. QED
      BY <1>2, <2>1 DEF Reads, Wanted, Unconfirmed
  <1>3. QED
    BY <1>1, <1>2 DEF HandlerChange, CopiesOpen, ConfirmRead, Begin, Typed, HandlersTyped

\* A row that is paid stays so, whoever writes it.
LEMMA PaidStays ==
  ASSUME Typed, [Next]_vars, NEW o \in Orders, order[o].paid
  PROVE  order'[o].paid
  <1>1. RowChange(o)
    BY RowStep
  <1>2. ASSUME NEW h \in Handlers, op[h] = "confirm", pc[h] = "commit", mOrder.of = o,
               WriteRow(mOrder, Confirmed(h).row)
       PROVE  order'[o].paid
    <2>1. /\ mOrder.row \in Row /\ Confirmed(h).row \in Row /\ order[o] \in Row
          /\ order'[o] = Written(order[o], mOrder.row, Confirmed(h).row)
          /\ made[h] \in Intents
      BY <1>2, ConfirmColumns
    <2>2. Confirmed(h).row.paid = mOrder.row.paid
      BY <2>1, ConfirmedTyped
    <2>3. PICK row \in Row, copy \in Row, new \in Row :
            /\ row = order[o] /\ copy = mOrder.row /\ new = Confirmed(h).row
      BY <2>1
    <2>4. \/ Written(row, copy, new).paid = row.paid
          \/ new.paid # copy.paid /\ Written(row, copy, new).paid = new.paid
      BY WrittenRow
    <2>5. QED
      BY <2>1, <2>2, <2>3, <2>4
  <1>3. ASSUME NEW h \in Handlers, op[h] \notin {"none", "confirm"}, target[h] = o,
               NEW new \in Row,
               CASE op[h] = "paid" -> new = PaidRow(o, mine[h].row)
                 [] op[h] = "refunded" ->
                      new = [mine[h].row EXCEPT !.status = "refunded", !.refunded = TRUE]
                 [] op[h] = "push" ->
                      \/ new = [mine[h].row EXCEPT !.status = "processing"]
                      \/ new = Canceled(h)
                 [] op[h] = "accept" -> new = [mine[h].row EXCEPT !.status = "processing"]
                 [] OTHER -> new = Canceled(h),
               WriteColumns(mine[h], new)
       PROVE  order'[o].paid
    <2>1. /\ mine[h] \in Copy /\ mine[h].of = o
          /\ mine[h].row \in Row /\ order[o] \in Row
          /\ op[h] = "paid" => new.paid
      BY <1>3, NewColumns
    <2>2. new.paid = mine[h].row.paid \/ new.paid
      BY <1>3, <2>1 DEF Row, PaidRow, Canceled
    <2>3. order'[o] = Written(order[o], mine[h].row, new)
      BY <1>3, <2>1, ColumnsTyped
    <2>4. QED
      BY <2>1, <2>2, <2>3, WrittenRow
  <1>4. CASE Expire(o)
    <2>1. CopyOf(o) \in Copy /\ CopyOf(o).of = o /\ CopyOf(o).row = order[o]
      BY CopyTyped DEF CopyOf
    <2>2. order[o] \in Row /\ [order[o] EXCEPT !.status = "canceled"] \in Row
      BY DEF Typed, RowsTyped, Row
    <2>3. order'[o] = [order[o] EXCEPT !.status = "canceled"]
      BY <1>4, <2>1, <2>2, ColumnsTyped, WrittenRow DEF Expire
    <2>4. QED
      BY <2>2, <2>3 DEF Row
  <1>5. QED
    BY <1>1, <1>2, <1>3, <1>4 DEF RowChange, WriteRow

\* The handlers of the webhooks write what they are told.
LEMMA HandledWrites ==
  ASSUME Typed, CopiesBehind, CopiesOpen, NEW h \in Handlers
  PROVE  /\ HookPaid(h) => order'[target[h]].paid
         /\ HookRefunded(h) => order'[target[h]].refunded
  <1>1. ASSUME HookPaid(h) \/ HookRefunded(h)
       PROVE  /\ mine[h] \in Copy /\ mine[h].of = target[h] /\ target[h] \in Orders
              /\ mine[h].row \in Row /\ order[target[h]] \in Row
              /\ op[h] \notin {"none", "confirm"}
    BY <1>1, NewRowsTyped DEF HookPaid, HookRefunded, Typed, HandlersTyped, RowsTyped
  <1>2. ASSUME HookPaid(h) PROVE order'[target[h]].paid
    <2> DEFINE new == PaidRow(target[h], mine[h].row)
    <2>1. new \in Row /\ new.paid /\ WriteRow(mine[h], new)
      <3>1. mine[h] \in Copy /\ mine[h].row \in Row
        BY <1>1, <1>2
      <3>2. new \in Row
        BY <3>1, NewRowsTyped
      <3>3. new.paid
        BY <3>1 DEF PaidRow, Row
      <3>4. WriteRow(mine[h], new)
        BY <1>2 DEF HookPaid
      <3>5. QED
        BY <3>2, <3>3, <3>4
    <2>2. ~mine[h].row.paid
      BY <1>1, <1>2 DEF HookPaid, CopiesBehind
    <2>3. order'[target[h]] = Written(order[target[h]], mine[h].row, new)
      BY <1>1, <1>2, <2>1, ColumnsTyped DEF WriteRow
    <2> HIDE DEF new
    <2>4. QED
      BY <1>1, <1>2, <2>1, <2>2, <2>3, WrittenRow
  <1>3. ASSUME HookRefunded(h) PROVE order'[target[h]].refunded
    <2> DEFINE new == [mine[h].row EXCEPT !.status = "refunded", !.refunded = TRUE]
    <2>1. new \in Row /\ new.refunded /\ WriteRow(mine[h], new)
      BY <1>1, <1>3, NewRowsTyped DEF HookRefunded, Row
    <2>2. ~mine[h].row.refunded
      BY <1>1, <1>3 DEF HookRefunded, CopiesOpen
    <2>3. order'[target[h]] = Written(order[target[h]], mine[h].row, new)
      BY <1>1, <1>3, <2>1, ColumnsTyped DEF WriteRow
    <2> HIDE DEF new
    <2>4. QED
      BY <1>1, <1>3, <2>1, <2>2, <2>3, WrittenRow
  <1>4. QED
    BY <1>2, <1>3

\* A row that has a copy of it written back becomes what was written, or is
\* recorded as stale.
LEMMA FreshWrite ==
  ASSUME Typed, NEW copy \in Copy, copy.of \in Orders, NEW new \in Row,
         WriteRow(copy, new), copy.of \notin stale'
  PROVE  \/ order'[copy.of] = order[copy.of]
         \/ order[copy.of] = copy.row /\ order'[copy.of] = new
  <1>1. copy.row \in Row /\ order[copy.of] \in Row
    BY NewRowsTyped DEF Typed, RowsTyped
  <1>2. order'[copy.of] = Written(order[copy.of], copy.row, new)
    BY ColumnsTyped DEF WriteRow
  <1>3. CASE new = copy.row
    BY <1>1, <1>2, <1>3, WrittenRow
  <1>4. CASE new # copy.row
    <2>1. order[copy.of] = copy.row
      BY <1>4 DEF WriteRow
    <2>2. QED
      BY <1>1, <1>2, <2>1, WrittenRow
  <1>5. QED
    BY <1>3, <1>4

LEMMA RefundedRowStep ==
  ASSUME Typed, MOrderOpen, CopiesBehind, CopiesOpen, RefundedRow, [Next]_vars
  PROVE  RefundedRow'
  <1> SUFFICES ASSUME NEW o \in Orders, (o \notin Broken)', order'[o].refunded
               PROVE  order'[o].paid /\ order'[o].status = "refunded"
    BY DEF RefundedRow
  <1>1. o \notin Broken /\ o \notin stale' /\ (o \in Split => o \notin unasked')
    BY RecordsGrow DEF Broken
  <1>2. order[o].refunded => order[o].paid /\ order[o].status = "refunded"
    BY <1>1 DEF RefundedRow
  <1>3. RowChange(o)
    BY RowStep
  <1>4. CASE order'[o] = order[o]
    BY <1>2, <1>4
  <1>5. ASSUME NEW h \in Handlers, op[h] = "confirm", pc[h] = "commit", mOrder.of = o,
               WriteRow(mOrder, Confirmed(h).row)
       PROVE  order'[o].paid /\ order'[o].status = "refunded"
    <2>1. /\ mOrder \in Copy /\ made[h] \in Intents /\ Confirmed(h).row \in Row
          /\ Confirmed(h).row.refunded = mOrder.row.refunded /\ ~mOrder.row.refunded
      BY <1>5, ConfirmColumns, ConfirmedTyped DEF MOrderOpen
    <2>2. order'[o] = order[o] \/ order'[o] = Confirmed(h).row
      BY <1>1, <1>5, <2>1, FreshWrite
    <2>3. QED
      BY <1>4, <2>1, <2>2
  <1>6. ASSUME NEW h \in Handlers, op[h] \notin {"none", "confirm"}, target[h] = o,
               NEW new \in Row,
               CASE op[h] = "paid" -> new = PaidRow(o, mine[h].row)
                 [] op[h] = "refunded" ->
                      new = [mine[h].row EXCEPT !.status = "refunded", !.refunded = TRUE]
                 [] op[h] = "push" ->
                      \/ new = [mine[h].row EXCEPT !.status = "processing"]
                      \/ new = Canceled(h)
                 [] op[h] = "accept" -> new = [mine[h].row EXCEPT !.status = "processing"]
                 [] OTHER -> new = Canceled(h),
               \/ WriteRow(mine[h], new)
               \/ /\ op[h] = "reject" /\ target[h] \in unasked'
                  /\ WriteColumns(mine[h], new) /\ UNCHANGED seal
       PROVE  order'[o].paid /\ order'[o].status = "refunded"
    <2>1. /\ mine[h] \in Copy /\ mine[h].of = o
          /\ mine[h].row \in Row /\ order[o] \in Row
          /\ op[h] # "refunded" => new.refunded = mine[h].row.refunded
          /\ op[h] = "refunded" => new.refunded /\ new.status = "refunded"
      BY <1>6, NewColumns
    <2>2. WriteRow(mine[h], new)
      BY <1>1, <1>6 DEF CopiesBehind
    <2>3. CASE order[o] = mine[h].row /\ order'[o] = new
      <3>1. CASE op[h] = "refunded"
        <4>1. new.paid = mine[h].row.paid
          BY <1>6, <2>1, <3>1 DEF Row
        <4>2. QED
          BY <1>6, <2>1, <2>3, <3>1, <4>1 DEF CopiesOpen
      <3>2. CASE op[h] # "refunded"
        <4>1. order[o].refunded
          BY <2>1, <2>3, <3>2
        <4>2. mine[h].row.paid /\ mine[h].row.status = "refunded"
          BY <1>2, <2>3, <4>1
        <4>3. QED
          BY <1>6, <3>2, <4>2 DEF CopiesOpen, CopiesBehind
      <3>3. QED
        BY <3>1, <3>2
    <2>4. QED
      BY <1>1, <1>4, <1>6, <2>1, <2>2, <2>3, FreshWrite
  <1>7. ~Expire(o)
    BY <1>1, PaymentsAssumption DEF Expire
  <1>8. QED
    BY <1>3, <1>4, <1>5, <1>6, <1>7 DEF RowChange
\* The intent of an order that is charged was named by it before, unless
\* confirmations have crossed.
LEMMA NamedBefore ==
  ASSUME Typed, Secret, Solo, [Next]_vars, NEW o \in Orders, o \notin crossed,
         NEW i \in Intents, intent'[o] = i,
         stripe'[i].state \in {"charged", "refunded"}
  PROVE  intent[o] = i
  <1>1. ASSUME NEW h \in Handlers, RecordIntent(h), made[h] = i PROVE FALSE
    <2>1. stripe[i].state = "new"
      BY <1>1 DEF RecordIntent, Secret
    <2>2. UNCHANGED stripe \/ Give(i)
      BY <1>1 DEF RecordIntent
    <2>3. stripe'[i].state \in {"new", "given"}
      BY <2>1, <2>2 DEF Give, Typed, StripeTyped, Intent
    <2>4. QED
      BY <2>3
  <1>2. ASSUME NEW h \in Handlers, Commit(h), mOrder.intent # made[h], mOrder.of = o
       PROVE  FALSE
    BY <1>2 DEF Commit, Solo
  <1>3. QED
    BY <1>1, <1>2, IntentStep

\* An intent of an order after a step was one before, if it existed.
LEMMA OwnBefore ==
  ASSUME Typed, [Next]_vars, NEW o \in Orders, NEW i \in Intents,
         stripe[i].state # "none"
  PROVE  (i \in Own(o)) <=> (i \in Own(o))'
  BY StripeForward DEF Forward, Own

LEMMA PaidKnownStep ==
  ASSUME Typed, EventsTrue, CopiesBehind, CopiesOpen, OrderStaysSealed, IntentsExist,
         Secret, Solo, PaidKnown, [Next]_vars
  PROVE  PaidKnown'
  <1> SUFFICES ASSUME faults' = 0, NEW o \in Orders, o \notin crossed',
                      (o \notin Broken)', NEW i \in Intents, (i \in Own(o))',
                      intent'[o] = i, stripe'[i].state \in {"charged", "refunded"}
               PROVE  order'[o].paid \/ Told("paid", i)'
    BY DEF PaidKnown, Own
  <1>1. faults = 0 /\ o \notin crossed /\ o \notin Broken
    BY RecordsGrow DEF Broken
  <1>2. intent[o] = i
    BY <1>1, NamedBefore
  <1>3. stripe[i].state # "none"
    BY <1>2 DEF IntentsExist
  <1>4. i \in Own(o)
    BY <1>3, OwnBefore
  <1>5. CASE stripe[i].state \notin {"charged", "refunded"}
    BY <1>5, ChargeTold DEF Told
  <1>6. CASE stripe[i].state \in {"charged", "refunded"}
    <2>1. order[o].paid \/ Told("paid", i)
      BY <1>1, <1>2, <1>4, <1>6 DEF PaidKnown
    <2>2. CASE order[o].paid
      BY <2>2, PaidStays
    <2>3. CASE Told("paid", i)
      <3>1. ASSUME HookIgnores("paid", i) PROVE order'[o].paid
        <4>1. Found(i) /\ stripe[i].order = o
          BY <1>2, <1>4 DEF Own, Found
        <4>2. Sealed(o)
          BY <1>1 DEF OrderStaysSealed
        <4>3. ~Wanted("paid", o) /\ UNCHANGED order
          BY <3>1, <4>1, <4>2 DEF HookIgnores, rowVars
        <4>4. QED
          BY <4>3 DEF Wanted
      <3>2. ASSUME NEW h \in Handlers, op[h] = "paid", made[h] = i,
                   HookPaid(h) \/ HookRefunded(h)
           PROVE  order'[o].paid
        <4>1. HookPaid(h)
          BY <3>2 DEF HookRefunded
        <4>2. target[h] = o
          BY <1>4, <3>2 DEF EventsTrue, Own
        <4>3. QED
          BY <4>1, <4>2, HandledWrites
      <3>3. QED
        BY <2>3, <3>1, <3>2, TellStep
    <2>4. QED
      BY <2>1, <2>2, <2>3
  <1>7. QED
    BY <1>5, <1>6

LEMMA BackKnownStep ==
  ASSUME Typed, EventsTrue, CopiesBehind, CopiesOpen, OrderStaysSealed, IntentsExist,
         Secret, Solo, BackKnown, [Next]_vars
  PROVE  BackKnown'
  <1> SUFFICES ASSUME faults' = 0, NEW o \in Orders, o \notin crossed',
                      o \notin outrun', (o \notin Broken)', NEW i \in Intents,
                      (i \in Own(o))', intent'[o] = i, stripe'[i].state = "refunded"
               PROVE  order'[o].refunded \/ Told("refunded", i)'
    BY DEF BackKnown, Own
  <1>1. faults = 0 /\ o \notin crossed /\ o \notin outrun /\ o \notin Broken
    BY RecordsGrow DEF Broken
  <1>2. intent[o] = i
    BY <1>1, NamedBefore
  <1>3. stripe[i].state # "none"
    BY <1>2 DEF IntentsExist
  <1>4. i \in Own(o)
    BY <1>3, OwnBefore
  <1>5. CASE stripe[i].state # "refunded"
    BY <1>5, RefundTold DEF Told
  <1>6. CASE stripe[i].state = "refunded"
    <2>1. order[o].refunded \/ Told("refunded", i)
      BY <1>1, <1>2, <1>4, <1>6 DEF BackKnown
    <2>2. CASE order[o].refunded
      BY <2>2, RowForward
    <2>3. CASE Told("refunded", i)
      <3>1. ASSUME HookIgnores("refunded", i) PROVE order'[o].refunded
        <4>1. Found(i) /\ stripe[i].order = o
          BY <1>2, <1>4 DEF Own, Found
        <4>2. Sealed(o)
          BY <1>1 DEF OrderStaysSealed
        <4>3. ~Wanted("refunded", o) /\ UNCHANGED order
          BY <3>1, <4>1, <4>2 DEF HookIgnores, rowVars
        <4>4. order[o].paid
          BY <3>1, <4>1 DEF HookIgnores
        <4>5. QED
          BY <4>3, <4>4 DEF Wanted
      <3>2. ASSUME NEW h \in Handlers, op[h] = "refunded", made[h] = i,
                   HookPaid(h) \/ HookRefunded(h)
           PROVE  order'[o].refunded
        <4>1. HookRefunded(h)
          BY <3>2 DEF HookPaid
        <4>2. target[h] = o
          BY <1>4, <3>2 DEF EventsTrue, Own
        <4>3. QED
          BY <4>1, <4>2, HandledWrites
      <3>3. QED
        BY <2>3, <3>1, <3>2, TellStep
    <2>4. QED
      BY <2>1, <2>2, <2>3
  <1>7. QED
    BY <1>5, <1>6

\* What the books rest on.
Known ==
  /\ Typed /\ EventsTrue /\ MoneyFlagsAreTrue /\ MOrderOpen /\ CopiesBehind
  /\ OrderStaysSealed /\ IntentsExist /\ Secret /\ Solo /\ CopiesOpen
  /\ RefundedRow /\ PaidKnown /\ BackKnown

LEMMA KnownInit == Init => Known
  <1>1. Init => Typed
    BY TypedInit
  <1>2. Init => /\ EventsTrue /\ MoneyFlagsAreTrue /\ MOrderOpen /\ CopiesBehind
                /\ OrderStaysSealed
    BY DEF Init, EventsTrue, MoneyFlagsAreTrue, MOrderOpen, CopiesBehind,
           OrderStaysSealed, NewRow, Sealed
  <1>3. Init => IntentsExist
    BY PaymentsAssumption DEF Init, IntentsExist, NoCopy
  <1>4. Init => /\ Secret /\ Solo /\ CopiesOpen /\ RefundedRow
    BY DEF Init, Secret, Solo, CopiesOpen, RefundedRow, NewRow
  <1>5. Init => PaidKnown /\ BackKnown
    BY DEF Init, PaidKnown, BackKnown, Own
  <1>6. QED
    BY <1>1, <1>2, <1>3, <1>4, <1>5 DEF Known

LEMMA KnownStep == Known /\ [Next]_vars => Known'
  BY TypedStep, EventsTrueStep, FlagsTrueStep, MOrderOpenStep, CopiesBehindStep,
     SealedStep, IntentsExistStep, SecretStep, SoloStep, CopiesOpenStep,
     RefundedRowStep, PaidKnownStep, BackKnownStep
  DEF Known

\* When everything has been handled and nothing has failed, the row of an
\* order says of the intent it names what Stripe says: whatever interleaving
\* of confirmations, webhooks, cancellations and cron jobs has led there.
THEOREM BooksAgree == Spec => []BooksAgreeAtRest
  <1>1. Known => BooksAgreeAtRest
    <2> SUFFICES ASSUME Known, AtRest, faults = 0, NEW o \in Orders, o \in ChargedOnce,
                        o \notin crossed, o \notin outrun, o \notin Broken,
                        NEW i \in Own(o), intent[o] = i
                 PROVE  /\ stripe[i].state = "charged" =>
                             order[o].paid /\ ~order[o].refunded
                        /\ stripe[i].state = "refunded" =>
                             /\ order[o].paid /\ order[o].refunded
                             /\ order[o].status = "refunded"
      BY DEF BooksAgreeAtRest, ChargedOnce
    <2>1. \A kind \in {"paid", "refunded"} : ~Told(kind, i)
      BY DEF AtRest, Told
    <2>2. stripe[i].state \in {"charged", "refunded"} => order[o].paid
      BY <2>1 DEF Known, PaidKnown
    <2>3. stripe[i].state = "refunded" => order[o].refunded
      BY <2>1 DEF Known, BackKnown
    <2>4. order[o].refunded => order[o].status = "refunded"
      BY DEF Known, RefundedRow
    <2>5. ASSUME stripe[i].state = "charged", order[o].refunded PROVE FALSE
      <3>1. PICK j \in PaidBackFor(o) : TRUE
        BY <2>5 DEF Known, MoneyFlagsAreTrue
      <3>2. i \in ChargedFor(o)
        BY <2>5 DEF ChargedFor
      <3>3. i = j
        BY <3>1, <3>2 DEF ChargedOnce
      <3>4. QED
        BY <2>5, <3>1, <3>3 DEF PaidBackFor
    <2>6. QED
      BY <2>2, <2>3, <2>4, <2>5
  <1>2. QED
    BY <1>1, KnownInit, KnownStep, PTL DEF Spec
-----------------------------------------------------------------------------
(* A canceled order is paid back.                                          *)

\* An update changes the status of its own order, to the one that is written,
\* and only if that differs from the copy.
LEMMA StatusWritten ==
  ASSUME Typed, NEW copy \in Copy, copy.of \in Orders, NEW new \in Row,
         WriteColumns(copy, new), NEW o \in Orders,
         order'[o].status # order[o].status
  PROVE  /\ o = copy.of /\ order'[o].status = new.status
         /\ new.status # copy.row.status
  <1>1. o = copy.of
    BY ColumnsTyped
  <1>2. copy.row \in Row /\ order[copy.of] \in Row
    BY NewRowsTyped DEF Typed, RowsTyped
  <1>3. order'[copy.of].status =
          IF new.status # copy.row.status THEN new.status ELSE order[copy.of].status
    BY <1>2, ColumnsTyped, WrittenRow
  <1>4. QED
    BY <1>1, <1>3

\* Who changes the status of an order.
LEMMA StatusStep ==
  ASSUME Typed, [Next]_vars, NEW o \in Orders, order'[o].status # order[o].status
  PROVE  \/ \E h \in Handlers :
              /\ Commit(h) /\ mOrder.of = o /\ order'[o].status = "processing"
              /\ Confirmed(h).row.status # mOrder.row.status
         \/ \E h \in Handlers :
              /\ target[h] = o
              /\ \/ HookPaid(h) /\ o \notin Split /\ order'[o].status = "processing"
                 \/ HookRefunded(h) /\ order'[o].status = "refunded"
                 \/ /\ CancelWrite(h) \/ NotifyWrite(h) \/ PushFails(h) \/ RejectWrite(h)
                    /\ order'[o].status = "canceled"
                 \/ /\ PushWrite(h) \/ AcceptWrite(h)
                    /\ order'[o].status = "processing"
         \/ Expire(o) /\ order'[o].status = "canceled"
  <1>0. order' # order
    OBVIOUS
  <1>c. ASSUME NEW h \in Handlers, op[h] \notin {"none", "confirm"}
       PROVE  /\ mine[h] \in Copy /\ mine[h].of = target[h] /\ target[h] \in Orders
              /\ mine[h].row \in Row
              /\ Canceled(h) \in Row /\ Canceled(h).status = "canceled"
              /\ [mine[h].row EXCEPT !.status = "processing"] \in Row
              /\ [mine[h].row EXCEPT !.status = "processing"].status = "processing"
    <2>1. mine[h] \in Copy /\ mine[h].of = target[h] /\ target[h] \in Orders
      BY <1>c DEF Typed, HandlersTyped
    <2>2. /\ mine[h].row \in Row
          /\ \A s \in {"processing", "canceled"} : [mine[h].row EXCEPT !.status = s] \in Row
      BY <2>1, NewRowsTyped
    <2>3. \A s \in {"processing", "canceled"} :
            [mine[h].row EXCEPT !.status = s].status = s
      BY <2>2 DEF Row
    <2>4. QED
      BY <2>1, <2>2, <2>3 DEF Canceled
  <1>1. ASSUME NEW h \in Handlers, Commit(h)
       PROVE  /\ mOrder.of = o /\ order'[o].status = "processing"
              /\ Confirmed(h).row.status # mOrder.row.status
    <2>1. /\ mOrder \in Copy /\ mOrder.of \in Orders /\ made[h] \in Intents
          /\ Confirmed(h).row \in Row /\ WriteColumns(mOrder, Confirmed(h).row)
      BY <1>1, ConfirmColumns DEF Commit, WriteRow
    <2>2. /\ o = mOrder.of /\ order'[o].status = Confirmed(h).row.status
          /\ Confirmed(h).row.status # mOrder.row.status
      BY <2>1, StatusWritten
    <2>3. QED
      BY <2>1, <2>2, ConfirmedTyped
  <1>2. ASSUME NEW h \in Handlers, HookPaid(h)
       PROVE  target[h] = o /\ o \notin Split /\ order'[o].status = "processing"
    <2> DEFINE new == PaidRow(target[h], mine[h].row)
    <2>1. op[h] \notin {"none", "confirm"} /\ WriteColumns(mine[h], new)
      BY <1>2 DEF HookPaid, WriteRow
    <2>2. mine[h] \in Copy /\ mine[h].of = target[h] /\ target[h] \in Orders /\ new \in Row
      BY <2>1, <1>c, NewRowsTyped
    <2>3. target[h] = o /\ order'[o].status = new.status /\ new.status # mine[h].row.status
      <3> HIDE DEF new
      <3>1. QED
        BY <2>1, <2>2, StatusWritten
    <2>4. new.status = IF target[h] \in Split THEN mine[h].row.status ELSE "processing"
      BY <2>1, <1>c DEF PaidRow, Row
    <2>5. QED
      BY <2>3, <2>4
  <1>3. ASSUME NEW h \in Handlers, HookRefunded(h)
       PROVE  target[h] = o /\ order'[o].status = "refunded"
    <2> DEFINE new == [mine[h].row EXCEPT !.status = "refunded", !.refunded = TRUE]
    <2>1. op[h] \notin {"none", "confirm"} /\ WriteColumns(mine[h], new)
      BY <1>3 DEF HookRefunded, WriteRow
    <2>2. /\ mine[h] \in Copy /\ mine[h].of = target[h] /\ target[h] \in Orders
          /\ new \in Row /\ new.status = "refunded"
      BY <2>1, <1>c, NewRowsTyped DEF Row
    <2> HIDE DEF new
    <2>3. QED
      BY <2>1, <2>2, StatusWritten
  <1>4. ASSUME NEW h \in Handlers,
               CancelWrite(h) \/ NotifyWrite(h) \/ PushFails(h) \/ RejectWrite(h)
       PROVE  target[h] = o /\ order'[o].status = "canceled"
    <2>1. op[h] \notin {"none", "confirm"} /\ WriteColumns(mine[h], Canceled(h))
      BY <1>4 DEF CancelWrite, NotifyWrite, PushFails, RejectWrite, WriteRow
    <2>2. /\ mine[h] \in Copy /\ mine[h].of = target[h] /\ target[h] \in Orders
          /\ Canceled(h) \in Row /\ Canceled(h).status = "canceled"
      BY <2>1, <1>c
    <2>3. QED
      BY <2>1, <2>2, StatusWritten
  <1>5. ASSUME NEW h \in Handlers, PushWrite(h) \/ AcceptWrite(h)
       PROVE  target[h] = o /\ order'[o].status = "processing"
    <2> DEFINE new == [mine[h].row EXCEPT !.status = "processing"]
    <2>1. op[h] \notin {"none", "confirm"} /\ WriteColumns(mine[h], new)
      BY <1>5 DEF PushWrite, AcceptWrite, WriteRow
    <2>2. /\ mine[h] \in Copy /\ mine[h].of = target[h] /\ target[h] \in Orders
          /\ new \in Row /\ new.status = "processing"
      BY <2>1, <1>c
    <2> HIDE DEF new
    <2>3. QED
      BY <2>1, <2>2, StatusWritten
  <1>6. ASSUME NEW q \in Orders, Expire(q)
       PROVE  q = o /\ order'[o].status = "canceled"
    <2> DEFINE new == [order[q] EXCEPT !.status = "canceled"]
    <2>1. CopyOf(q) \in Copy /\ CopyOf(q).of = q
      BY CopyTyped
    <2>2. new \in Row /\ new.status = "canceled" /\ WriteColumns(CopyOf(q), new)
      BY <1>6 DEF Expire, Typed, RowsTyped, Row
    <2> HIDE DEF new
    <2>3. QED
      BY <2>1, <2>2, StatusWritten
  <1>7. QED
    BY <1>0, <1>1, <1>2, <1>3, <1>4, <1>5, <1>6, RowFrame DEF rowFrame

\* The flags are raised and never lowered.
LEMMA FlagsGrow ==
  ASSUME Typed, [Next]_vars, NEW o \in Orders
  PROVE  flags[o] \subseteq flags'[o]
  <1>r. ASSUME NEW q, NEW flag, Raise(q, flag) PROVE flags[o] \subseteq flags'[o]
    BY <1>r DEF Raise, Typed, RowsTyped
  <1>u. (UNCHANGED flags) => flags[o] \subseteq flags'[o]
    OBVIOUS
  <1>1. ASSUME NEW h \in Handlers, NEW q \in Orders,
               \/ ConfirmRead(h, q) \/ ClientCancelRead(h, q)
               \/ RestaurantCancelRead(h, q) \/ NotifyRead(h, q) \/ PushRead(h, q)
               \/ AcceptRead(h, q) \/ RejectRead(h, q)
       PROVE  UNCHANGED flags
    BY <1>1 DEF ConfirmRead, ClientCancelRead, RestaurantCancelRead, NotifyRead, PushRead,
                AcceptRead, RejectRead, ReadFor, rowVars
  <1>2. ASSUME NEW h \in Handlers, NEW i \in Intents, CreateIntent(h, i)
       PROVE  UNCHANGED flags
    BY <1>2 DEF CreateIntent, rowVars
  <1>3. ASSUME NEW h \in Handlers,
               \/ CreateRefused(h) \/ RecordIntent(h) \/ Charge(h) \/ ChargeRefused(h)
               \/ Commit(h) \/ CommitFails(h) \/ HookPaid(h) \/ HookRefunded(h)
               \/ Fails(h) \/ NotifyWrite(h) \/ PushFails(h) \/ RejectWrite(h) \/ Ask(h)
       PROVE  UNCHANGED flags
    BY <1>3 DEF CreateRefused, RecordIntent, Charge, ChargeRefused, Commit, CommitFails,
                HookPaid, HookRefunded, Fails, NotifyWrite, PushFails, RejectWrite, Ask,
                rowVars
  <1>4. ASSUME NEW h \in Handlers,
               RequestAction(h) \/ CancelWrite(h) \/ PushWrite(h) \/ AcceptWrite(h)
       PROVE  UNCHANGED flags \/ \E q, flag : Raise(q, flag)
    BY <1>4 DEF RequestAction, CancelWrite, PushWrite, AcceptWrite
  <1>5. ASSUME NEW kind \in {"paid", "refunded"}, NEW i \in Intents,
               \/ HookIgnores(kind, i) \/ \E h \in Handlers : HookRead(h, kind, i)
       PROVE  UNCHANGED flags
    BY <1>5 DEF HookIgnores, HookRead, rowVars
  <1>6. ASSUME NEW i \in Intents, ClientPays(i) PROVE UNCHANGED flags
    BY <1>6 DEF ClientPays, rowVars
  <1>7. ASSUME NEW q \in Orders, Expire(q) \/ SuppliersConfirm(q)
       PROVE  UNCHANGED flags \/ \E p, flag : Raise(p, flag)
    BY <1>7 DEF Expire, SuppliersConfirm
  <1>8. CASE Crash
    BY <1>8 DEF Crash, rowVars
  <1>9. CASE UNCHANGED vars
    BY <1>9 DEF vars, rowVars
  <1>10. QED
    BY <1>r, <1>u, <1>1, <1>2, <1>3, <1>4, <1>5, <1>6, <1>7, <1>8, <1>9
    DEF Next, Confirm, Hook, Read, Write
\* What is charged for an order that was charged once, after it was charged, was
\* charged already.
LEMMA ChargedBefore ==
  ASSUME Typed, [Next]_vars, NEW o \in Orders, (o \in ChargedOnce)', Money(o),
         NEW i \in Intents, (i \in ChargedFor(o))'
  PROVE  i \in ChargedFor(o) /\ o \in ChargedOnce
  <1>1. \A j \in ChargedFor(o) \cup PaidBackFor(o) :
          (j \in ChargedFor(o) \cup PaidBackFor(o))'
    BY StripeForward DEF Forward, ChargedFor, PaidBackFor, Own
  <1>2. o \in ChargedOnce
    BY <1>1 DEF ChargedOnce
  <1>3. PICK j \in ChargedFor(o) \cup PaidBackFor(o) : TRUE
    BY DEF Money
  <1>4. i = j
    BY <1>1, <1>3 DEF ChargedOnce
  <1>5. i \notin PaidBackFor(o)
    BY StripeForward DEF Forward, ChargedFor, PaidBackFor, Own
  <1>6. QED
    BY <1>2, <1>3, <1>4, <1>5

\* An event's order in processing was accepted by its restaurant, unless
\* confirmations have crossed; no event is pushed.
SplitAccepted ==
  /\ \A o \in Split \ crossed : order[o].status = "processing" => "confirmed" \in flags[o]
  /\ \A h \in Handlers : op[h] = "push" => target[h] \notin Split

\* An order that its client or a restaurant is going to cancel was charged, and
\* so was, while nothing has failed, a canceled one.
CancelsPaid ==
  /\ \A h \in Handlers :
       op[h] \in {"client", "restaurant"} /\ target[h] \notin crossed => Money(target[h])
  /\ faults = 0 => \A o \in Orders \ (crossed \cup unasked) :
                     order[o].status = "canceled" => Money(o)

\* Who cancels an order asks for the intent that was charged for it.
AskKnows ==
  \A h \in Handlers, o \in ChargedOnce \ crossed :
    /\ op[h] \in {"client", "restaurant"} /\ target[h] = o
    /\ intent[o] \in ChargedFor(o)
    => made[h] = intent[o]

\* While nothing has failed, the money of a canceled order is going to be asked
\* for, unless it was canceled by code that asks for none.
Owed ==
  faults = 0 =>
    \A o \in ChargedOnce \ (crossed \cup unasked) :
      order[o].status = "canceled" /\ intent[o] \in ChargedFor(o) =>
        \E h \in Handlers : pc[h] = "ask" /\ made[h] = intent[o]

LEMMA SplitAcceptedStep ==
  ASSUME Typed, ConfirmsOwn, SplitAccepted, [Next]_vars
  PROVE  SplitAccepted'
  <1>1. ASSUME NEW o \in Split, o \notin crossed', order'[o].status = "processing"
       PROVE  "confirmed" \in flags'[o]
    <2>1. o \in Orders /\ o \notin crossed
      BY <1>1, RecordsGrow, PaymentsAssumption
    <2>2. CASE order[o].status = "processing"
      BY <2>1, <2>2, FlagsGrow DEF SplitAccepted
    <2>3. ASSUME NEW h \in Handlers, Commit(h), mOrder.of = o,
                 Confirmed(h).row.status # mOrder.row.status
         PROVE  FALSE
      <3>1. stripe[made[h]].order = o
        BY <2>1, <2>3 DEF ConfirmsOwn, Commit, Own
      <3>2. Confirmed(h).row.status = mOrder.row.status
        BY <3>1 DEF Confirmed, Typed, HandlersTyped, Copy, Row
      <3>3. QED
        BY <2>3, <3>2
    <2>4. ASSUME NEW h \in Handlers, PushWrite(h), target[h] = o PROVE FALSE
      BY <2>4 DEF PushWrite, SplitAccepted
    <2>5. ASSUME NEW h \in Handlers, AcceptWrite(h), target[h] = o
         PROVE  "confirmed" \in flags'[o]
      BY <2>1, <2>5 DEF AcceptWrite, Raise, Typed, RowsTyped
    <2>6. QED
      BY <1>1, <2>1, <2>2, <2>3, <2>4, <2>5, StatusStep
  <1>2. ASSUME NEW h \in Handlers, op'[h] = "push" PROVE target'[h] \notin Split
    <2>1. HandlerChange(h)
      BY HandlerStep
    <2>2. QED
      BY <1>2, <2>1 DEF HandlerChange, Reads, ConfirmRead, Begin, SplitAccepted, Typed,
                        HandlersTyped
  <1>3. QED
    BY <1>1, <1>2 DEF SplitAccepted

LEMMA CancelsPaidStep ==
  ASSUME Typed, ReadsPaid, ProcessingWasCharged, SplitAccepted, CancelsPaid, [Next]_vars
  PROVE  CancelsPaid'
  <1>f. Forward
    BY StripeForward
  <1>1. ASSUME NEW h \in Handlers, op'[h] \in {"client", "restaurant"},
               target'[h] \notin crossed', NEW o \in Orders, o = target'[h]
       PROVE  Money(o)
    <2>1. HandlerChange(h) /\ o \notin crossed
      BY <1>1, HandlerStep, RecordsGrow
    <2>2. CASE op'[h] = op[h] /\ target'[h] = target[h]
      BY <1>1, <2>1, <2>2 DEF CancelsPaid
    <2>3. CASE Reads(h)
      <3>1. order[o].status = "processing" /\ "confirmed" \notin flags[o]
        BY <1>1, <2>3 DEF Reads, Unconfirmed
      <3>2. o \notin Split
        BY <2>1, <3>1 DEF SplitAccepted
      <3>3. QED
        BY <2>1, <3>1, <3>2 DEF ProcessingWasCharged, Money
    <2>4. QED
      BY <1>1, <2>1, <2>2, <2>3
      DEF HandlerChange, ConfirmRead, Begin, Typed, HandlersTyped
  <1>2. ASSUME NEW h \in Handlers, op'[h] \in {"client", "restaurant"},
               target'[h] \notin crossed'
       PROVE  Money(target[h])'
    <2>1. PICK o \in Orders : o = target'[h]
      BY <1>2, TypedStep DEF Typed, HandlersTyped
    <2>2. Money(o)'
      BY <1>1, <1>2, <1>f, <2>1, MoneyForward
    <2>3. QED
      BY <2>1, <2>2
  <1>3. ASSUME faults' = 0, NEW o \in Orders, o \notin crossed', o \notin unasked',
               order'[o].status = "canceled"
       PROVE  Money(o)
    <2>1. faults = 0 /\ o \notin crossed /\ o \notin unasked
      BY <1>3, RecordsGrow
    <2>2. CASE order[o].status = "canceled"
      BY <2>1, <2>2 DEF CancelsPaid
    <2>3. ASSUME NEW h \in Handlers, CancelWrite(h), target[h] = o PROVE Money(o)
      BY <2>1, <2>3 DEF CancelWrite, CancelsPaid
    <2>4. ASSUME NEW h \in Handlers, NotifyWrite(h) \/ RejectWrite(h), target[h] = o
         PROVE  FALSE
      BY <1>3, <2>4 DEF NotifyWrite, RejectWrite
    <2>5. ASSUME NEW h \in Handlers, PushFails(h), target[h] = o PROVE Money(o)
      BY <2>5 DEF PushFails, ReadsPaid
    <2>6. ~Expire(o)
      BY <1>3 DEF Expire
    <2>7. QED
      BY <1>3, <2>2, <2>3, <2>4, <2>5, <2>6, StatusStep
  <1>4. ASSUME faults' = 0, NEW o \in Orders, o \notin crossed', o \notin unasked',
               order'[o].status = "canceled"
       PROVE  Money(o)'
    BY <1>3, <1>4, <1>f, MoneyForward
  <1>5. QED
    BY <1>2, <1>4 DEF CancelsPaid

LEMMA AskKnowsStep ==
  ASSUME Typed, Secret, Solo, ProcessingWasCharged, SplitAccepted, CancelsPaid,
         AskKnows, [Next]_vars
  PROVE  AskKnows'
  <1> SUFFICES ASSUME NEW h \in Handlers, NEW o \in Orders, (o \in ChargedOnce)',
                      o \notin crossed', op'[h] \in {"client", "restaurant"},
                      target'[h] = o, NEW i \in Intents, intent'[o] = i,
                      (i \in ChargedFor(o))'
               PROVE  made'[h] = i
    BY DEF AskKnows, ChargedOnce, ChargedFor, Own
  <1>1. o \notin crossed /\ HandlerChange(h)
    BY RecordsGrow, HandlerStep
  <1>2. intent[o] = i
    BY <1>1, NamedBefore DEF ChargedFor
  <1>3. CASE op[h] = op'[h] /\ target'[h] = target[h] /\ made'[h] = made[h]
    <2>1. Money(o)
      BY <1>1, <1>3 DEF CancelsPaid
    <2>2. i \in ChargedFor(o) /\ o \in ChargedOnce
      BY <2>1, ChargedBefore
    <2>3. QED
      BY <1>1, <1>2, <1>3, <2>2 DEF AskKnows
  <1>4. CASE Reads(h)
    BY <1>2, <1>4 DEF Reads
  <1>5. QED
    BY <1>1, <1>3, <1>4 DEF HandlerChange, ConfirmRead, Begin, Typed, HandlersTyped
LEMMA OwedStep ==
  ASSUME Typed, Secret, Solo, CancelsPaid, AskKnows, Owed, [Next]_vars
  PROVE  Owed'
  <1> SUFFICES ASSUME faults' = 0, NEW o \in Orders, (o \in ChargedOnce)',
                      o \notin crossed', o \notin unasked',
                      order'[o].status = "canceled",
                      NEW i \in Intents, intent'[o] = i, (i \in ChargedFor(o))'
               PROVE  \E h \in Handlers : pc'[h] = "ask" /\ made'[h] = i
    BY DEF Owed, ChargedOnce, ChargedFor, Own
  <1>1. faults = 0 /\ o \notin crossed /\ o \notin unasked
    BY RecordsGrow
  <1>2. intent[o] = i
    BY <1>1, NamedBefore DEF ChargedFor
  <1>3. CASE order[o].status = "canceled"
    <2>1. i \in ChargedFor(o) /\ o \in ChargedOnce
      BY <1>1, <1>3, ChargedBefore DEF CancelsPaid
    <2>2. PICK h \in Handlers : pc[h] = "ask" /\ made[h] = i
      BY <1>1, <1>2, <1>3, <2>1 DEF Owed
    <2>3. ~Ask(h)
      <3>1. stripe[i].state = "charged" /\ stripe'[i].state = "charged"
        BY <2>1 DEF ChargedFor
      <3>2. i # None
        BY PaymentsAssumption
      <3>3. ASSUME Move(i, "refunded") PROVE FALSE
        BY <3>1, <3>3 DEF Move, Typed, StripeTyped, Intent
      <3>4. QED
        BY <2>2, <3>1, <3>2, <3>3 DEF Ask
    <2>4. ~(HookPaid(h) \/ HookRefunded(h) \/ CancelWrite(h) \/ NotifyWrite(h)
            \/ PushWrite(h) \/ AcceptWrite(h) \/ RejectWrite(h))
      BY <2>2 DEF HookPaid, HookRefunded, CancelWrite, NotifyWrite, PushWrite,
                  AcceptWrite, RejectWrite
    <2>5. QED
      BY <2>2, <2>3, <2>4, OwnStep
  <1>4. CASE order[o].status # "canceled"
    <2>1. ASSUME NEW h \in Handlers, CancelWrite(h), target[h] = o
         PROVE  \E x \in Handlers : pc'[x] = "ask" /\ made'[x] = i
      <3>1. op[h] \in {"client", "restaurant"}
        BY <2>1 DEF CancelWrite
      <3>2. i \in ChargedFor(o) /\ o \in ChargedOnce
        BY <1>1, <2>1, <3>1, ChargedBefore DEF CancelsPaid
      <3>3. made[h] = i
        BY <1>1, <1>2, <2>1, <3>1, <3>2 DEF AskKnows
      <3>4. pc'[h] = "ask" /\ made'[h] = made[h]
        BY <2>1 DEF CancelWrite, Goto, Typed, HandlersTyped
      <3>5. QED
        BY <3>3, <3>4
    <2>2. ASSUME NEW h \in Handlers, NotifyWrite(h) \/ RejectWrite(h), target[h] = o
         PROVE  FALSE
      BY <2>2 DEF NotifyWrite, RejectWrite
    <2>3. ASSUME NEW h \in Handlers, PushFails(h) PROVE FALSE
      BY <2>3, PaymentsAssumption DEF PushFails, Fault, Typed, RowsTyped
    <2>4. ~Expire(o)
      BY DEF Expire
    <2>5. QED
      BY <1>4, <2>1, <2>2, <2>3, <2>4, StatusStep
  <1>5. QED
    BY <1>3, <1>4

\* The intent an order names was made for it, unless confirmations have crossed.
IntentOwn == \A o \in Orders \ crossed : intent[o] = None \/ intent[o] \in Own(o)

LEMMA IntentOwnStep ==
  ASSUME Typed, ConfirmsOwn, IntentsExist, IntentOwn, [Next]_vars
  PROVE  IntentOwn'
  <1> SUFFICES ASSUME NEW o \in Orders, o \notin crossed', intent'[o] # None
               PROVE  (intent[o] \in Own(o))'
    BY DEF IntentOwn
  <1>1. o \notin crossed
    BY RecordsGrow
  <1>2. CASE intent'[o] = intent[o]
    <2>1. PICK i \in Own(o) : intent[o] = i
      BY <1>1, <1>2 DEF IntentOwn
    <2>2. i \in Intents /\ stripe[i].state # "none"
      BY <2>1 DEF Own, IntentsExist
    <2>3. (i \in Own(o))'
      BY <2>2, OwnBefore
    <2>4. QED
      BY <1>2, <2>1, <2>3
  <1>3. ASSUME NEW h \in Handlers, RecordIntent(h) \/ Commit(h), mOrder.of = o,
               intent'[o] = made[h]
       PROVE  (intent[o] \in Own(o))'
    <2>1. made[h] \in Own(o) /\ stripe[made[h]].state # "none"
      BY <1>1, <1>3 DEF ConfirmsOwn, RecordIntent, Commit
    <2>2. PICK i \in Intents : i = made[h]
      BY <2>1 DEF Own
    <2>3. (i \in Own(o))'
      BY <2>1, <2>2, OwnBefore
    <2>4. QED
      BY <1>3, <2>2, <2>3
  <1>4. QED
    BY <1>2, <1>3, IntentStep

\* What the refund of a canceled order rests on.
Refundable ==
  /\ Known /\ ConfirmsOwn /\ ReadsPaid /\ ProcessingWasCharged
  /\ SplitAccepted /\ CancelsPaid /\ AskKnows /\ Owed /\ IntentOwn

LEMMA RefundableInit == Init => Refundable
  <1>1. Init => ConfirmsOwn /\ ReadsPaid /\ ProcessingWasCharged
    BY DEF Init, ConfirmsOwn, ReadsPaid, ProcessingWasCharged, NewRow
  <1>2. Init => SplitAccepted /\ CancelsPaid /\ AskKnows /\ Owed
    <2> SUFFICES ASSUME Init PROVE SplitAccepted /\ CancelsPaid /\ AskKnows /\ Owed
      OBVIOUS
    <2>1. /\ \A h \in Handlers : op[h] = "none"
          /\ \A o \in Orders : order[o].status = "created"
      BY DEF Init, NewRow
    <2>2. SplitAccepted /\ CancelsPaid
      BY <2>1, PaymentsAssumption DEF SplitAccepted, CancelsPaid
    <2>3. AskKnows
      BY <2>1 DEF AskKnows
    <2>4. Owed
      BY <2>1 DEF Owed, ChargedOnce
    <2>5. QED
      BY <2>2, <2>3, <2>4
  <1>3. Init => IntentOwn
    BY DEF Init, IntentOwn
  <1>4. QED
    BY <1>1, <1>2, <1>3, KnownInit DEF Refundable

LEMMA RefundableStep == Refundable /\ [Next]_vars => Refundable'
  <1> SUFFICES ASSUME Refundable, [Next]_vars PROVE Refundable'
    OBVIOUS
  <1>1. Known' /\ Typed /\ EventsTrue /\ MoneyFlagsAreTrue
    BY KnownStep DEF Refundable, Known
  <1>2. IntentsExist /\ Secret /\ Solo
    BY DEF Refundable, Known
  <1>3. ConfirmsOwn' /\ ReadsPaid' /\ ProcessingWasCharged'
    BY <1>1, ConfirmsOwnStep, ReadsPaidStep, ProcessingStep DEF Refundable
  <1>4. SplitAccepted' /\ CancelsPaid' /\ AskKnows' /\ Owed' /\ IntentOwn'
    BY <1>1, <1>2, SplitAcceptedStep, CancelsPaidStep, AskKnowsStep, OwedStep,
       IntentOwnStep
    DEF Refundable
  <1>5. QED
    BY <1>1, <1>3, <1>4 DEF Refundable

\* Nobody pays for an order that was canceled by its client or by a restaurant:
\* when everything has been handled and nothing has failed, the intent it names
\* is not charged.
THEOREM CanceledPaidBack == Spec => []CanceledIsPaidBack
  <1>1. Refundable => CanceledIsPaidBack
    <2> SUFFICES ASSUME Refundable, AtRest, faults = 0, NEW o \in Orders,
                        o \in ChargedOnce, o \notin crossed, o \notin unasked,
                        order[o].status = "canceled", intent[o] # None,
                        stripe[intent[o]].state = "charged"
                 PROVE  FALSE
      BY DEF CanceledIsPaidBack, ChargedOnce
    <2>1. intent[o] \in ChargedFor(o)
      BY DEF Refundable, IntentOwn, ChargedFor
    <2>2. PICK h \in Handlers : pc[h] = "ask"
      BY <2>1 DEF Refundable, Owed
    <2>3. op[h] # "none"
      BY <2>2 DEF Refundable, Known, Typed, HandlersTyped
    <2>4. QED
      BY <2>3 DEF AtRest
  <1>2. QED
    BY <1>1, RefundableInit, RefundableStep, PTL DEF Spec
=============================================================================
