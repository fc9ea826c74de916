----------------------- MODULE RestaurantPayoutProofs -----------------------
(***************************************************************************)
(* Theorems about RestaurantPayout for any number of nodes, parts and      *)
(* faults, any prices and any calendar of the scheduler.                   *)
(***************************************************************************)
EXTENDS RestaurantPayout, CentsProofs, FiniteSetTheorems, TLAPS

-----------------------------------------------------------------------------
(* Types.  The balance stays a natural number only because the debit of a  *)
(* payout is still covered when it commits.                                *)

\* A payout that has debited holds the lock of the row, and so does an
\* apply-balance task that has credited.
LockHeld ==
  \A n \in Nodes :
    /\ pc[n] \in {"debited", "sent"} <=> rowLock = <<"pay", n>>
    /\ applyPc[n] = "credited" <=> rowLock = <<"apply", n>>

Covered == \A n \in Nodes : pc[n] \in {"debited", "sent"} => amount[n] <= balance

\* A task has a part until it ends.
HasPart == \A n \in Nodes : applyPc[n] # "idle" => applying[n] \in Parts

Typed == PayoutTypeOK /\ LockHeld /\ Covered /\ HasPart

\* What the clock shows after a step.
LEMMA Remainder == \A a \in Nat, b \in Nat \ {0} : a % b \in 0 .. b - 1
  OBVIOUS

\* The scheduler keeps its types.
LEMMA CronTyped ==
  ASSUME CronTypeOK
  PROVE  /\ ClockTick => CronTypeOK'
         /\ UNCHANGED cronVars => CronTypeOK'
         /\ \A n \in Timed : 
              /\ Poll(n) \/ TaskStarts(n) \/ TaskEnds(n) \/ CronRestart(n) => CronTypeOK'
              /\ \A b \in BOOLEAN : PollRefused(n, b) => CronTypeOK'
  <1> USE CronAssumption DEF CronTypeOK
  <1>1. ASSUME ClockTick PROVE CronTypeOK'
    <2>1. clock + 1 \in Nat /\ Seconds \in Nat \ {0}
      OBVIOUS
    <2>2. (clock + 1) % Seconds \in 0 .. Seconds - 1
      BY ONLY <2>1, Remainder
    <2>3. QED
      BY <1>1, <2>2 DEF ClockTick, itemVars
  <1>2. ASSUME UNCHANGED cronVars PROVE CronTypeOK'
    BY <1>2 DEF cronVars, itemVars
  <1>3. ASSUME NEW n \in Timed, TaskStarts(n) \/ TaskEnds(n) \/ CronRestart(n)
       PROVE  CronTypeOK'
    <2>1. CASE TaskStarts(n)
      BY <2>1 DEF TaskStarts
    <2>2. CASE TaskEnds(n)
      BY <2>2 DEF TaskEnds
    <2>3. CASE CronRestart(n)
      BY <2>3 DEF CronRestart
    <2>4. QED
      BY <1>3, <2>1, <2>2, <2>3
  <1>4. ASSUME NEW n \in Timed, NEW b \in BOOLEAN, PollRefused(n, b)
       PROVE  CronTypeOK'
    BY <1>4 DEF PollRefused
  <1>5. ASSUME NEW n \in Timed, Poll(n)
       PROVE  CronTypeOK'
    <2>1. (processed[n] /\ InSlot) \in BOOLEAN
      OBVIOUS
    <2>2. QED
      BY <1>5, <2>1 DEF Poll
  <1>6. QED
    BY <1>1, <1>2, <1>3, <1>4, <1>5

\* Every step keeps the types of the scheduler.
LEMMA CronStep == CronTypeOK /\ [Next]_vars => CronTypeOK'
  <1> SUFFICES ASSUME CronTypeOK, [Next]_vars PROVE CronTypeOK'
    OBVIOUS
  <1>1. ASSUME Tick
       PROVE  CronTypeOK'
    BY <1>1, CronTyped DEF Tick
  <1>2. ASSUME NEW n \in Timed, CronPoll(n)
       PROVE  CronTypeOK'
    BY <1>2, CronTyped DEF CronPoll
  <1>3. ASSUME NEW n \in Nodes, Start(n) \/ End(n) \/ Crash(n)
       PROVE  CronTypeOK'
    BY <1>3, CronTyped DEF Start, End, Crash
  <1>4. ASSUME Statistics
       PROVE  CronTypeOK'
    BY <1>4, CronTyped DEF Statistics
  <1>5. ASSUME NEW n \in Nodes,
               \/ Prepare(n) \/ Debit(n) \/ DebitTimeout(n) \/ Transfer(n)
               \/ TransferRefused(n) \/ RollBack(n) \/ Commit(n)
       PROVE  CronTypeOK'
    BY <1>5, CronTyped
    DEF Prepare, Debit, DebitTimeout, Transfer, TransferRefused, RollBack, Commit
  <1>6. ASSUME NEW n \in Nodes, ApplyStep(n) \/ \E p \in Parts : ApplyFind(n, p)
       PROVE  CronTypeOK'
    BY <1>6, CronTyped
    DEF ApplyStep, ApplyLock, Credit, ApplyCommit, ApplyFails, ApplyFind
  <1>7. CASE UNCHANGED vars
    BY <1>7, CronTyped DEF vars
  <1>8. QED
    BY <1>1, <1>2, <1>3, <1>4, <1>5, <1>6, <1>7 DEF Next, PayoutStep

\* Every step keeps the types, the lock and the cover of the debits.
LEMMA TypedStep == Typed /\ [Next]_vars => Typed'
  <1> SUFFICES ASSUME Typed, [Next]_vars PROVE Typed'
    OBVIOUS
  <1> USE PayoutAssumption
  <1>a. CronTypeOK'
    BY CronStep DEF Typed, PayoutTypeOK
  <1>b. \A n \in Nodes : InCents(amount[n]) \in Nat
    BY InCentsNear DEF Typed, PayoutTypeOK
  <1>1. ASSUME Tick
       PROVE  Typed'
    BY <1>1, <1>a DEF Tick, Typed, PayoutTypeOK, LockHeld, Covered, HasPart, tableVars,
                      payVars, applyVars, sentVars, rowVars
  <1>2. ASSUME Statistics
       PROVE  Typed'
    BY <1>2, <1>a DEF Statistics, Typed, PayoutTypeOK, LockHeld, Covered, HasPart,
                      payVars, applyVars, sentVars
  <1>3. ASSUME NEW n \in Timed, CronPoll(n)
       PROVE  Typed'
    BY <1>3, <1>a DEF CronPoll, Typed, PayoutTypeOK, LockHeld, Covered, HasPart, Idle,
                      tableVars, payVars, applyVars, sentVars, rowVars
  <1>4. ASSUME NEW n \in Nodes, Start(n)
       PROVE  Typed'
    BY <1>4, <1>a DEF Start, Typed, PayoutTypeOK, LockHeld, Covered, HasPart, Goto, Idle,
                      tableVars, applyVars, sentVars, rowVars
  <1>5. ASSUME NEW n \in Nodes, End(n)
       PROVE  Typed'
    BY <1>5, <1>a DEF End, Typed, PayoutTypeOK, LockHeld, Covered, HasPart, Goto,
                      tableVars, applyVars, sentVars, rowVars
  <1>6. ASSUME NEW n \in Nodes, Prepare(n)
       PROVE  Typed'
    BY <1>6, <1>a DEF Prepare, Typed, PayoutTypeOK, LockHeld, Covered, HasPart, Leave,
                      Fault, Sealed, tableVars, applyVars, rowVars
  <1>7. ASSUME NEW n \in Nodes, Debit(n)
       PROVE  Typed'
    BY <1>7, <1>a DEF Debit, Typed, PayoutTypeOK, LockHeld, Covered, HasPart, Goto, Leave,
                      rowVars, applyVars, sentVars
  <1>8. ASSUME NEW n \in Nodes, DebitTimeout(n)
       PROVE  Typed'
    BY <1>8, <1>a DEF DebitTimeout, Typed, PayoutTypeOK, LockHeld, Covered, HasPart,
                      Leave, tableVars, applyVars, sentVars, rowVars
  <1>9. ASSUME NEW n \in Nodes, Transfer(n)
       PROVE  Typed'
    BY <1>9, <1>a, <1>b DEF Transfer, Typed, PayoutTypeOK, LockHeld, Covered, HasPart, Goto,
                      tableVars, applyVars, rowVars
  <1>10. ASSUME NEW n \in Nodes, TransferRefused(n)
       PROVE  Typed'
    BY <1>10, <1>a DEF TransferRefused, Typed, PayoutTypeOK, LockHeld, Covered, HasPart,
                       Leave, Fault, rowVars, applyVars
  <1>11. ASSUME NEW n \in Nodes, RollBack(n)
       PROVE  Typed'
    BY <1>11, <1>a, <1>b DEF RollBack, Typed, PayoutTypeOK, LockHeld, Covered, HasPart, Leave,
                       Fault, rowVars, applyVars
  <1>12. ASSUME NEW n \in Nodes, Commit(n)
       PROVE  Typed'
    BY <1>12, <1>a DEF Commit, Typed, PayoutTypeOK, LockHeld, Covered, HasPart, Leave,
                       applyVars, sentVars
  <1>13. ASSUME NEW n \in Nodes, ApplyLock(n)
       PROVE  Typed'
    BY <1>13, <1>a DEF ApplyLock, Typed, PayoutTypeOK, LockHeld, Covered, HasPart,
                       PartLocked, Sealed, tableVars, payVars, sentVars, rowVars
  <1>14. ASSUME NEW n \in Nodes, Credit(n)
       PROVE  Typed'
    BY <1>14, <1>a DEF Credit, Typed, PayoutTypeOK, LockHeld, Covered, HasPart, rowVars,
                       payVars, sentVars
  <1>15. ASSUME NEW n \in Nodes, ApplyCommit(n)
       PROVE  Typed'
    BY <1>15, <1>a DEF ApplyCommit, Typed, PayoutTypeOK, LockHeld, Covered, HasPart,
                       ApplyRelease, payVars, sentVars
  <1>16. ASSUME NEW n \in Nodes, ApplyFails(n)
       PROVE  Typed'
    BY <1>16, <1>a DEF ApplyFails, Typed, PayoutTypeOK, LockHeld, Covered, HasPart, Fault,
                       ApplyRelease, rowVars, payVars
  <1>17. ASSUME NEW n \in Nodes, Crash(n)
       PROVE  Typed'
    <2> USE DEF Leave, Fault
    <2>1. rowLock' = IF rowLock = <<"pay", n>> \/ rowLock = <<"apply", n>> THEN NoTask ELSE rowLock
      BY <1>17 DEF Crash
    <2>2. PayoutTypeOK'
      BY <1>17, <1>a, <1>b, <2>1 DEF Crash, rowVars, Typed, PayoutTypeOK
    <2>3. LockHeld'
      <3> SUFFICES ASSUME NEW m \in Nodes
                   PROVE  /\ pc'[m] \in {"debited", "sent"} <=> rowLock' = <<"pay", m>>
                          /\ applyPc'[m] = "credited" <=> rowLock' = <<"apply", m>>
        BY DEF LockHeld
      <3>1. NoTask # <<"pay", m>> /\ NoTask # <<"apply", m>>
        OBVIOUS
      <3>2. /\ pc[m] \in {"debited", "sent"} <=> rowLock = <<"pay", m>>
            /\ applyPc[m] = "credited" <=> rowLock = <<"apply", m>>
        BY DEF Typed, LockHeld
      <3>3. CASE m = n
        BY <1>17, <2>1, <3>1, <3>3 DEF Crash, Typed, PayoutTypeOK
      <3>4. CASE m # n
        <4>1. pc'[m] = pc[m] /\ applyPc'[m] = applyPc[m]
          BY <1>17, <3>4 DEF Crash, Typed, PayoutTypeOK
        <4>2. /\ <<"pay", m>> # <<"pay", n>> /\ <<"pay", m>> # <<"apply", n>>
              /\ <<"apply", m>> # <<"pay", n>> /\ <<"apply", m>> # <<"apply", n>>
          BY <3>4
        <4>3. /\ rowLock' = <<"pay", m>> <=> rowLock = <<"pay", m>>
              /\ rowLock' = <<"apply", m>> <=> rowLock = <<"apply", m>>
          BY <2>1, <3>1, <4>2
        <4>4. QED
          BY <3>2, <4>1, <4>3
      <3>5. QED
        BY <3>3, <3>4
    <2>4. Covered' /\ HasPart'
      BY <1>17 DEF Crash, rowVars, Typed, PayoutTypeOK, Covered, HasPart
    <2>5. QED
      BY <2>2, <2>3, <2>4 DEF Typed
  <1>18. ASSUME NEW n \in Nodes, NEW p \in Parts, ApplyFind(n, p)
       PROVE  Typed'
    BY <1>18, <1>a DEF ApplyFind, Typed, PayoutTypeOK, LockHeld, Covered, HasPart,
                       tableVars, payVars, sentVars, rowVars
  <1>19. CASE UNCHANGED vars
    BY <1>19, <1>a DEF vars, Typed, PayoutTypeOK, LockHeld, Covered, HasPart, rowVars,
                       tableVars, payVars, applyVars, sentVars
  <1>20. QED
    BY <1>1, <1>2, <1>3, <1>4, <1>5, <1>6, <1>7, <1>8, <1>9, <1>10, <1>11, <1>12, <1>13,
       <1>14, <1>15, <1>16, <1>17, <1>18, <1>19
    DEF Next, PayoutStep, ApplyStep

\* The typing facts the other proofs start from.
LEMMA TypedAlways == Spec => []Typed
  <1>1. Init => Typed
    BY PayoutAssumption, CronAssumption
    DEF Init, CronInit, Typed, PayoutTypeOK, CronTypeOK, LockHeld, Covered, HasPart
  <1>2. QED
    BY <1>1, TypedStep, PTL DEF Spec

\* Type correctness: in no interleaving of the two jobs on any number of
\* nodes does a debit take the balance below zero.
THEOREM PayoutTypeCorrect == Spec => []PayoutTypeOK
  <1>1. Typed => PayoutTypeOK
    BY DEF Typed
  <1>2. QED
    BY <1>1, TypedAlways, PTL

-----------------------------------------------------------------------------
(* The balance.  The tasks that are about to apply a part have locked it,  *)
(* so that no two of them hold the same one and none has been applied.     *)

PartsHeld ==
  \A n \in Nodes : applyPc[n] \in {"read", "credited"} =>
    /\ applying[n] \in Parts \ applied
    /\ \A m \in Nodes : applyPc[m] \in {"read", "credited"} /\ applying[m] = applying[n] => m = n

partVars == <<applied, applyPc, applying>>

\* Only the apply-balance tasks touch the parts.
LEMMA PartFrame ==
  [Next]_vars =>
    \/ UNCHANGED partVars
    \/ \E n \in Nodes, p \in Parts : ApplyFind(n, p)
    \/ \E n \in Nodes : \/ ApplyLock(n) \/ Credit(n) \/ ApplyCommit(n)
                        \/ ApplyFails(n) \/ Crash(n)
  <1> HAVE [Next]_vars
  <1>1. ASSUME Tick \/ Statistics
       PROVE  UNCHANGED partVars
    BY <1>1 DEF Tick, Statistics, partVars, tableVars, payVars, applyVars, sentVars,
                rowVars
  <1>2. ASSUME NEW n \in Timed, CronPoll(n)
       PROVE  UNCHANGED partVars
    BY <1>2 DEF CronPoll, partVars, Idle, tableVars, payVars, applyVars, sentVars, rowVars
  <1>3. ASSUME NEW n \in Nodes,
               \/ Start(n) \/ End(n) \/ Prepare(n) \/ Debit(n) \/ DebitTimeout(n)
               \/ Transfer(n) \/ TransferRefused(n) \/ RollBack(n) \/ Commit(n)
       PROVE  UNCHANGED partVars
    BY <1>3 DEF Start, End, Prepare, Debit, DebitTimeout, Transfer, TransferRefused,
                RollBack, Commit, partVars, Goto, Idle, tableVars, applyVars, sentVars,
                rowVars, Leave, Fault, Sealed
  <1>4. CASE UNCHANGED vars
    BY <1>4 DEF vars, partVars, rowVars, tableVars, payVars, applyVars, sentVars
  <1>5. QED
    BY <1>1, <1>2, <1>3, <1>4
    DEF Next, PayoutStep, ApplyStep

\* Every step keeps PartsHeld.
LEMMA ApplyStepKeeps == Typed /\ PartsHeld /\ [Next]_vars => PartsHeld'
  <1> SUFFICES ASSUME Typed, PartsHeld, [Next]_vars PROVE PartsHeld'
    OBVIOUS
  <1>1. CASE UNCHANGED partVars
    BY <1>1 DEF partVars, PartsHeld
  <1>2. ASSUME NEW n \in Nodes, NEW p \in Parts, ApplyFind(n, p)
       PROVE  PartsHeld'
    BY <1>2 DEF ApplyFind, PartsHeld, Typed, PayoutTypeOK, HasPart, tableVars, payVars,
                sentVars, rowVars
  <1>3. ASSUME NEW n \in Nodes, ApplyLock(n)
       PROVE  PartsHeld'
    BY <1>3 DEF ApplyLock, PartsHeld, Typed, PayoutTypeOK, HasPart, PartLocked, Sealed,
                tableVars, payVars, sentVars, rowVars
  <1>4. ASSUME NEW n \in Nodes, Credit(n)
       PROVE  PartsHeld'
    BY <1>4 DEF Credit, PartsHeld, Typed, PayoutTypeOK, HasPart, rowVars, payVars,
                sentVars
  <1>5. ASSUME NEW n \in Nodes, ApplyCommit(n)
       PROVE  PartsHeld'
    BY <1>5 DEF ApplyCommit, PartsHeld, Typed, PayoutTypeOK, HasPart, ApplyRelease,
                payVars, sentVars
  <1>6. ASSUME NEW n \in Nodes, ApplyFails(n)
       PROVE  PartsHeld'
    BY <1>6 DEF ApplyFails, PartsHeld, Typed, PayoutTypeOK, HasPart, Fault, ApplyRelease,
                rowVars, payVars
  <1>7. ASSUME NEW n \in Nodes, Crash(n)
       PROVE  PartsHeld'
    BY <1>7 DEF Crash, PartsHeld, Typed, PayoutTypeOK, HasPart, Leave, Fault, Idle,
                rowVars
  <1>8. QED
    BY <1>1, <1>2, <1>3, <1>4, <1>5, <1>6, <1>7, PartFrame

\* One more part is applied.
LEMMA EarnedGrows ==
  ASSUME applied \subseteq Parts, NEW p \in Parts \ applied,
         applied' = applied \cup {p}
  PROVE  Earned' = Earned + Price
  <1>1. IsFiniteSet(applied)
    BY PayoutAssumption, FS_Subset
  <1>2. /\ Cardinality(applied) \in Nat
        /\ Cardinality(applied') = Cardinality(applied) + 1
    BY <1>1, FS_AddElement, FS_CardinalityType
  <1>3. Price * (Cardinality(applied) + 1) = Price * Cardinality(applied) + Price
    BY <1>2, PayoutAssumption
  <1>4. Price * Cardinality(applied) \in Nat
    BY <1>2, PayoutAssumption
  <1>5. QED
    BY <1>2, <1>3, <1>4, PayoutAssumption DEF Earned

bookVars == <<balance, applied, booked>>

\* Only committed transactions change the tables.
LEMMA BookFrame ==
  [Next]_vars =>
    \/ UNCHANGED bookVars
    \/ \E n \in Nodes : Commit(n) \/ ApplyCommit(n)
  <1> HAVE [Next]_vars
  <1>1. ASSUME Tick \/ Statistics
       PROVE  UNCHANGED bookVars
    BY <1>1 DEF Tick, Statistics, bookVars, tableVars, payVars, applyVars, sentVars,
                rowVars
  <1>2. ASSUME NEW n \in Timed, CronPoll(n)
       PROVE  UNCHANGED bookVars
    BY <1>2 DEF CronPoll, bookVars, Idle, tableVars, payVars, applyVars, sentVars, rowVars
  <1>3. ASSUME NEW n \in Nodes,
               \/ Start(n) \/ End(n) \/ Prepare(n) \/ Debit(n) \/ DebitTimeout(n) \/ Transfer(n)
               \/ TransferRefused(n) \/ RollBack(n) \/ ApplyLock(n) \/ Credit(n) \/ ApplyFails(n) \/ Crash(n)
       PROVE  UNCHANGED bookVars
    BY <1>3 DEF Start, End, Prepare, Debit, DebitTimeout, Transfer, TransferRefused,
                RollBack, ApplyLock, Credit, ApplyFails, Crash, bookVars, Goto, Idle,
                tableVars, applyVars, sentVars, rowVars, Leave, Fault, Sealed, PartLocked,
                payVars, ApplyRelease
  <1>4. ASSUME NEW n \in Nodes, NEW p \in Parts, ApplyFind(n, p)
       PROVE  UNCHANGED bookVars
    BY <1>4 DEF ApplyFind, bookVars, tableVars, payVars, sentVars, rowVars
  <1>5. CASE UNCHANGED vars
    BY <1>5 DEF vars, bookVars, rowVars, tableVars, payVars, applyVars, sentVars
  <1>6. QED
    BY <1>1, <1>2, <1>3, <1>4, <1>5
    DEF Next, PayoutStep, ApplyStep

\* Every step keeps the books balanced.
LEMMA BooksStep ==
  Typed /\ PartsHeld /\ BalanceIsExplained /\ [Next]_vars => BalanceIsExplained'
  <1> SUFFICES ASSUME Typed, PartsHeld, BalanceIsExplained, [Next]_vars
               PROVE  BalanceIsExplained'
    OBVIOUS
  <1>1. CASE UNCHANGED bookVars
    BY <1>1 DEF bookVars, BalanceIsExplained, Earned
  <1>2. ASSUME NEW n \in Nodes, Commit(n)
       PROVE  BalanceIsExplained'
    <2>1. Earned' = Earned
      BY <1>2 DEF Commit, Earned
    <2>2. QED
      BY <1>2, <2>1 DEF Commit, BalanceIsExplained, Typed, PayoutTypeOK
  <1>3. ASSUME NEW n \in Nodes, ApplyCommit(n)
       PROVE  BalanceIsExplained'
    <2>1. applying[n] \in Parts \ applied
      BY <1>3 DEF ApplyCommit, PartsHeld
    <2>2. Earned' = Earned + Price
      BY <1>3, <2>1, EarnedGrows DEF ApplyCommit, Typed, PayoutTypeOK
    <2>3. QED
      BY <1>3, <2>2, PayoutAssumption
      DEF ApplyCommit, BalanceIsExplained, Typed, PayoutTypeOK
  <1>4. QED
    BY <1>1, <1>2, <1>3, BookFrame

\* Whatever the nodes do at the same time, and wherever they crash, the
\* balance is what was earned and is not booked as paid.
LEMMA BooksAlways == Spec => [](PartsHeld /\ BalanceIsExplained)
  <1>1. Init => PartsHeld /\ BalanceIsExplained
    <2>1. ASSUME Init PROVE BalanceIsExplained
      <3>1. Cardinality(applied) = 0
        BY <2>1, FS_EmptySet DEF Init
      <3>2. Price * Cardinality(applied) = 0
        BY <3>1, PayoutAssumption
      <3>3. QED
        BY <2>1, <3>2, PayoutAssumption DEF Init, BalanceIsExplained, Earned
    <2>2. Init => PartsHeld
      BY DEF Init, PartsHeld
    <2>3. QED
      BY <2>1, <2>2
  <1>2. QED
    BY <1>1, TypedAlways, ApplyStepKeeps, BooksStep, PTL DEF Spec

\* The balance of the restaurant is always what it earned less what is booked
\* as paid, each part of an order counted once.
THEOREM BooksBalance == Spec => []BalanceIsExplained
  BY BooksAlways, PTL

-----------------------------------------------------------------------------
(* The transfers.  What Stripe has sent is booked, stray, or belongs to    *)
(* the one payout that holds the lock of the row.                          *)

SentExplained ==
  /\ \A n \in Nodes : pc[n] = "sent" => sent <= booked + stray + InCents(amount[n])
  /\ (\A n \in Nodes : pc[n] # "sent") => sent <= booked + stray

sentFrameVars == <<booked, sent, stray, pc, amount>>

\* Only payouts touch the transfers.
LEMMA SentFrame ==
  [Next]_vars =>
    \/ UNCHANGED sentFrameVars
    \/ \E n \in Nodes : \/ Start(n) \/ End(n) \/ Prepare(n) \/ Debit(n) \/ DebitTimeout(n)
                        \/ Transfer(n) \/ TransferRefused(n) \/ RollBack(n) \/ Commit(n) \/ Crash(n)
  <1> HAVE [Next]_vars
  <1>1. ASSUME Tick \/ Statistics
       PROVE  UNCHANGED sentFrameVars
    BY <1>1 DEF Tick, Statistics, sentFrameVars, tableVars, payVars, applyVars, sentVars,
                rowVars
  <1>2. ASSUME NEW n \in Timed, CronPoll(n)
       PROVE  UNCHANGED sentFrameVars
    BY <1>2 DEF CronPoll, sentFrameVars, Idle, tableVars, payVars, applyVars, sentVars,
                rowVars
  <1>3. ASSUME NEW n \in Nodes,
               \/ ApplyLock(n) \/ Credit(n)
               \/ ApplyCommit(n) \/ ApplyFails(n)
       PROVE  UNCHANGED sentFrameVars
    BY <1>3 DEF ApplyLock, Credit, ApplyCommit, ApplyFails, sentFrameVars, PartLocked,
                Sealed, tableVars, payVars, sentVars, rowVars, ApplyRelease, Fault
  <1>4. ASSUME NEW n \in Nodes, NEW p \in Parts, ApplyFind(n, p)
       PROVE  UNCHANGED sentFrameVars
    BY <1>4 DEF ApplyFind, sentFrameVars, tableVars, payVars, sentVars, rowVars
  <1>5. CASE UNCHANGED vars
    BY <1>5 DEF vars, sentFrameVars, rowVars, tableVars, payVars, applyVars, sentVars
  <1>6. QED
    BY <1>1, <1>2, <1>3, <1>4, <1>5
    DEF Next, PayoutStep, ApplyStep

\* Every step keeps the transfers explained.
LEMMA SentStep == Typed /\ SentExplained /\ [Next]_vars => SentExplained'
  <1> SUFFICES ASSUME Typed, SentExplained, [Next]_vars PROVE SentExplained'
    OBVIOUS
  <1> USE PayoutAssumption
  <1>a. \A n \in Nodes : amount[n] \in Nat /\ InCents(amount[n]) \in Nat
                           /\ InCents(amount[n]) <= amount[n]
    BY InCentsNear DEF Typed, PayoutTypeOK
  <1>1. CASE UNCHANGED sentFrameVars
    BY <1>1 DEF sentFrameVars, SentExplained
  <1>2. ASSUME NEW n \in Nodes, Start(n)
       PROVE  SentExplained'
    BY <1>2 DEF Start, SentExplained, Typed, PayoutTypeOK, LockHeld, Goto, Idle,
                tableVars, applyVars, sentVars, rowVars
  <1>3. ASSUME NEW n \in Nodes, End(n)
       PROVE  SentExplained'
    BY <1>3 DEF End, SentExplained, Typed, PayoutTypeOK, LockHeld, Goto, tableVars,
                applyVars, sentVars, rowVars
  <1>4. ASSUME NEW n \in Nodes, Prepare(n)
       PROVE  SentExplained'
    BY <1>4 DEF Prepare, SentExplained, Typed, PayoutTypeOK, LockHeld, Leave, Fault,
                Sealed, tableVars, applyVars, rowVars
  <1>5. ASSUME NEW n \in Nodes, Debit(n)
       PROVE  SentExplained'
    BY <1>5 DEF Debit, SentExplained, Typed, PayoutTypeOK, LockHeld, Goto, Leave, rowVars,
                applyVars, sentVars
  <1>6. ASSUME NEW n \in Nodes, DebitTimeout(n)
       PROVE  SentExplained'
    BY <1>6 DEF DebitTimeout, SentExplained, Typed, PayoutTypeOK, LockHeld, Leave,
                tableVars, applyVars, sentVars, rowVars
  <1>7. ASSUME NEW n \in Nodes, Transfer(n)
       PROVE  SentExplained'
    BY <1>7, <1>a DEF Transfer, SentExplained, Typed, PayoutTypeOK, LockHeld, Goto, tableVars,
                applyVars, rowVars
  <1>8. ASSUME NEW n \in Nodes, TransferRefused(n)
       PROVE  SentExplained'
    BY <1>8 DEF TransferRefused, SentExplained, Typed, PayoutTypeOK, LockHeld, Leave,
                Fault, rowVars, applyVars
  <1>9. ASSUME NEW n \in Nodes, RollBack(n)
       PROVE  SentExplained'
    BY <1>9, <1>a DEF RollBack, SentExplained, Typed, PayoutTypeOK, LockHeld, Leave, Fault,
                rowVars, applyVars
  <1>10. ASSUME NEW n \in Nodes, Commit(n)
       PROVE  SentExplained'
    BY <1>10, <1>a DEF Commit, SentExplained, Typed, PayoutTypeOK, LockHeld, Leave, applyVars,
                 sentVars
  <1>11. ASSUME NEW n \in Nodes, Crash(n)
       PROVE  SentExplained'
    BY <1>11, <1>a DEF Crash, SentExplained, Typed, PayoutTypeOK, LockHeld, Leave, Fault, Idle,
                 rowVars
  <1>12. QED
    BY <1>1, <1>2, <1>3, <1>4, <1>5, <1>6, <1>7, <1>8, <1>9, <1>10, <1>11, SentFrame

\* However many nodes pay the same balance, Stripe is never asked to send more
\* than was earned and what was rolled back after its transfer.
THEOREM NothingSentTwice == Spec => []SentOnlyOnce
  <1>1. Init => SentExplained
    BY DEF Init, SentExplained
  <1>2. Typed /\ BalanceIsExplained /\ SentExplained => SentOnlyOnce
    <2> SUFFICES ASSUME Typed, BalanceIsExplained, SentExplained PROVE SentOnlyOnce
      OBVIOUS
    <2>1. Earned = balance + booked
      BY DEF BalanceIsExplained
    <2>2. CASE \E n \in Nodes : pc[n] = "sent"
      BY <2>1, <2>2, InCentsNear DEF SentExplained, SentOnlyOnce, Typed, PayoutTypeOK, Covered
    <2>3. CASE \A n \in Nodes : pc[n] # "sent"
      BY <2>1, <2>3 DEF SentExplained, SentOnlyOnce, Typed, PayoutTypeOK
    <2>4. QED
      BY <2>2, <2>3
  <1>3. QED
    BY <1>1, <1>2, TypedAlways, BooksAlways, SentStep, PTL DEF Spec
=============================================================================
