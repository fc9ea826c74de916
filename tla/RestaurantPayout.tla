-------------------------- MODULE RestaurantPayout --------------------------
(***************************************************************************)
(* The balance of a restaurant.  The job order-supplier.apply-balance adds *)
(* the price of its part of a delivered order; the job                     *)
(* restaurants-auto-payout sends the whole balance to the restaurant's     *)
(* Stripe account.  Both run on every master node.  Each changes the       *)
(* balance by an SQL expression inside a transaction, so that the lock of  *)
(* the row orders them, but the payout asks Stripe for the transfer before *)
(* it commits: whatever fails after that is rolled back, the transfer      *)
(* excepted.  Once a day the statistics change a column of the row that    *)
(* its checksum covers.  Restaurants do not interact, so there is one.     *)
(*                                                                         *)
(* The uncommitted part of a transaction is the program counter of its     *)
(* task; balance, applied and booked are what others can read.             *)
(***************************************************************************)
EXTENDS CronRunner, Cents, FiniteSets

CONSTANTS
  Nodes,
  Parts,         \* rows of OrderSupplier of delivered orders; {} while the
                 \* job apply-balance is switched off, as it is now
  Price,         \* totalPrice of each
  StartBalance,
  MinAmount,     \* RestaurantWithdrawSettings
  MaxFaults,     \* bound: failures of Stripe, of the transaction and of nodes
  MaxDays,       \* bound: runs of the daily statistics
  NoPart, NoTask

ASSUME PayoutAssumption ==
  /\ Timed \subseteq Nodes
  /\ IsFiniteSet(Parts) /\ NoPart \notin Parts
  /\ Price \in Nat /\ StartBalance \in Nat /\ MaxFaults \in Nat
  /\ MaxDays \in Nat
  /\ MinAmount \in Nat \ {0}
  /\ NoTask \notin ({"pay", "apply"} \X Nodes)

VARIABLES
  \* table Restaurant, and the transaction that has locked the row
  balance, rowLock,
  totalOrders,
  checksum,          \* the totalOrders that entered the checksum
  applied,           \* OrderSupplier.isAppliedToBalance
  booked,            \* the sum of the committed RestaurantTransfers
  \* the payout task of each node, and its mRestaurant: balance, totalOrders
  pc, amount, seen,
  \* the apply-balance task of each node, its part and its mRestaurant
  applyPc, applying, applySeen,
  faults,
  \* history: what Stripe has transferred, and how much of it by payouts that
  \* were rolled back
  sent, stray

rowVars   == <<balance, totalOrders, checksum>>
tableVars == <<rowVars, rowLock, applied, booked>>
payVars   == <<pc, amount, seen>>
applyVars == <<applyPc, applying, applySeen>>
sentVars  == <<faults, sent, stray>>
vars == <<tableVars, payVars, applyVars, sentVars, cronVars>>

PayoutTypeOK ==
  /\ CronTypeOK
  /\ totalOrders \in 0 .. MaxDays /\ checksum \in 0 .. MaxDays
  /\ balance \in Nat /\ booked \in Nat /\ applied \subseteq Parts
  /\ rowLock \in ({"pay", "apply"} \X Nodes) \cup {NoTask}
  /\ pc \in [Nodes -> {"idle", "read", "begin", "debited", "sent", "end"}]
  /\ amount \in [Nodes -> Nat]
  /\ seen \in [Nodes -> 0 .. MaxDays] /\ applySeen \in [Nodes -> 0 .. MaxDays]
  /\ applyPc \in [Nodes -> {"idle", "found", "read", "credited"}]
  /\ applying \in [Nodes -> Parts \cup {NoPart}]
  /\ sent \in Nat /\ stray \in Nat /\ faults \in 0 .. MaxFaults

Init ==
  /\ CronInit
  /\ balance = StartBalance /\ rowLock = NoTask
  /\ totalOrders = 0 /\ checksum = 0
  /\ applied = {} /\ booked = 0
  /\ pc = [n \in Nodes |-> "idle"]
  /\ amount = [n \in Nodes |-> 0] /\ seen = [n \in Nodes |-> 0]
  /\ applyPc = [n \in Nodes |-> "idle"]
  /\ applying = [n \in Nodes |-> NoPart] /\ applySeen = [n \in Nodes |-> 0]
  /\ sent = 0 /\ stray = 0 /\ faults = 0

Idle(n) == pc[n] = "idle"

Goto(n, label) ==
  /\ pc' = [pc EXCEPT ![n] = label]
  /\ UNCHANGED <<amount, seen>>

\* The task forgets its mRestaurant.
Leave(n, label) ==
  /\ pc' = [pc EXCEPT ![n] = label]
  /\ amount' = [amount EXCEPT ![n] = 0]
  /\ seen' = [seen EXCEPT ![n] = 0]

\* What the restaurant has earned.
Earned == StartBalance + Price * Cardinality(applied)

\* isValidChecksum of the row; the balance never differs, see BalanceIsExplained.
Sealed == checksum = totalOrders

Fault == faults < MaxFaults /\ faults' = faults + 1

-----------------------------------------------------------------------------
(* The scheduler of the payout job.  The timers of nodes that are not      *)
(* Timed may fire at any moment.                                           *)

Tick == ClockTick /\ UNCHANGED <<tableVars, payVars, applyVars, sentVars>>

CronPoll(n) ==
  /\ Poll(n) \/ PollRefused(n, ~Idle(n))
  /\ UNCHANGED <<tableVars, payVars, applyVars, sentVars>>

\* The task looks for restaurants with enough balance.
Start(n) ==
  /\ Idle(n)
  /\ IF n \in Timed THEN TaskStarts(n) ELSE UNCHANGED cronVars
  /\ Goto(n, IF balance >= MinAmount THEN "read" ELSE "end")
  /\ UNCHANGED <<tableVars, applyVars, sentVars>>

End(n) ==
  /\ pc[n] = "end"
  /\ IF n \in Timed THEN TaskEnds(n) ELSE UNCHANGED cronVars
  /\ Goto(n, "idle")
  /\ UNCHANGED <<tableVars, applyVars, sentVars>>

-----------------------------------------------------------------------------
(* The payout task.                                                        *)

\* Read the restaurant again, whatever its balance is by now, and create the
\* row of the transfer; or the checksum of the restaurant is wrong, or one of
\* the requests to Stripe fails, or the platform does not have the money.
Prepare(n) ==
  /\ pc[n] = "read"
  /\ \/ /\ Sealed
        /\ amount' = [amount EXCEPT ![n] = balance]
        /\ seen' = [seen EXCEPT ![n] = totalOrders]
        /\ pc' = [pc EXCEPT ![n] = "begin"]
        /\ UNCHANGED faults
     \/ /\ Fault \/ (~Sealed /\ UNCHANGED faults)
        /\ Leave(n, "end")
  /\ UNCHANGED <<tableVars, applyVars, sent, stray, cronVars>>

\* Variant: without strict SQL mode a negative balance is cut off at zero.
DebitCutOff(n) ==
  /\ pc[n] = "begin" /\ rowLock = NoTask
  /\ rowLock' = <<"pay", n>> /\ Goto(n, "debited")
  /\ UNCHANGED <<rowVars, applied, booked, applyVars, sentVars, cronVars>>

\* "balance = balance - amount", which waits for the row and fails if the
\* unsigned column would get negative.
Debit(n) ==
  /\ pc[n] = "begin" /\ rowLock = NoTask
  /\ IF balance >= amount[n]
     THEN rowLock' = <<"pay", n>> /\ Goto(n, "debited")
     ELSE Leave(n, "end") /\ UNCHANGED rowLock
  /\ UNCHANGED <<rowVars, applied, booked, applyVars, sentVars, cronVars>>

\* The database gives up waiting for the row.
DebitTimeout(n) ==
  /\ pc[n] = "begin" /\ rowLock # NoTask
  /\ Leave(n, "end")
  /\ UNCHANGED <<tableVars, applyVars, sentVars, cronVars>>

\* Stripe transfers a positive amount, in cents: the balance may have been
\* debited for one more.
Transfer(n) ==
  /\ pc[n] = "debited" /\ amount[n] > 0
  /\ sent' = sent + InCents(amount[n])
  /\ Goto(n, "sent")
  /\ UNCHANGED <<tableVars, applyVars, faults, stray, cronVars>>

\* Stripe refuses; the catch clause rolls back.
TransferRefused(n) ==
  /\ pc[n] = "debited"
  /\ (amount[n] = 0 /\ UNCHANGED faults) \/ Fault
  /\ rowLock' = NoTask
  /\ Leave(n, "end")
  /\ UNCHANGED <<rowVars, applied, booked, applyVars, sent, stray, cronVars>>

\* The transfer is made and the transaction is rolled back: the payout to the
\* restaurant's bank fails, and the error is written outside of the
\* transaction to the row the transaction has locked; or Stripe's answer is
\* lost; or the row cannot be written.
RollBack(n) ==
  /\ pc[n] = "sent" /\ Fault
  /\ rowLock' = NoTask
  /\ stray' = stray + InCents(amount[n])
  /\ Leave(n, "end")
  /\ UNCHANGED <<rowVars, applied, booked, applyVars, sent, cronVars>>

\* Variant: the row is written from the instance in memory.
CommitAbsolute(n) ==
  /\ pc[n] = "sent"
  /\ balance' = 0 /\ checksum' = seen[n]
  /\ rowLock' = NoTask
  /\ booked' = booked + amount[n]
  /\ Leave(n, "end")
  /\ UNCHANGED <<totalOrders, applied, applyVars, sentVars, cronVars>>

\* The payout to the bank succeeds, or there is no bank account.
Commit(n) ==
  /\ pc[n] = "sent"
  /\ balance' = balance - amount[n] /\ checksum' = seen[n]
  /\ rowLock' = NoTask
  /\ booked' = booked + amount[n]
  /\ Leave(n, "end")
  /\ UNCHANGED <<totalOrders, applied, applyVars, sentVars, cronVars>>

-----------------------------------------------------------------------------
(* The apply-balance task.                                                 *)

\* Find a delivered order with an unapplied part, without a lock.
ApplyFind(n, p) ==
  /\ applyPc[n] = "idle" /\ p \notin applied
  /\ applyPc' = [applyPc EXCEPT ![n] = "found"]
  /\ applying' = [applying EXCEPT ![n] = p]
  /\ UNCHANGED <<applySeen, tableVars, payVars, sentVars, cronVars>>

PartLocked(p) == \E m \in Nodes : applying[m] = p /\ applyPc[m] \in {"read", "credited"}

\* Lock the part and read the restaurant, outside of the transaction.  The
\* task ends if the part is applied or locked by now, or the checksum is wrong.
ApplyLock(n) ==
  /\ applyPc[n] = "found"
  /\ IF applying[n] \in applied \/ PartLocked(applying[n]) \/ ~Sealed
     THEN /\ applyPc' = [applyPc EXCEPT ![n] = "idle"]
          /\ applying' = [applying EXCEPT ![n] = NoPart]
          /\ UNCHANGED applySeen
     ELSE /\ applyPc' = [applyPc EXCEPT ![n] = "read"]
          /\ applySeen' = [applySeen EXCEPT ![n] = totalOrders]
          /\ UNCHANGED applying
  /\ UNCHANGED <<tableVars, payVars, sentVars, cronVars>>

\* "balance = balance + totalPrice"
Credit(n) ==
  /\ applyPc[n] = "read" /\ rowLock = NoTask
  /\ rowLock' = <<"apply", n>>
  /\ applyPc' = [applyPc EXCEPT ![n] = "credited"]
  /\ UNCHANGED <<rowVars, applied, booked, applying, applySeen, payVars, sentVars, cronVars>>

ApplyRelease(n) ==
  /\ rowLock' = IF rowLock = <<"apply", n>> THEN NoTask ELSE rowLock
  /\ applyPc' = [applyPc EXCEPT ![n] = "idle"]
  /\ applying' = [applying EXCEPT ![n] = NoPart]
  /\ applySeen' = [applySeen EXCEPT ![n] = 0]

ApplyCommit(n) ==
  /\ applyPc[n] = "credited"
  /\ balance' = balance + Price /\ checksum' = applySeen[n]
  /\ applied' = applied \cup {applying[n]}
  /\ ApplyRelease(n)
  /\ UNCHANGED <<totalOrders, booked, payVars, sentVars, cronVars>>

ApplyFails(n) ==
  /\ applyPc[n] \in {"read", "credited"}
  /\ Fault
  /\ ApplyRelease(n)
  /\ UNCHANGED <<rowVars, applied, booked, payVars, sent, stray, cronVars>>

-----------------------------------------------------------------------------
\* The daily statistics add the orders of the day to the totals of the
\* restaurant, and do not compute the checksum again.
Statistics ==
  /\ rowLock = NoTask /\ totalOrders < MaxDays
  /\ totalOrders' = totalOrders + 1
  /\ UNCHANGED <<balance, checksum, rowLock, applied, booked, payVars, applyVars, sentVars,
                 cronVars>>

\* A node dies and is replaced; the database rolls its transactions back.
Crash(n) ==
  /\ ~Idle(n) \/ applyPc[n] # "idle"
  /\ Fault
  /\ stray' = IF pc[n] = "sent" THEN stray + InCents(amount[n])
              ELSE stray
  /\ rowLock' = IF rowLock \in ({"pay", "apply"} \X {n}) THEN NoTask ELSE rowLock
  /\ Leave(n, "idle")
  /\ applyPc' = [applyPc EXCEPT ![n] = "idle"]
  /\ applying' = [applying EXCEPT ![n] = NoPart]
  /\ applySeen' = [applySeen EXCEPT ![n] = 0]
  /\ IF n \in Timed THEN CronRestart(n) ELSE UNCHANGED cronVars
  /\ UNCHANGED <<rowVars, applied, booked, sent>>

PayoutStep(n) ==
  \/ Prepare(n) \/ Debit(n) \/ DebitTimeout(n) \/ Transfer(n)
  \/ TransferRefused(n) \/ RollBack(n) \/ Commit(n) \/ End(n)

ApplyStep(n) == ApplyLock(n) \/ Credit(n) \/ ApplyCommit(n) \/ ApplyFails(n)

Next ==
  \/ Tick \/ Statistics
  \/ \E n \in Timed : CronPoll(n)
  \/ \E n \in Nodes : \/ Start(n) \/ PayoutStep(n) \/ ApplyStep(n) \/ Crash(n)
                     \/ \E p \in Parts : ApplyFind(n, p)

Spec == Init /\ [][Next]_vars

\* The clock runs; the timer of a node fires again and again inside the slots
\* and outside of them; a task that has started comes to its end.  A task may
\* find the row locked again and again, but faults are few.
Fairness ==
  /\ WF_vars(Tick)
  /\ \A n \in Timed : SF_vars(~InSlot /\ CronPoll(n)) /\ SF_vars(Start(n))
  /\ \A n \in Nodes : WF_vars(PayoutStep(n)) /\ WF_vars(ApplyStep(n))

FairSpec == Spec /\ Fairness

-----------------------------------------------------------------------------
(* Properties.                                                             *)

\* The lock of the row keeps the jobs of all nodes apart: what the restaurant
\* earned and was not paid out is its balance, each part counted once.
BalanceIsExplained == balance + booked = Earned

\* However many nodes pay the same balance at the same time, no money is sent
\* twice, except by a payout that was rolled back after its transfer.
SentOnlyOnce == sent <= Earned + stray

\* Every balance worth a payout is paid in the end, although a slow task can
\* make the scheduler drop slots; unless the statistics have come first: they
\* break the checksum of the row, and no later payout will touch it.
PaidOut == balance >= MinAmount ~> balance < MinAmount \/ ~Sealed
=============================================================================
