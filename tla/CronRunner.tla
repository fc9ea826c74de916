----------------------------- MODULE CronRunner -----------------------------
(***************************************************************************)
(* The scheduler of a cron job (class BaseJob), one on each master node,   *)
(* for a job with an item {each: Each} that does not allow several tasks   *)
(* at the same time.  A timer looks at the clock about once a second and   *)
(* starts the task in every Each-th second.  The timer goes on while the   *)
(* task runs, and the end of the task writes to the item as well: it may   *)
(* mark as processed a slot that it did not run in.                        *)
(***************************************************************************)
EXTENDS Integers

CONSTANTS
  Timed,    \* the master nodes whose timers are modelled
  Seconds,  \* the length of a minute
  Each

ASSUME CronAssumption ==
  /\ Seconds \in Nat \ {0} /\ Each \in Nat \ {0, 1}
  /\ Seconds % Each = 0

VARIABLES
  clock,
  prev,       \* runAtItem._prevValue
  processed,  \* runAtItem._processed
  startedAt   \* the second in which the running task was started

itemVars == <<prev, processed, startedAt>>
cronVars == <<clock, itemVars>>

CronTypeOK ==
  /\ clock \in 0 .. Seconds - 1
  /\ prev \in [Timed -> -1 .. Seconds - 1]
  /\ processed \in [Timed -> BOOLEAN]
  /\ startedAt \in [Timed -> 0 .. Seconds - 1]

CronInit ==
  /\ clock = 0
  /\ prev = [n \in Timed |-> -1]
  /\ processed = [n \in Timed |-> TRUE]
  /\ startedAt = [n \in Timed |-> 0]

InSlot == clock % Each = 0

\* The timer finds that the task is to be started.
Due(n) == InSlot /\ prev[n] # clock /\ ~processed[n]

\* A second passes; a busy event loop may miss it.
ClockTick ==
  /\ clock' = (clock + 1) % Seconds
  /\ UNCHANGED itemVars

\* Variant: the item is not reset between two slots.
PollSticky(n) ==
  /\ ~Due(n)
  /\ prev' = [prev EXCEPT ![n] = clock]
  /\ UNCHANGED <<clock, processed, startedAt>>

\* Nothing to do; outside of the slots the item is reset.
Poll(n) ==
  /\ ~Due(n)
  /\ prev' = [prev EXCEPT ![n] = clock]
  /\ processed' = [processed EXCEPT ![n] = @ /\ InSlot]
  /\ UNCHANGED <<clock, startedAt>>

\* The task of an earlier slot is still running: this slot is dropped.
PollRefused(n, running) ==
  /\ Due(n) /\ running
  /\ prev' = [prev EXCEPT ![n] = clock]
  /\ processed' = [processed EXCEPT ![n] = TRUE]
  /\ UNCHANGED <<clock, startedAt>>

TaskStarts(n) ==
  /\ Due(n)
  /\ prev' = [prev EXCEPT ![n] = clock]
  /\ startedAt' = [startedAt EXCEPT ![n] = clock]
  /\ UNCHANGED <<clock, processed>>

\* The timer's callback that started the task goes on where it waited.
TaskEnds(n) ==
  /\ processed' = [processed EXCEPT ![n] = TRUE]
  /\ prev' = [prev EXCEPT ![n] = startedAt[n]]
  /\ startedAt' = [startedAt EXCEPT ![n] = 0]
  /\ UNCHANGED clock

\* The process is replaced by a new one.
CronRestart(n) ==
  /\ processed' = [processed EXCEPT ![n] = TRUE]
  /\ prev' = [prev EXCEPT ![n] = -1]
  /\ startedAt' = [startedAt EXCEPT ![n] = 0]
  /\ UNCHANGED clock
=============================================================================
