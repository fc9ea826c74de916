----------------------------- MODULE CentsProofs -----------------------------
(* What the conversion to cents does to an amount.                         *)
EXTENDS Cents, TLAPS

\* Something is sent of every positive amount, at most the amount and at least
\* all but a cent of it.
LEMMA InCentsNear ==
  ASSUME NEW a \in Nat
  PROVE  /\ InCents(a) \in Nat /\ InCents(a) \in a - 1 .. a
         /\ a > 0 => InCents(a) > 0
  BY CentsAssumption DEF InCents
=============================================================================
