-------------------------------- MODULE Cents --------------------------------
(***************************************************************************)
(* Dollars become the cents that Stripe is asked for by                    *)
(* Math.floor(amount * 100).  Amounts are doubles with two decimals, and   *)
(* for some of them the product lies just below the whole number it stands *)
(* for: 8.20 * 100 is 819.9999999999999.  Stripe then sends a cent less    *)
(* than the books say.                                                     *)
(***************************************************************************)
EXTENDS Integers

CONSTANT Short   \* the amounts, in cents, for which the product lies below

\* 0.01 * 100 is 1.
ASSUME CentsAssumption == Short \subseteq Nat \ {0, 1}

InCents(a) == IF a \in Short THEN a - 1 ELSE a
=============================================================================
