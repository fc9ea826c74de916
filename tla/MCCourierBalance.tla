-------------------------- MODULE MCCourierBalance --------------------------
(* CourierBalance as it is: one order, two withdrawals, two requests in    *)
(* flight at a time.                                                       *)
EXTENDS CourierBalance

\* The rest of one approval, a dollar and a half, comes out just below.
MCBelow == {<<9, 3>>}
=============================================================================
