------------------------- MODULE MCCourierDispatch -------------------------
(* Instances of CourierDispatch for TLC: where the task slots run, and the  *)
(* symmetries of the instances.                                             *)
EXTENDS CourierDispatch, TLC

CONSTANTS t1, t2, n1, n2

\* Both slots on one node, and one slot on each of two nodes.
OneNode  == (t1 :> n1) @@ (t2 :> n1)
TwoNodes == (t1 :> n1) @@ (t2 :> n2)

\* Orders and couriers are interchangeable, and so are slots of one node.
DataSymmetry == Permutations(Orders) \cup Permutations(Couriers)
FullSymmetry == DataSymmetry \cup Permutations(Tasks)
=============================================================================
