----------------------- MODULE MCSupplierConfirmation -----------------------
(* Instances of SupplierConfirmation for TLC.                               *)
EXTENDS SupplierConfirmation, TLC

CONSTANTS t1, t2, n1, n2

\* One slot on each of two master nodes.
TwoNodes == (t1 :> n1) @@ (t2 :> n2)

SupplierSymmetry == Permutations(Suppliers)
=============================================================================
