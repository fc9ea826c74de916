-------------------------- MODULE MCOrderPayments --------------------------
(* OrderPayments with the symmetry of its handlers and its intents.        *)
EXTENDS OrderPayments, TLC

Symmetry == Permutations(Handlers) \cup Permutations(Intents)
=============================================================================
