--------------------------- MODULE OrderAgreement ---------------------------
(***************************************************************************)
(* What the confirmation of an order promises, without locks, tasks,       *)
(* handlers and nodes: the suppliers answer, an answer is never taken      *)
(* back, one refusal is enough to cancel and it takes all acceptances to   *)
(* confirm.  A supplier may give both answers: his acceptance may be under *)
(* way while somebody cancels for him, or he changes his mind.  Only a     *)
(* supplier who has accepted can cancel himself.                           *)
(* SupplierConfirmation implements it.                                     *)
(***************************************************************************)
CONSTANT Suppliers

VARIABLES
  accepted, declined,  \* the suppliers who have answered
  status, confirmed,   \* the order
  byClient             \* has the client canceled?

vars == <<accepted, declined, status, confirmed, byClient>>

Init ==
  /\ accepted = {} /\ declined = {}
  /\ status = "processing" /\ confirmed = FALSE
  /\ byClient = FALSE

Accept(s) ==
  /\ accepted' = accepted \cup {s}
  /\ UNCHANGED <<declined, status, confirmed, byClient>>

\* Somebody cancels for a silent supplier: the order is canceled later.
Decline(s) ==
  /\ declined' = declined \cup {s}
  /\ UNCHANGED <<accepted, status, confirmed, byClient>>

\* A supplier who has accepted cancels, and the order with him.
Withdraw(s) ==
  /\ s \in accepted
  /\ declined' = declined \cup {s}
  /\ status' = "canceled"
  /\ UNCHANGED <<accepted, confirmed, byClient>>

Cancel ==
  /\ declined # {} /\ status = "processing"
  /\ status' = "canceled"
  /\ UNCHANGED <<accepted, declined, confirmed, byClient>>

Confirm ==
  /\ accepted = Suppliers /\ ~confirmed
  /\ confirmed' = TRUE
  /\ UNCHANGED <<accepted, declined, status, byClient>>

ClientCancel ==
  /\ status' = "canceled" /\ byClient' = TRUE
  /\ UNCHANGED <<accepted, declined, confirmed>>

Next ==
  \/ \E s \in Suppliers : Accept(s) \/ Decline(s) \/ Withdraw(s)
  \/ Cancel \/ Confirm \/ ClientCancel

Spec == Init /\ [][Next]_vars

\* The verdict follows from the answers: a declined order is canceled and an
\* order all have accepted is confirmed.
FairSpec == Spec /\ WF_vars(Cancel) /\ WF_vars(Confirm)
=============================================================================
