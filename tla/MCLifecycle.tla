---------------------------- MODULE MCLifecycle ----------------------------
(***************************************************************************)
(* Instances of Lifecycle for TLC.                                         *)
(***************************************************************************)
EXTENDS Lifecycle, TLC

\* What sync_roles gives each role by default (accounts/permissions.py).
MCGranted ==
  [a \in Actors |->
     IF a \in Staff
     THEN Permission \ {"confirm_request", "return_request"}
     ELSE {"confirm_request", "return_request", "reject_request",
           "change_request_amount"}]

\* Operators, amounts and uneditable merchants are interchangeable: MCGranted
\* depends on the side alone, and amounts are only ever compared.
Interchangeable ==
  Permutations(Staff) \cup Permutations(Amounts)
    \cup Permutations(Merchants \ Editable)
=============================================================================
