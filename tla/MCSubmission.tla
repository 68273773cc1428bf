---------------------------- MODULE MCSubmission ----------------------------
(***************************************************************************)
(* Instances of Submission for TLC: every wallet hangs from one link.      *)
(***************************************************************************)
EXTENDS Submission, TLC

MCOwner == [w \in Wallets |-> CHOOSE m \in Merchants : TRUE]

\* A cap that one deposit of the larger total fills.
MCCapped == [w \in Wallets |-> 2]

MCUncapped == [w \in Wallets |-> None]

Interchangeable ==
  Permutations(Staff) \cup Permutations(Wallets) \cup Permutations(Numbers)
    \cup Permutations(Clients)
=============================================================================
