----------------------------- MODULE MCAccounts -----------------------------
(***************************************************************************)
(* Instances of the accounts for TLC: an administrator, a member of staff  *)
(* and an account still to be created, and two merchant records.           *)
(***************************************************************************)
EXTENDS Accounts, TLC

CONSTANTS boss, aide, hire, m1, m2, s1

MCFounders == (boss :> "finance_admin") @@ (aide :> "finance_staff")

\* The permission form as it is used here: nothing, and the management of
\* accounts and a permission over client identity, granted or refused.
MCOverrides ==
  {[granted |-> {}, denied |-> {}],
   [granted |-> {"manage_internal_users", "view_client_identity"}, denied |-> {}],
   [granted |-> {}, denied |-> {"manage_internal_users", "view_client_identity"}]}

Interchangeable == Permutations({m1, m2})
=============================================================================
