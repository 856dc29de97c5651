----------------------------- MODULE MCAccounts -----------------------------
(* Accounts for TLC: everything is interchangeable within its kind.         *)
EXTENDS Accounts, TLC

Symmetry == Permutations(Identities) \cup Permutations(Ids)
              \cup Permutations(Admins) \cup Permutations(Callers)

=============================================================================
