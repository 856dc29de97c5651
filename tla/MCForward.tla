------------------------------ MODULE MCForward ------------------------------
(* Forward for TLC: requests are interchangeable, and so are accounts.      *)
EXTENDS Forward, TLC

Symmetry == Permutations(Requests) \cup Permutations(Accounts)

=============================================================================
