------------------------------- MODULE MCPool -------------------------------
(* Pool for TLC: accounts are interchangeable, and so are affinity keys.    *)
EXTENDS Pool

Symmetry == Permutations(Accounts) \cup Permutations(Keys)

=============================================================================
