----------------------------- MODULE MCKeyLimits -----------------------------
(* KeyLimits for TLC: requests are interchangeable, and so are gateways.      *)
EXTENDS KeyLimits, TLC

Symmetry == Permutations(Requests) \cup Permutations(Gateways)

=============================================================================
