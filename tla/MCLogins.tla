------------------------------ MODULE MCLogins ------------------------------
(* Logins for TLC.  No symmetry: the run checks a liveness property.        *)
EXTENDS Logins

=============================================================================
