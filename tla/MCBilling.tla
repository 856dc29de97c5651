----------------------------- MODULE MCBilling -----------------------------
(* Billing for TLC.  No symmetry: the run checks a liveness property.       *)
EXTENDS Billing

=============================================================================
