------------------------------ MODULE MCGateway ------------------------------
(* Gateway for TLC: one request over three accounts.  The fingerprint has    *)
(* three bytes and five are the limit, so the cut meets each kind of text.   *)
EXTENDS Gateway

=============================================================================
