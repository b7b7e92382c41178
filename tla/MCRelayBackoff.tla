--------------------------- MODULE MCRelayBackoff ---------------------------
(* RelayBackoff for TLC; the bound on attempts is in the configurations.   *)
EXTENDS RelayBackoff
=============================================================================
