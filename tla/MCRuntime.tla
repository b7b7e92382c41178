----------------------------- MODULE MCRuntime ------------------------------
(* An instance of Runtime for TLC: one event stream.                       *)
EXTENDS Runtime

MCRequests == {"stream"}

=============================================================================
