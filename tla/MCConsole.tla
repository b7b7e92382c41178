----------------------------- MODULE MCConsole ------------------------------
(* Console for TLC: two logins, a reader who is also an operator.          *)
EXTENDS Console

MCAssignments == {"reader", "operator"}
=============================================================================
