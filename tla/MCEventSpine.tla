---------------------------- MODULE MCEventSpine ----------------------------
(* Instances of EventSpine for TLC.                                        *)
EXTENDS EventSpine

CONSTANT w1

MCEvents == 1 .. 2
MCWorkers == {w1}

=============================================================================
