--------------------------- MODULE MCOutboxRelay ---------------------------
(* Instances of OutboxRelay for TLC. *)
EXTENDS OutboxRelay

CONSTANTS w1, w2

MCEvents == 1 .. 2
MCBad == {2}
MCWorkers == {w1, w2}

=============================================================================
