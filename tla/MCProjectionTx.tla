--------------------------- MODULE MCProjectionTx ---------------------------
(* Instances of ProjectionTx for TLC: one item whose stock goes down by one *)
(* with each event.                                                        *)
EXTENDS ProjectionForecast

CONSTANTS consumer, operator, nobody, none

Decrement(n) ==
    [id |-> n, item |-> "flour", ver |-> n, before |-> 10 - n, after |-> 9 - n]

MCMsgs == {Decrement(n) : n \in 1 .. 3}
MCHistory == <<Decrement(1), Decrement(2), Decrement(3)>>

=============================================================================
