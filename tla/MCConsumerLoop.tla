--------------------------- MODULE MCConsumerLoop ---------------------------
(* An instance of ConsumerLoop for TLC.                                    *)
EXTENDS ConsumerLoop

MCRecords == 0 .. 2

=============================================================================
