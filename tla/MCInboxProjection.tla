------------------------- MODULE MCInboxProjection -------------------------
(* Instances of InboxProjection for TLC.  The source's own messages of an  *)
(* item are a chain of quantities; the others clash with them: the same id *)
(* with other content, another id at a taken version, an impossible start. *)
EXTENDS InboxProjection, TLC

CONSTANTS p1, p2

Msg(id, item, ver, before, after) ==
    [id |-> id, item |-> item, ver |-> ver, before |-> before, after |-> after]

Source(n) == {Msg(v, "bread", v, 10 - v, 9 - v) : v \in 1 .. n}

Clashing ==
    {Msg(2, "rye", 1, 5, 4),        \* the id of version 2 with other content
     Msg(4, "bread", 2, 8, 6),      \* another id for version 2
     Msg(5, "bread", 3, 4, 1)}      \* another id for version 3, wrong start

MCAny == Source(3) \cup Clashing
MCForeign == {Msg(1, "bread", 1, 9, 8), Msg(2, "rye", 1, 5, 4)}
MCProcs == {p1, p2}
ProcSymmetry == Permutations(MCProcs)

=============================================================================
