------------------------- MODULE ProjectionContract -------------------------
(***************************************************************************)
(* What the inventory projection promises, without inbox, deliveries,      *)
(* processors or gaps (docs/design/specifications/event-spine.md): an item *)
(* moves one version at a time, each event moves it at most once and only  *)
(* from the quantity it names, and a reset empties everything.             *)
(***************************************************************************)
EXTENDS InboxRules

VARIABLES
    view,  \* the projection row of every item
    used   \* ids of the events it has taken since the last reset

Init ==
    /\ view = [i \in Items |-> NoView]
    /\ used = {}

Apply(m) ==
    /\ m.id \notin used
    /\ m.ver = view[m.item].ver + 1
    /\ view[m.item].ver # 0 => m.before = view[m.item].qty
    /\ view' = [view EXCEPT ![m.item] = Projected(m)]
    /\ used' = used \cup {m.id}

Reset ==
    /\ view' = [i \in Items |-> NoView]
    /\ used' = {}

Next == (\E m \in Msgs : Apply(m)) \/ Reset

Spec == Init /\ [][Next]_<<view, used>>

=============================================================================
