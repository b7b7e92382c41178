---------------------------- MODULE LineageRules ----------------------------
(***************************************************************************)
(* The lineage projection (src/platform/lineage.go): what applyLineage     *)
(* decides about a hop event, and what TraceBatch reads back.  The view is *)
(* a set of rows; a row is the event it was inserted from.  Children may   *)
(* arrive before their parents, and no gap of a lineage row is re-driven.  *)
(***************************************************************************)
EXTENDS Integers, FiniteSets

LineageKinds == {"supplier", "ingredient_lot", "production_batch", "shipment"}
NoHop == [ev |-> 0]

HopOf(view, kind, id) ==
    LET found == {r \in view : r.kind = kind /\ r.agg = id}
    IN  IF found = {} THEN NoHop ELSE CHOOSE r \in found : TRUE

\* insertLineageHop with ON CONFLICT DO NOTHING: a parent, and an order, is
\* named by one row.
HopTaken(view, e) ==
    \E r \in view :
        /\ r.kind = e.kind
        /\ \/ r.parent = e.parent /\ e.parent # ""
           \/ r.order = e.order /\ e.order # ""

\* Mutant: a hop that is already there is stale whoever inserted it.
ApplyLineageAlwaysStale(view, e) ==
    LET old == HopOf(view, e.kind, e.agg)
    IN  CASE old # NoHop /\ e.ver <= old.ver    -> "quarantined_stale"
          [] old # NoHop /\ e.ver > old.ver + 1 -> "quarantined_gap"
          [] old # NoHop /\ e.ver = old.ver + 1 -> "quarantined_invalid"
          [] old = NoHop /\ e.ver # 1           -> "quarantined_gap"
          [] old = NoHop /\ HopTaken(view, e)   -> "quarantined_invalid"
          [] OTHER                              -> "applied"

\* applyLineage.  The concurrent delivery of the same event finds the row the
\* other one inserted, and is a duplicate.
ApplyLineage(view, e) ==
    LET old == HopOf(view, e.kind, e.agg)
    IN  CASE old # NoHop /\ e.ver <= old.ver    ->
                IF old.ev = e.ev THEN "duplicate_noop" ELSE "quarantined_stale"
          [] old # NoHop /\ e.ver > old.ver + 1 -> "quarantined_gap"
          [] old # NoHop /\ e.ver = old.ver + 1 -> "quarantined_invalid"
          [] old = NoHop /\ e.ver # 1           -> "quarantined_gap"
          [] old = NoHop /\ HopTaken(view, e)   -> "quarantined_invalid"
          [] OTHER                              -> "applied"

\* TraceBatch: the batch joined with its lot, the lot's supplier and the
\* batch's shipment, each missing if its row is.
TraceBatch(view, id) ==
    LET batch == HopOf(view, "production_batch", id)
        lot == IF batch = NoHop THEN NoHop ELSE HopOf(view, "ingredient_lot", batch.parent)
        supplier == IF lot = NoHop THEN NoHop ELSE HopOf(view, "supplier", lot.parent)
        shipments == {r \in view : r.kind = "shipment" /\ r.parent = id}
        shipment == IF batch = NoHop \/ shipments = {} THEN NoHop
                    ELSE CHOOSE r \in shipments : TRUE
    IN  [supplier |-> supplier, lot |-> lot, batch |-> batch, shipment |-> shipment]

=============================================================================
