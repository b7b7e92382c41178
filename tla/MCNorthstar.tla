---------------------------- MODULE MCNorthstar -----------------------------
EXTENDS Northstar

CONSTANTS b1, b2    \* bootstrap processes

\* Another client receives a lot of the fixture's supplier, orders the item, or
\* dispatches the batch with another causation.
RivalLot ==
    [op |-> "ingredient_lot", id |-> "rival-lot", parent |-> "supplier",
     order |-> NoId, qty |-> 0, ev |-> 6, caus |-> 1]
RivalOrder ==
    [op |-> Inventory, id |-> Item, parent |-> NoId, order |-> "rival-order",
     qty |-> 2, ev |-> 7, caus |-> NoEvent]
RivalShipment ==
    [op |-> "shipment", id |-> "rival-shipment", parent |-> "production_batch",
     order |-> "rival-order", qty |-> 0, ev |-> 8, caus |-> 2]

MCForeign == {RivalLot, RivalOrder, RivalShipment}
MCCommands == {CommandFrom(Events[i]) : i \in 1 .. 5} \cup MCForeign

=============================================================================
