---------------------------- MODULE SourceLedger ----------------------------
(***************************************************************************)
(* The synthetic ERP (src/erp): one tenant's stock of one item, its orders,*)
(* its lineage rows supplier -> lot -> batch -> shipment, and the outbox.  *)
(* Each command is one transaction that locks the rows it depends on       *)
(* (SELECT ... FOR UPDATE), so a command is one step.  A rejected command  *)
(* rolls back and changes nothing.                                         *)
(*                                                                         *)
(* A command names its operation, the row it creates, that row's parent,   *)
(* the order, a quantity, its event id and its causation id.  Syntax       *)
(* (UUIDs, timestamps, canonical ids) is taken as valid.                   *)
(***************************************************************************)
EXTENDS Integers, FiniteSets

CONSTANTS
    Commands,   \* every command that clients can send
    SeedQty     \* the quantity of the seeded inventory row

Inventory == "inventory_item"
Item == "item"      \* the item whose stock is modelled
Operations == {"supplier", "ingredient_lot", "production_batch", "shipment", Inventory}

ASSUME CommandsAssumption ==
    /\ SeedQty \in Nat
    /\ \A c \in Commands :
          /\ c.op \in Operations
          /\ c.op = Inventory => c.id = Item
          /\ c.ev \in Nat \ {0} /\ c.caus \in Nat /\ c.qty \in Nat

VARIABLES
    stock,      \* the inventory row: seeded, quantity on hand, version
    orders,     \* the order rows
    rows,       \* the lineage source rows
    outbox      \* outbox rows: an event, its status, and its place in created order

ledgerVars == <<stock, orders, rows, outbox>>

NoId == ""          \* a column the row does not have
NoEvent == 0        \* a NULL causation id

ParentKind ==
    [ingredient_lot |-> "supplier", production_batch |-> "ingredient_lot",
     shipment |-> "production_batch"]

Accepted == "accepted"
DuplicateErrors == {"duplicate source", "duplicate order", "duplicate event"}

-----------------------------------------------------------------------------
(* Events.                                                                 *)

HopEnvelope(c) ==
    [ev |-> c.ev, kind |-> c.op, agg |-> c.id, ver |-> 1, caus |-> c.caus,
     parent |-> c.parent, order |-> c.order, before |-> 0, after |-> 0]

OrderEnvelope(c) ==
    [ev |-> c.ev, kind |-> Inventory, agg |-> c.id, ver |-> stock.ver + 1,
     caus |-> c.caus, parent |-> NoId, order |-> c.order,
     before |-> stock.qty, after |-> stock.qty - c.qty]

SameAggregate(e, f) == e.kind = f.kind /\ e.agg = f.agg /\ e.ver = f.ver

\* insertPendingOutbox: event ids and aggregate versions are unique.
InsertPendingOutbox(e) ==
    IF \E r \in outbox : r.msg.ev = e.ev \/ SameAggregate(r.msg, e)
    THEN "duplicate event" ELSE Accepted

HasRow(kind, id) == \E r \in rows : r.kind = kind /\ r.id = id

\* parentOutboxEventID and requireCausation: the causation of a child is the
\* first event of its parent.
CausationError(kind, id, caus) ==
    LET events == {r.msg : r \in {q \in outbox : q.msg.kind = kind /\ q.msg.agg = id}}
    IN  CASE events = {} -> "unknown source"
          [] events # {} /\ ~\E e \in events :
                /\ \A f \in events : e.ver <= f.ver
                /\ e.ev = caus                      -> "invalid transition"
          [] OTHER                                  -> Accepted

-----------------------------------------------------------------------------
(* The answer of each command.                                             *)

\* Insert the row, then the event: a row id, a parent and an order are each
\* used once.
FinishSourceHop(c) ==
    IF \E r \in rows : /\ r.kind = c.op
                       /\ \/ r.id = c.id
                          \/ r.parent = c.parent /\ c.parent # NoId
                          \/ r.order = c.order /\ c.order # NoId
    THEN "duplicate source" ELSE InsertPendingOutbox(HopEnvelope(c))

CausedHop(c) ==
    LET err == CausationError(ParentKind[c.op], c.parent, c.caus)
    IN  IF err # Accepted THEN err ELSE FinishSourceHop(c)

RegisterSupplier(c) ==
    IF c.caus # NoEvent THEN "invalid transition" ELSE FinishSourceHop(c)

ReceiveIngredientLot(c) ==
    CASE c.caus = NoEvent               -> "invalid transition"
      [] ~HasRow("supplier", c.parent)  -> "unknown source"
      [] ~stock.seeded                  -> "unknown item"
      [] OTHER                          -> CausedHop(c)

ProduceProductionBatch(c) ==
    CASE c.caus = NoEvent                       -> "invalid transition"
      [] ~HasRow("ingredient_lot", c.parent)    -> "unknown source"
      [] OTHER                                  -> CausedHop(c)

\* Mutant: the batch's event is not compared with the causation.
DispatchShipmentUncaused(c) ==
    CASE c.caus = NoEvent                       -> "invalid transition"
      [] ~HasRow("production_batch", c.parent)  -> "unknown source"
      [] OTHER                                  -> FinishSourceHop(c)

\* The order need not exist yet.
DispatchShipment(c) ==
    CASE c.caus = NoEvent                       -> "invalid transition"
      [] ~HasRow("production_batch", c.parent)  -> "unknown source"
      [] OTHER                                  -> CausedHop(c)

\* An order that a shipment already names is caused by it; others by nothing.
RequireOrderShipmentCausation(c) ==
    LET shipments == {r \in rows : r.kind = "shipment" /\ r.order = c.order}
    IN  IF shipments = {}
        THEN IF c.caus = NoEvent THEN Accepted ELSE "invalid transition"
        ELSE CausationError("shipment", (CHOOSE r \in shipments : TRUE).id, c.caus)

AcceptOrder(c) ==
    CASE ~stock.seeded          -> "unknown item"
      [] stock.qty < c.qty      -> "invalid transition"
      [] RequireOrderShipmentCausation(c) # Accepted
                                -> RequireOrderShipmentCausation(c)
      [] \E o \in orders : o.id = c.order
                                -> "duplicate order"
      [] OTHER                  -> InsertPendingOutbox(OrderEnvelope(c))

Answer(c) ==
    CASE c.op = "supplier"          -> RegisterSupplier(c)
      [] c.op = "ingredient_lot"    -> ReceiveIngredientLot(c)
      [] c.op = "production_batch"  -> ProduceProductionBatch(c)
      [] c.op = "shipment"          -> DispatchShipment(c)
      [] c.op = Inventory           -> AcceptOrder(c)

-----------------------------------------------------------------------------
(* The transactions.                                                       *)

Row(e, status) == [msg |-> e, status |-> status, at |-> Cardinality(outbox) + 1]
Pending(e) == Row(e, "pending")

CommitHop(c) ==
    /\ rows' = rows \cup {[kind |-> c.op, id |-> c.id, parent |-> c.parent,
                           order |-> c.order]}
    /\ outbox' = outbox \cup {Pending(HopEnvelope(c))}
    /\ UNCHANGED <<stock, orders>>

\* Mutant: the row keeps its version.
CommitOrderSameVersion(c) ==
    /\ stock' = [stock EXCEPT !.qty = @ - c.qty]
    /\ orders' = orders \cup {[id |-> c.order, qty |-> c.qty]}
    /\ outbox' = outbox \cup {Pending(OrderEnvelope(c))}
    /\ UNCHANGED rows

CommitOrder(c) ==
    /\ stock' = [stock EXCEPT !.qty = @ - c.qty, !.ver = @ + 1]
    /\ orders' = orders \cup {[id |-> c.order, qty |-> c.qty]}
    /\ outbox' = outbox \cup {Pending(OrderEnvelope(c))}
    /\ UNCHANGED rows

Accept(c) ==
    /\ Answer(c) = Accepted
    /\ IF c.op = Inventory THEN CommitOrder(c) ELSE CommitHop(c)

\* SeedLineageInventory: the insert fails when the row exists.
SeedInventory ==
    /\ ~stock.seeded
    /\ stock' = [seeded |-> TRUE, qty |-> SeedQty, ver |-> 0]
    /\ UNCHANGED <<orders, rows, outbox>>

ResetSourceForTenant ==
    /\ stock' = [seeded |-> FALSE, qty |-> 0, ver |-> 0]
    /\ orders' = {} /\ rows' = {} /\ outbox' = {}

LedgerInit ==
    /\ stock = [seeded |-> FALSE, qty |-> 0, ver |-> 0]
    /\ orders = {} /\ rows = {} /\ outbox = {}

\* The relay marks a row published, and touches nothing else of it.
MarkPublished(r) ==
    /\ r.status = "pending"
    /\ outbox' = (outbox \ {r}) \cup {[r EXCEPT !.status = "published"]}
    /\ UNCHANGED <<stock, orders, rows>>

-----------------------------------------------------------------------------
(* Properties.                                                             *)

\* Every lineage row and its event were committed together: each row has one
\* event, and the event's causation is the event of the row's parent row.
RowsHaveCausedEvents ==
    \A r \in rows : \E e \in outbox :
        /\ e.msg.kind = r.kind /\ e.msg.agg = r.id
        /\ e.msg.parent = r.parent /\ e.msg.order = r.order
        /\ r.kind # "supplier" =>
              \E p \in outbox : /\ p.msg.kind = ParentKind[r.kind]
                                /\ p.msg.agg = r.parent
                                /\ p.msg.ev = e.msg.caus

StockEvents ==
    {r.msg : r \in {q \in outbox : q.msg.kind = Inventory /\ q.msg.agg = Item}}

\* The inventory events count 1, 2, ... up to the stock row's version, each
\* from the quantity the one before left, and the last left what is on hand.
InventoryEventsChain ==
    /\ {e.ver : e \in StockEvents} = 1 .. stock.ver
    /\ \A e, f \in StockEvents : e.ver = f.ver => e = f
    /\ \A e \in StockEvents :
          /\ e.ver = 1 => e.before = SeedQty
          /\ \A f \in StockEvents : f.ver = e.ver + 1 => f.before = e.after
          /\ e.ver = stock.ver => e.after = stock.qty
    /\ stock.seeded /\ stock.ver = 0 => stock.qty = SeedQty

=============================================================================
