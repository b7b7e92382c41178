-------------------------- MODULE Northstar_proofs --------------------------
(***************************************************************************)
(* Northstar, for any commands, runs and troubles.                         *)
(*                                                                         *)
(* The source: the lineage rows and their events agree, and the stock's    *)
(* events form a chain (SourceInv).  Every step of the scenario leaves the *)
(* ERP alone or is one of its transactions, so the argument goes           *)
(* transaction by transaction.                                             *)
(*                                                                         *)
(* The runs: while no other client wrote, the source, the topic, the       *)
(* platform and what each run has in hand are the fixture's, so no run     *)
(* meets a conflict and the lineage is backed by the inbox (FixtureInv).   *)
(* A run that looks at the projections has found every event published     *)
(* (ViewsInv), so what it reports as complete is complete.                 *)
(***************************************************************************)
EXTENDS Northstar, TLAPS

\* An unseeded row counts from zero; outbox rows have their three columns.
SourceShape ==
    /\ stock \in [seeded : BOOLEAN, qty : Nat, ver : Nat]
    /\ ~stock.seeded => stock.ver = 0
    /\ \A r \in outbox : r = [msg |-> r.msg, status |-> r.status, at |-> r.at]

\* A run has its columns, and is at one of the five events of the fixture.
IsRun(r) ==
    /\ {"pc", "step", "pos", "row", "busy", "skipped", "reset"} \subseteq DOMAIN r
    /\ r.step \in 1 .. 5

RunShape ==
    /\ run = [b \in Runs |-> run[b]]
    /\ \A b \in Runs : IsRun(run[b])

SourceInv == SourceShape /\ RowsHaveCausedEvents /\ InventoryEventsChain

\* The provers to try on a leaf that names none, in this order.
USE Zenon, SMT, Z3

-----------------------------------------------------------------------------
(* What each transaction does to the source.                               *)

LEMMA UnchangedKeepsSource ==
    SourceInv /\ UNCHANGED ledgerVars => SourceInv'
BY SMT DEF SourceInv, SourceShape, RowsHaveCausedEvents, InventoryEventsChain, StockEvents, ledgerVars

LEMMA SeedKeepsSource ==
    SourceInv /\ SeedInventory => SourceInv'
<1> SUFFICES ASSUME SourceInv, SeedInventory PROVE SourceInv'
  OBVIOUS
<1> USE CommandsAssumption
<1>1. SourceShape'
  BY DEF SourceInv, SourceShape, SeedInventory
<1>2. RowsHaveCausedEvents'
  BY DEF SourceInv, RowsHaveCausedEvents, SeedInventory
<1>3. StockEvents = {} /\ StockEvents' = {}
  <2>1. stock.ver = 0
    BY DEF SourceInv, SourceShape, SeedInventory
  <2>2. {e.ver : e \in StockEvents} = {}
    BY SMT, <2>1 DEF SourceInv, InventoryEventsChain
  <2>3. StockEvents' = StockEvents
    BY DEF StockEvents, SeedInventory
  <2> QED BY <2>2, <2>3
<1>4. stock' = [seeded |-> TRUE, qty |-> SeedQty, ver |-> 0]
  BY DEF SeedInventory
<1>5. InventoryEventsChain'
  BY <1>3, <1>4 DEF InventoryEventsChain
<1> QED BY <1>1, <1>2, <1>5 DEF SourceInv

LEMMA ResetKeepsSource ==
    ResetSourceForTenant => SourceInv'
<1> SUFFICES ASSUME ResetSourceForTenant PROVE SourceInv'
  OBVIOUS
<1>1. SourceShape' /\ RowsHaveCausedEvents'
  BY DEF SourceShape, RowsHaveCausedEvents, ResetSourceForTenant
<1>2. StockEvents' = {}
  BY DEF StockEvents, ResetSourceForTenant
<1>3. stock' = [seeded |-> FALSE, qty |-> 0, ver |-> 0]
  BY DEF ResetSourceForTenant
<1>4. InventoryEventsChain'
  BY <1>2, <1>3 DEF InventoryEventsChain
<1> QED BY <1>1, <1>4 DEF SourceInv

\* A step that keeps the stock, the rows and the stock's events, and forgets
\* no event, keeps the source.
LEMMA SameEventsKeepSource ==
    ASSUME SourceInv, UNCHANGED <<stock, rows>>, StockEvents' = StockEvents,
           \A r \in outbox : \E q \in outbox' : q.msg = r.msg,
           \A r \in outbox' : r = [msg |-> r.msg, status |-> r.status, at |-> r.at]
    PROVE  SourceInv'
<1>1. SourceShape'
  BY DEF SourceInv, SourceShape
<1>2. RowsHaveCausedEvents'
  BY SMT DEF SourceInv, RowsHaveCausedEvents
<1>3. InventoryEventsChain'
  BY DEF SourceInv, InventoryEventsChain
<1> QED BY <1>1, <1>2, <1>3 DEF SourceInv

LEMMA PublishKeepsSource ==
    ASSUME SourceInv, NEW r \in outbox, MarkPublished(r)
    PROVE  SourceInv'
<1> DEFINE p == [r EXCEPT !.status = "published"]
<1>1. p.msg = r.msg /\ p = [msg |-> p.msg, status |-> p.status, at |-> p.at]
  <2>1. r = [msg |-> r.msg, status |-> r.status, at |-> r.at]
    BY DEF SourceInv, SourceShape
  <2> QED BY SMT, <2>1
<1> HIDE DEF p
<1>2. outbox' = (outbox \ {r}) \cup {p} /\ UNCHANGED <<stock, rows>>
  BY DEF MarkPublished, p
<1>3. StockEvents' = StockEvents
  BY SMT, <1>1, <1>2 DEF StockEvents
<1>4. \A q \in outbox : \E o \in outbox' : o.msg = q.msg
  BY <1>1, <1>2
<1>5. \A q \in outbox' : q = [msg |-> q.msg, status |-> q.status, at |-> q.at]
  BY <1>1, <1>2 DEF SourceInv, SourceShape
<1> QED BY <1>2, <1>3, <1>4, <1>5, SameEventsKeepSource

LEMMA DemoKeepsSource ==
    SourceInv /\ DemoForecastIncomplete => SourceInv'
<1> SUFFICES ASSUME SourceInv, DemoForecastIncomplete PROVE SourceInv'
  OBVIOUS
<1>1. UNCHANGED <<stock, rows>>
  BY DEF DemoForecastIncomplete
<1>2. outbox' = outbox \/ outbox' = outbox \cup {Row(IncompleteRow, "quarantined")}
  BY DEF DemoForecastIncomplete
<1>3. /\ Row(IncompleteRow, "quarantined").msg.agg # Item
      /\ Row(IncompleteRow, "quarantined") =
           [msg |-> Row(IncompleteRow, "quarantined").msg,
            status |-> Row(IncompleteRow, "quarantined").status,
            at |-> Row(IncompleteRow, "quarantined").at]
  BY DEF Row, IncompleteRow, Item
<1>4. StockEvents' = StockEvents
  BY <1>2, <1>3 DEF StockEvents
<1>5. \A q \in outbox' : q = [msg |-> q.msg, status |-> q.status, at |-> q.at]
  BY SMT, <1>2, <1>3 DEF SourceInv, SourceShape
<1> QED BY <1>1, <1>2, <1>4, <1>5, SameEventsKeepSource

-----------------------------------------------------------------------------
(* Accepted commands.                                                      *)

\* A hop that needs a cause is accepted only with the event of its parent.
LEMMA AcceptedHopIsCaused ==
    ASSUME NEW c \in Commands, c.op # Inventory, c.op # "supplier", Answer(c) = Accepted
    PROVE  \E p \in outbox : /\ p.msg.kind = ParentKind[c.op]
                             /\ p.msg.agg = c.parent
                             /\ p.msg.ev = c.caus
<1>1. c.op \in {"ingredient_lot", "production_batch", "shipment"}
  BY CommandsAssumption DEF Operations
<1>2. CausedHop(c) = Accepted
  BY <1>1 DEF Answer, ReceiveIngredientLot, ProduceProductionBatch, DispatchShipment,
              Accepted, Inventory
<1>3. CausationError(ParentKind[c.op], c.parent, c.caus) = Accepted
  BY <1>2 DEF CausedHop
<1> DEFINE events == {r.msg : r \in {q \in outbox : /\ q.msg.kind = ParentKind[c.op]
                                                   /\ q.msg.agg = c.parent}}
<1>4. \E e \in events : e.ev = c.caus
  BY <1>3 DEF CausationError, Accepted
<1> QED BY <1>4

LEMMA HopKeepsSource ==
    ASSUME SourceInv, NEW c \in Commands, c.op # Inventory, Accept(c)
    PROVE  SourceInv'
<1> DEFINE e == Pending(HopEnvelope(c))
           w == [kind |-> c.op, id |-> c.id, parent |-> c.parent, order |-> c.order]
<1>1. /\ e.msg.kind = c.op /\ e.msg.agg = c.id /\ e.msg.parent = c.parent
      /\ e.msg.order = c.order /\ e.msg.caus = c.caus
      /\ e = [msg |-> e.msg, status |-> e.status, at |-> e.at]
  BY DEF Pending, Row, HopEnvelope
<1>2. /\ rows' = rows \cup {w} /\ outbox' = outbox \cup {e} /\ UNCHANGED stock
  BY DEF Accept, CommitHop
<1> HIDE DEF e
<1>3. SourceShape'
  BY <1>1, <1>2 DEF SourceInv, SourceShape
<1>4. RowsHaveCausedEvents'
  <2> SUFFICES ASSUME NEW r \in rows'
               PROVE  \E q \in outbox' :
                        /\ q.msg.kind = r.kind /\ q.msg.agg = r.id
                        /\ q.msg.parent = r.parent /\ q.msg.order = r.order
                        /\ r.kind # "supplier" =>
                              \E p \in outbox' : /\ p.msg.kind = ParentKind[r.kind]
                                                 /\ p.msg.agg = r.parent
                                                 /\ p.msg.ev = q.msg.caus
    BY DEF RowsHaveCausedEvents
  <2>1. CASE r \in rows
    BY SMT, <2>1, <1>2 DEF SourceInv, RowsHaveCausedEvents
  <2>2. CASE r = w
    <3>1. Answer(c) = Accepted
      BY DEF Accept
    <3>2. c.op # "supplier" =>
             \E p \in outbox' : /\ p.msg.kind = ParentKind[c.op]
                                /\ p.msg.agg = c.parent
                                /\ p.msg.ev = e.msg.caus
      BY SMT, <1>1, <1>2, <3>1, AcceptedHopIsCaused
    <3> QED BY <1>1, <1>2, <2>2, <3>2
  <2> QED BY <1>2, <2>1, <2>2
<1>5. StockEvents' = StockEvents
  BY <1>1, <1>2 DEF StockEvents
<1>6. InventoryEventsChain'
  BY <1>2, <1>5 DEF SourceInv, InventoryEventsChain
<1> QED BY <1>3, <1>4, <1>6 DEF SourceInv

LEMMA IntervalGrows ==
    ASSUME NEW n \in Nat
    PROVE  (1 .. n) \cup {n + 1} = 1 .. (n + 1)
OBVIOUS

LEMMA OrderKeepsSource ==
    ASSUME SourceInv, NEW c \in Commands, c.op = Inventory, Accept(c)
    PROVE  SourceInv'
<1> DEFINE n == OrderEnvelope(c)
           e == Pending(n)
<1>1. stock.seeded /\ stock.qty >= c.qty
  <2>1. AcceptOrder(c) = Accepted
    BY DEF Accept, Answer, Inventory
  <2>2. c.qty \in Nat /\ stock.qty \in Nat
    BY CommandsAssumption DEF SourceInv, SourceShape
  <2> QED BY <2>1, <2>2 DEF AcceptOrder, Accepted
<1>2. /\ n.kind = Inventory /\ n.agg = Item /\ n.ver = stock.ver + 1
      /\ n.before = stock.qty /\ n.after = stock.qty - c.qty
  BY CommandsAssumption DEF OrderEnvelope
<1>3. e.msg = n /\ e = [msg |-> e.msg, status |-> e.status, at |-> e.at]
  BY DEF Pending, Row
<1>4. /\ stock' = [stock EXCEPT !.qty = @ - c.qty, !.ver = @ + 1]
      /\ outbox' = outbox \cup {e} /\ UNCHANGED rows
  BY DEF Accept, CommitOrder
<1> HIDE DEF n, e
<1>5. /\ stock.ver \in Nat /\ stock.qty \in Nat /\ c.qty \in Nat
      /\ stock' \in [seeded : BOOLEAN, qty : Nat, ver : Nat]
      /\ stock'.seeded /\ stock'.qty = stock.qty - c.qty /\ stock'.ver = stock.ver + 1
  <2>1. stock.ver \in Nat /\ stock.qty \in Nat /\ c.qty \in Nat
    BY CommandsAssumption DEF SourceInv, SourceShape
  <2>2. stock' = [seeded |-> stock.seeded, qty |-> stock.qty - c.qty, ver |-> stock.ver + 1]
    BY <1>4 DEF SourceInv, SourceShape
  <2>3. stock.seeded \in BOOLEAN
    BY DEF SourceInv, SourceShape
  <2> QED BY <1>1, <2>1, <2>2, <2>3
<1>6. SourceShape'
  BY <1>3, <1>4, <1>5 DEF SourceInv, SourceShape
<1>7. RowsHaveCausedEvents'
  BY SMT, <1>4 DEF SourceInv, RowsHaveCausedEvents
<1>8. StockEvents' = StockEvents \cup {n}
  BY <1>2, <1>3, <1>4 DEF StockEvents
<1>9. \A f \in StockEvents : f.ver \in 1 .. stock.ver
  BY DEF SourceInv, InventoryEventsChain
<1>10. InventoryEventsChain'
  <2>1. {f.ver : f \in StockEvents'} = 1 .. stock'.ver
    <3>1. {f.ver : f \in StockEvents'} = {f.ver : f \in StockEvents} \cup {stock.ver + 1}
      BY <1>2, <1>8
    <3>2. {f.ver : f \in StockEvents} = 1 .. stock.ver
      BY DEF SourceInv, InventoryEventsChain
    <3>3. (1 .. stock.ver) \cup {stock.ver + 1} = 1 .. (stock.ver + 1)
      BY <1>5, IntervalGrows
    <3> QED BY <1>5, <3>1, <3>2, <3>3
  <2>2. \A f, g \in StockEvents' : f.ver = g.ver => f = g
    BY SMT, <1>2, <1>5, <1>8, <1>9 DEF SourceInv, InventoryEventsChain
  <2>3. \A f \in StockEvents' : f.ver = 1 => f.before = SeedQty
    BY SMT, <1>1, <1>2, <1>5, <1>8 DEF SourceInv, InventoryEventsChain
  <2>4. \A f, g \in StockEvents' : g.ver = f.ver + 1 => g.before = f.after
    BY SMT, <1>2, <1>5, <1>8, <1>9 DEF SourceInv, InventoryEventsChain
  <2>5. \A f \in StockEvents' : f.ver = stock'.ver => f.after = stock'.qty
    BY SMT, <1>2, <1>5, <1>8, <1>9
  <2>6. stock'.ver # 0
    BY <1>5
  <2> QED BY <2>1, <2>2, <2>3, <2>4, <2>5, <2>6 DEF InventoryEventsChain
<1> QED BY <1>6, <1>7, <1>10 DEF SourceInv

-----------------------------------------------------------------------------
(* The runs.                                                               *)

LEMMA FixtureCommands ==
    \A i \in 1 .. 5 : CommandFrom(Events[i]) \in Commands
BY ScenarioAssumption

LEMMA NoRunIsRun == IsRun(NoRun)
BY DEF IsRun, NoRun

LEMMA InitHolds == Init => SourceInv /\ RunShape
<1> SUFFICES ASSUME Init PROVE SourceInv /\ RunShape
  OBVIOUS
<1>1. SourceShape /\ RowsHaveCausedEvents
  BY DEF Init, LedgerInit, SourceShape, RowsHaveCausedEvents
<1>2. StockEvents = {} /\ stock = [seeded |-> FALSE, qty |-> 0, ver |-> 0]
  BY DEF Init, LedgerInit, StockEvents
<1>3. InventoryEventsChain
  BY <1>2 DEF InventoryEventsChain
<1>4. RunShape
  BY NoRunIsRun DEF Init, RunShape
<1> QED BY <1>1, <1>3, <1>4 DEF SourceInv

LEMMA RunSet ==
    ASSUME RunShape, NEW b \in Runs, NEW x, IsRun(x), run' = [run EXCEPT ![b] = x]
    PROVE  RunShape'
BY DEF RunShape

\* The ways in which a step changes a run, but for NextSource.
LEMMA MovesKeepShape ==
    ASSUME RunShape, NEW b \in Runs, NEW pc,
           UNCHANGED run \/ Goto(b, pc) \/ Halt(b, pc) \/ Returned(b)
    PROVE  RunShape'
<1>0. IsRun(run[b])
  BY DEF RunShape
<1>1. CASE UNCHANGED run
  BY <1>1 DEF RunShape
<1>2. CASE Goto(b, pc)
  <2> DEFINE x == [run[b] EXCEPT !.pc = pc]
  <2>1. IsRun(x)
    BY <1>0 DEF IsRun
  <2>2. run' = [run EXCEPT ![b] = x]
    BY <1>2 DEF Goto
  <2> QED BY <2>1, <2>2, RunSet
<1>3. CASE Halt(b, pc)
  <2> DEFINE x == [run[b] EXCEPT !.pc = pc, !.busy = "no", !.row = Inbox!NoRow]
  <2>1. IsRun(x)
    BY <1>0 DEF IsRun
  <2>2. run' = [run EXCEPT ![b] = x]
    BY <1>3 DEF Halt
  <2> QED BY <2>1, <2>2, RunSet
<1>4. CASE Returned(b)
  <2> DEFINE x == [run[b] EXCEPT !.busy = "no", !.row = Inbox!NoRow, !.pos = @ + 1]
  <2>1. IsRun(x)
    BY <1>0 DEF IsRun
  <2>2. run' = [run EXCEPT ![b] = x]
    BY <1>4 DEF Returned
  <2> QED BY <2>1, <2>2, RunSet
<1> QED BY <1>1, <1>2, <1>3, <1>4

LEMMA NextSourceKeepsShape ==
    ASSUME RunShape, NEW b \in Runs, NextSource(b)
    PROVE  RunShape'
<1> DEFINE x == [run[b] EXCEPT !.pc = IF run[b].step = 5 THEN "inspect" ELSE "sources",
                               !.step = IF @ = 5 THEN 5 ELSE @ + 1]
<1>1. IsRun(run[b])
  BY DEF RunShape
<1>2. IsRun(x)
  BY <1>1 DEF IsRun
<1>3. run' = [run EXCEPT ![b] = x]
  BY DEF NextSource
<1> QED BY <1>2, <1>3, RunSet

\* Steps of a run that read the source only.
LEMMA ReadersKeepAll ==
    ASSUME SourceInv, RunShape, NEW b \in Runs,
           \/ Start(b) \/ Stop(b) \/ LookupInventory(b) \/ VerifySource(b)
           \/ InspectEvents(b) \/ InspectViews(b) \/ DrainEnds(b) \/ DrainUnmarked(b)
           \/ ReadInbox(b) \/ ProcessRecord(b) \/ RedriveGaps(b) \/ ConsumeEnds(b)
    PROVE  SourceInv' /\ RunShape'
<1>0. IsRun(run[b])
  BY DEF RunShape
<1>1. CASE Start(b)
  <2> DEFINE x == [NoRun EXCEPT !.pc = "seed", !.reset = resetting]
  <2>1. IsRun(x)
    BY NoRunIsRun DEF IsRun
  <2>2. run' = [run EXCEPT ![b] = x] /\ UNCHANGED ledgerVars
    BY <1>1 DEF Start, ReadOnly
  <2> QED BY <2>1, <2>2, RunSet, UnchangedKeepsSource
<1>2. CASE Stop(b)
  BY <1>2, MovesKeepShape, UnchangedKeepsSource DEF Stop, ReadOnly
<1>3. CASE LookupInventory(b)
  BY <1>3, MovesKeepShape, UnchangedKeepsSource DEF LookupInventory, ReadOnly
<1>4. CASE VerifySource(b)
  BY <1>4, MovesKeepShape, NextSourceKeepsShape, UnchangedKeepsSource DEF VerifySource, ReadOnly
<1>5. CASE InspectEvents(b)
  BY <1>5, MovesKeepShape, UnchangedKeepsSource DEF InspectEvents, ReadOnly
<1>6. CASE InspectViews(b)
  BY <1>6, MovesKeepShape, UnchangedKeepsSource DEF InspectViews, ReadOnly
<1>7. CASE DrainEnds(b)
  BY <1>7, MovesKeepShape, UnchangedKeepsSource DEF DrainEnds, ReadOnly
<1>8. CASE DrainUnmarked(b)
  BY <1>8, MovesKeepShape, UnchangedKeepsSource DEF DrainUnmarked, Publish
<1>9. CASE ReadInbox(b)
  <2> DEFINE e == topic[run[b].pos + 1]
             x == [run[b] EXCEPT !.busy = "read",
                     !.row = IF e = Poison THEN Inbox!NoRow ELSE inbox[e.ev]]
  <2>1. IsRun(x)
    BY <1>0 DEF IsRun
  <2>2. run' = [run EXCEPT ![b] = x] /\ UNCHANGED ledgerVars
    BY <1>9 DEF ReadInbox, ReadOnly
  <2> QED BY <2>1, <2>2, RunSet, UnchangedKeepsSource
<1>10. CASE ProcessRecord(b)
  <2> DEFINE x == [run[b] EXCEPT !.busy = "redrive", !.row = Inbox!NoRow]
  <2>1. IsRun(x)
    BY <1>0 DEF IsRun
  <2>2. run' = [run EXCEPT ![b] = x] \/ Returned(b)
    BY <1>10 DEF ProcessRecord
  <2>3. UNCHANGED ledgerVars
    BY <1>10 DEF ProcessRecord
  <2> QED BY <2>1, <2>2, <2>3, RunSet, MovesKeepShape, UnchangedKeepsSource
<1>11. CASE RedriveGaps(b)
  <2>1. (UNCHANGED run \/ Returned(b)) /\ UNCHANGED ledgerVars
    BY <1>11 DEF RedriveGaps
  <2> QED BY <2>1, MovesKeepShape, UnchangedKeepsSource
<1>12. CASE ConsumeEnds(b)
  <2> DEFINE x == [run[b] EXCEPT !.pc = "inspect", !.busy = "no", !.row = Inbox!NoRow,
                                 !.skipped = TRUE, !.pos = Len(topic)]
  <2>1. IsRun(x)
    BY <1>0 DEF IsRun
  <2>2. run' = [run EXCEPT ![b] = x] \/ Goto(b, "inspect")
    BY <1>12 DEF ConsumeEnds
  <2>3. UNCHANGED ledgerVars
    BY <1>12 DEF ConsumeEnds, ReadOnly
  <2> QED BY <2>1, <2>2, <2>3, RunSet, MovesKeepShape, UnchangedKeepsSource
<1> QED BY <1>1, <1>2, <1>3, <1>4, <1>5, <1>6, <1>7, <1>8, <1>9, <1>10, <1>11, <1>12

LEMMA AcceptKeepsSource ==
    ASSUME SourceInv, NEW c \in Commands, Accept(c)
    PROVE  SourceInv'
BY HopKeepsSource, OrderKeepsSource

\* Steps of a run that write the source.
LEMMA WritersKeepAll ==
    ASSUME SourceInv, RunShape, NEW b \in Runs,
           EnsureInventory(b) \/ EnsureSource(b) \/ DrainRow(b)
    PROVE  SourceInv' /\ RunShape'
<1>1. CASE EnsureInventory(b)
  BY <1>1, MovesKeepShape, SeedKeepsSource, UnchangedKeepsSource DEF EnsureInventory
<1>2. CASE EnsureSource(b)
  <2> DEFINE c == CommandFrom(Events[run[b].step])
  <2>1. c \in Commands
    BY FixtureCommands DEF RunShape, IsRun
  <2>2. Accept(c) \/ UNCHANGED ledgerVars
    BY <1>2 DEF EnsureSource
  <2>3. SourceInv'
    BY <2>1, <2>2, AcceptKeepsSource, UnchangedKeepsSource
  <2>4. NextSource(b) \/ \E pc : Goto(b, pc)
    BY <1>2 DEF EnsureSource
  <2> QED BY <2>3, <2>4, NextSourceKeepsShape, MovesKeepShape
<1>3. CASE DrainRow(b)
  <2>1. PICK r \in PendingRows : MarkPublished(r) /\ Publish(r)
    BY <1>3 DEF DrainRow
  <2>2. r \in outbox /\ UNCHANGED run
    BY <2>1 DEF PendingRows, Publish
  <2> QED BY <2>1, <2>2, PublishKeepsSource, MovesKeepShape
<1> QED BY <1>1, <1>2, <1>3

\* The other commands.
LEMMA CommandsKeepAll ==
    ASSUME SourceInv, RunShape,
           \/ \E c \in Foreign : ForeignCommand(c)
           \/ DemoDuplicate \/ DemoPoison \/ DemoForecastIncomplete
           \/ ResetDerivedStateForTenant \/ ResetSource
    PROVE  SourceInv' /\ RunShape'
<1>0. /\ UNCHANGED run => RunShape'
      /\ run' = Overtaken => RunShape'
  BY SMT DEF RunShape, Overtaken, IsRun
<1>1. CASE \E c \in Foreign : ForeignCommand(c)
  BY <1>0, <1>1, AcceptKeepsSource, ScenarioAssumption DEF ForeignCommand
<1>2. CASE DemoDuplicate \/ DemoPoison
  BY <1>0, <1>2, UnchangedKeepsSource DEF DemoDuplicate, DemoPoison, Publish
<1>3. CASE DemoForecastIncomplete
  BY <1>0, <1>3, DemoKeepsSource DEF DemoForecastIncomplete
<1>4. CASE ResetDerivedStateForTenant
  BY <1>0, <1>4, UnchangedKeepsSource DEF ResetDerivedStateForTenant
<1>5. CASE ResetSource
  BY <1>0, <1>5, ResetKeepsSource DEF ResetSource
<1> QED BY <1>1, <1>2, <1>3, <1>4, <1>5

LEMMA SourceInductive == Spec => [](SourceInv /\ RunShape)
<1>1. SourceInv /\ RunShape /\ [Next]_vars => SourceInv' /\ RunShape'
  <2> SUFFICES ASSUME SourceInv, RunShape, [Next]_vars PROVE SourceInv' /\ RunShape'
    OBVIOUS
  <2>1. CASE UNCHANGED vars
    BY <2>1, UnchangedKeepsSource DEF vars, RunShape
  <2>2. ASSUME NEW b \in Runs, Start(b) \/ Stop(b) \/ Bootstrap(b) \/ DrainUnmarked(b)
        PROVE  SourceInv' /\ RunShape'
    BY <2>2, ReadersKeepAll, WritersKeepAll DEF Bootstrap
  <2> QED BY <2>1, <2>2, CommandsKeepAll DEF Next
<1> QED BY <1>1, InitHolds, PTL DEF Spec

-----------------------------------------------------------------------------
(* The source, the platform and the runs while only the fixture is         *)
(* written.                                                                *)

\* The fixture's event i is in the outbox.
Done(i) == \E r \in outbox : r.msg = Events[i]

\* The source row behind a hop of the fixture.
SourceRow(e) == [kind |-> e.kind, id |-> e.agg, parent |-> e.parent, order |-> e.order]

Unseeded == [seeded |-> FALSE, qty |-> 0, ver |-> 0]
Seeded == [seeded |-> TRUE, qty |-> SeedQty, ver |-> 0]
Sold == [seeded |-> TRUE, qty |-> Final.qty, ver |-> Final.ver]

\* The source is what some first events of the fixture make of it.
LedgerIsFixture ==
    /\ \A r \in outbox :
          \/ r.msg = IncompleteRow /\ r.status = "quarantined"
          \/ \E i \in 1 .. 5 : r.msg = Events[i]
    /\ \A i \in 2 .. 5 : Done(i) => Done(i - 1)
    /\ \A w \in rows : \E i \in 1 .. 4 : w = SourceRow(Events[i]) /\ Done(i)
    /\ \A i \in 1 .. 4 : Done(i) => SourceRow(Events[i]) \in rows
    /\ (\E o \in orders : o.id = Events[5].order) <=> Done(5)
    /\ Done(5) => stock = Sold
    /\ ~Done(5) => stock \in {Seeded, Unseeded}
    /\ Done(2) => stock.seeded

\* An inbox row is about its event of the fixture.
RowIsFixture(i, row) ==
    row = Inbox!NoRow \/
        /\ i \in 1 .. 5 /\ row.hash = Events[i]
        /\ row.disp = Inbox!Gap => row.bytes = Events[i]

Records == {Poison} \cup {Events[i] : i \in 1 .. 5}

\* The dispositions of an event that a projection holds.
Counted == {Inbox!Applied, Inbox!DuplicateNoop}

PlatformIsFixture ==
    /\ topic \in Seq(Records)
    /\ DOMAIN inbox = EventIds /\ \A i \in EventIds : RowIsFixture(i, inbox[i])
    /\ proj \in {Inbox!NoView, Final}
    /\ \A e \in lineage : \E i \in 1 .. 4 : e = Events[i]
    /\ \A i \in 1 .. 4 : Events[i] \in lineage => inbox[i].disp \in Counted

DoneSet == {i \in 1 .. 5 : Done(i)}

\* Where a run that no reset overtook may be, by what the source has.
PcFits(pc, step, seeded, done) ==
    /\ pc \notin {"conflict", "failed"}
    /\ pc \in {"seed", "lookup"} => step = 1
    /\ pc \in {"lookup", "sources", "verify"} => seeded
    /\ pc \in {"sources", "verify"} => \A j \in 1 .. 5 : j < step => j \in done
    /\ pc = "verify" => step \in done
    /\ pc \in Looping => \A j \in 1 .. 5 : j \in done

\* The row in a run's hand was read for the record in its hand.
RowInHand(x, tp) ==
    \A i \in 1 .. 5 : tp[x.pos + 1] = Events[i] => RowIsFixture(i, x.row)

\* Such a run finds what it has done; and any run has a record in hand that is there.
RunFits(x, seeded, tp, done) ==
    /\ x.pos \in Nat
    /\ x.busy = "read" => x.pos < Len(tp) /\ RowInHand(x, tp)
    /\ ~x.reset => PcFits(x.pc, x.step, seeded, done)

RunsFit == \A b \in Runs : RunFits(run[b], stock.seeded, topic, DoneSet)

\* Without a reset, the source and the topic only grow.
Grows ==
    /\ stock.seeded => stock'.seeded
    /\ DoneSet \subseteq DoneSet'
    /\ topic' = topic \/ \E m \in Records : topic' = Append(topic, m)

Fixture == LedgerIsFixture /\ PlatformIsFixture /\ RunsFit

FixtureInv == ~foreign => Fixture

-----------------------------------------------------------------------------
(* The events of the fixture, as the source sees them.                     *)

LEMMA FixtureEvents ==
    /\ \A i \in 1 .. 5 : /\ Events[i].ev = i /\ Events[i].caus = i - 1 /\ Events[i].ver = 1
                         /\ Events[i] # Poison
    /\ \A i, j \in 1 .. 5 : Events[i].kind = Events[j].kind => i = j
    /\ \A i \in 1 .. 4 : /\ Events[i].kind # Inventory /\ Events[i].kind # IncompleteRow.kind
                         /\ HopEnvelope(CommandFrom(Events[i])) = Events[i]
    /\ Events[5].kind = Inventory /\ Events[5].agg # IncompleteRow.agg
<1>1. /\ Events[1] = Hop(1, "supplier", NoId, NoId)
      /\ Events[2] = Hop(2, "ingredient_lot", "supplier", NoId)
      /\ Events[3] = Hop(3, "production_batch", "ingredient_lot", NoId)
      /\ Events[4] = Hop(4, "shipment", "production_batch", "order")
      /\ Events[5] = [ev |-> 5, kind |-> Inventory, agg |-> Item, ver |-> 1, caus |-> 4,
                      parent |-> NoId, order |-> "order", before |-> 10, after |-> 8]
  BY DEF Events
<1>2. 1 .. 5 = {1, 2, 3, 4, 5} /\ 1 .. 4 = {1, 2, 3, 4}
  OBVIOUS
<1>3. \A i \in {1, 2, 3, 4, 5} : Events[i].ev = i /\ Events[i].caus = i - 1 /\ Events[i].ver = 1
  BY SMT, <1>1 DEF Hop
<1>4. \A i \in {1, 2, 3, 4, 5} : Events[i] # Poison
  BY <1>3 DEF Poison
<1>5. /\ Events[1].kind = "supplier" /\ Events[2].kind = "ingredient_lot"
      /\ Events[3].kind = "production_batch" /\ Events[4].kind = "shipment"
      /\ Events[5].kind = Inventory /\ Events[5].agg = Item
      /\ IncompleteRow.kind = Inventory /\ IncompleteRow.agg = "item-incomplete"
  BY SMT, <1>1 DEF Hop, IncompleteRow
<1>6. \A i, j \in {1, 2, 3, 4, 5} : Events[i].kind = Events[j].kind => i = j
  BY SMT, <1>5 DEF Inventory
<1>7. \A i \in {1, 2, 3, 4} : Events[i].kind # Inventory /\ Events[i].kind # IncompleteRow.kind
  BY <1>5 DEF Inventory
<1>8. \A i \in {1, 2, 3, 4} : HopEnvelope(CommandFrom(Events[i])) = Events[i]
  BY SMT, <1>1 DEF Hop, HopEnvelope, CommandFrom
<1> QED BY SMT, <1>2, <1>3, <1>4, <1>5, <1>6, <1>7, <1>8 DEF Item

LEMMA FixtureParents ==
    /\ CommandFrom(Events[1]).op = "supplier" /\ CommandFrom(Events[1]).caus = NoEvent
    /\ \A i \in 2 .. 4 :
          LET c == CommandFrom(Events[i])
          IN  /\ c.op = Events[i].kind /\ c.caus = i - 1 /\ c.caus # NoEvent
              /\ ParentKind[c.op] = Events[i - 1].kind /\ c.parent = Events[i - 1].agg
    /\ Events[1].kind = "supplier" /\ Events[2].kind = "ingredient_lot"
    /\ Events[3].kind = "production_batch" /\ Events[4].kind = "shipment"
    /\ Events[4].order = Events[5].order
    /\ \A i \in 1 .. 5 : /\ CommandFrom(Events[i]).op = Events[i].kind
                         /\ CommandFrom(Events[i]).id = Events[i].agg
                         /\ CommandFrom(Events[i]).parent = Events[i].parent
                         /\ CommandFrom(Events[i]).order = Events[i].order
                         /\ CommandFrom(Events[i]).ev = Events[i].ev
    /\ CommandFrom(Events[5]).caus = 4 /\ CommandFrom(Events[5]).qty = 2
    /\ SeedQty = 10 /\ Final.qty = 8 /\ Final.ver = 1
<1>1. /\ Events[1] = Hop(1, "supplier", NoId, NoId)
      /\ Events[2] = Hop(2, "ingredient_lot", "supplier", NoId)
      /\ Events[3] = Hop(3, "production_batch", "ingredient_lot", NoId)
      /\ Events[4] = Hop(4, "shipment", "production_batch", "order")
      /\ Events[5] = [ev |-> 5, kind |-> Inventory, agg |-> Item, ver |-> 1, caus |-> 4,
                      parent |-> NoId, order |-> "order", before |-> 10, after |-> 8]
  BY DEF Events
<1>2. 2 .. 4 = {2, 3, 4}
  OBVIOUS
<1>3. \A i \in {2, 3, 4} :
          LET c == CommandFrom(Events[i])
          IN  /\ c.op = Events[i].kind /\ c.caus = i - 1 /\ c.caus # NoEvent
              /\ ParentKind[c.op] = Events[i - 1].kind /\ c.parent = Events[i - 1].agg
  BY SMT, <1>1 DEF Hop, CommandFrom, NoEvent, ParentKind
<1>4. CommandFrom(Events[1]).op = "supplier" /\ CommandFrom(Events[1]).caus = NoEvent
  BY SMT, <1>1 DEF Hop, CommandFrom, NoEvent
<1>5. /\ Events[1].kind = "supplier" /\ Events[2].kind = "ingredient_lot"
      /\ Events[3].kind = "production_batch" /\ Events[4].kind = "shipment"
      /\ Events[4].order = Events[5].order
  BY SMT, <1>1 DEF Hop
<1>6. CommandFrom(Events[5]).caus = 4 /\ CommandFrom(Events[5]).qty = 2
  BY <1>1 DEF CommandFrom
<1>7. SeedQty = 10 /\ Final.qty = 8 /\ Final.ver = 1
  BY <1>1, ScenarioAssumption DEF Final
<1>8. \A i \in 1 .. 5 : /\ CommandFrom(Events[i]).op = Events[i].kind
                        /\ CommandFrom(Events[i]).id = Events[i].agg
                        /\ CommandFrom(Events[i]).parent = Events[i].parent
                        /\ CommandFrom(Events[i]).order = Events[i].order
                        /\ CommandFrom(Events[i]).ev = Events[i].ev
  BY DEF CommandFrom
<1> QED BY <1>2, <1>3, <1>4, <1>5, <1>6, <1>7, <1>8

\* Parts of the two lemmas above, for the proofs that need no more than these.
LEMMA EventNumbers == \A i \in 1 .. 5 : Events[i].ev = i
BY FixtureEvents

LEMMA HopEnvelopes ==
    \A i \in 1 .. 4 : /\ Events[i].kind # Inventory
                      /\ HopEnvelope(CommandFrom(Events[i])) = Events[i]
BY FixtureEvents

LEMMA CommandFields ==
    \A i \in 1 .. 5 : /\ CommandFrom(Events[i]).op = Events[i].kind
                      /\ CommandFrom(Events[i]).id = Events[i].agg
                      /\ CommandFrom(Events[i]).parent = Events[i].parent
                      /\ CommandFrom(Events[i]).order = Events[i].order
                      /\ CommandFrom(Events[i]).ev = Events[i].ev
BY FixtureParents

-----------------------------------------------------------------------------
(* What the source answers the fixture's commands.                         *)

LEMMA HopsFound ==
    ASSUME LedgerIsFixture, NEW i \in 1 .. 4, NEW w \in rows, w.kind = Events[i].kind
    PROVE  w = SourceRow(Events[i]) /\ Done(i)
<1>1. PICK j \in 1 .. 4 : w = SourceRow(Events[j]) /\ Done(j)
  BY DEF LedgerIsFixture
<1>2. w.kind = Events[j].kind
  BY <1>1 DEF SourceRow
<1>3. i \in 1 .. 5 /\ j \in 1 .. 5
  OBVIOUS
<1>4. \A k, m \in 1 .. 5 : Events[k].kind = Events[m].kind => k = m
  BY FixtureEvents
<1>5. j = i
  BY <1>2, <1>3, <1>4
<1> QED BY <1>1, <1>5

LEMMA EventsFound ==
    ASSUME LedgerIsFixture, NEW i \in 1 .. 5, NEW r \in outbox,
           r.msg.ev = i \/ SameAggregate(r.msg, Events[i])
    PROVE  r.msg = Events[i] /\ Done(i)
<1>1. r.msg # IncompleteRow
  <2>1. IncompleteRow.ev = 100
    BY DEF IncompleteRow
  <2>2. ~ SameAggregate(IncompleteRow, Events[i])
    BY SMT, FixtureEvents DEF SameAggregate
  <2> QED BY <2>1, <2>2
<1>2. PICK j \in 1 .. 5 : r.msg = Events[j]
  BY <1>1 DEF LedgerIsFixture
<1>3. j = i
  BY SMT, <1>2, FixtureEvents DEF SameAggregate
<1> QED BY <1>2, <1>3 DEF Done

LEMMA HopInserted ==
    ASSUME LedgerIsFixture, NEW i \in 1 .. 4
    PROVE  /\ FinishSourceHop(CommandFrom(Events[i])) \in DuplicateErrors \cup {Accepted}
           /\ FinishSourceHop(CommandFrom(Events[i])) # Accepted => Done(i)
<1> DEFINE c == CommandFrom(Events[i])
           taken == \E r \in rows : /\ r.kind = c.op
                                    /\ \/ r.id = c.id
                                       \/ r.parent = c.parent /\ c.parent # NoId
                                       \/ r.order = c.order /\ c.order # NoId
           known == \E r \in outbox : r.msg.ev = Events[i].ev \/ SameAggregate(r.msg, Events[i])
<1>1. HopEnvelope(c) = Events[i] /\ Events[i].ev = i /\ i \in 1 .. 5
  BY SMT, FixtureEvents
<1>2. c.op = Events[i].kind
  BY <1>1, FixtureParents
<1>3. FinishSourceHop(c) = IF taken THEN "duplicate source"
                           ELSE IF known THEN "duplicate event" ELSE Accepted
  BY <1>1 DEF FinishSourceHop, InsertPendingOutbox
<1>4. taken => Done(i)
  BY <1>2, HopsFound
<1>5. known => Done(i)
  BY <1>1, EventsFound
<1> HIDE DEF c, taken, known
<1>6. /\ FinishSourceHop(c) \in DuplicateErrors \cup {Accepted}
      /\ FinishSourceHop(c) # Accepted => Done(i)
  BY <1>3, <1>4, <1>5 DEF DuplicateErrors, Accepted
<1> QED BY <1>6 DEF c

LEMMA CauseFound ==
    ASSUME LedgerIsFixture, NEW i \in 1 .. 4, Done(i)
    PROVE  CausationError(Events[i].kind, Events[i].agg, i) = Accepted
<1> DEFINE events == {r.msg : r \in {q \in outbox : /\ q.msg.kind = Events[i].kind
                                                   /\ q.msg.agg = Events[i].agg}}
<1>1. PICK r \in outbox : r.msg = Events[i]
  BY DEF Done
<1>2. Events[i] \in events
  BY <1>1
<1>3. ASSUME NEW e \in events PROVE e = Events[i]
  <2>1. PICK q \in outbox : q.msg = e /\ e.kind = Events[i].kind
    OBVIOUS
  <2>2. e # IncompleteRow /\ i \in 1 .. 5
    BY SMT, <2>1, FixtureEvents
  <2>3. PICK j \in 1 .. 5 : e = Events[j]
    BY <2>1, <2>2 DEF LedgerIsFixture
  <2> QED BY SMT, <2>1, <2>2, <2>3, FixtureEvents
<1>4. events = {Events[i]}
  BY <1>2, <1>3
<1>5. Events[i].ev = i /\ Events[i].ver = 1
  BY SMT, FixtureEvents
<1> HIDE DEF events
<1>6. events # {} /\ \E e \in events : (\A f \in events : e.ver <= f.ver) /\ e.ev = i
  BY SMT, <1>4, <1>5
<1>7. CausationError(Events[i].kind, Events[i].agg, i) =
        CASE events = {} -> "unknown source"
          [] events # {} /\ ~\E e \in events :
                /\ \A f \in events : e.ver <= f.ver
                /\ e.ev = i                         -> "invalid transition"
          [] OTHER                                  -> Accepted
  BY DEF CausationError, events
<1> QED BY <1>6, <1>7

\* A hop after the first: its parent's row and event are needed, and enough.
LEMMA HopAnswered ==
    ASSUME LedgerIsFixture, NEW i \in 2 .. 4
    PROVE  /\ Done(i - 1) /\ stock.seeded =>
                 Answer(CommandFrom(Events[i])) = FinishSourceHop(CommandFrom(Events[i]))
           /\ Answer(CommandFrom(Events[i])) = Accepted => Done(i - 1) /\ (i = 2 => stock.seeded)
<1> DEFINE c == CommandFrom(Events[i])
           has == HasRow(Events[i - 1].kind, c.parent)
<1>0. i - 1 \in 1 .. 4 /\ i \in 1 .. 5
  OBVIOUS
<1>1. /\ c.op = Events[i].kind /\ c.caus = i - 1 /\ c.caus # NoEvent
      /\ ParentKind[c.op] = Events[i - 1].kind /\ c.parent = Events[i - 1].agg
  BY FixtureParents
<1>2. /\ has /\ (i = 2 => stock.seeded) => Answer(c) = CausedHop(c)
      /\ Answer(c) = Accepted => has /\ (i = 2 => stock.seeded)
  <2>1. CASE i = 2
    <3>1. c.op = "ingredient_lot" /\ Events[i - 1].kind = "supplier"
      BY SMT, <1>1, <2>1, FixtureParents
    <3> HIDE DEF c
    <3>2. Answer(c) = ReceiveIngredientLot(c)
      BY <3>1 DEF Answer, Inventory
    <3>3. has <=> HasRow("supplier", c.parent)
      BY <3>1
    <3>4. c.caus # NoEvent /\ i = 2
      BY <1>1, <2>1
    <3> HIDE DEF has
    <3> QED BY <3>2, <3>3, <3>4 DEF ReceiveIngredientLot, Accepted
  <2>2. CASE i = 3
    <3>1. c.op = "production_batch" /\ Events[i - 1].kind = "ingredient_lot"
      BY SMT, <1>1, <2>2, FixtureParents
    <3> HIDE DEF c
    <3>2. Answer(c) = ProduceProductionBatch(c)
      BY <3>1 DEF Answer, Inventory
    <3>3. has <=> HasRow("ingredient_lot", c.parent)
      BY <3>1
    <3>4. c.caus # NoEvent /\ i # 2
      BY SMT, <1>1, <2>2
    <3> HIDE DEF has
    <3> QED BY <3>2, <3>3, <3>4 DEF ProduceProductionBatch, Accepted
  <2>3. CASE i = 4
    <3>1. c.op = "shipment" /\ Events[i - 1].kind = "production_batch"
      BY SMT, <1>1, <2>3, FixtureParents
    <3> HIDE DEF c
    <3>2. Answer(c) = DispatchShipment(c)
      BY <3>1 DEF Answer, Inventory
    <3>3. has <=> HasRow("production_batch", c.parent)
      BY <3>1
    <3>4. c.caus # NoEvent /\ i # 2
      BY <1>1, <2>3
    <3> HIDE DEF has
    <3> QED BY <3>2, <3>3, <3>4 DEF DispatchShipment, Accepted
  <2> QED BY <2>1, <2>2, <2>3
<1> HIDE DEF c
<1>3. has => Done(i - 1)
  <2>1. has => \E w \in rows : w.kind = Events[i - 1].kind
    BY DEF HasRow
  <2> QED BY <1>0, <2>1, HopsFound
<1>4. Done(i - 1) => has
  <2> SUFFICES ASSUME Done(i - 1) PROVE has
    OBVIOUS
  <2>1. SourceRow(Events[i - 1]) \in rows
    BY <1>0 DEF LedgerIsFixture
  <2> QED BY <1>1, <2>1 DEF HasRow, SourceRow
<1>5. Done(i - 1) => CausedHop(c) = FinishSourceHop(c)
  <2> SUFFICES ASSUME Done(i - 1) PROVE CausedHop(c) = FinishSourceHop(c)
    OBVIOUS
  <2>1. CausationError(ParentKind[c.op], c.parent, c.caus) = Accepted
    BY <1>0, <1>1, CauseFound
  <2> QED BY <2>1 DEF CausedHop
<1> HIDE DEF has
<1>6. /\ Done(i - 1) /\ stock.seeded => Answer(c) = FinishSourceHop(c)
      /\ Answer(c) = Accepted => Done(i - 1) /\ (i = 2 => stock.seeded)
  BY <1>2, <1>3, <1>4, <1>5
<1> QED BY <1>6 DEF c

LEMMA SupplierAnswered ==
    Answer(CommandFrom(Events[1])) = FinishSourceHop(CommandFrom(Events[1]))
<1> DEFINE c == CommandFrom(Events[1])
<1>1. c.op = "supplier" /\ c.caus = NoEvent
  BY FixtureParents
<1> HIDE DEF c
<1>2. Answer(c) = FinishSourceHop(c)
  BY <1>1 DEF Answer, RegisterSupplier, Inventory
<1> QED BY <1>2 DEF c

\* The order: the shipment that names it, the seeded stock, and no order yet.
LEMMA OrderAnswered ==
    ASSUME LedgerIsFixture
    PROVE  LET c == CommandFrom(Events[5])
           IN  /\ Done(4) /\ stock.seeded =>
                     /\ Answer(c) \in DuplicateErrors \cup {Accepted}
                     /\ Answer(c) # Accepted => Done(5)
               /\ Answer(c) = Accepted =>
                     Done(4) /\ ~Done(5) /\ stock = Seeded /\ OrderEnvelope(c) = Events[5]
<1> DEFINE c == CommandFrom(Events[5])
           err == RequireOrderShipmentCausation(c)
           ordered == \E o \in orders : o.id = c.order
           ins == InsertPendingOutbox(OrderEnvelope(c))
           shipments == {r \in rows : r.kind = "shipment" /\ r.order = c.order}
<1>1. /\ c.op = Inventory /\ c.order = Events[5].order /\ c.caus = 4 /\ c.qty = 2
      /\ Events[4].kind = "shipment" /\ Events[4].order = c.order
      /\ SeedQty = 10 /\ Final.qty = 8 /\ Final.ver = 1
  <2>1. 5 \in 1 .. 5 /\ Events[5].kind = Inventory
    BY SMT, FixtureEvents
  <2>2. /\ c.caus = 4 /\ c.qty = 2
        /\ Events[4].kind = "shipment" /\ Events[4].order = Events[5].order
        /\ SeedQty = 10 /\ Final.qty = 8 /\ Final.ver = 1
    BY FixtureParents
  <2> QED BY <2>1, <2>2, CommandFields
<1>2. stock = Seeded => OrderEnvelope(c) = Events[5]
  <2> SUFFICES ASSUME stock = Seeded PROVE OrderEnvelope(c) = Events[5]
    OBVIOUS
  <2>1. Events[5] = [ev |-> 5, kind |-> Inventory, agg |-> Item, ver |-> 1, caus |-> 4,
                     parent |-> NoId, order |-> "order", before |-> 10, after |-> 8]
    BY DEF Events
  <2>2. c.ev = 5 /\ c.id = Item /\ c.caus = 4 /\ c.order = "order"
    BY SMT, <2>1 DEF CommandFrom
  <2>3. stock.ver + 1 = 1 /\ stock.qty = 10 /\ stock.qty - c.qty = 8
    BY <1>1 DEF Seeded
  <2> HIDE DEF c
  <2> QED BY <2>1, <2>2, <2>3 DEF OrderEnvelope
<1>3. err = IF shipments = {}
            THEN IF c.caus = NoEvent THEN Accepted ELSE "invalid transition"
            ELSE CausationError("shipment", (CHOOSE r \in shipments : TRUE).id, c.caus)
  BY DEF RequireOrderShipmentCausation
<1>4. /\ (stock.seeded /\ ~(stock.qty < c.qty) /\ err = Accepted /\ ~ordered) => Answer(c) = ins
      /\ (stock.seeded /\ ~(stock.qty < c.qty) /\ err = Accepted /\ ordered) =>
            Answer(c) = "duplicate order"
      /\ Answer(c) = Accepted => stock.seeded /\ err = Accepted /\ ~ordered
  <2> HIDE DEF c, err, ins
  <2>1. Answer(c) = AcceptOrder(c)
    BY <1>1 DEF Answer, Inventory
  <2> QED BY <2>1 DEF AcceptOrder, Accepted, err, ins
<1>5. ordered <=> Done(5)
  BY <1>1 DEF LedgerIsFixture
<1>6. shipments # {} => Done(4)
  <2> SUFFICES ASSUME NEW w \in shipments PROVE Done(4)
    OBVIOUS
  <2> QED BY SMT, <1>1, HopsFound
<1>7. Done(4) => shipments = {SourceRow(Events[4])}
  <2> SUFFICES ASSUME Done(4) PROVE shipments = {SourceRow(Events[4])}
    OBVIOUS
  <2>1. \A w \in shipments : w = SourceRow(Events[4])
    BY SMT, <1>1, HopsFound
  <2>2. SourceRow(Events[4]) \in rows
    BY SMT DEF LedgerIsFixture
  <2>3. SourceRow(Events[4]).kind = "shipment" /\ SourceRow(Events[4]).order = c.order
    BY <1>1 DEF SourceRow
  <2> QED BY <2>1, <2>2, <2>3
<1> HIDE DEF c, err, ordered, ins, shipments
<1>8. Done(4) => err = Accepted
  <2> SUFFICES ASSUME Done(4) PROVE err = Accepted
    OBVIOUS
  <2>1. (CHOOSE r \in shipments : TRUE) = SourceRow(Events[4])
    BY <1>7
  <2>2. SourceRow(Events[4]).id = Events[4].agg
    BY DEF SourceRow
  <2>3. CausationError(Events[4].kind, Events[4].agg, 4) = Accepted
    BY CauseFound
  <2>4. shipments # {}
    BY <1>7
  <2> QED BY <1>1, <1>3, <2>1, <2>2, <2>3, <2>4
<1>9. err = Accepted => Done(4)
  BY <1>1, <1>3, <1>6 DEF Accepted, NoEvent
<1>10. stock \in {Seeded, Unseeded, Sold} /\ (stock = Sold => Done(5))
  BY <1>1 DEF LedgerIsFixture, Sold, Seeded, Unseeded
<1>11. stock.seeded => ~(stock.qty < c.qty)
  BY <1>1, <1>10 DEF Sold, Seeded, Unseeded
<1>12. ins \in {"duplicate event", Accepted} /\ (stock = Seeded /\ ins # Accepted => Done(5))
  <2>1. ins = IF \E r \in outbox : r.msg.ev = OrderEnvelope(c).ev
                                    \/ SameAggregate(r.msg, OrderEnvelope(c))
              THEN "duplicate event" ELSE Accepted
    BY DEF ins, InsertPendingOutbox
  <2>2. ASSUME stock = Seeded, ins # Accepted PROVE Done(5)
    <3>1. PICK r \in outbox : r.msg.ev = Events[5].ev \/ SameAggregate(r.msg, Events[5])
      BY <1>2, <2>1, <2>2
    <3>2. Events[5].ev = 5
      BY SMT, FixtureEvents
    <3> QED BY SMT, <3>1, <3>2, EventsFound
  <2> QED BY <2>1, <2>2
<1>13. stock.seeded => stock = Seeded \/ Done(5)
  BY <1>10 DEF Unseeded
<1>14. stock.seeded /\ ~Done(5) => stock = Seeded
  BY <1>13
<1>15. /\ Done(4) /\ stock.seeded =>
             /\ Answer(c) \in DuplicateErrors \cup {Accepted}
             /\ Answer(c) # Accepted => Done(5)
       /\ Answer(c) = Accepted =>
             Done(4) /\ ~Done(5) /\ stock = Seeded /\ OrderEnvelope(c) = Events[5]
  BY <1>2, <1>4, <1>5, <1>8, <1>9, <1>11, <1>12, <1>14 DEF DuplicateErrors
<1> QED BY <1>15 DEF c

-----------------------------------------------------------------------------
(* What the transactions make of a source that only the fixture made.      *)

LEMMA SameEventsFit ==
    ASSUME LedgerIsFixture, UNCHANGED <<stock, orders, rows>>,
           \A j \in 1 .. 5 : Done(j)' <=> Done(j),
           \A r \in outbox' : \/ r.msg = IncompleteRow /\ r.status = "quarantined"
                              \/ \E i \in 1 .. 5 : r.msg = Events[i]
    PROVE  LedgerIsFixture' /\ DoneSet' = DoneSet
<1>1. DoneSet' = DoneSet
  BY DEF DoneSet
<1>2. Done(2)' <=> Done(2)
  OBVIOUS
<1>3. Done(5)' <=> Done(5)
  OBVIOUS
<1>4. \A j \in 2 .. 5 : Done(j)' => Done(j - 1)'
  <2> SUFFICES ASSUME NEW j \in 2 .. 5, Done(j)' PROVE Done(j - 1)'
    OBVIOUS
  <2>1. j \in 1 .. 5 /\ j - 1 \in 1 .. 5
    OBVIOUS
  <2> QED BY <2>1 DEF LedgerIsFixture
<1>5. \A w \in rows' : \E i \in 1 .. 4 : w = SourceRow(Events[i]) /\ Done(i)'
  <2> SUFFICES ASSUME NEW w \in rows PROVE \E i \in 1 .. 4 : w = SourceRow(Events[i]) /\ Done(i)'
    OBVIOUS
  <2>1. PICK i \in 1 .. 4 : w = SourceRow(Events[i]) /\ Done(i)
    BY DEF LedgerIsFixture
  <2>2. i \in 1 .. 5
    OBVIOUS
  <2> QED BY <2>1, <2>2
<1>6. \A i \in 1 .. 4 : Done(i)' => SourceRow(Events[i]) \in rows'
  <2> SUFFICES ASSUME NEW i \in 1 .. 4, Done(i)' PROVE SourceRow(Events[i]) \in rows
    OBVIOUS
  <2>1. i \in 1 .. 5
    OBVIOUS
  <2> QED BY <2>1 DEF LedgerIsFixture
<1> QED BY <1>1, <1>2, <1>3, <1>4, <1>5, <1>6 DEF LedgerIsFixture

LEMMA AcceptedHopFits ==
    ASSUME LedgerIsFixture, NEW i \in 1 .. 4, Accept(CommandFrom(Events[i]))
    PROVE  /\ LedgerIsFixture' /\ UNCHANGED stock
           /\ DoneSet' = DoneSet \cup {i}
           /\ Pending(Events[i]) \in outbox'
<1> DEFINE c == CommandFrom(Events[i])
           p == Pending(Events[i])
<1>0. i \in 1 .. 5
  OBVIOUS
<1>1. /\ HopEnvelope(c) = Events[i] /\ c.op = Events[i].kind /\ c.op # Inventory
      /\ c.id = Events[i].agg /\ c.parent = Events[i].parent /\ c.order = Events[i].order
  BY ZenonT(60), <1>0, HopEnvelopes, CommandFields
<1>2. p.msg = Events[i]
  BY DEF Pending, Row
<1> HIDE DEF p
<1>3. /\ outbox' = outbox \cup {p} /\ rows' = rows \cup {SourceRow(Events[i])}
      /\ UNCHANGED <<stock, orders>> /\ Answer(c) = Accepted
  BY <1>1 DEF Accept, CommitHop, SourceRow, p
<1>4. (i # 1 => Done(i - 1)) /\ (i = 2 => stock.seeded)
  <2>1. CASE i = 1
    BY <2>1
  <2>2. CASE i \in 2 .. 4
    BY <1>3, <2>2, HopAnswered
  <2> QED BY <2>1, <2>2
<1> HIDE DEF c
<1>5. \A j \in 1 .. 5 : Done(j)' <=> Done(j) \/ j = i
  <2> SUFFICES ASSUME NEW j \in 1 .. 5 PROVE Done(j)' <=> Done(j) \/ j = i
    OBVIOUS
  <2>1. Events[i] = Events[j] => i = j
    BY <1>0, FixtureEvents
  <2> QED BY <1>2, <1>3, <2>1 DEF Done
<1>6. DoneSet' = DoneSet \cup {i}
  BY <1>0, <1>5 DEF DoneSet
<1>7. \A j \in 2 .. 5 : Done(j)' => Done(j - 1)'
  <2> SUFFICES ASSUME NEW j \in 2 .. 5, Done(j)' PROVE Done(j - 1)'
    OBVIOUS
  <2>1. j \in 1 .. 5 /\ j - 1 \in 1 .. 5
    OBVIOUS
  <2>2. Done(j) => Done(j - 1)
    BY DEF LedgerIsFixture
  <2>3. j = i => Done(j - 1)
    BY <1>4
  <2> QED BY <1>5, <2>1, <2>2, <2>3
<1>8. \A r \in outbox' : \/ r.msg = IncompleteRow /\ r.status = "quarantined"
                         \/ \E j \in 1 .. 5 : r.msg = Events[j]
  BY <1>0, <1>2, <1>3 DEF LedgerIsFixture
<1>9. \A w \in rows' : \E j \in 1 .. 4 : w = SourceRow(Events[j]) /\ Done(j)'
  <2> SUFFICES ASSUME NEW w \in rows'
               PROVE  \E j \in 1 .. 4 : w = SourceRow(Events[j]) /\ Done(j)'
    OBVIOUS
  <2>1. CASE w \in rows
    <3>1. PICK j \in 1 .. 4 : w = SourceRow(Events[j]) /\ Done(j)
      BY <2>1 DEF LedgerIsFixture
    <3>2. j \in 1 .. 5
      OBVIOUS
    <3> QED BY <1>5, <3>1, <3>2
  <2>2. CASE w = SourceRow(Events[i])
    BY <1>0, <1>5, <2>2
  <2> QED BY <1>3, <2>1, <2>2
<1>10. \A j \in 1 .. 4 : Done(j)' => SourceRow(Events[j]) \in rows'
  <2> SUFFICES ASSUME NEW j \in 1 .. 4, Done(j)' PROVE SourceRow(Events[j]) \in rows'
    OBVIOUS
  <2>1. j \in 1 .. 5 /\ (Done(j) \/ j = i)
    BY <1>5
  <2> QED BY <1>3, <2>1 DEF LedgerIsFixture
<1>11. (Done(5)' <=> Done(5)) /\ (Done(2)' => stock.seeded)
  <2>1. Done(2) => stock.seeded
    BY DEF LedgerIsFixture
  <2> QED BY SMT, <1>4, <1>5, <2>1
<1>12. LedgerIsFixture'
  BY <1>3, <1>7, <1>8, <1>9, <1>10, <1>11 DEF LedgerIsFixture
<1> QED BY <1>3, <1>6, <1>12 DEF p

LEMMA AcceptedOrderFits ==
    ASSUME LedgerIsFixture, Accept(CommandFrom(Events[5]))
    PROVE  /\ LedgerIsFixture' /\ stock'.seeded
           /\ DoneSet' = DoneSet \cup {5}
           /\ Pending(Events[5]) \in outbox'
<1> DEFINE c == CommandFrom(Events[5])
           p == Pending(Events[5])
<1>1. /\ c.op = Inventory /\ c.order = Events[5].order /\ c.qty = 2
      /\ SeedQty = 10 /\ Final.qty = 8 /\ Final.ver = 1
  <2>1. 5 \in 1 .. 5 /\ Events[5].kind = Inventory
    BY SMT, FixtureEvents
  <2>2. c.qty = 2 /\ SeedQty = 10 /\ Final.qty = 8 /\ Final.ver = 1
    BY FixtureParents
  <2> QED BY <2>1, <2>2, CommandFields
<1>2. p.msg = Events[5]
  BY DEF Pending, Row
<1>3. Answer(c) = Accepted /\ CommitOrder(c)
  BY <1>1 DEF Accept
<1>4. Done(4) /\ ~Done(5) /\ stock = Seeded /\ OrderEnvelope(c) = Events[5]
  BY <1>3, OrderAnswered
<1> HIDE DEF p
<1>5. /\ outbox' = outbox \cup {p} /\ UNCHANGED rows
      /\ orders' = orders \cup {[id |-> c.order, qty |-> c.qty]}
      /\ stock' = [stock EXCEPT !.qty = @ - c.qty, !.ver = @ + 1]
  BY <1>3, <1>4 DEF CommitOrder, p
<1> HIDE DEF c
<1>6. stock' = Sold /\ Sold.seeded
  <2>1. stock' = [seeded |-> TRUE, qty |-> SeedQty - c.qty, ver |-> 0 + 1]
    BY <1>4, <1>5 DEF Seeded
  <2>2. SeedQty - c.qty = Final.qty /\ 0 + 1 = Final.ver
    BY <1>1
  <2> QED BY <2>1, <2>2 DEF Sold
<1>7. \A j \in 1 .. 5 : Done(j)' <=> Done(j) \/ j = 5
  <2> SUFFICES ASSUME NEW j \in 1 .. 5 PROVE Done(j)' <=> Done(j) \/ j = 5
    OBVIOUS
  <2>1. Events[5] = Events[j] => 5 = j
    BY SMT, FixtureEvents
  <2> QED BY <1>2, <1>5, <2>1 DEF Done
<1>8. DoneSet' = DoneSet \cup {5}
  BY <1>7 DEF DoneSet
<1>9. \A j \in 2 .. 5 : Done(j)' => Done(j - 1)'
  <2> SUFFICES ASSUME NEW j \in 2 .. 5, Done(j)' PROVE Done(j - 1)'
    OBVIOUS
  <2>1. j \in 1 .. 5 /\ j - 1 \in 1 .. 5
    OBVIOUS
  <2>2. Done(j) => Done(j - 1)
    BY DEF LedgerIsFixture
  <2>3. j = 5 => Done(j - 1)
    BY <1>4
  <2> QED BY <1>7, <2>1, <2>2, <2>3
<1>10. \A r \in outbox' : \/ r.msg = IncompleteRow /\ r.status = "quarantined"
                          \/ \E j \in 1 .. 5 : r.msg = Events[j]
  BY SMT, <1>2, <1>5 DEF LedgerIsFixture
<1>11. /\ \A w \in rows' : \E j \in 1 .. 4 : w = SourceRow(Events[j]) /\ Done(j)'
       /\ \A j \in 1 .. 4 : Done(j)' => SourceRow(Events[j]) \in rows'
  <2>1. \A j \in 1 .. 4 : Done(j)' <=> Done(j)
    BY <1>7
  <2> QED BY <1>5, <2>1 DEF LedgerIsFixture
<1>12. Done(5)' /\ \E o \in orders' : o.id = Events[5].order
  <2>1. Done(5)'
    BY <1>7
  <2>2. [id |-> c.order, qty |-> c.qty].id = Events[5].order
    BY <1>1
  <2> QED BY <1>5, <2>1, <2>2
<1>13. LedgerIsFixture'
  BY ZenonT(60), <1>6, <1>9, <1>10, <1>11, <1>12 DEF LedgerIsFixture
<1> QED BY <1>5, <1>6, <1>8, <1>13 DEF p

LEMMA SeedFits ==
    ASSUME LedgerIsFixture, SeedInventory
    PROVE  LedgerIsFixture' /\ stock'.seeded /\ DoneSet' = DoneSet
<1>1. stock' = Seeded /\ Seeded.seeded /\ Sold.seeded /\ UNCHANGED <<orders, rows, outbox>>
  BY DEF SeedInventory, Seeded, Sold
<1>2. ~Done(5)
  BY <1>1 DEF LedgerIsFixture, SeedInventory
<1>3. \A j : Done(j)' <=> Done(j)
  BY <1>1 DEF Done
<1>4. DoneSet' = DoneSet
  BY <1>3 DEF DoneSet
<1>5. LedgerIsFixture'
  BY <1>1, <1>2, <1>3 DEF LedgerIsFixture
<1> QED BY <1>1, <1>4, <1>5

LEMMA PublishedFits ==
    ASSUME LedgerIsFixture, SourceShape, NEW r \in outbox, MarkPublished(r)
    PROVE  LedgerIsFixture' /\ UNCHANGED stock /\ DoneSet' = DoneSet
<1> DEFINE p == [r EXCEPT !.status = "published"]
<1>1. p.msg = r.msg
  BY SMT DEF SourceShape
<1>2. /\ outbox' = (outbox \ {r}) \cup {p} /\ UNCHANGED <<stock, orders, rows>>
      /\ r.status = "pending"
  BY DEF MarkPublished
<1> HIDE DEF p
<1>3. \A j : Done(j)' <=> Done(j)
  BY <1>1, <1>2 DEF Done
<1>4. \E i \in 1 .. 5 : r.msg = Events[i]
  BY <1>2 DEF LedgerIsFixture
<1>5. \A q \in outbox' : \/ q.msg = IncompleteRow /\ q.status = "quarantined"
                         \/ \E i \in 1 .. 5 : q.msg = Events[i]
  BY <1>1, <1>2, <1>4 DEF LedgerIsFixture
<1> QED BY <1>2, <1>3, <1>5, SameEventsFit

LEMMA DemoFits ==
    ASSUME LedgerIsFixture, DemoForecastIncomplete
    PROVE  LedgerIsFixture' /\ UNCHANGED stock /\ DoneSet' = DoneSet
<1> DEFINE p == Row(IncompleteRow, "quarantined")
<1>1. p.msg = IncompleteRow /\ p.status = "quarantined"
  BY DEF Row
<1>2. UNCHANGED <<stock, orders, rows>> /\ (outbox' = outbox \/ outbox' = outbox \cup {p})
  BY DEF DemoForecastIncomplete
<1> HIDE DEF p
<1>3. \A j \in 1 .. 5 : IncompleteRow # Events[j]
  BY SMT, FixtureEvents DEF IncompleteRow
<1>4. \A j \in 1 .. 5 : Done(j)' <=> Done(j)
  BY <1>1, <1>2, <1>3 DEF Done
<1>5. \A q \in outbox' : \/ q.msg = IncompleteRow /\ q.status = "quarantined"
                         \/ \E i \in 1 .. 5 : q.msg = Events[i]
  BY <1>1, <1>2 DEF LedgerIsFixture
<1> QED BY <1>2, <1>4, <1>5, SameEventsFit

LEMMA UnchangedFits ==
    ASSUME LedgerIsFixture, UNCHANGED ledgerVars
    PROVE  LedgerIsFixture' /\ UNCHANGED stock /\ DoneSet' = DoneSet
<1>1. UNCHANGED <<stock, orders, rows, outbox>>
  BY DEF ledgerVars
<1>2. \A j : Done(j)' <=> Done(j)
  BY <1>1 DEF Done
<1> QED BY <1>1, <1>2, SameEventsFit DEF LedgerIsFixture

LEMMA EmptyFits ==
    /\ LedgerInit => LedgerIsFixture
    /\ ResetSourceForTenant => LedgerIsFixture'
<1>1. LedgerInit => LedgerIsFixture
  BY DEF LedgerInit, LedgerIsFixture, Done, Unseeded
<1>2. ResetSourceForTenant => LedgerIsFixture'
  BY DEF ResetSourceForTenant, LedgerIsFixture, Done, Unseeded
<1> QED BY <1>1, <1>2

-----------------------------------------------------------------------------
(* The runs, as the source and the topic grow.                             *)

LEMMA FitsGrow ==
    ASSUME NEW x, NEW s, NEW s2, NEW tp \in Seq(Records), NEW tp2, NEW D, NEW D2,
           RunFits(x, s, tp, D), s => s2, D \subseteq D2,
           tp2 = tp \/ \E m \in Records : tp2 = Append(tp, m)
    PROVE  RunFits(x, s2, tp2, D2)
<1>1. ~x.reset => PcFits(x.pc, x.step, s2, D2)
  BY DEF RunFits, PcFits
<1>2. x.busy = "read" => x.pos < Len(tp2) /\ tp2[x.pos + 1] = tp[x.pos + 1]
  BY DEF RunFits
<1>3. x.busy = "read" => RowInHand(x, tp2)
  BY <1>2 DEF RunFits, RowInHand
<1> QED BY <1>1, <1>2, <1>3 DEF RunFits

LEMMA OthersFit ==
    ASSUME RunsFit, Grows, topic \in Seq(Records)
    PROVE  \A d \in Runs : RunFits(run[d], stock'.seeded, topic', DoneSet')
<1> SUFFICES ASSUME NEW d \in Runs PROVE RunFits(run[d], stock'.seeded, topic', DoneSet')
  OBVIOUS
<1>1. RunFits(run[d], stock.seeded, topic, DoneSet)
  BY DEF RunsFit
<1>2. /\ stock.seeded => stock'.seeded
      /\ DoneSet \subseteq DoneSet'
      /\ topic' = topic \/ \E m \in Records : topic' = Append(topic, m)
  BY DEF Grows
<1> QED BY SMT, <1>1, <1>2, FitsGrow

LEMMA OneRunMoves ==
    ASSUME RunShape, RunsFit, Grows, topic \in Seq(Records), NEW b \in Runs, NEW x,
           run' = [run EXCEPT ![b] = x], RunFits(x, stock'.seeded, topic', DoneSet')
    PROVE  RunsFit'
<1> SUFFICES ASSUME NEW d \in Runs PROVE RunFits(run'[d], stock'.seeded, topic', DoneSet')
  BY DEF RunsFit
<1>1. run'[d] = IF d = b THEN x ELSE run[d]
  BY DEF RunShape
<1>2. RunFits(run[d], stock'.seeded, topic', DoneSet')
  BY OthersFit
<1> QED BY <1>1, <1>2

LEMMA NoRunMoves ==
    ASSUME RunsFit, Grows, topic \in Seq(Records), UNCHANGED run
    PROVE  RunsFit'
<1>1. \A d \in Runs : RunFits(run[d], stock'.seeded, topic', DoneSet')
  BY OthersFit
<1> QED BY <1>1 DEF RunsFit

LEMMA GotoFits ==
    ASSUME RunShape, RunsFit, Grows, topic \in Seq(Records), NEW b \in Runs, NEW pc,
           Goto(b, pc), ~run[b].reset => PcFits(pc, run[b].step, stock'.seeded, DoneSet')
    PROVE  RunsFit'
<1> DEFINE x == [run[b] EXCEPT !.pc = pc]
<1>1. run' = [run EXCEPT ![b] = x]
  BY DEF Goto
<1>2. /\ x.pc = pc /\ x.step = run[b].step /\ x.pos = run[b].pos /\ x.busy = run[b].busy
      /\ x.reset = run[b].reset /\ x.row = run[b].row
  BY DEF RunShape, IsRun
<1>3. RunFits(run[b], stock'.seeded, topic', DoneSet')
  BY OthersFit
<1> HIDE DEF x
<1>4. RunFits(x, stock'.seeded, topic', DoneSet')
  BY <1>2, <1>3 DEF RunFits, RowInHand
<1> QED BY <1>1, <1>4, OneRunMoves

LEMMA NextSourceFits ==
    ASSUME RunShape, RunsFit, Grows, topic \in Seq(Records), NEW b \in Runs, NextSource(b),
           ~run[b].reset => /\ stock'.seeded
                            /\ \A j \in 1 .. 5 : j <= run[b].step => j \in DoneSet'
    PROVE  RunsFit'
<1> DEFINE pc == IF run[b].step = 5 THEN "inspect" ELSE "sources"
           step == IF run[b].step = 5 THEN 5 ELSE run[b].step + 1
           x == [run[b] EXCEPT !.pc = pc, !.step = step]
<1>1. run' = [run EXCEPT ![b] = x]
  BY DEF NextSource
<1>2. /\ x.pc = pc /\ x.step = step /\ x.pos = run[b].pos /\ x.busy = run[b].busy
      /\ x.reset = run[b].reset /\ x.row = run[b].row
  BY DEF RunShape, IsRun
<1>3. RunFits(run[b], stock'.seeded, topic', DoneSet')
  BY OthersFit
<1>4. run[b].step \in 1 .. 5
  BY DEF RunShape, IsRun
<1>5. ~run[b].reset => PcFits(pc, step, stock'.seeded, DoneSet')
  <2> SUFFICES ASSUME ~run[b].reset PROVE PcFits(pc, step, stock'.seeded, DoneSet')
    OBVIOUS
  <2>1. pc \in {"inspect", "sources"} /\ (pc = "inspect" => run[b].step = 5)
    OBVIOUS
  <2>2. \A j \in 1 .. 5 : j < step => j \in DoneSet'
    BY <1>4
  <2>3. run[b].step = 5 => \A j \in 1 .. 5 : j \in DoneSet'
    OBVIOUS
  <2> HIDE DEF pc, step
  <2> QED BY <2>1, <2>2, <2>3 DEF PcFits, Looping
<1> HIDE DEF x, pc, step
<1>6. RunFits(x, stock'.seeded, topic', DoneSet')
  BY <1>2, <1>3, <1>5 DEF RunFits, RowInHand
<1> QED BY <1>1, <1>6, OneRunMoves

\* A run that returns from a record, or is halted, has none in hand.
LEMMA ReturnedFits ==
    ASSUME RunShape, RunsFit, Grows, topic \in Seq(Records), NEW b \in Runs,
           Returned(b) \/ Halt(b, "stopped")
    PROVE  RunsFit'
<1>1. RunFits(run[b], stock'.seeded, topic', DoneSet')
  BY OthersFit
<1>2. CASE Returned(b)
  <2> DEFINE x == [run[b] EXCEPT !.busy = "no", !.row = Inbox!NoRow, !.pos = @ + 1]
  <2>1. run' = [run EXCEPT ![b] = x]
    BY <1>2 DEF Returned
  <2>2. /\ x.pc = run[b].pc /\ x.step = run[b].step /\ x.pos = run[b].pos + 1
        /\ x.busy = "no" /\ x.reset = run[b].reset
    BY DEF RunShape, IsRun
  <2>3. x.pos \in Nat
    BY SMT, <1>1, <2>2 DEF RunFits
  <2>4. "no" # "read"
    OBVIOUS
  <2> HIDE DEF x
  <2>5. RunFits(x, stock'.seeded, topic', DoneSet')
    BY <1>1, <2>2, <2>3, <2>4 DEF RunFits
  <2> QED BY <2>1, <2>5, OneRunMoves
<1>3. CASE Halt(b, "stopped")
  <2> DEFINE x == [run[b] EXCEPT !.pc = "stopped", !.busy = "no", !.row = Inbox!NoRow]
  <2>1. run' = [run EXCEPT ![b] = x]
    BY <1>3 DEF Halt
  <2>2. x.pc = "stopped" /\ x.pos = run[b].pos /\ x.busy = "no" /\ x.reset = run[b].reset
    BY DEF RunShape, IsRun
  <2> HIDE DEF x
  <2>3. PcFits(x.pc, x.step, stock'.seeded, DoneSet')
    BY <2>2 DEF PcFits, Looping
  <2>4. "no" # "read"
    OBVIOUS
  <2>5. RunFits(x, stock'.seeded, topic', DoneSet')
    BY <1>1, <2>2, <2>3, <2>4 DEF RunFits
  <2> QED BY <2>1, <2>5, OneRunMoves
<1> QED BY <1>2, <1>3

-----------------------------------------------------------------------------
(* The platform.                                                           *)

LEMMA FixtureIds == 1 .. 5 \subseteq EventIds
<1> SUFFICES ASSUME NEW i \in 1 .. 5 PROVE i \in EventIds
  OBVIOUS
<1>1. CommandFrom(Events[i]) \in Commands /\ CommandFrom(Events[i]).ev = i
  BY FixtureCommands, EventNumbers, CommandFields
<1> QED BY <1>1 DEF EventIds

LEMMA RecordAt ==
    ASSUME PlatformIsFixture, NEW n \in Nat, n < Len(topic), topic[n + 1] # Poison
    PROVE  \E i \in 1 .. 5 : topic[n + 1] = Events[i] /\ topic[n + 1].ev = i
<1>1. topic[n + 1] \in Records
  BY SMT DEF PlatformIsFixture
<1>2. PICK i \in 1 .. 5 : topic[n + 1] = Events[i]
  BY <1>1 DEF Records
<1>3. Events[i].ev = i
  BY FixtureEvents
<1> QED BY <1>2, <1>3

LEMMA TopicGrows ==
    ASSUME PlatformIsFixture, UNCHANGED <<inbox, proj, lineage>>,
           topic' = topic \/ \E m \in Records : topic' = Append(topic, m)
    PROVE  PlatformIsFixture'
<1>1. topic \in Seq(Records) /\ topic' \in Seq(Records)
  BY DEF PlatformIsFixture
<1> QED BY <1>1 DEF PlatformIsFixture

\* An event of the fixture that the lineage holds is the hop found for it.
LEMMA HopHeld ==
    ASSUME PlatformIsFixture, NEW i \in 1 .. 4
    PROVE  HopOf(lineage, Events[i].kind, Events[i].agg)
              = IF Events[i] \in lineage THEN Events[i] ELSE NoHop
<1> DEFINE found == {r \in lineage : r.kind = Events[i].kind /\ r.agg = Events[i].agg}
<1>1. \A r \in found : r = Events[i]
  <2> SUFFICES ASSUME NEW r \in found PROVE r = Events[i]
    OBVIOUS
  <2>1. PICK j \in 1 .. 4 : r = Events[j]
    BY DEF PlatformIsFixture
  <2>2. i \in 1 .. 5 /\ j \in 1 .. 5 /\ Events[j].kind = Events[i].kind
    BY <2>1
  <2>3. \A k, m \in 1 .. 5 : Events[k].kind = Events[m].kind => k = m
    BY FixtureEvents
  <2> QED BY <2>1, <2>2, <2>3
<1>2. HopOf(lineage, Events[i].kind, Events[i].agg)
         = IF found = {} THEN NoHop ELSE CHOOSE r \in found : TRUE
  BY DEF HopOf
<1>3. found = IF Events[i] \in lineage THEN {Events[i]} ELSE {}
  BY <1>1
<1> HIDE DEF found
<1> QED BY <1>2, <1>3

\* Such an event, delivered again, is a duplicate.
LEMMA HeldIsCounted ==
    ASSUME PlatformIsFixture, NEW i \in 1 .. 4, Events[i] \in lineage, NEW r, RowIsFixture(i, r),
           \/ Inbox!Conflicts(r, Events[i]) \/ Inbox!Duplicates(r, Events[i])
           \/ Inbox!Fresh(r, Events[i])
    PROVE  Disposition(r, Events[i]) \in Counted
<1> DEFINE e == Events[i]
<1>1. e.ver = 1 /\ e.kind # Inventory /\ e # NoHop
  BY SMT, FixtureEvents DEF NoHop
<1>2. HopOf(lineage, e.kind, e.agg) = e
  BY HopHeld
<1>3. ~Inbox!Conflicts(r, e)
  BY DEF RowIsFixture, Inbox!Conflicts, Inbox!NoRow
<1> HIDE DEF e
<1>4. ApplyLineage(lineage, e) = Inbox!DuplicateNoop
  <2>1. e.ver <= e.ver /\ ~(e.ver > e.ver + 1) /\ e.ver # e.ver + 1
    BY <1>1
  <2> QED BY <1>1, <1>2, <2>1 DEF ApplyLineage, Inbox!DuplicateNoop
<1>5. Inbox!Duplicates(r, e) => Disposition(r, e) = Inbox!DuplicateNoop
  <2>1. Inbox!Duplicates(r, e) => ~Inbox!Fresh(r, e)
    BY DEF Inbox!Duplicates, Inbox!Fresh, Inbox!Applied, Inbox!DuplicateNoop, Inbox!Gap
  <2> QED BY <1>3, <2>1 DEF Disposition
<1>6. Inbox!Fresh(r, e) /\ ~Inbox!Duplicates(r, e) => Disposition(r, e) = Inbox!DuplicateNoop
  BY <1>1, <1>3, <1>4 DEF Disposition
<1> QED BY <1>3, <1>5, <1>6 DEF e, Counted

LEMMA ProcessedFits ==
    ASSUME PlatformIsFixture, NEW i \in 1 .. 5, NEW r, RowIsFixture(i, r),
           ProcessValidated(r, Events[i]), UNCHANGED topic
    PROVE  PlatformIsFixture'
<1> DEFINE e == Events[i]
           d == Disposition(r, e)
           applied == Inbox!Fresh(r, e) /\ d = Inbox!Applied
           written == Inbox!Conflicts(r, e) \/ Inbox!Duplicates(r, e) \/ Inbox!Fresh(r, e)
           after == IF written THEN Inbox!UpsertInbox(inbox[i], e, d) ELSE inbox[i]
<1>1. e.ev = i /\ e.ver = 1 /\ (e.kind = Inventory => i = 5) /\ (e.kind # Inventory => i \in 1 .. 4)
  BY SMT, FixtureEvents
<1>2. /\ inbox' = [inbox EXCEPT ![i] = after]
      /\ proj' = IF applied /\ e.kind = Inventory THEN Inbox!Projected(e) ELSE proj
      /\ lineage' = IF applied /\ e.kind # Inventory THEN lineage \cup {e} ELSE lineage
  BY <1>1 DEF ProcessValidated
<1>3. i \in EventIds
  BY FixtureIds
<1>4. RowIsFixture(i, inbox[i])
  BY <1>3 DEF PlatformIsFixture
<1>5. RowIsFixture(i, Inbox!UpsertInbox(inbox[i], e, d))
  <2> HIDE DEF d
  <2>1. inbox[i].disp # "none" => inbox[i].hash = e
    BY <1>4 DEF RowIsFixture, Inbox!NoRow
  <2> DEFINE u == Inbox!UpsertInbox(inbox[i], e, d)
  <2>2. /\ u.disp = d
        /\ u.hash = IF d = Inbox!Conflict /\ inbox[i].disp # "none" THEN inbox[i].hash ELSE e
        /\ u.bytes = IF d = Inbox!Gap THEN e ELSE Poison
    BY DEF Inbox!UpsertInbox
  <2> HIDE DEF u, e
  <2>3. u.hash = e
    BY <2>1, <2>2
  <2>4. u.disp = Inbox!Gap => u.bytes = e
    BY <2>2
  <2> QED BY <2>3, <2>4 DEF RowIsFixture, e, u
<1>6. RowIsFixture(i, after)
  <2> HIDE DEF d, written
  <2> QED BY <1>4, <1>5
<1>7. Inbox!Projected(e) = Final \/ e.kind # Inventory
  BY <1>1 DEF Inbox!Projected, Final
<1> HIDE DEF d, written, after, applied
<1>8. DOMAIN inbox' = EventIds /\ \A k \in EventIds : RowIsFixture(k, inbox'[k])
  <2>1. DOMAIN inbox' = EventIds
    BY <1>2 DEF PlatformIsFixture
  <2>2. ASSUME NEW k \in EventIds PROVE RowIsFixture(k, inbox'[k])
    <3>1. inbox'[k] = IF k = i THEN after ELSE inbox[k]
      BY <1>2 DEF PlatformIsFixture
    <3>2. RowIsFixture(k, inbox[k])
      BY DEF PlatformIsFixture
    <3> QED BY <1>6, <3>1, <3>2
  <2> QED BY <2>1, <2>2
<1>9. proj' \in {Inbox!NoView, Final}
  BY <1>2, <1>7 DEF PlatformIsFixture
<1>10. \A f \in lineage' : \E j \in 1 .. 4 : f = Events[j]
  BY <1>1, <1>2 DEF PlatformIsFixture
<1>11. topic' \in Seq(Records)
  BY DEF PlatformIsFixture
<1>12. ASSUME NEW k \in 1 .. 4, Events[k] \in lineage' PROVE inbox'[k].disp \in Counted
  <2>1. k \in EventIds /\ Events[k] # NoHop /\ k \in 1 .. 5
    BY SMT, FixtureIds, FixtureEvents DEF NoHop
  <2>2. CASE k # i
    <3>1. Events[k] # e
      BY SMT, <1>1, <2>1, <2>2, FixtureEvents
    <3>2. Events[k] \in lineage /\ inbox'[k] = inbox[k]
      BY SMT, <1>2, <1>12, <2>2, <3>1 DEF PlatformIsFixture
    <3> QED BY <3>2 DEF PlatformIsFixture
  <2>3. CASE k = i
    <3>1. /\ e.kind # Inventory /\ inbox'[i] = after
          /\ e \in lineage => inbox[i].disp \in Counted
      BY <1>2, <1>3, <2>3, FixtureEvents DEF PlatformIsFixture
    <3>2. e \in lineage \/ applied
      BY <1>2, <1>12, <2>3
    <3>3. written => after.disp = d
      BY DEF after, Inbox!UpsertInbox
    <3>4. ~written => after = inbox[i] /\ ~applied
      BY DEF after, written, applied
    <3>5. applied => d \in Counted
      BY DEF applied, Counted
    <3>6. written /\ e \in lineage => d \in Counted
      BY <1>1, <2>1, <2>3, <3>1, HeldIsCounted DEF written, d
    <3> QED BY <2>3, <3>1, <3>2, <3>3, <3>4, <3>5, <3>6
  <2> QED BY <2>2, <2>3
<1> QED BY <1>8, <1>9, <1>10, <1>11, <1>12 DEF PlatformIsFixture

LEMMA EmptyPlatformFits ==
    ASSUME PlatformIsFixture, ResetDerivedStateForTenant
    PROVE  PlatformIsFixture'
<1>1. /\ inbox' = [k \in EventIds |-> Inbox!NoRow] /\ proj' = Inbox!NoView /\ lineage' = {}
      /\ UNCHANGED topic
  BY DEF ResetDerivedStateForTenant
<1>2. \A k : RowIsFixture(k, Inbox!NoRow)
  BY DEF RowIsFixture
<1> QED BY <1>1, <1>2 DEF PlatformIsFixture

-----------------------------------------------------------------------------
(* What a run finds over such a state.                                     *)

LEMMA VerifiedSame ==
    ASSUME NEW i \in 1 .. 5, Done(i)
    PROVE  VerifyOutbox(Events[i]) = "same"
<1> DEFINE at == {r \in outbox : SameAggregate(r.msg, Events[i])}
<1>1. \E r \in at : r.msg = Events[i]
  BY DEF Done, SameAggregate
<1>2. at # {}
  BY <1>1
<1>3. VerifyOutbox(Events[i]) =
        CASE at = {} /\ (\E r \in outbox : r.msg.ev = Events[i].ev) -> "conflict"
          [] at = {} /\ ~(\E r \in outbox : r.msg.ev = Events[i].ev) -> "missing"
          [] at # {} /\ (\E r \in at : r.msg = Events[i])  -> "same"
          [] OTHER                                 -> "conflict"
  BY DEF VerifyOutbox
<1> HIDE DEF at
<1> QED BY <1>1, <1>2, <1>3

LEMMA NoEventConflicts ==
    ASSUME PlatformIsFixture, NEW i \in 1 .. 5, Done(i)
    PROVE  EventVerdict(Events[i]) # "conflict"
<1> DEFINE e == Events[i]
           row == inbox[i]
           published == \E r \in outbox : r.msg = e /\ r.status = "published"
<1>1. VerifyOutbox(e) = "same"
  BY VerifiedSame
<1>2. e.ev = i
  BY FixtureEvents
<1>3. row = Inbox!NoRow \/ row.hash = e
  BY FixtureIds DEF PlatformIsFixture, RowIsFixture
<1>4. EventVerdict(e) =
        IF VerifyOutbox(e) # "same" THEN VerifyOutbox(e)
        ELSE IF ~published \/ row = Inbox!NoRow THEN "incomplete"
        ELSE CASE row.hash # e -> "conflict"
               [] row.hash = e /\ row.disp \in {"applied", "duplicate_noop"} -> "projected"
               [] row.hash = e /\ row.disp = "quarantined_gap" -> "incomplete"
               [] OTHER -> "terminal"
  BY <1>2 DEF EventVerdict
<1> HIDE DEF e, row, published
<1>5. EventVerdict(e) # "conflict"
  BY <1>1, <1>3, <1>4
<1> QED BY <1>5 DEF e

LEMMA NoViewConflicts ==
    ASSUME PlatformIsFixture
    PROVE  ViewsVerdict \in {"drain", "complete"}
<1> DEFINE source(i) == HopOf(lineage, Events[i].kind, Events[i].agg)
           bad == {i \in 1 .. 4 : source(i) = NoHop \/ source(i).ev # Events[i].ev}
           least == CHOOSE i \in bad : \A j \in bad : i <= j
<1>1. ASSUME NEW i \in 1 .. 4 PROVE source(i) = NoHop \/ source(i) = Events[i]
  <2> DEFINE found == {r \in lineage : r.kind = Events[i].kind /\ r.agg = Events[i].agg}
  <2>1. \A r \in found : r = Events[i]
    <3> SUFFICES ASSUME NEW r \in found PROVE r = Events[i]
      OBVIOUS
    <3>1. PICK j \in 1 .. 4 : r = Events[j]
      BY DEF PlatformIsFixture
    <3>2. i \in 1 .. 5 /\ j \in 1 .. 5 /\ Events[j].kind = Events[i].kind
      BY <3>1
    <3>3. \A k, m \in 1 .. 5 : Events[k].kind = Events[m].kind => k = m
      BY FixtureEvents
    <3> QED BY <3>1, <3>2, <3>3
  <2>2. source(i) = IF found = {} THEN NoHop ELSE CHOOSE r \in found : TRUE
    BY DEF HopOf
  <2> HIDE DEF found, source
  <2>3. found # {} => (CHOOSE r \in found : TRUE) \in found
    OBVIOUS
  <2> QED BY ZenonT(60), <2>1, <2>2, <2>3
<1>2. \A i \in bad : source(i) = NoHop
  BY <1>1
<1>3. bad # {} => least \in bad
  <2> SUFFICES ASSUME bad # {} PROVE \E i \in bad : \A j \in bad : i <= j
    OBVIOUS
  <2>1. bad \subseteq 1 .. 4
    OBVIOUS
  <2> HIDE DEF bad
  <2>2. CASE 1 \in bad
    BY SMT, <2>1, <2>2
  <2>3. CASE 1 \notin bad /\ 2 \in bad
    BY SMT, <2>1, <2>3
  <2>4. CASE 1 \notin bad /\ 2 \notin bad /\ 3 \in bad
    BY SMT, <2>1, <2>4
  <2>5. CASE 1 \notin bad /\ 2 \notin bad /\ 3 \notin bad
    <3>1. \A j \in bad : j = 4
      BY <2>1, <2>5
    <3> QED BY SMT, <3>1
  <2> QED BY <2>2, <2>3, <2>4, <2>5
<1>4. ViewsVerdict =
        CASE proj = Inbox!NoView                            -> "drain"
          [] proj # Inbox!NoView /\ proj # Final            -> "conflict"
          [] proj = Final /\ bad = {}                       -> "complete"
          [] OTHER -> IF source(least) = NoHop THEN "drain" ELSE "conflict"
  BY DEF ViewsVerdict
<1>5. proj \in {Inbox!NoView, Final}
  BY DEF PlatformIsFixture
<1>6. Inbox!NoView # Final
  BY FixtureParents DEF Inbox!NoView, Final
<1>7. bad # {} => source(least) = NoHop
  BY <1>2, <1>3
<1> HIDE DEF bad, least, source
<1> QED BY <1>4, <1>5, <1>6, <1>7

LEMMA AcceptedFits ==
    ASSUME LedgerIsFixture, NEW i \in 1 .. 5, Accept(CommandFrom(Events[i]))
    PROVE  /\ LedgerIsFixture' /\ (stock.seeded => stock'.seeded)
           /\ DoneSet' = DoneSet \cup {i}
           /\ Pending(Events[i]) \in outbox'
<1>1. CASE i \in 1 .. 4
  BY <1>1, AcceptedHopFits
<1>2. CASE i = 5
  BY <1>2, AcceptedOrderFits
<1> QED BY <1>1, <1>2

\* A source that is refused is there already.
LEMMA RefusedIsDone ==
    ASSUME LedgerIsFixture, NEW i \in 1 .. 5, stock.seeded, i # 1 => Done(i - 1),
           Answer(CommandFrom(Events[i])) # Accepted
    PROVE  Answer(CommandFrom(Events[i])) \in DuplicateErrors /\ Done(i)
<1>1. CASE i = 1
  BY <1>1, SupplierAnswered, HopInserted
<1>2. CASE i \in 2 .. 4
  <2>1. Answer(CommandFrom(Events[i])) = FinishSourceHop(CommandFrom(Events[i]))
    BY <1>2, HopAnswered
  <2>2. i \in 1 .. 4
    BY <1>2
  <2> QED BY <2>1, <2>2, HopInserted
<1>3. CASE i = 5
  <2>1. Done(4)
    BY <1>3
  <2> QED BY <1>3, <2>1, OrderAnswered
<1> QED BY <1>1, <1>2, <1>3

-----------------------------------------------------------------------------
(* The steps.                                                              *)

LEMMA ReadersGrow ==
    ASSUME Fixture, ReadOnly
    PROVE  /\ LedgerIsFixture' /\ PlatformIsFixture' /\ Grows
           /\ UNCHANGED stock /\ DoneSet' = DoneSet /\ topic \in Seq(Records)
<1>1. /\ LedgerIsFixture /\ PlatformIsFixture
      /\ UNCHANGED ledgerVars /\ UNCHANGED topic /\ UNCHANGED <<inbox, proj, lineage>>
  BY DEF Fixture, ReadOnly, SourceOnly, platformVars
<1>2. LedgerIsFixture' /\ UNCHANGED stock /\ DoneSet' = DoneSet
  BY <1>1, UnchangedFits
<1>3. PlatformIsFixture' /\ topic \in Seq(Records)
  BY <1>1, TopicGrows DEF PlatformIsFixture
<1> QED BY <1>1, <1>2, <1>3 DEF Grows

\* A step that only reads and moves one run.
LEMMA ReaderGoes ==
    ASSUME Fixture, RunShape, ReadOnly, NEW b \in Runs, NEW pc, Goto(b, pc),
           ~run[b].reset => PcFits(pc, run[b].step, stock.seeded, DoneSet)
    PROVE  Fixture'
<1>1. /\ LedgerIsFixture' /\ PlatformIsFixture' /\ Grows
      /\ UNCHANGED stock /\ DoneSet' = DoneSet /\ topic \in Seq(Records)
  BY ReadersGrow
<1>2. ~run[b].reset => PcFits(pc, run[b].step, stock'.seeded, DoneSet')
  BY <1>1
<1>3. RunsFit'
  BY <1>1, <1>2, GotoFits DEF Fixture
<1> QED BY <1>1, <1>3 DEF Fixture

LEMMA RunAt ==
    ASSUME Fixture, NEW b \in Runs
    PROVE  /\ run[b].pos \in Nat
           /\ run[b].busy = "read" => run[b].pos < Len(topic) /\ RowInHand(run[b], topic)
           /\ ~run[b].reset => PcFits(run[b].pc, run[b].step, stock.seeded, DoneSet)
BY DEF Fixture, RunsFit, RunFits

LEMMA StartFits ==
    ASSUME Fixture, RunShape, NEW b \in Runs, Start(b) \/ Stop(b)
    PROVE  Fixture'
<1>1. /\ LedgerIsFixture' /\ PlatformIsFixture' /\ Grows /\ topic \in Seq(Records)
      /\ RunsFit
  BY ReadersGrow DEF Start, Stop, Fixture
<1>2. CASE Start(b)
  <2> DEFINE x == [NoRun EXCEPT !.pc = "seed", !.reset = resetting]
  <2>1. run' = [run EXCEPT ![b] = x]
    BY <1>2 DEF Start
  <2>2. x.pc = "seed" /\ x.step = 1 /\ x.pos = 0 /\ x.busy = "no"
    BY DEF NoRun
  <2> HIDE DEF x
  <2>3. PcFits(x.pc, x.step, stock'.seeded, DoneSet')
    BY <2>2 DEF PcFits, Looping
  <2>4. x.pos \in Nat /\ x.busy # "read"
    BY <2>2
  <2>5. RunFits(x, stock'.seeded, topic', DoneSet')
    BY <2>3, <2>4 DEF RunFits
  <2>6. RunsFit'
    BY <1>1, <2>1, <2>5, OneRunMoves
  <2> QED BY <1>1, <2>6 DEF Fixture
<1>3. CASE Stop(b)
  <2>1. RunsFit'
    BY <1>1, <1>3, ReturnedFits DEF Stop
  <2> QED BY <1>1, <2>1 DEF Fixture
<1> QED BY <1>2, <1>3

LEMMA InventoryFits ==
    ASSUME Fixture, RunShape, NEW b \in Runs, EnsureInventory(b)
    PROVE  Fixture'
<1>1. /\ LedgerIsFixture /\ PlatformIsFixture /\ RunsFit /\ topic \in Seq(Records)
      /\ run[b].pc = "seed" /\ UNCHANGED topic /\ UNCHANGED <<inbox, proj, lineage>>
  BY DEF Fixture, PlatformIsFixture, EnsureInventory, SourceOnly, platformVars
<1>2. ~run[b].reset => run[b].step = 1
  BY <1>1, RunAt DEF PcFits
<1>3. PlatformIsFixture'
  BY <1>1, TopicGrows
<1>4. CASE SeedInventory /\ Goto(b, "sources")
  <2>1. LedgerIsFixture' /\ stock'.seeded /\ DoneSet' = DoneSet
    BY <1>1, <1>4, SeedFits
  <2>2. Grows
    BY <1>1, <2>1 DEF Grows
  <2>3. ~run[b].reset => PcFits("sources", run[b].step, stock'.seeded, DoneSet')
    BY <1>2, <2>1 DEF PcFits, Looping
  <2>4. RunsFit'
    BY <1>1, <1>4, <2>2, <2>3, GotoFits
  <2> QED BY <1>3, <2>1, <2>4 DEF Fixture
<1>5. CASE stock.seeded /\ Goto(b, "lookup") /\ UNCHANGED ledgerVars
  <2>1. ReadOnly
    BY <1>5 DEF EnsureInventory, ReadOnly
  <2>2. ~run[b].reset => PcFits("lookup", run[b].step, stock.seeded, DoneSet)
    BY <1>2, <1>5 DEF PcFits, Looping
  <2> QED BY <1>5, <2>1, <2>2, ReaderGoes
<1> QED BY <1>4, <1>5 DEF EnsureInventory

LEMMA LookupFits ==
    ASSUME Fixture, RunShape, NEW b \in Runs, LookupInventory(b)
    PROVE  Fixture'
<1> DEFINE pc == CASE ~stock.seeded                       -> "failed"
                   [] stock.seeded /\ stock.qty = SeedQty /\ stock.ver = 0 -> "sources"
                   [] stock.seeded /\ stock.qty = Final.qty /\ stock.ver = 1 ->
                        IF VerifyOutbox(Events[5]) = "same" THEN "sources" ELSE "conflict"
                   [] OTHER                               -> "conflict"
<1>1. run[b].pc = "lookup" /\ Goto(b, pc) /\ ReadOnly /\ LedgerIsFixture
  BY DEF LookupInventory, Fixture
<1>2. ~run[b].reset => PcFits(pc, run[b].step, stock.seeded, DoneSet)
  <2> SUFFICES ASSUME ~run[b].reset PROVE PcFits(pc, run[b].step, stock.seeded, DoneSet)
    OBVIOUS
  <2>1. run[b].step = 1 /\ stock.seeded
    BY <1>1, RunAt DEF PcFits
  <2>2. SeedQty = 10 /\ Final.qty = 8 /\ Final.ver = 1
    BY FixtureParents
  <2>3. \/ stock.qty = SeedQty /\ stock.ver = 0
        \/ stock.qty = Final.qty /\ stock.ver = 1 /\ stock.qty # SeedQty /\ Done(5)
    BY <1>1, <2>1, <2>2 DEF LedgerIsFixture, Sold, Seeded, Unseeded
  <2>4. Done(5) => VerifyOutbox(Events[5]) = "same"
    BY VerifiedSame
  <2>5. pc = "sources"
    <3>1. CASE stock.qty = SeedQty /\ stock.ver = 0
      <4>1. stock.ver # 1
        BY <3>1
      <4> QED BY <2>1, <3>1, <4>1
    <3>2. CASE stock.qty = Final.qty /\ stock.ver = 1 /\ stock.qty # SeedQty /\ Done(5)
      BY <2>1, <2>4, <3>2
    <3> QED BY <2>3, <3>1, <3>2
  <2> HIDE DEF pc
  <2> QED BY <2>1, <2>5 DEF PcFits, Looping
<1> HIDE DEF pc
<1> QED BY <1>1, <1>2, ReaderGoes

LEMMA SourceFits ==
    ASSUME Fixture, RunShape, NEW b \in Runs, EnsureSource(b)
    PROVE  Fixture'
<1>1. PICK i \in 1 .. 5 : i = run[b].step
  BY DEF RunShape, IsRun
<1> DEFINE c == CommandFrom(Events[i])
<1>2. /\ LedgerIsFixture /\ PlatformIsFixture /\ RunsFit /\ topic \in Seq(Records)
      /\ run[b].pc = "sources" /\ UNCHANGED topic /\ UNCHANGED <<inbox, proj, lineage>>
      /\ SourceOnly
  BY DEF Fixture, PlatformIsFixture, EnsureSource, SourceOnly, platformVars
<1>3. PlatformIsFixture'
  BY <1>2, TopicGrows
<1>4. \/ Accept(c) /\ (Pending(Events[i]) \in outbox' => NextSource(b))
      \/ /\ Answer(c) # Accepted /\ UNCHANGED ledgerVars
         /\ Goto(b, IF Answer(c) \in DuplicateErrors THEN "verify" ELSE "failed")
  BY <1>1 DEF EnsureSource
<1>5. ~run[b].reset => stock.seeded /\ \A j \in 1 .. 5 : j < i => j \in DoneSet
  BY <1>1, <1>2, RunAt DEF PcFits
<1>6. CASE Accept(c) /\ (Pending(Events[i]) \in outbox' => NextSource(b))
  <2>1. /\ LedgerIsFixture' /\ (stock.seeded => stock'.seeded)
        /\ DoneSet' = DoneSet \cup {i} /\ NextSource(b)
    BY <1>2, <1>6, AcceptedFits
  <2>2. Grows
    BY <1>2, <2>1 DEF Grows
  <2>3. ~run[b].reset => /\ stock'.seeded
                         /\ \A j \in 1 .. 5 : j <= run[b].step => j \in DoneSet'
    <3>1. \A j \in 1 .. 5 : j <= i => j < i \/ j = i
      OBVIOUS
    <3> QED BY <1>1, <1>5, <2>1, <3>1
  <2>4. RunsFit'
    BY <1>2, <2>1, <2>2, <2>3, NextSourceFits
  <2> QED BY <1>3, <2>1, <2>4 DEF Fixture
<1>7. CASE /\ Answer(c) # Accepted /\ UNCHANGED ledgerVars
           /\ Goto(b, IF Answer(c) \in DuplicateErrors THEN "verify" ELSE "failed")
  <2> DEFINE pc == IF Answer(c) \in DuplicateErrors THEN "verify" ELSE "failed"
  <2>1. ReadOnly
    BY <1>2, <1>7 DEF ReadOnly
  <2>2. ~run[b].reset => PcFits(pc, run[b].step, stock.seeded, DoneSet)
    <3> SUFFICES ASSUME ~run[b].reset PROVE PcFits(pc, run[b].step, stock.seeded, DoneSet)
      OBVIOUS
    <3>1. i # 1 => Done(i - 1)
      <4> SUFFICES ASSUME i # 1 PROVE Done(i - 1)
        OBVIOUS
      <4>1. i - 1 \in 1 .. 5 /\ i - 1 < i
        OBVIOUS
      <4> QED BY <1>5, <4>1 DEF DoneSet
    <3>2. Answer(c) \in DuplicateErrors /\ Done(i)
      BY <1>2, <1>5, <1>7, <3>1, RefusedIsDone
    <3>3. pc = "verify"
      BY <3>2
    <3>4. i \in DoneSet
      BY <3>2 DEF DoneSet
    <3> HIDE DEF pc
    <3> QED BY <1>1, <1>5, <3>3, <3>4 DEF PcFits, Looping
  <2>3. Goto(b, pc)
    BY <1>7
  <2> HIDE DEF pc
  <2> QED BY <2>1, <2>2, <2>3, ReaderGoes
<1> QED BY <1>4, <1>6, <1>7

LEMMA VerifyFits ==
    ASSUME Fixture, RunShape, NEW b \in Runs, VerifySource(b)
    PROVE  Fixture'
<1>1. PICK i \in 1 .. 5 : i = run[b].step
  BY DEF RunShape, IsRun
<1>2. run[b].pc = "verify" /\ ReadOnly /\ RunsFit
  BY DEF VerifySource, Fixture
<1>3. /\ LedgerIsFixture' /\ PlatformIsFixture' /\ Grows
      /\ UNCHANGED stock /\ DoneSet' = DoneSet /\ topic \in Seq(Records)
  BY <1>2, ReadersGrow
<1>4. IF VerifyOutbox(Events[i]) = "same" THEN NextSource(b) ELSE Goto(b, "conflict")
  BY <1>1 DEF VerifySource
<1>5. ~run[b].reset => /\ stock.seeded /\ i \in DoneSet
                       /\ \A j \in 1 .. 5 : j < i => j \in DoneSet
  BY <1>1, <1>2, RunAt DEF PcFits
<1>6. CASE NextSource(b)
  <2>1. ~run[b].reset => /\ stock'.seeded
                         /\ \A j \in 1 .. 5 : j <= run[b].step => j \in DoneSet'
    BY <1>1, <1>3, <1>5
  <2>2. RunsFit'
    BY <1>2, <1>3, <1>6, <2>1, NextSourceFits
  <2> QED BY <1>3, <2>2 DEF Fixture
<1>7. CASE VerifyOutbox(Events[i]) # "same" /\ Goto(b, "conflict")
  <2>1. i \notin DoneSet
    BY <1>7, VerifiedSame DEF DoneSet
  <2> QED BY <1>2, <1>5, <1>7, <2>1, ReaderGoes
<1> QED BY <1>4, <1>6, <1>7

LEMMA LoopFits ==
    ASSUME NEW pc \in Looping \cup {"complete"}, NEW step, NEW s, NEW D,
           \A j \in 1 .. 5 : j \in D
    PROVE  PcFits(pc, step, s, D)
BY DEF PcFits, Looping

LEMMA LoopingRun ==
    ASSUME Fixture, NEW b \in Runs, run[b].pc \in Looping, ~run[b].reset
    PROVE  \A j \in 1 .. 5 : j \in DoneSet /\ Done(j)
<1>1. \A j \in 1 .. 5 : j \in DoneSet
  BY RunAt DEF PcFits
<1> QED BY <1>1 DEF DoneSet

LEMMA InspectFits ==
    ASSUME Fixture, RunShape, NEW b \in Runs, InspectEvents(b) \/ InspectViews(b)
    PROVE  Fixture'
<1>0. PlatformIsFixture
  BY DEF Fixture
<1>1. CASE InspectEvents(b)
  <2> DEFINE verdict(i) == EventVerdict(Events[i])
             conflict == \E i \in 1 .. 5 :
                /\ verdict(i) = "conflict"
                /\ \A j \in 1 .. i - 1 : verdict(j) \notin {"missing", "terminal"}
             pc == IF conflict THEN "conflict"
                   ELSE IF \A i \in 1 .. 5 : verdict(i) = "projected" THEN "views"
                   ELSE "drain"
  <2>1. run[b].pc = "inspect" /\ Goto(b, pc) /\ ReadOnly
    BY <1>1 DEF InspectEvents
  <2>2. ~run[b].reset => PcFits(pc, run[b].step, stock.seeded, DoneSet)
    <3> SUFFICES ASSUME ~run[b].reset PROVE PcFits(pc, run[b].step, stock.seeded, DoneSet)
      OBVIOUS
    <3>1. \A j \in 1 .. 5 : j \in DoneSet /\ Done(j)
      BY <2>1, LoopingRun DEF Looping
    <3>2. ~conflict
      BY <1>0, <3>1, NoEventConflicts
    <3> HIDE DEF conflict, verdict
    <3>3. pc \in {"views", "drain"}
      BY <3>2
    <3> HIDE DEF pc
    <3> QED BY <3>1, <3>3, LoopFits DEF Looping
  <2> HIDE DEF pc
  <2> QED BY <2>1, <2>2, ReaderGoes
<1>2. CASE InspectViews(b)
  <2>1. run[b].pc = "views" /\ Goto(b, ViewsVerdict) /\ ReadOnly
    BY <1>2 DEF InspectViews
  <2>2. ~run[b].reset => PcFits(ViewsVerdict, run[b].step, stock.seeded, DoneSet)
    <3> SUFFICES ASSUME ~run[b].reset
                 PROVE  PcFits(ViewsVerdict, run[b].step, stock.seeded, DoneSet)
      OBVIOUS
    <3>1. \A j \in 1 .. 5 : j \in DoneSet
      BY <2>1, LoopingRun DEF Looping
    <3>2. ViewsVerdict \in Looping \cup {"complete"}
      BY <1>0, NoViewConflicts DEF Looping
    <3> QED BY <3>1, <3>2, LoopFits
  <2> QED BY <2>1, <2>2, ReaderGoes
<1> QED BY <1>1, <1>2

\* A pending row is an event of the fixture, and goes to the topic.
LEMMA PublishFits ==
    ASSUME Fixture, NEW r \in outbox, r.status # "quarantined", Publish(r),
           LedgerIsFixture', UNCHANGED stock, DoneSet' = DoneSet
    PROVE  Fixture'
<1>1. \E i \in 1 .. 5 : r.msg = Events[i]
  BY DEF Fixture, LedgerIsFixture
<1>2. r.msg \in Records
  BY <1>1 DEF Records
<1>3. /\ topic' = Append(topic, r.msg) /\ UNCHANGED run /\ UNCHANGED <<inbox, proj, lineage>>
      /\ topic \in Seq(Records) /\ PlatformIsFixture /\ RunsFit
  BY DEF Publish, platformVars, Fixture, PlatformIsFixture
<1>4. PlatformIsFixture'
  BY <1>2, <1>3, TopicGrows
<1>5. Grows
  BY <1>2, <1>3 DEF Grows
<1>6. RunsFit'
  BY <1>3, <1>5, NoRunMoves
<1> QED BY <1>4, <1>6 DEF Fixture

LEMMA DrainFits ==
    ASSUME Fixture, RunShape, SourceInv, NEW b \in Runs,
           DrainRow(b) \/ DrainUnmarked(b) \/ DrainEnds(b)
    PROVE  Fixture'
<1>0. LedgerIsFixture /\ SourceShape
  BY DEF Fixture, SourceInv
<1>1. CASE DrainRow(b)
  <2>1. PICK r \in PendingRows : MarkPublished(r) /\ Publish(r)
    BY <1>1 DEF DrainRow
  <2>2. r \in outbox /\ r.status # "quarantined"
    BY DEF PendingRows
  <2>3. LedgerIsFixture' /\ UNCHANGED stock /\ DoneSet' = DoneSet
    BY <1>0, <2>1, <2>2, PublishedFits
  <2> QED BY <2>1, <2>2, <2>3, PublishFits
<1>2. CASE DrainUnmarked(b)
  <2>1. PICK r \in PendingRows : Publish(r)
    BY <1>2 DEF DrainUnmarked
  <2>2. r \in outbox /\ r.status # "quarantined"
    BY DEF PendingRows
  <2>3. LedgerIsFixture' /\ UNCHANGED stock /\ DoneSet' = DoneSet
    BY <1>0, <1>2, UnchangedFits DEF DrainUnmarked
  <2> QED BY <2>1, <2>2, <2>3, PublishFits
<1>3. CASE DrainEnds(b)
  <2>1. run[b].pc = "drain" /\ Goto(b, "consume") /\ ReadOnly
    BY <1>3 DEF DrainEnds
  <2>2. ~run[b].reset => PcFits("consume", run[b].step, stock.seeded, DoneSet)
    BY <2>1, LoopingRun, LoopFits DEF Looping
  <2> QED BY <2>1, <2>2, ReaderGoes
<1> QED BY <1>1, <1>2, <1>3

LEMMA ReadFits ==
    ASSUME Fixture, RunShape, NEW b \in Runs, ReadInbox(b)
    PROVE  Fixture'
<1> DEFINE e == topic[run[b].pos + 1]
           x == [run[b] EXCEPT !.busy = "read",
                   !.row = IF e = Poison THEN Inbox!NoRow ELSE inbox[e.ev]]
<1>1. /\ run' = [run EXCEPT ![b] = x] /\ run[b].pos < Len(topic) /\ ReadOnly /\ RunsFit
  BY DEF ReadInbox, Fixture
<1>2. /\ LedgerIsFixture' /\ PlatformIsFixture' /\ Grows /\ topic \in Seq(Records)
  BY <1>1, ReadersGrow
<1>3. RunFits(run[b], stock'.seeded, topic', DoneSet')
  BY <1>1, <1>2, OthersFit
<1>4. /\ x.pc = run[b].pc /\ x.step = run[b].step /\ x.pos = run[b].pos
      /\ x.reset = run[b].reset
  BY DEF RunShape, IsRun
<1>5. x.pos < Len(topic')
  BY <1>1, <1>4 DEF ReadOnly, SourceOnly
<1>8. x.row = IF e = Poison THEN Inbox!NoRow ELSE inbox[e.ev]
  BY DEF RunShape, IsRun
<1> HIDE DEF x
<1>9. RowInHand(x, topic')
  <2> SUFFICES ASSUME NEW i \in 1 .. 5, e = Events[i] PROVE RowIsFixture(i, x.row)
    BY <1>1, <1>4 DEF RowInHand, ReadOnly, SourceOnly
  <2>1. e # Poison /\ e.ev = i /\ i \in EventIds
    BY ZenonT(60), FixtureEvents, FixtureIds
  <2>2. x.row = inbox[i]
    BY <1>8, <2>1
  <2> QED BY <2>1, <2>2 DEF Fixture, PlatformIsFixture
<1>6. RunFits(x, stock'.seeded, topic', DoneSet')
  BY <1>3, <1>4, <1>5, <1>9 DEF RunFits
<1>7. RunsFit'
  BY <1>1, <1>2, <1>6, OneRunMoves
<1> QED BY <1>2, <1>7 DEF Fixture

\* Steps that leave the source and the topic alone.
LEMMA PlatformSteps ==
    ASSUME Fixture, UNCHANGED <<ledgerVars, topic>>
    PROVE  /\ LedgerIsFixture' /\ Grows /\ topic \in Seq(Records)
           /\ PlatformIsFixture /\ RunsFit
<1>1. LedgerIsFixture' /\ UNCHANGED stock /\ DoneSet' = DoneSet
  BY UnchangedFits DEF Fixture
<1> QED BY <1>1 DEF Grows, Fixture, PlatformIsFixture

LEMMA ProcessFits ==
    ASSUME Fixture, RunShape, NEW b \in Runs, ProcessRecord(b)
    PROVE  Fixture'
<1> DEFINE e == topic[run[b].pos + 1]
           x == [run[b] EXCEPT !.busy = "redrive", !.row = Inbox!NoRow]
<1>1. /\ run[b].busy = "read" /\ run[b].pos \in Nat /\ run[b].pos < Len(topic)
      /\ UNCHANGED <<ledgerVars, topic>>
  BY RunAt DEF ProcessRecord
<1>0. RowInHand(run[b], topic)
  BY <1>1, RunAt
<1>2. /\ LedgerIsFixture' /\ Grows /\ topic \in Seq(Records) /\ PlatformIsFixture /\ RunsFit
  BY <1>1, PlatformSteps
<1>3. \/ e = Poison /\ UNCHANGED <<inbox, proj, lineage>>
      \/ e # Poison /\ ProcessValidated(run[b].row, e)
  BY DEF ProcessRecord
<1>4. PlatformIsFixture'
  <2>1. CASE e = Poison /\ UNCHANGED <<inbox, proj, lineage>>
    BY <1>1, <1>2, <2>1, TopicGrows
  <2>2. CASE e # Poison /\ ProcessValidated(run[b].row, e)
    <3>1. PICK i \in 1 .. 5 : e = Events[i]
      BY <1>1, <1>2, <2>2, RecordAt
    <3>2. ProcessValidated(run[b].row, Events[i])
      BY <2>2, <3>1
    <3>3. RowIsFixture(i, run[b].row)
      BY <1>0, <3>1 DEF RowInHand
    <3> QED BY <1>1, <1>2, <3>2, <3>3, ProcessedFits
  <2> QED BY <1>3, <2>1, <2>2
<1>5. Returned(b) \/ run' = [run EXCEPT ![b] = x]
  BY DEF ProcessRecord
<1>6. RunsFit'
  <2>1. CASE Returned(b)
    BY <1>2, <2>1, ReturnedFits
  <2>2. CASE run' = [run EXCEPT ![b] = x]
    <3>1. RunFits(run[b], stock'.seeded, topic', DoneSet')
      BY <1>2, OthersFit
    <3>2. /\ x.pc = run[b].pc /\ x.step = run[b].step /\ x.pos = run[b].pos
          /\ x.reset = run[b].reset /\ x.busy # "read"
      BY DEF RunShape, IsRun
    <3> HIDE DEF x
    <3>3. RunFits(x, stock'.seeded, topic', DoneSet')
      BY <3>1, <3>2 DEF RunFits
    <3> QED BY <1>2, <2>2, <3>3, OneRunMoves
  <2> QED BY <1>5, <2>1, <2>2
<1> QED BY <1>2, <1>4, <1>6 DEF Fixture

LEMMA RedriveFits ==
    ASSUME Fixture, RunShape, NEW b \in Runs, RedriveGaps(b)
    PROVE  Fixture'
<1>1. UNCHANGED <<ledgerVars, topic>>
  BY DEF RedriveGaps
<1>2. /\ LedgerIsFixture' /\ Grows /\ topic \in Seq(Records) /\ PlatformIsFixture /\ RunsFit
  BY <1>1, PlatformSteps
<1>3. UNCHANGED run \/ Returned(b)
  BY DEF RedriveGaps
<1>4. RunsFit'
  BY <1>2, <1>3, NoRunMoves, ReturnedFits
<1>5. \/ UNCHANGED platformVars
      \/ \E i \in EventIds : /\ inbox[i].disp = Inbox!Gap
                             /\ ProcessValidated(inbox[i], inbox[i].bytes)
  BY DEF RedriveGaps
<1>6. CASE UNCHANGED platformVars
  <2>1. PlatformIsFixture'
    BY <1>1, <1>2, <1>6, TopicGrows DEF platformVars
  <2> QED BY <1>2, <1>4, <2>1 DEF Fixture
<1>7. ASSUME NEW i \in EventIds, inbox[i].disp = Inbox!Gap,
             ProcessValidated(inbox[i], inbox[i].bytes)
      PROVE  Fixture'
  <2>1. RowIsFixture(i, inbox[i])
    BY <1>2 DEF PlatformIsFixture
  <2>2. i \in 1 .. 5 /\ inbox[i].bytes = Events[i]
    BY <1>7, <2>1 DEF RowIsFixture, Inbox!NoRow, Inbox!Gap
  <2>3. ProcessValidated(inbox[i], Events[i])
    BY <1>7, <2>2
  <2>4. PlatformIsFixture'
    BY <1>1, <1>2, <2>1, <2>2, <2>3, ProcessedFits
  <2> QED BY <1>2, <1>4, <2>4 DEF Fixture
<1> QED BY <1>5, <1>6, <1>7

LEMMA ConsumeEndsFits ==
    ASSUME Fixture, RunShape, NEW b \in Runs, ConsumeEnds(b)
    PROVE  Fixture'
<1> DEFINE x == [run[b] EXCEPT !.pc = "inspect", !.busy = "no", !.row = Inbox!NoRow,
                               !.skipped = TRUE, !.pos = Len(topic)]
<1>1. run[b].pc = "consume" /\ ReadOnly /\ RunsFit
  BY DEF ConsumeEnds, Fixture
<1>2. Goto(b, "inspect") \/ run' = [run EXCEPT ![b] = x]
  BY DEF ConsumeEnds
<1>3. ~run[b].reset => \A j \in 1 .. 5 : j \in DoneSet
  BY <1>1, LoopingRun DEF Looping
<1>4. CASE Goto(b, "inspect")
  <2>1. ~run[b].reset => PcFits("inspect", run[b].step, stock.seeded, DoneSet)
    BY <1>3, LoopFits DEF Looping
  <2> QED BY <1>1, <1>4, <2>1, ReaderGoes
<1>5. CASE run' = [run EXCEPT ![b] = x]
  <2>1. /\ LedgerIsFixture' /\ PlatformIsFixture' /\ Grows /\ topic \in Seq(Records)
        /\ DoneSet' = DoneSet
    BY <1>1, ReadersGrow
  <2>2. x.pc = "inspect" /\ x.pos = Len(topic) /\ x.busy # "read" /\ x.reset = run[b].reset
    BY DEF RunShape, IsRun
  <2>3. x.pos \in Nat
    BY <2>1, <2>2
  <2> HIDE DEF x
  <2>4. ~x.reset => PcFits(x.pc, x.step, stock'.seeded, DoneSet')
    BY <1>3, <2>1, <2>2, LoopFits DEF Looping
  <2>5. RunFits(x, stock'.seeded, topic', DoneSet')
    BY <2>2, <2>3, <2>4 DEF RunFits
  <2>6. RunsFit'
    BY <1>1, <1>5, <2>1, <2>5, OneRunMoves
  <2> QED BY <2>1, <2>6 DEF Fixture
<1> QED BY <1>2, <1>4, <1>5

\* A reset overtakes every run that has not ended; the others have no more to find.
LEMMA OvertakenFit ==
    ASSUME Fixture, RunShape, run' = Overtaken, UNCHANGED topic
    PROVE  RunsFit'
<1> SUFFICES ASSUME NEW b \in Runs PROVE RunFits(run'[b], stock'.seeded, topic', DoneSet')
  BY DEF RunsFit
<1>1. run'[b] = [run[b] EXCEPT !.reset = @ \/ run[b].pc \notin Ended]
  BY DEF Overtaken
<1>2. /\ run'[b].pc = run[b].pc /\ run'[b].pos = run[b].pos /\ run'[b].busy = run[b].busy
      /\ run'[b].step = run[b].step /\ run'[b].row = run[b].row
      /\ run'[b].reset = (run[b].reset \/ run[b].pc \notin Ended)
  BY <1>1 DEF RunShape, IsRun
<1>3. ~run'[b].reset => ~run[b].reset /\ run[b].pc \in Ended
  BY <1>2
<1>4. ~run'[b].reset => PcFits(run'[b].pc, run'[b].step, stock'.seeded, DoneSet')
  <2> SUFFICES ASSUME ~run'[b].reset
               PROVE  PcFits(run'[b].pc, run'[b].step, stock'.seeded, DoneSet')
    OBVIOUS
  <2>1. run'[b].pc \in Ended /\ run'[b].pc \notin {"conflict", "failed"}
    BY <1>2, <1>3, RunAt DEF PcFits
  <2> QED BY <2>1 DEF PcFits, Ended, Looping
<1> QED BY <1>2, <1>4, RunAt DEF RunFits, RowInHand

LEMMA CommandsFit ==
    ASSUME Fixture, RunShape, SourceInv,
           \/ DemoDuplicate \/ DemoPoison \/ DemoForecastIncomplete
           \/ ResetDerivedStateForTenant \/ ResetSource
    PROVE  Fixture'
<1>0. /\ LedgerIsFixture /\ PlatformIsFixture /\ RunsFit /\ topic \in Seq(Records)
  BY DEF Fixture, PlatformIsFixture
<1>1. CASE DemoDuplicate
  <2>1. PICK r \in outbox : r.status = "published" /\ Publish(r)
    BY <1>1 DEF DemoDuplicate
  <2>2. LedgerIsFixture' /\ UNCHANGED stock /\ DoneSet' = DoneSet
    BY <1>0, <1>1, UnchangedFits DEF DemoDuplicate
  <2>3. r.status # "quarantined"
    BY <2>1
  <2> QED BY <2>1, <2>2, <2>3, PublishFits
<1>2. CASE DemoPoison
  <2>1. LedgerIsFixture' /\ UNCHANGED stock /\ DoneSet' = DoneSet
    BY <1>0, <1>2, UnchangedFits DEF DemoPoison
  <2>2. /\ \E m \in Records : topic' = Append(topic, m)
        /\ UNCHANGED <<inbox, proj, lineage>> /\ UNCHANGED run
    BY <1>2 DEF DemoPoison, Records, platformVars
  <2>3. PlatformIsFixture' /\ Grows
    BY <1>0, <2>1, <2>2, TopicGrows DEF Grows
  <2>4. RunsFit'
    BY <1>0, <2>2, <2>3, NoRunMoves
  <2> QED BY <2>1, <2>3, <2>4 DEF Fixture
<1>3. CASE DemoForecastIncomplete
  <2>1. LedgerIsFixture' /\ UNCHANGED stock /\ DoneSet' = DoneSet
    BY <1>0, <1>3, DemoFits
  <2>2. UNCHANGED topic /\ UNCHANGED <<inbox, proj, lineage>> /\ UNCHANGED run
    BY <1>3 DEF DemoForecastIncomplete, SourceOnly, platformVars
  <2>3. PlatformIsFixture' /\ Grows
    BY <1>0, <2>1, <2>2, TopicGrows DEF Grows
  <2>4. RunsFit'
    BY <1>0, <2>2, <2>3, NoRunMoves
  <2> QED BY <2>1, <2>3, <2>4 DEF Fixture
<1>4. CASE ResetDerivedStateForTenant
  <2>1. LedgerIsFixture'
    BY <1>0, <1>4, UnchangedFits DEF ResetDerivedStateForTenant
  <2>2. PlatformIsFixture'
    BY <1>0, <1>4, EmptyPlatformFits
  <2>3. RunsFit'
    BY <1>4, OvertakenFit DEF ResetDerivedStateForTenant
  <2> QED BY <2>1, <2>2, <2>3 DEF Fixture
<1>5. CASE ResetSource
  <2>1. LedgerIsFixture'
    BY <1>5, EmptyFits DEF ResetSource
  <2>2. UNCHANGED topic /\ UNCHANGED <<inbox, proj, lineage>>
    BY <1>5 DEF ResetSource, platformVars
  <2>3. PlatformIsFixture'
    BY <1>0, <2>2, TopicGrows
  <2>4. RunsFit'
    BY <1>5, OvertakenFit DEF ResetSource
  <2> QED BY <2>1, <2>3, <2>4 DEF Fixture
<1> QED BY <1>1, <1>2, <1>3, <1>4, <1>5

LEMMA InitFits == Init => Fixture
<1> SUFFICES ASSUME Init PROVE Fixture
  OBVIOUS
<1>1. LedgerIsFixture
  BY EmptyFits DEF Init
<1>2. \A k : RowIsFixture(k, Inbox!NoRow)
  BY DEF RowIsFixture
<1>3. PlatformIsFixture
  BY <1>2 DEF Init, PlatformIsFixture
<1>4. ASSUME NEW b \in Runs PROVE RunFits(run[b], stock.seeded, topic, DoneSet)
  <2>1. run[b] = NoRun
    BY DEF Init
  <2>2. NoRun.pc = "new" /\ NoRun.pos \in Nat /\ NoRun.busy # "read"
    BY DEF NoRun
  <2>3. PcFits(NoRun.pc, NoRun.step, stock.seeded, DoneSet)
    BY <2>2 DEF PcFits, Looping
  <2> QED BY <2>1, <2>2, <2>3 DEF RunFits
<1> QED BY <1>1, <1>3, <1>4 DEF Fixture, RunsFit

LEMMA ForeignStays ==
    ASSUME Next, ~(\E c \in Foreign : ForeignCommand(c))
    PROVE  UNCHANGED foreign
<1>1. ASSUME NEW b \in Runs, Start(b) \/ Stop(b) \/ DrainUnmarked(b) PROVE UNCHANGED foreign
  BY <1>1 DEF Start, Stop, DrainUnmarked, Fault, budgets
<1>2. ASSUME NEW b \in Runs, Bootstrap(b) PROVE UNCHANGED foreign
  <2>1. CASE \/ EnsureInventory(b) \/ LookupInventory(b) \/ EnsureSource(b) \/ VerifySource(b)
             \/ InspectEvents(b) \/ InspectViews(b)
    BY <2>1 DEF EnsureInventory, LookupInventory, EnsureSource, VerifySource, InspectEvents,
                InspectViews, budgets
  <2>2. CASE DrainRow(b) \/ DrainEnds(b) \/ ConsumeEnds(b)
    BY <2>2 DEF DrainRow, DrainEnds, ConsumeEnds, Fault, budgets
  <2>3. CASE ReadInbox(b) \/ ProcessRecord(b) \/ RedriveGaps(b)
    BY <2>3 DEF ReadInbox, ProcessRecord, RedriveGaps, budgets
  <2> QED BY <1>2, <2>1, <2>2, <2>3 DEF Bootstrap
<1>3. CASE \/ DemoDuplicate \/ DemoPoison \/ DemoForecastIncomplete
           \/ ResetDerivedStateForTenant \/ ResetSource
  BY <1>3 DEF DemoDuplicate, DemoPoison, DemoForecastIncomplete, ResetDerivedStateForTenant,
              ResetSource, Fault, budgets
<1> QED BY <1>1, <1>2, <1>3 DEF Next

LEMMA StepsFit ==
    ASSUME Fixture, RunShape, SourceInv, Next, ~(\E c \in Foreign : ForeignCommand(c))
    PROVE  Fixture'
<1>1. ASSUME NEW b \in Runs, Start(b) \/ Stop(b) \/ Bootstrap(b) \/ DrainUnmarked(b)
      PROVE  Fixture'
  BY <1>1, StartFits, InventoryFits, LookupFits, SourceFits, VerifyFits, InspectFits,
     DrainFits, ReadFits, ProcessFits, RedriveFits, ConsumeEndsFits DEF Bootstrap
<1> QED BY <1>1, CommandsFit DEF Next

LEMMA FixtureInductive == Spec => []FixtureInv
<1>1. Init => FixtureInv
  BY InitFits DEF FixtureInv
<1>2. FixtureInv /\ RunShape /\ SourceInv /\ [Next]_vars => FixtureInv'
  <2> SUFFICES ASSUME FixtureInv, RunShape, SourceInv, [Next]_vars, ~foreign' PROVE Fixture'
    BY DEF FixtureInv
  <2>1. CASE UNCHANGED vars
    <3>1. ReadOnly /\ UNCHANGED run /\ UNCHANGED foreign
      BY <2>1 DEF vars, ReadOnly, SourceOnly, budgets
    <3>2. Fixture
      BY <3>1 DEF FixtureInv
    <3>3. LedgerIsFixture' /\ PlatformIsFixture' /\ Grows /\ topic \in Seq(Records)
      BY <3>1, <3>2, ReadersGrow
    <3>4. RunsFit'
      BY <3>1, <3>2, <3>3, NoRunMoves DEF Fixture
    <3> QED BY <3>3, <3>4 DEF Fixture
  <2>2. CASE Next
    <3>1. ~(\E c \in Foreign : ForeignCommand(c))
      BY DEF ForeignCommand
    <3>2. ~foreign
      BY <2>2, <3>1, ForeignStays
    <3> QED BY <2>2, <3>1, <3>2, StepsFit DEF FixtureInv
  <2> QED BY <2>1, <2>2
<1> QED BY <1>1, <1>2, SourceInductive, PTL DEF Spec

-----------------------------------------------------------------------------
(* Runs that report complete.                                              *)

\* How a run comes to look at the projections, or to report complete.
Arrives(d) ==
    \/ run'[d].pc \notin {"views", "complete"}
    \/ run'[d].pc = run[d].pc /\ (~run'[d].reset => ~run[d].reset)
    \/ InspectEvents(d) /\ run'[d].pc = "views"
    \/ InspectViews(d) /\ run'[d].pc = "complete"

Published(i) == \E r \in outbox : r.msg = Events[i] /\ r.status = "published"

\* The events a run found published stay so, until a reset.
ViewsInv ==
    \A b \in Runs : run[b].pc = "views" /\ ~run[b].reset => \A i \in 1 .. 5 : Published(i)

\* A run reports complete only when, at that moment, every event is published and
\* the projection holds the fixture's stock, and the lineage is the fixture's if no
\* other client wrote to the ERP; unless a reset overtook the run.
CompleteStep ==
    \A b \in Runs :
        run[b].pc # "complete" /\ run'[b].pc = "complete" /\ ~run[b].reset =>
            /\ \A i \in 1 .. 5 : \E r \in outbox : r.msg = Events[i] /\ r.status = "published"
            /\ proj = Final
            /\ ~foreign => TraceBatch(lineage, "production_batch") =
                             [supplier |-> Events[1], lot |-> Events[2],
                              batch |-> Events[3], shipment |-> Events[4]]

LEMMA RunArrives ==
    ASSUME RunShape, NEW b \in Runs, NEW x, run' = [run EXCEPT ![b] = x], NEW d \in Runs,
           x.pc \notin {"views", "complete"} \/ (x.pc = run[b].pc /\ x.reset = run[b].reset)
    PROVE  Arrives(d)
<1>1. run'[d] = IF d = b THEN x ELSE run[d]
  BY DEF RunShape
<1>2. CASE d = b
  BY <1>1, <1>2 DEF Arrives
<1>3. CASE d # b
  BY <1>1, <1>3 DEF Arrives
<1> QED BY <1>2, <1>3

LEMMA GotoArrives ==
    ASSUME RunShape, NEW b \in Runs, NEW pc, Goto(b, pc), pc \notin {"views", "complete"},
           NEW d \in Runs
    PROVE  Arrives(d)
<1> DEFINE x == [run[b] EXCEPT !.pc = pc]
<1>1. run' = [run EXCEPT ![b] = x]
  BY DEF Goto
<1>2. x.pc = pc
  BY DEF RunShape, IsRun
<1> HIDE DEF x
<1> QED BY <1>1, <1>2, RunArrives

LEMMA ReturnedArrives ==
    ASSUME RunShape, NEW b \in Runs, Returned(b) \/ NextSource(b) \/ Halt(b, "stopped"),
           NEW d \in Runs
    PROVE  Arrives(d)
<1>1. CASE Returned(b)
  <2> DEFINE x == [run[b] EXCEPT !.busy = "no", !.row = Inbox!NoRow, !.pos = @ + 1]
  <2>1. run' = [run EXCEPT ![b] = x]
    BY <1>1 DEF Returned
  <2>2. x.pc = run[b].pc /\ x.reset = run[b].reset
    BY DEF RunShape, IsRun
  <2> HIDE DEF x
  <2> QED BY <2>1, <2>2, RunArrives
<1>2. CASE NextSource(b)
  <2> DEFINE pc == IF run[b].step = 5 THEN "inspect" ELSE "sources"
             x == [run[b] EXCEPT !.pc = pc, !.step = IF @ = 5 THEN 5 ELSE @ + 1]
  <2>1. run' = [run EXCEPT ![b] = x]
    BY <1>2 DEF NextSource
  <2>2. x.pc \in {"inspect", "sources"}
    BY DEF RunShape, IsRun
  <2> HIDE DEF x
  <2> QED BY <2>1, <2>2, RunArrives
<1>3. CASE Halt(b, "stopped")
  <2> DEFINE x == [run[b] EXCEPT !.pc = "stopped", !.busy = "no", !.row = Inbox!NoRow]
  <2>1. run' = [run EXCEPT ![b] = x]
    BY <1>3 DEF Halt
  <2>2. x.pc = "stopped"
    BY DEF RunShape, IsRun
  <2> HIDE DEF x
  <2> QED BY <2>1, <2>2, RunArrives
<1> QED BY <1>1, <1>2, <1>3

LEMMA SourcesArrive ==
    ASSUME RunShape, NEW b \in Runs, NEW d \in Runs,
           \/ Start(b) \/ Stop(b) \/ EnsureInventory(b) \/ LookupInventory(b)
           \/ EnsureSource(b) \/ VerifySource(b)
    PROVE  Arrives(d)
<1>1. CASE Start(b)
  <2> DEFINE x == [NoRun EXCEPT !.pc = "seed", !.reset = resetting]
  <2>1. run' = [run EXCEPT ![b] = x]
    BY <1>1 DEF Start
  <2>2. x.pc = "seed"
    BY DEF NoRun
  <2> HIDE DEF x
  <2> QED BY <2>1, <2>2, RunArrives
<1>2. CASE Stop(b)
  BY <1>2, ReturnedArrives DEF Stop
<1>3. CASE EnsureInventory(b)
  BY <1>3, GotoArrives DEF EnsureInventory
<1>4. CASE LookupInventory(b)
  <2> DEFINE pc == CASE ~stock.seeded                       -> "failed"
                     [] stock.seeded /\ stock.qty = SeedQty /\ stock.ver = 0 -> "sources"
                     [] stock.seeded /\ stock.qty = Final.qty /\ stock.ver = 1 ->
                          IF VerifyOutbox(Events[5]) = "same" THEN "sources" ELSE "conflict"
                     [] OTHER                               -> "conflict"
  <2>1. Goto(b, pc)
    BY <1>4 DEF LookupInventory
  <2>2. pc \in {"failed", "sources", "conflict"}
    OBVIOUS
  <2> HIDE DEF pc
  <2> QED BY <2>1, <2>2, GotoArrives
<1>5. CASE EnsureSource(b)
  <2>1. NextSource(b) \/ Goto(b, "conflict") \/ Goto(b, "verify") \/ Goto(b, "failed")
    BY <1>5 DEF EnsureSource
  <2> QED BY <2>1, GotoArrives, ReturnedArrives
<1>6. CASE VerifySource(b)
  <2>1. NextSource(b) \/ Goto(b, "conflict")
    BY <1>6 DEF VerifySource
  <2> QED BY <2>1, GotoArrives, ReturnedArrives
<1> QED BY <1>1, <1>2, <1>3, <1>4, <1>5, <1>6

LEMMA InspectionArrives ==
    ASSUME RunShape, NEW b \in Runs, NEW d \in Runs, InspectEvents(b) \/ InspectViews(b)
    PROVE  Arrives(d)
<1>1. CASE InspectEvents(b)
  <2>1. PICK pc \in {"conflict", "views", "drain"} : Goto(b, pc)
    BY <1>1 DEF InspectEvents
  <2>2. CASE pc # "views"
    BY <2>1, <2>2, GotoArrives
  <2>3. CASE pc = "views"
    <3>1. run'[b].pc = "views" /\ (d # b => run'[d] = run[d])
      BY <2>1, <2>3 DEF Goto, RunShape, IsRun
    <3> QED BY <1>1, <3>1 DEF Arrives
  <2> QED BY <2>2, <2>3
<1>2. CASE InspectViews(b)
  <2>1. ViewsVerdict \in {"conflict", "complete", "drain"}
    BY DEF ViewsVerdict
  <2>2. Goto(b, ViewsVerdict)
    BY <1>2 DEF InspectViews
  <2>3. CASE ViewsVerdict # "complete"
    BY <2>1, <2>2, <2>3, GotoArrives
  <2>4. CASE ViewsVerdict = "complete"
    <3>1. run'[b].pc = "complete" /\ (d # b => run'[d] = run[d])
      BY <2>2, <2>4 DEF Goto, RunShape, IsRun
    <3> QED BY <1>2, <3>1 DEF Arrives
  <2> QED BY <2>3, <2>4
<1> QED BY <1>1, <1>2

LEMMA ConsumersArrive ==
    ASSUME RunShape, NEW b \in Runs, NEW d \in Runs,
           \/ DrainRow(b) \/ DrainUnmarked(b) \/ DrainEnds(b)
           \/ ReadInbox(b) \/ ProcessRecord(b) \/ RedriveGaps(b) \/ ConsumeEnds(b)
    PROVE  Arrives(d)
<1>0. UNCHANGED run => Arrives(d)
  BY DEF Arrives
<1>1. CASE DrainRow(b) \/ DrainUnmarked(b)
  BY <1>0, <1>1 DEF DrainRow, DrainUnmarked, Publish
<1>2. CASE DrainEnds(b)
  BY <1>2, GotoArrives DEF DrainEnds
<1>3. CASE ReadInbox(b)
  <2> DEFINE e == topic[run[b].pos + 1]
             x == [run[b] EXCEPT !.busy = "read",
                     !.row = IF e = Poison THEN Inbox!NoRow ELSE inbox[e.ev]]
  <2>1. run' = [run EXCEPT ![b] = x]
    BY <1>3 DEF ReadInbox
  <2>2. x.pc = run[b].pc /\ x.reset = run[b].reset
    BY DEF RunShape, IsRun
  <2> HIDE DEF x
  <2> QED BY <2>1, <2>2, RunArrives
<1>4. CASE ProcessRecord(b)
  <2> DEFINE x == [run[b] EXCEPT !.busy = "redrive", !.row = Inbox!NoRow]
  <2>1. run' = [run EXCEPT ![b] = x] \/ Returned(b)
    BY <1>4 DEF ProcessRecord
  <2>2. x.pc = run[b].pc /\ x.reset = run[b].reset
    BY DEF RunShape, IsRun
  <2> HIDE DEF x
  <2> QED BY <2>1, <2>2, RunArrives, ReturnedArrives
<1>5. CASE RedriveGaps(b)
  BY <1>0, <1>5, ReturnedArrives DEF RedriveGaps
<1>6. CASE ConsumeEnds(b)
  <2> DEFINE x == [run[b] EXCEPT !.pc = "inspect", !.busy = "no", !.row = Inbox!NoRow,
                                 !.skipped = TRUE, !.pos = Len(topic)]
  <2>1. run' = [run EXCEPT ![b] = x] \/ Goto(b, "inspect")
    BY <1>6 DEF ConsumeEnds
  <2>2. x.pc = "inspect"
    BY DEF RunShape, IsRun
  <2> HIDE DEF x
  <2> QED BY <2>1, <2>2, RunArrives, GotoArrives
<1> QED BY <1>1, <1>2, <1>3, <1>4, <1>5, <1>6

LEMMA StepsArrive ==
    ASSUME RunShape, Next, NEW d \in Runs
    PROVE  Arrives(d)
<1>1. ASSUME NEW b \in Runs, Start(b) \/ Stop(b) \/ Bootstrap(b) \/ DrainUnmarked(b)
      PROVE  Arrives(d)
  BY <1>1, SourcesArrive, InspectionArrives, ConsumersArrive DEF Bootstrap
<1>2. CASE \/ \E c \in Foreign : ForeignCommand(c)
           \/ DemoDuplicate \/ DemoPoison \/ DemoForecastIncomplete
  <2>1. UNCHANGED run
    BY <1>2 DEF ForeignCommand, DemoDuplicate, DemoPoison, DemoForecastIncomplete, Publish
  <2> QED BY <2>1 DEF Arrives
<1>3. CASE ResetDerivedStateForTenant \/ ResetSource
  <2>1. run'[d] = [run[d] EXCEPT !.reset = @ \/ run[d].pc \notin Ended]
    BY <1>3 DEF ResetDerivedStateForTenant, ResetSource, Overtaken
  <2>2. run'[d].pc = run[d].pc /\ run'[d].reset = (run[d].reset \/ run[d].pc \notin Ended)
    BY <2>1 DEF RunShape, IsRun
  <2> QED BY <2>2 DEF Arrives
<1> QED BY <1>1, <1>2, <1>3 DEF Next

\* A published row stays, whatever happens but a reset of the ERP.
LEMMA PublishedStays ==
    ASSUME Next, ~ResetSource, NEW r \in outbox, r.status = "published"
    PROVE  r \in outbox'
<1>1. ASSUME NEW c, Accept(c) PROVE r \in outbox'
  BY <1>1 DEF Accept, CommitOrder, CommitHop
<1>2. UNCHANGED ledgerVars => r \in outbox'
  BY DEF ledgerVars
<1>3. ASSUME NEW b \in Runs, Start(b) \/ Stop(b) \/ Bootstrap(b) \/ DrainUnmarked(b)
      PROVE  r \in outbox'
  <2>1. CASE EnsureInventory(b)
    BY <1>2, <2>1 DEF EnsureInventory, SeedInventory
  <2>2. CASE EnsureSource(b)
    BY <1>1, <1>2, <2>2 DEF EnsureSource
  <2>3. CASE DrainRow(b)
    <3>1. PICK q \in PendingRows : MarkPublished(q)
      BY <2>3 DEF DrainRow
    <3> QED BY <3>1 DEF MarkPublished
  <2>4. CASE \/ Start(b) \/ Stop(b) \/ LookupInventory(b) \/ VerifySource(b)
             \/ InspectEvents(b) \/ InspectViews(b) \/ DrainEnds(b) \/ DrainUnmarked(b)
             \/ ReadInbox(b) \/ ProcessRecord(b) \/ RedriveGaps(b) \/ ConsumeEnds(b)
    <3>1. UNCHANGED ledgerVars
      BY <2>4 DEF Start, Stop, LookupInventory, VerifySource, InspectEvents,
                  InspectViews, DrainEnds, DrainUnmarked, ReadInbox, ProcessRecord,
                  RedriveGaps, ConsumeEnds, ReadOnly
    <3> QED BY <1>2, <3>1
  <2> QED BY <1>3, <2>1, <2>2, <2>3, <2>4 DEF Bootstrap
<1>4. CASE \E c \in Foreign : ForeignCommand(c)
  BY <1>1, <1>4 DEF ForeignCommand
<1>5. CASE DemoDuplicate \/ DemoPoison \/ ResetDerivedStateForTenant
  BY <1>2, <1>5 DEF DemoDuplicate, DemoPoison, ResetDerivedStateForTenant
<1>6. CASE DemoForecastIncomplete
  BY <1>6 DEF DemoForecastIncomplete
<1> QED BY <1>3, <1>4, <1>5, <1>6 DEF Next

LEMMA InspectedArePublished ==
    ASSUME RunShape, NEW b \in Runs, InspectEvents(b), run'[b].pc = "views", NEW i \in 1 .. 5
    PROVE  Published(i)
<1>1. EventVerdict(Events[i]) = "projected"
  <2> DEFINE all == \A j \in 1 .. 5 : EventVerdict(Events[j]) = "projected"
  <2>1. \E pc \in {"conflict", "drain"} : all \/ Goto(b, pc)
    BY DEF InspectEvents
  <2>2. \A pc : Goto(b, pc) => run'[b].pc = pc
    BY DEF Goto, RunShape, IsRun
  <2> HIDE DEF all
  <2>3. all
    BY <2>1, <2>2
  <2> QED BY <2>3 DEF all
<1>2. VerifyOutbox(Events[i]) # "projected"
  BY DEF VerifyOutbox
<1> QED BY <1>1, <1>2 DEF EventVerdict, Published

LEMMA ViewsInductive == Spec => []ViewsInv
<1>1. Init => ViewsInv
  BY SMT DEF Init, NoRun, ViewsInv
<1>2. ViewsInv /\ RunShape /\ [Next]_vars => ViewsInv'
  <2> SUFFICES ASSUME ViewsInv, RunShape, [Next]_vars, NEW b \in Runs,
                      run'[b].pc = "views", ~run'[b].reset, NEW i \in 1 .. 5
               PROVE  Published(i)'
    BY DEF ViewsInv
  <2>1. CASE UNCHANGED vars
    BY <2>1 DEF vars, ledgerVars, ViewsInv, Published
  <2>2. CASE Next /\ ~ResetSource
    <3>1. Arrives(b)
      BY <2>2, StepsArrive
    <3>2. (run[b].pc = "views" /\ ~run[b].reset) \/ InspectEvents(b)
      BY <3>1 DEF Arrives
    <3>3. Published(i)
      BY <3>2, InspectedArePublished DEF ViewsInv
    <3> QED BY <2>2, <3>3, PublishedStays DEF Published
  <2>3. CASE ResetSource
    <3>1. run'[b] = [run[b] EXCEPT !.reset = @ \/ run[b].pc \notin Ended]
      BY <2>3 DEF ResetSource, Overtaken
    <3>2. run'[b].pc = run[b].pc /\ run'[b].reset = (run[b].reset \/ run[b].pc \notin Ended)
      BY <3>1 DEF RunShape, IsRun
    <3>3. "views" \notin Ended
      BY DEF Ended
    <3> QED BY <3>2, <3>3
  <2> QED BY <2>1, <2>2, <2>3
<1> QED BY <1>1, <1>2, SourceInductive, PTL DEF Spec

\* A view that the inspection accepts is the fixture's chain.
LEMMA AcceptedTrace ==
    ASSUME PlatformIsFixture,
           \A i \in 1 .. 4 : HopOf(lineage, Events[i].kind, Events[i].agg) # NoHop
    PROVE  TraceBatch(lineage, "production_batch") =
              [supplier |-> Events[1], lot |-> Events[2],
               batch |-> Events[3], shipment |-> Events[4]]
<1>1. ASSUME NEW i \in 1 .. 4
      PROVE  Events[i] \in lineage /\ HopOf(lineage, Events[i].kind, Events[i].agg) = Events[i]
  BY HopHeld
<1>2. /\ Events[1].kind = "supplier" /\ Events[1].agg = "supplier"
      /\ Events[2].kind = "ingredient_lot" /\ Events[2].agg = "ingredient_lot"
      /\ Events[2].parent = "supplier"
      /\ Events[3].kind = "production_batch" /\ Events[3].agg = "production_batch"
      /\ Events[3].parent = "ingredient_lot"
      /\ Events[4].kind = "shipment" /\ Events[4].parent = "production_batch"
  BY DEF Events, Hop
<1>3. Events[1] # NoHop /\ Events[2] # NoHop /\ Events[3] # NoHop
  <2>1. NoHop.ev = 0
    BY DEF NoHop
  <2> QED BY <2>1, EventNumbers
<1> DEFINE shipments == {r \in lineage : r.kind = "shipment" /\ r.parent = "production_batch"}
<1>4. shipments = {Events[4]}
  <2>1. Events[4] \in shipments
    BY SMT, <1>1, <1>2
  <2>2. ASSUME NEW r \in shipments PROVE r = Events[4]
    <3>1. PICK j \in 1 .. 4 : r = Events[j]
      BY DEF PlatformIsFixture
    <3>2. Events[j].kind = Events[4].kind /\ j \in 1 .. 5
      BY <1>2, <3>1
    <3>3. \A k, m \in 1 .. 5 : Events[k].kind = Events[m].kind => k = m
      BY FixtureEvents
    <3> QED BY SMT, <3>1, <3>2, <3>3
  <2> QED BY <2>1, <2>2
<1> HIDE DEF shipments
<1>5. (CHOOSE r \in shipments : TRUE) = Events[4] /\ shipments # {}
  BY <1>4
<1>6. /\ HopOf(lineage, "production_batch", "production_batch") = Events[3]
      /\ HopOf(lineage, "ingredient_lot", Events[3].parent) = Events[2]
      /\ HopOf(lineage, "supplier", Events[2].parent) = Events[1]
  BY SMT, <1>1, <1>2
<1>7. TraceBatch(lineage, "production_batch") =
        LET batch == HopOf(lineage, "production_batch", "production_batch")
            lot == IF batch = NoHop THEN NoHop ELSE HopOf(lineage, "ingredient_lot", batch.parent)
            supplier == IF lot = NoHop THEN NoHop ELSE HopOf(lineage, "supplier", lot.parent)
            shipment == IF batch = NoHop \/ shipments = {} THEN NoHop
                        ELSE CHOOSE r \in shipments : TRUE
        IN  [supplier |-> supplier, lot |-> lot, batch |-> batch, shipment |-> shipment]
  BY DEF TraceBatch, shipments
<1> QED BY <1>3, <1>5, <1>6, <1>7

\* What a trace shows of the fixture's lineage, as far as it has arrived.
LEMMA PartialTrace ==
    ASSUME PlatformIsFixture
    PROVE  LET t == TraceBatch(lineage, "production_batch")
           IN  /\ t.batch \in {NoHop, Events[3]} /\ t.lot \in {NoHop, Events[2]}
               /\ t.supplier \in {NoHop, Events[1]} /\ t.shipment \in {NoHop, Events[4]}
               /\ t.batch = NoHop => t.lot = NoHop /\ t.shipment = NoHop
               /\ t.lot = NoHop => t.supplier = NoHop
<1>1. /\ Events[1].kind = "supplier" /\ Events[1].agg = "supplier"
      /\ Events[2].kind = "ingredient_lot" /\ Events[2].agg = "ingredient_lot"
      /\ Events[2].parent = "supplier"
      /\ Events[3].kind = "production_batch" /\ Events[3].agg = "production_batch"
      /\ Events[3].parent = "ingredient_lot"
      /\ Events[4].kind = "shipment"
  BY DEF Events, Hop
<1>2. /\ HopOf(lineage, "production_batch", "production_batch") \in {NoHop, Events[3]}
      /\ HopOf(lineage, "ingredient_lot", Events[3].parent) \in {NoHop, Events[2]}
      /\ HopOf(lineage, "supplier", Events[2].parent) \in {NoHop, Events[1]}
  <2>1. \A i \in 1 .. 4 : HopOf(lineage, Events[i].kind, Events[i].agg) \in {NoHop, Events[i]}
    BY HopHeld
  <2>2. 1 \in 1 .. 4 /\ 2 \in 1 .. 4 /\ 3 \in 1 .. 4
    OBVIOUS
  <2>3. /\ HopOf(lineage, Events[1].kind, Events[1].agg) \in {NoHop, Events[1]}
        /\ HopOf(lineage, Events[2].kind, Events[2].agg) \in {NoHop, Events[2]}
        /\ HopOf(lineage, Events[3].kind, Events[3].agg) \in {NoHop, Events[3]}
    BY <2>1, <2>2
  <2> QED BY <1>1, <2>3
<1> DEFINE batch == HopOf(lineage, "production_batch", "production_batch")
           lot == IF batch = NoHop THEN NoHop ELSE HopOf(lineage, "ingredient_lot", batch.parent)
           supplier == IF lot = NoHop THEN NoHop ELSE HopOf(lineage, "supplier", lot.parent)
           shipments == {r \in lineage : r.kind = "shipment" /\ r.parent = "production_batch"}
           shipment == IF batch = NoHop \/ shipments = {} THEN NoHop
                       ELSE CHOOSE r \in shipments : TRUE
<1>3. TraceBatch(lineage, "production_batch")
        = [supplier |-> supplier, lot |-> lot, batch |-> batch, shipment |-> shipment]
  BY DEF TraceBatch
<1>4. \A r \in shipments : r = Events[4]
  <2> SUFFICES ASSUME NEW r \in shipments PROVE r = Events[4]
    OBVIOUS
  <2>1. PICK j \in 1 .. 4 : r = Events[j]
    BY DEF PlatformIsFixture
  <2>2. Events[j].kind = Events[4].kind /\ j \in 1 .. 5
    BY <1>1, <2>1
  <2>3. \A k, m \in 1 .. 5 : Events[k].kind = Events[m].kind => k = m
    BY FixtureEvents
  <2> QED BY SMT, <2>1, <2>2, <2>3
<1> HIDE DEF shipments
<1>5. shipments # {} => (CHOOSE r \in shipments : TRUE) = Events[4]
  BY <1>4
<1>6. /\ batch \in {NoHop, Events[3]} /\ shipment \in {NoHop, Events[4]}
      /\ batch = NoHop => lot = NoHop /\ shipment = NoHop
      /\ lot = NoHop => supplier = NoHop
  BY <1>2, <1>5
<1>7. lot \in {NoHop, Events[2]}
  BY <1>2, <1>6
<1>8. supplier \in {NoHop, Events[1]}
  BY <1>2, <1>7
<1> HIDE DEF batch, lot, supplier, shipment
<1> QED BY <1>3, <1>6, <1>7, <1>8

LEMMA FixtureTraceIsCausal ==
    ASSUME PlatformIsFixture
    PROVE  TraceIsCausal
<1> DEFINE t == TraceBatch(lineage, "production_batch")
<1>1. /\ t.batch \in {NoHop, Events[3]} /\ t.lot \in {NoHop, Events[2]}
      /\ t.supplier \in {NoHop, Events[1]} /\ t.shipment \in {NoHop, Events[4]}
      /\ t.batch = NoHop => t.lot = NoHop /\ t.shipment = NoHop
      /\ t.lot = NoHop => t.supplier = NoHop
  BY PartialTrace
<1>2. \A i \in 1 .. 5 : Events[i].ev = i /\ Events[i].caus = i - 1
  BY FixtureEvents
<1>3. /\ Events[3].caus = Events[2].ev /\ Events[2].caus = Events[1].ev
      /\ Events[4].caus = Events[3].ev
  BY SMT, <1>2
<1>4. ASSUME NEW e \in lineage PROVE inbox[e.ev].disp \in {"applied", "duplicate_noop"}
  <2>1. PICK i \in 1 .. 4 : e = Events[i]
    BY DEF PlatformIsFixture
  <2>2. inbox[i].disp \in Counted /\ e.ev = i
    BY SMT, <1>2, <2>1 DEF PlatformIsFixture
  <2> QED BY <2>2 DEF Counted, Inbox!Applied, Inbox!DuplicateNoop
<1> HIDE DEF t
<1>5. /\ t.lot # NoHop => t.batch.caus = t.lot.ev
      /\ t.supplier # NoHop => t.lot.caus = t.supplier.ev
      /\ t.shipment # NoHop => t.shipment.caus = t.batch.ev
  BY <1>1, <1>3
<1> QED BY <1>4, <1>5 DEF TraceIsCausal, t

-----------------------------------------------------------------------------
(* The theorems.                                                           *)

\* Whatever commands clients send in whatever order, and whatever is killed,
\* repeated or reset: a lineage row of the ERP has its event, caused by the
\* event of its parent row (RegisterSupplier to DispatchShipment in erp/lineage.go).
THEOREM RowsHaveCausedEventsHolds == Spec => []RowsHaveCausedEvents
BY SourceInductive, PTL DEF SourceInv

\* However orders interleave, the events of the stock row count its versions
\* without hole or repeat, each from the quantity the one before left
\* (AcceptOrder in erp/accept.go).
THEOREM InventoryEventsChainHolds == Spec => []InventoryEventsChain
BY SourceInductive, PTL DEF SourceInv

\* Bootstrap runs that race, are killed and are started again, for any number of
\* them and of troubles: over a source that only the fixture and a reset touched,
\* ensureInventory, ensureSource and inspectCheckpoint (bootstrap.Run) never fail
\* and never report a conflict.
THEOREM NoSpuriousConflictHolds == Spec => []NoSpuriousConflict
<1>1. FixtureInv => NoSpuriousConflict
  <2> SUFFICES ASSUME FixtureInv, NEW b \in Runs, run[b].pc \in {"conflict", "failed"},
                      ~foreign, ~run[b].reset
               PROVE  FALSE
    BY DEF NoSpuriousConflict
  <2> QED BY RunAt DEF FixtureInv, PcFits
<1> QED BY <1>1, FixtureInductive, PTL

\* However runs race over a record, with a row read before another run wrote or a
\* reset emptied the table: while only the fixture is written, every lineage row
\* (applyLineage) has an inbox row that counted its event, and TraceBatch shows a
\* chain of causes.
THEOREM TraceIsCausalHolds == Spec => [](~foreign => TraceIsCausal)
<1>1. FixtureInv => (~foreign => TraceIsCausal)
  BY FixtureTraceIsCausal DEF FixtureInv, Fixture
<1> QED BY <1>1, FixtureInductive, PTL

\* Whatever races, is killed or is started again: bootstrap.Run returns a checkpoint
\* (inspectCheckpoint) only over published events and the fixture's stock, and, if
\* only the fixture was written, over the fixture's lineage.
THEOREM CompleteStepHolds == Spec => [][CompleteStep]_vars
<1>1. ViewsInv /\ FixtureInv /\ RunShape /\ [Next]_vars => [CompleteStep]_vars
  <2> SUFFICES ASSUME ViewsInv, FixtureInv, RunShape, Next, NEW b \in Runs,
                      run[b].pc # "complete", run'[b].pc = "complete", ~run[b].reset
               PROVE  /\ \A i \in 1 .. 5 : Published(i)
                      /\ proj = Final
                      /\ ~foreign => TraceBatch(lineage, "production_batch") =
                                       [supplier |-> Events[1], lot |-> Events[2],
                                        batch |-> Events[3], shipment |-> Events[4]]
    BY DEF CompleteStep, Published
  <2> DEFINE source(i) == HopOf(lineage, Events[i].kind, Events[i].agg)
             bad == {i \in 1 .. 4 : source(i) = NoHop \/ source(i).ev # Events[i].ev}
  <2>1. InspectViews(b)
    BY StepsArrive DEF Arrives
  <2>2. run[b].pc = "views" /\ Goto(b, ViewsVerdict)
    BY <2>1 DEF InspectViews
  <2>3. ViewsVerdict = "complete"
    <3>1. \A pc : Goto(b, pc) => run'[b].pc = pc
      BY DEF Goto, RunShape, IsRun
    <3> QED BY <2>2, <3>1
  <2>4. proj = Final /\ bad = {}
    BY <2>3 DEF ViewsVerdict
  <2>5. \A i \in 1 .. 5 : Published(i)
    BY <2>2 DEF ViewsInv
  <2>6. ASSUME ~foreign PROVE TraceBatch(lineage, "production_batch") =
                                [supplier |-> Events[1], lot |-> Events[2],
                                 batch |-> Events[3], shipment |-> Events[4]]
    <3>1. \A i \in 1 .. 4 : source(i) # NoHop
      BY <2>4
    <3>2. PlatformIsFixture
      BY <2>6 DEF FixtureInv, Fixture
    <3> QED BY <3>1, <3>2, AcceptedTrace
  <2> QED BY <2>4, <2>5, <2>6
<1> QED BY <1>1, ViewsInductive, FixtureInductive, SourceInductive, PTL DEF Spec

=============================================================================
