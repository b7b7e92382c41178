----------------------------- MODULE Northstar ------------------------------
(***************************************************************************)
(* The Northstar scenario: bootstrap runs (src/bootstrap) that accept the  *)
(* fixture in the ERP, drain the outbox, consume the topic and wait for    *)
(* the checkpoint, beside other clients of the ERP, other runs, the demo   *)
(* fixture commands and the reset command (src/cmd/seshatops).             *)
(*                                                                         *)
(* The ERP is SourceLedger; the platform's decisions are InboxRules and    *)
(* LineageRules.  A record is processed in two steps, the lookup of its    *)
(* inbox row and the rest, so that two runs can have the same event in     *)
(* hand.  The relay's leases are left to OutboxRelay: here a pending row   *)
(* is published and marked, or published and not marked.                   *)
(***************************************************************************)
EXTENDS SourceLedger, LineageRules, Sequences

CONSTANTS
    Runs,           \* bootstrap processes
    Foreign,        \* commands of other clients of the ERP
    MaxTroubles     \* bound on all that happens beside one undisturbed run

VARIABLES
    inbox, proj,    \* the platform's inbox rows and inventory projection
    lineage,        \* its lineage rows
    failures,       \* its processing_failures rows, by topic offset
    topic,          \* the broker's topic, one partition
    run,            \* each bootstrap process
    resetting,      \* the reset command has reset the platform, not yet the ERP
    troubles,       \* kills, failed calls, further runs, resets and other commands so far
    foreign         \* history: a foreign command was accepted

platformVars == <<inbox, proj, lineage, failures>>
budgets == <<troubles, foreign>>
vars == <<ledgerVars, platformVars, topic, run, resetting, budgets>>

-----------------------------------------------------------------------------
(* The fixture.                                                            *)

Hop(i, kind, parent, order) ==
    [ev |-> i, kind |-> kind, agg |-> kind, ver |-> 1, caus |-> i - 1,
     parent |-> parent, order |-> order, before |-> 0, after |-> 0]

\* GenerateLineage: five events, each caused by the one before.
Events ==
    << Hop(1, "supplier", NoId, NoId),
       Hop(2, "ingredient_lot", "supplier", NoId),
       Hop(3, "production_batch", "ingredient_lot", NoId),
       Hop(4, "shipment", "production_batch", "order"),
       [ev |-> 5, kind |-> Inventory, agg |-> Item, ver |-> 1, caus |-> 4,
        parent |-> NoId, order |-> "order", before |-> 10, after |-> 8] >>

\* The command that reproduces an event of the fixture.
CommandFrom(e) ==
    [op |-> e.kind, id |-> e.agg, parent |-> e.parent, order |-> e.order,
     qty |-> e.before - e.after, ev |-> e.ev, caus |-> e.caus]

Final == [qty |-> Events[5].after, ver |-> 1]

\* A record event.Parse rejects, and an outbox row that is never published.
Poison == [ev |-> 0, kind |-> "unsupported"]
IncompleteRow ==
    [ev |-> 100, kind |-> Inventory, agg |-> "item-incomplete", ver |-> 1,
     caus |-> NoEvent, parent |-> NoId, order |-> NoId, before |-> 0, after |-> 0]

EventIds == {c.ev : c \in Commands}

Inbox == INSTANCE InboxRules WITH Msgs <- {}, NoMsg <- Poison

ASSUME ScenarioAssumption ==
    /\ {CommandFrom(Events[i]) : i \in 1 .. 5} \subseteq Commands
    /\ Foreign \subseteq Commands
    /\ SeedQty = Events[5].before
    /\ MaxTroubles \in Nat

-----------------------------------------------------------------------------
Ended == {"new", "stopped", "complete", "conflict", "failed"}
Looping == {"inspect", "views", "drain", "consume"}

NoRun == [pc |-> "new", step |-> 1, pos |-> 0, row |-> Inbox!NoRow,
          busy |-> "no", skipped |-> FALSE, reset |-> FALSE]

Init ==
    /\ LedgerInit
    /\ inbox = [i \in EventIds |-> Inbox!NoRow]
    /\ proj = Inbox!NoView
    /\ lineage = {} /\ failures = {}
    /\ topic = <<>>
    /\ run = [b \in Runs |-> NoRun]
    /\ resetting = FALSE
    /\ troubles = 0 /\ foreign = FALSE

Goto(b, pc) == run' = [run EXCEPT ![b].pc = pc]
Halt(b, pc) == run' = [run EXCEPT ![b].pc = pc, ![b].busy = "no", ![b].row = Inbox!NoRow]

Trouble == troubles < MaxTroubles /\ troubles' = troubles + 1
Fault == Trouble /\ UNCHANGED foreign

SourceOnly == UNCHANGED <<platformVars, topic, resetting>>
ReadOnly == SourceOnly /\ UNCHANGED ledgerVars

\* runBootstrapCommand: a new consumer group reads the topic from its start.
Start(b) ==
    /\ run[b].pc \in Ended
    /\ IF run[b].pc = "stopped" \/ run = [a \in Runs |-> NoRun]
       THEN UNCHANGED budgets ELSE Fault
    /\ run' = [run EXCEPT ![b] = [NoRun EXCEPT !.pc = "seed", !.reset = resetting]]
    /\ ReadOnly

\* The process is killed, or its deadline passes.
Stop(b) ==
    /\ run[b].pc \notin Ended
    /\ Fault
    /\ Halt(b, "stopped")
    /\ ReadOnly

-----------------------------------------------------------------------------
(* Accepting the fixture.                                                  *)

\* loadExpectedOutbox and verifyOutbox.
VerifyOutbox(e) ==
    LET at == {r \in outbox : SameAggregate(r.msg, e)}
    IN  CASE at = {} /\ (\E r \in outbox : r.msg.ev = e.ev) -> "conflict"
          [] at = {} /\ ~(\E r \in outbox : r.msg.ev = e.ev) -> "missing"
          [] at # {} /\ (\E r \in at : r.msg = e)  -> "same"
          [] OTHER                                 -> "conflict"

\* ensureInventory: the insert, and when it fails the lookup.
EnsureInventory(b) ==
    /\ run[b].pc = "seed"
    /\ \/ SeedInventory /\ Goto(b, "sources")
       \/ stock.seeded /\ Goto(b, "lookup") /\ UNCHANGED ledgerVars
    /\ SourceOnly /\ UNCHANGED budgets

\* Mutant: only the untouched seed row is recognised.
LookupInventoryFirstRun(b) ==
    /\ run[b].pc = "lookup"
    /\ Goto(b, CASE ~stock.seeded                       -> "failed"
                 [] stock.qty = SeedQty /\ stock.ver = 0 -> "sources"
                 [] OTHER                               -> "conflict")
    /\ ReadOnly /\ UNCHANGED budgets

LookupInventory(b) ==
    /\ run[b].pc = "lookup"
    /\ Goto(b, CASE ~stock.seeded                       -> "failed"
                 [] stock.seeded /\ stock.qty = SeedQty /\ stock.ver = 0 -> "sources"
                 [] stock.seeded /\ stock.qty = Final.qty /\ stock.ver = 1 ->
                        IF VerifyOutbox(Events[5]) = "same" THEN "sources" ELSE "conflict"
                 [] OTHER                               -> "conflict")
    /\ ReadOnly /\ UNCHANGED budgets

\* ensureSource done for one event: the next, or the checkpoint loop.
NextSource(b) ==
    run' = [run EXCEPT ![b].pc = IF run[b].step = 5 THEN "inspect" ELSE "sources",
                       ![b].step = IF @ = 5 THEN 5 ELSE @ + 1]

\* ensureSource: accept, and compare the accepted event with the fixture's;
\* the acceptance is committed either way.
EnsureSource(b) ==
    LET e == Events[run[b].step]
        c == CommandFrom(e)
    IN  /\ run[b].pc = "sources"
        /\ \/ /\ Accept(c)
              /\ IF Pending(e) \in outbox' THEN NextSource(b) ELSE Goto(b, "conflict")
           \/ /\ Answer(c) # Accepted
              /\ Goto(b, IF Answer(c) \in DuplicateErrors THEN "verify" ELSE "failed")
              /\ UNCHANGED ledgerVars
        /\ SourceOnly /\ UNCHANGED budgets

\* Mutant: the event is accepted again instead of compared.
VerifySourceRetries(b) ==
    /\ run[b].pc = "verify"
    /\ Goto(b, "sources")
    /\ ReadOnly /\ UNCHANGED budgets

\* A source that exists already must have the fixture's event.
VerifySource(b) ==
    /\ run[b].pc = "verify"
    /\ IF VerifyOutbox(Events[run[b].step]) = "same"
       THEN NextSource(b) ELSE Goto(b, "conflict")
    /\ ReadOnly /\ UNCHANGED budgets

-----------------------------------------------------------------------------
(* The checkpoint loop of Run.                                             *)

\* Mutant: a row that is projected counts, published or not.
EventVerdictUnpublished(e) ==
    LET row == inbox[e.ev]
    IN  IF VerifyOutbox(e) # "same" THEN VerifyOutbox(e)
        ELSE IF row = Inbox!NoRow THEN "incomplete"
        ELSE IF row.disp \in {"applied", "duplicate_noop"} THEN "projected"
        ELSE "terminal"

\* The first half of inspectCheckpoint, for one event.
EventVerdict(e) ==
    LET row == inbox[e.ev]
        source == VerifyOutbox(e)
        published == \E r \in outbox : r.msg = e /\ r.status = "published"
    IN  IF source # "same" THEN source
        ELSE IF ~published \/ row = Inbox!NoRow THEN "incomplete"
        ELSE CASE row.hash # e -> "conflict"
               [] row.hash = e /\ row.disp \in {"applied", "duplicate_noop"} -> "projected"
               [] row.hash = e /\ row.disp = "quarantined_gap" -> "incomplete"
               [] OTHER -> "terminal"

\* The events in order: a missing or terminal one ends the inspection, and a
\* conflict found before it ends the run.
InspectEvents(b) ==
    LET verdict(i) == EventVerdict(Events[i])
        conflict == \E i \in 1 .. 5 :
            /\ verdict(i) = "conflict"
            /\ \A j \in 1 .. i - 1 : verdict(j) \notin {"missing", "terminal"}
    IN  /\ run[b].pc = "inspect"
        /\ Goto(b, IF conflict THEN "conflict"
                   ELSE IF \A i \in 1 .. 5 : verdict(i) = "projected" THEN "views"
                   ELSE "drain")
        /\ ReadOnly /\ UNCHANGED budgets

\* The second half, over the projections.
ViewsVerdict ==
    LET source(i) == HopOf(lineage, Events[i].kind, Events[i].agg)
        bad == {i \in 1 .. 4 : source(i) = NoHop \/ source(i).ev # Events[i].ev}
    IN  CASE proj = Inbox!NoView                            -> "drain"
          [] proj # Inbox!NoView /\ proj # Final            -> "conflict"
          [] proj = Final /\ bad = {}                       -> "complete"
          [] OTHER ->
                IF source(CHOOSE i \in bad : \A j \in bad : i <= j) = NoHop
                THEN "drain" ELSE "conflict"

InspectViews(b) ==
    /\ run[b].pc = "views"
    /\ Goto(b, ViewsVerdict)
    /\ ReadOnly /\ UNCHANGED budgets

PendingRows == {r \in outbox : r.status = "pending"}

Publish(r) == topic' = Append(topic, r.msg) /\ UNCHANGED <<platformVars, run, resetting>>

\* DrainOnce, one row: the oldest, or a later one when that one's turn fails.
DrainRow(b) ==
    /\ run[b].pc = "drain"
    /\ \E r \in PendingRows :
          /\ \/ (\A q \in PendingRows : r.at <= q.at) /\ UNCHANGED budgets
             \/ Fault
          /\ MarkPublished(r)
          /\ Publish(r)

\* The broker has the record, and the row is not marked.
DrainUnmarked(b) ==
    /\ run[b].pc = "drain"
    /\ Fault
    /\ \E r \in PendingRows : Publish(r)
    /\ UNCHANGED ledgerVars

\* Nothing is left; or publishing fails, or another process holds the leases.
DrainEnds(b) ==
    /\ run[b].pc = "drain"
    /\ \/ PendingRows = {} /\ UNCHANGED budgets
       \/ PendingRows # {} /\ Fault
    /\ Goto(b, "consume")
    /\ ReadOnly

\* ConsumeOnce: ProcessRecord on the next record looks its inbox row up.
ReadInbox(b) ==
    LET e == topic[run[b].pos + 1]
    IN  /\ run[b].pc = "consume" /\ run[b].busy = "no"
        /\ run[b].pos < Len(topic)
        /\ run' = [run EXCEPT ![b].busy = "read",
                     ![b].row = IF e = Poison THEN Inbox!NoRow ELSE inbox[e.ev]]
        /\ ReadOnly /\ UNCHANGED budgets

\* applyEvent.
Disposition(r, e) ==
    CASE Inbox!Conflicts(r, e)                      -> Inbox!Conflict
      [] Inbox!Duplicates(r, e)                     -> Inbox!DuplicateNoop
      [] Inbox!Fresh(r, e) /\ e.kind = Inventory    -> Inbox!ApplyProjection(proj, e)
      [] Inbox!Fresh(r, e) /\ e.kind # Inventory    -> ApplyLineage(lineage, e)
      [] OTHER                                      -> r.disp

\* processValidated on e, its inbox row having been read as r.
ProcessValidated(r, e) ==
    LET d == Disposition(r, e)
        applied == Inbox!Fresh(r, e) /\ d = Inbox!Applied
        written == Inbox!Conflicts(r, e) \/ Inbox!Duplicates(r, e) \/ Inbox!Fresh(r, e)
    IN  /\ inbox' = [inbox EXCEPT ![e.ev] = IF written THEN Inbox!UpsertInbox(@, e, d) ELSE @]
        /\ proj' = IF applied /\ e.kind = Inventory THEN Inbox!Projected(e) ELSE proj
        /\ lineage' = IF applied /\ e.kind # Inventory THEN lineage \cup {e} ELSE lineage
        /\ UNCHANGED failures

Returned(b) ==
    run' = [run EXCEPT ![b].busy = "no", ![b].row = Inbox!NoRow, ![b].pos = @ + 1]

\* The rest of ProcessRecord: persistParseFailure, or processValidated and,
\* when the record counted, the re-drive of gaps.
ProcessRecord(b) ==
    LET e == topic[run[b].pos + 1]
        r == run[b].row
    IN  /\ run[b].busy = "read"
        /\ \/ /\ e = Poison
              /\ failures' = failures \cup {run[b].pos}
              /\ Returned(b)
              /\ UNCHANGED <<inbox, proj, lineage>>
           \/ /\ e # Poison
              /\ ProcessValidated(r, e)
              /\ IF /\ e.kind = Inventory
                    /\ Disposition(r, e) \in {Inbox!Applied, Inbox!DuplicateNoop}
                 THEN run' = [run EXCEPT ![b].busy = "redrive", ![b].row = Inbox!NoRow]
                 ELSE Returned(b)
        /\ UNCHANGED <<ledgerVars, topic, resetting, budgets>>

\* redriveGaps: the gap that follows the projection, while there is one.
RedriveGaps(b) ==
    LET gaps == {i \in EventIds : /\ inbox[i].disp = Inbox!Gap
                                  /\ inbox[i].bytes.kind = Inventory
                                  /\ proj # Inbox!NoView
                                  /\ inbox[i].bytes.ver = proj.ver + 1}
    IN  /\ run[b].busy = "redrive"
        /\ \/ \E i \in gaps :
                 /\ ProcessValidated(inbox[i], inbox[i].bytes)
                 /\ IF Disposition(inbox[i], inbox[i].bytes) = Inbox!Applied
                    THEN UNCHANGED run ELSE Returned(b)
           \/ gaps = {} /\ Returned(b) /\ UNCHANGED platformVars
        /\ UNCHANGED <<ledgerVars, topic, resetting, budgets>>

\* The fetch is done; or a transient failure drops the rest of it, and the
\* client will poll on after it.
ConsumeEnds(b) ==
    /\ run[b].pc = "consume"
    /\ \/ /\ run[b].busy = "no" /\ run[b].pos = Len(topic)
          /\ Goto(b, "inspect")
          /\ UNCHANGED budgets
       \/ /\ run[b].pos < Len(topic)
          /\ Fault
          /\ run' = [run EXCEPT ![b].pc = "inspect", ![b].busy = "no",
                       ![b].row = Inbox!NoRow, ![b].skipped = TRUE, ![b].pos = Len(topic)]
    /\ ReadOnly

-----------------------------------------------------------------------------
(* The other commands.                                                     *)

\* Another client of the ERP.
ForeignCommand(c) ==
    /\ Trouble
    /\ foreign' = TRUE
    /\ Accept(c)
    /\ SourceOnly /\ UNCHANGED run

\* demo-fixture duplicate: the last event again, once it has been published.
DemoDuplicate ==
    /\ Fault
    /\ \E r \in outbox :
          /\ r.msg = Events[5] /\ r.status = "published"
          /\ Publish(r)
    /\ UNCHANGED ledgerVars

\* demo-fixture poison: a record of an unsupported schema version.
DemoPoison ==
    /\ Fault
    /\ topic' = Append(topic, Poison)
    /\ UNCHANGED <<ledgerVars, platformVars, run, resetting>>

\* demo-fixture forecast-incomplete: a quarantined row of another item.
DemoForecastIncomplete ==
    /\ Fault
    /\ outbox' = outbox \cup
          (IF \E r \in outbox : r.msg = IncompleteRow THEN {}
           ELSE {Row(IncompleteRow, "quarantined")})
    /\ UNCHANGED <<stock, orders, rows, run>> /\ SourceOnly

\* runResetNorthstarCommand: the platform's tables, then the ERP's; the topic
\* keeps what was published.
Overtaken == [b \in Runs |-> [run[b] EXCEPT !.reset = @ \/ run[b].pc \notin Ended]]

ResetDerivedStateForTenant ==
    /\ ~resetting
    /\ Fault
    /\ resetting' = TRUE
    /\ inbox' = [i \in EventIds |-> Inbox!NoRow]
    /\ proj' = Inbox!NoView
    /\ lineage' = {} /\ failures' = {}
    /\ run' = Overtaken
    /\ UNCHANGED <<ledgerVars, topic>>

ResetSource ==
    /\ resetting
    /\ resetting' = FALSE
    /\ ResetSourceForTenant
    /\ run' = Overtaken
    /\ UNCHANGED <<platformVars, topic, budgets>>

-----------------------------------------------------------------------------
Bootstrap(b) ==
    \/ EnsureInventory(b) \/ LookupInventory(b)
    \/ EnsureSource(b) \/ VerifySource(b)
    \/ InspectEvents(b) \/ InspectViews(b)
    \/ DrainRow(b) \/ DrainEnds(b)
    \/ ReadInbox(b) \/ ProcessRecord(b) \/ RedriveGaps(b) \/ ConsumeEnds(b)

Next ==
    \/ \E b \in Runs : Start(b) \/ Stop(b) \/ Bootstrap(b) \/ DrainUnmarked(b)
    \/ \E c \in Foreign : ForeignCommand(c)
    \/ DemoDuplicate \/ DemoPoison \/ DemoForecastIncomplete
    \/ ResetDerivedStateForTenant \/ ResetSource

Spec == Init /\ [][Next]_vars

(* A run that is not stopped keeps taking its steps.                       *)
FairSpec == Spec /\ \A b \in Runs : WF_vars(Bootstrap(b))

-----------------------------------------------------------------------------
(* Properties.                                                             *)

\* A lineage row is backed by an inbox row that says so, and a trace shows a
\* chain in which each hop was caused by the one before it.
TraceIsCausal ==
    LET t == TraceBatch(lineage, "production_batch")
    IN  /\ t.lot # NoHop => t.batch.caus = t.lot.ev
        /\ t.supplier # NoHop => t.lot.caus = t.supplier.ev
        /\ t.shipment # NoHop => t.shipment.caus = t.batch.ev
        /\ \A e \in lineage : inbox[e.ev].disp \in {"applied", "duplicate_noop"}

\* A run reports complete only when, at that moment, every event is published
\* and both projections hold the fixture, unless a reset overtook the run.
CompleteIsTrue ==
    [][\A b \in Runs :
          run[b].pc # "complete" /\ run'[b].pc = "complete" /\ ~run[b].reset =>
            /\ \A i \in 1 .. 5 : \E r \in outbox :
                  r.msg = Events[i] /\ r.status = "published"
            /\ proj = Final
            /\ TraceBatch(lineage, "production_batch") =
                  [supplier |-> Events[1], lot |-> Events[2],
                   batch |-> Events[3], shipment |-> Events[4]]]_vars

\* Runs that race, crash and are started again, over state that only the
\* fixture made, never fail and never report a conflict.
NoSpuriousConflict ==
    \A b \in Runs :
        run[b].pc \in {"conflict", "failed"} => foreign \/ run[b].reset

\* What keeps a run from its checkpoint: a record it failed on and polled past,
\* the order's event quarantined (by another client's event of that version, or
\* by two runs processing it at once), or a rejected or quarantined hop.
Obstructed(b) ==
    \/ run[b].skipped
    \/ run[b].reset
    \/ \E i \in 1 .. 5 : inbox[i].disp \in {"quarantined_stale", "quarantined_invalid"}

\* A run that is left running reaches its checkpoint, or something obstructs it.
EventuallyEnds ==
    \A b \in Runs : []<>(run[b].pc \in Ended \/ Obstructed(b))

=============================================================================
