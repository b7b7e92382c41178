---------------------------- MODULE ProjectionTx ----------------------------
(***************************************************************************)
(* The same decisions as InboxProjection, statement by statement: the live *)
(* consumer and one operator control (replay, or rebuild = reset and       *)
(* replay) run processValidated against one item's projection under        *)
(* PostgreSQL's READ COMMITTED (src/platform/process.go, tenant_controls.go). *)
(*                                                                         *)
(* PostgreSQL is external.  As the statements use it: SELECT FOR UPDATE    *)
(* locks a committed row, waiting for its holder, and locks nothing when   *)
(* there is no committed row; INSERT waits for an uncommitted row of the   *)
(* same key and then fails, or with ON CONFLICT updates it; DELETE takes   *)
(* the rows committed when it starts; of two transactions that wait on     *)
(* each other one is aborted; writes appear at commit.                     *)
(***************************************************************************)
EXTENDS InboxRules, Sequences

CONSTANTS
    History,        \* the retained outbox rows, in replay order
    Consumer, Operator, NoProc,
    MaxDeliveries,  \* model bound on the consumer's records
    MaxFaults       \* model bound on failed statements

\* LoadTenantOutboxHistory.
Retained == {History[i] : i \in DOMAIN History}

\* Only the reset of the source, which Northstar has, deletes outbox rows: here
\* whatever arrives is retained.  The rows are replayed by aggregate version, and
\* the ledger records one event a version.
ASSUME HistoryAssumption ==
    /\ History \in Seq(Msgs)
    /\ Msgs = Retained
    /\ \A i, j \in DOMAIN History : i < j => History[i].ver < History[j].ver
    /\ \A m, n \in Msgs : m.id = n.id => m = n
    /\ \A m, n \in Msgs : m.item = n.item
    /\ MaxDeliveries \in Nat /\ MaxFaults \in Nat
    /\ Consumer # Operator /\ NoProc \notin {Consumer, Operator}

Procs == {Consumer, Operator}

VARIABLES
    inbox,      \* committed inbox rows
    proj,       \* the item's committed projection row
    rowLock,    \* who has locked or inserted an inbox row
    viewLock,   \* who has locked or inserted the projection row
    tx,         \* each process's ProcessRecord call
    control,    \* the operator's control
    doomed,     \* inbox rows its DELETE has still to take
    deliveries, faults

dataVars == <<inbox, proj>>
lockVars == <<rowLock, viewLock>>
vars == <<dataVars, lockVars, tx, control, doomed, deliveries, faults>>

NoTx == [pc |-> "idle", msg |-> NoMsg, redriving |-> FALSE,
         disp |-> "none", new |-> NoRow, res |-> "none"]

Init ==
    /\ inbox = [i \in Ids |-> NoRow]
    /\ proj = NoView
    /\ rowLock = [i \in Ids |-> NoProc]
    /\ viewLock = NoProc
    /\ tx = [p \in Procs |-> NoTx]
    /\ control = [stage |-> "start", rebuild |-> FALSE, quiesced |-> FALSE,
                  idx |-> 0, status |-> "complete", sum |-> NoView]
    /\ doomed = {}
    /\ deliveries = 0
    /\ faults = 0

Fault == faults < MaxFaults /\ faults' = faults + 1

-----------------------------------------------------------------------------
(* PostgreSQL.                                                             *)

FreeFor(p, holder) == holder \in {p, NoProc}

Released(p) == [i \in Ids |-> IF rowLock[i] = p THEN NoProc ELSE rowLock[i]]

ReleaseLocks(p) ==
    /\ rowLock' = Released(p)
    /\ viewLock' = IF viewLock = p THEN NoProc ELSE viewLock

\* The processes that the next statement of p's ProcessRecord waits for.
Blockers(p) ==
    LET row == IF tx[p].msg = NoMsg THEN NoProc ELSE rowLock[tx[p].msg.id]
    IN  (CASE tx[p].pc = "lockInbox" /\ inbox[tx[p].msg.id] # NoRow -> {row}
           [] tx[p].pc = "upsertInbox"                              -> {row}
           [] tx[p].pc = "lockProjection" /\ proj # NoView          -> {viewLock}
           [] tx[p].pc = "insertProjection"                         -> {viewLock}
           [] OTHER                                                 -> {})
        \ {p, NoProc}

Deadlocked(p) == \E q \in Blockers(p) : p \in Blockers(q)

-----------------------------------------------------------------------------
(* processValidated.                                                       *)

\* ProcessRecord, or one round of redriveGaps, begins a transaction on m.
Begin(p, m, redriving) ==
    [tx EXCEPT ![p] = [NoTx EXCEPT !.pc = "lockInbox", !.msg = m,
                                   !.redriving = redriving,
                                   !.res = IF redriving THEN tx[p].res ELSE "none"]]

LockInbox(p) ==
    LET m == tx[p].msg
        r == inbox[m.id]
    IN  /\ tx[p].pc = "lockInbox"
        /\ r = NoRow \/ FreeFor(p, rowLock[m.id])
        /\ rowLock' = IF r = NoRow THEN rowLock ELSE [rowLock EXCEPT ![m.id] = p]
        /\ tx' = [tx EXCEPT
                    ![p].pc = IF Fresh(r, m) THEN "lockProjection"
                              ELSE IF Conflicts(r, m) \/ Duplicates(r, m)
                              THEN "upsertInbox" ELSE "commit",
                    ![p].disp = IF Fresh(r, m) THEN "none"
                                ELSE ProcessValidated(r, NoView, m)]
        /\ UNCHANGED <<dataVars, viewLock, control, doomed, deliveries, faults>>

\* Mutant: the row is read without FOR UPDATE.
LockProjectionUnlocked(p) ==
    LET d == ApplyProjection(proj, tx[p].msg)
    IN  /\ tx[p].pc = "lockProjection"
        /\ tx' = [tx EXCEPT
                    ![p].pc = IF proj = NoView /\ d = Applied
                              THEN "insertProjection" ELSE "upsertInbox",
                    ![p].disp = d]
        /\ UNCHANGED <<dataVars, lockVars, control, doomed, deliveries, faults>>

\* applyProjection reads the projection row and decides.
LockProjection(p) ==
    LET d == ApplyProjection(proj, tx[p].msg)
    IN  /\ tx[p].pc = "lockProjection"
        /\ proj = NoView \/ FreeFor(p, viewLock)
        /\ viewLock' = IF proj = NoView THEN viewLock ELSE p
        /\ tx' = [tx EXCEPT
                    ![p].pc = IF proj = NoView /\ d = Applied
                              THEN "insertProjection" ELSE "upsertInbox",
                    ![p].disp = d]
        /\ UNCHANGED <<dataVars, rowLock, control, doomed, deliveries, faults>>

\* A transaction ends without effect and ProcessRecord returns ErrTransient.
Abort(p) ==
    /\ ReleaseLocks(p)
    /\ tx' = [tx EXCEPT ![p] = [NoTx EXCEPT !.res = "failed"]]
    /\ UNCHANGED <<dataVars, control, doomed, deliveries>>

InsertProjection(p) ==
    /\ tx[p].pc = "insertProjection"
    /\ FreeFor(p, viewLock)
    /\ proj = NoView
    /\ viewLock' = p
    /\ tx' = [tx EXCEPT ![p].pc = "upsertInbox"]
    /\ UNCHANGED <<dataVars, rowLock, control, doomed, deliveries, faults>>

\* Another transaction inserted the row first: a unique violation.
InsertProjectionFails(p) ==
    /\ tx[p].pc = "insertProjection"
    /\ FreeFor(p, viewLock)
    /\ proj # NoView
    /\ Abort(p)
    /\ UNCHANGED faults

WriteInbox(p) ==
    LET m == tx[p].msg
    IN  /\ tx[p].pc = "upsertInbox"
        /\ FreeFor(p, rowLock[m.id])
        /\ rowLock' = [rowLock EXCEPT ![m.id] = p]
        /\ tx' = [tx EXCEPT ![p].pc = "commit",
                            ![p].new = UpsertInbox(inbox[m.id], m, tx[p].disp)]
        /\ UNCHANGED <<dataVars, viewLock, control, doomed, deliveries, faults>>

\* The transaction's writes appear, and its locks go.
CommitEffects(p) ==
    LET m == tx[p].msg
    IN  /\ tx[p].pc = "commit"
        /\ inbox' = IF tx[p].new = NoRow THEN inbox
                    ELSE [inbox EXCEPT ![m.id] = tx[p].new]
        /\ proj' = IF tx[p].disp = Applied THEN Projected(m) ELSE proj
        /\ ReleaseLocks(p)

\* After it, ProcessRecord re-drives gaps, or returns.
Commit(p) ==
    LET d == tx[p].disp
        first == ~tx[p].redriving
        again == d = Applied \/ (first /\ d = DuplicateNoop)
    IN  /\ CommitEffects(p)
        /\ tx' = [tx EXCEPT ![p] =
                    [NoTx EXCEPT !.pc = IF again THEN "redrive" ELSE "idle",
                                 !.res = IF first THEN d ELSE tx[p].res]]
        /\ UNCHANGED <<control, doomed, deliveries, faults>>

\* The commit succeeds and its answer is lost.
CommitAnswerLost(p) ==
    /\ CommitEffects(p)
    /\ Fault
    /\ tx' = [tx EXCEPT ![p] = [NoTx EXCEPT !.res = "failed"]]
    /\ UNCHANGED <<control, doomed, deliveries>>

\* redriveGaps selects the gap that follows the projection, if there is one.
RedriveGaps(p) ==
    LET gaps == {m \in Msgs : /\ inbox[m.id].disp = Gap
                              /\ inbox[m.id].bytes = m
                              /\ proj # NoView
                              /\ m.ver = proj.ver + 1}
    IN  /\ tx[p].pc = "redrive"
        /\ \/ \E m \in gaps : tx' = Begin(p, m, TRUE)
           \/ gaps = {} /\ tx' = [tx EXCEPT ![p].pc = "idle"]
        /\ UNCHANGED <<dataVars, lockVars, control, doomed, deliveries, faults>>

StatementFails(p) ==
    /\ tx[p].pc # "idle"
    /\ Fault
    /\ Abort(p)

DeadlockVictim(p) ==
    /\ tx[p].pc # "idle"
    /\ Deadlocked(p)
    /\ Abort(p)
    /\ UNCHANGED faults

ProcessRecord(p) ==
    \/ LockInbox(p) \/ LockProjection(p)
    \/ InsertProjection(p) \/ InsertProjectionFails(p)
    \/ WriteInbox(p) \/ Commit(p) \/ CommitAnswerLost(p)
    \/ RedriveGaps(p) \/ StatementFails(p) \/ DeadlockVictim(p)

-----------------------------------------------------------------------------
(* The consumer receives records in any order, and again.                  *)

ControlRuns == control.stage \notin {"start", "done"}

Deliver(m) ==
    /\ tx[Consumer].pc = "idle"
    /\ ~(control.quiesced /\ ControlRuns)
    /\ deliveries < MaxDeliveries
    /\ deliveries' = deliveries + 1
    /\ tx' = Begin(Consumer, m, FALSE)
    /\ UNCHANGED <<dataVars, lockVars, control, doomed, faults>>

-----------------------------------------------------------------------------
(* The operator.                                                           *)

Enter(stage) == control' = [control EXCEPT !.stage = stage]

\* ReplayTenantHistory, or RebuildTenantFromHistory, which resets the tenant
\* first, with the inbox rows its DELETE finds.  The operator may have stopped
\* the consumer for as long as the control runs.
StartControl(rebuild, quiesced) ==
    /\ control.stage = "start"
    /\ quiesced => tx[Consumer].pc = "idle"
    /\ control' = [control EXCEPT !.stage = IF rebuild THEN "deleteInbox" ELSE "replay",
                                  !.rebuild = rebuild, !.quiesced = quiesced]
    /\ doomed' = IF rebuild THEN {i \in Ids : inbox[i] # NoRow} ELSE {}
    /\ UNCHANGED <<dataVars, lockVars, tx, deliveries, faults>>

DeleteInboxRow(i) ==
    /\ control.stage = "deleteInbox"
    /\ i \in doomed
    /\ FreeFor(Operator, rowLock[i])
    /\ rowLock' = [rowLock EXCEPT ![i] = Operator]
    /\ doomed' = doomed \ {i}
    /\ UNCHANGED <<dataVars, viewLock, tx, control, deliveries, faults>>

InboxDeleted ==
    /\ control.stage = "deleteInbox"
    /\ doomed = {}
    /\ Enter("deleteProjection")
    /\ UNCHANGED <<dataVars, lockVars, tx, doomed, deliveries, faults>>

\* With no committed row there is nothing to delete or to lock.
DeleteProjection ==
    /\ control.stage = "deleteProjection"
    /\ proj = NoView \/ FreeFor(Operator, viewLock)
    /\ viewLock' = IF proj = NoView THEN viewLock ELSE Operator
    /\ Enter("commitReset")
    /\ UNCHANGED <<dataVars, rowLock, tx, doomed, deliveries, faults>>

\* Mutant: the inbox rows stay.
CommitResetKeepsInbox ==
    /\ control.stage = "commitReset"
    /\ proj' = IF viewLock = Operator THEN NoView ELSE proj
    /\ ReleaseLocks(Operator)
    /\ Enter("replay")
    /\ UNCHANGED <<inbox, tx, doomed, deliveries, faults>>

CommitReset ==
    /\ control.stage = "commitReset"
    /\ inbox' = [i \in Ids |-> IF rowLock[i] = Operator THEN NoRow ELSE inbox[i]]
    /\ proj' = IF viewLock = Operator THEN NoView ELSE proj
    /\ ReleaseLocks(Operator)
    /\ Enter("replay")
    /\ UNCHANGED <<tx, doomed, deliveries, faults>>

\* The reset rolls back and the control returns its error.  It does not
\* deadlock with the consumer: an inbox row that the consumer asks for after the
\* projection row is one it inserts, which the DELETE does not hold.
ResetFails ==
    /\ control.stage \in {"deleteInbox", "deleteProjection", "commitReset"}
    /\ Fault
    /\ ReleaseLocks(Operator)
    /\ doomed' = {}
    /\ control' = [control EXCEPT !.stage = "done", !.status = "incomplete"]
    /\ UNCHANGED <<dataVars, tx, deliveries>>

Terminal == {Conflict, Stale, Mismatch, Transition}

\* replayTenantRecords: the status after the record that has just been
\* processed.
StatusSoFar == IF tx[Operator].res \in Terminal THEN "incomplete" ELSE control.status

ReplayRecord ==
    /\ control.stage = "replay" /\ tx[Operator].pc = "idle"
    /\ tx[Operator].res # "failed"
    /\ control.idx < Len(History)
    /\ tx' = Begin(Operator, History[control.idx + 1], FALSE)
    /\ control' = [control EXCEPT !.idx = @ + 1, !.status = StatusSoFar]
    /\ UNCHANGED <<dataVars, lockVars, doomed, deliveries, faults>>

ReplayStops ==
    /\ control.stage = "replay" /\ tx[Operator].pc = "idle"
    /\ tx[Operator].res = "failed"
    /\ control' = [control EXCEPT !.stage = "done", !.status = "incomplete"]
    /\ UNCHANGED <<dataVars, lockVars, tx, doomed, deliveries, faults>>

\* Residual gaps fail the control; an empty history does too.
CountGaps ==
    /\ control.stage = "replay" /\ tx[Operator].pc = "idle"
    /\ tx[Operator].res # "failed"
    /\ control.idx = Len(History)
    /\ control' = [control EXCEPT
                     !.stage = "checksum",
                     !.status = IF \/ History = <<>>
                                   \/ \E i \in Ids : inbox[i].disp = Gap
                                THEN "incomplete" ELSE StatusSoFar]
    /\ UNCHANGED <<dataVars, lockVars, tx, doomed, deliveries, faults>>

ChecksumTenant ==
    /\ control.stage = "checksum"
    /\ control' = [control EXCEPT !.stage = "done", !.sum = proj]
    /\ UNCHANGED <<dataVars, lockVars, tx, doomed, deliveries, faults>>

Control ==
    \/ \E rebuild, quiesced \in BOOLEAN : StartControl(rebuild, quiesced)
    \/ InboxDeleted \/ DeleteProjection \/ CommitReset
    \/ ResetFails \/ ReplayRecord \/ ReplayStops \/ CountGaps \/ ChecksumTenant
    \/ \E i \in Ids : DeleteInboxRow(i)

Next ==
    \/ \E p \in Procs : ProcessRecord(p)
    \/ \E m \in Msgs : Deliver(m)
    \/ Control

Spec == Init /\ [][Next]_vars

-----------------------------------------------------------------------------
(* Properties.                                                             *)

\* The committed projection advances by one version or is reset: no two
\* transactions decide on the same row (the FOR UPDATE in applyProjection, the
\* primary key where there is no row to lock).
OneVersionAtATime == [][proj' # proj => proj' = NoView \/ proj'.ver = proj.ver + 1]_proj

\* No reset runs beside the consumer.
NoLiveReset == control.rebuild => control.quiesced

\* An inbox row that says applied is backed by the projection, the condition
\* under which answering duplicate_noop loses nothing: beside a replay, and
\* after a rebuild for which the consumer was stopped.
AppliedIsProjected ==
    NoLiveReset =>
        \A m \in Msgs : inbox[m.id].disp \in {Applied, DuplicateNoop} => proj.ver >= m.ver

\* A row once applied stays applied or duplicate_noop, unless a reset deletes
\* it: another delivery of the same event is a no-op.
MatchingDuplicateIsNoop ==
    [][\A i \in Ids : inbox[i].disp \in {Applied, DuplicateNoop} =>
          inbox'[i].disp \in {Applied, DuplicateNoop, "none"}]_inbox

\* A control that reports complete has read the checksum of the whole history:
\* the projection after every retained event.
CompleteIsProof ==
    control.stage = "done" /\ control.status = "complete" =>
        control.sum = Projected(History[Len(History)])

\* The same of a replay, live or not, and of a rebuild for which the consumer
\* was stopped, whatever statements fail or lose their answers.
CompleteIsProofUnlessLive == NoLiveReset => CompleteIsProof

=============================================================================
