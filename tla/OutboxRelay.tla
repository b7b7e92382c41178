---------------------------- MODULE OutboxRelay ----------------------------
(***************************************************************************)
(* The source-owned outbox relay (src/relay): rows of erp.outbox, relay    *)
(* processes that claim them under leases, publish them to the broker and  *)
(* record the outcome, process crashes, and the operator's release of a    *)
(* quarantined row.                                                        *)
(*                                                                         *)
(* Every SQL statement of the relay commits on its own, so each is one     *)
(* step.  Time appears only through its effect: LeaseExpires lets a lease, *)
(* or the backoff that is stored in the same column, run out at any        *)
(* moment, in particular while its owner is still draining.                *)
(***************************************************************************)
EXTENDS Integers, Sequences, FiniteSets

CONSTANTS
    Events,       \* outbox rows, numbered in created_at order
    Bad,          \* rows whose bytes do not parse or contradict their columns
    Workers,      \* relay process incarnations; each has its own random owner
    NoOwner,      \* a NULL lease_owner
    Limit,        \* the drain limit
    MaxFaults     \* model bound on faults, so on publish_attempts and the log

ASSUME EventsAssumption == Events \subseteq Nat
ASSUME BadAssumption == Bad \subseteq Events
ASSUME OwnerAssumption == NoOwner \notin Workers
ASSUME BoundsAssumption == Limit \in Nat \ {0} /\ MaxFaults \in Nat

VARIABLES
    status,    \* row status, "absent" before the source transaction commits
    owner,     \* lease_owner
    lease,     \* lease_expires_at: "none" (NULL), "live" (future), "past"
    attempts,  \* publish_attempts
    log,       \* records the broker holds, in partition order
    inflight,  \* produce requests whose client gave up but the broker may take
    phase,     \* relay process: "drain" (loop head), "acked", "failed", "dead"
    todo,      \* rows the process claimed and has not finished
    att,       \* publish_attempts as returned by the process's own claim
    faults     \* faults so far

rowVars == <<status, owner, lease, attempts>>
procVars == <<phase, todo, att>>
vars == <<rowVars, log, inflight, procVars, faults>>

StatusPending == "pending"
StatusPublishing == "publishing"
StatusPublished == "published"
StatusQuarantined == "quarantined"

Statuses ==
    {"absent", StatusPending, StatusPublishing, StatusPublished, StatusQuarantined}

TypeOK ==
    /\ status \in [Events -> Statuses]
    /\ owner \in [Events -> Workers \cup {NoOwner}]
    /\ lease \in [Events -> {"none", "live", "past"}]
    /\ attempts \in [Events -> Nat]
    /\ log \in Seq(Events)
    /\ inflight \subseteq Events
    /\ phase \in [Workers -> {"drain", "acked", "failed", "dead"}]
    /\ todo \in [Workers -> SUBSET Events]
    /\ att \in [Workers -> [Events -> Nat]]
    /\ faults \in 0 .. MaxFaults

Init ==
    /\ status = [e \in Events |-> "absent"]
    /\ owner = [e \in Events |-> NoOwner]
    /\ lease = [e \in Events |-> "none"]
    /\ attempts = [e \in Events |-> 0]
    /\ log = <<>>
    /\ inflight = {}
    /\ phase = [w \in Workers |-> "drain"]
    /\ todo = [w \in Workers |-> {}]
    /\ att = [w \in Workers |-> [e \in Events |-> 0]]
    /\ faults = 0

\* A fault: a crash, a failed or unanswered call, a late drain, or an operator
\* sending a row round again.
Fault == faults < MaxFaults /\ faults' = faults + 1

-----------------------------------------------------------------------------
(* The source and the clock.                                               *)

\* insertPendingOutbox: the source transaction commits a new row.
InsertPendingOutbox(e) ==
    /\ status[e] = "absent"
    /\ \A f \in Events : f < e => status[f] # "absent"
    /\ status' = [status EXCEPT ![e] = StatusPending]
    /\ UNCHANGED <<owner, lease, attempts, log, inflight, procVars, faults>>

\* A live process that still has e to drain under its own lease.
Draining(e) ==
    \E w \in Workers : phase[w] # "dead" /\ e \in todo[w] /\ owner[e] = w

\* A lease or a backoff runs out.  That a drain outlasts its own lease is a
\* fault: the 10 s cycle timeout is below the 30 s lease.
LeaseExpires(e) ==
    /\ lease[e] = "live" /\ ~Draining(e)
    /\ lease' = [lease EXCEPT ![e] = "past"]
    /\ UNCHANGED <<status, owner, attempts, log, inflight, procVars, faults>>

LeaseExpiresEarly(e) ==
    /\ lease[e] = "live" /\ Draining(e) /\ Fault
    /\ lease' = [lease EXCEPT ![e] = "past"]
    /\ UNCHANGED <<status, owner, attempts, log, inflight, procVars>>

-----------------------------------------------------------------------------
(* The relay process.                                                      *)

\* Mutant: an expired publishing row is never reclaimed.
DuePendingOnly(e) ==
    /\ status[e] = StatusPending
    /\ lease[e] \in {"none", "past"}

\* ClaimDue's WHERE clause.
Due(e) ==
    /\ status[e] \in {StatusPending, StatusPublishing}
    /\ lease[e] \in {"none", "past"}

\* The first Limit due rows in created_at order.
Batch ==
    {e \in Events : Due(e) /\ Cardinality({f \in Events : Due(f) /\ f < e}) < Limit}

\* The UPDATE of ClaimDue on the rows of S.
TakeLeases(w, S) ==
    /\ status' = [e \in Events |-> IF e \in S THEN StatusPublishing ELSE status[e]]
    /\ owner' = [e \in Events |-> IF e \in S THEN w ELSE owner[e]]
    /\ lease' = [e \in Events |-> IF e \in S THEN "live" ELSE lease[e]]
    /\ attempts' = [e \in Events |-> IF e \in S THEN attempts[e] + 1 ELSE attempts[e]]

Idle(w) == phase[w] = "drain" /\ todo[w] = {}

\* DrainOnce starts with a successful ClaimDue.
ClaimDue(w) ==
    /\ Idle(w)
    /\ Batch # {}
    /\ TakeLeases(w, Batch)
    /\ todo' = [todo EXCEPT ![w] = Batch]
    /\ att' = [att EXCEPT ![w] =
                 [e \in Events |-> IF e \in Batch THEN attempts[e] + 1 ELSE att[w][e]]]
    /\ UNCHANGED <<log, inflight, phase, faults>>

\* The claim committed, but its caller saw an error and drains nothing.
ClaimAnswerLost(w) ==
    /\ Idle(w)
    /\ Batch # {}
    /\ Fault
    /\ TakeLeases(w, Batch)
    /\ UNCHANGED <<log, inflight, procVars>>

\* The record publishOne works on: the drain goes through rows in claim order.
Current(w, e) == e \in todo[w] /\ \A f \in todo[w] : e <= f

\* Mutant: the UPDATEs do not name the owner.
HoldsWithoutOwner(w, e) == status[e] = StatusPublishing

\* The WHERE clause shared by MarkPublished, ReleaseTransient and Quarantine:
\* it names the owner, not the expiry.
Holds(w, e) == status[e] = StatusPublishing /\ owner[e] = w

\* One of those three UPDATEs, when it matches.
SetRow(e, st, ls) ==
    /\ status' = [status EXCEPT ![e] = st]
    /\ owner' = [owner EXCEPT ![e] = NoOwner]
    /\ lease' = [lease EXCEPT ![e] = ls]
    /\ UNCHANGED attempts

\* The drain loop moves on to its next record.
NextRecord(w, e) ==
    /\ phase' = [phase EXCEPT ![w] = "drain"]
    /\ todo' = [todo EXCEPT ![w] = @ \ {e}]
    /\ UNCHANGED att

\* DrainOnce returns early; the rest of its claims wait for their leases.
AbandonDrain(w) ==
    /\ phase' = [phase EXCEPT ![w] = "drain"]
    /\ todo' = [todo EXCEPT ![w] = {}]
    /\ UNCHANGED att

\* publishOne on bytes that fail validation.
Quarantine(w, e) ==
    /\ phase[w] = "drain" /\ Current(w, e) /\ e \in Bad
    /\ \/ Holds(w, e) /\ SetRow(e, StatusQuarantined, "none") /\ NextRecord(w, e)
       \/ ~Holds(w, e) /\ UNCHANGED rowVars /\ AbandonDrain(w)
    /\ UNCHANGED <<log, inflight, faults>>

\* The statement of Quarantine fails, or its answer is lost.
QuarantineFails(w, e) ==
    /\ phase[w] = "drain" /\ Current(w, e) /\ e \in Bad /\ Fault
    /\ \/ Holds(w, e) /\ SetRow(e, StatusQuarantined, "none")
       \/ UNCHANGED rowVars
    /\ AbandonDrain(w)
    /\ UNCHANGED <<log, inflight>>

\* The broker acknowledges the record; a request the client retried inside
\* Publish may still be on its way.
PublishAck(w, e) ==
    /\ phase[w] = "drain" /\ Current(w, e) /\ e \notin Bad
    /\ log' = Append(log, e)
    /\ inflight' \in {inflight, inflight \cup {e}}
    /\ phase' = [phase EXCEPT ![w] = "acked"]
    /\ UNCHANGED <<rowVars, todo, att, faults>>

\* Mutant: an error counts as an acknowledgement.
PublishErrorIgnored(w, e) ==
    /\ phase[w] = "drain" /\ Current(w, e) /\ e \notin Bad /\ Fault
    /\ inflight' \in {inflight, inflight \cup {e}}
    /\ phase' = [phase EXCEPT ![w] = "acked"]
    /\ UNCHANGED <<rowVars, log, todo, att>>

\* Publish returns an error: the broker never takes the record, or takes it
\* later.
PublishError(w, e) ==
    /\ phase[w] = "drain" /\ Current(w, e) /\ e \notin Bad /\ Fault
    /\ inflight' \in {inflight, inflight \cup {e}}
    /\ phase' = [phase EXCEPT ![w] = "failed"]
    /\ UNCHANGED <<rowVars, log, todo, att>>

BrokerTakesLate(e) ==
    /\ e \in inflight
    /\ log' = Append(log, e)
    /\ inflight' = inflight \ {e}
    /\ UNCHANGED <<rowVars, procVars, faults>>

\* Any failure of MarkPublished is an ambiguous acknowledgement: the row keeps
\* its state and the drain goes on.
MarkPublished(w, e) ==
    /\ phase[w] = "acked" /\ Current(w, e)
    /\ \/ Holds(w, e) /\ SetRow(e, StatusPublished, "none")
       \/ ~Holds(w, e) /\ UNCHANGED rowVars
    /\ NextRecord(w, e)
    /\ UNCHANGED <<log, inflight, faults>>

MarkPublishedFails(w, e) ==
    /\ phase[w] = "acked" /\ Current(w, e) /\ Fault
    /\ NextRecord(w, e)
    /\ UNCHANGED <<rowVars, log, inflight>>

\* The backoff is stored as a lease without an owner.
ReleaseTransient(w, e) ==
    /\ phase[w] = "failed" /\ Current(w, e)
    /\ \/ Holds(w, e) /\ SetRow(e, StatusPending, "live") /\ NextRecord(w, e)
       \/ ~Holds(w, e) /\ UNCHANGED rowVars /\ AbandonDrain(w)
    /\ UNCHANGED <<log, inflight, faults>>

ReleaseTransientFails(w, e) ==
    /\ phase[w] = "failed" /\ Current(w, e) /\ Fault
    /\ \/ Holds(w, e) /\ SetRow(e, StatusPending, "live")
       \/ UNCHANGED rowVars
    /\ AbandonDrain(w)
    /\ UNCHANGED <<log, inflight>>

\* A process dies; another incarnation is always there to take over.
Crash(w) ==
    /\ phase[w] # "dead" /\ Fault
    /\ \E v \in Workers \ {w} : phase[v] # "dead"
    /\ phase' = [phase EXCEPT ![w] = "dead"]
    /\ UNCHANGED <<rowVars, log, inflight, todo, att>>

\* The operator's release; attempts are kept.
ReleaseQuarantined(e) ==
    /\ status[e] = StatusQuarantined
    /\ Fault
    /\ status' = [status EXCEPT ![e] = StatusPending]
    /\ owner' = [owner EXCEPT ![e] = NoOwner]
    /\ lease' = [lease EXCEPT ![e] = "none"]
    /\ UNCHANGED <<attempts, log, inflight, procVars>>

-----------------------------------------------------------------------------
PublishOne(w, e) ==
    \/ Quarantine(w, e) \/ QuarantineFails(w, e)
    \/ PublishAck(w, e) \/ PublishError(w, e)
    \/ MarkPublished(w, e) \/ MarkPublishedFails(w, e)
    \/ ReleaseTransient(w, e) \/ ReleaseTransientFails(w, e)

Next ==
    \/ \E e \in Events : \/ InsertPendingOutbox(e)
                         \/ LeaseExpires(e)
                         \/ LeaseExpiresEarly(e)
                         \/ BrokerTakesLate(e)
                         \/ ReleaseQuarantined(e)
    \/ \E w \in Workers : ClaimDue(w) \/ ClaimAnswerLost(w) \/ Crash(w)
    \/ \E w \in Workers, e \in Events : PublishOne(w, e)

Spec == Init /\ [][Next]_vars

(* The relay worker of every live process runs DrainOnce forever, its calls *)
(* return, and time passes.                                                *)
Fairness ==
    /\ \A e \in Events : WF_vars(LeaseExpires(e))
    /\ \A w \in Workers :
         /\ WF_vars(ClaimDue(w))
         /\ \A e \in Events : WF_vars(PublishOne(w, e))

FairSpec == Spec /\ Fairness

-----------------------------------------------------------------------------
(* Properties.                                                             *)

InLog(e) == \E i \in 1 .. Len(log) : log[i] = e

\* A row says "published" only after the broker acknowledged that row's
\* record, whichever process wrote the status and however many processes
\* claimed the row before (publishOne, MarkPublished).
PublishedWasAcked ==
    \A e \in Events : status[e] = StatusPublished => InLog(e)

\* Whoever the row names as its lease owner holds the latest claim: a process
\* that passes the owner test of MarkPublished, ReleaseTransient or Quarantine
\* acts on its own last claim and not on an older one.
OwnerTestFences ==
    \A w \in Workers, e \in Events :
        e \in todo[w] /\ Holds(w, e) => att[w][e] = attempts[e]

\* A process whose claim on a row was superseded never changes that row
\* again: a slow process cannot undo or overwrite what the next owner did.
SupersededNeverWrites ==
    [][\A w \in Workers, e \in Events :
          (/\ e \in todo[w]
           /\ att[w][e] # attempts[e]
           /\ <<phase[w], todo[w]>>' # <<phase[w], todo[w]>>)
          => UNCHANGED <<status[e], owner[e], lease[e], attempts[e]>>]_vars

\* Once published, a row stays published and unclaimed, even when a failed
\* publication of an earlier claim is recorded after it.
PublishedIsFinal ==
    [][\A e \in Events : status[e] = StatusPublished =>
          UNCHANGED <<status[e], owner[e], lease[e], attempts[e]>>]_vars

\* Rows that fail validation are never handed to the broker.
OnlyValidBytesPublished ==
    \A i \in 1 .. Len(log) : log[i] \notin Bad

\* Every committed row is settled: the relay publishes it or quarantines it,
\* whatever crashes and failed attempts come first.
EventuallySettled ==
    \A e \in Events :
        status[e] \in {StatusPending, StatusPublishing}
            ~> status[e] \in {StatusPublished, StatusQuarantined}

=============================================================================
