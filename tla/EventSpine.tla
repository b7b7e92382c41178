----------------------------- MODULE EventSpine -----------------------------
(***************************************************************************)
(* The event spine end to end: the outbox relay (OutboxRelay) appends to   *)
(* the partition that the consumer loop (ConsumerLoop) reads, and each     *)
(* record it reads goes through ProcessRecord (InboxProjection, with the   *)
(* consumer as its one processor).  All events are of one item, so that    *)
(* the partition order and the version order are both at stake.            *)
(***************************************************************************)
EXTENDS Integers, Sequences

CONSTANTS
    Events,     \* the item's outbox rows, numbered by aggregate version
    Stock,      \* the item's quantity before the first of them
    Workers, NoOwner, Limit, NoMsg,
    MaxForeign, \* model bound on unreadable records
    MaxFaults

VARIABLES
    status, owner, lease, attempts, log, inflight, phase, todo, att,
    inbox, proj, cur, pick, unacked, effects, resets,
    position, committed, running, next, last, acked,
    failures,   \* offsets with a platform.processing_failures row
    passed,     \* history: offsets this client read, failed on, and polls past
    faults

relayVars == <<status, owner, lease, attempts, log, inflight, phase, todo, att>>
inboxVars == <<inbox, proj, cur, pick, unacked, effects, resets>>
clientVars == <<position, committed, running, next, last, acked>>
vars == <<relayVars, inboxVars, clientVars, failures, passed, faults>>

\* The inventory event of outbox row e.
Message(e) ==
    [id |-> e, item |-> "item", ver |-> e, before |-> Stock - e + 1, after |-> Stock - e]

ASSUME SpineAssumption ==
    /\ Stock \in Nat /\ Events \subseteq 1 .. Stock
    /\ NoMsg \notin {Message(e) : e \in Events}

consumer == "consumer"

Relay == INSTANCE OutboxRelay WITH Bad <- {}

Inbox == INSTANCE InboxProjection
            WITH Msgs <- {Message(e) : e \in Events}, Foreign <- {},
                 Procs <- {consumer}, MaxResets <- 0, MaxUnacked <- MaxFaults

\* A record that does not parse, from a producer other than the relay (the
\* poison fixture of the demo is one).
Unreadable == 0

\* A record's decision: its event's inbox row or its processing failure.
Decided(o) ==
    IF log[o + 1] = Unreadable THEN o \in failures ELSE inbox[log[o + 1]] # Inbox!NoRow

\* Offset o of the partition holds log[o + 1].
Loop == INSTANCE ConsumerLoop
            WITH Records <- Nat, end <- Len(log),
                 durable <- {o \in 0 .. Len(log) - 1 : Decided(o)}

Init ==
    /\ Relay!Init
    /\ Inbox!Init
    /\ position = 0 /\ committed = 0
    /\ running = FALSE /\ next = 0 /\ last = 0 /\ acked = 0
    /\ failures = {} /\ passed = {}

-----------------------------------------------------------------------------
RelayOnly == UNCHANGED <<inboxVars, clientVars, failures, passed>>
RelayStep == Relay!Next /\ RelayOnly

ForeignRecord ==
    /\ Len(SelectSeq(log, LAMBDA e : e = Unreadable)) < MaxForeign
    /\ log' = Append(log, Unreadable)
    /\ UNCHANGED <<status, owner, lease, attempts, inflight, phase, todo, att>>
    /\ UNCHANGED <<inboxVars, clientVars, failures, passed, faults>>

\* ConsumeOnce outside its records: poll and offset commit.
ClientOnly == UNCHANGED <<relayVars, inboxVars, failures, passed>>
ClientStep ==
    /\ ClientOnly
    /\ Loop!Poll \/ Loop!CommitOffsets \/ Loop!CommitFails

\* ProcessRecord has returned when the processor is idle again.
AckWhenReturned ==
    IF cur'[consumer] = NoMsg THEN Loop!AckRecord(next) ELSE UNCHANGED clientVars

\* Mutant: an unreadable record is acknowledged and forgotten.
ParseFailureForgotten ==
    /\ running /\ next < last /\ log[next + 1] = Unreadable
    /\ Loop!AckRecord(next)
    /\ UNCHANGED <<relayVars, inboxVars, failures, passed, faults>>

\* persistParseFailure: the failure is stored and the record acknowledged.
PersistParseFailure ==
    /\ running /\ next < last /\ log[next + 1] = Unreadable
    /\ failures' = failures \cup {next}
    /\ Loop!AckRecord(next)
    /\ UNCHANGED <<relayVars, inboxVars, passed, faults>>

ProcessStart ==
    /\ running /\ next < last /\ log[next + 1] # Unreadable
    /\ Inbox!ProcessRecord(consumer, Message(log[next + 1]))
    /\ AckWhenReturned
    /\ UNCHANGED <<relayVars, failures, passed, faults>>

ProcessRedrive ==
    /\ \/ Inbox!RedriveSelect(consumer)
       \/ Inbox!RedriveDone(consumer)
       \/ Inbox!RedriveCommit(consumer)
    /\ AckWhenReturned
    /\ UNCHANGED <<relayVars, failures, passed, faults>>

\* The processor stops where it is, before or after its record's commit.
Interrupted ==
    IF cur[consumer] = NoMsg THEN UNCHANGED inboxVars ELSE Inbox!Fail(consumer)

\* A transient failure: the rest of the fetch is dropped, and the client goes on
\* after it.
ProcessFails ==
    /\ Relay!Fault
    /\ Interrupted
    /\ Loop!WithholdAck(next)
    /\ passed' = passed \cup (next .. last - 1)
    /\ UNCHANGED <<relayVars, failures>>

\* A new client reads again what the group has not committed.
ConsumerRestarts ==
    /\ UNCHANGED <<relayVars, failures>>
    /\ Interrupted
    /\ Loop!Restart
    /\ passed' = {o \in passed : o < committed}

Next ==
    \/ RelayStep \/ ForeignRecord \/ ClientStep
    \/ PersistParseFailure \/ ProcessStart \/ ProcessRedrive \/ ProcessFails \/ ConsumerRestarts

Spec == Init /\ [][Next]_vars

(* Relay processes and the consumer worker run their cycles forever, one    *)
(* step after another.                                                     *)
RelayCycle(w) ==
    RelayOnly /\ (Relay!ClaimDue(w) \/ \E e \in Events : Relay!PublishOne(w, e))

ConsumerCycle ==
    \/ ClientOnly /\ (Loop!Poll \/ Loop!CommitOffsets)
    \/ PersistParseFailure \/ ProcessStart \/ ProcessRedrive

FairSpec ==
    /\ Spec
    /\ \A e \in Events : WF_vars(Relay!LeaseExpires(e) /\ RelayOnly)
    /\ \A w \in Workers : WF_vars(RelayCycle(w))
    /\ WF_vars(ConsumerCycle)

-----------------------------------------------------------------------------
(* Properties.                                                             *)

\* At least once, end to end: an event the relay calls published either has a
\* durable inbox decision or is in the partition at an offset that a restarted
\* consumer will still read.  The one exception is a record on which the
\* consumer failed in flight and then polled on.
PublishedNotLost ==
    \A e \in Events : status[e] = "published" =>
        \/ inbox[e] # Inbox!NoRow
        \/ \E o \in 0 .. Len(log) - 1 : log[o + 1] = e /\ (o >= committed \/ o \in passed)

\* The group offset is honest but for what the client polled past: below it
\* every record has a durable decision, an unreadable one its failure row.
CommittedIsDecided ==
    \A o \in 0 .. committed - 1 : Decided(o) \/ o \in passed

\* Nothing is applied over a missing event, even when the consumer has lost
\* one: the applied events are always the item's first versions.
AppliedIsPrefix ==
    \A e, f \in Events :
        f <= e /\ inbox[e].disp \in {Inbox!Applied, Inbox!DuplicateNoop}
        => inbox[f].disp \in {Inbox!Applied, Inbox!DuplicateNoop}

\* Every event of a committed source transaction reaches the projection,
\* across relay and consumer crashes, lost answers, duplicates and versions
\* published out of order, and whatever unreadable records lie between, unless
\* the consumer has passed over a record for good.  A row that is there stays
\* there.
EventuallyProjected ==
    <>[](passed = {}) =>
        \A e \in Events : []<>(status[e] = "absent" \/ proj["item"].ver >= e)

=============================================================================
