---------------------------- MODULE ConsumerLoop ----------------------------
(***************************************************************************)
(* The stream consumer's loop over one partition (src/platform/consume.go  *)
(* and the consumer worker of src/cmd/seshatops/runtime.go): poll, process *)
(* each record until one fails, commit the offsets of those acknowledged.  *)
(*                                                                         *)
(* The broker client is external.  As the code uses it, a poll returns the *)
(* records after its own position and advances that position at once;      *)
(* committing records sets the group offset after the last of them; only a *)
(* new client starts again from the group offset.  The worker keeps one    *)
(* client for the life of the process.  Only a test hook raises            *)
(* ErrHandlerPoison, so the attempts of bumpPoisonAttempt are left out.    *)
(***************************************************************************)
EXTENDS Integers

CONSTANTS
    Records,    \* offsets of the partition, 0 to some last one
    MaxFaults   \* model bound on faults

VARIABLES
    end,        \* the log's end: offsets below it are there to be fetched
    position,   \* where the client fetches next
    committed,  \* the group's committed offset
    running,    \* a fetch is being processed
    next,       \* its next record
    last,       \* the offset after its last record
    acked,      \* the offset after its last acknowledged record, 0 for none
    durable,    \* offsets with a committed processing or quarantine decision
    faults

clientVars == <<position, committed, running, next, last, acked>>
vars == <<end, clientVars, durable, faults>>

Init ==
    /\ end = 0 /\ position = 0 /\ committed = 0
    /\ running = FALSE /\ next = 0 /\ last = 0 /\ acked = 0
    /\ durable = {}
    /\ faults = 0

Fault == faults < MaxFaults /\ faults' = faults + 1

-----------------------------------------------------------------------------
\* The broker appends a record.
Publish ==
    /\ end \in Records
    /\ end' = end + 1
    /\ UNCHANGED <<clientVars, durable, faults>>

\* PollFetches returns one or more records and moves the client past them.
Poll ==
    /\ ~running
    /\ \E e \in position + 1 .. end :
          /\ running' = TRUE
          /\ next' = position
          /\ last' = e
          /\ acked' = 0
          /\ position' = e
    /\ UNCHANGED <<end, committed, durable, faults>>

\* A record's decision is durable and the loop goes on to the next one.
AckRecord(o) ==
    /\ running /\ next = o /\ next < last
    /\ next' = next + 1
    /\ acked' = next + 1
    /\ UNCHANGED <<position, committed, running, last>>

\* A record fails and the rest of the fetch is dropped.
WithholdAck(o) ==
    /\ running /\ next = o /\ next < last
    /\ last' = next
    /\ UNCHANGED <<position, committed, running, next, acked>>

\* ProcessRecord commits a decision on the record, a quarantine included.
ProcessRecord(o) ==
    /\ AckRecord(o)
    /\ durable' = durable \cup {o}
    /\ UNCHANGED <<end, faults>>

\* It fails transiently, before or after its transaction committed.
ProcessRecordFails(o) ==
    /\ Fault
    /\ WithholdAck(o)
    /\ durable' \in {durable, durable \cup {o}}
    /\ UNCHANGED <<end>>

\* CommitRecords on what was acknowledged.
CommitOffsets ==
    /\ running /\ next = last
    /\ committed' = IF acked > 0 THEN acked ELSE committed
    /\ running' = FALSE
    /\ UNCHANGED <<end, position, next, last, acked, durable, faults>>

CommitFails ==
    /\ running /\ next = last /\ acked > 0 /\ Fault
    /\ running' = FALSE
    /\ UNCHANGED <<end, position, committed, next, last, acked, durable>>

\* Mutant: a new client starts at the end of the log.
RestartAtEnd ==
    /\ Fault
    /\ position' = end
    /\ running' = FALSE
    /\ UNCHANGED <<end, committed, next, last, acked, durable>>

\* The process ends at any moment and a new one joins the group.
Restart ==
    /\ Fault
    /\ position' = committed
    /\ running' = FALSE
    /\ UNCHANGED <<end, committed, next, last, acked, durable>>

Handle(o) == ProcessRecord(o) \/ ProcessRecordFails(o)

Next ==
    \/ Publish \/ Poll \/ CommitOffsets \/ CommitFails \/ Restart
    \/ \E o \in Records : Handle(o)

Spec == Init /\ [][Next]_vars

-----------------------------------------------------------------------------
(* Properties.                                                             *)

\* An offset is committed only after the durable decision on every record
\* below it, so that a restart loses none.
CommittedIsDurable == \A o \in Records : o < committed => o \in durable

=============================================================================
