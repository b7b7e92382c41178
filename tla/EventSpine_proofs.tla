------------------------- MODULE EventSpine_proofs --------------------------
(***************************************************************************)
(* Proofs about EventSpine, for any number of events, relay processes,     *)
(* unreadable records, faults and restarts.                                *)
(*                                                                         *)
(* No component's own invariant is enough, because each promise crosses    *)
(* into the next one: what the relay calls published is in the partition   *)
(* (RelayInv), what lies behind the client's position and outside its      *)
(* fetch has a decision or was passed over (ReadInv), and the record being *)
(* re-driven already has its own (ProcInv).  InboxInv says which decision: *)
(* of one item's events exactly those up to the projected version are      *)
(* applied.                                                                *)
(***************************************************************************)
EXTENDS EventSpine, TLAPS

InLog(e) == \E o \in 0 .. Len(log) - 1 : log[o + 1] = e

LogType == log \in Seq(Events \cup {Unreadable})

RelayTypes ==
    /\ status \in [Events -> Relay!Statuses]
    /\ phase \in [Workers -> {"drain", "acked", "failed", "dead"}]
    /\ todo \in [Workers -> SUBSET Events]
    /\ inflight \subseteq Events

Acked(w, e) == phase[w] = "acked" /\ Relay!Current(w, e)

RelayInv ==
    /\ RelayTypes
    /\ \A w \in Workers, e \in Events : Acked(w, e) => InLog(e)
    /\ \A e \in Events : status[e] = "published" => InLog(e)

\* The row that holds decision d on event e.
Row(e, d) ==
    [disp |-> d, hash |-> Message(e), bytes |-> IF d = Inbox!Gap THEN Message(e) ELSE NoMsg]

NotApplied(e) == inbox[e] = Inbox!NoRow \/ inbox[e] = Row(e, Inbox!Gap)
IsApplied(e) == inbox[e] = Row(e, Inbox!Applied) \/ inbox[e] = Row(e, Inbox!DuplicateNoop)

ver == proj["item"].ver

InboxInv ==
    /\ DOMAIN inbox = Events
    /\ Events # {} => /\ DOMAIN proj = {"item"} /\ proj["item"] \in Inbox!View
                      /\ ver # 0 => proj["item"].qty = Stock - ver
    /\ \A e \in Events : IF e <= ver THEN IsApplied(e) ELSE NotApplied(e)

\* Decided, or read and passed over.
Safe(o) == Decided(o) \/ o \in passed

ClientTypes ==
    /\ position \in 0 .. Len(log) /\ committed \in 0 .. Len(log)
    /\ running \in BOOLEAN
    /\ running => next \in 0 .. last /\ last \in 0 .. position /\ acked \in {0, next}

ReadInv ==
    /\ \A o \in Nat : o < committed => Safe(o)
    /\ \A o \in Nat : o < position /\ (running => o < next \/ o >= last) => Safe(o)

ProcInv ==
    /\ DOMAIN cur = {consumer} /\ DOMAIN pick = {consumer}
    /\ cur[consumer] # NoMsg =>
          /\ running /\ next < last /\ log[next + 1] \in Events
          /\ cur[consumer] = Message(log[next + 1])
          /\ inbox[log[next + 1]] # Inbox!NoRow
    /\ pick[consumer] # NoMsg =>
          cur[consumer] # NoMsg /\ \E e \in Events : pick[consumer] = Message(e)

ClientInv == LogType /\ ClientTypes /\ ReadInv /\ ProcInv

IInv == RelayInv /\ InboxInv /\ ClientInv

-----------------------------------------------------------------------------
\* The provers to try on a leaf that names none, in this order.
USE Zenon, SMT, Z3

\* What is in the partition stays at its offset.
LEMMA LogGrows ==
    ASSUME LogType, NEW e \in Events \cup {Unreadable}, log' = Append(log, e)
    PROVE  /\ LogType' /\ Len(log) \in Nat /\ Len(log') = Len(log) + 1
           /\ \A o \in 0 .. Len(log) - 1 : log'[o + 1] = log[o + 1]
           /\ InLog(e)'
           /\ \A f \in Events : InLog(f) => InLog(f)'
<1>1. /\ LogType' /\ Len(log) \in Nat /\ Len(log') = Len(log) + 1
      /\ \A o \in 0 .. Len(log) - 1 : log'[o + 1] = log[o + 1]
      /\ log'[Len(log) + 1] = e
  BY DEF LogType
<1>2. InLog(e)'
  BY SMT, <1>1 DEF InLog
<1>3. ASSUME NEW f \in Events, InLog(f) PROVE InLog(f)'
  <2>1. PICK o \in 0 .. Len(log) - 1 : log[o + 1] = f
    BY <1>3 DEF InLog
  <2>2. o \in 0 .. Len(log') - 1 /\ log'[o + 1] = f
    BY <1>1, <2>1
  <2>. QED
    BY <2>2 DEF InLog
<1>. QED
  BY <1>1, <1>2, <1>3

-----------------------------------------------------------------------------
(* The relay.                                                              *)

\* What any step of the relay may do: append one event, be acknowledged only
\* by that append, and call published only what was acknowledged.
RelayShape ==
    /\ RelayTypes'
    /\ log' = log \/ \E e \in Events : log' = Append(log, e)
    /\ \A w \in Workers, e \in Events : Acked(w, e)' => Acked(w, e) \/ log' = Append(log, e)
    /\ \A e \in Events : status'[e] = "published" =>
          status[e] = "published" \/ \E w \in Workers : Acked(w, e)

\* The steps that leave the processes alone.
LEMMA RowStepShape ==
    ASSUME RelayTypes, NEW e \in Events,
           \/ Relay!InsertPendingOutbox(e) \/ Relay!LeaseExpires(e)
           \/ Relay!LeaseExpiresEarly(e) \/ Relay!BrokerTakesLate(e)
           \/ Relay!ReleaseQuarantined(e)
    PROVE  RelayShape
<1>1. /\ phase' = phase /\ todo' = todo
      /\ status' \in {status, [status EXCEPT ![e] = "pending"]}
      /\ log' = log \/ log' = Append(log, e)
      /\ inflight' \in {inflight, inflight \ {e}}
  BY DEF Relay!InsertPendingOutbox, Relay!LeaseExpires, Relay!LeaseExpiresEarly,
         Relay!BrokerTakesLate, Relay!ReleaseQuarantined, Relay!StatusPending,
         Relay!rowVars, Relay!procVars
<1>2. RelayTypes'
  BY <1>1 DEF RelayTypes, Relay!Statuses, Relay!StatusPending
<1>3. \A f \in Events : status'[f] = "published" => status[f] = "published"
  BY <1>1 DEF RelayTypes
<1>4. \A w \in Workers, f \in Events : Acked(w, f)' => Acked(w, f)
  BY <1>1 DEF Acked, Relay!Current
<1>. QED
  BY <1>1, <1>2, <1>3, <1>4 DEF RelayShape

\* Claims and crashes.
LEMMA ProcessStepShape ==
    ASSUME RelayTypes, NEW w \in Workers,
           Relay!ClaimDue(w) \/ Relay!ClaimAnswerLost(w) \/ Relay!Crash(w)
    PROVE  RelayShape
<1>1. /\ log' = log /\ inflight' = inflight
      /\ \/ status' = status
         \/ status' = [e \in Events |-> IF e \in Relay!Batch THEN "publishing" ELSE status[e]]
      /\ \/ phase' = phase /\ todo' = todo
         \/ phase' = [phase EXCEPT ![w] = "dead"] /\ todo' = todo
         \/ phase' = phase /\ phase[w] = "drain" /\ todo' = [todo EXCEPT ![w] = Relay!Batch]
  BY DEF Relay!ClaimDue, Relay!ClaimAnswerLost, Relay!Crash, Relay!TakeLeases, Relay!Idle,
         Relay!rowVars, Relay!procVars, Relay!StatusPublishing
<1>2. Relay!Batch \subseteq Events
  BY DEF Relay!Batch
<1>3. RelayTypes'
  BY <1>1, <1>2 DEF RelayTypes, Relay!Statuses, Relay!StatusPublishing
<1>4. \A f \in Events : status'[f] = "published" => status[f] = "published"
  BY <1>1 DEF RelayTypes
<1>5. \A v \in Workers, f \in Events : Acked(v, f)' => Acked(v, f)
  BY <1>1 DEF Acked, Relay!Current, RelayTypes
<1>. QED
  BY <1>1, <1>3, <1>4, <1>5 DEF RelayShape

\* publishOne.
LEMMA PublishOneShape ==
    ASSUME RelayTypes, NEW w \in Workers, NEW e \in Events, Relay!PublishOne(w, e)
    PROVE  RelayShape
<1>1. /\ Relay!Current(w, e)
      /\ inflight' \in {inflight, inflight \cup {e}}
      /\ \/ status' = status
         \/ status' = [status EXCEPT ![e] = "pending"]
         \/ phase[w] = "acked" /\ status' = [status EXCEPT ![e] = "published"]
      /\ \/ /\ log' = log
            /\ \E S \in SUBSET todo[w], x \in {"drain", "failed"} :
                  todo' = [todo EXCEPT ![w] = S] /\ phase' = [phase EXCEPT ![w] = x]
         \/ log' = Append(log, e) /\ todo' = todo /\ phase' = [phase EXCEPT ![w] = "acked"]
  <2>0. /\ todo[w] \ {e} \in SUBSET todo[w] /\ {} \in SUBSET todo[w]
        /\ todo = [todo EXCEPT ![w] = todo[w]]
    BY DEF RelayTypes
  <2>1. ~ Relay!Quarantine(w, e) /\ ~ Relay!QuarantineFails(w, e)
    BY DEF Relay!Quarantine, Relay!QuarantineFails
  <2>2. CASE Relay!PublishAck(w, e)
    BY <2>2 DEF Relay!PublishAck, Relay!rowVars
  <2>3. CASE Relay!PublishError(w, e)
    BY <2>0, <2>3 DEF Relay!PublishError, Relay!rowVars
  <2>4. CASE Relay!MarkPublished(w, e)
    BY <2>0, <2>4 DEF Relay!MarkPublished, Relay!SetRow, Relay!NextRecord, Relay!rowVars,
       Relay!StatusPublished
  <2>5. CASE Relay!MarkPublishedFails(w, e)
    BY <2>0, <2>5 DEF Relay!MarkPublishedFails, Relay!NextRecord, Relay!rowVars
  <2>6. CASE Relay!ReleaseTransient(w, e)
    BY <2>0, <2>6 DEF Relay!ReleaseTransient, Relay!SetRow, Relay!NextRecord,
       Relay!AbandonDrain, Relay!rowVars, Relay!StatusPending
  <2>7. CASE Relay!ReleaseTransientFails(w, e)
    BY <2>0, <2>7 DEF Relay!ReleaseTransientFails, Relay!SetRow, Relay!AbandonDrain,
       Relay!rowVars, Relay!StatusPending
  <2>. QED
    BY ZenonT(60), <2>1, <2>2, <2>3, <2>4, <2>5, <2>6, <2>7 DEF Relay!PublishOne
<1>2. RelayTypes'
  BY SMT, <1>1 DEF RelayTypes, Relay!Statuses, Relay!StatusPending, Relay!StatusPublished
<1>3. ASSUME NEW f \in Events, status'[f] = "published"
      PROVE  status[f] = "published" \/ \E v \in Workers : Acked(v, f)
  BY <1>1, <1>3 DEF RelayTypes, Acked
<1>4. ASSUME NEW v \in Workers, NEW f \in Events, Acked(v, f)'
      PROVE  Acked(v, f) \/ log' = Append(log, f)
  BY SMT, <1>1, <1>4, SpineAssumption DEF RelayTypes, Acked, Relay!Current
<1>. QED
  BY ZenonT(60), <1>1, <1>2, <1>3, <1>4 DEF RelayShape

\* A row is called published only when its record is in the partition.
LEMMA RelayKeepsInv ==
    ASSUME LogType, RelayInv, Relay!Next
    PROVE  RelayInv' /\ (log' = log \/ \E e \in Events : log' = Append(log, e))
<1>1. RelayShape
  BY RowStepShape, ProcessStepShape, PublishOneShape DEF Relay!Next, RelayInv
<1>2. \A f \in Events : InLog(f) => InLog(f)'
  BY <1>1, LogGrows DEF RelayShape, InLog
<1>3. \A e \in Events : log' = Append(log, e) => InLog(e)'
  BY LogGrows
<1>4. \A w \in Workers, e \in Events : Acked(w, e)' => InLog(e)'
  BY <1>1, <1>2, <1>3 DEF RelayShape, RelayInv
<1>5. \A e \in Events : status'[e] = "published" => InLog(e)'
  BY <1>1, <1>2 DEF RelayShape, RelayInv
<1>. QED
  BY <1>1, <1>4, <1>5 DEF RelayShape, RelayInv

-----------------------------------------------------------------------------
(* The inbox and the projection.                                           *)

LEMMA MessageFields ==
    ASSUME NEW e \in Events
    PROVE  /\ e \in Nat \ {0} /\ Stock - e \in Nat
           /\ Message(e).id = e /\ Message(e).item = "item" /\ Message(e).ver = e
           /\ Message(e).before = Stock - e + 1 /\ Message(e).after = Stock - e
           /\ Message(e) # NoMsg
BY SpineAssumption DEF Message

\* processValidated on an event that is already applied.
LEMMA RepeatIsNoop ==
    ASSUME NEW e \in Events, IsApplied(e), NEW v
    PROVE  /\ Inbox!InboxAfter(inbox[e], v, Message(e)) = Row(e, Inbox!DuplicateNoop)
           /\ ~ Inbox!TakesEffect(inbox[e], v, Message(e))
<1>1. /\ inbox[e].disp \in {Inbox!Applied, Inbox!DuplicateNoop}
      /\ inbox[e].hash = Message(e)
  BY DEF IsApplied, Row
<1>2. /\ Inbox!Duplicates(inbox[e], Message(e)) /\ ~ Inbox!Conflicts(inbox[e], Message(e))
      /\ ~ Inbox!Fresh(inbox[e], Message(e))
  BY <1>1 DEF Inbox!Duplicates, Inbox!Conflicts, Inbox!Fresh, Inbox!Applied, Inbox!DuplicateNoop,
     Inbox!Gap
<1>. QED
  BY <1>2 DEF Inbox!InboxAfter, Inbox!ProcessValidated, Inbox!UpsertInbox, Inbox!TakesEffect, Row,
     Inbox!DuplicateNoop, Inbox!Gap, Inbox!Conflict

\* processValidated on one that is not: the next version is applied, any other
\* is a gap.
LEMMA NextIsApplied ==
    ASSUME NEW e \in Events, NotApplied(e), NEW v \in Inbox!View, e > v.ver,
           v.ver # 0 => v.qty = Stock - v.ver
    PROVE  /\ Inbox!InboxAfter(inbox[e], v, Message(e)) =
                 Row(e, IF e = v.ver + 1 THEN Inbox!Applied ELSE Inbox!Gap)
           /\ Inbox!TakesEffect(inbox[e], v, Message(e)) <=> e = v.ver + 1
<1>1. /\ Inbox!Fresh(inbox[e], Message(e)) /\ ~ Inbox!Conflicts(inbox[e], Message(e))
      /\ ~ Inbox!Duplicates(inbox[e], Message(e))
  BY DEF NotApplied, Row, Inbox!NoRow, Inbox!Fresh, Inbox!Conflicts, Inbox!Duplicates,
     Inbox!Gap, Inbox!Applied, Inbox!DuplicateNoop
<1>2. Inbox!ApplyProjection(v, Message(e)) =
        IF e = v.ver + 1 THEN Inbox!Applied ELSE Inbox!Gap
  BY SMT, MessageFields, SpineAssumption DEF Inbox!ApplyProjection, Inbox!View
<1>3. Inbox!ProcessValidated(inbox[e], v, Message(e)) =
        IF e = v.ver + 1 THEN Inbox!Applied ELSE Inbox!Gap
  BY <1>1, <1>2 DEF Inbox!ProcessValidated
<1>. QED
  BY ZenonT(60), <1>1, <1>2, <1>3 DEF Inbox!InboxAfter, Inbox!UpsertInbox, Inbox!TakesEffect, Row,
     Inbox!Applied, Inbox!Gap, Inbox!Conflict

\* One transaction: the event has a row, no row goes away, and the applied
\* events are still those up to the projected version.
LEMMA CommitKeepsInv ==
    ASSUME InboxInv, NEW e \in Events, Inbox!Commit(Message(e))
    PROVE  /\ InboxInv' /\ inbox'[e] # Inbox!NoRow
           /\ \A f \in Events : inbox[f] # Inbox!NoRow => inbox'[f] # Inbox!NoRow
<1> DEFINE v == proj["item"]
<1>1. /\ v \in Inbox!View /\ DOMAIN proj = {"item"} /\ DOMAIN inbox = Events
      /\ v.ver # 0 => v.qty = Stock - v.ver
  BY DEF InboxInv, ver
<1>2. /\ inbox' = [inbox EXCEPT ![e] = Inbox!InboxAfter(inbox[e], v, Message(e))]
      /\ proj' = IF Inbox!TakesEffect(inbox[e], v, Message(e))
                 THEN [proj EXCEPT !["item"] = Inbox!Projected(Message(e))] ELSE proj
  BY MessageFields DEF Inbox!Commit
<1>3. \A d : Row(e, d) # Inbox!NoRow
  BY MessageFields DEF Row, Inbox!NoRow
<1>4. e \in Nat /\ v.ver \in Nat /\ Events \subseteq Nat
  BY <1>1, MessageFields, SpineAssumption DEF Inbox!View
<1>5. CASE e <= v.ver
  <2>1. IsApplied(e)
    BY <1>5 DEF InboxInv, ver
  <2>2. inbox' = [inbox EXCEPT ![e] = Row(e, Inbox!DuplicateNoop)] /\ proj' = proj
    BY ZenonT(60), <1>2, <2>1, RepeatIsNoop
  <2>3. inbox'[e] = Row(e, Inbox!DuplicateNoop) /\ \A f \in Events \ {e} : inbox'[f] = inbox[f]
    BY <1>1, <2>2
  <2>4. DOMAIN inbox' = Events
    BY <1>1, <2>2
  <2>5. \A f \in Events : IF f <= ver' THEN IsApplied(f)' ELSE NotApplied(f)'
    BY <1>5, <2>2, <2>3 DEF InboxInv, ver, IsApplied, NotApplied, Row
  <2>. QED
    BY ZenonT(60), <1>1, <1>3, <2>2, <2>3, <2>4, <2>5 DEF InboxInv, ver
<1>6. CASE ~ (e <= v.ver)
  <2>0. e > v.ver
    BY SMT, <1>4, <1>6
  <2>1. NotApplied(e)
    BY <1>6 DEF InboxInv, ver
  <2>2. /\ inbox' = [inbox EXCEPT ![e] =
                       Row(e, IF e = v.ver + 1 THEN Inbox!Applied ELSE Inbox!Gap)]
        /\ proj' = IF e = v.ver + 1
                   THEN [proj EXCEPT !["item"] = Inbox!Projected(Message(e))] ELSE proj
    BY ZenonT(60), <1>1, <1>2, <2>0, <2>1, NextIsApplied
  <2>3. /\ inbox'[e] = Row(e, IF e = v.ver + 1 THEN Inbox!Applied ELSE Inbox!Gap)
        /\ \A f \in Events \ {e} : inbox'[f] = inbox[f]
        /\ DOMAIN inbox' = Events
    BY <1>1, <2>2
  <2>4. CASE e = v.ver + 1
    <3>1. /\ DOMAIN proj' = {"item"} /\ proj'["item"] = [ver |-> e, qty |-> Stock - e]
      BY ZenonT(60), <1>1, <2>2, <2>4, MessageFields DEF Inbox!Projected
    <3>2. proj'["item"] \in Inbox!View /\ ver' = e /\ proj'["item"].qty = Stock - e
      BY SMT, <3>1, MessageFields DEF Inbox!View, ver
    <3>3. IsApplied(e)'
      BY <2>3, <2>4 DEF IsApplied, Row
    <3>4. ASSUME NEW f \in Events \ {e}
          PROVE  IF f <= ver' THEN IsApplied(f)' ELSE NotApplied(f)'
      BY SMT, <1>4, <2>4, <3>2, <2>3 DEF InboxInv, ver, IsApplied, NotApplied, Row
    <3>5. e <= ver'
      BY <1>4, <3>2
    <3>. QED
      BY ZenonT(60), <1>3, <2>3, <3>1, <3>2, <3>3, <3>4, <3>5 DEF InboxInv
  <2>5. CASE e # v.ver + 1
    <3>1. proj' = proj /\ NotApplied(e)'
      BY ZenonT(60), <2>2, <2>3, <2>5 DEF NotApplied, Row
    <3>2. \A f \in Events : IF f <= ver' THEN IsApplied(f)' ELSE NotApplied(f)'
      BY <1>6, <2>3, <3>1 DEF InboxInv, ver, IsApplied, NotApplied, Row
    <3>. QED
      BY <1>1, <1>3, <2>3, <3>1, <3>2 DEF InboxInv, ver
  <2>. QED
    BY <2>4, <2>5
<1>. QED
  BY <1>5, <1>6

-----------------------------------------------------------------------------
(* The consumer's client.                                                  *)

\* A decision outlives every step that keeps the rows and the partition.
LEMMA SafeKept ==
    ASSUME LogType, NEW o \in 0 .. Len(log) - 1, log'[o + 1] = log[o + 1],
           failures \subseteq failures', o \in passed => o \in passed',
           \A e \in Events : inbox[e] # Inbox!NoRow => inbox'[e] # Inbox!NoRow,
           Safe(o)
    PROVE  Safe(o)'
<1>1. log[o + 1] \in Events \cup {Unreadable}
  BY DEF LogType
<1>. QED
  BY <1>1 DEF Safe, Decided, Unreadable, Inbox!NoRow

\* The partition grows: nothing already read is disturbed.
LEMMA GrowthKeepsClient ==
    ASSUME ClientInv, UNCHANGED <<inboxVars, clientVars, failures, passed>>,
           log' = log \/ \E e \in Events \cup {Unreadable} : log' = Append(log, e)
    PROVE  ClientInv'
<1>1. /\ LogType' /\ Len(log) \in Nat /\ Len(log') \in Nat /\ Len(log) <= Len(log')
      /\ \A o \in 0 .. Len(log) - 1 : log'[o + 1] = log[o + 1]
  BY LogGrows DEF ClientInv, LogType
<1>2. ClientTypes'
  BY <1>1 DEF ClientInv, ClientTypes, clientVars
<1>3. \A o \in 0 .. Len(log) - 1 : Safe(o) => Safe(o)'
  BY <1>1, SafeKept DEF ClientInv, inboxVars
<1>4. ReadInv'
  BY <1>1, <1>3 DEF ClientInv, ClientTypes, ReadInv, clientVars
<1>5. ProcInv'
  BY SMT, Z3, <1>1 DEF ClientInv, ClientTypes, ProcInv, clientVars, inboxVars
<1>. QED
  BY <1>1, <1>2, <1>4, <1>5 DEF ClientInv

\* Poll, and the commit of what was acknowledged.
LEMMA ClientStepKeepsInv ==
    ASSUME ClientInv, ClientStep
    PROVE  ClientInv'
<1>1. UNCHANGED <<log, inbox, cur, pick, failures, passed>>
  BY DEF ClientStep, ClientOnly, relayVars, inboxVars
<1>2. LogType' /\ Len(log) \in Nat /\ \A o \in 0 .. Len(log) - 1 : Safe(o)' <=> Safe(o)
  BY <1>1 DEF ClientInv, LogType, Safe, Decided
<1>3. CASE Loop!Poll
  <2>1. ~ running /\ running' = TRUE /\ next' = position /\ acked' = 0 /\ committed' = committed
    BY <1>3 DEF Loop!Poll
  <2>2. position' \in position + 1 .. Len(log) /\ last' = position'
    BY <1>3 DEF Loop!Poll
  <2>3. ClientTypes'
    BY SMT, <1>1, <1>2, <2>1, <2>2 DEF ClientInv, ClientTypes
  <2>4. ReadInv'
    <3>1. position \in 0 .. Len(log) /\ committed \in 0 .. Len(log)
      BY DEF ClientInv, ClientTypes
    <3>2. ASSUME NEW o \in Nat, o < committed' PROVE Safe(o)'
      BY SMT, <1>2, <2>1, <3>1, <3>2 DEF ClientInv, ReadInv
    <3>3. ASSUME NEW o \in Nat, o < position', o < next' \/ o >= last' PROVE Safe(o)'
      <4>1. o < position /\ o \in 0 .. Len(log) - 1
        BY SMT, <1>2, <2>1, <2>2, <3>1, <3>3
      <4>. QED
        BY ZenonT(60), <1>2, <2>1, <4>1 DEF ClientInv, ReadInv
    <3>. QED
      BY <2>1, <3>2, <3>3 DEF ReadInv
  <2>5. ProcInv'
    BY ZenonT(60), <1>1, <2>1 DEF ClientInv, ProcInv
  <2>. QED
    BY <1>2, <2>3, <2>4, <2>5 DEF ClientInv
<1>4. CASE Loop!CommitOffsets \/ Loop!CommitFails
  <2>1. /\ running /\ next = last /\ running' = FALSE
        /\ UNCHANGED <<position, next, last, acked>>
        /\ committed' = committed \/ (acked > 0 /\ committed' = acked)
    BY <1>4 DEF Loop!CommitOffsets, Loop!CommitFails
  <2>2. next \in 0 .. position /\ position \in 0 .. Len(log)
    BY <1>2, <2>1 DEF ClientInv, ClientTypes
  <2>3. committed' \in 0 .. Len(log) /\ (committed' = committed \/ committed' = next)
    BY SMT, <1>2, <2>1, <2>2 DEF ClientInv, ClientTypes
  <2>4. ClientTypes'
    BY ZenonT(60), <1>1, <1>2, <2>1, <2>2, <2>3 DEF ClientTypes
  <2>5. ASSUME NEW o \in Nat, o < position PROVE Safe(o)'
    BY SMT, <2>1, <2>2, <2>5, <1>2 DEF ClientInv, ReadInv
  <2>6. ASSUME NEW o \in Nat, o < committed' PROVE Safe(o)'
    <3>1. o \in 0 .. Len(log) - 1 /\ (o < committed \/ o < position)
      BY SMT, <1>2, <2>2, <2>3, <2>6
    <3>. QED
      BY <1>2, <2>5, <3>1 DEF ClientInv, ReadInv
  <2>7. ReadInv'
    BY <2>1, <2>5, <2>6 DEF ReadInv
  <2>8. ProcInv'
    BY SMT, <1>1, <2>1, <2>2 DEF ClientInv, ProcInv
  <2>. QED
    BY <1>2, <2>4, <2>7, <2>8 DEF ClientInv
<1>. QED
  BY <1>3, <1>4 DEF ClientStep

\* A record whose decision is durable is acknowledged.
LEMMA AckKeepsInv ==
    ASSUME ClientInv, running, next < last, Loop!AckRecord(next), log' = log, passed' = passed,
           failures \subseteq failures', NEW n, n = next, Decided(n)',
           \A e \in Events : inbox[e] # Inbox!NoRow => inbox'[e] # Inbox!NoRow
    PROVE  LogType' /\ ClientTypes' /\ ReadInv'
<1>1. /\ next' = next + 1 /\ acked' = next + 1
      /\ UNCHANGED <<position, committed, running, last>>
  BY DEF Loop!AckRecord
<1>2. /\ LogType' /\ Len(log) \in Nat
      /\ next \in 0 .. last /\ last \in 0 .. position /\ position \in 0 .. Len(log)
      /\ committed \in 0 .. Len(log)
  BY DEF ClientInv, LogType, ClientTypes
<1>3. \A o \in 0 .. Len(log) - 1 : Safe(o) => Safe(o)'
  BY SafeKept DEF ClientInv
<1>4. ClientTypes'
  BY SMT, <1>1, <1>2 DEF ClientTypes
<1>5. Safe(n)'
  BY DEF Safe
<1>6. ASSUME NEW o \in Nat, o < position, o < next + 1 \/ o >= last PROVE Safe(o)'
  BY SMT, <1>2, <1>6, <1>5, <1>3 DEF ClientInv, ReadInv
<1>7. \A o \in Nat : o < committed => Safe(o)'
  BY SMT, <1>2, <1>3 DEF ClientInv, ReadInv
<1>8. ReadInv'
  BY <1>1, <1>6, <1>7 DEF ReadInv
<1>. QED
  BY <1>2, <1>4, <1>8

\* The record in hand is at an offset of the partition.
LEMMA RecordInHand ==
    ASSUME ClientInv, running, next < last
    PROVE  next \in Nat /\ log[next + 1] \in Events \cup {Unreadable}
<1>1. /\ Len(log) \in Nat /\ next \in 0 .. last /\ last \in 0 .. position
      /\ position \in 0 .. Len(log)
  BY DEF ClientInv, LogType, ClientTypes
<1>2. next \in Nat /\ next + 1 \in 1 .. Len(log)
  BY <1>1
<1>. QED
  BY SMT, <1>2 DEF ClientInv, LogType

\* persistParseFailure.
LEMMA ParseFailureKeepsInv ==
    ASSUME ClientInv, PersistParseFailure
    PROVE  ClientInv'
<1>1. /\ running /\ next < last /\ log[next + 1] = Unreadable
      /\ failures' = failures \cup {next} /\ Loop!AckRecord(next)
      /\ UNCHANGED <<log, inbox, cur, pick, passed>>
  BY DEF PersistParseFailure, relayVars, inboxVars
<1>2. \A n : n = next => Decided(n)'
  BY <1>1 DEF Decided
<1>3. LogType' /\ ClientTypes' /\ ReadInv'
  BY <1>1, <1>2, AckKeepsInv
<1>4. cur[consumer] = NoMsg
  BY SMT, <1>1, SpineAssumption DEF ClientInv, ProcInv, Unreadable
<1>5. ProcInv'
  BY <1>1, <1>4 DEF ClientInv, ProcInv
<1>. QED
  BY <1>3, <1>5 DEF ClientInv

\* A step of ProcessRecord on the record at hand, whose own row is there once
\* the step is done: either it goes on, or the record is acknowledged.
LEMMA ProcessingKeepsInv ==
    ASSUME ClientInv, running, next < last, AckWhenReturned,
           UNCHANGED <<relayVars, failures, passed>>,
           NEW e \in Events, e = log[next + 1], inbox'[e] # Inbox!NoRow,
           \A f \in Events : inbox[f] # Inbox!NoRow => inbox'[f] # Inbox!NoRow,
           DOMAIN cur' = {consumer}, DOMAIN pick' = {consumer},
           cur'[consumer] \in {NoMsg, Message(e)},
           pick'[consumer] # NoMsg =>
              cur'[consumer] # NoMsg /\ \E f \in Events : pick'[consumer] = Message(f)
    PROVE  ClientInv'
<1>0. log' = log
  BY DEF relayVars
<1>1. CASE cur'[consumer] = NoMsg
  BY SMT, Z3, <1>1, <1>0, SpineAssumption, AckKeepsInv
     DEF AckWhenReturned, Decided, Unreadable, ProcInv, ClientInv
<1>2. CASE cur'[consumer] # NoMsg
  BY SMT, <1>2, <1>0, SafeKept
     DEF AckWhenReturned, ClientInv, LogType, ClientTypes, clientVars, ReadInv, ProcInv
<1>. QED
  BY <1>1, <1>2

\* ProcessRecord's own transaction.
LEMMA ProcessStartKeepsInv ==
    ASSUME InboxInv, ClientInv, ProcessStart
    PROVE  InboxInv' /\ ClientInv'
<1>1. /\ running /\ next < last /\ log[next + 1] # Unreadable
      /\ AckWhenReturned /\ UNCHANGED <<relayVars, failures, passed>>
      /\ Inbox!ProcessRecord(consumer, Message(log[next + 1]))
  BY DEF ProcessStart
<1>2. PICK e \in Events : e = log[next + 1]
  BY <1>1, RecordInHand
<1>3. /\ cur[consumer] = NoMsg /\ Inbox!Commit(Message(e))
      /\ cur' \in {cur, [cur EXCEPT ![consumer] = Message(e)]} /\ pick' = pick
  BY <1>1, <1>2 DEF Inbox!ProcessRecord
<1>4. /\ InboxInv' /\ inbox'[e] # Inbox!NoRow
      /\ \A f \in Events : inbox[f] # Inbox!NoRow => inbox'[f] # Inbox!NoRow
  BY <1>3, CommitKeepsInv
<1>5. /\ DOMAIN cur = {consumer} /\ DOMAIN pick' = {consumer} /\ pick'[consumer] = NoMsg
  BY <1>3 DEF ClientInv, ProcInv
<1>6. DOMAIN cur' = {consumer} /\ cur'[consumer] \in {NoMsg, Message(e)}
  BY <1>3, <1>5
<1>. QED
  BY <1>1, <1>2, <1>4, <1>5, <1>6, ProcessingKeepsInv

\* redriveGaps.
LEMMA RedriveKeepsInv ==
    ASSUME InboxInv, ClientInv, ProcessRedrive
    PROVE  InboxInv' /\ ClientInv'
<1>1. AckWhenReturned /\ UNCHANGED <<relayVars, failures, passed>>
  BY DEF ProcessRedrive
<1>2. cur[consumer] # NoMsg
  BY DEF ProcessRedrive, Inbox!RedriveSelect, Inbox!RedriveDone, Inbox!RedriveCommit,
     ClientInv, ProcInv
<1>3. /\ running /\ next < last /\ log[next + 1] \in Events
      /\ cur[consumer] = Message(log[next + 1]) /\ inbox[log[next + 1]] # Inbox!NoRow
      /\ DOMAIN cur = {consumer} /\ DOMAIN pick = {consumer}
  BY <1>2 DEF ClientInv, ProcInv
<1>4. PICK e \in Events : e = log[next + 1]
  BY <1>3
<1> DEFINE Kept == \A f \in Events : inbox[f] # Inbox!NoRow => inbox'[f] # Inbox!NoRow
           Picks == /\ DOMAIN pick' = {consumer}
                    /\ pick'[consumer] # NoMsg =>
                          cur'[consumer] # NoMsg /\ \E f \in Events : pick'[consumer] = Message(f)
           Curs == DOMAIN cur' = {consumer} /\ cur'[consumer] \in {NoMsg, Message(e)}
<1>5. ASSUME InboxInv', Kept, Picks, Curs PROVE InboxInv' /\ ClientInv'
  <2>1. inbox'[e] # Inbox!NoRow
    BY <1>3, <1>4, <1>5
  <2>. QED
    BY ZenonT(60), <1>1, <1>3, <1>4, <1>5, <2>1, ProcessingKeepsInv
<1>6. CASE Inbox!RedriveSelect(consumer)
  <2>1. UNCHANGED <<inbox, proj, cur>>
    BY <1>6 DEF Inbox!RedriveSelect
  <2>2. PICK id \in Inbox!NextGaps(cur[consumer].item) :
            pick' = [pick EXCEPT ![consumer] = inbox[id].bytes]
    BY <1>6 DEF Inbox!RedriveSelect
  <2>3. id \in Events /\ inbox[id].bytes # NoMsg
    BY SMT, <2>2, MessageFields DEF Inbox!NextGaps, Inbox!Ids
  <2>4. inbox[id].bytes = Message(id)
    BY <2>3 DEF InboxInv, IsApplied, NotApplied, Row, Inbox!NoRow
  <2>5. InboxInv'
    BY <2>1 DEF InboxInv, ver, IsApplied, NotApplied, Row
  <2>6. Picks
    BY ZenonT(60), <1>2, <1>3, <2>1, <2>2, <2>3, <2>4
  <2>. QED
    BY ZenonT(60), <1>3, <1>4, <1>5, <2>1, <2>5, <2>6
<1>7. CASE Inbox!RedriveDone(consumer)
  <2>1. /\ UNCHANGED <<inbox, proj, pick>> /\ pick[consumer] = NoMsg
        /\ cur' = [cur EXCEPT ![consumer] = NoMsg]
    BY <1>7 DEF Inbox!RedriveDone, Inbox!Acknowledge
  <2>2. InboxInv'
    BY <2>1 DEF InboxInv, ver, IsApplied, NotApplied, Row
  <2>3. Picks /\ Curs
    BY <1>3, <2>1
  <2>. QED
    BY <1>5, <2>1, <2>2, <2>3
<1>8. CASE Inbox!RedriveCommit(consumer)
  <2>1. /\ pick[consumer] # NoMsg /\ Inbox!Commit(pick[consumer])
        /\ pick' = [pick EXCEPT ![consumer] = NoMsg]
        /\ cur' \in {cur, [cur EXCEPT ![consumer] = NoMsg]}
    BY <1>8 DEF Inbox!RedriveCommit, Inbox!Acknowledge
  <2>2. PICK f \in Events : pick[consumer] = Message(f)
    BY <2>1 DEF ClientInv, ProcInv
  <2>3. InboxInv' /\ Kept
    BY <2>1, <2>2, CommitKeepsInv
  <2>4. Picks /\ Curs
    BY <1>3, <1>4, <2>1
  <2>. QED
    BY <1>5, <2>3, <2>4
<1>. QED
  BY <1>6, <1>7, <1>8 DEF ProcessRedrive

\* The processor stops: the store stays as it is.
LEMMA InterruptedKeepsInv ==
    ASSUME InboxInv, ClientInv, Interrupted
    PROVE  /\ InboxInv' /\ UNCHANGED <<inbox, proj>>
           /\ DOMAIN cur' = {consumer} /\ DOMAIN pick' = {consumer}
           /\ cur'[consumer] = NoMsg /\ pick'[consumer] = NoMsg
<1>1. /\ UNCHANGED <<inbox, proj>>
      /\ \/ cur[consumer] = NoMsg /\ cur' = cur /\ pick' = pick
         \/ /\ cur' = [cur EXCEPT ![consumer] = NoMsg]
            /\ pick' = [pick EXCEPT ![consumer] = NoMsg]
  BY DEF Interrupted, inboxVars, Inbox!Fail
<1>2. InboxInv'
  BY <1>1 DEF InboxInv, ver, IsApplied, NotApplied, Row
<1>3. /\ DOMAIN cur = {consumer} /\ DOMAIN pick = {consumer}
      /\ cur[consumer] = NoMsg => pick[consumer] = NoMsg
  BY DEF ClientInv, ProcInv
<1>. QED
  BY ZenonT(60), <1>1, <1>2, <1>3

\* A transient failure: what is left of the fetch is passed over.
LEMMA FailureKeepsInv ==
    ASSUME InboxInv, ClientInv, ProcessFails
    PROVE  InboxInv' /\ ClientInv'
<1>1. /\ running /\ next < last /\ last' = next
      /\ UNCHANGED <<position, committed, running, next, acked>>
      /\ passed' = passed \cup (next .. last - 1)
      /\ Interrupted /\ log' = log /\ failures' = failures
  BY DEF ProcessFails, Loop!WithholdAck, relayVars
<1>2. /\ InboxInv' /\ inbox' = inbox /\ ProcInv'
  BY <1>1, InterruptedKeepsInv DEF ProcInv
<1>3. /\ LogType' /\ Len(log) \in Nat
      /\ next \in 0 .. last /\ last \in 0 .. position /\ position \in 0 .. Len(log)
      /\ committed \in 0 .. Len(log) /\ acked \in {0, next}
  BY <1>1 DEF ClientInv, LogType, ClientTypes
<1>4. ClientTypes'
  BY <1>1, <1>3 DEF ClientTypes
<1>5. \A o \in 0 .. Len(log) - 1 : Safe(o) => Safe(o)'
  BY <1>1, <1>2, SafeKept DEF ClientInv
<1>6. ASSUME NEW o \in Nat, o < position PROVE Safe(o)'
  BY SMT, <1>1, <1>3, <1>5, <1>6 DEF Safe, ClientInv, ReadInv
<1>7. ReadInv'
  BY <1>1, <1>3, <1>5, <1>6 DEF ClientInv, ReadInv
<1>. QED
  BY <1>2, <1>3, <1>4, <1>7 DEF ClientInv

\* A new client starts at the group's offset, behind which all is safe.
LEMMA RestartKeepsInv ==
    ASSUME InboxInv, ClientInv, ConsumerRestarts
    PROVE  InboxInv' /\ ClientInv'
<1>1. /\ position' = committed /\ running' = FALSE /\ committed' = committed
      /\ passed' = {o \in passed : o < committed}
      /\ Interrupted /\ log' = log /\ failures' = failures
  BY DEF ConsumerRestarts, Loop!Restart, relayVars
<1>2. /\ InboxInv' /\ inbox' = inbox /\ ProcInv'
  BY <1>1, InterruptedKeepsInv DEF ProcInv
<1>3. LogType' /\ Len(log) \in Nat /\ committed \in 0 .. Len(log)
  BY <1>1 DEF ClientInv, LogType, ClientTypes
<1>4. ClientTypes'
  BY <1>1, <1>3 DEF ClientTypes
<1>5. ASSUME NEW o \in Nat, o < committed PROVE Safe(o)'
  <2>1. Safe(o) /\ o \in 0 .. Len(log) - 1
    BY <1>3, <1>5 DEF ClientInv, ReadInv
  <2>. QED
    BY <1>1, <1>2, <1>5, <2>1, SafeKept DEF ClientInv
<1>6. ReadInv'
  BY <1>1, <1>5 DEF ReadInv
<1>. QED
  BY <1>2, <1>3, <1>4, <1>6 DEF ClientInv

-----------------------------------------------------------------------------
\* The relay, the partition, the inbox and the client keep the invariant
\* together.
LEMMA NextKeepsIInv == IInv /\ [Next]_vars => IInv'
<1> SUFFICES ASSUME IInv, [Next]_vars PROVE IInv'
  OBVIOUS
<1>1. RelayInv /\ InboxInv /\ ClientInv /\ LogType
  BY DEF IInv, ClientInv
<1>2. ASSUME UNCHANGED <<inbox, proj>> PROVE InboxInv'
  BY <1>1, <1>2 DEF InboxInv, ver, IsApplied, NotApplied, Row
<1>3. ASSUME UNCHANGED relayVars PROVE RelayInv'
  BY <1>1, <1>3 DEF relayVars, RelayInv, RelayTypes, Acked, InLog, Relay!Current
<1>4. CASE RelayStep
  <2>1. RelayInv' /\ (log' = log \/ \E e \in Events : log' = Append(log, e))
    BY <1>1, <1>4, RelayKeepsInv DEF RelayStep
  <2>2. UNCHANGED <<inboxVars, clientVars, failures, passed>>
    BY <1>4 DEF RelayStep, RelayOnly
  <2>3. ClientInv'
    BY <1>1, <2>1, <2>2, GrowthKeepsClient
  <2>. QED
    BY <1>2, <2>1, <2>2, <2>3 DEF IInv, inboxVars
<1>5. CASE ForeignRecord
  <2>1. /\ log' = Append(log, Unreadable) /\ UNCHANGED <<status, inflight, phase, todo>>
        /\ UNCHANGED <<inboxVars, clientVars, failures, passed>>
    BY <1>5 DEF ForeignRecord
  <2>2. \A f \in Events : InLog(f) => InLog(f)'
    BY <1>1, <2>1, LogGrows
  <2>3. RelayInv'
    BY <1>1, <2>1, <2>2 DEF RelayInv, RelayTypes, Acked, Relay!Current
  <2>4. ClientInv'
    BY <1>1, <2>1, GrowthKeepsClient
  <2>. QED
    BY <1>2, <2>1, <2>3, <2>4 DEF IInv, inboxVars
<1>6. CASE ClientStep
  <2>1. UNCHANGED <<relayVars, inbox, proj>>
    BY <1>6 DEF ClientStep, ClientOnly, inboxVars
  <2>. QED
    BY ZenonT(60), <1>1, <1>2, <1>3, <1>6, <2>1, ClientStepKeepsInv DEF IInv
<1>7. CASE PersistParseFailure
  <2>1. UNCHANGED <<relayVars, inbox, proj>>
    BY <1>7 DEF PersistParseFailure, inboxVars
  <2>. QED
    BY <1>1, <1>2, <1>3, <1>7, <2>1, ParseFailureKeepsInv DEF IInv
<1>8. CASE ProcessStart \/ ProcessRedrive \/ ProcessFails \/ ConsumerRestarts
  <2>1. UNCHANGED relayVars
    BY <1>8 DEF ProcessStart, ProcessRedrive, ProcessFails, ConsumerRestarts
  <2>2. InboxInv' /\ ClientInv'
    BY <1>1, <1>8, ProcessStartKeepsInv, RedriveKeepsInv, FailureKeepsInv, RestartKeepsInv
  <2>. QED
    BY <1>3, <2>1, <2>2 DEF IInv
<1>9. CASE UNCHANGED vars
  <2>1. UNCHANGED <<relayVars, inboxVars, clientVars, failures, passed>>
    BY <1>9 DEF vars
  <2>2. log' = log
    BY <2>1 DEF relayVars
  <2>3. ClientInv'
    BY <1>1, <2>1, <2>2, GrowthKeepsClient
  <2>. QED
    BY <1>2, <1>3, <2>1, <2>3 DEF IInv, inboxVars
<1>. QED
  BY <1>4, <1>5, <1>6, <1>7, <1>8, <1>9 DEF Next

LEMMA IInvHolds == Spec => []IInv
<1>1. Init => IInv
  <2> SUFFICES ASSUME Init PROVE IInv
    OBVIOUS
  <2>1. RelayInv
    BY DEF Init, Relay!Init, RelayInv, RelayTypes, Relay!Statuses, Acked
  <2>2. Inbox!Ids = Events /\ (Events # {} => Inbox!Items = {"item"})
    <3>1. Inbox!Ids = Events
      BY SMT, MessageFields DEF Inbox!Ids
    <3>2. Events # {} => Inbox!Items = {"item"}
      BY SMT, MessageFields DEF Inbox!Items
    <3>. QED
      BY <3>1, <3>2
  <2>3. InboxInv
    BY <2>2, SpineAssumption DEF Init, Inbox!Init, InboxInv, ver, NotApplied, Inbox!NoView, Inbox!View
  <2>4. ProcInv
    BY DEF Init, Inbox!Init, ProcInv
  <2>5. LogType /\ Len(log) = 0
    BY DEF Init, Relay!Init, LogType
  <2>6. ClientTypes /\ ReadInv
    <3>1. position = 0 /\ committed = 0 /\ running = FALSE
      BY DEF Init
    <3>2. \A o \in Nat : ~ (o < 0)
      OBVIOUS
    <3>3. ClientTypes
      <4>1. 0 \in 0 .. Len(log)
        BY <2>5
      <4>. QED
        BY <3>1, <4>1 DEF ClientTypes
    <3>4. ReadInv
      BY <3>1, <3>2 DEF ReadInv
    <3>. QED
      BY <3>3, <3>4
  <2>. QED
    BY <2>1, <2>3, <2>4, <2>5, <2>6 DEF IInv, ClientInv
<1>. QED
  BY <1>1, NextKeepsIInv, PTL DEF Spec

\* The group offset never passes a record without a durable decision or a
\* failure row, but for what this client failed on and polled past
\* (ConsumeOnce, persistParseFailure).
THEOREM CommittedIsDecidedHolds == Spec => []CommittedIsDecided
<1>1. IInv => CommittedIsDecided
  BY SMT DEF CommittedIsDecided, IInv, ClientInv, LogType, ClientTypes, ReadInv, Safe
<1>. QED
  BY <1>1, IInvHolds, PTL

\* At least once, from the outbox row the relay marks published to the inbox
\* row of the consumer: a published event has its decision, or lies where a
\* restarted consumer reads it, or was failed on and polled past.
THEOREM PublishedNotLostHolds == Spec => []PublishedNotLost
<1>1. IInv => PublishedNotLost
  <2> SUFFICES ASSUME IInv, NEW e \in Events, status[e] = "published"
               PROVE  \/ inbox[e] # Inbox!NoRow
                      \/ \E o \in 0 .. Len(log) - 1 :
                            log[o + 1] = e /\ (o >= committed \/ o \in passed)
    BY DEF PublishedNotLost
  <2>1. PICK o \in 0 .. Len(log) - 1 : log[o + 1] = e
    BY DEF IInv, RelayInv, InLog
  <2>2. Len(log) \in Nat /\ committed \in 0 .. Len(log)
    BY DEF IInv, ClientInv, LogType, ClientTypes
  <2>3. CASE o < committed
    <3>1. Decided(o) \/ o \in passed
      BY <2>2, <2>3 DEF IInv, ClientInv, ReadInv, Safe
    <3>. QED
      BY <2>1, <3>1, SpineAssumption DEF Decided, Unreadable
  <2>4. CASE o >= committed
    BY <2>1, <2>4
  <2>5. o < committed \/ o >= committed
    BY SMT, <2>2
  <2>. QED
    BY <2>3, <2>4, <2>5
<1>. QED
  BY <1>1, IInvHolds, PTL

\* Whatever the partition's order, and whatever the consumer has lost, the
\* applied events are the item's first versions (applyProjection, redriveGaps).
THEOREM AppliedIsPrefixHolds == Spec => []AppliedIsPrefix
<1>1. IInv => AppliedIsPrefix
  <2> SUFFICES ASSUME IInv, NEW e \in Events, NEW f \in Events, f <= e,
                      inbox[e].disp \in {Inbox!Applied, Inbox!DuplicateNoop}
               PROVE  inbox[f].disp \in {Inbox!Applied, Inbox!DuplicateNoop}
    BY DEF AppliedIsPrefix
  <2>1. ~ NotApplied(e)
    BY DEF NotApplied, Row, Inbox!NoRow, Inbox!Gap, Inbox!Applied, Inbox!DuplicateNoop
  <2>2. e <= ver
    BY <2>1 DEF IInv, InboxInv
  <2>3. e \in Nat /\ f \in Nat /\ ver \in Nat
    BY SMT, SpineAssumption DEF IInv, InboxInv, Inbox!View, ver
  <2>4. f <= ver
    BY <2>2, <2>3
  <2>5. IsApplied(f)
    BY <2>4 DEF IInv, InboxInv
  <2>. QED
    BY <2>5 DEF IsApplied, Row
<1>. QED
  BY <1>1, IInvHolds, PTL

=============================================================================
