------------------------- MODULE OutboxRelay_proofs -------------------------
(***************************************************************************)
(* Proofs about OutboxRelay, for any rows, any number of relay processes   *)
(* and any number of faults.                                               *)
(*                                                                         *)
(* "Published" is written by a process in phase "acked", long after the    *)
(* broker answered and possibly under a claim that expired, so the         *)
(* invariant must say what that phase knows (AckedIsInLog).  Fencing rests *)
(* on OwnerTestFences, which is inductive by itself: a process claims only *)
(* when it has nothing left to drain, and owners are never reused.         *)
(***************************************************************************)
EXTENDS OutboxRelay, TLAPS

AckedIsInLog ==
    \A w \in Workers, e \in Events :
        phase[w] = "acked" /\ Current(w, e) => InLog(e)

PublishedHasNoLease ==
    \A e \in Events : status[e] = StatusPublished => lease[e] = "none"

NothingBadInFlight == inflight \cap Bad = {}

IInv ==
    /\ TypeOK
    /\ AckedIsInLog
    /\ PublishedWasAcked
    /\ OwnerTestFences
    /\ PublishedHasNoLease
    /\ NothingBadInFlight
    /\ OnlyValidBytesPublished

-----------------------------------------------------------------------------
\* The provers to try on a leaf that names none, in this order.
USE Zenon, SMT, Z3

\* A row that was in the log stays there, and an appended row is in it.
LEMMA AppendInLog ==
    ASSUME log \in Seq(Events), NEW e \in Events, log' = Append(log, e)
    PROVE  /\ log' \in Seq(Events)
           /\ InLog(e)'
           /\ \A f \in Events : InLog(f) => InLog(f)'
           /\ \A i \in 1 .. Len(log') : log'[i] = e \/ \E j \in 1 .. Len(log) : log'[i] = log[j]
<1>1. /\ log' \in Seq(Events)
      /\ Len(log') = Len(log) + 1
      /\ log'[Len(log) + 1] = e
      /\ \A i \in 1 .. Len(log) : log'[i] = log[i]
      /\ Len(log) \in Nat
  OBVIOUS
<1>2. InLog(e)'
  BY <1>1 DEF InLog
<1>3. ASSUME NEW f \in Events, InLog(f) PROVE InLog(f)'
  <2>1. PICK i \in 1 .. Len(log) : log[i] = f
    BY <1>3 DEF InLog
  <2>2. i \in 1 .. Len(log') /\ log'[i] = f
    BY <1>1, <2>1
  <2>. QED
    BY <2>2 DEF InLog
<1>4. ASSUME NEW i \in 1 .. Len(log')
      PROVE  log'[i] = e \/ \E j \in 1 .. Len(log) : log'[i] = log[j]
  BY <1>1
<1>. QED
  BY <1>1, <1>2, <1>3, <1>4

\* At most one row is the one a process works on.
LEMMA OneCurrent ==
    ASSUME TypeOK, NEW w \in Workers, NEW e \in Events, NEW f \in Events,
           Current(w, e), Current(w, f)
    PROVE  e = f
BY SMT, EventsAssumption DEF TypeOK, Current

\* The rows ClaimDue takes are due rows.
LEMMA BatchIsDue == Batch \subseteq Events /\ \A e \in Batch : Due(e)
BY DEF Batch

-----------------------------------------------------------------------------
(* What a step of publishOne may do.                                       *)

\* It updates the current row if the owner test passes, or no row.
RowStep(w, e) ==
    \/ UNCHANGED rowVars
    \/ /\ Holds(w, e)
       /\ \/ SetRow(e, StatusPending, "live")
          \/ SetRow(e, StatusQuarantined, "none")
          \/ phase[w] = "acked" /\ SetRow(e, StatusPublished, "none")

\* It keeps its claims or drops some, and is "acked" only by an append.
DrainStep(w, e) ==
    /\ \E S \in SUBSET todo[w] : todo' = [todo EXCEPT ![w] = S]
    /\ \/ phase' = [phase EXCEPT ![w] = "drain"]
       \/ phase' = [phase EXCEPT ![w] = "failed"]
       \/ phase' = [phase EXCEPT ![w] = "acked"] /\ log' = Append(log, e) /\ todo' = todo
    /\ att' = att

\* It appends at most the current row, and only a valid one.
BrokerStep(w, e) ==
    /\ log' = log \/ (e \notin Bad /\ log' = Append(log, e))
    /\ inflight' = inflight \/ (e \notin Bad /\ inflight' = inflight \cup {e})

\* Every step of publishOne has that shape.
LEMMA PublishOneShape ==
    ASSUME TypeOK, NEW w \in Workers, NEW e \in Events, PublishOne(w, e)
    PROVE  /\ Current(w, e)
           /\ RowStep(w, e)
           /\ DrainStep(w, e)
           /\ BrokerStep(w, e)
           /\ faults' \in 0 .. MaxFaults
<1> DEFINE Goal == /\ Current(w, e) /\ RowStep(w, e) /\ DrainStep(w, e)
                   /\ BrokerStep(w, e) /\ faults' \in 0 .. MaxFaults
<1>0. /\ todo[w] \ {e} \in SUBSET todo[w] /\ {} \in SUBSET todo[w]
      /\ todo = [todo EXCEPT ![w] = todo[w]]
      /\ faults \in 0 .. MaxFaults
      /\ Fault => faults' \in 0 .. MaxFaults
  BY SMT, BoundsAssumption DEF TypeOK, Fault
<1>1. CASE Quarantine(w, e)
  BY <1>0, <1>1 DEF Quarantine, RowStep, DrainStep, BrokerStep, NextRecord, AbandonDrain
<1>2. CASE QuarantineFails(w, e)
  BY <1>0, <1>2 DEF QuarantineFails, RowStep, DrainStep, BrokerStep, AbandonDrain
<1>3. CASE PublishAck(w, e)
  BY <1>0, <1>3 DEF PublishAck, RowStep, DrainStep, BrokerStep
<1>4. CASE PublishError(w, e)
  BY <1>0, <1>4 DEF PublishError, RowStep, DrainStep, BrokerStep
<1>5. CASE MarkPublished(w, e)
  BY <1>0, <1>5 DEF MarkPublished, RowStep, DrainStep, BrokerStep, NextRecord
<1>6. CASE MarkPublishedFails(w, e)
  BY <1>0, <1>6 DEF MarkPublishedFails, RowStep, DrainStep, BrokerStep, NextRecord
<1>7. CASE ReleaseTransient(w, e)
  BY <1>0, <1>7 DEF ReleaseTransient, RowStep, DrainStep, BrokerStep, NextRecord, AbandonDrain
<1>8. CASE ReleaseTransientFails(w, e)
  BY <1>0, <1>8 DEF ReleaseTransientFails, RowStep, DrainStep, BrokerStep, AbandonDrain
<1>. QED
  BY <1>1, <1>2, <1>3, <1>4, <1>5, <1>6, <1>7, <1>8 DEF PublishOne

-----------------------------------------------------------------------------
(* Type correctness.                                                       *)

RowTypes ==
    /\ status \in [Events -> Statuses]
    /\ owner \in [Events -> Workers \cup {NoOwner}]
    /\ lease \in [Events -> {"none", "live", "past"}]
    /\ attempts \in [Events -> Nat]

ProcTypes ==
    /\ phase \in [Workers -> {"drain", "acked", "failed", "dead"}]
    /\ todo \in [Workers -> SUBSET Events]
    /\ att \in [Workers -> [Events -> Nat]]

\* Every step of the relay, the source, the broker and the operator keeps the
\* types.
LEMMA NextKeepsTypes == TypeOK /\ [Next]_vars => TypeOK'
<1> SUFFICES ASSUME TypeOK, [Next]_vars PROVE TypeOK'
  OBVIOUS
<1>0. RowTypes /\ ProcTypes /\ log \in Seq(Events) /\ inflight \subseteq Events
      /\ faults \in 0 .. MaxFaults
  BY DEF TypeOK, RowTypes, ProcTypes
<1>1. ASSUME NEW e \in Events, InsertPendingOutbox(e) PROVE TypeOK'
  BY <1>1 DEF TypeOK, InsertPendingOutbox, Statuses, StatusPending, procVars
<1>2. ASSUME NEW e \in Events, LeaseExpires(e) \/ LeaseExpiresEarly(e) PROVE TypeOK'
  <2>1. faults' \in 0 .. MaxFaults
    BY SMT, <1>0, <1>2, BoundsAssumption DEF LeaseExpires, LeaseExpiresEarly, Fault
  <2>. QED
    BY <1>2, <2>1 DEF TypeOK, LeaseExpires, LeaseExpiresEarly, procVars
<1>3. ASSUME NEW e \in Events, BrokerTakesLate(e) PROVE TypeOK'
  BY SMT, <1>3 DEF TypeOK, BrokerTakesLate, rowVars, procVars
<1>4. ASSUME NEW e \in Events, ReleaseQuarantined(e) PROVE TypeOK'
  BY SMT, <1>4, BoundsAssumption
     DEF TypeOK, ReleaseQuarantined, Fault, Statuses, StatusPending, procVars
<1>5. ASSUME NEW w \in Workers, ClaimDue(w) PROVE TypeOK'
  BY SMT, <1>5, BatchIsDue DEF TypeOK, ClaimDue, TakeLeases, Statuses, StatusPublishing
<1>6. ASSUME NEW w \in Workers, ClaimAnswerLost(w) PROVE TypeOK'
  BY SMT, <1>6, BoundsAssumption
     DEF TypeOK, ClaimAnswerLost, TakeLeases, Fault, Statuses, StatusPublishing, procVars
<1>7. ASSUME NEW w \in Workers, Crash(w) PROVE TypeOK'
  BY SMT, <1>7, BoundsAssumption DEF TypeOK, Crash, Fault, rowVars
<1>8. ASSUME NEW w \in Workers, NEW e \in Events, PublishOne(w, e) PROVE TypeOK'
  <2>1. RowStep(w, e) /\ DrainStep(w, e) /\ BrokerStep(w, e) /\ faults' \in 0 .. MaxFaults
    BY <1>8, PublishOneShape
  <2>2. RowTypes'
    BY <1>0, <2>1 DEF RowTypes, RowStep, SetRow, rowVars, Statuses, StatusPending,
       StatusQuarantined, StatusPublished
  <2>3. ProcTypes'
    BY ZenonT(60), <1>0, <2>1 DEF ProcTypes, DrainStep
  <2>4. log' \in Seq(Events) /\ inflight' \subseteq Events
    BY SMT, <1>0, <2>1 DEF BrokerStep
  <2>. QED
    BY <2>1, <2>2, <2>3, <2>4 DEF TypeOK, RowTypes, ProcTypes
<1>9. ASSUME UNCHANGED vars PROVE TypeOK'
  BY <1>9 DEF TypeOK, vars, rowVars, procVars
<1>. QED
  BY <1>1, <1>2, <1>3, <1>4, <1>5, <1>6, <1>7, <1>8, <1>9 DEF Next

\* Every variable of the relay model keeps its type.
THEOREM TypeCorrect == Spec => []TypeOK
<1>1. Init => TypeOK
  BY SMT, BoundsAssumption DEF Init, TypeOK, Statuses
<1>. QED
  BY <1>1, NextKeepsTypes, PTL DEF Spec

-----------------------------------------------------------------------------
(* Publication and fencing.                                                *)

\* The log only grows.
LEMMA LogGrows ==
    ASSUME TypeOK, [Next]_vars
    PROVE  \A f \in Events : InLog(f) => InLog(f)'
<1>1. log' = log \/ \E e \in Events : log' = Append(log, e)
  <2>1. ASSUME NEW e \in Events,
               \/ InsertPendingOutbox(e) \/ LeaseExpires(e) \/ LeaseExpiresEarly(e)
               \/ BrokerTakesLate(e) \/ ReleaseQuarantined(e)
        PROVE  log' = log \/ log' = Append(log, e)
    BY <2>1 DEF InsertPendingOutbox, LeaseExpires, LeaseExpiresEarly,
       BrokerTakesLate, ReleaseQuarantined
  <2>2. ASSUME NEW w \in Workers, ClaimDue(w) \/ ClaimAnswerLost(w) \/ Crash(w)
        PROVE  log' = log
    BY <2>2 DEF ClaimDue, ClaimAnswerLost, Crash
  <2>3. ASSUME NEW w \in Workers, NEW e \in Events, PublishOne(w, e)
        PROVE  log' = log \/ log' = Append(log, e)
    BY <2>3, PublishOneShape DEF BrokerStep
  <2>. QED
    BY <2>1, <2>2, <2>3 DEF Next, vars
<1>2. CASE log' = log
  BY <1>2 DEF InLog
<1>3. ASSUME NEW e \in Events, log' = Append(log, e)
      PROVE  \A f \in Events : InLog(f) => InLog(f)'
  BY <1>3, AppendInLog DEF TypeOK
<1>. QED
  BY <1>1, <1>2, <1>3

\* A process in phase "acked" works on a row that the log holds.
LEMMA AckedKept == TypeOK /\ AckedIsInLog /\ [Next]_vars => AckedIsInLog'
<1> SUFFICES ASSUME TypeOK, AckedIsInLog, [Next]_vars,
                    NEW w \in Workers, NEW e \in Events,
                    phase'[w] = "acked", Current(w, e)'
             PROVE  InLog(e)'
  BY DEF AckedIsInLog
<1>1. ASSUME phase'[w] = phase[w], todo'[w] = todo[w] PROVE InLog(e)'
  BY <1>1, LogGrows DEF AckedIsInLog, Current
<1>2. ASSUME NEW f \in Events,
             \/ InsertPendingOutbox(f) \/ LeaseExpires(f) \/ LeaseExpiresEarly(f)
             \/ BrokerTakesLate(f) \/ ReleaseQuarantined(f)
      PROVE  InLog(e)'
  BY <1>1, <1>2 DEF InsertPendingOutbox, LeaseExpires, LeaseExpiresEarly,
     BrokerTakesLate, ReleaseQuarantined, procVars
<1>3. ASSUME NEW v \in Workers, ClaimDue(v) PROVE InLog(e)'
  BY <1>1, <1>3 DEF ClaimDue, Idle, TypeOK
<1>4. ASSUME NEW v \in Workers, ClaimAnswerLost(v) PROVE InLog(e)'
  BY <1>1, <1>4 DEF ClaimAnswerLost, procVars
<1>5. ASSUME NEW v \in Workers, Crash(v) PROVE InLog(e)'
  BY <1>1, <1>5 DEF Crash, TypeOK
<1>6. ASSUME NEW v \in Workers, NEW f \in Events, PublishOne(v, f) PROVE InLog(e)'
  <2>1. Current(v, f) /\ DrainStep(v, f)
    BY <1>6, PublishOneShape
  <2>2. CASE v # w
    BY <2>1, <2>2, <1>1 DEF DrainStep, TypeOK
  <2>3. CASE v = w
    <3>1. log' = Append(log, f) /\ todo' = todo
      BY <2>1, <2>3 DEF DrainStep, TypeOK
    <3>2. e = f
      BY <2>1, <2>3, <3>1, OneCurrent DEF Current
    <3>. QED
      BY <3>1, <3>2, AppendInLog DEF TypeOK
  <2>. QED
    BY <2>2, <2>3
<1>7. ASSUME UNCHANGED vars PROVE InLog(e)'
  BY <1>1, <1>7 DEF vars, procVars
<1>. QED
  BY <1>2, <1>3, <1>4, <1>5, <1>6, <1>7 DEF Next

\* The claims of ClaimDue and ClaimAnswerLost, row by row.
LEMMA LeasesTaken ==
    ASSUME TypeOK, NEW w \in Workers, ClaimDue(w) \/ ClaimAnswerLost(w), NEW e \in Events
    PROVE  \/ /\ status[e] \in {StatusPending, StatusPublishing}
              /\ status'[e] = StatusPublishing /\ owner'[e] = w
              /\ attempts'[e] = attempts[e] + 1
              /\ e \in Batch
           \/ /\ UNCHANGED <<status[e], owner[e], lease[e], attempts[e]>>
              /\ e \notin Batch
BY SMT, BatchIsDue DEF ClaimDue, ClaimAnswerLost, TakeLeases, TypeOK, Due

\* "Published" is written only in phase "acked".
LEMMA PublishedKept ==
    TypeOK /\ AckedIsInLog /\ PublishedWasAcked /\ [Next]_vars => PublishedWasAcked'
<1> SUFFICES ASSUME TypeOK, AckedIsInLog, PublishedWasAcked, [Next]_vars,
                    NEW e \in Events, status'[e] = StatusPublished
             PROVE  InLog(e)'
  BY DEF PublishedWasAcked
<1>0. ASSUME status[e] = StatusPublished PROVE InLog(e)'
  BY <1>0, LogGrows DEF PublishedWasAcked
<1>1. ASSUME NEW f \in Events,
             \/ InsertPendingOutbox(f) \/ LeaseExpires(f) \/ LeaseExpiresEarly(f)
             \/ BrokerTakesLate(f) \/ ReleaseQuarantined(f)
      PROVE  InLog(e)'
  BY <1>0, <1>1 DEF InsertPendingOutbox, LeaseExpires, LeaseExpiresEarly,
     BrokerTakesLate, ReleaseQuarantined, rowVars, StatusPending, StatusPublished, TypeOK
<1>2. ASSUME NEW w \in Workers, ClaimDue(w) \/ ClaimAnswerLost(w) PROVE InLog(e)'
  BY <1>0, <1>2, LeasesTaken DEF StatusPublishing, StatusPublished
<1>3. ASSUME NEW w \in Workers, Crash(w) PROVE InLog(e)'
  BY <1>0, <1>3 DEF Crash, rowVars
<1>4. ASSUME NEW w \in Workers, NEW f \in Events, PublishOne(w, f) PROVE InLog(e)'
  <2>1. Current(w, f) /\ RowStep(w, f)
    BY <1>4, PublishOneShape
  <2>2. \/ status'[e] = status[e]
        \/ e = f /\ phase[w] = "acked"
    BY <2>1 DEF RowStep, SetRow, rowVars, TypeOK, StatusPending, StatusQuarantined,
       StatusPublished
  <2>3. CASE e = f /\ phase[w] = "acked"
    BY <2>1, <2>3, LogGrows DEF AckedIsInLog
  <2>. QED
    BY <2>2, <2>3, <1>0
<1>5. ASSUME UNCHANGED vars PROVE InLog(e)'
  BY <1>0, <1>5 DEF vars, rowVars
<1>. QED
  BY <1>1, <1>2, <1>3, <1>4, <1>5 DEF Next

\* A process claims only when it has nothing left to drain, so the row it
\* still owns carries the number of its own claim.
LEMMA FencingKept == TypeOK /\ OwnerTestFences /\ [Next]_vars => OwnerTestFences'
<1> SUFFICES ASSUME TypeOK, OwnerTestFences, [Next]_vars,
                    NEW w \in Workers, NEW e \in Events,
                    e \in todo'[w], Holds(w, e)'
             PROVE  att'[w][e] = attempts'[e]
  BY DEF OwnerTestFences
<1>0. ASSUME e \in todo[w], UNCHANGED <<status[e], owner[e], attempts[e], att[w]>>
      PROVE  att'[w][e] = attempts'[e]
  BY <1>0 DEF OwnerTestFences, Holds
<1>1. ASSUME NEW f \in Events, InsertPendingOutbox(f) PROVE att'[w][e] = attempts'[e]
  BY <1>0, <1>1 DEF InsertPendingOutbox, procVars, TypeOK, Holds, StatusPending,
     StatusPublishing
<1>2. ASSUME NEW f \in Events, ReleaseQuarantined(f) PROVE att'[w][e] = attempts'[e]
  BY <1>0, <1>2 DEF ReleaseQuarantined, procVars, TypeOK, Holds, StatusPending,
     StatusPublishing
<1>3. ASSUME NEW f \in Events, LeaseExpires(f) \/ LeaseExpiresEarly(f) \/ BrokerTakesLate(f)
      PROVE  att'[w][e] = attempts'[e]
  BY <1>0, <1>3 DEF LeaseExpires, LeaseExpiresEarly, BrokerTakesLate, rowVars, procVars
<1>4. ASSUME NEW v \in Workers, ClaimDue(v) PROVE att'[w][e] = attempts'[e]
  <2>1. CASE v = w
    BY <1>4, <2>1, LeasesTaken DEF ClaimDue, TypeOK
  <2>2. CASE v # w
    BY <1>0, <1>4, <2>2, LeasesTaken DEF ClaimDue, TypeOK, Holds
  <2>. QED
    BY <2>1, <2>2
<1>5. ASSUME NEW v \in Workers, ClaimAnswerLost(v) PROVE att'[w][e] = attempts'[e]
  BY <1>0, <1>5, LeasesTaken DEF ClaimAnswerLost, Idle, procVars, Holds
<1>6. ASSUME NEW v \in Workers, Crash(v) PROVE att'[w][e] = attempts'[e]
  BY <1>0, <1>6 DEF Crash, rowVars
<1>7. ASSUME NEW v \in Workers, NEW f \in Events, PublishOne(v, f)
      PROVE  att'[w][e] = attempts'[e]
  <2>1. RowStep(v, f) /\ DrainStep(v, f)
    BY <1>7, PublishOneShape
  <2>2. e \in todo[w] /\ att' = att
    BY <2>1 DEF DrainStep, TypeOK
  <2>3. UNCHANGED <<status[e], owner[e], attempts[e]>>
    BY SMT, <2>1, OwnerAssumption
       DEF RowStep, SetRow, rowVars, TypeOK, Holds, StatusPending, StatusPublishing,
           StatusQuarantined, StatusPublished
  <2>. QED
    BY <1>0, <2>2, <2>3
<1>8. ASSUME UNCHANGED vars PROVE att'[w][e] = attempts'[e]
  BY <1>0, <1>8 DEF vars, rowVars, procVars
<1>. QED
  BY <1>1, <1>2, <1>3, <1>4, <1>5, <1>6, <1>7, <1>8 DEF Next

\* Only publishOne hands rows to the broker, and only valid ones.
LEMMA ValidKept ==
    TypeOK /\ NothingBadInFlight /\ OnlyValidBytesPublished /\ [Next]_vars
        => NothingBadInFlight' /\ OnlyValidBytesPublished'
<1> SUFFICES ASSUME TypeOK, NothingBadInFlight, OnlyValidBytesPublished, [Next]_vars
             PROVE  NothingBadInFlight' /\ OnlyValidBytesPublished'
  OBVIOUS
<1>1. /\ log' = log \/ \E e \in Events \ Bad : log' = Append(log, e)
      /\ inflight' \cap Bad = {}
  <2>1. ASSUME NEW e \in Events,
               \/ InsertPendingOutbox(e) \/ LeaseExpires(e) \/ LeaseExpiresEarly(e)
               \/ ReleaseQuarantined(e)
        PROVE  log' = log /\ inflight' = inflight
    BY <2>1 DEF InsertPendingOutbox, LeaseExpires, LeaseExpiresEarly, ReleaseQuarantined
  <2>2. ASSUME NEW e \in Events, BrokerTakesLate(e)
        PROVE  log' = Append(log, e) /\ e \notin Bad /\ inflight' \cap Bad = {}
    BY <2>2 DEF BrokerTakesLate, NothingBadInFlight
  <2>3. ASSUME NEW w \in Workers, ClaimDue(w) \/ ClaimAnswerLost(w) \/ Crash(w)
        PROVE  log' = log /\ inflight' = inflight
    BY <2>3 DEF ClaimDue, ClaimAnswerLost, Crash
  <2>4. ASSUME NEW w \in Workers, NEW e \in Events, PublishOne(w, e)
        PROVE  /\ log' = log \/ (e \notin Bad /\ log' = Append(log, e))
               /\ inflight' \cap Bad = {}
    BY <2>4, PublishOneShape DEF BrokerStep, NothingBadInFlight
  <2>5. ASSUME UNCHANGED vars PROVE log' = log /\ inflight' = inflight
    BY <2>5 DEF vars
  <2>. QED
    BY <2>1, <2>2, <2>3, <2>4, <2>5 DEF Next, NothingBadInFlight
<1>2. CASE log' = log
  BY <1>1, <1>2 DEF NothingBadInFlight, OnlyValidBytesPublished
<1>3. ASSUME NEW e \in Events \ Bad, log' = Append(log, e)
      PROVE  OnlyValidBytesPublished'
  BY SMT, <1>3, AppendInLog DEF OnlyValidBytesPublished, TypeOK
<1>. QED
  BY <1>1, <1>2, <1>3 DEF NothingBadInFlight

\* No step of any process or of the operator touches a published row, because
\* it has no lease, is not due and fails the owner test.
LEMMA PublishedUntouched ==
    ASSUME TypeOK, PublishedHasNoLease, [Next]_vars,
           NEW e \in Events, status[e] = StatusPublished
    PROVE  UNCHANGED <<status[e], owner[e], lease[e], attempts[e]>>
<1> DEFINE Same == UNCHANGED <<status[e], owner[e], lease[e], attempts[e]>>
<1>0. status[e] = "published" /\ lease[e] = "none"
  BY DEF PublishedHasNoLease, StatusPublished
<1>1. ASSUME NEW f \in Events,
             InsertPendingOutbox(f) \/ LeaseExpires(f) \/ LeaseExpiresEarly(f)
      PROVE  Same
  BY <1>0, <1>1 DEF InsertPendingOutbox, LeaseExpires, LeaseExpiresEarly, TypeOK
<1>2. ASSUME NEW f \in Events, BrokerTakesLate(f) PROVE Same
  BY <1>2 DEF BrokerTakesLate, rowVars
<1>3. ASSUME NEW f \in Events, ReleaseQuarantined(f) PROVE Same
  BY <1>0, <1>3 DEF ReleaseQuarantined, StatusQuarantined, TypeOK
<1>4. ASSUME NEW w \in Workers, ClaimDue(w) \/ ClaimAnswerLost(w) PROVE Same
  BY <1>0, <1>4, LeasesTaken DEF StatusPending, StatusPublishing
<1>5. ASSUME NEW w \in Workers, Crash(w) PROVE Same
  BY <1>5 DEF Crash, rowVars
<1>6. ASSUME NEW w \in Workers, NEW f \in Events, PublishOne(w, f) PROVE Same
  <2>1. RowStep(w, f)
    BY <1>6, PublishOneShape
  <2>. QED
    BY <1>0, <2>1 DEF RowStep, Holds, StatusPublishing, SetRow, rowVars, TypeOK
<1>7. ASSUME UNCHANGED vars PROVE Same
  BY <1>7 DEF vars, rowVars
<1>. QED
  BY <1>1, <1>2, <1>3, <1>4, <1>5, <1>6, <1>7 DEF Next

\* MarkPublished clears the lease it writes "published" over.
LEMMA NoLeaseKept == TypeOK /\ PublishedHasNoLease /\ [Next]_vars => PublishedHasNoLease'
<1> SUFFICES ASSUME TypeOK, PublishedHasNoLease, [Next]_vars,
                    NEW e \in Events, status'[e] = StatusPublished
             PROVE  lease'[e] = "none"
  BY DEF PublishedHasNoLease
<1>0. ASSUME status[e] = StatusPublished PROVE lease'[e] = "none"
  BY <1>0, PublishedUntouched DEF PublishedHasNoLease
<1>1. ASSUME NEW f \in Events,
             \/ InsertPendingOutbox(f) \/ LeaseExpires(f) \/ LeaseExpiresEarly(f)
             \/ BrokerTakesLate(f) \/ ReleaseQuarantined(f)
      PROVE  lease'[e] = "none"
  BY SMT, <1>0, <1>1 DEF InsertPendingOutbox, LeaseExpires, LeaseExpiresEarly,
     BrokerTakesLate, ReleaseQuarantined, rowVars, StatusPending, StatusPublished, TypeOK
<1>2. ASSUME NEW w \in Workers, ClaimDue(w) \/ ClaimAnswerLost(w) PROVE lease'[e] = "none"
  BY <1>0, <1>2, LeasesTaken DEF StatusPublishing, StatusPublished
<1>3. ASSUME NEW w \in Workers, Crash(w) PROVE lease'[e] = "none"
  BY <1>0, <1>3 DEF Crash, rowVars
<1>4. ASSUME NEW w \in Workers, NEW f \in Events, PublishOne(w, f) PROVE lease'[e] = "none"
  <2>1. RowStep(w, f)
    BY <1>4, PublishOneShape
  <2>. QED
    BY SMT, <1>0, <2>1 DEF RowStep, SetRow, rowVars, TypeOK, StatusPending,
       StatusQuarantined, StatusPublished
<1>5. ASSUME UNCHANGED vars PROVE lease'[e] = "none"
  BY <1>0, <1>5 DEF vars, rowVars
<1>. QED
  BY <1>1, <1>2, <1>3, <1>4, <1>5 DEF Next

\* The inductive invariant.
LEMMA IInvHolds == Spec => []IInv
<1>1. Init => IInv
  <2> SUFFICES ASSUME Init PROVE IInv
    OBVIOUS
  <2>1. TypeOK
    BY BoundsAssumption DEF Init, TypeOK, Statuses
  <2>2. AckedIsInLog /\ PublishedWasAcked /\ OwnerTestFences
    BY DEF Init, AckedIsInLog, PublishedWasAcked, OwnerTestFences, StatusPublished
  <2>4. PublishedHasNoLease
    BY DEF Init, PublishedHasNoLease
  <2>3. NothingBadInFlight /\ OnlyValidBytesPublished
    BY DEF Init, NothingBadInFlight, OnlyValidBytesPublished
  <2>. QED
    BY <2>1, <2>2, <2>3, <2>4 DEF IInv
<1>2. IInv /\ [Next]_vars => IInv'
  BY NextKeepsTypes, AckedKept, PublishedKept, NoLeaseKept, FencingKept, ValidKept DEF IInv
<1>. QED
  BY <1>1, <1>2, PTL DEF Spec

\* A row says published only once the broker holds its record, for any number
\* of processes, expired leases, crashes and ambiguous acknowledgements.
THEOREM PublishedWasAckedHolds == Spec => []PublishedWasAcked
BY IInvHolds, PTL DEF IInv

\* The owner test of the three UPDATEs is a fence: it passes only for the
\* latest claim.
THEOREM OwnerTestFencesHolds == Spec => []OwnerTestFences
BY IInvHolds, PTL DEF IInv

\* Quarantined bytes never reach the broker.
THEOREM OnlyValidBytesPublishedHolds == Spec => []OnlyValidBytesPublished
BY IInvHolds, PTL DEF IInv

\* A process whose claim was superseded leaves the row alone, whatever it
\* still does about it.
THEOREM SupersededNeverWritesHolds == Spec => SupersededNeverWrites
<1> DEFINE A == \A w \in Workers, e \in Events :
                  (/\ e \in todo[w]
                   /\ att[w][e] # attempts[e]
                   /\ <<phase[w], todo[w]>>' # <<phase[w], todo[w]>>)
                  => UNCHANGED <<status[e], owner[e], lease[e], attempts[e]>>
<1>1. IInv /\ [Next]_vars => A
  <2> SUFFICES ASSUME IInv, [Next]_vars, NEW w \in Workers, NEW e \in Events,
                      e \in todo[w], att[w][e] # attempts[e],
                      ~(phase'[w] = phase[w] /\ todo'[w] = todo[w])
               PROVE  UNCHANGED <<status[e], owner[e], lease[e], attempts[e]>>
    OBVIOUS
  <2>1. TypeOK /\ ~Holds(w, e)
    BY DEF IInv, OwnerTestFences
  <2>2. ASSUME NEW f \in Events
        PROVE  ~(\/ InsertPendingOutbox(f) \/ LeaseExpires(f) \/ LeaseExpiresEarly(f)
                 \/ BrokerTakesLate(f) \/ ReleaseQuarantined(f))
    BY DEF InsertPendingOutbox, LeaseExpires, LeaseExpiresEarly, BrokerTakesLate,
       ReleaseQuarantined, procVars
  <2>3. ASSUME NEW v \in Workers PROVE ~(ClaimDue(v) \/ ClaimAnswerLost(v))
    BY <2>1 DEF ClaimDue, ClaimAnswerLost, Idle, procVars, TypeOK
  <2>4. ASSUME NEW v \in Workers, Crash(v)
        PROVE  UNCHANGED <<status[e], owner[e], lease[e], attempts[e]>>
    BY <2>4 DEF Crash, rowVars
  <2>5. ASSUME NEW v \in Workers, NEW f \in Events, PublishOne(v, f)
        PROVE  UNCHANGED <<status[e], owner[e], lease[e], attempts[e]>>
    <3>1. RowStep(v, f) /\ DrainStep(v, f)
      BY <2>1, <2>5, PublishOneShape
    <3>2. v = w
      BY <2>1, <3>1 DEF DrainStep, TypeOK
    <3>. QED
      BY <2>1, <3>1, <3>2 DEF RowStep, SetRow, rowVars, TypeOK
  <2>6. ~UNCHANGED vars
    BY DEF vars, procVars
  <2>. QED
    BY <2>2, <2>3, <2>4, <2>5, <2>6 DEF Next
<1>2. IInv /\ [Next]_vars => [A]_vars
  BY <1>1
<1>. QED
  BY <1>2, IInvHolds, PTL DEF Spec, SupersededNeverWrites

\* Publication is final: no step of any process or of the operator touches a
\* published row.
THEOREM PublishedIsFinalHolds == Spec => PublishedIsFinal
<1> DEFINE A == \A e \in Events : status[e] = StatusPublished =>
                  UNCHANGED <<status[e], owner[e], lease[e], attempts[e]>>
<1>1. IInv /\ [Next]_vars => [A]_vars
  BY PublishedUntouched DEF IInv
<1>. QED
  BY <1>1, IInvHolds, PTL DEF Spec, PublishedIsFinal

=============================================================================
