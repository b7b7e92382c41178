----------------------- MODULE InboxProjection_proofs -----------------------
(***************************************************************************)
(* Proofs about InboxProjection, for any messages, items and processors.   *)
(*                                                                         *)
(* Only two actions change the inbox or the projection beyond a single     *)
(* quarantined row: Commit, which every delivery and every re-drive goes   *)
(* through, and the reset.  The inductive invariant adds to the checked    *)
(* properties that an event with an effect has an inbox row which is       *)
(* neither absent nor a gap, so that processValidated cannot apply it      *)
(* again.                                                                  *)
(***************************************************************************)
EXTENDS InboxProjection, TLAPS

EffectsRecorded ==
    \A m \in effects : inbox[m.id].disp \notin {"none", Gap}

Data ==
    /\ EffectsOnce
    /\ EffectsContiguous
    /\ QuantityChained
    /\ AppliedHasEffect
    /\ GapKeepsBytes
    /\ EffectsRecorded

IInv == TypeOK /\ Data

\* The provers to try on a leaf that names none, in this order.
USE Zenon, SMT, Z3

-----------------------------------------------------------------------------
(* The rules on one record.                                                *)

\* ApplyProjection always decides, and applies m only as the next version from
\* the quantity it names (applyProjection).
LEMMA ApplyProjectionRule ==
    ASSUME NEW v \in View, NEW m \in Msgs
    PROVE  /\ ApplyProjection(v, m) \in {Applied, Gap, Stale, Transition}
           /\ ApplyProjection(v, m) = Applied
                => /\ m.ver = v.ver + 1
                   /\ v.ver # 0 => m.before = v.qty
BY SMT, MsgsAssumption
   DEF View, ApplyProjection, Applied, Gap, Stale, Transition

\* What processValidated leaves in the inbox row of m, by the way it went.
LEMMA InboxAfterRule ==
    ASSUME NEW r \in Rows, NEW v \in View, NEW m \in Msgs,
           r.disp = Gap => r.bytes = r.hash,
           r.disp # Gap => r.bytes = NoMsg
    PROVE  LET a == InboxAfter(r, v, m)
           IN  /\ a \in Rows
               /\ a.disp # "none"
               /\ a.disp = Gap => Fresh(r, m) /\ a.bytes = m /\ a.hash = m
               /\ a.disp # Gap => a.bytes = NoMsg
               /\ a.disp \in {Applied, DuplicateNoop} =>
                    /\ a.hash = m
                    /\ TakesEffect(r, v, m) \/ Duplicates(r, m)
               /\ TakesEffect(r, v, m) => Fresh(r, m) /\ a.disp = Applied
               /\ ~Fresh(r, m) => a.disp # Gap
<1> DEFINE a == InboxAfter(r, v, m)
<1>1. CASE Conflicts(r, m)
  <2>1. a = UpsertInbox(r, m, Conflict) /\ ~Fresh(r, m)
    BY <1>1 DEF InboxAfter, ProcessValidated, Conflicts, Duplicates, Fresh,
       Applied, DuplicateNoop, Gap
  <2>. QED
    BY SMT, <1>1, <2>1 DEF UpsertInbox, Conflicts, TakesEffect, Rows, Dispositions,
       Applied, DuplicateNoop, Conflict, Gap, Stale, Mismatch, Transition
<1>2. CASE Duplicates(r, m)
  <2>1. a = UpsertInbox(r, m, DuplicateNoop) /\ ~Fresh(r, m)
    BY <1>2 DEF InboxAfter, ProcessValidated, Conflicts, Duplicates, Fresh, Rows,
       Gap, Applied, DuplicateNoop
  <2>. QED
    BY SMT, <1>2, <2>1 DEF UpsertInbox, TakesEffect, Rows, Dispositions,
       Applied, DuplicateNoop, Conflict, Gap, Stale, Mismatch, Transition
<1>3. CASE Fresh(r, m)
  <2> DEFINE d == ApplyProjection(v, m)
  <2>1. d \in {Applied, Gap, Stale, Transition}
    BY ApplyProjectionRule
  <2>2. ~Conflicts(r, m) /\ ~Duplicates(r, m)
    BY <1>3 DEF Fresh, Conflicts, Duplicates, Gap, Applied, DuplicateNoop
  <2>3. a = UpsertInbox(r, m, d)
    BY <1>3, <2>2 DEF InboxAfter, ProcessValidated
  <2>4. TakesEffect(r, v, m) <=> d = Applied
    BY <1>3 DEF TakesEffect
  <2> HIDE DEF d
  <2>5. a = [disp |-> d, hash |-> m, bytes |-> IF d = Gap THEN m ELSE NoMsg]
    BY <2>1, <2>3 DEF UpsertInbox, Applied, Gap, Stale, Transition, Conflict
  <2>6. a \in Rows
    BY SMT, <2>1, <2>5 DEF Rows, Dispositions
  <2>. QED
    BY <1>3, <2>1, <2>4, <2>5, <2>6 DEF Applied, DuplicateNoop, Gap, Stale, Transition
<1>4. CASE ~Conflicts(r, m) /\ ~Duplicates(r, m) /\ ~Fresh(r, m)
  <2>1. a = r
    BY <1>4 DEF InboxAfter
  <2>2. r.disp \notin {"none", Gap, Applied, DuplicateNoop}
    BY <1>4 DEF Conflicts, Duplicates, Fresh
  <2>. QED
    BY <1>4, <2>1, <2>2 DEF TakesEffect
<1>. QED
  BY <1>1, <1>2, <1>3, <1>4

-----------------------------------------------------------------------------
(* The transaction of processValidated.                                    *)

StoreTypes ==
    /\ inbox \in [Ids -> Rows]
    /\ proj \in [Items -> View]
    /\ effects \subseteq Msgs

\* A message's id and item are ids and items.
LEMMA MsgKeys == ASSUME NEW m \in Msgs PROVE m.id \in Ids /\ m.item \in Items
BY DEF Ids, Items

\* A commit keeps the data invariant, whatever message it is for.
LEMMA CommitKeepsData ==
    ASSUME StoreTypes, Data, NEW m \in Msgs, Commit(m)
    PROVE  StoreTypes' /\ Data'
<1> DEFINE r == inbox[m.id]
           v == proj[m.item]
           a == InboxAfter(r, v, m)
<1>1. m.id \in Ids /\ m.item \in Items
  BY MsgKeys
<1>2. r \in Rows /\ v \in View
  BY <1>1 DEF StoreTypes
<1>3. /\ r.disp = Gap => r.bytes = r.hash
      /\ r.disp # Gap => r.bytes = NoMsg
  BY <1>1 DEF Data, GapKeepsBytes
<1>4. /\ a \in Rows
      /\ a.disp # "none"
      /\ a.disp = Gap => Fresh(r, m) /\ a.bytes = m /\ a.hash = m
      /\ a.disp # Gap => a.bytes = NoMsg
      /\ a.disp \in {Applied, DuplicateNoop} =>
           /\ a.hash = m
           /\ TakesEffect(r, v, m) \/ Duplicates(r, m)
      /\ TakesEffect(r, v, m) => Fresh(r, m) /\ a.disp = Applied
      /\ ~Fresh(r, m) => a.disp # Gap
  BY <1>2, <1>3, InboxAfterRule
<1>5. inbox' = [inbox EXCEPT ![m.id] = a]
  BY DEF Commit
<1>6. /\ TakesEffect(r, v, m) =>
           /\ proj' = [proj EXCEPT ![m.item] = Projected(m)]
           /\ effects' = effects \cup {m}
      /\ ~TakesEffect(r, v, m) => proj' = proj /\ effects' = effects
  BY DEF Commit
<1>7. TakesEffect(r, v, m) =>
        /\ m.ver = v.ver + 1
        /\ v.ver # 0 => m.before = v.qty
  BY <1>2, ApplyProjectionRule DEF TakesEffect
<1>8. m.ver \in Nat \ {0} /\ m.after \in Nat /\ v.ver \in Nat /\ v.qty \in Nat
  BY <1>2, MsgsAssumption DEF View
<1> HIDE DEF a
\* Nothing that took effect earlier clashes with m.
<1>9. TakesEffect(r, v, m) =>
        \A n \in effects : n.id # m.id /\ (n.item = m.item => n.ver < m.ver)
  <2> SUFFICES ASSUME TakesEffect(r, v, m), NEW n \in effects
               PROVE  n.id # m.id /\ (n.item = m.item => n.ver < m.ver)
    OBVIOUS
  <2>1. r.disp \in {"none", Gap}
    BY <1>4 DEF Fresh
  <2>2. n.id # m.id
    BY <2>1 DEF Data, EffectsRecorded
  <2>3. n.ver <= proj[n.item].ver
    BY DEF Data, EffectsContiguous
  <2>. QED
    BY SMT, <2>2, <2>3, <1>7, <1>8, MsgsAssumption DEF StoreTypes
<1>10. StoreTypes'
  <2>1. Projected(m) \in View
    BY <1>8 DEF Projected, View
  <2>. QED
    BY <1>1, <1>4, <1>5, <1>6, <2>1 DEF StoreTypes
<1>11. EffectsOnce'
  <2>1. CASE ~TakesEffect(r, v, m)
    BY <2>1, <1>6 DEF Data, EffectsOnce
  <2>2. CASE TakesEffect(r, v, m)
    <3>1. \A n \in effects : n.id # m.id /\ ~(n.item = m.item /\ n.ver = m.ver)
      BY SMT, <2>2, <1>8, <1>9, MsgsAssumption DEF StoreTypes
    <3>2. effects' = effects \cup {m}
      BY <2>2, <1>6
    <3>. QED
      BY SMT, <3>1, <3>2 DEF Data, EffectsOnce
  <2>. QED
    BY <2>1, <2>2
<1>12. EffectsContiguous'
  <2>1. CASE ~TakesEffect(r, v, m)
    BY SMT, <2>1, <1>6 DEF Data, EffectsContiguous
  <2>2. CASE TakesEffect(r, v, m)
    <3>1. proj'[m.item].ver = m.ver /\ \A i \in Items \ {m.item} : proj'[i] = proj[i]
      BY SMT, <2>2, <1>1, <1>6 DEF StoreTypes, Projected
    <3>2. ASSUME NEW n \in effects' PROVE n.ver <= proj'[n.item].ver
      <4>1. CASE n = m
        BY SMT, <4>1, <3>1, <1>8
      <4>2. CASE n \in effects /\ n.item = m.item
        BY SMT, <4>2, <3>1, <2>2, <1>8, <1>9, MsgsAssumption DEF StoreTypes
      <4>3. CASE n \in effects /\ n.item # m.item
        BY <4>3, <3>1, MsgKeys DEF StoreTypes, Data, EffectsContiguous
      <4>. QED
        BY <4>1, <4>2, <4>3, <2>2, <1>6
    <3>3. ASSUME NEW i \in Items, NEW u \in 1 .. proj'[i].ver
          PROVE  \E n \in effects' : n.item = i /\ n.ver = u
      <4>1. CASE i = m.item /\ u = m.ver
        BY <4>1, <2>2, <1>6
      <4>2. CASE i = m.item /\ u # m.ver
        <5>1. u \in 1 .. proj[i].ver
          BY SMT, <4>2, <3>1, <2>2, <1>7, <1>8
        <5>. QED
          BY SMT, <5>1, <2>2, <1>6 DEF Data, EffectsContiguous
      <4>3. CASE i # m.item
        BY SMT, <4>3, <3>1, <2>2, <1>6 DEF Data, EffectsContiguous
      <4>. QED
        BY <4>1, <4>2, <4>3
    <3>. QED
      BY <3>2, <3>3 DEF EffectsContiguous
  <2>. QED
    BY <2>1, <2>2
<1>13. QuantityChained'
  <2>1. CASE ~TakesEffect(r, v, m)
    BY <2>1, <1>6 DEF Data, QuantityChained
  <2>2. CASE TakesEffect(r, v, m)
    <3>1. /\ proj'[m.item].ver = m.ver /\ proj'[m.item].qty = m.after
          /\ \A i \in Items \ {m.item} : proj'[i] = proj[i]
      BY SMT, <2>2, <1>1, <1>6 DEF StoreTypes, Projected
    <3>2. ASSUME NEW n \in effects', n.ver = proj'[n.item].ver
          PROVE  proj'[n.item].qty = n.after
      <4>1. CASE n.item = m.item
        BY SMT, <4>1, <3>1, <3>2, <2>2, <1>6, <1>8, <1>9, MsgsAssumption DEF StoreTypes
      <4>2. CASE n.item # m.item
        BY <4>2, <3>1, <3>2, <2>2, <1>6, MsgKeys
           DEF StoreTypes, Data, QuantityChained
      <4>. QED
        BY <4>1, <4>2
    <3>3. ASSUME NEW n \in effects', NEW k \in effects',
                 k.item = n.item, k.ver = n.ver + 1
          PROVE  k.before = n.after
      <4>1. CASE k = m
        <5>1. n \in effects /\ n.item = m.item
          BY SMT, <4>1, <3>3, <2>2, <1>6, <1>8
        <5>2. n.ver \in Nat \ {0} /\ n.ver = v.ver
          BY SMT, <5>1, <4>1, <3>3, <2>2, <1>7, <1>8, MsgsAssumption DEF StoreTypes
        <5>. QED
          BY <5>1, <5>2, <4>1, <2>2, <1>7, <1>8 DEF Data, QuantityChained
      <4>2. CASE k # m
        <5>1. k \in effects /\ n \in Msgs /\ k \in Msgs
          BY <4>2, <2>2, <1>6 DEF StoreTypes
        <5>2. n # m
          BY <5>1, <3>3, <2>2, <1>8, <1>9, MsgsAssumption
        <5>. QED
          BY <5>1, <5>2, <3>3, <2>2, <1>6 DEF Data, QuantityChained
      <4>. QED
        BY <4>1, <4>2
    <3>. QED
      BY <3>2, <3>3 DEF QuantityChained
  <2>. QED
    BY <2>1, <2>2
<1>14. AppliedHasEffect'
  <2> SUFFICES ASSUME NEW id \in Ids, inbox'[id].disp \in {Applied, DuplicateNoop}
               PROVE  inbox'[id].hash \in effects'
    BY DEF AppliedHasEffect
  <2>1. CASE id = m.id
    <3>1. inbox'[id] = a
      BY <2>1, <1>1, <1>5 DEF StoreTypes
    <3>2. CASE TakesEffect(r, v, m)
      BY <3>1, <3>2, <1>4, <1>6
    <3>3. CASE Duplicates(r, m)
      BY <3>1, <3>3, <1>1, <1>4, <1>6 DEF Duplicates, Data, AppliedHasEffect
    <3>. QED
      BY <3>1, <3>2, <3>3, <1>4
  <2>2. CASE id # m.id
    BY <2>2, <1>5, <1>6 DEF StoreTypes, Data, AppliedHasEffect
  <2>. QED
    BY <2>1, <2>2
<1>15. GapKeepsBytes'
  <2>1. ASSUME NEW id \in Ids, id # m.id
        PROVE  inbox'[id] = inbox[id]
    BY <2>1, <1>5 DEF StoreTypes
  <2>2. inbox'[m.id] = a
    BY <1>1, <1>5 DEF StoreTypes
  <2>. QED
    BY <2>1, <2>2, <1>4 DEF Data, GapKeepsBytes
<1>16. EffectsRecorded'
  <2> SUFFICES ASSUME NEW n \in effects'
               PROVE  inbox'[n.id].disp \notin {"none", Gap}
    BY DEF EffectsRecorded
  <2>1. CASE n.id = m.id
    <3>1. inbox'[n.id] = a
      BY <2>1, <1>1, <1>5 DEF StoreTypes
    <3>2. CASE TakesEffect(r, v, m)
      BY <3>1, <3>2, <1>4 DEF Applied, Gap
    <3>3. CASE ~TakesEffect(r, v, m)
      <4>1. r.disp \notin {"none", Gap}
        BY <3>3, <2>1, <1>6 DEF Data, EffectsRecorded
      <4>. QED
        BY <3>1, <4>1, <1>4 DEF Fresh
    <3>. QED
      BY <3>2, <3>3
  <2>2. CASE n.id # m.id
    <3>1. n \in effects
      BY <2>2, <1>6
    <3>2. n.id \in Ids
      BY <3>1, MsgKeys DEF StoreTypes
    <3>. QED
      BY <2>2, <3>1, <3>2, <1>5 DEF StoreTypes, Data, EffectsRecorded
  <2>. QED
    BY <2>1, <2>2
<1>. QED
  BY <1>10, <1>11, <1>12, <1>13, <1>14, <1>15, <1>16 DEF Data

-----------------------------------------------------------------------------
(* Every step.                                                             *)

\* A mismatched record only overwrites one inbox row with a quarantine, so
\* that no effect loses its record and no gap its bytes.
LEMMA MismatchKeepsData ==
    ASSUME StoreTypes, Data, NEW p \in Procs, NEW m \in Msgs, QuarantineMismatch(p, m)
    PROVE  StoreTypes' /\ Data'
<1> DEFINE a == UpsertInbox(inbox[m.id], m, Mismatch)
<1>1. m.id \in Ids
  BY MsgKeys
<1>2. a = [disp |-> Mismatch, hash |-> m, bytes |-> NoMsg]
  BY DEF UpsertInbox, Mismatch, Conflict, Gap
<1>3. inbox' = [inbox EXCEPT ![m.id] = a] /\ proj' = proj /\ effects' = effects
  BY DEF QuarantineMismatch
<1> HIDE DEF a
<1>4. a \in Rows /\ a.disp \notin {"none", Gap, Applied, DuplicateNoop} /\ a.bytes = NoMsg
  BY <1>2 DEF Rows, Dispositions, Mismatch, Gap, Applied, DuplicateNoop
<1>5. StoreTypes'
  BY <1>1, <1>3, <1>4 DEF StoreTypes
<1>6. \A id \in Ids : inbox'[id] = IF id = m.id THEN a ELSE inbox[id]
  BY <1>3 DEF StoreTypes
<1>7. EffectsOnce' /\ EffectsContiguous' /\ QuantityChained'
  BY SMT, <1>3 DEF Data, EffectsOnce, EffectsContiguous, QuantityChained
<1>8. AppliedHasEffect' /\ GapKeepsBytes'
  BY SMT, <1>3, <1>4, <1>6 DEF Data, AppliedHasEffect, GapKeepsBytes
<1>9. EffectsRecorded'
  BY <1>3, <1>4, <1>6, MsgKeys DEF StoreTypes, Data, EffectsRecorded
<1>. QED
  BY <1>5, <1>7, <1>8, <1>9 DEF Data

\* An empty inbox and an empty projection satisfy the data invariant.
LEMMA EmptyData ==
    ASSUME inbox = [id \in Ids |-> NoRow], proj = [i \in Items |-> NoView], effects = {}
    PROVE  StoreTypes /\ Data
<1>1. StoreTypes
  BY DEF StoreTypes, NoRow, NoView, Rows, View
<1>2. Data
  BY DEF Data, EffectsOnce, EffectsContiguous, QuantityChained, AppliedHasEffect,
     GapKeepsBytes, EffectsRecorded, NoRow, NoView, Applied, DuplicateNoop, Gap
<1>. QED
  BY <1>1, <1>2

\* A reset ends in that state.
LEMMA ResetData ==
    ASSUME ResetDerivedState
    PROVE  StoreTypes' /\ Data'
<1>1. inbox' = [id \in Ids |-> NoRow] /\ proj' = [i \in Items |-> NoView] /\ effects' = {}
  BY DEF ResetDerivedState
<1>2. StoreTypes'
  BY <1>1 DEF StoreTypes, NoRow, NoView, Rows, View
<1>3. Data'
  BY <1>1 DEF Data, EffectsOnce, EffectsContiguous, QuantityChained, AppliedHasEffect,
     GapKeepsBytes, EffectsRecorded, NoRow, NoView, Applied, DuplicateNoop, Gap
<1>. QED
  BY <1>2, <1>3

\* The other half of TypeOK: the processors.
ProcTypes ==
    /\ cur \in [Procs -> Msgs \cup {NoMsg}]
    /\ pick \in [Procs -> Msgs \cup {NoMsg}]
    /\ unacked \subseteq Procs \X Msgs
    /\ resets \in 0 .. MaxResets

\* Acknowledging a record keeps the types of what it changes.
LEMMA AcknowledgeTypes ==
    ASSUME ProcTypes, NEW p \in Procs, Acknowledge(p)
    PROVE  /\ cur' \in [Procs -> Msgs \cup {NoMsg}]
           /\ unacked' \subseteq Procs \X Msgs
BY DEF ProcTypes, Acknowledge

\* Every step preserves the inductive invariant.
LEMMA NextKeepsIInv == IInv /\ [Next]_vars => IInv'
<1> SUFFICES ASSUME IInv, [Next]_vars PROVE IInv'
  OBVIOUS
<1>1. StoreTypes /\ ProcTypes /\ Data
  BY DEF IInv, TypeOK, StoreTypes, ProcTypes
<1>2. ASSUME NEW p \in Procs, NEW m \in Msgs, ProcessRecord(p, m)
      PROVE  StoreTypes' /\ Data' /\ ProcTypes'
  <2>1. StoreTypes' /\ Data'
    BY <1>1, <1>2, CommitKeepsData DEF ProcessRecord
  <2>2. ProcTypes'
    BY <1>1, <1>2 DEF ProcessRecord, ProcTypes
  <2>. QED
    BY <2>1, <2>2
<1>3. ASSUME NEW p \in Procs, NEW m \in Foreign, QuarantineMismatch(p, m)
      PROVE  StoreTypes' /\ Data' /\ ProcTypes'
  <2>1. m \in Msgs
    BY ForeignAssumption
  <2>2. StoreTypes' /\ Data'
    BY <1>1, <1>3, <2>1, MismatchKeepsData
  <2>3. ProcTypes'
    BY <1>1, <1>3 DEF QuarantineMismatch, ProcTypes
  <2>. QED
    BY <2>2, <2>3
<1>4. ASSUME NEW p \in Procs, RedriveSelect(p)
      PROVE  StoreTypes' /\ Data' /\ ProcTypes'
  <2>1. UNCHANGED <<inbox, proj, effects, cur, unacked, resets>>
    BY <1>4 DEF RedriveSelect
  <2>2. StoreTypes' /\ Data'
    BY ZenonT(60), <1>1, <2>1 DEF StoreTypes, Data, EffectsOnce, EffectsContiguous,
       QuantityChained, AppliedHasEffect, GapKeepsBytes, EffectsRecorded
  <2>3. PICK id \in Ids : pick' = [pick EXCEPT ![p] = inbox[id].bytes]
    BY <1>4 DEF RedriveSelect, NextGaps
  <2>4. inbox[id].bytes \in Msgs \cup {NoMsg}
    BY <1>1 DEF StoreTypes, Rows
  <2>. QED
    BY <1>1, <2>1, <2>2, <2>3, <2>4 DEF ProcTypes
<1>5. ASSUME NEW p \in Procs, RedriveDone(p)
      PROVE  StoreTypes' /\ Data' /\ ProcTypes'
  <2>1. UNCHANGED <<inbox, proj, effects, pick, resets>> /\ Acknowledge(p)
    BY <1>5 DEF RedriveDone
  <2>2. StoreTypes' /\ Data'
    BY ZenonT(60), <1>1, <2>1 DEF StoreTypes, Data, EffectsOnce, EffectsContiguous,
       QuantityChained, AppliedHasEffect, GapKeepsBytes, EffectsRecorded
  <2>. QED
    BY <1>1, <2>1, <2>2, AcknowledgeTypes DEF ProcTypes
<1>6. ASSUME NEW p \in Procs, RedriveCommit(p)
      PROVE  StoreTypes' /\ Data' /\ ProcTypes'
  <2>1. PICK m \in Msgs : m = pick[p]
    BY <1>1, <1>6 DEF RedriveCommit, ProcTypes
  <2>2. StoreTypes' /\ Data'
    <3>1. Commit(m)
      BY <1>6, <2>1 DEF RedriveCommit, Commit
    <3>. QED
      BY <1>1, <3>1, CommitKeepsData
  <2>3. /\ cur' \in [Procs -> Msgs \cup {NoMsg}]
        /\ unacked' \subseteq Procs \X Msgs
    BY <1>1, <1>6, AcknowledgeTypes DEF RedriveCommit, ProcTypes
  <2>4. pick' \in [Procs -> Msgs \cup {NoMsg}] /\ resets' = resets
    BY <1>1, <1>6 DEF RedriveCommit, ProcTypes
  <2>. QED
    BY <1>1, <2>2, <2>3, <2>4 DEF ProcTypes
<1>7. ASSUME NEW p \in Procs, Fail(p)
      PROVE  StoreTypes' /\ Data' /\ ProcTypes'
  <2>1. UNCHANGED <<inbox, proj, effects, resets>>
    BY <1>7 DEF Fail
  <2>2. StoreTypes' /\ Data'
    BY ZenonT(60), <1>1, <2>1 DEF StoreTypes, Data, EffectsOnce, EffectsContiguous,
       QuantityChained, AppliedHasEffect, GapKeepsBytes, EffectsRecorded
  <2>3. ProcTypes'
    BY SMT, <1>1, <1>7 DEF Fail, ProcTypes
  <2>. QED
    BY <2>2, <2>3
<1>8. ASSUME ResetDerivedState
      PROVE  StoreTypes' /\ Data' /\ ProcTypes'
  <2>1. ProcTypes'
    BY SMT, <1>1, <1>8, BoundsAssumption DEF ResetDerivedState, ProcTypes
  <2>. QED
    BY <1>8, <2>1, ResetData
<1>9. ASSUME UNCHANGED vars
      PROVE  StoreTypes' /\ Data' /\ ProcTypes'
  <2>1. StoreTypes' /\ Data'
    BY ZenonT(60), <1>1, <1>9 DEF vars, StoreTypes, Data, EffectsOnce, EffectsContiguous,
       QuantityChained, AppliedHasEffect, GapKeepsBytes, EffectsRecorded
  <2>2. ProcTypes'
    BY <1>1, <1>9 DEF vars, ProcTypes
  <2>. QED
    BY <2>1, <2>2
<1>10. ASSUME Next
       PROVE  StoreTypes' /\ Data' /\ ProcTypes'
  BY <1>2, <1>3, <1>4, <1>5, <1>6, <1>7, <1>8, <1>10 DEF Next
<1>11. StoreTypes' /\ Data' /\ ProcTypes'
  BY <1>9, <1>10
<1>12. TypeOK'
  BY <1>11 DEF TypeOK, StoreTypes, ProcTypes
<1>. QED
  BY <1>11, <1>12 DEF IInv

\* The inductive invariant holds initially and in every reachable state.
LEMMA IInvHolds == Spec => []IInv
<1>1. Init => IInv
  <2> SUFFICES ASSUME Init PROVE IInv
    OBVIOUS
  <2>1. StoreTypes /\ Data
    BY EmptyData DEF Init
  <2>. QED
    BY SMT, <2>1, BoundsAssumption DEF Init, IInv, TypeOK, StoreTypes
<1>. QED
  BY <1>1, NextKeepsIInv, PTL DEF Spec

\* Every variable keeps its type, in every behaviour of the consumer.
THEOREM TypeCorrect == Spec => []TypeOK
BY IInvHolds, PTL DEF IInv

\* Exactly-once effect of every event, whatever processValidated and
\* redriveGaps are given.
THEOREM EffectsOnceHolds == Spec => []EffectsOnce
BY IInvHolds, PTL DEF IInv, Data

\* applyProjection never skips a version and always continues from the
\* quantity that its predecessor left.
THEOREM ProjectionIsChain == Spec => [](EffectsContiguous /\ QuantityChained)
BY IInvHolds, PTL DEF IInv, Data

\* An inbox row that says applied or duplicate is never wrong about the
\* projection, and a gap row can always be re-driven from its own bytes.
THEOREM InboxTellsTruth == Spec => [](AppliedHasEffect /\ GapKeepsBytes)
BY IInvHolds, PTL DEF IInv, Data

-----------------------------------------------------------------------------
(* Refinement.                                                             *)

\* A commit applies one message as the contract allows, or changes nothing.
LEMMA CommitImplementsApply ==
    ASSUME StoreTypes, Data, NEW m \in Msgs, Commit(m)
    PROVE  \/ Contract!Apply(m)
           \/ UNCHANGED <<proj, {n.id : n \in effects}>>
<1> DEFINE r == inbox[m.id]
           v == proj[m.item]
<1>1. m.id \in Ids /\ m.item \in Items /\ v \in View
  BY MsgKeys DEF StoreTypes
<1>2. CASE TakesEffect(r, v, m)
  <2>1. m.ver = v.ver + 1 /\ (v.ver # 0 => m.before = v.qty)
    BY <1>1, <1>2, ApplyProjectionRule DEF TakesEffect
  <2>2. r.disp \in {"none", Gap}
    BY <1>2 DEF TakesEffect, Fresh
  <2>3. m.id \notin {n.id : n \in effects}
    BY <2>2 DEF Data, EffectsRecorded
  <2>4. proj' = [proj EXCEPT ![m.item] = Projected(m)] /\ effects' = effects \cup {m}
    BY <1>2 DEF Commit
  <2>5. {n.id : n \in effects'} = {n.id : n \in effects} \cup {m.id}
    BY <2>4
  <2>6. Contract!Projected(m) = Projected(m)
    BY DEF Contract!Projected, Projected
  <2>. QED
    BY <2>1, <2>3, <2>4, <2>5, <2>6 DEF Contract!Apply
<1>3. CASE ~TakesEffect(r, v, m)
  BY <1>3 DEF Commit
<1>. QED
  BY <1>2, <1>3

\* The consumer, with all its deliveries, duplicates, gaps, re-drives and
\* failures, implements the projection's contract.
THEOREM ConsumerImplementsContract == Spec => ImplementsContract
<1>1. Init => Contract!Init
  BY DEF Init, Contract!Init, Contract!Items, Items, Contract!NoView, NoView
<1>2. IInv /\ [Next]_vars => [Contract!Next]_<<proj, {m.id : m \in effects}>>
  <2> DEFINE Stutter == UNCHANGED <<proj, {m.id : m \in effects}>>
  <2> SUFFICES ASSUME IInv, [Next]_vars
               PROVE  (\E n \in Msgs : Contract!Apply(n)) \/ Contract!Reset \/ Stutter
    BY DEF Contract!Next
  <2>1. StoreTypes /\ ProcTypes /\ Data
    BY DEF IInv, TypeOK, StoreTypes, ProcTypes
  <2>2. ASSUME NEW p \in Procs, NEW m \in Msgs, ProcessRecord(p, m)
        PROVE  (\E n \in Msgs : Contract!Apply(n)) \/ Stutter
    BY <2>1, <2>2, CommitImplementsApply DEF ProcessRecord
  <2>3. ASSUME NEW p \in Procs, RedriveCommit(p)
        PROVE  (\E n \in Msgs : Contract!Apply(n)) \/ Stutter
    <3>1. PICK m \in Msgs : m = pick[p]
      BY <2>1, <2>3 DEF RedriveCommit, ProcTypes
    <3>2. Commit(m)
      BY <2>3, <3>1 DEF RedriveCommit, Commit
    <3>. QED
      BY <3>2, <2>1, CommitImplementsApply
  <2>4. ASSUME ResetDerivedState PROVE Contract!Reset
    BY <2>4 DEF ResetDerivedState, Contract!Reset, Contract!Items, Items,
       Contract!NoView, NoView
  <2>5. ASSUME NEW p \in Procs, RedriveSelect(p) \/ RedriveDone(p) \/ Fail(p)
        PROVE  Stutter
    BY <2>5 DEF RedriveSelect, RedriveDone, Fail
  <2>6. ASSUME NEW p \in Procs, NEW m \in Foreign, QuarantineMismatch(p, m)
        PROVE  Stutter
    BY <2>6 DEF QuarantineMismatch
  <2>7. ASSUME UNCHANGED vars PROVE Stutter
    BY <2>7 DEF vars
  <2> HIDE DEF Stutter
  <2>8. ASSUME Next
        PROVE  (\E n \in Msgs : Contract!Apply(n)) \/ Contract!Reset \/ Stutter
    BY <2>2, <2>3, <2>4, <2>5, <2>6, <2>8 DEF Next
  <2>. QED
    BY <2>7, <2>8
<1>. QED
  BY <1>1, <1>2, IInvHolds, PTL DEF Spec, ImplementsContract, Contract!Spec

-----------------------------------------------------------------------------
(***************************************************************************)
(* No gap is forgotten.  A processor that re-drives an item may be         *)
(* overtaken: another one applies the gap it selected, and it stops        *)
(* without looking again.  So the invariant does not count every processor *)
(* as a watcher, but only one that will look at the next version           *)
(* (Watcher), or an unacknowledged record that is not already being        *)
(* re-driven by an overtaken processor (Waiting).  It is stated of         *)
(* undisputed states, and steps never lead back to one.                    *)
(***************************************************************************)

Disputes == {Conflict, Mismatch, Transition}

Seen(m) == inbox[m.id].disp # "none" /\ inbox[m.id].hash = m
Settled(m) == inbox[m.id].disp \in {Applied, DuplicateNoop} /\ inbox[m.id].hash = m

Knows(p) ==
    /\ cur[p] # NoMsg => Settled(cur[p])
    /\ pick[p] # NoMsg =>
         /\ cur[p] # NoMsg /\ pick[p].item = cur[p].item
         /\ Seen(pick[p])
         /\ 1 < pick[p].ver /\ pick[p].ver <= proj[pick[p].item].ver + 1

RedriverKnows == \A p \in Procs : Knows(p)

UnackedSettled == \A u \in unacked : Settled(u[2])

StaleIsOld ==
    \A id \in Ids : inbox[id].disp = Stale =>
        inbox[id].hash \in Msgs /\ inbox[id].hash.ver <= proj[inbox[id].hash.item].ver

Watcher(p, i) ==
    /\ cur[p] # NoMsg /\ cur[p].item = i
    /\ pick[p] = NoMsg \/ pick[p].ver = proj[i].ver + 1

Waiting(u, i) == u[2].item = i /\ cur[u[1]] # u[2]

Watched(i) ==
    (\E p \in Procs : Watcher(p, i)) \/ (\E u \in unacked : Waiting(u, i))

WatchInv ==
    /\ RedriverKnows
    /\ UnackedSettled
    /\ StaleIsOld
    /\ \A i \in Items : NextGaps(i) # {} => Watched(i)

\* What processValidated records of m, and when it records an old version or a
\* gap.
LEMMA InboxAfterKeeps ==
    ASSUME NEW r \in Rows, NEW v \in View, NEW m \in Msgs
    PROVE  LET a == InboxAfter(r, v, m)
               d == ProcessValidated(r, v, m)
           IN  /\ Conflicts(r, m) => a.disp = Conflict
               /\ ~Conflicts(r, m) => a.hash = m /\ a.disp = d
               /\ a.disp # "none"
               /\ r.disp \in Disputes => a.disp \in Disputes
               /\ Duplicates(r, m) => d = DuplicateNoop /\ ~Conflicts(r, m)
               /\ d = Stale => r.disp = Stale \/ m.ver <= v.ver
               /\ d = Gap => v.ver = 0 \/ m.ver > v.ver + 1
               /\ d = Applied => TakesEffect(r, v, m)
               /\ TakesEffect(r, v, m) => d = Applied
               /\ d \in {Applied, DuplicateNoop} => ~Conflicts(r, m)
<1> DEFINE a == InboxAfter(r, v, m)
           d == ProcessValidated(r, v, m)
           p == ApplyProjection(v, m)
<1>1. CASE Conflicts(r, m)
  <2>1. d = Conflict /\ a.disp = Conflict /\ ~Duplicates(r, m) /\ ~Fresh(r, m)
    BY <1>1 DEF ProcessValidated, InboxAfter, UpsertInbox, Conflicts, Duplicates, Fresh,
       Applied, DuplicateNoop, Gap
  <2>. QED
    BY <1>1, <2>1 DEF TakesEffect, Disputes, Applied, DuplicateNoop, Conflict, Gap, Stale
<1>2. CASE Duplicates(r, m)
  <2>1. ~Conflicts(r, m) /\ ~Fresh(r, m)
    BY <1>2 DEF Conflicts, Duplicates, Fresh, Gap, Applied, DuplicateNoop
  <2>2. d = DuplicateNoop /\ a = UpsertInbox(r, m, DuplicateNoop)
    BY <1>2, <2>1 DEF ProcessValidated, InboxAfter
  <2>. QED
    BY <1>2, <2>1, <2>2 DEF UpsertInbox, TakesEffect, Duplicates, Disputes,
       Applied, DuplicateNoop, Conflict, Gap, Stale, Mismatch, Transition
<1>3. CASE Fresh(r, m)
  <2>1. ~Conflicts(r, m) /\ ~Duplicates(r, m) /\ r.disp \notin Disputes
    BY <1>3 DEF Conflicts, Duplicates, Fresh, Disputes, Gap, Applied, DuplicateNoop,
       Conflict, Mismatch, Transition
  <2>2. d = p /\ a = UpsertInbox(r, m, p)
    BY <1>3, <2>1 DEF ProcessValidated, InboxAfter
  <2>3. p \in {Applied, Gap, Stale, Transition}
    BY ApplyProjectionRule
  <2>4. a.disp = p /\ a.hash = m
    BY <2>2, <2>3 DEF UpsertInbox, Applied, Gap, Stale, Transition, Conflict
  <2>5. /\ p = Stale => m.ver <= v.ver
        /\ p = Gap => v.ver = 0 \/ m.ver > v.ver + 1
    BY MsgsAssumption DEF View, ApplyProjection, Applied, Gap, Stale, Transition
  <2>6. TakesEffect(r, v, m) <=> p = Applied
    BY <1>3 DEF TakesEffect
  <2>. QED
    BY <2>1, <2>2, <2>3, <2>4, <2>5, <2>6 DEF Applied, Gap, Stale, Transition
<1>4. CASE ~Conflicts(r, m) /\ ~Duplicates(r, m) /\ ~Fresh(r, m)
  BY <1>4 DEF InboxAfter, ProcessValidated, Conflicts, Duplicates, Fresh, TakesEffect
<1>. QED
  BY <1>1, <1>2, <1>3, <1>4

\* A commit after which nothing is disputed changes no row but that of m, whose
\* hash it was already or becomes.
LEMMA CommitUndisputed ==
    ASSUME StoreTypes, Data, NEW m \in Msgs, Commit(m), resets' = resets, Undisputed'
    PROVE  /\ Undisputed
           /\ inbox'[m.id].hash = m
           /\ inbox'[m.id].disp = Disposition(m) /\ Disposition(m) # "none"
           /\ ~Conflicts(inbox[m.id], m)
           /\ \A id \in Ids : id # m.id => inbox'[id] = inbox[id]
<1> DEFINE r == inbox[m.id]
           v == proj[m.item]
           a == InboxAfter(r, v, m)
<1>1. m.id \in Ids /\ m.item \in Items /\ r \in Rows /\ v \in View
  BY MsgKeys DEF StoreTypes
<1>2. inbox' = [inbox EXCEPT ![m.id] = a]
  BY DEF Commit
<1> HIDE DEF a
<1>3. inbox'[m.id] = a /\ \A id \in Ids : id # m.id => inbox'[id] = inbox[id]
  BY <1>1, <1>2 DEF StoreTypes
<1>4. a.disp \notin Disputes
  BY <1>1, <1>3 DEF Undisputed, Disputes
<1>5. /\ ~Conflicts(r, m) /\ r.disp \notin Disputes
      /\ a.hash = m /\ a.disp = Disposition(m) /\ a.disp # "none"
  BY <1>1, <1>4, InboxAfterKeeps DEF Disputes, Disposition, a
<1>6. Undisputed
  BY <1>3, <1>5 DEF Undisputed, Disputes
<1>. QED
  BY <1>3, <1>5, <1>6

\* Such a commit keeps every decided row decided and every old version old, and
\* the projection only advances.
LEMMA CommitKeepsRows ==
    ASSUME StoreTypes, Data, NEW m \in Msgs, Commit(m), resets' = resets, Undisputed'
    PROVE  /\ \A n \in Msgs : Seen(n) => Seen(n)'
           /\ \A n \in Msgs : Settled(n) => Settled(n)'
           /\ \A i \in Items : proj'[i].ver >= proj[i].ver
           /\ StaleIsOld => StaleIsOld'
<1> DEFINE r == inbox[m.id]
           v == proj[m.item]
           d == Disposition(m)
<1>1. m.id \in Ids /\ m.item \in Items /\ r \in Rows /\ v \in View
  BY MsgKeys DEF StoreTypes
<1>2. /\ inbox'[m.id].hash = m /\ inbox'[m.id].disp = d /\ d # "none"
      /\ ~Conflicts(r, m)
      /\ \A id \in Ids : id # m.id => inbox'[id] = inbox[id]
  BY CommitUndisputed
<1>3. /\ Duplicates(r, m) => d = DuplicateNoop
      /\ d = Stale => r.disp = Stale \/ m.ver <= v.ver
      /\ d = Applied => TakesEffect(r, v, m)
  BY <1>1, InboxAfterKeeps DEF Disposition
<1>4. ASSUME NEW n \in Msgs, Seen(n) PROVE Seen(n)'
  BY MsgKeys, <1>2, <1>4 DEF Seen, Conflicts
<1>5. ASSUME NEW n \in Msgs, Settled(n) PROVE Settled(n)'
  BY MsgKeys, <1>2, <1>5, <1>3 DEF Settled, Conflicts, Applied, DuplicateNoop, Duplicates
<1>6. /\ TakesEffect(r, v, m) => proj' = [proj EXCEPT ![m.item] = Projected(m)]
      /\ ~TakesEffect(r, v, m) => proj' = proj
  BY DEF Commit
<1>7. TakesEffect(r, v, m) => m.ver = v.ver + 1
  BY <1>1, ApplyProjectionRule DEF TakesEffect
<1>8. ASSUME NEW i \in Items PROVE proj'[i].ver \in Nat /\ proj'[i].ver >= proj[i].ver
  BY SMT, <1>1, MsgsAssumption, <1>6, <1>7 DEF StoreTypes, View, Projected
<1>9. ASSUME StaleIsOld PROVE StaleIsOld'
  <2> SUFFICES ASSUME NEW id \in Ids, inbox'[id].disp = Stale
               PROVE  /\ inbox'[id].hash \in Msgs
                      /\ inbox'[id].hash.ver <= proj'[inbox'[id].hash.item].ver
    BY DEF StaleIsOld
  <2>1. CASE id # m.id
    BY SMT, <1>2, <2>1, <1>9, MsgKeys, MsgsAssumption, <1>8 DEF StaleIsOld, StoreTypes, View
  <2>2. CASE id = m.id
    <3>1. inbox'[id].hash = m /\ d = Stale
      BY <1>2, <2>2
    <3>2. m.ver <= v.ver
      BY <1>2, <1>1, <1>9, <1>3, <3>1 DEF Conflicts, Stale, StaleIsOld
    <3>3. m.ver \in Nat /\ v.ver \in Nat
      BY <1>1, MsgsAssumption DEF View
    <3>. QED
      BY <1>1, <1>8, <3>1, <3>2, <3>3
  <2>. QED
    BY <2>1, <2>2
<1>. QED
  BY <1>4, <1>5, <1>8, <1>9

\* A commit makes no gap the next one, except by advancing the item's version.
LEMMA CommitAddsNoNextGap ==
    ASSUME StoreTypes, Data, NEW m \in Msgs, Commit(m), resets' = resets, Undisputed',
           NEW i \in Items, Disposition(m) = Applied => i # m.item
    PROVE  proj'[i] = proj[i] /\ NextGaps(i)' \subseteq NextGaps(i)
<1> DEFINE r == inbox[m.id]
           v == proj[m.item]
           d == Disposition(m)
<1>1. m.id \in Ids /\ m.item \in Items /\ r \in Rows /\ v \in View
  BY MsgKeys DEF StoreTypes
<1>2. /\ inbox'[m.id].hash = m /\ inbox'[m.id].disp = d
      /\ \A id \in Ids : id # m.id => inbox'[id] = inbox[id]
  BY CommitUndisputed
<1>3. /\ d = Gap => v.ver = 0 \/ m.ver > v.ver + 1
      /\ TakesEffect(r, v, m) => d = Applied
  BY <1>1, InboxAfterKeeps DEF Disposition
<1>4. proj'[i] = proj[i]
  BY <1>1, <1>3 DEF Commit, StoreTypes
<1>5. ASSUME NEW id \in Ids, id \in NextGaps(i)' PROVE id # m.id
  <2>1. SUFFICES ASSUME id = m.id PROVE FALSE
    OBVIOUS
  <2>2. GapKeepsBytes'
    BY CommitKeepsData DEF Data
  <2>3. d = Gap /\ inbox'[m.id].bytes = m
    BY <1>1, <1>2, <1>5, <2>1, <2>2 DEF NextGaps, GapKeepsBytes
  <2>4. m.item = i /\ proj'[i].ver # 0 /\ m.ver = proj'[i].ver + 1
    BY <1>5, <2>1, <2>3 DEF NextGaps
  <2>5. v.ver \in Nat /\ m.ver \in Nat
    BY <1>1, MsgsAssumption DEF View
  <2>. QED
    BY <1>3, <1>4, <2>3, <2>4, <2>5
<1>6. ASSUME NEW id \in NextGaps(i)' PROVE id \in NextGaps(i)
  BY <1>5, <1>6, <1>2, <1>4 DEF NextGaps
<1>. QED
  BY <1>4, <1>6

\* A commit keeps what processors and unacknowledged records rest on, and every
\* watch on an item whose version it does not advance.
LEMMA CommitKeepsWatch ==
    ASSUME StoreTypes, ProcTypes, Data, WatchInv,
           NEW m \in Msgs, Commit(m), resets' = resets, Undisputed'
    PROVE  /\ \A n \in Msgs : Settled(n) => Settled(n)'
           /\ \A q \in Procs, n \in Msgs : n = cur[q] => Settled(n)'
           /\ \A q \in Procs, n \in Msgs : n = pick[q] =>
                /\ cur[q] # NoMsg /\ n.item = cur[q].item
                /\ Seen(n)'
                /\ 1 < n.ver /\ n.ver <= proj'[n.item].ver + 1
           /\ \A u \in unacked : Settled(u[2])'
           /\ StaleIsOld'
           /\ \A i \in Items :
                NextGaps(i)' # {} /\ (Disposition(m) = Applied => i # m.item) =>
                    Watched(i) /\ proj'[i] = proj[i]
<1>1. /\ \A n \in Msgs : Seen(n) => Seen(n)'
      /\ \A n \in Msgs : Settled(n) => Settled(n)'
      /\ \A i \in Items : proj'[i].ver >= proj[i].ver
      /\ StaleIsOld => StaleIsOld'
  BY CommitKeepsRows
<1>2. ASSUME NEW q \in Procs, NEW n \in Msgs, n = cur[q] PROVE Settled(n)'
  BY <1>1, <1>2, MsgsAssumption DEF WatchInv, RedriverKnows, Knows
<1>3. ASSUME NEW q \in Procs, NEW n \in Msgs, n = pick[q]
      PROVE  /\ cur[q] # NoMsg /\ n.item = cur[q].item
             /\ Seen(n)'
             /\ 1 < n.ver /\ n.ver <= proj'[n.item].ver + 1
  BY SMT, <1>3, MsgsAssumption, MsgKeys, CommitKeepsData, <1>1
     DEF WatchInv, RedriverKnows, Knows, StoreTypes, View
<1>4. ASSUME NEW u \in unacked PROVE Settled(u[2])'
  BY <1>1 DEF ProcTypes, WatchInv, UnackedSettled, Settled
<1>5. ASSUME NEW i \in Items, NextGaps(i)' # {}, Disposition(m) = Applied => i # m.item
      PROVE  Watched(i) /\ proj'[i] = proj[i]
  BY <1>5, CommitAddsNoNextGap DEF WatchInv
<1>. QED
  BY <1>1, <1>2, <1>3, <1>4, <1>5 DEF WatchInv

\* After it, every processor that stays where it was, stops, or starts on m
\* still knows what it needs.
LEMMA CommitKeepsKnowledge ==
    ASSUME StoreTypes, ProcTypes, Data, WatchInv,
           NEW m \in Msgs, Commit(m), resets' = resets, Undisputed',
           \A q \in Procs :
              /\ cur'[q] \in {cur[q], NoMsg} \/ (cur'[q] = m /\ Settled(m)')
              /\ pick'[q] = NoMsg \/ (pick'[q] = pick[q] /\ cur'[q] = cur[q])
    PROVE  RedriverKnows'
<1>0. /\ \A q \in Procs, n \in Msgs : n = cur[q] => Settled(n)'
      /\ \A q \in Procs : cur[q] \in Msgs \cup {NoMsg}
  BY CommitKeepsWatch DEF ProcTypes
<1>1. ASSUME NEW q \in Procs, cur'[q] # NoMsg PROVE Settled(cur[q])'
  <2>1. cur'[q] \in Msgs
    BY <1>0, <1>1
  <2>2. PICK n \in Msgs : n = cur'[q]
    BY <2>1
  <2>3. Settled(n)'
    BY <1>0, <1>1, <2>2
  <2> QED BY <2>2, <2>3 DEF Settled
<1>2. ASSUME NEW q \in Procs, pick'[q] # NoMsg
      PROVE  /\ cur'[q] # NoMsg /\ pick'[q].item = cur'[q].item
             /\ Seen(pick[q])'
             /\ 1 < pick'[q].ver /\ pick'[q].ver <= proj'[pick'[q].item].ver + 1
  BY SMT, <1>2, CommitKeepsWatch DEF ProcTypes, Seen
<1>. QED
  BY <1>1, <1>2 DEF RedriverKnows, Knows

\* A delivery: an applied or duplicate record becomes a watcher of its item, any
\* other leaves the watches as they are.
LEMMA ProcessRecordWatch ==
    ASSUME StoreTypes, ProcTypes, Data, Undisputed => WatchInv, Undisputed',
           NEW p \in Procs, NEW m \in Msgs, ProcessRecord(p, m)
    PROVE  WatchInv'
<1> DEFINE d == Disposition(m)
<1>1. Commit(m) /\ resets' = resets /\ pick' = pick /\ cur[p] = NoMsg
  BY DEF ProcessRecord
<1>2. WatchInv /\ inbox'[m.id].hash = m /\ inbox'[m.id].disp = d
  BY <1>1, CommitUndisputed
<1>3. /\ \A n \in Msgs : Settled(n) => Settled(n)'
      /\ \A u \in unacked : Settled(u[2])'
      /\ StaleIsOld'
      /\ \A i \in Items :
           NextGaps(i)' # {} /\ (d = Applied => i # m.item) => Watched(i) /\ proj'[i] = proj[i]
  BY <1>1, <1>2, CommitKeepsWatch
<1>4. pick[p] = NoMsg
  BY <1>1, <1>2 DEF WatchInv, RedriverKnows, Knows
<1>5. m # NoMsg /\ m.item \in Items
  BY MsgKeys, MsgsAssumption
<1>6. CASE d \in {Applied, DuplicateNoop}
  <2>1. cur' = [cur EXCEPT ![p] = m] /\ unacked' = unacked
    BY <1>6 DEF ProcessRecord
  <2>2. cur'[p] = m /\ \A q \in Procs : q # p => cur'[q] = cur[q]
    BY <2>1 DEF ProcTypes
  <2>3. RedriverKnows'
    BY <1>2, <1>6, <1>1, <1>4, <2>2, CommitKeepsKnowledge DEF Settled
  <2>4. UnackedSettled'
    BY <1>3, <2>1 DEF UnackedSettled
  <2>5. ASSUME NEW i \in Items, NextGaps(i)' # {} PROVE Watched(i)'
    <3>1. CASE i = m.item
      BY <1>1, <1>4, <1>5, <2>2, <3>1 DEF Watcher, Watched
    <3>2. CASE i # m.item
      BY SMT, <1>3, <2>5, <3>2, <1>1, <2>2, <2>1 DEF Watcher, Waiting, ProcTypes, Watched
    <3>. QED
      BY <3>1, <3>2
  <2>. QED
    BY <1>3, <2>3, <2>4, <2>5 DEF WatchInv
<1>7. CASE d \notin {Applied, DuplicateNoop}
  <2>1. cur' = cur /\ unacked' = unacked \ {<<p, m>>}
    BY <1>7 DEF ProcessRecord
  <2>2. <<p, m>> \notin unacked
    <3> SUFFICES ASSUME <<p, m>> \in unacked PROVE FALSE
      OBVIOUS
    <3>1. Settled(<<p, m>>[2])'
      BY <1>3
    <3> QED BY <1>2, <1>7, <3>1 DEF Settled
  <2>3. unacked' = unacked
    BY <2>1, <2>2
  <2>4. RedriverKnows'
    BY <1>1, <1>2, <2>1, CommitKeepsKnowledge
  <2>5. UnackedSettled'
    BY <1>3, <2>3 DEF UnackedSettled
  <2>6. ASSUME NEW i \in Items, NextGaps(i)' # {} PROVE Watched(i)'
    <3>1. Watched(i) /\ proj'[i] = proj[i]
      BY <1>3, <1>7, <2>6
    <3> QED BY <1>1, <2>1, <2>3, <3>1 DEF Watched, Watcher, Waiting
  <2>. QED
    BY <1>3, <2>4, <2>5, <2>6 DEF WatchInv
<1>. QED
  BY <1>6, <1>7

\* A processor whose selected row is still the next version applies it, so only
\* an overtaken one gives up.
LEMMA NextPickApplies ==
    ASSUME StoreTypes, Data, WatchInv, NEW m \in Msgs, Commit(m), resets' = resets, Undisputed',
           Seen(m), 1 < m.ver, m.ver = proj[m.item].ver + 1
    PROVE  Disposition(m) = Applied
<1> DEFINE r == inbox[m.id]
           v == proj[m.item]
<1>1. m.id \in Ids /\ m.item \in Items /\ r \in Rows /\ v \in View
  BY MsgKeys DEF StoreTypes
<1>2. v.ver \in Nat /\ m.ver \in Nat
  BY <1>1, MsgsAssumption DEF View
<1>3. r.disp \notin Disputes /\ inbox'[m.id].disp = Disposition(m) /\ Disposition(m) \notin Disputes
  BY <1>1, CommitUndisputed DEF Undisputed, Disputes
<1>4. r.disp \notin {Applied, DuplicateNoop}
  BY SMT, <1>1, <1>2 DEF Data, AppliedHasEffect, Seen, EffectsContiguous
<1>5. r.disp # Stale
  BY <1>1, <1>2 DEF WatchInv, StaleIsOld, Seen
<1>6. r.disp = Gap
  BY <1>1, <1>3, <1>4, <1>5 DEF Seen, Rows, Dispositions, Disputes
<1>7. Fresh(r, m) /\ ~Conflicts(r, m) /\ ~Duplicates(r, m)
  BY <1>6 DEF Fresh, Conflicts, Duplicates, Seen, Gap, Applied, DuplicateNoop
<1>8. Disposition(m) = ApplyProjection(v, m)
  BY <1>7 DEF Disposition, ProcessValidated
<1>9. ApplyProjection(v, m) \in {Applied, Transition}
  BY <1>2 DEF ApplyProjection
<1>. QED
  BY <1>3, <1>8, <1>9 DEF Disputes

\* The commit of a re-drive: an applied row leaves its processor watching; any
\* other means that the processor was overtaken, so someone else watches.
LEMMA RedriveCommitWatch ==
    ASSUME StoreTypes, ProcTypes, Data, Undisputed => WatchInv, Undisputed',
           NEW p \in Procs, RedriveCommit(p)
    PROVE  WatchInv'
<1>1. PICK m \in Msgs : m = pick[p]
  BY DEF RedriveCommit, ProcTypes
<1>2. Commit(m) /\ resets' = resets /\ pick' = [pick EXCEPT ![p] = NoMsg]
  BY <1>1 DEF RedriveCommit, Commit
<1>3. /\ pick'[p] = NoMsg
      /\ \A q \in Procs : q # p => pick'[q] = pick[q]
  BY <1>2 DEF ProcTypes
<1>4. WatchInv
  <2>1. Undisputed
    BY <1>2, CommitUndisputed
  <2> QED BY <2>1
<1>5. /\ \A u \in unacked : Settled(u[2])'
      /\ StaleIsOld'
      /\ \A i \in Items :
           NextGaps(i)' # {} /\ (Disposition(m) = Applied => i # m.item) =>
               Watched(i) /\ proj'[i] = proj[i]
  BY <1>2, <1>4, CommitKeepsWatch
<1>6. cur[p] # NoMsg /\ cur[p].item = m.item /\ Seen(m) /\ 1 < m.ver
  BY <1>1, <1>4, MsgsAssumption DEF WatchInv, RedriverKnows, Knows
<1>7. CASE Disposition(m) = Applied
  <2>1. cur' = cur /\ unacked' = unacked
    BY <1>1, <1>7 DEF RedriveCommit
  <2>2. RedriverKnows'
    BY <1>2, <1>3, <1>4, <2>1, CommitKeepsKnowledge
  <2>3. UnackedSettled'
    BY <1>5, <2>1 DEF UnackedSettled
  <2>4. ASSUME NEW i \in Items, NextGaps(i)' # {} PROVE Watched(i)'
    BY SMT, <1>3, <1>6, <2>1, <1>5, <2>4 DEF Watcher, Watched, Waiting
  <2>. QED
    BY <1>5, <2>2, <2>3, <2>4 DEF WatchInv
<1>8. CASE Disposition(m) # Applied
  <2>1. cur' = [cur EXCEPT ![p] = NoMsg] /\ unacked' = unacked \ {<<p, cur[p]>>}
    BY <1>1, <1>8 DEF RedriveCommit, Acknowledge
  <2>2. cur'[p] = NoMsg /\ \A q \in Procs : q # p => cur'[q] = cur[q]
    BY <2>1 DEF ProcTypes
  <2>3. RedriverKnows'
    BY <1>2, <1>3, <1>4, <2>2, CommitKeepsKnowledge
  <2>4. UnackedSettled'
    BY <1>5, <2>1 DEF UnackedSettled
  <2>5. m.ver # proj[m.item].ver + 1
    BY <1>2, <1>4, <1>6, <1>8, NextPickApplies
  <2>6. ASSUME NEW i \in Items, NextGaps(i)' # {} PROVE Watched(i)'
    <3>1. Watched(i) /\ proj'[i] = proj[i]
      BY <1>5, <1>8, <2>6
    <3>2. ASSUME NEW q \in Procs, Watcher(q, i) PROVE Watcher(q, i)'
      <4>1. q # p
        BY <1>1, <1>6, <2>5, <3>2, MsgsAssumption DEF Watcher
      <4>. QED
        BY <1>3, <2>2, <3>1, <3>2, <4>1 DEF Watcher
    <3>3. ASSUME NEW u \in unacked, Waiting(u, i) PROVE u \in unacked' /\ Waiting(u, i)'
      BY SMT, <3>3, <2>1, <2>2, MsgsAssumption DEF ProcTypes, Waiting
    <3>. QED
      BY <3>1, <3>2, <3>3 DEF Watched
  <2>. QED
    BY <1>5, <2>3, <2>4, <2>6 DEF WatchInv
<1>. QED
  BY <1>7, <1>8

\* The steps of a processor between its transactions leave the store as it is,
\* and with it what every other processor knows.
LEMMA StoreUnchanged ==
    ASSUME ProcTypes, WatchInv, UNCHANGED <<inbox, proj>>, NEW p \in Procs,
           \A q \in Procs \ {p} : cur'[q] = cur[q] /\ pick'[q] = pick[q]
    PROVE  /\ StaleIsOld'
           /\ \A i \in Items : NextGaps(i)' = NextGaps(i)
           /\ \A n \in Msgs : (Settled(n)' <=> Settled(n)) /\ (Seen(n)' <=> Seen(n))
           /\ \A q \in Procs \ {p} : Knows(q)'
           /\ \A q \in Procs \ {p}, i \in Items : Watcher(q, i) => Watcher(q, i)'
<1>1. StaleIsOld' /\ \A i \in Items : NextGaps(i)' = NextGaps(i)
  BY DEF WatchInv, StaleIsOld, NextGaps
<1>2. \A n \in Msgs : (Settled(n)' <=> Settled(n)) /\ (Seen(n)' <=> Seen(n))
  BY DEF Settled, Seen
<1>3. ASSUME NEW q \in Procs \ {p} PROVE Knows(q)'
  <2>1. Knows(q) /\ cur'[q] = cur[q] /\ pick'[q] = pick[q]
    BY DEF WatchInv, RedriverKnows
  <2>. QED
    BY <2>1 DEF Knows, Settled, Seen
<1>4. ASSUME NEW q \in Procs \ {p}, NEW i \in Items, Watcher(q, i) PROVE Watcher(q, i)'
  BY <1>4 DEF Watcher
<1>. QED
  BY <1>1, <1>2, <1>3, <1>4

\* A processor selects the next gap: it will look at the next version.
LEMMA RedriveSelectWatch ==
    ASSUME StoreTypes, ProcTypes, Data, WatchInv, NEW p \in Procs, RedriveSelect(p)
    PROVE  WatchInv'
<1>1. PICK id \in NextGaps(cur[p].item) : pick' = [pick EXCEPT ![p] = inbox[id].bytes]
  BY DEF RedriveSelect
<1>2. UNCHANGED <<inbox, proj, cur, unacked>> /\ cur[p] # NoMsg
  BY DEF RedriveSelect
<1>3. PICK m \in Msgs : m = inbox[id].bytes
  BY <1>1 DEF NextGaps, StoreTypes, Rows
<1>4. id \in Ids /\ inbox[id].disp = Gap /\ inbox[id].hash = m /\ m.id = id
  BY <1>1, <1>3 DEF NextGaps, Data, GapKeepsBytes
<1>5. /\ m.item = cur[p].item /\ proj[m.item].ver # 0
      /\ m.ver = proj[m.item].ver + 1 /\ Seen(m)
  BY <1>1, <1>3, <1>4 DEF NextGaps, Seen, Gap
<1>6. pick'[p] = m /\ \A q \in Procs \ {p} : pick'[q] = pick[q]
  BY <1>1, <1>3 DEF ProcTypes
<1>7. 1 < m.ver /\ m.ver <= proj[m.item].ver + 1
  BY SMT, <1>5, MsgKeys, MsgsAssumption DEF StoreTypes, View
<1>8. /\ StaleIsOld'
      /\ \A i \in Items : NextGaps(i)' = NextGaps(i)
      /\ \A q \in Procs \ {p} : Knows(q)'
      /\ \A q \in Procs \ {p}, i \in Items : Watcher(q, i) => Watcher(q, i)'
  BY <1>2, <1>6, StoreUnchanged
<1>9. Knows(p)'
  <2>1. Settled(cur[p]) /\ cur'[p] = cur[p]
    BY <1>2 DEF WatchInv, RedriverKnows, Knows
  <2>. QED
    BY <1>2, <1>5, <1>6, <1>7, <2>1 DEF Knows, Settled, Seen
<1>10. UnackedSettled'
  BY <1>2 DEF WatchInv, UnackedSettled, Settled
<1>11. ASSUME NEW i \in Items, NextGaps(i)' # {} PROVE Watched(i)'
  <2>1. Watched(i)
    BY <1>8, <1>11 DEF WatchInv
  <2>2. Watcher(p, i) => Watcher(p, i)'
    BY <1>2, <1>5, <1>6 DEF Watcher
  <2>. QED
    BY <1>2, <1>8, <2>1, <2>2 DEF Watched, Waiting
<1>. QED
  BY <1>8, <1>9, <1>10, <1>11 DEF WatchInv, RedriverKnows

\* A processor that stops: nothing is left to watch, or its record stays
\* unacknowledged.
LEMMA StopWatch ==
    ASSUME StoreTypes, ProcTypes, WatchInv, NEW p \in Procs, RedriveDone(p) \/ Fail(p)
    PROVE  WatchInv'
<1>1. /\ UNCHANGED <<inbox, proj>> /\ cur[p] \in Msgs /\ cur[p] # NoMsg
      /\ cur' = [cur EXCEPT ![p] = NoMsg]
      /\ pick' = [pick EXCEPT ![p] = NoMsg]
      /\ unacked' \subseteq unacked \cup {<<p, cur[p]>>}
  BY SMT DEF RedriveDone, Acknowledge, Fail, ProcTypes
<1>2. /\ cur'[p] = NoMsg /\ pick'[p] = NoMsg
      /\ \A q \in Procs \ {p} : cur'[q] = cur[q] /\ pick'[q] = pick[q]
  BY <1>1 DEF ProcTypes
<1>3. /\ StaleIsOld'
      /\ \A i \in Items : NextGaps(i)' = NextGaps(i)
      /\ \A n \in Msgs : (Settled(n)' <=> Settled(n)) /\ (Seen(n)' <=> Seen(n))
      /\ \A q \in Procs \ {p} : Knows(q)'
      /\ \A q \in Procs \ {p}, i \in Items : Watcher(q, i) => Watcher(q, i)'
  BY <1>1, <1>2, StoreUnchanged
<1>4. Knows(p)'
  BY <1>2 DEF Knows
<1>5. Settled(cur[p])
  BY <1>1 DEF WatchInv, RedriverKnows, Knows
<1>6. UnackedSettled'
  BY SMT, <1>1, <1>5 DEF WatchInv, UnackedSettled, Settled
<1>7. ASSUME NEW i \in Items, NextGaps(i)' # {} PROVE Watched(i)'
  <2>1. Watched(i)
    BY <1>3, <1>7 DEF WatchInv
  <2>2. ASSUME NEW u \in unacked, Waiting(u, i) PROVE Waiting(u, i)'
    BY SMT, <1>2, <2>2, MsgsAssumption DEF Waiting, ProcTypes
  <2>3. CASE RedriveDone(p)
    <3>1. i # cur[p].item /\ unacked' = unacked \ {<<p, cur[p]>>}
      BY <1>3, <1>7, <2>3 DEF RedriveDone, Acknowledge
    <3>2. ~Watcher(p, i) /\ \A u \in unacked : Waiting(u, i) => u \in unacked'
      BY <3>1 DEF Watcher, Waiting
    <3>. QED
      BY <1>3, <2>1, <2>2, <3>2 DEF Watched
  <2>4. CASE Fail(p)
    <3>1. unacked' = unacked \cup {<<p, cur[p]>>}
      BY <2>4 DEF Fail
    <3>2. PICK u \in unacked' : u = <<p, cur[p]>>
      BY <3>1
    <3>3. Watcher(p, i) => Waiting(u, i)'
      BY <1>1, <1>2, <3>2 DEF Waiting, Watcher
    <3>. QED
      BY <1>3, <2>1, <2>2, <3>1, <3>3 DEF Watched
  <2>. QED
    BY <2>3, <2>4
<1>. QED
  BY <1>3, <1>4, <1>6, <1>7 DEF WatchInv, RedriverKnows

\* While nothing is disputed, every step keeps the watch.
LEMMA NextKeepsWatch ==
    ASSUME IInv, Undisputed => WatchInv, [Next]_vars
    PROVE  (Undisputed => WatchInv)'
<1> SUFFICES ASSUME Undisputed' PROVE WatchInv'
  OBVIOUS
<1>1. StoreTypes /\ ProcTypes /\ Data
  BY DEF IInv, TypeOK, StoreTypes, ProcTypes
<1>2. ASSUME NEW p \in Procs, NEW m \in Msgs, ProcessRecord(p, m) PROVE WatchInv'
  BY <1>1, <1>2, ProcessRecordWatch
<1>3. ASSUME NEW p \in Procs, RedriveCommit(p) PROVE WatchInv'
  BY <1>1, <1>3, RedriveCommitWatch
<1>4. ASSUME NEW p \in Procs, RedriveSelect(p) \/ RedriveDone(p) \/ Fail(p) PROVE WatchInv'
  <2>1. WatchInv
    BY <1>4 DEF RedriveSelect, RedriveDone, Fail, Undisputed
  <2>. QED
    BY <1>1, <1>4, <2>1, RedriveSelectWatch, StopWatch
<1>5. ASSUME NEW p \in Procs, NEW m \in Foreign, QuarantineMismatch(p, m) PROVE FALSE
  BY ForeignAssumption, MsgKeys, <1>1, <1>5
     DEF QuarantineMismatch, UpsertInbox, StoreTypes, Undisputed
<1>6. ASSUME ResetDerivedState PROVE FALSE
  BY SMT, <1>1, <1>6 DEF ResetDerivedState, ProcTypes, Undisputed
<1>7. ASSUME UNCHANGED vars PROVE WatchInv'
  <2>1. WatchInv
    BY <1>7 DEF vars, Undisputed
  <2>. QED
    BY ZenonT(60), <1>7, <2>1 DEF vars, WatchInv, RedriverKnows, Knows, UnackedSettled, StaleIsOld, Settled, Seen,
       NextGaps, Watched, Watcher, Waiting
<1>. QED
  BY <1>2, <1>3, <1>4, <1>5, <1>6, <1>7 DEF Next

\* The gap that waits for nothing but its turn is never forgotten, however
\* processors overtake each other in redriveGaps and wherever they fail.
THEOREM NextGapIsWatchedHolds == Spec => []NextGapIsWatched
<1>1. Init => (Undisputed => WatchInv)
  <2> SUFFICES ASSUME Init PROVE WatchInv
    OBVIOUS
  <2>. QED
    BY DEF Init, WatchInv, RedriverKnows, Knows, UnackedSettled, StaleIsOld, NextGaps, NoRow, Stale, Gap
<1>2. IInv /\ (Undisputed => WatchInv) /\ [Next]_vars => (Undisputed => WatchInv)'
  BY NextKeepsWatch
<1>3. IInv /\ (Undisputed => WatchInv) => NextGapIsWatched
  <2> SUFFICES ASSUME IInv, Undisputed, WatchInv, NEW i \in Items, NextGaps(i) # {},
                      NEW u \in unacked, Waiting(u, i)
               PROVE  u[2].item = i /\ Disposition(u[2]) \in {Applied, DuplicateNoop}
    BY DEF NextGapIsWatched, WatchInv, Watched, Watcher
  <2>1. PICK m \in Msgs : m = u[2]
    BY DEF IInv, TypeOK
  <2>2. Duplicates(inbox[m.id], m)
    BY <2>1 DEF WatchInv, UnackedSettled, Settled, Duplicates
  <2>3. inbox[m.id] \in Rows /\ proj[m.item] \in View
    BY MsgKeys DEF IInv, TypeOK
  <2>4. Disposition(m) = DuplicateNoop
    BY <2>2, <2>3, InboxAfterKeeps DEF Disposition
  <2>. QED
    BY <2>1, <2>4 DEF Waiting
<1>. QED
  BY <1>1, <1>2, <1>3, IInvHolds, PTL DEF Spec

=============================================================================
