-------------------------- MODULE InboxProjection ---------------------------
(***************************************************************************)
(* The Event Spine consumer's inbox and inventory projection for one       *)
(* tenant (src/platform/process.go), with every transaction atomic.        *)
(* Several processors run ProcessRecord side by side: the stream consumer  *)
(* and the replays an operator starts.  Deliveries are at least once and   *)
(* come in any order.  A processor may fail between two transactions, in   *)
(* which case its record stays unacknowledged.                             *)
(***************************************************************************)
EXTENDS InboxRules, FiniteSets

CONSTANTS
    Procs,      \* goroutines that run ProcessRecord
    Foreign,    \* messages that may also arrive under another aggregate's key
    MaxResets,  \* model bound on tenant resets
    MaxUnacked  \* model bound on records waiting for redelivery

ASSUME ForeignAssumption == Foreign \subseteq Msgs
ASSUME BoundsAssumption == MaxResets \in Nat /\ MaxUnacked \in Nat

VARIABLES
    inbox,    \* platform.inbox by event id
    proj,     \* platform.inventory_projection by item
    cur,      \* the record whose gaps a processor re-drives, NoMsg when idle
    pick,     \* the gap row's event it selected to re-drive
    unacked,  \* records a processor failed on after a commit; it gets them again
    effects,  \* history: messages whose effect the projection holds
    resets    \* tenant resets so far

vars == <<inbox, proj, cur, pick, unacked, effects, resets>>

TypeOK ==
    /\ inbox \in [Ids -> Rows]
    /\ proj \in [Items -> View]
    /\ cur \in [Procs -> Msgs \cup {NoMsg}]
    /\ pick \in [Procs -> Msgs \cup {NoMsg}]
    /\ unacked \subseteq Procs \X Msgs
    /\ effects \subseteq Msgs
    /\ resets \in 0 .. MaxResets

Init ==
    /\ inbox = [id \in Ids |-> NoRow]
    /\ proj = [i \in Items |-> NoView]
    /\ cur = [p \in Procs |-> NoMsg]
    /\ pick = [p \in Procs |-> NoMsg]
    /\ unacked = {}
    /\ effects = {}
    /\ resets = 0

-----------------------------------------------------------------------------
\* The transaction of processValidated on m.
Commit(m) ==
    LET r == inbox[m.id]
        v == proj[m.item]
    IN  /\ inbox' = [inbox EXCEPT ![m.id] = InboxAfter(r, v, m)]
        /\ IF TakesEffect(r, v, m)
           THEN /\ proj' = [proj EXCEPT ![m.item] = Projected(m)]
                /\ effects' = effects \cup {m}
           ELSE UNCHANGED <<proj, effects>>

Disposition(m) == ProcessValidated(inbox[m.id], proj[m.item], m)

\* Mutant: gaps are re-driven after an applied record only.
ProcessRecordRedrivesApplied(p, m) ==
    /\ cur[p] = NoMsg
    /\ Commit(m)
    /\ IF Disposition(m) = Applied
       THEN /\ cur' = [cur EXCEPT ![p] = m]
            /\ UNCHANGED unacked
       ELSE /\ unacked' = unacked \ {<<p, m>>}
            /\ UNCHANGED cur
    /\ UNCHANGED <<pick, resets>>

\* ProcessRecord up to the commit of its own record.  An applied record or a
\* duplicate goes on to redriveGaps; any other decision is acknowledged.
ProcessRecord(p, m) ==
    /\ cur[p] = NoMsg
    /\ Commit(m)
    /\ IF Disposition(m) \in {Applied, DuplicateNoop}
       THEN /\ cur' = [cur EXCEPT ![p] = m]
            /\ UNCHANGED unacked
       ELSE /\ unacked' = unacked \ {<<p, m>>}
            /\ UNCHANGED cur
    /\ UNCHANGED <<pick, resets>>

\* A record whose key is not that of its aggregate: quarantineInbox writes its
\* row whatever the row was.
QuarantineMismatch(p, m) ==
    /\ cur[p] = NoMsg
    /\ inbox' = [inbox EXCEPT ![m.id] = UpsertInbox(@, m, Mismatch)]
    /\ UNCHANGED <<proj, cur, pick, unacked, effects, resets>>

\* The SELECT of redriveGaps for item i.
NextGaps(i) ==
    {id \in Ids : /\ inbox[id].disp = Gap
                  /\ inbox[id].bytes # NoMsg
                  /\ inbox[id].bytes.item = i
                  /\ proj[i].ver # 0
                  /\ inbox[id].bytes.ver = proj[i].ver + 1}

RedriveSelect(p) ==
    /\ cur[p] # NoMsg /\ pick[p] = NoMsg
    /\ \E id \in NextGaps(cur[p].item) : pick' = [pick EXCEPT ![p] = inbox[id].bytes]
    /\ UNCHANGED <<inbox, proj, cur, unacked, effects, resets>>

\* ProcessRecord returns and its record is acknowledged.
Acknowledge(p) ==
    /\ cur' = [cur EXCEPT ![p] = NoMsg]
    /\ unacked' = unacked \ {<<p, cur[p]>>}

RedriveDone(p) ==
    /\ cur[p] # NoMsg /\ pick[p] = NoMsg
    /\ NextGaps(cur[p].item) = {}
    /\ Acknowledge(p)
    /\ UNCHANGED <<inbox, proj, pick, effects, resets>>

\* The transaction on the selected row, which others may have changed since.
\* Only an applied row makes redriveGaps look for another.
RedriveCommit(p) ==
    /\ pick[p] # NoMsg
    /\ Commit(pick[p])
    /\ pick' = [pick EXCEPT ![p] = NoMsg]
    /\ IF Disposition(pick[p]) = Applied
       THEN UNCHANGED <<cur, unacked>>
       ELSE Acknowledge(p)
    /\ UNCHANGED resets

\* An error or a crash after the first commit: no acknowledgement.
Fail(p) ==
    /\ cur[p] # NoMsg
    /\ Cardinality(unacked) < MaxUnacked
    /\ unacked' = unacked \cup {<<p, cur[p]>>}
    /\ cur' = [cur EXCEPT ![p] = NoMsg]
    /\ pick' = [pick EXCEPT ![p] = NoMsg]
    /\ UNCHANGED <<inbox, proj, effects, resets>>

\* ResetDerivedStateForTenant.
ResetDerivedState ==
    /\ resets < MaxResets
    /\ resets' = resets + 1
    /\ inbox' = [id \in Ids |-> NoRow]
    /\ proj' = [i \in Items |-> NoView]
    /\ effects' = {}
    /\ UNCHANGED <<cur, pick, unacked>>

Next ==
    \/ \E p \in Procs, m \in Msgs : ProcessRecord(p, m)
    \/ \E p \in Procs, m \in Foreign : QuarantineMismatch(p, m)
    \/ \E p \in Procs :
          RedriveSelect(p) \/ RedriveDone(p) \/ RedriveCommit(p) \/ Fail(p)
    \/ ResetDerivedState

Spec == Init /\ [][Next]_vars

-----------------------------------------------------------------------------
(* Properties.                                                             *)

\* Exactly-once effect: no event id takes effect twice, and no two events
\* share a version of one item, whatever is redelivered, conflicting,
\* re-driven or replayed (processValidated, redriveGaps).
EffectsOnce ==
    \A m, n \in effects :
        m.id = n.id \/ (m.item = n.item /\ m.ver = n.ver) => m = n

\* No version is skipped: an item at version v took exactly versions 1 to v.
EffectsContiguous ==
    /\ \A m \in effects : m.ver <= proj[m.item].ver
    /\ \A i \in Items : \A v \in 1 .. proj[i].ver :
          \E m \in effects : m.item = i /\ m.ver = v

\* The quantity on hand is that of the last effect, and every effect started
\* from the quantity its predecessor left.
QuantityChained ==
    \A m \in effects :
        /\ m.ver = proj[m.item].ver => proj[m.item].qty = m.after
        /\ \A n \in effects : n.item = m.item /\ n.ver = m.ver + 1 => n.before = m.after

\* The inbox and the projection agree: a row that says applied or duplicate
\* names a message whose effect the projection holds.
AppliedHasEffect ==
    \A id \in Ids :
        inbox[id].disp \in {Applied, DuplicateNoop} => inbox[id].hash \in effects

\* A gap row keeps the exact content it was hashed from, so that redriveGaps
\* can always re-drive it and never finds a hash that differs.
GapKeepsBytes ==
    \A id \in Ids :
        IF inbox[id].disp = Gap
        THEN inbox[id].bytes = inbox[id].hash /\ inbox[id].hash.id = id
        ELSE inbox[id].bytes = NoMsg

\* No gap is forgotten: while the next version of an item waits in a gap row,
\* some processor is re-driving that item, or a record whose redelivery
\* re-drives it is still unacknowledged.  Said of the source's own messages: a
\* clash turns such a record into a quarantine, and a reset forgets it.
Undisputed ==
    resets = 0 /\ \A id \in Ids : inbox[id].disp \notin {Conflict, Mismatch, Transition}

NextGapIsWatched ==
    Undisputed =>
        \A i \in Items : NextGaps(i) # {} =>
            \/ \E p \in Procs : cur[p] # NoMsg /\ cur[p].item = i
            \/ \E u \in unacked :
                  u[2].item = i /\ Disposition(u[2]) \in {Applied, DuplicateNoop}

\* What the processors do to the projection is what ProjectionContract
\* promises: one version at a time, from the quantity that is there, and never
\* by an event that was used before, except that a reset starts over.
Contract == INSTANCE ProjectionContract
                WITH view <- proj, used <- {m.id : m \in effects}

ImplementsContract == Contract!Spec

=============================================================================
