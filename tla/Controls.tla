------------------------------ MODULE Controls ------------------------------
(***************************************************************************)
(* The privileged controls (src/api/controls.go) and the two writers of    *)
(* the inventory projection they compete with: the consumer, and the       *)
(* replay, rebuild or release an operator asked for.                       *)
(*                                                                         *)
(* How a record is judged is in InboxProjection and ProjectionTx.  Here a  *)
(* writer commits the next version of one item and then notifies the hub,  *)
(* in two steps; a rebuild first commits a reset, which notifies nobody.   *)
(* The release of a quarantined event is a replay that ends early.         *)
(***************************************************************************)
EXTENDS Identity

CONSTANTS
    MaxVersion,  \* events of the item in the source history
    MaxControls  \* model bound on control requests

ASSUME ControlsAssumption == MaxVersion \in Nat /\ MaxControls \in Nat

VARIABLES
    projection,  \* v: the item's version, 0 when absent; at: the commit's number
    writer,      \* each writer: the update it has committed and not notified
    control,     \* the control request being served
    requests,    \* control requests made
    audit,       \* identity.authorization_decisions
    mutated      \* history: requests that went on to change the projection

controlVars == <<control, requests, audit, mutated>>

Writers == {"consumer", "control"}
Kinds == {"replay", "rebuild", "audit"}
NoUpdate == [v |-> 0, at |-> 0]
Idle == [pc |-> "idle", kind |-> "audit", allowed |-> FALSE]

ControlsInit ==
    /\ projection = [v |-> 0, at |-> 0]
    /\ writer = [w \in Writers |-> NoUpdate]
    /\ control = Idle /\ requests = 0
    /\ audit = {} /\ mutated = {}

-----------------------------------------------------------------------------
(* The writers.                                                            *)

Commit(w) ==
    /\ writer[w] = NoUpdate
    /\ projection.v < MaxVersion
    /\ projection' = [v |-> projection.v + 1, at |-> projection.at + 1]
    /\ writer' = [writer EXCEPT ![w] = projection']

ConsumerCommits ==
    /\ Commit("consumer")
    /\ UNCHANGED <<controlVars, troubles>>

ControlCommits ==
    /\ control.pc = "run" /\ control.kind # "audit"
    /\ Commit("control")
    /\ UNCHANGED <<controlVars, troubles>>

-----------------------------------------------------------------------------
(* A control request.                                                      *)

\* The session and the policy are read before the decision is recorded.
RequestControl(kind) ==
    /\ control = Idle /\ requests < MaxControls
    /\ Session(cookie)
    /\ Trouble
    /\ requests' = requests + 1
    /\ control' = [pc |-> "decide", kind |-> kind, allowed |-> Allow(kind)]
    /\ UNCHANGED <<projection, writer, audit, mutated>>

Decision == [request |-> requests, allowed |-> control.allowed]

\* Mutant: a control goes ahead although its decision could not be recorded.
RecordDecisionUnchecked ==
    /\ control.pc = "decide"
    /\ \/ audit' = audit \union {Decision} /\ UNCHANGED troubles
       \/ UNCHANGED audit /\ Trouble
    /\ control' = IF control.allowed THEN [control EXCEPT !.pc = "authorized"] ELSE Idle
    /\ UNCHANGED <<projection, writer, requests, mutated>>

\* The decision is recorded; or the insert fails, or its answer is lost.
\* Only a recorded allow goes on.
RecordDecision ==
    /\ control.pc = "decide"
    /\ \/ /\ audit' = audit \union {Decision}
          /\ control' = IF control.allowed THEN [control EXCEPT !.pc = "authorized"] ELSE Idle
          /\ UNCHANGED troubles
       \/ /\ audit' \in {audit, audit \union {Decision}}
          /\ control' = Idle
          /\ Trouble
    /\ UNCHANGED <<projection, writer, requests, mutated>>

\* handleQuarantineRelease, handleReplay, handleRebuild and handleAuditRead
\* call the platform.  A rebuild commits its reset first.
RunControl ==
    /\ control.pc = "authorized"
    /\ control' = [control EXCEPT !.pc = IF control.kind = "audit" THEN "answer" ELSE "run"]
    /\ mutated' = IF control.kind = "audit" THEN mutated ELSE mutated \union {requests}
    /\ projection' = IF control.kind = "rebuild"
                     THEN [v |-> 0, at |-> projection.at + 1]
                     ELSE projection
    /\ UNCHANGED <<writer, requests, audit, troubles>>

\* The platform call returns, completed, refused or failed part of the way.
AnswerControl ==
    /\ control.pc \in {"run", "answer"}
    /\ writer["control"] = NoUpdate
    /\ control' = Idle
    /\ UNCHANGED <<projection, writer, requests, audit, mutated, troubles>>

\* The process ends: updates not yet notified are never notified.
ControlsRestart ==
    /\ writer' = [w \in Writers |-> NoUpdate]
    /\ control' = Idle
    /\ UNCHANGED <<projection, requests, audit, mutated>>

ControlsTypeOK ==
    /\ projection \in [v : 0..MaxVersion, at : Nat]
    /\ writer \in [Writers -> [v : 0..MaxVersion, at : Nat]]
    /\ control \in [pc : {"idle", "decide", "authorized", "run", "answer"},
                    kind : Kinds, allowed : BOOLEAN]
    /\ requests \in 0..MaxControls
    /\ audit \subseteq [request : 1..MaxControls, allowed : BOOLEAN]
    /\ mutated \subseteq 1..MaxControls

\* A control that touched the projection left an allow decision in the audit
\* before it did, even when the insert of the decision failed or its answer was
\* lost (authorizeControl, recordDecision), and no request has two decisions.
MutationIsAudited ==
    /\ \A r \in mutated : \E d \in audit : d.request = r /\ d.allowed
    /\ \A d, e \in audit : d.request = e.request => d = e
=============================================================================
