--------------------------- MODULE Console_proofs ---------------------------
(***************************************************************************)
(* Proofs about the console, the API behind it, the controls and identity, *)
(* for any number of logins, controls, loads and versions.                 *)
(*                                                                         *)
(* The components share few variables, so each has its own inductive       *)
(* invariant, and the first lemmas say what a step of the composed system  *)
(* may do to each of them.                                                 *)
(***************************************************************************)
EXTENDS Console, TLAPS

-----------------------------------------------------------------------------
(* Identity.                                                               *)

\* A login that still awaits its callback, or has not begun, has no session and
\* no exchange under way.
IdentityInv ==
    /\ IdentityTypeOK
    /\ OneSessionPerLogin
    /\ \A l \in Logins : l \in pending \/ l > started => made[l] = 0 /\ exchanging[l] = 0
    /\ \A l \in pending : l <= started

IdentityAction ==
    \/ \E l \in Logins : \/ HandleLogin(l) \/ HandleCallback(l) \/ FinishCallback(l)
                         \/ PendingExpires(l) \/ SessionExpires(l)
    \/ \E role \in Roles : Assign(role)
    \/ Clear \/ HandleLogout
    \/ IdentityRestart /\ Trouble
    \/ UNCHANGED identityVars /\ (UNCHANGED troubles \/ Trouble)

\* The provers to try on a leaf that names none, in this order.
USE Zenon, SMT, Z3

LEMMA TroubleIsNat == ASSUME troubles \in Nat, Trouble \/ UNCHANGED troubles PROVE troubles' \in Nat
BY DEF Trouble

LEMMA IdentityInitHolds == Init => IdentityInv
BY SMT, IdentityAssumption
   DEF Init, IdentityInit, IdentityInv, IdentityTypeOK, OneSessionPerLogin, Logins, None, Roles

LEMMA IdentityKeepsInv ==
    ASSUME IdentityInv, IdentityAction
    PROVE  IdentityInv'
<1> USE IdentityAssumption DEF Logins, None
<1>t. troubles' \in Nat
  BY TroubleIsNat DEF IdentityInv, IdentityTypeOK, IdentityAction, HandleLogin, HandleCallback,
     FinishCallback, PendingExpires, SessionExpires, Assign, Clear, HandleLogout
<1>1. ASSUME NEW l \in Logins, HandleLogin(l) PROVE IdentityInv'
  <2>1. IdentityTypeOK'
    BY <1>1, <1>t DEF HandleLogin, IdentityInv, IdentityTypeOK
  <2>2. \A k \in Logins : k \in pending' \/ k > started' => k \in pending \/ k > started
    BY SMT, <1>1 DEF HandleLogin, IdentityInv, IdentityTypeOK
  <2>3. UNCHANGED <<made, exchanging>>
    BY <1>1 DEF HandleLogin
  <2>4. \A k \in pending' : k <= started'
    BY <1>1 DEF HandleLogin, IdentityInv, IdentityTypeOK
  <2> QED BY <2>1, <2>2, <2>3, <2>4 DEF IdentityInv, OneSessionPerLogin
<1>2. ASSUME NEW l \in Logins, HandleCallback(l) PROVE IdentityInv'
  <2>1. CASE l \in pending
    <3>1. /\ pending' = pending \ {l} /\ exchanging' = [exchanging EXCEPT ![l] = @ + 1]
          /\ UNCHANGED <<loginCookie, started, made, sessions, cookie, rows>>
      BY <1>2, <2>1 DEF HandleCallback
    <3>2. made[l] = 0 /\ exchanging[l] = 0
      BY <2>1 DEF IdentityInv
    <3>3. exchanging' \in [Logins -> Nat]
      BY SMT, <3>1 DEF IdentityInv, IdentityTypeOK
    <3>4. IdentityTypeOK'
      BY <3>1, <3>3, <1>t DEF IdentityInv, IdentityTypeOK
    <3>5. exchanging'[l] = 1 /\ \A k \in Logins \ {l} : exchanging'[k] = exchanging[k]
      BY SMT, <3>1, <3>2 DEF IdentityInv, IdentityTypeOK
    <3>6. \A k \in pending' : k # l /\ k \in pending /\ k <= started'
      BY <3>1 DEF IdentityInv
    <3>7. ~ (l > started')
      BY <2>1, <3>1 DEF IdentityInv, IdentityTypeOK
    <3>8. OneSessionPerLogin'
      BY SMT, <3>1, <3>2, <3>5 DEF IdentityInv, OneSessionPerLogin
    <3>9. \A k \in Logins : k \in pending' \/ k > started' => made'[k] = 0 /\ exchanging'[k] = 0
      BY <3>1, <3>5, <3>6, <3>7 DEF IdentityInv
    <3> QED BY <3>4, <3>6, <3>8, <3>9 DEF IdentityInv
  <2>2. CASE l \notin pending
    BY <1>2, <1>t, <2>2 DEF HandleCallback, IdentityInv, IdentityTypeOK, OneSessionPerLogin
  <2> QED BY <2>1, <2>2
<1>3. ASSUME NEW l \in Logins, FinishCallback(l) PROVE IdentityInv'
  <2>1. /\ exchanging[l] > 0 /\ exchanging' = [exchanging EXCEPT ![l] = @ - 1]
        /\ UNCHANGED <<started, pending, rows>>
        /\ made' = [made EXCEPT ![l] = @ + 1] \/ UNCHANGED made
    BY <1>3 DEF FinishCallback
  <2>2. /\ exchanging[l] = 1 /\ made[l] = 0 /\ l \notin pending /\ ~ (l > started)
    BY <2>1 DEF IdentityInv, IdentityTypeOK, OneSessionPerLogin
  <2>3. /\ exchanging' \in [Logins -> Nat] /\ exchanging'[l] = 0
        /\ \A k \in Logins \ {l} : exchanging'[k] = exchanging[k]
    <3>1. exchanging' = [exchanging EXCEPT ![l] = 0]
      BY <2>1, <2>2
    <3> QED BY <3>1 DEF IdentityInv, IdentityTypeOK
  <2>4. /\ made' \in [Logins -> Nat] /\ made'[l] \in {0, 1}
        /\ \A k \in Logins \ {l} : made'[k] = made[k]
    <3>1. made' = [made EXCEPT ![l] = 1] \/ made' = made
      BY SMT, <2>1, <2>2
    <3> QED BY <3>1, <2>2 DEF IdentityInv, IdentityTypeOK
  <2>5. IdentityTypeOK'
    BY <1>3, <1>t, <2>1, <2>3, <2>4 DEF FinishCallback, IdentityInv, IdentityTypeOK
  <2>6. OneSessionPerLogin'
    <3> SUFFICES ASSUME NEW k \in Logins PROVE made'[k] + exchanging'[k] <= 1
      BY DEF OneSessionPerLogin
    <3>1. CASE k = l
      BY <2>3, <2>4, <3>1
    <3>2. CASE k # l
      BY <2>3, <2>4, <3>2 DEF IdentityInv, OneSessionPerLogin
    <3> QED BY <3>1, <3>2
  <2> QED BY SMT, <2>1, <2>2, <2>3, <2>4, <2>5, <2>6 DEF IdentityInv
<1>4. ASSUME NEW l \in Logins, PendingExpires(l) \/ SessionExpires(l) PROVE IdentityInv'
  BY <1>4, <1>t DEF PendingExpires, SessionExpires, loginVars, IdentityInv, IdentityTypeOK,
     OneSessionPerLogin
<1>5. ASSUME NEW role \in Roles, Assign(role) PROVE IdentityInv'
  BY <1>5, <1>t DEF Assign, loginVars, IdentityInv, IdentityTypeOK, OneSessionPerLogin
<1>6. CASE Clear \/ HandleLogout
  BY <1>6, <1>t DEF Clear, HandleLogout, loginVars, IdentityInv, IdentityTypeOK, OneSessionPerLogin
<1>7. CASE IdentityRestart
  BY <1>7, <1>t DEF IdentityRestart, IdentityInv, IdentityTypeOK, OneSessionPerLogin, Roles
<1>8. CASE UNCHANGED identityVars
  BY <1>8, <1>t DEF identityVars, loginVars, IdentityInv, IdentityTypeOK, OneSessionPerLogin
<1> QED BY <1>1, <1>2, <1>3, <1>4, <1>5, <1>6, <1>7, <1>8 DEF IdentityAction

\* Signing in and out, and the end of sessions, are all that touches identity.
LEMMA IdentityMoves == ASSUME [Next]_vars PROVE IdentityAction
<1>1. CASE IdentityStep
  BY <1>1 DEF IdentityStep, IdentityAction
<1>2. CASE ControlStep
  BY <1>2 DEF ControlStep, IdentityAction, RequestControl, RecordDecision, RunControl,
     ControlCommits, AnswerControl, ConsumerCommits
<1>3. CASE ServerStep
  BY <1>3 DEF ServerStep, IdentityAction, Notify, HandleSnapshot, LoadSnapshot, RefuseSnapshot,
     Serve, Subscribe, TakeUpdate, Heartbeat, SendFails, UpdateArrives, Send
<1>4. CASE ConsoleStep
  BY <1>4 DEF ConsoleStep, IdentityAction, OpenConsole, Remount, TimerFires, Logout, Load,
     StreamEnds
<1>5. CASE Restart
  BY <1>5 DEF Restart, IdentityAction
<1>6. CASE UNCHANGED vars
  BY <1>6 DEF vars, IdentityAction
<1> QED BY <1>1, <1>2, <1>3, <1>4, <1>5, <1>6 DEF Next

LEMMA IdentityInductive == Spec => []IdentityInv
<1>1. IdentityInv /\ [Next]_vars => IdentityInv'
  BY IdentityMoves, IdentityKeepsInv
<1> QED BY <1>1, IdentityInitHolds, PTL DEF Spec

\* A login yields at most one session, for any number of logins, callbacks,
\* tabs and restarts (Store.takePending).
THEOREM OneSessionPerLoginHolds == Spec => []OneSessionPerLogin
BY IdentityInductive, PTL DEF IdentityInv

-----------------------------------------------------------------------------
(* The controls.                                                           *)

\* Decisions are of requests made; the request being decided has none yet, and
\* one that went past its decision has an allow.
DecisionInv ==
    /\ control.pc # "idle" => requests > 0
    /\ \A d \in audit : d.request <= requests
    /\ control.pc = "decide" => \A d \in audit : d.request # requests
    /\ control.pc \in {"authorized", "run", "answer"} =>
          \E d \in audit : d.request = requests /\ d.allowed

ControlInv == ControlsTypeOK /\ DecisionInv /\ MutationIsAudited

WriterNotified == \E w \in Writers : writer' = [writer EXCEPT ![w] = NoUpdate]

ControlAction ==
    \/ \E kind \in Kinds : RequestControl(kind)
    \/ RecordDecision \/ RunControl \/ ControlCommits \/ AnswerControl \/ ConsumerCommits
    \/ ControlsRestart
    \/ UNCHANGED <<projection, controlVars>> /\ (UNCHANGED writer \/ WriterNotified)

LEMMA ControlMoves == ASSUME [Next]_vars PROVE ControlAction
<1> USE DEF serverVars
<1>1. CASE IdentityStep
  BY <1>1 DEF IdentityStep, ControlAction
<1>2. CASE ControlStep
  BY <1>2 DEF ControlStep, ControlAction
<1>3. CASE ServerStep
  BY <1>3 DEF ServerStep, ControlAction, Notify, WriterNotified, HandleSnapshot, Serve, UpdateArrives
<1>4. CASE ConsoleStep
  BY <1>4 DEF ConsoleStep, ControlAction, OpenConsole, Remount, TimerFires, Logout, Load, StreamEnds
<1>5. CASE Restart
  BY <1>5 DEF Restart, ControlAction
<1>6. CASE UNCHANGED vars
  BY <1>6 DEF vars, ControlAction
<1> QED BY <1>1, <1>2, <1>3, <1>4, <1>5, <1>6 DEF Next

LEMMA ControlInitHolds == Init => ControlInv
BY ControlsAssumption
   DEF Init, ControlsInit, ControlInv, ControlsTypeOK, DecisionInv, MutationIsAudited, Idle,
       NoUpdate, Kinds

\* The steps that leave the request and its decision alone.
LEMMA WritersKeepInv ==
    ASSUME ControlInv,
           \/ ControlCommits \/ ConsumerCommits
           \/ UNCHANGED <<projection, controlVars>> /\ (UNCHANGED writer \/ WriterNotified)
    PROVE  ControlInv'
<1> USE ControlsAssumption
<1>1. UNCHANGED <<control, requests, audit, mutated>>
  BY DEF ControlCommits, ConsumerCommits, controlVars
<1>2. NoUpdate \in [v : 0..MaxVersion, at : Nat]
  BY DEF NoUpdate
<1>3. projection' \in [v : 0..MaxVersion, at : Nat]
  <2>1. CASE projection' = [v |-> projection.v + 1, at |-> projection.at + 1] /\ projection.v < MaxVersion
    <3>1. projection.v + 1 \in 0..MaxVersion /\ projection.at + 1 \in Nat
      BY SMT, <2>1 DEF ControlInv, ControlsTypeOK
    <3> QED BY <2>1, <3>1
  <2>2. CASE UNCHANGED projection
    BY <2>2 DEF ControlInv, ControlsTypeOK
  <2> QED BY <2>1, <2>2 DEF ControlCommits, ConsumerCommits, Commit
<1>4. writer' \in [Writers -> [v : 0..MaxVersion, at : Nat]]
  BY SMT, <1>2, <1>3 DEF ControlCommits, ConsumerCommits, Commit, WriterNotified, ControlInv, ControlsTypeOK
<1> QED BY <1>1, <1>3, <1>4 DEF ControlInv, ControlsTypeOK, DecisionInv, MutationIsAudited

LEMMA RequestKeepsInv ==
    ASSUME ControlInv, NEW kind \in Kinds, RequestControl(kind)
    PROVE  ControlInv'
<1> USE ControlsAssumption
<1>1. Allow(kind) \in BOOLEAN
  BY DEF Allow
<1>2. /\ control' = [pc |-> "decide", kind |-> kind, allowed |-> Allow(kind)]
      /\ requests' = requests + 1 /\ requests < MaxControls
      /\ UNCHANGED <<projection, writer, audit, mutated>>
  BY DEF RequestControl
<1>3. requests \in 0..MaxControls /\ requests' \in 0..MaxControls
  BY SMT, <1>2 DEF ControlInv, ControlsTypeOK
<1>4. ControlsTypeOK'
  BY <1>1, <1>2, <1>3 DEF ControlInv, ControlsTypeOK
<1>5. \A d \in audit : d.request \in 1..MaxControls /\ d.request <= requests
  BY DEF ControlInv, ControlsTypeOK, DecisionInv
<1>6. DecisionInv'
  BY <1>2, <1>3, <1>5 DEF DecisionInv
<1> QED BY <1>2, <1>4, <1>6 DEF ControlInv, MutationIsAudited

LEMMA DecisionKeepsInv ==
    ASSUME ControlInv, RecordDecision
    PROVE  ControlInv'
<1> USE ControlsAssumption
<1>1. /\ control.pc = "decide" /\ UNCHANGED <<projection, writer, requests, mutated>>
      /\ \/ audit' = audit \union {Decision}
         \/ audit' = audit /\ control' = Idle
      /\ control' = Idle \/ (control.allowed /\ control' = [control EXCEPT !.pc = "authorized"]
                               /\ audit' = audit \union {Decision})
  BY DEF RecordDecision
<1>2. requests \in 1..MaxControls /\ control.allowed \in BOOLEAN
  BY SMT, <1>1 DEF ControlInv, ControlsTypeOK, DecisionInv
<1>3. /\ Decision \in [request : 1..MaxControls, allowed : BOOLEAN]
      /\ Decision.request = requests /\ Decision.allowed = control.allowed
  BY <1>2 DEF Decision
<1>4. Idle \in [pc : {"idle", "decide", "authorized", "run", "answer"}, kind : Kinds, allowed : BOOLEAN]
  BY DEF Idle, Kinds
<1>5. ControlsTypeOK'
  BY <1>1, <1>3, <1>4 DEF ControlInv, ControlsTypeOK
<1>6. \A d \in audit : d.request # requests
  BY <1>1 DEF ControlInv, DecisionInv
<1>7. MutationIsAudited'
  BY <1>1, <1>3, <1>6 DEF ControlInv, MutationIsAudited
<1>8. control'.pc \in {"idle", "authorized"} /\
      (control'.pc = "authorized" => control.allowed /\ audit' = audit \union {Decision})
  BY SMT, <1>1 DEF Idle, ControlInv, ControlsTypeOK
<1>9. DecisionInv'
  BY SMT, <1>1, <1>2, <1>3, <1>8 DEF ControlInv, DecisionInv
<1> QED BY <1>5, <1>7, <1>9 DEF ControlInv

LEMMA ControlRunKeepsInv ==
    ASSUME ControlInv, RunControl \/ AnswerControl \/ ControlsRestart
    PROVE  ControlInv'
<1> USE ControlsAssumption
<1>1. CASE RunControl
  <2>1. /\ control.pc = "authorized" /\ UNCHANGED <<writer, requests, audit>>
        /\ control' = [control EXCEPT !.pc = "answer"] \/ control' = [control EXCEPT !.pc = "run"]
        /\ mutated' = mutated \/ mutated' = mutated \union {requests}
        /\ projection' = projection \/ projection' = [v |-> 0, at |-> projection.at + 1]
    BY <1>1 DEF RunControl
  <2>2. requests \in 1..MaxControls /\ 0 \in 0..MaxVersion /\ projection.at + 1 \in Nat
    BY SMT, <2>1 DEF ControlInv, ControlsTypeOK, DecisionInv
  <2>3. projection' \in [v : 0..MaxVersion, at : Nat]
    BY SMT, <2>1, <2>2 DEF ControlInv, ControlsTypeOK
  <2>4. control' \in [pc : {"idle", "decide", "authorized", "run", "answer"}, kind : Kinds, allowed : BOOLEAN]
        /\ control'.pc \in {"run", "answer"}
    BY <2>1 DEF ControlInv, ControlsTypeOK
  <2>5. ControlsTypeOK'
    BY <2>1, <2>2, <2>3, <2>4 DEF ControlInv, ControlsTypeOK
  <2>6. \E d \in audit : d.request = requests /\ d.allowed
    BY <2>1 DEF ControlInv, DecisionInv
  <2>7. DecisionInv'
    BY <2>1, <2>2, <2>4, <2>6 DEF ControlInv, DecisionInv
  <2>8. MutationIsAudited'
    BY <2>1, <2>6 DEF ControlInv, MutationIsAudited
  <2> QED BY <2>5, <2>7, <2>8 DEF ControlInv
<1>2. CASE AnswerControl \/ ControlsRestart
  <2>1. /\ control' = Idle /\ UNCHANGED <<projection, requests, audit, mutated>>
        /\ writer' = writer \/ writer' = [w \in Writers |-> NoUpdate]
    BY <1>2 DEF AnswerControl, ControlsRestart
  <2>2. NoUpdate \in [v : 0..MaxVersion, at : Nat]
    BY DEF NoUpdate
  <2>3. ControlsTypeOK'
    BY SMT, <2>1, <2>2 DEF ControlInv, ControlsTypeOK, Idle, Kinds
  <2>4. DecisionInv' /\ MutationIsAudited'
    BY <2>1 DEF ControlInv, DecisionInv, MutationIsAudited, Idle
  <2> QED BY <2>3, <2>4 DEF ControlInv
<1> QED BY <1>1, <1>2

LEMMA ControlInductive == Spec => []ControlInv
<1>1. ControlInv /\ [Next]_vars => ControlInv'
  BY ControlMoves, WritersKeepInv, RequestKeepsInv, DecisionKeepsInv, ControlRunKeepsInv DEF ControlAction
<1> QED BY <1>1, ControlInitHolds, PTL DEF Spec

\* A control changes the projection only under a recorded allow, and no request
\* has two decisions, whatever fails in between (authorizeControl,
\* recordDecision).
THEOREM MutationIsAuditedHolds == Spec => []MutationIsAudited
BY ControlInductive, PTL DEF ControlInv

-----------------------------------------------------------------------------
(* The stream and the page.                                                *)

Commits == 0..projection.at

\* Nothing on its way to the page is of a commit still to come, a snapshot's
\* checksum is no older than its rows, and an update in hand has just been
\* checked.
StreamInv ==
    /\ fetch \in [Generations -> Fetches(Commits)]
    /\ \A g \in Generations : fetch[g].pc = "ok" => fetch[g].at <= fetch[g].sum
    /\ handler \in [Generations -> Handlers(Commits)]
    /\ \A g \in Generations : Len(handler[g].buf) <= SubscriberBuf
    /\ writer \in [Writers -> Updates(Commits)]
    /\ told \in [Generations -> Nat] /\ leaked \in [Generations -> 0..1]
    /\ \A g \in Generations : handler[g].pc = "send" => leaked[g] = 0

\* What the page shows.
ShownInv ==
    /\ mounted \in BOOLEAN /\ timer \in BOOLEAN /\ generation \in 0..MaxGeneration
    /\ connection \in {"loading", "live", "stale", "disconnected", "error"}
    /\ view \in [v : 0..MaxVersion, at : Commits, sum : Commits, before : 0..MaxVersion]
    /\ ChecksumNotOlder /\ BeforeIsAnother

\* Only the current generation has a stream, and only once its snapshot has
\* arrived; a snapshot that has not is no older than the page.
LoadInv ==
    \A g \in Generations :
        /\ g # generation => handler[g].pc \in {"none", "gone"}
        /\ g > generation => fetch[g].pc = "none"
        /\ fetch[g].pc # "none" => handler[g].pc \in {"none", "gone"}
        /\ g = generation /\ fetch[g].pc = "ok" => view.sum <= fetch[g].sum

PageInv == ShownInv /\ LoadInv

LEMMA ShownIsKnown ==
    ASSUME ShownInv, ControlInv
    PROVE  view.sum \in Nat /\ view.sum <= projection.at /\ projection.at \in Nat
<1>1. view.sum \in Commits
  BY DEF ShownInv
<1>2. projection.at \in Nat
  BY DEF ControlInv, ControlsTypeOK
<1> QED BY <1>1, <1>2 DEF Commits

LEMMA SeqMono == ASSUME NEW A, NEW B, A \subseteq B PROVE Seq(A) \subseteq Seq(B)
<1> SUFFICES ASSUME NEW s \in Seq(A) PROVE s \in Seq(B)
  OBVIOUS
<1>1. s \in [1..Len(s) -> A] /\ Len(s) \in Nat
  OBVIOUS
<1>2. s \in [1..Len(s) -> B]
  BY <1>1
<1> QED BY <1>1, <1>2

LEMMA KnownGrows ==
    ASSUME NEW A, NEW B, A \subseteq B
    PROVE  /\ Updates(A) \subseteq Updates(B) /\ Fetches(A) \subseteq Fetches(B)
           /\ Handlers(A) \subseteq Handlers(B)
<1>1. Updates(A) \subseteq Updates(B)
  BY DEF Updates
<1>2. Fetches(A) \subseteq Fetches(B)
  BY DEF Fetches
<1>3. Seq(Updates(A)) \subseteq Seq(Updates(B))
  BY <1>1, SeqMono
<1>4. Handlers(A) \subseteq Handlers(B)
  BY <1>1, <1>3 DEF Handlers
<1> QED BY <1>1, <1>2, <1>4

LEMMA Nothing ==
    ASSUME ControlsTypeOK
    PROVE  /\ 0 \in Commits /\ projection.at \in Commits /\ projection.v \in 0..MaxVersion
           /\ NoUpdate \in Updates(Commits)
           /\ NoFetch \in Fetches(Commits) /\ NoFetch.pc = "none"
           /\ NoHandler \in Handlers(Commits) /\ NoHandler.pc = "none" /\ NoHandler.buf = <<>>
           /\ Gone \in Handlers(Commits) /\ Gone.pc = "gone" /\ Gone.buf = <<>>
           /\ Ended \in Handlers(Commits) /\ Ended.pc = "ended" /\ Ended.buf = <<>>
           /\ Len(<<>>) <= SubscriberBuf
<1>1. 0 \in Commits /\ projection.at \in Commits /\ projection.v \in 0..MaxVersion /\ 0 \in 0..MaxVersion
  BY SMT, ControlsAssumption DEF ControlsTypeOK, Commits
<1>2. NoUpdate \in Updates(Commits)
  BY <1>1 DEF NoUpdate, Updates
<1>3. NoFetch \in Fetches(Commits) /\ NoFetch.pc = "none"
  BY <1>1 DEF NoFetch, Fetches
<1>4. <<>> \in Seq(Updates(Commits))
  OBVIOUS
<1>5. NoHandler \in Handlers(Commits) /\ NoHandler.pc = "none" /\ NoHandler.buf = <<>>
  BY <1>2, <1>4 DEF NoHandler, Handlers
<1>6. Gone \in Handlers(Commits) /\ Gone.pc = "gone" /\ Gone.buf = <<>>
  BY <1>2, <1>4 DEF Gone, NoHandler, Handlers
<1>7. Ended \in Handlers(Commits) /\ Ended.pc = "ended" /\ Ended.buf = <<>>
  BY <1>2, <1>4 DEF Ended, NoHandler, Handlers
<1>8. Len(<<>>) <= SubscriberBuf
  BY StreamAssumption
<1> QED BY <1>1, <1>2, <1>3, <1>5, <1>6, <1>7, <1>8

LEMMA StreamInitHolds == Init => StreamInv /\ PageInv
<1> SUFFICES ASSUME Init PROVE StreamInv /\ PageInv
  OBVIOUS
<1>0. ControlsTypeOK
  BY ControlInitHolds DEF ControlInv
<1>1. StreamInv
  BY <1>0, Nothing, ControlsAssumption, StreamAssumption
  DEF Init, StreamInit, ControlsInit, StreamInv, Generations
<1>2. view \in [v : 0..MaxVersion, at : Commits, sum : Commits, before : 0..MaxVersion]
  <2>1. 0 \in Commits /\ 0 \in 0..MaxVersion
    BY <1>0, Nothing, ControlsAssumption
  <2> QED BY <2>1 DEF Init, EmptyProjectionView
<1> USE <1>0, Nothing, ControlsAssumption, StreamAssumption
<1>3. /\ mounted \in BOOLEAN /\ timer \in BOOLEAN /\ generation \in 0..MaxGeneration
      /\ connection \in {"loading", "live", "stale", "disconnected", "error"}
  <2>1. generation \in 0..MaxGeneration
    BY DEF Init
  <2>2. mounted = FALSE /\ timer = FALSE /\ connection = "loading"
    BY DEF Init
  <2> QED BY <2>1, <2>2
<1>4. ChecksumNotOlder /\ BeforeIsAnother
  BY DEF Init, ChecksumNotOlder, BeforeIsAnother, EmptyProjectionView
<1>5. \A g \in Generations : fetch[g].pc = "none" /\ handler[g].pc = "none"
  BY DEF Init, StreamInit
<1>6. ShownInv
  BY <1>2, <1>3, <1>4 DEF ShownInv
<1>7. LoadInv
  BY <1>5 DEF LoadInv
<1> QED BY <1>1, <1>6, <1>7 DEF PageInv

\* Commits of the projection; the API and the page do not move.
LEMMA CommitKeepsInv ==
    ASSUME ControlInv, ControlInv', StreamInv, PageInv, ControlStep
    PROVE  StreamInv' /\ PageInv'
<1>1. UNCHANGED <<fetch, handler, told, leaked, mounted, generation, connection, view, timer>>
  BY DEF ControlStep, streamVars, consoleVars
<1>2. projection.at \in Nat /\ projection'.at \in Nat
  BY DEF ControlInv, ControlsTypeOK
<1>3. projection'.at >= projection.at
  BY <1>2 DEF ControlStep, RequestControl, RecordDecision, RunControl, ControlCommits, AnswerControl,
     ConsumerCommits, Commit
<1>4. Commits \subseteq Commits'
  BY <1>2, <1>3 DEF Commits
<1>5. /\ Updates(Commits) \subseteq Updates(Commits') /\ Fetches(Commits) \subseteq Fetches(Commits')
      /\ Handlers(Commits) \subseteq Handlers(Commits')
  BY <1>4, KnownGrows
<1>6. writer' \in [Writers -> Updates(Commits')]
  <2>1. writer' = writer \/ \E w \in Writers : writer' = [writer EXCEPT ![w] = projection']
    BY DEF ControlStep, RequestControl, RecordDecision, RunControl, ControlCommits, AnswerControl,
       ConsumerCommits, Commit, Writers
  <2>2. projection' \in Updates(Commits')
    BY SMT, <1>2 DEF ControlInv, ControlsTypeOK, Updates, Commits
  <2> QED BY <1>5, <2>1, <2>2 DEF StreamInv
<1>7. StreamInv'
  BY <1>1, <1>5, <1>6 DEF StreamInv
<1>8. view' \in [v : 0..MaxVersion, at : Commits', sum : Commits', before : 0..MaxVersion]
  BY <1>1, <1>4 DEF PageInv, ShownInv
<1>9. ShownInv'
  BY <1>1, <1>8 DEF PageInv, ShownInv, ChecksumNotOlder, BeforeIsAnother
<1>10. LoadInv'
  BY <1>1 DEF PageInv, LoadInv
<1> QED BY <1>7, <1>9, <1>10 DEF PageInv

\* Steps of identity, and stuttering.
LEMMA IdleKeepsInv ==
    ASSUME StreamInv, PageInv, IdentityStep \/ UNCHANGED vars
    PROVE  StreamInv' /\ PageInv'
<1>1. UNCHANGED <<projection, writer, fetch, handler, told, leaked, mounted, generation,
                  connection, view, timer>>
  BY DEF IdentityStep, vars, serverVars, streamVars, consoleVars
<1>2. Commits' = Commits
  BY <1>1 DEF Commits
<1>3. StreamInv'
  BY <1>1, <1>2 DEF StreamInv
<1>4. ShownInv' /\ LoadInv'
  BY <1>1, <1>2 DEF PageInv, ShownInv, LoadInv, ChecksumNotOlder, BeforeIsAnother
<1> QED BY <1>3, <1>4 DEF PageInv

\* A snapshot request is answered by the API.
LEMMA SnapshotKeepsInv ==
    ASSUME ControlInv, StreamInv, PageInv, NEW g \in Generations, HandleSnapshot(g),
           UNCHANGED <<identityVars, serverVars, consoleVars>>
    PROVE  StreamInv' /\ PageInv'
<1>1. UNCHANGED <<projection, writer, handler, leaked, mounted, generation, connection, view, timer>>
  BY DEF HandleSnapshot, serverVars, consoleVars
<1>2. Commits' = Commits
  BY <1>1 DEF Commits
<1>3. /\ projection.at \in Commits /\ projection.at \in Nat /\ projection.v \in 0..MaxVersion
  BY Nothing DEF ControlInv, ControlsTypeOK
<1>4. PICK x \in Fetches(Commits) :
          /\ fetch' = [fetch EXCEPT ![g] = x]
          /\ x.pc # "none" /\ fetch[g].pc # "none"
          /\ x.pc = "ok" => x.at <= x.sum /\ x.sum = projection.at
  <2>1. fetch[g] \in Fetches(Commits)
    BY DEF StreamInv
  <2>2. CASE /\ fetch[g].pc = "sent"
             /\ fetch' = [fetch EXCEPT ![g].pc = "rows", ![g].v = projection.v, ![g].at = projection.at]
    <3> DEFINE y == [fetch[g] EXCEPT !.pc = "rows", !.v = projection.v, !.at = projection.at]
    <3>1. y \in Fetches(Commits) /\ y.pc = "rows"
      BY <1>3, <2>1 DEF Fetches
    <3>2. fetch' = [fetch EXCEPT ![g] = y]
      BY <2>1, <2>2 DEF StreamInv
    <3> HIDE DEF y
    <3> QED BY <2>2, <3>1, <3>2
  <2>3. CASE /\ fetch[g].pc = "rows"
             /\ fetch' = [fetch EXCEPT ![g].pc = "ok", ![g].sum = projection.at]
    <3> DEFINE y == [fetch[g] EXCEPT !.pc = "ok", !.sum = projection.at]
    <3>1. y \in Fetches(Commits) /\ y.pc = "ok" /\ y.sum = projection.at /\ y.at = fetch[g].at
      BY <1>3, <2>1 DEF Fetches
    <3>2. fetch' = [fetch EXCEPT ![g] = y]
      BY <2>1, <2>3 DEF StreamInv
    <3>3. fetch[g].at <= projection.at
      BY SMT, <2>1, <1>3 DEF Fetches, Commits
    <3> HIDE DEF y
    <3> QED BY <2>3, <3>1, <3>2, <3>3
  <2>4. CASE RefuseSnapshot(g)
    <3> DEFINE y == [fetch[g] EXCEPT !.pc = "failed"]
    <3>1. y \in Fetches(Commits) /\ y.pc = "failed"
      BY <2>1 DEF Fetches
    <3>2. fetch' = [fetch EXCEPT ![g] = y] /\ fetch[g].pc # "none"
      BY <2>4 DEF RefuseSnapshot
    <3> HIDE DEF y
    <3> QED BY <3>1, <3>2
  <2> QED BY <2>2, <2>3, <2>4 DEF HandleSnapshot, LoadSnapshot
<1>5. /\ fetch' \in [Generations -> Fetches(Commits)] /\ fetch'[g] = x
      /\ \A k \in Generations \ {g} : fetch'[k] = fetch[k]
  BY <1>4 DEF StreamInv
<1>6. told' \in [Generations -> Nat]
  BY <1>3 DEF HandleSnapshot, LoadSnapshot, RefuseSnapshot, StreamInv
<1>7. StreamInv'
  BY <1>1, <1>2, <1>4, <1>5, <1>6 DEF StreamInv
<1>8. view.sum <= projection.at
  BY ShownIsKnown DEF PageInv
<1>9. ShownInv'
  BY <1>1, <1>2 DEF PageInv, ShownInv, ChecksumNotOlder, BeforeIsAnother
<1>10. LoadInv'
  BY <1>1, <1>4, <1>5, <1>8 DEF PageInv, LoadInv
<1> QED BY <1>7, <1>9, <1>10 DEF PageInv

\* The hub hands an update to the streams that have room for it.
LEMMA NotifyKeepsInv ==
    ASSUME ControlInv, StreamInv, PageInv, NEW w \in Writers, Notify(w),
           UNCHANGED <<identityVars, controlVars, consoleVars>>
    PROVE  StreamInv' /\ PageInv'
<1>1. UNCHANGED <<projection, fetch, leaked, mounted, generation, connection, view, timer>>
  BY DEF Notify, consoleVars
<1>2. Commits' = Commits
  BY <1>1 DEF Commits
<1>3. writer[w] \in Updates(Commits) /\ NoUpdate \in Updates(Commits)
  BY Nothing DEF StreamInv, ControlInv
<1>4. writer' \in [Writers -> Updates(Commits)]
  BY <1>3 DEF Notify, StreamInv
<1>5. writer[w].at \in Nat
  BY <1>3 DEF Updates, Commits
<1>6. told' \in [Generations -> Nat]
  BY <1>5 DEF Notify, NotifyApplied, StreamInv
<1>7. /\ handler' \in [Generations -> Handlers(Commits)]
      /\ \A g \in Generations : handler'[g].pc = handler[g].pc /\ Len(handler'[g].buf) <= SubscriberBuf
  <2> DEFINE heard(g) == [handler[g] EXCEPT !.buf = Append(@, writer[w])]
  <2>1. \A g \in Generations :
           handler[g] \in Handlers(Commits) /\ Len(handler[g].buf) <= SubscriberBuf
    BY DEF StreamInv
  <2>2. ASSUME NEW g \in Generations, Len(handler[g].buf) < SubscriberBuf
        PROVE  /\ heard(g) \in Handlers(Commits) /\ heard(g).pc = handler[g].pc
               /\ Len(heard(g).buf) <= SubscriberBuf
    <3>1. handler[g].buf \in Seq(Updates(Commits))
      BY <2>1 DEF Handlers
    <3>2. /\ Append(handler[g].buf, writer[w]) \in Seq(Updates(Commits))
          /\ Len(Append(handler[g].buf, writer[w])) = Len(handler[g].buf) + 1
      BY <1>3, <3>1
    <3>3. Len(handler[g].buf) \in Nat
      BY <3>1
    <3>4. heard(g).pc = handler[g].pc /\ heard(g).buf = Append(handler[g].buf, writer[w])
      BY <2>1 DEF Handlers
    <3>5. heard(g) \in Handlers(Commits)
      BY <2>1, <3>2 DEF Handlers
    <3>6. Len(heard(g).buf) <= SubscriberBuf
      BY <2>2, <3>2, <3>3, <3>4, StreamAssumption
    <3> QED BY <3>4, <3>5, <3>6
  <2>3. \A g \in Generations :
           \/ handler'[g] = handler[g]
           \/ Len(handler[g].buf) < SubscriberBuf /\ handler'[g] = heard(g)
    BY DEF Notify, NotifyApplied
  <2>4. handler' = [g \in Generations |-> handler'[g]]
    BY DEF Notify, NotifyApplied
  <2> HIDE DEF heard
  <2>5. \A g \in Generations :
           /\ handler'[g] \in Handlers(Commits)
           /\ handler'[g].pc = handler[g].pc /\ Len(handler'[g].buf) <= SubscriberBuf
    BY <2>1, <2>2, <2>3
  <2> QED BY <2>4, <2>5
<1>8. StreamInv'
  BY <1>1, <1>2, <1>4, <1>6, <1>7 DEF StreamInv
<1>9. ShownInv'
  BY <1>1, <1>2 DEF PageInv, ShownInv, ChecksumNotOlder, BeforeIsAnother
<1>10. LoadInv'
  BY <1>1, <1>7 DEF PageInv, LoadInv
<1> QED BY <1>8, <1>9, <1>10 DEF PageInv

\* One handler becomes h, another stage of the same stream or its end.
LEMMA HandlerMoves ==
    ASSUME StreamInv, NEW g \in Generations, NEW h \in Handlers(Commits),
           handler' = [handler EXCEPT ![g] = h], Len(h.buf) <= SubscriberBuf,
           UNCHANGED <<projection, writer, told>>,
           fetch' \in [Generations -> Fetches(Commits)],
           \A k \in Generations : fetch'[k].pc = "ok" => fetch'[k] = fetch[k],
           leaked' \in [Generations -> 0..1],
           \A k \in Generations \ {g} : leaked'[k] = leaked[k],
           h.pc = "send" => leaked'[g] = 0
    PROVE  /\ StreamInv' /\ Commits' = Commits
           /\ handler'[g] = h /\ \A k \in Generations \ {g} : handler'[k] = handler[k]
<1>1. Commits' = Commits
  BY DEF Commits
<1>2. /\ handler' \in [Generations -> Handlers(Commits)]
      /\ handler'[g] = h /\ \A k \in Generations \ {g} : handler'[k] = handler[k]
  BY DEF StreamInv
<1>3. StreamInv'
  BY <1>1, <1>2 DEF StreamInv
<1> QED BY <1>1, <1>2, <1>3

\* A stage of the stream of g, with h after it.
LEMMA StageMoves ==
    ASSUME ControlInv, StreamInv, NEW g \in Generations, Serve(g) \/ Send(g)
    PROVE  \E h \in Handlers(Commits) :
              /\ handler' = [handler EXCEPT ![g] = h] /\ Len(h.buf) <= SubscriberBuf
              /\ handler[g].pc \in {"flushed", "loop", "send"}
              /\ leaked' \in [Generations -> 0..1]
              /\ \A k \in Generations \ {g} : leaked'[k] = leaked[k]
              /\ h.pc = "send" => leaked'[g] = 0
              /\ UNCHANGED told
<1> USE Nothing DEF ControlInv
<1>1. /\ handler[g] \in Handlers(Commits) /\ Len(handler[g].buf) <= SubscriberBuf
      /\ handler[g].buf \in Seq(Updates(Commits)) /\ leaked \in [Generations -> 0..1]
  BY DEF StreamInv, Handlers
<1>2. CASE Subscribe(g)
  <2> DEFINE y == [handler[g] EXCEPT !.pc = "loop", !.subscribed = TRUE]
  <2>1. y \in Handlers(Commits) /\ y.pc = "loop" /\ y.buf = handler[g].buf
    BY <1>1 DEF Handlers
  <2>2. /\ handler' = [handler EXCEPT ![g] = y] /\ UNCHANGED <<told, leaked>>
        /\ handler[g].pc = "flushed"
    BY <1>2 DEF Subscribe, StreamInv
  <2> HIDE DEF y
  <2> QED BY <1>1, <2>1, <2>2
<1>3. CASE TakeUpdate(g) /\ MayRead(handler[g].session)
  <2> DEFINE y == [handler[g] EXCEPT !.pc = "send", !.update = Head(handler[g].buf),
                                     !.buf = Tail(handler[g].buf)]
  <2>1. /\ Head(handler[g].buf) \in Updates(Commits) /\ Tail(handler[g].buf) \in Seq(Updates(Commits))
        /\ Len(Tail(handler[g].buf)) <= SubscriberBuf
    BY SMT, <1>1, <1>3, StreamAssumption DEF TakeUpdate
  <2>2. y \in Handlers(Commits) /\ y.pc = "send" /\ y.buf = Tail(handler[g].buf)
    BY <1>1, <2>1 DEF Handlers
  <2>3. /\ handler' = [handler EXCEPT ![g] = y] /\ UNCHANGED told
        /\ leaked' = [leaked EXCEPT ![g] = 0] /\ handler[g].pc = "loop"
    BY <1>3 DEF TakeUpdate, StreamInv
  <2>4. /\ leaked' \in [Generations -> 0..1] /\ leaked'[g] = 0
        /\ \A k \in Generations \ {g} : leaked'[k] = leaked[k]
    BY SMT, <1>1, <2>3
  <2> HIDE DEF y
  <2> QED BY <2>1, <2>2, <2>3, <2>4
<1>4. CASE \/ TakeUpdate(g) /\ ~ MayRead(handler[g].session)
           \/ Heartbeat(g) \/ SendFails(g)
  <2>1. /\ handler' = [handler EXCEPT ![g] = Ended] /\ UNCHANGED <<told, leaked>>
        /\ handler[g].pc \in {"loop", "send"}
    BY <1>4 DEF TakeUpdate, Heartbeat, SendFails
  <2> QED BY <1>1, <2>1
<1>5. CASE Send(g)
  <2> DEFINE y == [handler[g] EXCEPT !.pc = "loop", !.update = NoUpdate]
  <2>1. y \in Handlers(Commits) /\ y.pc = "loop" /\ y.buf = handler[g].buf
    BY <1>1 DEF Handlers
  <2>2. handler' = [handler EXCEPT ![g] = y] /\ UNCHANGED told /\ handler[g].pc = "send"
    BY <1>5 DEF Send, StreamInv
  <2>3. leaked[g] = 0
    BY <2>2 DEF StreamInv
  <2>4. PICK n \in {0, 1} : leaked' = [leaked EXCEPT ![g] = n]
    <3>1. CASE MayRead(handler[g].session)
      BY <1>5, <3>1 DEF Send
    <3>2. CASE ~ MayRead(handler[g].session)
      BY SMT, <1>5, <2>3, <3>2 DEF Send
    <3> QED BY <3>1, <3>2
  <2>5. /\ leaked' \in [Generations -> 0..1]
        /\ \A k \in Generations \ {g} : leaked'[k] = leaked[k]
    BY SMT, <1>1, <2>4
  <2> HIDE DEF y
  <2> QED BY <1>1, <2>1, <2>2, <2>5
<1> QED BY <1>2, <1>3, <1>4, <1>5 DEF Serve

LEMMA ServeKeepsInv ==
    ASSUME ControlInv, StreamInv, PageInv, NEW g \in Generations, Serve(g),
           UNCHANGED <<identityVars, controlVars, consoleVars>>
    PROVE  StreamInv' /\ PageInv'
<1>1. UNCHANGED <<projection, writer, fetch, mounted, generation, connection, view, timer>>
  BY DEF Serve, consoleVars
<1>2. PICK h \in Handlers(Commits) :
              /\ handler' = [handler EXCEPT ![g] = h] /\ Len(h.buf) <= SubscriberBuf
              /\ handler[g].pc \in {"flushed", "loop", "send"}
              /\ leaked' \in [Generations -> 0..1]
              /\ \A k \in Generations \ {g} : leaked'[k] = leaked[k]
              /\ h.pc = "send" => leaked'[g] = 0
              /\ UNCHANGED told
  BY StageMoves
<1>3. fetch' \in [Generations -> Fetches(Commits)]
  BY <1>1 DEF StreamInv
<1>4. /\ StreamInv' /\ Commits' = Commits
      /\ handler'[g] = h /\ \A k \in Generations \ {g} : handler'[k] = handler[k]
  BY <1>1, <1>2, <1>3, HandlerMoves
<1>5. g = generation /\ fetch[g].pc = "none"
  BY <1>2 DEF PageInv, LoadInv
<1>6. ShownInv'
  BY <1>1, <1>4 DEF PageInv, ShownInv, ChecksumNotOlder, BeforeIsAnother
<1>7. LoadInv'
  BY <1>1, <1>4, <1>5 DEF PageInv, LoadInv
<1> QED BY <1>4, <1>6, <1>7 DEF PageInv

\* The quantity kept as the one before.
LEMMA BeforeDiffers ==
    ASSUME PageInv, NEW v \in 0..MaxVersion
    PROVE  Before(view, v) \in 0..MaxVersion /\ (Before(view, v) # 0 => Before(view, v) # v)
<1>1. /\ view.v \in 0..MaxVersion /\ view.before \in 0..MaxVersion
      /\ view.before # 0 => view.before # view.v
  BY DEF PageInv, ShownInv, BeforeIsAnother
<1> QED BY <1>1, ControlsAssumption DEF Before

\* What the page becomes, of a version and two commits already made.
LEMMA ShownIsView ==
    ASSUME PageInv, NEW v \in 0..MaxVersion, NEW at \in Commits, NEW sum \in Commits, at <= sum,
           NEW b \in 0..MaxVersion, b # 0 => b # v, Commits' = Commits,
           view' = [v |-> v, at |-> at, sum |-> sum, before |-> b]
    PROVE  /\ view' \in [v : 0..MaxVersion, at : Commits', sum : Commits', before : 0..MaxVersion]
           /\ ChecksumNotOlder' /\ BeforeIsAnother' /\ view'.sum = sum
BY DEF ChecksumNotOlder, BeforeIsAnother

LEMMA UpdateKeepsInv ==
    ASSUME ControlInv, StreamInv, PageInv, NEW g \in Generations, UpdateArrives(g),
           UNCHANGED <<identityVars, serverVars, mounted, generation, timer>>
    PROVE  StreamInv' /\ PageInv' /\ view.sum <= view'.sum
<1>1. UNCHANGED <<projection, writer, fetch, mounted, generation, timer>> /\ connection' = "live"
  BY DEF UpdateArrives, serverVars
<1>2. PICK h \in Handlers(Commits) :
              /\ handler' = [handler EXCEPT ![g] = h] /\ Len(h.buf) <= SubscriberBuf
              /\ handler[g].pc \in {"flushed", "loop", "send"}
              /\ leaked' \in [Generations -> 0..1]
              /\ \A k \in Generations \ {g} : leaked'[k] = leaked[k]
              /\ h.pc = "send" => leaked'[g] = 0
              /\ UNCHANGED told
  BY StageMoves DEF UpdateArrives
<1>3. fetch' \in [Generations -> Fetches(Commits)]
  BY <1>1 DEF StreamInv
<1>4. /\ StreamInv' /\ Commits' = Commits
      /\ handler'[g] = h /\ \A k \in Generations \ {g} : handler'[k] = handler[k]
  BY <1>1, <1>2, <1>3, HandlerMoves
<1>5. g = generation /\ fetch[g].pc = "none"
  BY <1>2 DEF PageInv, LoadInv
<1> DEFINE v == handler[g].update.v
           at == handler[g].update.at
<1>6. v \in 0..MaxVersion /\ at \in Commits /\ projection.at \in Commits /\ at <= projection.at
  <2>1. handler[g].update \in Updates(Commits) /\ projection.at \in Nat
    BY DEF StreamInv, Handlers, ControlInv, ControlsTypeOK
  <2>2. v \in 0..MaxVersion /\ at \in Commits
    BY <2>1 DEF Updates
  <2> HIDE DEF v, at
  <2> QED BY <2>1, <2>2 DEF Commits
<1>7. view' = [v |-> v, at |-> at, sum |-> projection.at, before |-> Before(view, v)]
  BY DEF UpdateArrives, ApplySseUpdate, Payload
<1>8. Before(view, v) \in 0..MaxVersion /\ (Before(view, v) # 0 => Before(view, v) # v)
  BY <1>6, BeforeDiffers
<1> HIDE DEF v, at
<1>9. /\ view' \in [v : 0..MaxVersion, at : Commits', sum : Commits', before : 0..MaxVersion]
      /\ ChecksumNotOlder' /\ BeforeIsAnother' /\ view'.sum = projection.at
  BY <1>4, <1>6, <1>7, <1>8, ShownIsView
<1>10. ShownInv'
  BY <1>1, <1>9 DEF PageInv, ShownInv
<1>11. LoadInv'
  BY <1>1, <1>4, <1>5 DEF PageInv, LoadInv
<1>12. view.sum <= projection.at
  BY ShownIsKnown DEF PageInv
<1> QED BY <1>4, <1>9, <1>10, <1>11, <1>12 DEF PageInv

\* closeStream leaves no stream open.
LEMMA CloseEndsStreams ==
    ASSUME ControlInv, StreamInv, PageInv, CloseStream
    PROVE  /\ handler' \in [Generations -> Handlers(Commits)]
           /\ \A g \in Generations : /\ handler'[g].pc \in {"none", "gone"}
                                     /\ Len(handler'[g].buf) <= SubscriberBuf
           /\ told' \in [Generations -> Nat] /\ leaked' \in [Generations -> 0..1]
<1>1. \A g \in Generations : handler'[g] = Gone \/ (g # generation /\ handler'[g] = handler[g])
  BY DEF CloseStream
<1>2. /\ Gone \in Handlers(Commits) /\ Gone.pc = "gone" /\ Gone.buf = <<>>
      /\ Len(<<>>) <= SubscriberBuf
  BY Nothing DEF ControlInv
<1>3. \A g \in Generations : /\ handler'[g] \in Handlers(Commits)
                             /\ handler'[g].pc \in {"none", "gone"}
                             /\ Len(handler'[g].buf) <= SubscriberBuf
  BY <1>1, <1>2 DEF StreamInv, PageInv, LoadInv
<1>4. handler' \in [Generations -> Handlers(Commits)]
  <2>1. handler' = [g \in Generations |-> handler'[g]]
    BY DEF CloseStream
  <2> QED BY <1>3, <2>1
<1>5. told' \in [Generations -> Nat]
  BY DEF CloseStream, StreamInv
<1>6. leaked' \in [Generations -> 0..1]
  BY SMT DEF CloseStream, StreamInv
<1> QED BY <1>3, <1>4, <1>5, <1>6

LEMMA LoadKeepsInv ==
    ASSUME IdentityInv, ControlInv, StreamInv, PageInv, NEW mode \in {"loading", "stale"},
           LoadAndConnect(mode), UNCHANGED <<projection, writer>>,
           mounted' \in BOOLEAN, view' = view \/ view' = EmptyProjectionView
    PROVE  StreamInv' /\ PageInv'
<1>1. /\ generation' = generation + 1 /\ generation < MaxGeneration
      /\ timer' = FALSE /\ CloseStream /\ connection' = mode
  BY DEF LoadAndConnect
<1>2. Commits' = Commits
  BY DEF Commits
<1> DEFINE y == [NoFetch EXCEPT !.pc = "sent", !.session = cookie]
<1>3. y \in Fetches(Commits) /\ y.pc = "sent"
  <2>1. cookie \in Logins \union {None}
    BY DEF IdentityInv, IdentityTypeOK
  <2>2. 0 \in Commits /\ 0 \in 0..MaxVersion
    BY Nothing, ControlsAssumption DEF ControlInv
  <2> QED BY <2>1, <2>2 DEF NoFetch, Fetches
<1>4. generation' \in Generations /\ generation' \in 0..MaxGeneration /\ generation \in Int
  <2>1. generation \in 0..MaxGeneration
    BY DEF PageInv, ShownInv
  <2> QED BY <1>1, <2>1, StreamAssumption DEF Generations
<1>5. fetch' = [fetch EXCEPT ![generation'] = y]
  BY <1>1 DEF LoadAndConnect
<1> HIDE DEF y
<1>6. /\ fetch' \in [Generations -> Fetches(Commits)] /\ fetch'[generation'].pc = "sent"
      /\ \A g \in Generations : g # generation' => fetch'[g] = fetch[g]
  BY <1>3, <1>4, <1>5 DEF StreamInv
<1>7. /\ handler' \in [Generations -> Handlers(Commits)]
      /\ \A g \in Generations : /\ handler'[g].pc \in {"none", "gone"}
                                /\ Len(handler'[g].buf) <= SubscriberBuf
      /\ told' \in [Generations -> Nat] /\ leaked' \in [Generations -> 0..1]
  BY <1>1, CloseEndsStreams
<1>8. StreamInv'
  BY <1>2, <1>6, <1>7 DEF StreamInv
<1>9. /\ view' \in [v : 0..MaxVersion, at : Commits', sum : Commits', before : 0..MaxVersion]
      /\ ChecksumNotOlder' /\ BeforeIsAnother'
  <2>1. CASE view' = view
    BY <1>2, <2>1 DEF PageInv, ShownInv, ChecksumNotOlder, BeforeIsAnother
  <2>2. CASE view' = EmptyProjectionView
    <3>1. 0 \in Commits /\ 0 \in 0..MaxVersion
      BY Nothing, ControlsAssumption DEF ControlInv
    <3>2. view' = [v |-> 0, at |-> 0, sum |-> 0, before |-> 0]
      BY <2>2 DEF EmptyProjectionView
    <3>3. view'.at = 0 /\ view'.sum = 0 /\ view'.before = 0
      BY <3>2
    <3> QED BY <1>2, <3>1, <3>2, <3>3 DEF ChecksumNotOlder, BeforeIsAnother
  <2> QED BY <2>1, <2>2
<1>10. \A g \in Generations : g > generation' => fetch'[g].pc = "none"
  <2>1. \A g \in Generations : g > generation' => g > generation /\ g # generation'
    BY <1>1, <1>4 DEF Generations
  <2> QED BY <1>6, <2>1 DEF PageInv, LoadInv
<1>11. timer' \in BOOLEAN /\ connection' \in {"loading", "live", "stale", "disconnected", "error"}
  BY <1>1
<1>12. ShownInv'
  BY <1>4, <1>9, <1>11 DEF ShownInv
<1>13. LoadInv'
  BY <1>6, <1>7, <1>10 DEF LoadInv
<1> QED BY <1>8, <1>12, <1>13 DEF PageInv

LEMMA LogoutKeepsInv ==
    ASSUME ControlInv, StreamInv, PageInv, NEW here \in BOOLEAN, Logout(here)
    PROVE  StreamInv' /\ PageInv' /\ UNCHANGED view
<1>1. UNCHANGED <<projection, writer, fetch, connection, view>>
  BY DEF Logout, serverVars
<1>2. Commits' = Commits
  BY <1>1 DEF Commits
<1>3. CASE here
  <2>1. /\ generation' = generation + 1 /\ generation < MaxGeneration
        /\ mounted' = FALSE /\ timer' = FALSE /\ CloseStream
    BY <1>3 DEF Logout
  <2>2. /\ handler' \in [Generations -> Handlers(Commits)]
        /\ \A g \in Generations : /\ handler'[g].pc \in {"none", "gone"}
                                  /\ Len(handler'[g].buf) <= SubscriberBuf
        /\ told' \in [Generations -> Nat] /\ leaked' \in [Generations -> 0..1]
    BY <2>1, CloseEndsStreams
  <2>3. StreamInv'
    BY <1>1, <1>2, <2>2 DEF StreamInv
  <2>4. generation' \in 0..MaxGeneration
    BY SMT, <2>1, StreamAssumption DEF PageInv, ShownInv
  <2>5. \A g \in Generations : g >= generation' => fetch'[g].pc = "none"
    <3>1. \A g \in Generations : g >= generation' => g > generation
      BY SMT, <2>1 DEF PageInv, ShownInv, Generations
    <3> QED BY <1>1, <3>1 DEF PageInv, LoadInv
  <2>6. mounted' \in BOOLEAN /\ timer' \in BOOLEAN
    BY <2>1
  <2>7. \A g \in Generations : g > generation' \/ g = generation' => g >= generation'
    BY <2>4 DEF Generations
  <2>8. ShownInv'
    BY <1>1, <1>2, <2>4, <2>6 DEF PageInv, ShownInv, ChecksumNotOlder, BeforeIsAnother
  <2>9. LoadInv'
    BY <2>2, <2>5, <2>7 DEF LoadInv
  <2> QED BY <1>1, <2>3, <2>8, <2>9 DEF PageInv
<1>4. CASE ~ here
  <2>1. UNCHANGED <<mounted, generation, timer, handler, told, leaked>>
    BY <1>4 DEF Logout, streamVars
  <2>2. StreamInv'
    BY <1>1, <1>2, <2>1 DEF StreamInv
  <2>3. ShownInv' /\ LoadInv'
    BY <1>1, <1>2, <2>1 DEF PageInv, ShownInv, LoadInv, ChecksumNotOlder, BeforeIsAnother
  <2> QED BY <1>1, <2>2, <2>3 DEF PageInv
<1> QED BY <1>3, <1>4

\* The answer to a snapshot request reaches the page.
LEMMA ArrivalKeepsInv ==
    ASSUME IdentityInv, ControlInv, StreamInv, PageInv, NEW g \in Generations, SnapshotArrives(g),
           UNCHANGED <<identityVars, troubles, serverVars, mounted, generation, timer>>
    PROVE  StreamInv' /\ PageInv' /\ view.sum <= view'.sum
<1>0. /\ NoFetch \in Fetches(Commits) /\ NoFetch.pc = "none"
      /\ NoHandler.buf = <<>> /\ Len(<<>>) <= SubscriberBuf
  BY Nothing DEF ControlInv
<1>1. /\ UNCHANGED <<projection, writer, told, leaked, mounted, generation, timer>>
      /\ fetch[g].pc \in {"ok", "failed"}
      /\ fetch' = [fetch EXCEPT ![g] = NoFetch]
  BY DEF SnapshotArrives, serverVars
<1>2. Commits' = Commits
  BY <1>1 DEF Commits
<1>3. /\ fetch' \in [Generations -> Fetches(Commits)] /\ fetch'[g].pc = "none"
      /\ \A k \in Generations \ {g} : fetch'[k] = fetch[k]
  BY <1>0, <1>1 DEF StreamInv
<1>4. view.sum \in Nat
  BY ShownIsKnown DEF PageInv
<1>5. CASE g = generation /\ fetch[g].pc = "ok"
  <2> DEFINE y == [NoHandler EXCEPT !.pc = "connect", !.session = cookie]
  <2>1. y \in Handlers(Commits) /\ y.pc = "connect" /\ Len(y.buf) <= SubscriberBuf
    <3>1. cookie \in Logins \union {None}
      BY DEF IdentityInv, IdentityTypeOK
    <3>2. <<>> \in Seq(Updates(Commits)) /\ 0 \in Commits /\ NoUpdate \in Updates(Commits)
      <4>1. <<>> \in Seq(Updates(Commits))
        OBVIOUS
      <4> QED BY <4>1, Nothing DEF ControlInv
    <3> QED BY <1>0, <3>1, <3>2 DEF NoHandler, Handlers
  <2>2. /\ handler' = [handler EXCEPT ![g] = y] /\ UNCHANGED connection
        /\ view' = ApplySnapshot(view, fetch[g])
    BY <1>5 DEF SnapshotArrives
  <2> HIDE DEF y
  <2>3. /\ \A k \in Generations : fetch'[k].pc = "ok" => fetch'[k] = fetch[k]
        /\ leaked' \in [Generations -> 0..1]
    BY <1>1, <1>3 DEF StreamInv
  <2>4. /\ StreamInv'
        /\ handler'[g] = y /\ \A k \in Generations \ {g} : handler'[k] = handler[k]
    BY <1>1, <1>3, <2>1, <2>2, <2>3, HandlerMoves
  <2> DEFINE v == fetch[g].v
             b == IF v = 0 THEN 0 ELSE Before(view, v)
  <2>5. /\ v \in 0..MaxVersion /\ fetch[g].at \in Commits /\ fetch[g].sum \in Commits
        /\ fetch[g].at <= fetch[g].sum
    BY <1>5 DEF StreamInv, Fetches
  <2>6. b \in 0..MaxVersion /\ (b # 0 => b # v)
    BY <2>5, BeforeDiffers, ControlsAssumption
  <2>7. view' = [v |-> v, at |-> fetch[g].at, sum |-> fetch[g].sum, before |-> b]
    BY <2>2 DEF ApplySnapshot
  <2> HIDE DEF v, b
  <2>8. /\ view' \in [v : 0..MaxVersion, at : Commits', sum : Commits', before : 0..MaxVersion]
        /\ ChecksumNotOlder' /\ BeforeIsAnother' /\ view'.sum = fetch[g].sum
    <3> DEFINE at == fetch[g].at
               sum == fetch[g].sum
    <3>1. /\ v \in 0..MaxVersion /\ at \in Commits /\ sum \in Commits /\ at <= sum
          /\ b \in 0..MaxVersion /\ (b # 0 => b # v)
          /\ view' = [v |-> v, at |-> at, sum |-> sum, before |-> b]
      BY <2>5, <2>6, <2>7
    <3> HIDE DEF at, sum
    <3>2. /\ view' \in [v : 0..MaxVersion, at : Commits', sum : Commits', before : 0..MaxVersion]
          /\ ChecksumNotOlder' /\ BeforeIsAnother' /\ view'.sum = sum
      BY <1>2, <3>1, ShownIsView
    <3> QED BY <3>2 DEF sum
  <2>9. view.sum <= fetch[g].sum
    BY <1>5 DEF PageInv, LoadInv
  <2>10. ShownInv'
    BY <1>1, <2>2, <2>8 DEF PageInv, ShownInv
  <2>11. LoadInv'
    BY ZenonT(60), <1>1, <1>3, <1>5, <2>4 DEF PageInv, LoadInv
  <2> QED BY <2>4, <2>8, <2>9, <2>10, <2>11 DEF PageInv
<1>6. CASE ~ (g = generation /\ fetch[g].pc = "ok")
  <2>1. UNCHANGED <<view, handler>> /\ connection' \in {connection, "error"}
    BY <1>1, <1>6 DEF SnapshotArrives
  <2>2. StreamInv'
    BY <1>1, <1>2, <1>3, <2>1 DEF StreamInv
  <2>3. ShownInv'
    BY <1>1, <1>2, <2>1 DEF PageInv, ShownInv, ChecksumNotOlder, BeforeIsAnother
  <2>4. LoadInv'
    BY ZenonT(60), <1>1, <1>3, <2>1 DEF PageInv, LoadInv
  <2> QED BY <1>4, <2>1, <2>2, <2>3, <2>4 DEF PageInv
<1> QED BY <1>5, <1>6

\* A stream opens, is refused, or ends.
LEMMA StreamKeepsInv ==
    ASSUME ControlInv, StreamInv, PageInv, NEW g \in Generations,
           \/ StreamOpens(g) /\ UNCHANGED <<serverVars, mounted, generation, timer>>
           \/ StreamEnds(g)
    PROVE  StreamInv' /\ PageInv' /\ UNCHANGED view
<1> USE Nothing DEF ControlInv
<1>1. /\ UNCHANGED <<projection, writer, fetch, told, leaked, mounted, generation, view>>
      /\ handler[g].pc \notin {"none", "gone"} \/ g = generation
      /\ timer' \in {timer, TRUE} /\ connection' \in {connection, "live", "disconnected"}
  BY DEF StreamOpens, StreamEnds, serverVars
<1>2. PICK h \in Handlers(Commits) :
          /\ handler' = [handler EXCEPT ![g] = h] /\ Len(h.buf) <= SubscriberBuf /\ h.pc # "send"
          /\ h.pc = "gone" \/ handler[g].pc = "connect"
  <2>1. handler[g] \in Handlers(Commits) /\ Len(handler[g].buf) <= SubscriberBuf
    BY DEF StreamInv
  <2>2. CASE handler' = [handler EXCEPT ![g].pc = "flushed"] /\ handler[g].pc = "connect"
    <3> DEFINE y == [handler[g] EXCEPT !.pc = "flushed"]
    <3>1. y \in Handlers(Commits) /\ y.pc = "flushed" /\ y.buf = handler[g].buf
      BY <2>1 DEF Handlers
    <3>2. handler' = [handler EXCEPT ![g] = y]
      BY <2>2
    <3> HIDE DEF y
    <3> QED BY <2>1, <2>2, <3>1, <3>2
  <2>3. CASE handler' = [handler EXCEPT ![g] = Ended] /\ handler[g].pc = "connect"
    BY <2>3
  <2>4. CASE handler' = [handler EXCEPT ![g] = Gone]
    BY <2>4
  <2> QED BY <2>2, <2>3, <2>4 DEF StreamOpens, StreamEnds
<1>3. /\ fetch' \in [Generations -> Fetches(Commits)] /\ leaked' \in [Generations -> 0..1]
      /\ \A k \in Generations : fetch'[k].pc = "ok" => fetch'[k] = fetch[k]
  BY <1>1 DEF StreamInv
<1>4. /\ StreamInv' /\ Commits' = Commits
      /\ handler'[g] = h /\ \A k \in Generations \ {g} : handler'[k] = handler[k]
  BY <1>1, <1>2, <1>3, HandlerMoves
<1>5. g = generation
  BY <1>1 DEF PageInv, LoadInv
<1>6. h.pc = "gone" \/ fetch[g].pc = "none"
  BY <1>2 DEF PageInv, LoadInv
<1>7. timer' \in BOOLEAN /\ connection' \in {"loading", "live", "stale", "disconnected", "error"}
  BY <1>1 DEF PageInv, ShownInv
<1>8. ShownInv'
  BY <1>1, <1>4, <1>7 DEF PageInv, ShownInv, ChecksumNotOlder, BeforeIsAnother
<1>9. LoadInv'
  BY <1>1, <1>4, <1>5, <1>6 DEF PageInv, LoadInv
<1> QED BY <1>1, <1>4, <1>8, <1>9 DEF PageInv

\* A restart ends every request, and no stream that had ended comes back.
LEMMA RestartKeepsInv ==
    ASSUME ControlInv, StreamInv, PageInv, Restart
    PROVE  StreamInv' /\ PageInv' /\ UNCHANGED view
<1>0. /\ NoUpdate \in Updates(Commits) /\ Len(<<>>) <= SubscriberBuf
      /\ Ended \in Handlers(Commits) /\ Ended.pc = "ended" /\ Ended.buf = <<>>
  BY Nothing DEF ControlInv
<1>1. UNCHANGED <<projection, told, leaked, mounted, generation, connection, view, timer>>
  BY DEF Restart, ControlsRestart, StreamRestart, consoleVars
<1>2. Commits' = Commits
  BY <1>1 DEF Commits
<1>3. writer' \in [Writers -> Updates(Commits)]
  BY <1>0 DEF Restart, ControlsRestart
<1>4. \A g \in Generations : handler'[g] = handler[g] \/ handler'[g] = Ended
  BY DEF Restart, StreamRestart
<1>5. handler' = [g \in Generations |-> handler'[g]]
  BY DEF Restart, StreamRestart
<1>6. \A g \in Generations : /\ handler'[g] \in Handlers(Commits)
                             /\ Len(handler'[g].buf) <= SubscriberBuf
                             /\ handler'[g].pc = "send" => handler[g].pc = "send"
                             /\ handler[g].pc \in {"none", "gone"} => handler'[g] = handler[g]
  BY <1>0, <1>4 DEF Restart, StreamRestart, StreamInv
<1>7. handler' \in [Generations -> Handlers(Commits)]
  BY <1>5, <1>6
<1>8. \A g \in Generations : /\ fetch'[g] \in Fetches(Commits)
                             /\ fetch'[g].pc = "ok" => fetch'[g] = fetch[g]
                             /\ (fetch'[g].pc = "none") <=> (fetch[g].pc = "none")
  <2> TAKE g \in Generations
  <2>1. fetch[g] \in Fetches(Commits)
    BY DEF StreamInv
  <2>2. /\ [fetch[g] EXCEPT !.pc = "failed"] \in Fetches(Commits)
        /\ [fetch[g] EXCEPT !.pc = "failed"].pc = "failed"
    BY <2>1 DEF Fetches
  <2>3. CASE fetch[g].pc \in {"sent", "rows"}
    BY <2>2, <2>3 DEF Restart, StreamRestart
  <2>4. CASE fetch[g].pc \notin {"sent", "rows"}
    BY <2>1, <2>4 DEF Restart, StreamRestart
  <2> QED BY <2>3, <2>4
<1>9. fetch' \in [Generations -> Fetches(Commits)]
  <2>1. fetch' = [g \in Generations |-> fetch'[g]]
    BY DEF Restart, StreamRestart
  <2> QED BY <1>8, <2>1
<1>10. StreamInv'
  BY <1>1, <1>2, <1>3, <1>6, <1>7, <1>8, <1>9 DEF StreamInv
<1>11. ShownInv'
  BY <1>1, <1>2 DEF PageInv, ShownInv, ChecksumNotOlder, BeforeIsAnother
<1>12. LoadInv'
  BY <1>1, <1>6, <1>8 DEF PageInv, LoadInv
<1> QED BY <1>1, <1>10, <1>11, <1>12 DEF PageInv

ConsoleInv == IdentityInv /\ ControlInv /\ StreamInv /\ PageInv

\* One step, and what it may do to the checksum on the page.
LEMMA ConsoleMoves ==
    ASSUME ConsoleInv, ControlInv', [Next]_vars
    PROVE  StreamInv' /\ PageInv' /\ (mounted /\ mounted' => view.sum <= view'.sum)
<1> USE DEF ConsoleInv
<1>0. view.sum \in Nat
  BY ShownIsKnown DEF PageInv
<1>1. CASE IdentityStep \/ UNCHANGED vars
  <2>1. UNCHANGED view
    BY <1>1 DEF IdentityStep, consoleVars, vars
  <2> QED BY <1>0, <1>1, <2>1, IdleKeepsInv
<1>2. CASE ControlStep
  <2>1. UNCHANGED view
    BY <1>2 DEF ControlStep, consoleVars
  <2> QED BY <1>0, <1>2, <2>1, CommitKeepsInv
<1>3. CASE ServerStep
  <2>1. ASSUME NEW w \in Writers, Notify(w), UNCHANGED <<identityVars, controlVars, consoleVars>>
        PROVE  StreamInv' /\ PageInv' /\ UNCHANGED view
    BY <2>1, NotifyKeepsInv DEF consoleVars
  <2>2. ASSUME NEW g \in Generations, HandleSnapshot(g), UNCHANGED <<identityVars, serverVars, consoleVars>>
        PROVE  StreamInv' /\ PageInv' /\ UNCHANGED view
    BY <2>2, SnapshotKeepsInv DEF consoleVars
  <2>3. ASSUME NEW g \in Generations, Serve(g), UNCHANGED <<identityVars, controlVars, consoleVars>>
        PROVE  StreamInv' /\ PageInv' /\ UNCHANGED view
    BY <2>3, ServeKeepsInv DEF consoleVars
  <2>4. ASSUME NEW g \in Generations, UpdateArrives(g),
               UNCHANGED <<identityVars, serverVars, mounted, generation, timer>>
        PROVE  StreamInv' /\ PageInv' /\ view.sum <= view'.sum
    BY <2>4, UpdateKeepsInv
  <2>5. StreamInv' /\ PageInv' /\ (UNCHANGED view \/ view.sum <= view'.sum)
    BY <1>3, <2>1, <2>2, <2>3, <2>4 DEF ServerStep
  <2> QED BY <1>0, <2>5
<1>4. CASE OpenConsole
  <2>1. LoadAndConnect("loading") /\ ~ mounted /\ mounted' = TRUE /\ view' = EmptyProjectionView
        /\ UNCHANGED <<projection, writer>>
    BY <1>4 DEF OpenConsole, serverVars
  <2> QED BY <2>1, LoadKeepsInv
<1>5. CASE Remount \/ TimerFires
  <2>1. /\ LoadAndConnect("loading") \/ LoadAndConnect("stale")
        /\ UNCHANGED <<projection, writer, mounted, view>>
    BY <1>5 DEF Remount, TimerFires, serverVars
  <2>2. mounted' \in BOOLEAN
    BY <2>1 DEF PageInv, ShownInv
  <2> QED BY <1>0, <2>1, <2>2, LoadKeepsInv
<1>6. CASE \E here \in BOOLEAN : Logout(here)
  BY <1>0, <1>6, LogoutKeepsInv
<1>7. CASE \E g \in Generations : Load(g) \/ StreamEnds(g)
  <2>1. ASSUME NEW g \in Generations, Load(g) \/ StreamEnds(g)
        PROVE  StreamInv' /\ PageInv' /\ view.sum <= view'.sum
    BY <1>0, <2>1, ArrivalKeepsInv, StreamKeepsInv DEF Load
  <2> QED BY <1>7, <2>1
<1>8. CASE Restart
  BY <1>0, <1>8, RestartKeepsInv
<1> QED BY <1>1, <1>2, <1>3, <1>4, <1>5, <1>6, <1>7, <1>8 DEF Next, ConsoleStep

LEMMA ConsoleInductive == Spec => []ConsoleInv
<1>1. Init => StreamInv /\ PageInv
  BY StreamInitHolds
<1>2. ConsoleInv /\ ControlInv' /\ [Next]_vars => StreamInv' /\ PageInv'
  BY ConsoleMoves
<1> QED BY <1>1, <1>2, IdentityInductive, ControlInductive, PTL DEF Spec, ConsoleInv

-----------------------------------------------------------------------------
(* The theorems about the page.                                            *)

\* The state of the console, the API, the controls and identity keeps its types.
THEOREM TypeCorrect == Spec => []TypeOK
<1>1. ConsoleInv => TypeOK
  <2> SUFFICES ASSUME ConsoleInv PROVE TypeOK
    OBVIOUS
  <2>1. IdentityTypeOK /\ ControlsTypeOK
    BY DEF ConsoleInv, IdentityInv, ControlInv
  <2>2. Commits \subseteq Nat
    BY DEF Commits
  <2>3. Fetches(Commits) \subseteq Fetches(Nat) /\ Handlers(Commits) \subseteq Handlers(Nat)
    BY <2>2, KnownGrows
  <2>4. StreamTypeOK
    BY SMT, <2>3 DEF ConsoleInv, StreamInv, StreamTypeOK
  <2> QED BY <2>1, <2>2, <2>4 DEF ConsoleInv, PageInv, ShownInv, TypeOK
<1> QED BY <1>1, ConsoleInductive, PTL

\* A stream sends at most one update after its session or its role is gone
\* (stillAllowed in handleSSE), for any buffer and any number of streams.
THEOREM AtMostOneLateUpdateHolds == Spec => []AtMostOneLateUpdate
<1>1. ConsoleInv => AtMostOneLateUpdate
  BY SMT DEF ConsoleInv, StreamInv, AtMostOneLateUpdate
<1> QED BY <1>1, ConsoleInductive, PTL

\* The checksum shown is never older than the item shown with it (loadSnapshot,
\* projectionUpdatedPayload).
THEOREM ChecksumNotOlderHolds == Spec => []ChecksumNotOlder
<1>1. ConsoleInv => ChecksumNotOlder
  BY DEF ConsoleInv, PageInv, ShownInv
<1> QED BY <1>1, ConsoleInductive, PTL

\* The quantity shown as the one before is never the one shown now
\* (toDisplayItem).
THEOREM BeforeIsAnotherHolds == Spec => []BeforeIsAnother
<1>1. ConsoleInv => BeforeIsAnother
  BY DEF ConsoleInv, PageInv, ShownInv
<1> QED BY <1>1, ConsoleInductive, PTL

\* The checksum on a mounted page never goes back (the generation guard of
\* loadAndConnect).
THEOREM ChecksumMovesForwardHolds == Spec => ChecksumMovesForward
<1>1. ConsoleInv /\ ControlInv' /\ [Next]_vars =>
         [mounted /\ mounted' => view.sum <= view'.sum]_vars
  BY ConsoleMoves
<1>2. ConsoleInv => ControlInv
  BY DEF ConsoleInv
<1> QED BY <1>1, <1>2, ConsoleInductive, ControlInductive, PTL DEF Spec, ChecksumMovesForward

=============================================================================
