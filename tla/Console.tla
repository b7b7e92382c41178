------------------------------ MODULE Console -------------------------------
(***************************************************************************)
(* The web console (src/web/src): it signs in, loads a snapshot, follows   *)
(* the event stream, and reloads after an interruption.  Composed with the *)
(* API, the controls and identity, this is the whole path from a commit of *)
(* the projection to what an operator sees.                                *)
(*                                                                         *)
(* The browser handles at once what the server writes: a slow browser is a *)
(* slow stream handler.                                                    *)
(***************************************************************************)
EXTENDS ProjectionStream

VARIABLES
    mounted,     \* the authenticated view is on the page
    generation,  \* generationRef
    connection,  \* the connection state shown
    view,        \* the item shown: version, commit, checksum, version before
    timer        \* a reconnect is scheduled

consoleVars == <<mounted, generation, connection, view, timer>>
serverVars == <<projection, writer, controlVars>>
vars == <<identityVars, troubles, serverVars, fetch, streamVars, consoleVars>>

EmptyProjectionView == [v |-> 0, at |-> 0, sum |-> 0, before |-> 0]

Init ==
    /\ IdentityInit /\ ControlsInit /\ StreamInit
    /\ mounted = FALSE /\ generation = 0 /\ connection = "loading"
    /\ view = EmptyProjectionView
    /\ timer = FALSE

-----------------------------------------------------------------------------
(* projectionStore.ts.  A quantity is named by its version: every event     *)
(* changes it.                                                             *)

\* toDisplayItem.
Before(prior, v) ==
    IF prior.v = 0 THEN 0
    ELSE IF prior.v = v THEN prior.before
    ELSE prior.v

ApplySnapshot(prior, snapshot) ==
    [v |-> snapshot.v, at |-> snapshot.at, sum |-> snapshot.sum,
     before |-> IF snapshot.v = 0 THEN 0 ELSE Before(prior, snapshot.v)]

\* Mutant: an update of an item already on the page is taken for a duplicate.
ApplySseUpdateOnce(prior, update) ==
    IF prior.v # 0 THEN [prior EXCEPT !.sum = update.sum]
    ELSE [v |-> update.v, at |-> update.at, sum |-> update.sum, before |-> 0]

\* No version is compared: the update replaces what is shown.
ApplySseUpdate(prior, update) ==
    [v |-> update.v, at |-> update.at, sum |-> update.sum, before |-> Before(prior, update.v)]

-----------------------------------------------------------------------------
(* useInventoryProjection.ts.                                              *)

\* closeStream: the handler's request context is cancelled.
CloseStream ==
    /\ handler' = [g \in Generations |-> IF g = generation THEN Gone ELSE handler[g]]
    /\ told' = [g \in Generations |-> IF g = generation THEN 0 ELSE told[g]]
    /\ leaked' = [g \in Generations |-> IF g = generation THEN 0 ELSE leaked[g]]

LoadAndConnect(mode) ==
    /\ generation < MaxGeneration
    /\ generation' = generation + 1
    /\ timer' = FALSE
    /\ CloseStream
    /\ connection' = mode
    /\ fetch' = [fetch EXCEPT ![generation + 1] = [NoFetch EXCEPT !.pc = "sent", !.session = cookie]]

\* useSession found a session: the view mounts.
OpenConsole ==
    /\ ~ mounted /\ Session(cookie)
    /\ LoadAndConnect("loading")
    /\ mounted' = TRUE /\ view' = EmptyProjectionView
    /\ UNCHANGED <<identityVars, troubles, serverVars>>

\* The effect is cleaned up and runs again, as it does under StrictMode.
Remount ==
    /\ mounted /\ Trouble
    /\ LoadAndConnect("loading")
    /\ UNCHANGED <<identityVars, serverVars, mounted, view>>

\* Logout from this page unmounts the view; from another tab it does not.
Logout(here) ==
    /\ HandleLogout
    /\ IF here
       THEN /\ mounted /\ generation < MaxGeneration
            /\ mounted' = FALSE /\ generation' = generation + 1
            /\ timer' = FALSE /\ CloseStream
       ELSE UNCHANGED <<mounted, generation, timer, streamVars>>
    /\ UNCHANGED <<serverVars, fetch, connection, view>>

\* Mutant: the answer of an earlier load is applied too.
SnapshotArrivesLate(g) ==
    /\ mounted /\ fetch[g].pc = "ok"
    /\ fetch' = [fetch EXCEPT ![g] = NoFetch]
    /\ view' = ApplySnapshot(view, fetch[g])
    /\ handler' = [handler EXCEPT ![g] = [NoHandler EXCEPT !.pc = "connect", !.session = cookie]]
    /\ UNCHANGED <<connection, told, leaked>>

\* An answer of an earlier generation is ignored; a failure is not retried.
SnapshotArrives(g) ==
    /\ fetch[g].pc \in {"ok", "failed"}
    /\ fetch' = [fetch EXCEPT ![g] = NoFetch]
    /\ IF g # generation THEN UNCHANGED <<view, connection, handler>>
       ELSE IF fetch[g].pc = "ok"
       THEN /\ view' = ApplySnapshot(view, fetch[g])
            /\ handler' = [handler EXCEPT ![g] = [NoHandler EXCEPT !.pc = "connect", !.session = cookie]]
            /\ UNCHANGED connection
       ELSE connection' = "error" /\ UNCHANGED <<view, handler>>
    /\ UNCHANGED <<told, leaked>>

\* The stream request: refused, or its headers are flushed and onOpen runs.
StreamOpens(g) ==
    /\ handler[g].pc = "connect"
    /\ IF MayRead(handler[g].session)
       THEN /\ handler' = [handler EXCEPT ![g].pc = "flushed"]
            /\ connection' = IF g = generation THEN "live" ELSE connection
       ELSE /\ handler' = [handler EXCEPT ![g] = Ended]
            /\ UNCHANGED connection
    /\ UNCHANGED <<fetch, told, leaked, view>>

UpdateArrives(g) ==
    /\ Send(g)
    /\ view' = ApplySseUpdate(view, Payload(g))
    /\ connection' = "live"
    /\ UNCHANGED fetch

Load(g) ==
    /\ SnapshotArrives(g) \/ StreamOpens(g)
    /\ UNCHANGED <<identityVars, troubles, serverVars, mounted, generation, timer>>

\* onerror: the handler returned, or the connection is cut.
StreamEnds(g) ==
    /\ g = generation
    /\ \/ handler[g].pc = "ended" /\ UNCHANGED troubles
       \/ handler[g].pc \in {"connect", "flushed", "loop", "send"} /\ Trouble
    /\ handler' = [handler EXCEPT ![g] = Gone]
    /\ connection' = "disconnected" /\ timer' = TRUE
    /\ UNCHANGED <<identityVars, serverVars, fetch, told, leaked, mounted, generation, view>>

TimerFires ==
    /\ timer
    /\ LoadAndConnect("stale")
    /\ UNCHANGED <<identityVars, troubles, serverVars, mounted, view>>

-----------------------------------------------------------------------------
(* The system.                                                             *)

IdentityStep ==
    /\ \/ \E l \in Logins : \/ HandleLogin(l) \/ HandleCallback(l) \/ FinishCallback(l)
                            \/ PendingExpires(l) \/ SessionExpires(l)
       \/ \E role \in Roles : Assign(role)
       \/ Clear
    /\ UNCHANGED <<serverVars, fetch, streamVars, consoleVars>>

ControlStep ==
    /\ \/ \E kind \in Kinds : mounted /\ RequestControl(kind)
       \/ RecordDecision \/ RunControl \/ ControlCommits \/ AnswerControl
       \/ ConsumerCommits
    /\ UNCHANGED <<identityVars, fetch, streamVars, consoleVars>>

\* The API at work on requests already made.
ServerStep ==
    \/ /\ \E w \in Writers : Notify(w)
       /\ UNCHANGED <<identityVars, controlVars, consoleVars>>
    \/ \E g \in Generations :
         \/ HandleSnapshot(g) /\ UNCHANGED <<identityVars, serverVars, consoleVars>>
         \/ Serve(g) /\ UNCHANGED <<identityVars, controlVars, consoleVars>>
         \/ UpdateArrives(g) /\ UNCHANGED <<identityVars, serverVars, mounted, generation, timer>>

ConsoleStep ==
    \/ OpenConsole \/ Remount \/ TimerFires
    \/ \E here \in BOOLEAN : Logout(here)
    \/ \E g \in Generations : Load(g) \/ StreamEnds(g)

Restart ==
    /\ Trouble
    /\ IdentityRestart /\ ControlsRestart /\ StreamRestart
    /\ UNCHANGED consoleVars

Next == IdentityStep \/ ControlStep \/ ServerStep \/ ConsoleStep \/ Restart

\* A request being served, a browser event and a timer that is due do not wait
\* for ever.  Nobody has to sign in, and no event has to come.
Progress ==
    \/ ServerStep \/ TimerFires
    \/ \E g \in Generations : Load(g) \/ StreamEnds(g)

Spec == Init /\ [][Next]_vars /\ WF_vars(Progress)

-----------------------------------------------------------------------------
TypeOK ==
    /\ IdentityTypeOK /\ ControlsTypeOK /\ StreamTypeOK
    /\ mounted \in BOOLEAN /\ timer \in BOOLEAN
    /\ generation \in 0..MaxGeneration
    /\ connection \in {"loading", "live", "stale", "disconnected", "error"}
    /\ view \in [v : 0..MaxVersion, at : Nat, sum : Nat, before : 0..MaxVersion]

\* The checksum on the page is never of an older projection than the item it is
\* shown with, though a snapshot reads them apart and an update reads its
\* checksum when it is sent (loadSnapshot, projectionUpdatedPayload).
ChecksumNotOlder == view.at <= view.sum

\* The quantity shown as "before" is never the one shown now: an update that
\* repeats the snapshot invents no transition (toDisplayItem).
BeforeIsAnother == view.before # 0 => view.before # view.v

\* While the view is mounted, the checksum on the page is never replaced by one
\* read earlier: answers of an abandoned load and closed streams change nothing
\* (the generation guard of loadAndConnect).
ChecksumMovesForward ==
    [][mounted /\ mounted' => view.sum <= view'.sum]_vars

\* If the stream stays live and the last thing queued for it, snapshot or update,
\* is of the latest commit, the page ends up showing that commit.  What a full
\* buffer drops, what is notified before the subscription, and what a reset
\* removes is exactly what a live page may never show.
LivePageCatchesUp ==
    <>[](connection = "live" /\ mounted /\ told[generation] = projection.at)
        => <>[](view.v = projection.v)

Serving == generation > 0 /\ handler[generation].pc \in {"loop", "send"}
Revoked == Serving /\ ~ MayRead(handler[generation].session)

\* A stream whose session or role is gone is ended by its next update or
\* heartbeat, unless access comes back (handleSSE): Revoked ~> ~ Revoked.
RevokedStreamEnds == []<>~ Revoked

=============================================================================
