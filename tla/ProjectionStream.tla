-------------------------- MODULE ProjectionStream --------------------------
(***************************************************************************)
(* What the API serves of the projection (src/api): the REST snapshot, the *)
(* hub that fans out committed updates, and the handler of an event        *)
(* stream.  A request is named by the generation of the console that made  *)
(* it.                                                                     *)
(***************************************************************************)
EXTENDS Controls

CONSTANTS
    MaxGeneration,  \* model bound on loads of the console
    SubscriberBuf   \* updates the hub keeps for a slow stream

ASSUME StreamAssumption ==
    MaxGeneration \in Nat \ {0} /\ SubscriberBuf \in Nat \ {0}

VARIABLES
    fetch,    \* snapshot requests: pc, session, rows and checksum read
    handler,  \* stream handlers: pc, session, buffered updates, the one in hand
    told,     \* history: commit of the last snapshot row or update queued
    leaked    \* history: updates sent since access ended

streamVars == <<handler, told, leaked>>

Generations == 1..MaxGeneration
NoFetch == [pc |-> "none", session |-> None, v |-> 0, at |-> 0, sum |-> 0]
NoHandler == [pc |-> "none", session |-> None, subscribed |-> FALSE, buf |-> <<>>, update |-> NoUpdate]

StreamInit ==
    /\ fetch = [g \in Generations |-> NoFetch]
    /\ handler = [g \in Generations |-> NoHandler]
    /\ told = [g \in Generations |-> 0]
    /\ leaked = [g \in Generations |-> 0]

\* RequireSession and authorizeInventoryRead; stillAllowed asks the same again.
MayRead(session) == Session(session) /\ Allow("inventory")

-----------------------------------------------------------------------------
(* GET inventory: the rows and the checksum are two reads.                 *)

\* Mutant: the checksum is read before the rows.
SnapshotRowsLast(g) ==
    \/ /\ fetch[g].pc = "sent" /\ MayRead(fetch[g].session)
       /\ fetch' = [fetch EXCEPT ![g].pc = "rows", ![g].sum = projection.at]
       /\ UNCHANGED <<told, troubles>>
    \/ /\ fetch[g].pc = "rows"
       /\ fetch' = [fetch EXCEPT ![g].pc = "ok", ![g].v = projection.v, ![g].at = projection.at]
       /\ told' = [told EXCEPT ![g] = projection.at]
       /\ UNCHANGED troubles

LoadSnapshot(g) ==
    \/ /\ fetch[g].pc = "sent" /\ MayRead(fetch[g].session)
       /\ fetch' = [fetch EXCEPT ![g].pc = "rows", ![g].v = projection.v, ![g].at = projection.at]
       /\ told' = [told EXCEPT ![g] = projection.at]
       /\ UNCHANGED troubles
    \/ /\ fetch[g].pc = "rows"
       /\ fetch' = [fetch EXCEPT ![g].pc = "ok", ![g].sum = projection.at]
       /\ UNCHANGED <<told, troubles>>

\* 401, 403 or snapshot_failed.
RefuseSnapshot(g) ==
    /\ fetch[g].pc \in {"sent", "rows"}
    /\ \/ fetch[g].pc = "sent" /\ ~ MayRead(fetch[g].session) /\ UNCHANGED troubles
       \/ Trouble
    /\ fetch' = [fetch EXCEPT ![g].pc = "failed"]
    /\ UNCHANGED told

HandleSnapshot(g) ==
    /\ LoadSnapshot(g) \/ RefuseSnapshot(g)
    /\ UNCHANGED <<handler, leaked>>

-----------------------------------------------------------------------------
(* The hub.                                                                *)

\* A full buffer drops the update.
NotifyApplied(update) ==
    LET hears == {g \in Generations : handler[g].subscribed /\ Len(handler[g].buf) < SubscriberBuf}
    IN  /\ handler' = [g \in Generations |->
                         IF g \in hears
                         THEN [handler[g] EXCEPT !.buf = Append(@, update)]
                         ELSE handler[g]]
        /\ told' = [g \in Generations |-> IF g \in hears THEN update.at ELSE told[g]]

Notify(w) ==
    /\ writer[w] # NoUpdate
    /\ NotifyApplied(writer[w])
    /\ writer' = [writer EXCEPT ![w] = NoUpdate]
    /\ UNCHANGED <<projection, fetch, leaked, troubles>>

\* Every way out of the handler runs the deferred cancel of the subscription.
Ended == [NoHandler EXCEPT !.pc = "ended"]
Gone == [NoHandler EXCEPT !.pc = "gone"]

-----------------------------------------------------------------------------
(* GET inventory/stream.  The browser sees the stream open when the headers *)
(* are flushed, which is before the subscription.                          *)

Subscribe(g) ==
    /\ handler[g].pc = "flushed"
    /\ handler' = [handler EXCEPT ![g].pc = "loop", ![g].subscribed = TRUE]
    /\ UNCHANGED <<told, leaked, troubles>>

\* Mutant: only the heartbeat checks the session again.
TakeUpdateUnchecked(g) ==
    /\ handler[g].pc = "loop" /\ handler[g].buf # <<>>
    /\ handler' = [handler EXCEPT ![g].pc = "send", ![g].update = Head(handler[g].buf),
                                  ![g].buf = Tail(@)]
    /\ UNCHANGED <<told, leaked, troubles>>

TakeUpdate(g) ==
    /\ handler[g].pc = "loop" /\ handler[g].buf # <<>>
    /\ IF MayRead(handler[g].session)
       THEN /\ handler' = [handler EXCEPT ![g].pc = "send", ![g].update = Head(handler[g].buf),
                                          ![g].buf = Tail(@)]
            /\ leaked' = [leaked EXCEPT ![g] = 0]
       ELSE /\ handler' = [handler EXCEPT ![g] = Ended]
            /\ UNCHANGED leaked
    /\ UNCHANGED <<told, troubles>>

\* Mutant: the heartbeat is sent without asking again.
HeartbeatUnchecked(g) == handler[g].pc = "loop" /\ UNCHANGED <<streamVars, troubles>>

Heartbeat(g) ==
    /\ handler[g].pc = "loop" /\ ~ MayRead(handler[g].session)
    /\ handler' = [handler EXCEPT ![g] = Ended]
    /\ UNCHANGED <<told, leaked, troubles>>

\* The checksum of an update cannot be read, or the write fails.
SendFails(g) ==
    /\ handler[g].pc = "send" /\ Trouble
    /\ handler' = [handler EXCEPT ![g] = Ended]
    /\ UNCHANGED <<told, leaked>>

Serve(g) ==
    /\ Subscribe(g) \/ TakeUpdate(g) \/ Heartbeat(g) \/ SendFails(g)
    /\ UNCHANGED <<writer, projection, fetch>>

\* projectionUpdatedPayload reads the checksum when the update is sent.
Payload(g) == [v |-> handler[g].update.v, at |-> handler[g].update.at, sum |-> projection.at]

Send(g) ==
    /\ handler[g].pc = "send"
    /\ handler' = [handler EXCEPT ![g].pc = "loop", ![g].update = NoUpdate]
    /\ leaked' = [leaked EXCEPT ![g] = IF MayRead(handler[g].session) THEN 0 ELSE @ + 1]
    /\ UNCHANGED <<told, troubles>>

\* Every request of the process ends with it.
StreamRestart ==
    /\ handler' = [g \in Generations |-> IF handler[g].pc \in {"none", "gone"} THEN handler[g]
                                         ELSE Ended]
    /\ fetch' = [g \in Generations |-> IF fetch[g].pc \in {"sent", "rows"}
                                       THEN [fetch[g] EXCEPT !.pc = "failed"] ELSE fetch[g]]
    /\ UNCHANGED <<told, leaked>>

\* Updates, snapshot requests and handlers that know of commits in a set.
Updates(commits) == [v : 0..MaxVersion, at : commits]
Fetches(commits) ==
    [pc : {"none", "sent", "rows", "ok", "failed"}, session : Logins \union {None},
     v : 0..MaxVersion, at : commits, sum : commits]
Handlers(commits) ==
    [pc : {"none", "connect", "flushed", "loop", "send", "ended", "gone"},
     session : Logins \union {None}, subscribed : BOOLEAN,
     buf : Seq(Updates(commits)), update : Updates(commits)]

StreamTypeOK ==
    /\ fetch \in [Generations -> Fetches(Nat)]
    /\ handler \in [Generations -> Handlers(Nat)]
    /\ \A g \in Generations : Len(handler[g].buf) <= SubscriberBuf
    /\ told \in [Generations -> Nat] /\ leaked \in [Generations -> Nat]

\* After the session or the role is gone a stream sends at most the one update
\* that had already passed its check (stillAllowed in handleSSE).
AtMostOneLateUpdate ==
    \A g \in Generations : leaked[g] <= 1
=============================================================================
