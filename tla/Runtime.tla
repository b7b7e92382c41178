------------------------------ MODULE Runtime -------------------------------
(***************************************************************************)
(* The serving process (src/cmd/seshatops/runtime.go and worker.go): it    *)
(* opens its resources, runs the relay and consumer workers beside the     *)
(* HTTP server, reports readiness, and shuts down on a signal or when the  *)
(* server fails.                                                           *)
(*                                                                         *)
(* What a cycle does to the data is in OutboxRelay and ConsumerLoop; here  *)
(* a cycle has an outcome.  Delays are finite and otherwise unknown.  The  *)
(* checks "database", "migrations" and "broker" are set once at startup,   *)
(* so readiness is the relay's and the consumer's.                         *)
(***************************************************************************)
EXTENDS Integers, FiniteSets

CONSTANTS
    Requests,   \* HTTP requests; an event stream may never end
    MaxFaults   \* model bound on outages and on other failing calls

ASSUME RuntimeAssumption == MaxFaults \in Nat

VARIABLES
    phase,      \* of the process
    cause,      \* of its shutdown
    open,       \* resources it holds
    down,       \* the broker does not answer
    cancelled,  \* workerCtx is cancelled
    worker,     \* each worker: pc, its cycle's outcome, the readiness it read
    probe,      \* lastProbe and lastProbeErr of the relay worker
    check,      \* the readiness flags of the workers
    gauge,      \* seshatops_runtime_ready
    request,    \* each request at shutdown: "active", "cut" or "done"
    expired,    \* shutdownCtx is done
    late,       \* history: workers past their cancellation test at shutdown
    faults

procVars == <<phase, cause, open, cancelled, expired, late>>
readyVars == <<check, gauge>>
vars == <<procVars, down, worker, probe, readyVars, request, faults>>

Workers == {"relay", "consumer"}
Resources == {"db", "publisher", "consumer"}

Ready == \A w \in Workers : check[w]

Init ==
    /\ phase = "database" /\ cause = "none"
    /\ open = {"db"}
    /\ down = FALSE
    /\ cancelled = FALSE /\ expired = FALSE /\ late = {}
    /\ worker = [w \in Workers |-> [pc |-> "idle", ok |-> FALSE, seen |-> FALSE]]
    /\ probe = "none"
    /\ check = [w \in Workers |-> FALSE] /\ gauge = FALSE
    /\ request = [r \in Requests |-> "done"]
    /\ faults = 0

Fault == faults < MaxFaults /\ faults' = faults + 1

\* The broker fails, or comes back.
Outage ==
    /\ cause = "none"
    /\ \/ ~down /\ down' = TRUE /\ Fault
       \/ down /\ down' = FALSE /\ UNCHANGED faults
    /\ UNCHANGED <<procVars, worker, probe, readyVars, request>>

-----------------------------------------------------------------------------
(* newRuntime and Run.                                                     *)

StartOnly == UNCHANGED <<cause, cancelled, expired, late, down, probe, readyVars, request>>

\* The database is pinged and migrated, the clients are created, and both ping
\* the broker; a failure closes what is open.
OpenResources ==
    /\ StartOnly /\ UNCHANGED worker
    /\ \/ /\ phase = "database"
          /\ \/ phase' = "clients" /\ UNCHANGED <<open, faults>>
             \/ phase' = "exited" /\ open' = {} /\ Fault
       \/ /\ phase = "clients"
          /\ phase' = "ping" /\ open' = Resources /\ UNCHANGED faults
       \/ /\ phase = "ping"
          /\ IF down
             THEN phase' = "exited" /\ open' = {}
             ELSE phase' = "run" /\ UNCHANGED open
          /\ UNCHANGED faults

\* Run listens and starts the workers, or cannot listen.
Run ==
    /\ phase = "run"
    /\ StartOnly
    /\ \/ /\ phase' = "serving"
          /\ worker' = [w \in Workers |-> [worker[w] EXCEPT !.pc = "cycle"]]
          /\ UNCHANGED <<open, faults>>
       \/ /\ Fault
          /\ phase' = "exited" /\ open' = {}
          /\ UNCHANGED worker

-----------------------------------------------------------------------------
(* The workers.                                                            *)

WorkerOnly == UNCHANGED <<procVars, down, request>>

Step(w, pc, ok) == worker' = [worker EXCEPT ![w].pc = pc, ![w].ok = ok]

Broker == ~down /\ open = Resources /\ ~cancelled

\* DrainOnce: an error, rows published, or none or only failed ones: then the
\* broker is probed, unless a healthy probe is recent.
DrainCycle ==
    /\ worker["relay"].pc = "cycle"
    /\ \/ /\ cancelled \/ open # Resources
          /\ Step("relay", "ended", FALSE) /\ UNCHANGED faults
       \/ Step("relay", "ended", FALSE) /\ Fault
       \/ Broker /\ Step("relay", "ended", TRUE) /\ UNCHANGED faults
       \/ "db" \in open /\ Step("relay", "probe", TRUE) /\ UNCHANGED faults
    /\ WorkerOnly /\ UNCHANGED <<probe, readyVars>>

ShouldProbeRelay == probe \in {"none", "failed", "old"}

RelayProbe ==
    /\ worker["relay"].pc = "probe"
    /\ IF ShouldProbeRelay /\ ~cancelled
       THEN /\ probe' = IF Broker THEN "healthy" ELSE "failed"
            /\ Step("relay", "ended", Broker)
       ELSE Step("relay", "ended", TRUE) /\ UNCHANGED probe
    /\ WorkerOnly /\ UNCHANGED <<readyVars, faults>>

\* A CycleTimeout passes since the last healthy probe.
ProbeAges ==
    /\ probe = "healthy" /\ cause = "none"
    /\ probe' = "old"
    /\ UNCHANGED <<procVars, down, worker, readyVars, request, faults>>

\* ConsumeOnce: an error, records processed, or nothing before the deadline.
ConsumeCycle ==
    /\ worker["consumer"].pc = "cycle"
    /\ \/ ~Broker /\ Step("consumer", "ended", FALSE) /\ UNCHANGED faults
       \/ Step("consumer", "ended", FALSE) /\ Fault
       \/ Broker /\ Step("consumer", "ended", TRUE) /\ UNCHANGED faults
       \/ ~cancelled /\ Step("consumer", "probe", FALSE) /\ UNCHANGED faults
    /\ WorkerOnly /\ UNCHANGED <<probe, readyVars>>

\* Mutant: a poll that times out is a healthy one.
ConsumerProbeNever ==
    /\ worker["consumer"].pc = "probe"
    /\ Step("consumer", "ended", TRUE)
    /\ WorkerOnly /\ UNCHANGED <<probe, readyVars, faults>>

\* DeadlineExceeded: ping the broker.
ConsumerProbe ==
    /\ worker["consumer"].pc = "probe"
    /\ Step("consumer", "ended", Broker)
    /\ WorkerOnly /\ UNCHANGED <<probe, readyVars, faults>>

\* Mutant: cancellation is only seen while waiting.
CycleEndsUntested(w) ==
    /\ worker[w].pc = "ended"
    /\ Step(w, "report", worker[w].ok)
    /\ WorkerOnly /\ UNCHANGED <<probe, readyVars, faults>>

\* runWorker tests its context when the cycle has returned.
CycleEnds(w) ==
    /\ worker[w].pc = "ended"
    /\ IF cancelled THEN Step(w, "returned", FALSE) ELSE Step(w, "report", worker[w].ok)
    /\ WorkerOnly /\ UNCHANGED <<probe, readyVars, faults>>

\* setWorkerReadiness sets the flag and reads them all, and then sets the
\* gauge to what it read.
SetReadiness(w) ==
    /\ worker[w].pc = "report"
    /\ check' = [check EXCEPT ![w] = worker[w].ok]
    /\ worker' = [worker EXCEPT ![w] = [pc |-> "seen", ok |-> FALSE, seen |-> Ready']]
    /\ WorkerOnly /\ UNCHANGED <<probe, gauge, faults>>

\* Mutant: the gauge is only ever cleared.
SetGaugeOnlyDown(w) ==
    /\ worker[w].pc = "seen"
    /\ gauge' = (gauge /\ worker[w].seen)
    /\ worker' = [worker EXCEPT ![w].pc = "wait", ![w].seen = FALSE]
    /\ WorkerOnly /\ UNCHANGED <<probe, check, faults>>

SetGauge(w) ==
    /\ worker[w].pc = "seen"
    /\ gauge' = worker[w].seen
    /\ worker' = [worker EXCEPT ![w].pc = "wait", ![w].seen = FALSE]
    /\ WorkerOnly /\ UNCHANGED <<probe, check, faults>>

\* waitFor: the interval or the backoff passes, or the context is cancelled.
Wait(w) ==
    /\ worker[w].pc = "wait"
    /\ \/ Step(w, "cycle", FALSE)
       \/ cancelled /\ Step(w, "returned", FALSE)
    /\ WorkerOnly /\ UNCHANGED <<probe, readyVars, faults>>

Report(w) == CycleEnds(w) \/ SetReadiness(w) \/ SetGauge(w) \/ Wait(w)

-----------------------------------------------------------------------------
(* Requests and shutdown.                                                  *)

\* A handler returns, or its client goes away.
Finish(r) ==
    /\ request[r] \in {"active", "cut"}
    /\ request' = [request EXCEPT ![r] = "done"]
    /\ UNCHANGED <<procVars, down, worker, probe, readyVars, faults>>

\* The signal cancels ctx and with it workerCtx; a failing server does not.
\* shutdown first clears the readiness flags and the gauge.  Some requests are
\* in flight.
Stop(why) ==
    /\ phase = "serving"
    /\ phase' = "drain"
    /\ cause' = why
    /\ cancelled' = (why = "signal")
    /\ late' = {w \in Workers : worker[w].pc = "report"}
    /\ check' = [w \in Workers |-> FALSE] /\ gauge' = FALSE
    /\ \E busy \in SUBSET Requests :
          request' = [r \in Requests |-> IF r \in busy THEN "active" ELSE "done"]
    /\ UNCHANGED <<open, expired, down, worker, probe, faults>>

\* The graceful window passes.
WindowExpires ==
    /\ phase \in {"drain", "wait"} /\ ~expired
    /\ expired' = TRUE
    /\ UNCHANGED <<phase, cause, open, cancelled, late>>
    /\ UNCHANGED <<down, worker, probe, readyVars, request, faults>>

\* Mutant: the server is waited for without a limit.
ShutdownServerUnbounded ==
    /\ phase = "drain"
    /\ \A r \in Requests : request[r] # "active"
    /\ phase' = "wait"
    /\ cancelled' = TRUE
    /\ UNCHANGED <<cause, open, expired, late, down, worker, probe, readyVars, request, faults>>

\* server.Shutdown waits for the active requests; once the window has passed
\* their connections are closed and the handlers left to notice.  Then
\* workerCancel.
ShutdownServer ==
    /\ phase = "drain"
    /\ \/ \A r \in Requests : request[r] # "active"
       \/ expired
    /\ request' = [r \in Requests |-> IF request[r] = "active" THEN "cut" ELSE request[r]]
    /\ phase' = "wait"
    /\ cancelled' = TRUE
    /\ UNCHANGED <<cause, open, expired, late, down, worker, probe, readyVars, faults>>

\* Mutant: the resources are closed without waiting for the workers.
ShutdownCloseAtOnce ==
    /\ phase = "wait"
    /\ phase' = "exited" /\ open' = {}
    /\ UNCHANGED <<cause, cancelled, expired, late>>
    /\ UNCHANGED <<down, worker, probe, readyVars, request, faults>>

\* workerDone or the window, then closeOwned.
ShutdownClose ==
    /\ phase = "wait"
    /\ expired \/ \A w \in Workers : worker[w].pc = "returned"
    /\ phase' = "exited" /\ open' = {}
    /\ UNCHANGED <<cause, cancelled, expired, late>>
    /\ UNCHANGED <<down, worker, probe, readyVars, request, faults>>

-----------------------------------------------------------------------------
Relay == DrainCycle \/ RelayProbe \/ Report("relay")
Consumer == ConsumeCycle \/ ConsumerProbe \/ Report("consumer")
Shutdown == ShutdownServer \/ ShutdownClose

Next ==
    \/ Outage
    \/ OpenResources \/ Run
    \/ Relay \/ Consumer \/ ProbeAges
    \/ \E r \in Requests : Finish(r)
    \/ \E why \in {"signal", "serve_error"} : Stop(why)
    \/ Shutdown \/ WindowExpires

(* Goroutines run, and timers fire.  Nothing makes requests, signals or    *)
(* outages happen.                                                         *)
Spec ==
    /\ Init /\ [][Next]_vars
    /\ WF_vars(Relay) /\ WF_vars(Consumer) /\ WF_vars(ProbeAges)
    /\ WF_vars(Shutdown) /\ WF_vars(WindowExpires)

-----------------------------------------------------------------------------
(* Properties.                                                             *)

TypeOK ==
    /\ phase \in {"database", "clients", "ping", "run", "serving", "drain",
                  "wait", "exited"}
    /\ cause \in {"none", "signal", "serve_error"}
    /\ open \subseteq Resources
    /\ down \in BOOLEAN /\ cancelled \in BOOLEAN /\ expired \in BOOLEAN
    /\ worker \in [Workers ->
          [pc : {"idle", "cycle", "probe", "ended", "report", "seen", "wait", "returned"},
           ok : BOOLEAN, seen : BOOLEAN]]
    /\ probe \in {"none", "healthy", "old", "failed"}
    /\ check \in [Workers -> BOOLEAN] /\ gauge \in BOOLEAN
    /\ request \in [Requests -> {"active", "cut", "done"}]
    /\ late \subseteq Workers /\ faults \in Nat

\* Whichever way the process ends, it has closed all it opened (newRuntime's
\* deferred closes, Run's early returns, closeOwned).
ExitClosesAll == phase = "exited" => open = {}

\* Resources are closed under a worker or a handler only after the graceful
\* window has passed (shutdown).
CloseWaits ==
    phase = "exited" /\ cause # "none" /\ ~expired =>
        /\ \A w \in Workers : worker[w].pc = "returned"
        /\ \A r \in Requests : request[r] = "done"

\* After a signal, once shutdown has cleared the flags, only a worker that had
\* passed its cancellation test before the signal can raise its flag again.
SignalEndsReadiness ==
    cause = "signal" =>
        \A w \in Workers : check[w] => w \in late

\* A broker that stays away is noticed by each worker, backlog or not, and by
\* the gauge (runRelayWorker and runConsumerWorker, idle probes).
OutageIsNoticed ==
    <>[](phase = "serving" /\ down) =>
        /\ \A w \in Workers : <>[]~check[w]
        /\ <>[]~gauge

\* When everything answers again the process becomes ready and the gauge says
\* so, whatever the workers' updates of it did to each other.
RecoveryIsNoticed == <>[](phase = "serving" /\ ~down) => <>[](Ready /\ gauge)

\* A shutdown that has begun ends, event streams notwithstanding.
ShutdownEnds == phase = "drain" ~> phase = "exited"

=============================================================================
