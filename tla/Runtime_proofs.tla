--------------------------- MODULE Runtime_proofs ---------------------------
(***************************************************************************)
(* The serving process, for any requests and any number of faults: its     *)
(* resources are closed when it ends, not under anybody before the window  *)
(* has passed, and a signal ends readiness but for a worker caught late.   *)
(***************************************************************************)
EXTENDS Runtime, TLAPS

\* How far the shutdown has come: its cause, the cancellation a signal brings,
\* and what is left of the requests.
ShutdownInv ==
    /\ phase \in {"database", "clients", "ping", "run", "serving"} => cause = "none"
    /\ phase \in {"drain", "wait"} => cause # "none"
    /\ cause = "signal" => cancelled = TRUE
    /\ \A r \in Requests : request[r] = "cut" => expired = TRUE
    /\ phase \in {"wait", "exited"} /\ cause # "none" =>
          \A r \in Requests : request[r] # "active"

\* A worker past its cancellation test after a signal was so at the signal.
LateInv ==
    cause = "signal" =>
        \A w \in Workers : worker[w].pc = "report" => w \in late

RuntimeInv ==
    /\ TypeOK /\ ShutdownInv /\ LateInv
    /\ ExitClosesAll /\ CloseWaits /\ SignalEndsReadiness

\* The provers to try on a leaf that names none, in this order.
USE Zenon, SMT, Z3

LEMMA InitHolds == Init => RuntimeInv
<1> SUFFICES ASSUME Init PROVE RuntimeInv
  OBVIOUS
<1>1. TypeOK
  BY DEF Init, TypeOK, Resources
<1>2. ShutdownInv /\ LateInv
  BY DEF Init, ShutdownInv, LateInv
<1>3. ExitClosesAll /\ CloseWaits /\ SignalEndsReadiness
  BY DEF Init, ExitClosesAll, CloseWaits, SignalEndsReadiness
<1> QED BY <1>1, <1>2, <1>3 DEF RuntimeInv

-----------------------------------------------------------------------------
(* The workers.                                                            *)

Places == {"idle", "cycle", "probe", "ended", "report", "seen", "wait", "returned"}

\* A step of one worker that has not returned, and that enters "report" only
\* while its context lives.
LEMMA WorkerMoves ==
    ASSUME RuntimeInv, NEW w \in Workers, NEW x \in [pc : Places, ok : BOOLEAN, seen : BOOLEAN],
           worker[w].pc # "returned",
           x.pc = "report" => cancelled = FALSE,
           worker' = [worker EXCEPT ![w] = x], WorkerOnly,
           probe' \in {"none", "healthy", "old", "failed"}, faults' \in Nat, gauge' \in BOOLEAN,
           \/ check' = check
           \/ worker[w].pc = "report" /\ check' = [check EXCEPT ![w] = worker[w].ok]
    PROVE  RuntimeInv'
<1>1. /\ UNCHANGED <<phase, cause, open, cancelled, expired, late, down, request>>
  BY DEF WorkerOnly, procVars
<1>2. /\ \A v \in Workers : v # w => worker'[v] = worker[v]
      /\ worker'[w] = x
  BY DEF RuntimeInv, TypeOK
<1>3. TypeOK'
  <2>1. worker' \in [Workers -> [pc : Places, ok : BOOLEAN, seen : BOOLEAN]]
    BY DEF RuntimeInv, TypeOK, Places
  <2>2. check' \in [Workers -> BOOLEAN]
    BY DEF RuntimeInv, TypeOK
  <2> QED BY <1>1, <2>1, <2>2 DEF RuntimeInv, TypeOK, Places
<1>4. ShutdownInv'
  BY <1>1 DEF RuntimeInv, ShutdownInv
<1>5. LateInv'
  BY <1>1, <1>2 DEF RuntimeInv, ShutdownInv, LateInv
<1>6. ExitClosesAll' /\ CloseWaits'
  BY <1>1 DEF RuntimeInv, ExitClosesAll, CloseWaits
<1>7. SignalEndsReadiness'
  <2> SUFFICES ASSUME cause = "signal", NEW v \in Workers, check'[v] PROVE v \in late
    BY <1>1 DEF SignalEndsReadiness
  <2>1. CASE check' = check
    BY <2>1 DEF RuntimeInv, SignalEndsReadiness
  <2>2. CASE worker[w].pc = "report" /\ check' = [check EXCEPT ![w] = worker[w].ok]
    <3>1. CASE v = w
      BY <2>2, <3>1 DEF RuntimeInv, LateInv
    <3>2. CASE v # w
      <4>1. check'[v] = check[v]
        BY <2>2, <3>2 DEF RuntimeInv, TypeOK
      <4> QED BY <4>1 DEF RuntimeInv, SignalEndsReadiness
    <3> QED BY <3>1, <3>2
  <2> QED BY <2>1, <2>2
<1> QED BY <1>3, <1>4, <1>5, <1>6, <1>7 DEF RuntimeInv

LEMMA StepMoves ==
    ASSUME RuntimeInv, NEW w \in Workers, NEW pc \in Places, NEW ok \in BOOLEAN,
           Step(w, pc, ok), worker[w].pc # "returned", pc = "report" => cancelled = FALSE,
           WorkerOnly, probe' \in {"none", "healthy", "old", "failed"}, faults' \in Nat,
           UNCHANGED readyVars
    PROVE  RuntimeInv'
<1> DEFINE x == [worker[w] EXCEPT !.pc = pc, !.ok = ok]
<1>1. x \in [pc : Places, ok : BOOLEAN, seen : BOOLEAN] /\ x.pc = pc
  BY ZenonT(60) DEF RuntimeInv, TypeOK, Places
<1>2. worker' = [worker EXCEPT ![w] = x]
  BY DEF Step
<1>3. check' = check /\ gauge' \in BOOLEAN
  BY DEF readyVars, RuntimeInv, TypeOK
<1> HIDE DEF x
<1> QED BY <1>1, <1>2, <1>3, WorkerMoves

LEMMA FaultIsNat == ASSUME RuntimeInv, Fault \/ UNCHANGED faults PROVE faults' \in Nat
BY SMT DEF RuntimeInv, TypeOK, Fault

\* The cycles and their probes.
LEMMA CyclesKeepInv ==
    ASSUME RuntimeInv, DrainCycle \/ RelayProbe \/ ConsumeCycle \/ ConsumerProbe
    PROVE  RuntimeInv'
<1>0. /\ probe \in {"none", "healthy", "old", "failed"}
      /\ "relay" \in Workers /\ "consumer" \in Workers
      /\ "ended" \in Places /\ "probe" \in Places
      /\ Broker \in BOOLEAN
  BY DEF RuntimeInv, TypeOK, Workers, Places, Broker
<1>1. CASE DrainCycle
  <2>1. /\ Fault \/ UNCHANGED faults
        /\ Step("relay", "ended", FALSE) \/ Step("relay", "ended", TRUE)
                                         \/ Step("relay", "probe", TRUE)
        /\ WorkerOnly /\ UNCHANGED <<probe, readyVars>> /\ worker["relay"].pc = "cycle"
    BY <1>1 DEF DrainCycle
  <2> QED BY <1>0, <2>1, StepMoves, FaultIsNat
<1>2. CASE RelayProbe
  <2>1. /\ UNCHANGED faults /\ WorkerOnly /\ UNCHANGED readyVars
        /\ worker["relay"].pc = "probe"
        /\ Step("relay", "ended", Broker) \/ Step("relay", "ended", TRUE)
    BY <1>2 DEF RelayProbe
  <2>2. probe' \in {"none", "healthy", "old", "failed"}
    BY <1>0, <1>2 DEF RelayProbe
  <2> QED BY <1>0, <2>1, <2>2, StepMoves, FaultIsNat
<1>3. CASE ConsumeCycle
  <2>1. /\ Fault \/ UNCHANGED faults
        /\ Step("consumer", "ended", FALSE) \/ Step("consumer", "ended", TRUE)
                                            \/ Step("consumer", "probe", FALSE)
        /\ WorkerOnly /\ UNCHANGED <<probe, readyVars>> /\ worker["consumer"].pc = "cycle"
    BY <1>3 DEF ConsumeCycle
  <2> QED BY <1>0, <2>1, StepMoves, FaultIsNat
<1>4. CASE ConsumerProbe
  <2>1. /\ UNCHANGED faults /\ WorkerOnly /\ UNCHANGED <<probe, readyVars>>
        /\ worker["consumer"].pc = "probe" /\ Step("consumer", "ended", Broker)
    BY <1>4 DEF ConsumerProbe
  <2> QED BY <1>0, <2>1, StepMoves, FaultIsNat
<1> QED BY <1>1, <1>2, <1>3, <1>4

\* What runWorker does after a cycle.
LEMMA ReportKeepsInv ==
    ASSUME RuntimeInv, NEW w \in Workers, Report(w)
    PROVE  RuntimeInv'
<1>0. /\ probe \in {"none", "healthy", "old", "failed"}
      /\ worker[w] \in [pc : Places, ok : BOOLEAN, seen : BOOLEAN]
      /\ cancelled \in BOOLEAN /\ gauge \in BOOLEAN
  BY DEF RuntimeInv, TypeOK, Places
<1>1. CASE CycleEnds(w)
  <2>1. /\ UNCHANGED faults /\ WorkerOnly /\ UNCHANGED <<probe, readyVars>>
        /\ worker[w].pc = "ended"
        /\ \/ cancelled /\ Step(w, "returned", FALSE)
           \/ ~cancelled /\ Step(w, "report", worker[w].ok)
    BY <1>1 DEF CycleEnds
  <2>2. worker[w].ok \in BOOLEAN /\ "returned" \in Places /\ "report" \in Places
    BY <1>0 DEF Places
  <2>3. CASE Step(w, "returned", FALSE)
    BY <1>0, <2>1, <2>2, <2>3, StepMoves, FaultIsNat
  <2>4. CASE ~cancelled /\ Step(w, "report", worker[w].ok)
    BY <1>0, <2>1, <2>2, <2>4, StepMoves, FaultIsNat
  <2> QED BY <2>1, <2>3, <2>4
<1>2. CASE SetReadiness(w)
  <2> DEFINE x == [pc |-> "seen", ok |-> FALSE, seen |-> Ready']
  <2>1. x \in [pc : Places, ok : BOOLEAN, seen : BOOLEAN] /\ x.pc = "seen"
    BY DEF Places, Ready
  <2>2. /\ worker[w].pc = "report" /\ worker' = [worker EXCEPT ![w] = x]
        /\ check' = [check EXCEPT ![w] = worker[w].ok]
        /\ WorkerOnly /\ UNCHANGED <<probe, gauge, faults>>
    BY <1>2 DEF SetReadiness
  <2> HIDE DEF x
  <2> QED BY <1>0, <2>1, <2>2, WorkerMoves, FaultIsNat
<1>3. CASE SetGauge(w)
  <2> DEFINE x == [worker[w] EXCEPT !.pc = "wait", !.seen = FALSE]
  <2>1. x \in [pc : Places, ok : BOOLEAN, seen : BOOLEAN] /\ x.pc = "wait"
    BY <1>0 DEF Places
  <2>2. /\ worker[w].pc = "seen" /\ worker' = [worker EXCEPT ![w] = x]
        /\ check' = check /\ gauge' \in BOOLEAN
        /\ WorkerOnly /\ UNCHANGED <<probe, faults>>
    BY <1>0, <1>3 DEF SetGauge
  <2> HIDE DEF x
  <2> QED BY <1>0, <2>1, <2>2, WorkerMoves, FaultIsNat
<1>4. CASE Wait(w)
  <2>1. /\ UNCHANGED faults /\ WorkerOnly /\ UNCHANGED <<probe, readyVars>>
        /\ worker[w].pc = "wait"
        /\ Step(w, "cycle", FALSE) \/ Step(w, "returned", FALSE)
        /\ "returned" \in Places /\ "cycle" \in Places
    BY <1>4 DEF Wait, Places
  <2> QED BY <1>0, <2>1, StepMoves, FaultIsNat
<1> QED BY <1>1, <1>2, <1>3, <1>4 DEF Report

-----------------------------------------------------------------------------
(* The process.                                                            *)

\* Steps in which only the broker, the probe's age or the faults change.
LEMMA QuietKeepsInv ==
    ASSUME RuntimeInv, Outage \/ ProbeAges \/ UNCHANGED vars
    PROVE  RuntimeInv'
<1>1. UNCHANGED <<phase, cause, open, cancelled, expired, late, worker, check, gauge, request>>
  BY DEF Outage, ProbeAges, vars, procVars, readyVars
<1>2. TypeOK'
  <2>1. probe' \in {"none", "healthy", "old", "failed"}
    BY DEF RuntimeInv, TypeOK, Outage, ProbeAges, vars
  <2>2. faults' \in Nat
    <3>1. Fault \/ UNCHANGED faults
      BY DEF Outage, ProbeAges, vars
    <3> QED BY <3>1, FaultIsNat
  <2>3. down' \in BOOLEAN
    BY DEF RuntimeInv, TypeOK, Outage, ProbeAges, vars
  <2> QED BY <1>1, <2>1, <2>2, <2>3 DEF RuntimeInv, TypeOK
<1>3. ShutdownInv' /\ LateInv'
  BY <1>1 DEF RuntimeInv, ShutdownInv, LateInv
<1>4. ExitClosesAll' /\ CloseWaits' /\ SignalEndsReadiness'
  BY <1>1 DEF RuntimeInv, ExitClosesAll, CloseWaits, SignalEndsReadiness
<1> QED BY <1>2, <1>3, <1>4 DEF RuntimeInv

LEMMA StartKeepsInv ==
    ASSUME RuntimeInv, OpenResources \/ Run
    PROVE  RuntimeInv'
<1>1. /\ UNCHANGED <<cause, cancelled, expired, late, down, probe, check, gauge, request>>
      /\ phase \in {"database", "clients", "ping", "run"} /\ cause = "none"
  BY DEF OpenResources, Run, StartOnly, readyVars, RuntimeInv, ShutdownInv
<1>2. /\ phase' \in {"clients", "ping", "run", "serving", "exited"}
      /\ phase' = "exited" => open' = {}
      /\ open' \subseteq Resources
  BY DEF OpenResources, Run, RuntimeInv, TypeOK
<1>3. faults' \in Nat
  BY SMT DEF OpenResources, Run, Fault, RuntimeInv, TypeOK
<1>4. worker' \in [Workers -> [pc : Places, ok : BOOLEAN, seen : BOOLEAN]]
  BY SMT DEF OpenResources, Run, RuntimeInv, TypeOK, Places
<1>5. TypeOK'
  BY <1>1, <1>2, <1>3, <1>4 DEF RuntimeInv, TypeOK, Places
<1>6. ShutdownInv' /\ LateInv'
  BY <1>1, <1>2 DEF RuntimeInv, ShutdownInv, LateInv
<1>7. ExitClosesAll' /\ CloseWaits' /\ SignalEndsReadiness'
  BY <1>1, <1>2 DEF ExitClosesAll, CloseWaits, SignalEndsReadiness
<1> QED BY <1>5, <1>6, <1>7 DEF RuntimeInv

LEMMA FinishKeepsInv ==
    ASSUME RuntimeInv, NEW r \in Requests, Finish(r)
    PROVE  RuntimeInv'
<1>1. /\ UNCHANGED <<phase, cause, open, cancelled, expired, late, down, worker, probe,
                     check, gauge, faults>>
      /\ request' = [request EXCEPT ![r] = "done"] /\ request[r] # "done"
  BY DEF Finish, procVars, readyVars
<1>2. \A q \in Requests : request'[q] = "done" \/ request'[q] = request[q]
  BY <1>1 DEF RuntimeInv, TypeOK
<1>3. TypeOK'
  BY SMT, <1>1 DEF RuntimeInv, TypeOK
<1>4. ShutdownInv' /\ LateInv'
  BY <1>1, <1>2 DEF RuntimeInv, ShutdownInv, LateInv
<1>5. ExitClosesAll' /\ CloseWaits' /\ SignalEndsReadiness'
  BY <1>1, <1>2 DEF RuntimeInv, ExitClosesAll, CloseWaits, SignalEndsReadiness
<1> QED BY <1>3, <1>4, <1>5 DEF RuntimeInv

LEMMA StopKeepsInv ==
    ASSUME RuntimeInv, NEW why \in {"signal", "serve_error"}, Stop(why)
    PROVE  RuntimeInv'
<1>1. /\ phase = "serving" /\ phase' = "drain" /\ cause' = why
      /\ cancelled' = (why = "signal")
      /\ late' = {w \in Workers : worker[w].pc = "report"}
      /\ check' = [w \in Workers |-> FALSE] /\ gauge' = FALSE
      /\ UNCHANGED <<open, expired, down, worker, probe, faults>>
  BY DEF Stop
<1>2. /\ request' \in [Requests -> {"active", "cut", "done"}]
      /\ \A r \in Requests : request'[r] # "cut"
  BY DEF Stop
<1>3. TypeOK'
  BY <1>1, <1>2 DEF RuntimeInv, TypeOK
<1>4. ShutdownInv' /\ LateInv'
  BY <1>1, <1>2 DEF ShutdownInv, LateInv
<1>5. ExitClosesAll' /\ CloseWaits' /\ SignalEndsReadiness'
  BY <1>1 DEF ExitClosesAll, CloseWaits, SignalEndsReadiness
<1> QED BY <1>3, <1>4, <1>5 DEF RuntimeInv

LEMMA ShutdownKeepsInv ==
    ASSUME RuntimeInv, Shutdown \/ WindowExpires
    PROVE  RuntimeInv'
<1>0. expired \in BOOLEAN
  BY DEF RuntimeInv, TypeOK
<1>1. CASE ShutdownServer
  <2>1. /\ phase = "drain" /\ phase' = "wait" /\ cancelled' = TRUE
        /\ request' = [r \in Requests |-> IF request[r] = "active" THEN "cut" ELSE request[r]]
        /\ (\A r \in Requests : request[r] # "active") \/ expired
        /\ UNCHANGED <<cause, open, expired, late, down, worker, probe, check, gauge, faults>>
    BY <1>1 DEF ShutdownServer, readyVars
  <2>2. TypeOK'
    BY <2>1 DEF RuntimeInv, TypeOK
  <2>3. ShutdownInv'
    BY <1>0, <2>1 DEF RuntimeInv, ShutdownInv
  <2>4. LateInv' /\ ExitClosesAll' /\ CloseWaits' /\ SignalEndsReadiness'
    BY <2>1 DEF RuntimeInv, LateInv, ExitClosesAll, CloseWaits, SignalEndsReadiness
  <2> QED BY <2>2, <2>3, <2>4 DEF RuntimeInv
<1>2. CASE ShutdownClose
  <2>1. /\ phase = "wait" /\ phase' = "exited" /\ open' = {}
        /\ expired \/ \A w \in Workers : worker[w].pc = "returned"
        /\ UNCHANGED <<cause, cancelled, expired, late, down, worker, probe, check, gauge,
                       request, faults>>
    BY <1>2 DEF ShutdownClose, readyVars
  <2>2. TypeOK'
    BY <2>1 DEF RuntimeInv, TypeOK
  <2>3. ShutdownInv' /\ LateInv'
    BY <2>1 DEF RuntimeInv, ShutdownInv, LateInv
  <2>4. CloseWaits'
    <3> SUFFICES ASSUME ~expired
                 PROVE  /\ \A w \in Workers : worker[w].pc = "returned"
                        /\ \A r \in Requests : request[r] = "done"
      BY <2>1 DEF CloseWaits
    <3>1. \A r \in Requests : request[r] \in {"active", "cut", "done"}
      BY DEF RuntimeInv, TypeOK
    <3>2. \A r \in Requests : request[r] # "active" /\ request[r] # "cut"
      BY <2>1 DEF RuntimeInv, ShutdownInv
    <3> QED BY <2>1, <3>1, <3>2
  <2>5. ExitClosesAll' /\ SignalEndsReadiness'
    BY <2>1 DEF RuntimeInv, ExitClosesAll, SignalEndsReadiness
  <2> QED BY <2>2, <2>3, <2>4, <2>5 DEF RuntimeInv
<1>3. CASE WindowExpires
  <2>1. /\ phase \in {"drain", "wait"} /\ expired' = TRUE
        /\ UNCHANGED <<phase, cause, open, cancelled, late, down, worker, probe, check, gauge,
                       request, faults>>
    BY <1>3 DEF WindowExpires, readyVars
  <2>2. TypeOK'
    BY <2>1 DEF RuntimeInv, TypeOK
  <2>3. ShutdownInv' /\ LateInv'
    BY <2>1 DEF RuntimeInv, ShutdownInv, LateInv
  <2>4. ExitClosesAll' /\ CloseWaits' /\ SignalEndsReadiness'
    BY <2>1 DEF RuntimeInv, ExitClosesAll, CloseWaits, SignalEndsReadiness
  <2> QED BY <2>2, <2>3, <2>4 DEF RuntimeInv
<1> QED BY <1>1, <1>2, <1>3 DEF Shutdown

LEMMA RuntimeInductive == Spec => []RuntimeInv
<1>1. RuntimeInv /\ [Next]_vars => RuntimeInv'
  <2> SUFFICES ASSUME RuntimeInv, [Next]_vars PROVE RuntimeInv'
    OBVIOUS
  <2>1. CASE Relay \/ Consumer
    BY <2>1, CyclesKeepInv, ReportKeepsInv DEF Relay, Consumer, Workers
  <2>2. CASE \E r \in Requests : Finish(r)
    BY <2>2, FinishKeepsInv
  <2>3. CASE \E why \in {"signal", "serve_error"} : Stop(why)
    BY <2>3, StopKeepsInv
  <2> QED BY <2>1, <2>2, <2>3, QuietKeepsInv, StartKeepsInv, ShutdownKeepsInv DEF Next
<1> QED BY <1>1, InitHolds, PTL DEF Spec

-----------------------------------------------------------------------------
(* The theorems.                                                           *)

\* The runtime's state keeps its types.
THEOREM TypeCorrect == Spec => []TypeOK
BY RuntimeInductive, PTL DEF RuntimeInv

\* However it ends, from a failed start, a signal or a failed server, the
\* process has closed what it opened (newRuntime, Run, shutdown).
THEOREM ExitClosesAllHolds == Spec => []ExitClosesAll
BY RuntimeInductive, PTL DEF RuntimeInv

\* Nothing is closed under a worker or a handler within the graceful window
\* (shutdown), for any number of requests.
THEOREM CloseWaitsHolds == Spec => []CloseWaits
BY RuntimeInductive, PTL DEF RuntimeInv

\* After a signal only a worker past its cancellation test can report ready
\* (runWorker, setWorkerReadiness).
THEOREM SignalEndsReadinessHolds == Spec => []SignalEndsReadiness
BY RuntimeInductive, PTL DEF RuntimeInv

=============================================================================
