------------------------------ MODULE Forecast ------------------------------
(***************************************************************************)
(* Predictions of one item at one observation day: the source moves on,    *)
(* callers evaluate a Python candidate, predict and persist                *)
(* (src/cmd/seshatops/forecast.go, src/platform/forecast_runtime.go and    *)
(* forecast_predictions.go), and the API tells how fresh the latest        *)
(* prediction is (src/api/forecast_predictions.go).                        *)
(*                                                                         *)
(* A caller is the forecast command, whose features are the frozen         *)
(* history, or a client of ForecastService with the features of the live   *)
(* source.  The frozen history is as arbitrary as the one the source       *)
(* starts with, and taken equal to it.  Outbox rows are never rewritten,   *)
(* so a snapshot's id and checksum stand for the number of events in it.   *)
(* Python is external: it answers anything that passes validation, or      *)
(* fails.  PostgreSQL is external; see Insert.                             *)
(***************************************************************************)
EXTENDS ForecastRules

CONSTANTS
    Callers,
    History,        \* the number of events, one a day, the source starts with
    Histories,      \* the quantities these may leave on hand
    NewEvents,      \* later events: days since the last one, and quantity left
    MaxEvents,      \* model bound on events
    ObservationDay,
    Scores,         \* scores of the candidate's artifact
    Risks,          \* answers of the candidate when it is invoked
    MaxCalls,       \* model bound on calls
    MaxTroubles     \* model bound on failures

ASSUME ForecastAssumption ==
    /\ {History, MaxEvents, MaxCalls, MaxTroubles} \subseteq Nat /\ History > 0
    /\ Histories \subseteq [1 .. History -> Nat] /\ NewEvents \subseteq Nat \X Nat
    /\ Scores \cup Risks \subseteq {Abstained} \cup 0 .. HorizonDays

VARIABLES
    events,     \* the item's outbox events: day and quantity after, by version
    late,       \* the last of them: "applied", "pending" or "quarantined"
    caller,     \* the calls of PredictAndPersist
    rows,       \* platform.forecast_predictions
    clock,      \* recorded_at of the next record
    reader,     \* one request to the API
    calls, troubles

sourceVars == <<events, late>>
budgets == <<calls, troubles>>
vars == <<sourceVars, caller, rows, clock, reader, budgets>>

Frozen == 0     \* the features of the frozen history
FeatureIds == {Frozen} \cup History .. MaxEvents

NoCall == [pc |-> "idle", features |-> Frozen, predictor |-> "none", risk |-> Abstained,
           at |-> 0, held |-> <<>>, scores |-> <<>>]
NoRequest == [pc |-> "idle", features |-> Frozen]

Init ==
    /\ events \in {[d \in 1 .. History |-> [day |-> d, after |-> q[d]]]
                     : q \in Histories}
    /\ late = "applied"
    /\ caller = [c \in Callers |-> NoCall]
    /\ rows = {}
    /\ clock = 1
    /\ reader = NoRequest
    /\ calls = 0 /\ troubles = 0

Trouble == troubles < MaxTroubles /\ troubles' = troubles + 1

-----------------------------------------------------------------------------
(* The source.                                                             *)

\* A command at the ERP commits an event, on any day that has come.
RecordEvent(days, quantity) ==
    /\ late = "applied" /\ Len(events) < MaxEvents
    /\ events' = Append(events, [day |-> events[Len(events)].day + days, after |-> quantity])
    /\ late' = "pending"
    /\ UNCHANGED <<caller, rows, clock, reader, budgets>>

\* The relay and the consumer bring it to the projection, or the relay gives it
\* up until an operator releases it.
EventMoves(to) ==
    /\ <<late, to>> \in {<<"pending", "applied">>, <<"pending", "quarantined">>,
                         <<"quarantined", "pending">>}
    /\ IF to = "quarantined" THEN Trouble ELSE UNCHANGED troubles
    /\ late' = to
    /\ UNCHANGED <<events, caller, rows, clock, reader, calls>>

\* The status of LoadTenantForecastSource: with the events before it applied,
\* the last one decides (ForecastSource!ForecastStatus).
SourceStatus ==
    CASE late = "applied" -> "complete" [] late = "pending" -> "stale" [] OTHER -> "incomplete"

\* replayForecastEvents: the last quantity of each day, of the first n events.
Observations(n) ==
    [d \in {events[i].day : i \in 1 .. n} |->
        events[Max({i \in 1 .. n : events[i].day = d})].after]

\* The series behind a feature snapshot.
Series(f) == Observations(IF f = Frozen THEN History ELSE f)

\* What a caller holds in memory: the dataset, the features and, being a function
\* of the two, the baselines' results on the test split.
Protocol(ds, features) ==
    [ds |-> ds, features |-> features, results |-> BaselineResults(ds, features, "test")]

Held(f) == Protocol(BuildDataset(Series(f)), BuildFeatureSnapshot(Series(f)))

-----------------------------------------------------------------------------
(* ForecastService.                                                        *)

Goes(c, call) == caller' = [caller EXCEPT ![c] = call]

Ends(c, answer) ==
    Goes(c, IF answer = "failed" THEN [NoCall EXCEPT !.pc = answer]
            ELSE [caller[c] EXCEPT !.pc = answer, !.at = 0])

Answers == {"ok", "conflict", "failed"}

\* runFrozenForecast, or a client that has loaded a complete source, builds its
\* dataset and its features, and starts Python.
Start(c, f) ==
    /\ caller[c].pc \in Answers \cup {"idle"}
    /\ calls < MaxCalls /\ calls' = calls + 1
    /\ f # Frozen => f = Len(events) /\ SourceStatus = "complete" /\ SnapshotComplete(Series(f))
    /\ Goes(c, [NoCall EXCEPT !.pc = "producing", !.features = f, !.held = Held(f)])
    /\ UNCHANGED <<sourceVars, rows, clock, reader, troubles>>

\* ErrPythonUnavailable, ErrPythonTimeout or ErrPythonInvalidResponse, of the
\* artifact producer or of the invoker: nothing is stored.
PythonFails(c) ==
    /\ caller[c].pc \in {"producing", "invoking"}
    /\ Trouble
    /\ Ends(c, "failed")
    /\ UNCHANGED <<sourceVars, rows, clock, reader, calls>>

\* The record of PredictAndPersist, with the time of its making.
RecordOf(c, predictor, risk) ==
    /\ Goes(c, [caller[c] EXCEPT !.pc = "inserting", !.predictor = predictor,
                                 !.risk = risk, !.at = clock, !.held = <<>>, !.scores = <<>>])
    /\ clock' = clock + 1

\* The command persists only the outcome it was frozen with.  It compares every
\* checksum, count and metric too, which the model does not tell apart.
ValidateFrozenM4Outcome(evaluation) ==
    evaluation = [outcome |-> "baseline", baseline |-> "seasonal_naive"]

\* A request names a row of the snapshot.
NewRuntimeRequest(features) == ObservationDay \in DOMAIN features

\* The artifact arrives and is evaluated, and the test split selects the
\* predictor.
Produce(c, scores) ==
    /\ caller[c].pc = "producing"
    /\ LET h == caller[c].held
       IN  \E evaluation \in {EvaluateCandidateArtifact(h.ds, h.features, h.results, scores)} :
              LET selected == SelectRuntimePredictor(evaluation)
              IN  IF \/ selected = "none" \/ ~ NewRuntimeRequest(h.features)
                     \/ caller[c].features = Frozen /\ ~ ValidateFrozenM4Outcome(evaluation)
                  THEN Ends(c, "failed") /\ UNCHANGED clock
                  ELSE IF selected = "candidate"
                  THEN /\ Goes(c, [caller[c] EXCEPT !.pc = "invoking", !.scores = scores])
                       /\ UNCHANGED clock
                  ELSE RecordOf(c, selected,
                                BaselineRuntimeScore(h.features, ObservationDay, selected))
    /\ UNCHANGED <<sourceVars, rows, reader, budgets>>

\* The promoted candidate is invoked and its answer is validated.
Invoke(c, risk) ==
    /\ caller[c].pc = "invoking"
    /\ RecordOf(c, "candidate", risk)
    /\ UNCHANGED <<sourceVars, rows, reader, budgets>>

-----------------------------------------------------------------------------
(* PersistPrediction, one SERIALIZABLE transaction.  As PostgreSQL runs it: *)
(* the INSERT takes the snapshot; ON CONFLICT DO NOTHING waits for an      *)
(* uncommitted row of the same identity and, when that is committed, fails *)
(* because the snapshot does not show it.                                  *)

RowsOf(f) == {r \in rows : r.features = f}
Holds(c, f) == caller[c].pc = "open" /\ caller[c].features = f
Locked(f) == \E c \in Callers : Holds(c, f)

Record(c) == [features |-> caller[c].features, predictor |-> caller[c].predictor,
              risk |-> caller[c].risk, at |-> caller[c].at]

\* Mutant: the time of the record is compared too.
SamePredictionAndTime(a, b) == a = b

\* samePrediction leaves out when, and for whom, it was recorded.
SamePrediction(a, b) == [a EXCEPT !.at = 0] = [b EXCEPT !.at = 0]

Insert(c) ==
    LET f == caller[c].features
    IN  /\ caller[c].pc = "inserting"
        /\ IF RowsOf(f) # {}
           THEN Ends(c, IF \A r \in RowsOf(f) : SamePrediction(Record(c), r)
                        THEN "ok" ELSE "conflict")
           ELSE Goes(c, [caller[c] EXCEPT !.pc = IF Locked(f) THEN "waiting" ELSE "open"])
        /\ UNCHANGED <<sourceVars, rows, clock, reader, budgets>>

\* Mutant: the waiting INSERT goes on over the committed row.
InsertResumesAnyway(c) ==
    /\ caller[c].pc = "waiting" /\ ~ Locked(caller[c].features)
    /\ Goes(c, [caller[c] EXCEPT !.pc = "open"])
    /\ UNCHANGED <<sourceVars, rows, clock, reader, budgets>>

InsertResumes(c) ==
    LET f == caller[c].features
    IN  /\ caller[c].pc = "waiting" /\ ~ Locked(f)
        /\ IF RowsOf(f) # {} THEN Ends(c, "failed")
           ELSE Goes(c, [caller[c] EXCEPT !.pc = "open"])
        /\ UNCHANGED <<sourceVars, rows, clock, reader, budgets>>

CommitPrediction(c) ==
    /\ caller[c].pc = "open"
    /\ rows' = rows \cup {Record(c)}
    /\ Ends(c, "ok")
    /\ UNCHANGED <<sourceVars, clock, reader, budgets>>

\* The transaction fails, or it commits and its answer is lost.
PersistFails(c) ==
    /\ caller[c].pc \in {"inserting", "waiting", "open"}
    /\ Trouble
    /\ Ends(c, "failed")
    /\ rows' \in {rows, IF caller[c].pc = "open" THEN rows \cup {Record(c)} ELSE rows}
    /\ UNCHANGED <<sourceVars, clock, reader, calls>>

Persist(c) == Insert(c) \/ InsertResumes(c) \/ CommitPrediction(c)

-----------------------------------------------------------------------------
(* The API.                                                                *)

\* GetLatestPredictionForTenantResource.
ReadLatest ==
    /\ reader = NoRequest /\ rows # {}
    /\ \E r \in rows :
          /\ \A q \in rows : q.at <= r.at
          /\ reader' = [pc |-> "found", features |-> r.features]
    /\ UNCHANGED <<sourceVars, caller, rows, clock, budgets>>

\* Mutant: any snapshot that has the row will do.
FreshnessByRow(f) ==
    CASE SourceStatus = "stale" -> "stale"
      [] SourceStatus = "incomplete" -> "unavailable"
      [] OTHER -> IF ObservationDay \in RowDays(Series(Len(events))) THEN "fresh" ELSE "stale"

\* forecastPredictionFreshness, of the source as it now is.
Freshness(f) ==
    LET now == Series(Len(events))
    IN  IF SourceStatus = "stale" THEN "stale"
        ELSE IF SourceStatus # "complete" \/ ~ SnapshotComplete(now) THEN "unavailable"
        ELSE IF f = Len(events) /\ ObservationDay \in RowDays(now) THEN "fresh"
        ELSE "stale"

AnswerFreshness ==
    /\ reader.pc = "found"
    /\ Freshness(reader.features) \in {"fresh", "stale", "unavailable"}
    /\ reader' = NoRequest
    /\ UNCHANGED <<sourceVars, caller, rows, clock, budgets>>

-----------------------------------------------------------------------------
\* The artifacts that cover the dataset.  Scores outside the test split select
\* nothing.
Artifacts(ds) ==
    LET test == {d \in DOMAIN ds : ds[d].split = "test"}
    IN  {[d \in DOMAIN ds |-> IF d \in test THEN s[d] ELSE Abstained]
            : s \in [test -> Scores]}

Answer(c) ==
    \/ /\ caller[c].pc = "producing"
       /\ \E scores \in Artifacts(caller[c].held.ds) : Produce(c, scores)
    \/ \E risk \in Risks : Invoke(c, risk)

Call(c) == Answer(c) \/ Persist(c)

Next ==
    \/ \E e \in NewEvents : RecordEvent(e[1], e[2])
    \/ \E to \in {"applied", "quarantined", "pending"} : EventMoves(to)
    \/ \E c \in Callers, f \in FeatureIds : Start(c, f)
    \/ \E c \in Callers : Call(c) \/ PythonFails(c) \/ PersistFails(c)
    \/ ReadLatest \/ AnswerFreshness

Spec == Init /\ [][Next]_vars

-----------------------------------------------------------------------------
(* Properties.                                                             *)

\* No row depends on a later day: whatever quantity the days after it had, its
\* feature, its history hash and both baseline scores would be the same
\* (BuildFeatureSnapshot: "no future value is copied into a feature row").
NoFutureLeak ==
    \A c \in Callers : caller[c].pc = "producing" =>
        LET h == caller[c].held
            s == Series(caller[c].features)
        IN  \A d \in DOMAIN h.features, quantity \in {0, 1}, id \in Baselines :
               LET other == [e \in DOMAIN s |-> IF e <= d THEN s[e] ELSE quantity]
                   features == BuildFeatureSnapshot(other)
               IN  /\ h.features[d] = features[d]
                   /\ BaselineScore(h.ds, h.features, d, id) =
                      BaselineScore(BuildDataset(other), features, d, id)

\* What a baseline says at run time is what it was evaluated on: wherever the
\* evaluation has a score, from a label, the run-time scan of the feature rows
\* gives the same one.
RuntimeMatchesEvaluation ==
    \A c \in Callers : caller[c].pc = "producing" =>
        LET h == caller[c].held
        IN  \A d \in DOMAIN h.features, id \in Baselines :
               LET evaluated == BaselineScore(h.ds, h.features, d, id)
               IN  evaluated # Abstained => BaselineRuntimeScore(h.features, d, id) = evaluated

\* The mean, over the scored positives, of the share of positives among the rows
\* ranked no lower, as a fraction.
ReferencePrecision(ds, score) ==
    LET scored == {d \in DOMAIN ds : ds[d].split = "test" /\ score[d] # Abstained}
        above(d) == {e \in scored : score[e] > score[d]
                        \/ (score[e] = score[d] /\ RowId(e) <= RowId(d))}
        hits(days) == {e \in days : ds[e].label = 1}
        unit == ProductSet({Cardinality(above(d)) : d \in scored})
    IN  <<MapThenSumSet(LAMBDA d : Cardinality(hits(above(d)))
                                     * (unit \div Cardinality(above(d))), hits(scored)),
          unit * Cardinality(hits(scored))>>

\* A learned candidate runs only if it has earned it on the test split: it
\* scored enough rows, and no baseline that did so too ranks them as well.
PromotionIsEarned ==
    \A c \in Callers : caller[c].pc = "invoking" =>
        LET ds == caller[c].held.ds
            features == caller[c].held.features
            test == {d \in DOMAIN ds : ds[d].split = "test"}
            covers(score) ==
                100 * Cardinality({d \in test : score[d] # Abstained})
                    >= CoverageFloorPercent * Cardinality(test)
        IN  /\ covers(caller[c].scores)
            /\ \A id \in Baselines :
                  LET score == [d \in DOMAIN ds |-> BaselineScore(ds, features, d, id)]
                  IN  covers(score) =>
                        Less(ReferencePrecision(ds, score), ReferencePrecision(ds, caller[c].scores))

\* One prediction per input: there is one row for a snapshot, and every call
\* that succeeded was answered with what that row says, however calls race,
\* fail after their commit, and are made again.
OneAnswerPerInput ==
    /\ \A r, q \in rows : r.features = q.features => r = q
    /\ \A c \in Callers : caller[c].pc = "ok" =>
          \E r \in rows : SamePrediction(r, [Record(c) EXCEPT !.at = r.at])
                          /\ r.features = caller[c].features

\* A call is refused as a conflict only where a candidate is involved: two
\* baseline predictions of one input agree, so a baseline call can always be
\* made again.
BaselinesNeverConflict ==
    \A c \in Callers : caller[c].pc = "conflict" =>
        \/ caller[c].predictor = "candidate"
        \/ \E r \in RowsOf(caller[c].features) : r.predictor = "candidate"

\* A prediction is shown as fresh only if it was made from every event that the
\* source has and each of them is applied, though its row was read before the
\* source and an event may have come between.
FreshIsCurrent ==
    reader.pc = "found" /\ Freshness(reader.features) = "fresh" =>
        late = "applied" /\ Series(reader.features) = Series(Len(events))

\* A stored prediction is never changed or removed.
PredictionsAreImmutable == [][rows \subseteq rows']_rows

=============================================================================
