---------------------------- MODULE ForecastRules ---------------------------
(***************************************************************************)
(* The forecast protocol as pure operators (src/forecast): labelled rows   *)
(* and features from a daily series, the two baselines, the evaluation of  *)
(* a candidate against them, and the baseline at run time.                 *)
(*                                                                         *)
(* A series is one item's quantity by day, a function whose domain is the  *)
(* observed days.  A score between 0 and 1 is kept in units of             *)
(* 1 / HorizonDays.  A history hash is the series up to its cutoff.        *)
(***************************************************************************)
EXTENDS Integers, Sequences, FiniteSets, FiniteSetsExt

CONSTANTS
    HorizonDays, TrainDays, ValidationDays, TestDays,
    CoverageFloorPercent,
    RowId(_)    \* the order of the row ids, which are hashes of the days

ASSUME ProtocolAssumption ==
    /\ {HorizonDays, TrainDays, ValidationDays, TestDays} \subseteq Nat \ {0}
    /\ CoverageFloorPercent \in 0 .. 100

Abstained == -1
Baselines == {"moving_average", "seasonal_naive"}

-----------------------------------------------------------------------------
(* Rows.                                                                   *)

RequireDense(s) == DOMAIN s # {} /\ \A d, e \in DOMAIN s : d .. e \subseteq DOMAIN s

UniqueLabelableDates(s) == {d \in DOMAIN s : d + HorizonDays \in DOMAIN s}

AssignSplits(dates) ==
    [d \in dates |->
        LET idx == Cardinality({e \in dates : e <= d})
        IN  CASE idx <= TrainDays                             -> "train"
              [] idx <= TrainDays + ValidationDays            -> "validation"
              [] idx <= TrainDays + ValidationDays + TestDays -> "test"
              [] OTHER                                        -> "none"]

LabelAt(s, d) == IF \E i \in 1 .. HorizonDays : s[d + i] = 0 THEN 1 ELSE 0

\* Mutant: the hash covers the days of the label too.
HistoryHashWithLabel(s, cutoff) == [d \in {e \in DOMAIN s : e <= cutoff + HorizonDays} |-> s[d]]

HistoryHash(s, cutoff) == [d \in {e \in DOMAIN s : e <= cutoff} |-> s[d]]

\* The days of the dataset's examples and of the snapshot's rows.
RowDays(s) ==
    LET splits == AssignSplits(UniqueLabelableDates(s))
    IN  {d \in DOMAIN splits : splits[d] # "none"}

BuildDataset(s) ==
    LET splits == AssignSplits(UniqueLabelableDates(s))
    IN  [d \in RowDays(s) |->
            [label |-> LabelAt(s, d), split |-> splits[d], hash |-> HistoryHash(s, d)]]

BuildFeatureSnapshot(s) ==
    LET splits == AssignSplits(UniqueLabelableDates(s))
    IN  [d \in RowDays(s) |->
            [qty |-> s[d], split |-> splits[d], hash |-> HistoryHash(s, d)]]

\* A snapshot with rows is complete; one without is insufficient.
SnapshotComplete(s) == RequireDense(s) /\ RowDays(s) # {}

-----------------------------------------------------------------------------
(* Baselines.                                                              *)

ValidateBaselineInput(ds, features) ==
    /\ features # <<>> /\ DOMAIN ds = DOMAIN features
    /\ \A d \in DOMAIN ds :
          ds[d].split = features[d].split /\ ds[d].hash = features[d].hash

ZeroDays(features, window) == Cardinality({e \in window : features[e].qty = 0})

\* The last HorizonDays days up to d.
Window(d) == d - HorizonDays + 1 .. d

BaselineScore(ds, features, d, id) ==
    IF id = "seasonal_naive"
    THEN IF d - HorizonDays \in DOMAIN ds
         THEN HorizonDays * ds[d - HorizonDays].label ELSE Abstained
    ELSE IF Window(d) \subseteq DOMAIN features
         THEN ZeroDays(features, Window(d)) ELSE Abstained

\* Mutant: the window starts at the day looked back to.
BaselineRuntimeScoreEarly(features, d, id) ==
    LET known == {e \in DOMAIN features : e <= d}
        window == d - HorizonDays .. d - 1
    IN  IF ~ window \subseteq known THEN Abstained
        ELSE IF id = "moving_average" THEN ZeroDays(features, window)
        ELSE IF ZeroDays(features, window) > 0 THEN HorizonDays ELSE 0

\* BaselineRuntimeResponse.  The seasonal scan goes from the oldest day on and
\* stops at the first missing day or the first empty one.
BaselineRuntimeScore(features, d, id) ==
    LET known == {e \in DOMAIN features : e <= d}
        emptied == {e \in Window(d) \cap known :
                       features[e].qty = 0 /\ d - HorizonDays + 1 .. e \subseteq known}
    IN  IF id = "seasonal_naive" /\ emptied # {} THEN HorizonDays
        ELSE IF ~ Window(d) \subseteq known THEN Abstained
        ELSE IF id = "seasonal_naive" THEN 0
        ELSE ZeroDays(features, Window(d))

-----------------------------------------------------------------------------
(* Evaluation.  A fraction is a pair of numerator and denominator.         *)

Less(p, q) == p[1] * q[2] < q[1] * p[2]

\* averagePrecision: rows by falling score, ties by row id.
AveragePrecision(ds, score, scored) ==
    LET before(a, b) == score[a] > score[b] \/ (score[a] = score[b] /\ RowId(a) < RowId(b))
        ranked == [i \in 1 .. Cardinality(scored) |->
                     CHOOSE d \in scored : Cardinality({e \in scored : before(e, d)}) = i - 1]
        positive == {i \in DOMAIN ranked : ds[ranked[i]].label = 1}
        unit == ProductSet(DOMAIN ranked)
        seen(i) == Cardinality({j \in positive : j <= i})
    IN  <<MapThenSumSet(LAMBDA i : seen(i) * (unit \div i), positive),
          unit * Cardinality(positive)>>

BrierScore(ds, score, scored) ==
    <<MapThenSumSet(LAMBDA d : (score[d] - HorizonDays * ds[d].label)^2, scored),
      HorizonDays * HorizonDays * Cardinality(scored)>>

Evaluate(ds, split, score) ==
    LET examples == {d \in DOMAIN ds : ds[d].split = split}
        scored == {d \in examples : score[d] # Abstained}
        labels(days) == {ds[d].label : d \in days}
        defined == labels(examples) = {0, 1} /\ 1 \in labels(scored)
    IN  [n |-> Cardinality(examples), predicted |-> Cardinality(scored), defined |-> defined,
         ap |-> IF defined THEN AveragePrecision(ds, score, scored) ELSE <<0, 1>>,
         brier |-> IF defined THEN BrierScore(ds, score, scored) ELSE <<0, 1>>]

Qualifies(r) == r.defined /\ r.predicted * 100 >= r.n * CoverageFloorPercent

\* baselineBetter, for a baseline that comes later by id.
BaselineBetter(a, b) ==
    \/ Less(b.ap, a.ap)
    \/ ~ Less(a.ap, b.ap) /\ Less(a.brier, b.brier)
    \/ ~ Less(a.ap, b.ap) /\ ~ Less(b.brier, a.brier) /\ a.predicted > b.predicted

\* Mutant: the first baseline that qualifies is taken.
QualifyingBaselineFirst(results) ==
    IF Qualifies(results["moving_average"]) THEN "moving_average"
    ELSE IF Qualifies(results["seasonal_naive"]) THEN "seasonal_naive"
    ELSE "none"

QualifyingBaseline(results) ==
    LET moving == results["moving_average"]
        seasonal == results["seasonal_naive"]
    IN  CASE Qualifies(moving) /\ Qualifies(seasonal) ->
                IF BaselineBetter(seasonal, moving) THEN "seasonal_naive" ELSE "moving_average"
          [] Qualifies(moving) /\ ~ Qualifies(seasonal) -> "moving_average"
          [] ~ Qualifies(moving) /\ Qualifies(seasonal) -> "seasonal_naive"
          [] OTHER -> "none"

CandidatePromoted(candidate, baseline) ==
    /\ Qualifies(baseline) /\ Qualifies(candidate)
    /\ Less(baseline.ap, candidate.ap)
    /\ ~ Less(baseline.brier, candidate.brier)

\* EvaluateBaselines on one split.
BaselineResults(ds, features, split) ==
    [id \in Baselines |->
        Evaluate(ds, split, [d \in DOMAIN ds |-> BaselineScore(ds, features, d, id)])]

\* The promotion split decides: the candidate, the best baseline, or neither.
EvaluateCandidateArtifact(ds, features, results, score) ==
    LET best == QualifyingBaseline(results)
    IN  IF ~ ValidateBaselineInput(ds, features) \/ best = "none"
        THEN [outcome |-> "no_qualifying_baseline", baseline |-> "none"]
        ELSE [outcome |-> IF CandidatePromoted(Evaluate(ds, "test", score), results[best])
                          THEN "candidate" ELSE "baseline",
              baseline |-> best]

\* Refused when nothing qualifies.
SelectRuntimePredictor(evaluation) ==
    IF evaluation.outcome = "candidate" THEN "candidate" ELSE evaluation.baseline

=============================================================================
