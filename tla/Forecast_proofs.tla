-------------------------- MODULE Forecast_proofs ---------------------------
(***************************************************************************)
(* Proofs about predictions, for any number of callers, calls, events and  *)
(* failures, any lengths of the protocol's windows, and whatever Python    *)
(* answers: one stored answer per input; no row depends on a later day; a  *)
(* baseline says at run time what it was evaluated on, so two baseline     *)
(* predictions of one input never conflict.                                *)
(***************************************************************************)
EXTENDS Forecast, FiniteSetTheorems, TLAPS

Fields == {"pc", "features", "predictor", "risk", "at"}

\* A call has these fields.  What it holds in memory does not matter here.
IsCall(x) == Fields \subseteq DOMAIN x

\* A stored row says what a call says.
Says(r, x) == r.features = x.features /\ r.predictor = x.predictor /\ r.risk = x.risk

\* A transaction past its INSERT has no row, and no other transaction, against
\* it; a call that succeeded has a row that says the same.
AnswerInv ==
    /\ DOMAIN caller = Callers /\ caller = [c \in Callers |-> caller[c]]
    /\ \A c \in Callers : IsCall(caller[c])
    /\ \A r \in rows : r = [features |-> r.features, predictor |-> r.predictor,
                            risk |-> r.risk, at |-> r.at]
    /\ \A r, q \in rows : r.features = q.features => r = q
    /\ \A c \in Callers : caller[c].pc = "open" =>
          /\ \A r \in rows : r.features # caller[c].features
          /\ \A d \in Callers \ {c} :
                ~ (caller[d].pc = "open" /\ caller[d].features = caller[c].features)
    /\ \A c \in Callers : caller[c].pc = "ok" => \E r \in rows : Says(r, caller[c])

\* The provers to try on a leaf that names none, in this order.
USE Zenon, SMT, Z3

LEMMA NoCallIsCall ==
    ASSUME NEW p, NEW f, NEW h
    PROVE  /\ IsCall(NoCall) /\ NoCall.pc = "idle"
           /\ IsCall([NoCall EXCEPT !.pc = p]) /\ [NoCall EXCEPT !.pc = p].pc = p
           /\ IsCall([NoCall EXCEPT !.pc = p, !.features = f, !.held = h])
           /\ [NoCall EXCEPT !.pc = p, !.features = f, !.held = h].pc = p
BY DEF NoCall, IsCall, Fields

LEMMA AnswerInitHolds == Init => AnswerInv
<1> SUFFICES ASSUME Init PROVE AnswerInv
  OBVIOUS
<1>1. IsCall(NoCall) /\ NoCall.pc = "idle"
  BY NoCallIsCall
<1>2. caller = [c \in Callers |-> NoCall] /\ rows = {}
  BY DEF Init
<1> QED BY <1>1, <1>2 DEF AnswerInv

\* A call moves on, short of its INSERT or to an answer other than success.
LEMMA CallMovesOn ==
    ASSUME AnswerInv, NEW c \in Callers, NEW x, IsCall(x), x.pc \notin {"open", "ok"},
           caller' = [caller EXCEPT ![c] = x], rows' = rows
    PROVE  AnswerInv'
<1>1. /\ DOMAIN caller' = Callers /\ caller' = [d \in Callers |-> caller'[d]]
      /\ caller'[c] = x /\ \A d \in Callers \ {c} : caller'[d] = caller[d]
  BY SMT DEF AnswerInv
<1>2. \A d \in Callers : IsCall(caller'[d])
  BY <1>1 DEF AnswerInv
<1>3. \A d \in Callers : caller'[d].pc = "open" =>
          /\ \A r \in rows' : r.features # caller'[d].features
          /\ \A e \in Callers \ {d} :
                ~ (caller'[e].pc = "open" /\ caller'[e].features = caller'[d].features)
  BY SMT, <1>1 DEF AnswerInv
<1>4. \A d \in Callers : caller'[d].pc = "ok" => \E r \in rows' : Says(r, caller'[d])
  BY <1>1 DEF AnswerInv
<1> QED BY <1>1, <1>2, <1>3, <1>4 DEF AnswerInv

\* The INSERT finds neither a row nor a transaction against it.
LEMMA CallOpens ==
    ASSUME AnswerInv, NEW c \in Callers, NEW x, IsCall(x), x.pc = "open",
           x.features = caller[c].features, RowsOf(caller[c].features) = {},
           ~ Locked(caller[c].features),
           caller' = [caller EXCEPT ![c] = x], rows' = rows
    PROVE  AnswerInv'
<1>1. /\ DOMAIN caller' = Callers /\ caller' = [d \in Callers |-> caller'[d]]
      /\ caller'[c] = x /\ \A d \in Callers \ {c} : caller'[d] = caller[d]
  BY DEF AnswerInv
<1>2. \A d \in Callers : IsCall(caller'[d])
  BY <1>1 DEF AnswerInv
<1>3. /\ \A r \in rows : r.features # x.features
      /\ \A d \in Callers : ~ (caller[d].pc = "open" /\ caller[d].features = x.features)
  BY DEF RowsOf, Locked, Holds
<1>4. \A d \in Callers : caller'[d].pc = "open" =>
          /\ \A r \in rows' : r.features # caller'[d].features
          /\ \A e \in Callers \ {d} :
                ~ (caller'[e].pc = "open" /\ caller'[e].features = caller'[d].features)
  BY SMT, <1>1, <1>3 DEF AnswerInv
<1>5. \A d \in Callers : caller'[d].pc = "ok" => \E r \in rows' : Says(r, caller'[d])
  BY <1>1 DEF AnswerInv
<1> QED BY <1>1, <1>2, <1>4, <1>5 DEF AnswerInv

\* A stored row answers the call.
LEMMA CallIsAnswered ==
    ASSUME AnswerInv, NEW c \in Callers, NEW x, IsCall(x), x.pc = "ok",
           NEW r \in rows, Says(r, x),
           caller' = [caller EXCEPT ![c] = x], rows' = rows
    PROVE  AnswerInv'
<1>1. /\ DOMAIN caller' = Callers /\ caller' = [d \in Callers |-> caller'[d]]
      /\ caller'[c] = x /\ \A d \in Callers \ {c} : caller'[d] = caller[d]
  BY DEF AnswerInv
<1>2. \A d \in Callers : IsCall(caller'[d])
  BY <1>1 DEF AnswerInv
<1>3. \A d \in Callers : caller'[d].pc = "open" =>
          /\ \A q \in rows' : q.features # caller'[d].features
          /\ \A e \in Callers \ {d} :
                ~ (caller'[e].pc = "open" /\ caller'[e].features = caller'[d].features)
  BY SMT, <1>1 DEF AnswerInv
<1>4. \A d \in Callers : caller'[d].pc = "ok" => \E q \in rows' : Says(q, caller'[d])
  BY <1>1 DEF AnswerInv
<1> QED BY ZenonT(60), <1>1, <1>2, <1>3, <1>4 DEF AnswerInv

\* The transaction commits its row, and its answer arrives or is lost.
LEMMA CallCommits ==
    ASSUME AnswerInv, NEW c \in Callers, NEW x, IsCall(x), caller[c].pc = "open",
           \/ x.pc = "ok" /\ Says(caller[c], x)
           \/ x.pc \notin {"ok", "open"},
           caller' = [caller EXCEPT ![c] = x], rows' = rows \cup {Record(c)}
    PROVE  AnswerInv'
<1>1. /\ DOMAIN caller' = Callers /\ caller' = [d \in Callers |-> caller'[d]]
      /\ caller'[c] = x /\ \A d \in Callers \ {c} : caller'[d] = caller[d]
  BY DEF AnswerInv
<1>2. \A d \in Callers : IsCall(caller'[d])
  BY <1>1 DEF AnswerInv
<1>3. /\ Record(c).features = caller[c].features /\ Says(Record(c), caller[c])
      /\ Record(c) = [features |-> Record(c).features, predictor |-> Record(c).predictor,
                      risk |-> Record(c).risk, at |-> Record(c).at]
  BY DEF Record, Says
<1>4. \A r \in rows : r.features # caller[c].features
  BY DEF AnswerInv
<1>5. \A d \in Callers \ {c} : ~ (caller[d].pc = "open" /\ caller[d].features = caller[c].features)
  BY DEF AnswerInv
<1>6. \A r, q \in rows' : r.features = q.features => r = q
  BY SMT, <1>3, <1>4 DEF AnswerInv
<1>7. \A r \in rows' : r = [features |-> r.features, predictor |-> r.predictor,
                            risk |-> r.risk, at |-> r.at]
  <2> TAKE r \in rows'
  <2>1. CASE r \in rows
    BY <2>1 DEF AnswerInv
  <2>2. CASE r = Record(c)
    BY <1>3, <2>2
  <2> QED BY <2>1, <2>2
<1>8. \A d \in Callers : caller'[d].pc = "open" =>
          /\ \A r \in rows' : r.features # caller'[d].features
          /\ \A e \in Callers \ {d} :
                ~ (caller'[e].pc = "open" /\ caller'[e].features = caller'[d].features)
  BY SMT, <1>1, <1>3, <1>5 DEF AnswerInv
<1>9. ASSUME NEW d \in Callers, caller'[d].pc = "ok" PROVE \E r \in rows' : Says(r, caller'[d])
  <2>1. CASE d = c
    <3>1. Says(caller[c], x)
      BY <1>1, <1>9, <2>1
    <3>2. Says(Record(c), x)
      BY <1>3, <3>1 DEF Says
    <3> QED BY <1>1, <2>1, <3>2
  <2>2. CASE d # c
    <3>1. PICK r \in rows : Says(r, caller[d])
      BY <1>1, <1>9, <2>2 DEF AnswerInv
    <3> QED BY <1>1, <2>2, <3>1
  <2> QED BY <2>1, <2>2
<1> QED BY <1>1, <1>2, <1>6, <1>7, <1>8, <1>9 DEF AnswerInv

-----------------------------------------------------------------------------
(* The actions.                                                            *)

LEMMA CallSteps ==
    ASSUME NEW y, IsCall(y), NEW p, NEW n
    PROVE  /\ IsCall([y EXCEPT !.pc = p]) /\ [y EXCEPT !.pc = p].pc = p
           /\ [y EXCEPT !.pc = p].features = y.features
           /\ IsCall([y EXCEPT !.pc = p, !.at = n]) /\ [y EXCEPT !.pc = p, !.at = n].pc = p
           /\ Says(y, [y EXCEPT !.pc = p, !.at = n])
BY DEF IsCall, Fields, Says

LEMMA EndsSteps ==
    ASSUME AnswerInv, NEW c \in Callers, NEW answer, Ends(c, answer)
    PROVE  \E x : /\ IsCall(x) /\ x.pc = answer /\ caller' = [caller EXCEPT ![c] = x]
                  /\ answer # "failed" => Says(caller[c], x)
<1>1. IsCall(caller[c])
  BY DEF AnswerInv
<1>2. CASE answer = "failed"
  BY <1>2, NoCallIsCall DEF Ends, Goes
<1>3. CASE answer # "failed"
  BY ZenonT(60), <1>1, <1>3, CallSteps DEF Ends, Goes
<1> QED BY <1>2, <1>3

LEMMA FailedKeepsInv ==
    ASSUME AnswerInv, NEW c \in Callers, NEW answer \in {"failed", "conflict"}, Ends(c, answer),
           rows' = rows
    PROVE  AnswerInv'
BY EndsSteps, CallMovesOn

\* Starting a call and everything before its transaction.
LEMMA AnswerKeepsInv ==
    ASSUME AnswerInv, NEW c \in Callers,
           Answer(c) \/ PythonFails(c) \/ (\E f \in FeatureIds : Start(c, f))
    PROVE  AnswerInv'
<1>0. IsCall(caller[c])
  BY DEF AnswerInv
<1>1. ASSUME NEW f, Start(c, f) PROVE AnswerInv'
  <2> DEFINE y == [NoCall EXCEPT !.pc = "producing", !.features = f, !.held = Held(f)]
  <2>1. IsCall(y) /\ y.pc = "producing"
    BY ZenonT(60), NoCallIsCall
  <2>2. caller' = [caller EXCEPT ![c] = y] /\ rows' = rows
    BY <1>1 DEF Start, Goes
  <2> HIDE DEF y
  <2> QED BY <2>1, <2>2, CallMovesOn
<1>2. CASE PythonFails(c)
  BY <1>2, FailedKeepsInv DEF PythonFails
<1>3. ASSUME NEW b, NEW k, RecordOf(c, b, k), rows' = rows PROVE AnswerInv'
  <2> DEFINE y == [caller[c] EXCEPT !.pc = "inserting", !.predictor = b, !.risk = k, !.at = clock,
                                    !.held = <<>>, !.scores = <<>>]
  <2>1. IsCall(y) /\ y.pc = "inserting"
    BY <1>0 DEF IsCall, Fields
  <2>2. caller' = [caller EXCEPT ![c] = y]
    BY <1>3 DEF RecordOf, Goes
  <2> HIDE DEF y
  <2> QED BY <1>3, <2>1, <2>2, CallMovesOn
<1>4. ASSUME NEW s, Produce(c, s) PROVE AnswerInv'
  <2>1. rows' = rows
    BY <1>4 DEF Produce
  <2>2. \/ Ends(c, "failed")
        \/ Goes(c, [caller[c] EXCEPT !.pc = "invoking", !.scores = s])
        \/ \E b, k : RecordOf(c, b, k)
    BY <1>4 DEF Produce
  <2>3. CASE Goes(c, [caller[c] EXCEPT !.pc = "invoking", !.scores = s])
    <3> DEFINE y == [caller[c] EXCEPT !.pc = "invoking", !.scores = s]
    <3>1. IsCall(y) /\ y.pc = "invoking"
      BY <1>0 DEF IsCall, Fields
    <3>2. caller' = [caller EXCEPT ![c] = y]
      BY <2>3 DEF Goes
    <3> HIDE DEF y
    <3> QED BY <2>1, <3>1, <3>2, CallMovesOn
  <2> QED BY <1>3, <2>1, <2>2, <2>3, FailedKeepsInv
<1>5. ASSUME NEW k, Invoke(c, k) PROVE AnswerInv'
  BY <1>3, <1>5 DEF Invoke
<1> QED BY <1>1, <1>2, <1>4, <1>5 DEF Answer

\* A stored row and a record that are the same prediction say the same.
LEMMA SameSays ==
    ASSUME AnswerInv, NEW r \in rows, NEW c \in Callers, r.features = caller[c].features
    PROVE  /\ SamePrediction(Record(c), r) <=> Says(r, caller[c])
           /\ Says(r, caller[c]) => SamePrediction(r, [Record(c) EXCEPT !.at = r.at])
<1>1. r = [features |-> r.features, predictor |-> r.predictor, risk |-> r.risk, at |-> r.at]
  BY DEF AnswerInv
<1>2. [r EXCEPT !.at = 0] = [features |-> r.features, predictor |-> r.predictor, risk |-> r.risk, at |-> 0]
  BY <1>1
<1>3. [Record(c) EXCEPT !.at = 0] =
        [features |-> caller[c].features, predictor |-> caller[c].predictor, risk |-> caller[c].risk, at |-> 0]
  BY DEF Record
<1>4. [[Record(c) EXCEPT !.at = r.at] EXCEPT !.at = 0] = [Record(c) EXCEPT !.at = 0]
  BY DEF Record
<1>5. SamePrediction(Record(c), r) <=> Says(r, caller[c])
  BY <1>2, <1>3 DEF SamePrediction, Says
<1>6. Says(r, caller[c]) => SamePrediction(r, [Record(c) EXCEPT !.at = r.at])
  BY <1>2, <1>3, <1>4 DEF SamePrediction, Says
<1> QED BY <1>5, <1>6

\* The transaction.
LEMMA PersistKeepsInv ==
    ASSUME AnswerInv, NEW c \in Callers, Persist(c) \/ PersistFails(c)
    PROVE  AnswerInv' /\ rows \subseteq rows'
<1>0. IsCall(caller[c])
  BY DEF AnswerInv
<1> DEFINE f == caller[c].features
           o == [caller[c] EXCEPT !.pc = "open"]
           w == [caller[c] EXCEPT !.pc = "waiting"]
<1>1. /\ IsCall(o) /\ o.pc = "open" /\ o.features = f
      /\ IsCall(w) /\ w.pc = "waiting"
  BY <1>0, CallSteps
<1>2. CASE Insert(c)
  <2>1. rows' = rows
    BY <1>2 DEF Insert
  <2>2. CASE RowsOf(f) # {} /\ \A r \in RowsOf(f) : SamePrediction(Record(c), r)
    <3>1. PICK r \in RowsOf(f) : SamePrediction(Record(c), r)
      BY <2>2
    <3>2. r \in rows /\ Says(r, caller[c])
      BY <3>1, SameSays DEF RowsOf
    <3>3. PICK x : IsCall(x) /\ x.pc = "ok" /\ caller' = [caller EXCEPT ![c] = x] /\ Says(caller[c], x)
      BY <1>2, <2>2, EndsSteps DEF Insert
    <3>4. Says(r, x)
      BY <3>2, <3>3 DEF Says
    <3> QED BY ZenonT(60), <2>1, <3>2, <3>3, <3>4, CallIsAnswered
  <2>3. CASE RowsOf(f) # {} /\ ~ \A r \in RowsOf(f) : SamePrediction(Record(c), r)
    BY <1>2, <2>1, <2>3, FailedKeepsInv DEF Insert
  <2>4. CASE RowsOf(f) = {} /\ Locked(f)
    <3>1. caller' = [caller EXCEPT ![c] = w]
      BY <1>2, <2>4 DEF Insert, Goes
    <3> HIDE DEF w
    <3> QED BY <1>1, <2>1, <3>1, CallMovesOn
  <2>5. CASE RowsOf(f) = {} /\ ~ Locked(f)
    <3>1. caller' = [caller EXCEPT ![c] = o]
      BY <1>2, <2>5 DEF Insert, Goes
    <3> HIDE DEF o
    <3> QED BY <1>1, <2>1, <2>5, <3>1, CallOpens
  <2> QED BY <2>2, <2>3, <2>4, <2>5
<1>3. CASE InsertResumes(c)
  <2>1. rows' = rows /\ ~ Locked(f)
    BY <1>3 DEF InsertResumes
  <2>2. CASE RowsOf(f) # {}
    BY <1>3, <2>1, <2>2, FailedKeepsInv DEF InsertResumes
  <2>3. CASE RowsOf(f) = {}
    <3>1. caller' = [caller EXCEPT ![c] = o]
      BY <1>3, <2>3 DEF InsertResumes, Goes
    <3> HIDE DEF o
    <3> QED BY <1>1, <2>1, <2>3, <3>1, CallOpens
  <2> QED BY <2>2, <2>3
<1>4. CASE CommitPrediction(c)
  <2>1. PICK x : IsCall(x) /\ x.pc = "ok" /\ caller' = [caller EXCEPT ![c] = x] /\ Says(caller[c], x)
    BY <1>4, EndsSteps DEF CommitPrediction
  <2> QED BY <1>4, <2>1, CallCommits DEF CommitPrediction
<1>5. CASE PersistFails(c)
  <2>1. PICK x : IsCall(x) /\ x.pc = "failed" /\ caller' = [caller EXCEPT ![c] = x]
    BY <1>5, EndsSteps DEF PersistFails
  <2>2. rows' = rows \/ (caller[c].pc = "open" /\ rows' = rows \cup {Record(c)})
    BY <1>5 DEF PersistFails
  <2> QED BY <2>1, <2>2, CallMovesOn, CallCommits
<1> QED BY <1>2, <1>3, <1>4, <1>5 DEF Persist

LEMMA ForecastMoves ==
    ASSUME AnswerInv, [Next]_vars
    PROVE  AnswerInv' /\ rows \subseteq rows'
<1>1. CASE \E c \in Callers : Persist(c) \/ PersistFails(c)
  BY <1>1, PersistKeepsInv
<1>2. CASE \E c \in Callers : Answer(c) \/ PythonFails(c) \/ (\E f \in FeatureIds : Start(c, f))
  <2>1. rows' = rows
    BY <1>2 DEF Answer, Produce, Invoke, PythonFails, Start
  <2> QED BY <1>2, <2>1, AnswerKeepsInv
<1>3. CASE UNCHANGED <<caller, rows>>
  BY SMT, <1>3 DEF AnswerInv
<1> QED BY <1>1, <1>2, <1>3 DEF Next, Call, vars, RecordEvent, EventMoves, ReadLatest, AnswerFreshness

LEMMA AnswerInductive == Spec => []AnswerInv
<1>1. AnswerInv /\ [Next]_vars => AnswerInv'
  BY ForecastMoves
<1> QED BY <1>1, AnswerInitHolds, PTL DEF Spec

-----------------------------------------------------------------------------
(* The protocol's rules on a daily series.                                 *)

\* A dense series of finitely many days.
IsSeries(s) == DOMAIN s \subseteq Int /\ IsFiniteSet(DOMAIN s) /\ RequireDense(s)

\* The splits of two series over the same days are the same.
LEMMA SplitsByDays ==
    ASSUME NEW s, NEW t, DOMAIN t = DOMAIN s
    PROVE  /\ UniqueLabelableDates(t) = UniqueLabelableDates(s)
           /\ AssignSplits(UniqueLabelableDates(t)) = AssignSplits(UniqueLabelableDates(s))
           /\ RowDays(t) = RowDays(s)
<1>1. UniqueLabelableDates(t) = UniqueLabelableDates(s)
  BY DEF UniqueLabelableDates
<1> QED BY <1>1 DEF RowDays

\* What a row is.
LEMMA RowFields ==
    ASSUME NEW s
    PROVE  /\ DOMAIN BuildDataset(s) = RowDays(s) /\ DOMAIN BuildFeatureSnapshot(s) = RowDays(s)
           /\ \A d \in RowDays(s) :
                 /\ BuildDataset(s)[d].label = LabelAt(s, d)
                 /\ BuildFeatureSnapshot(s)[d].qty = s[d]
                 /\ BuildFeatureSnapshot(s)[d] =
                      [qty |-> s[d], split |-> AssignSplits(UniqueLabelableDates(s))[d],
                       hash |-> HistoryHash(s, d)]
           /\ RowDays(s) \subseteq UniqueLabelableDates(s)
<1>1. RowDays(s) \subseteq UniqueLabelableDates(s)
  BY DEF RowDays, AssignSplits
<1>2. /\ DOMAIN BuildDataset(s) = RowDays(s)
      /\ \A d \in RowDays(s) : BuildDataset(s)[d].label = LabelAt(s, d)
  BY DEF BuildDataset
<1>3. /\ DOMAIN BuildFeatureSnapshot(s) = RowDays(s)
      /\ \A d \in RowDays(s) : BuildFeatureSnapshot(s)[d] =
                      [qty |-> s[d], split |-> AssignSplits(UniqueLabelableDates(s))[d],
                       hash |-> HistoryHash(s, d)]
  BY DEF BuildFeatureSnapshot
<1> QED BY <1>1, <1>2, <1>3

\* The rows of a dense series are dense: an earlier labelable day has no later
\* place in the order of splits.
LEMMA RowsAreDense ==
    ASSUME NEW s, IsSeries(s), NEW d \in RowDays(s), NEW b \in RowDays(s)
    PROVE  b .. d \subseteq RowDays(s) /\ b .. d \subseteq DOMAIN s
<1> DEFINE dates == UniqueLabelableDates(s)
           upto(e) == {x \in dates : x <= e}
<1>0. HorizonDays \in Nat
  BY ProtocolAssumption
<1>1. /\ b \in dates /\ d \in dates /\ dates \subseteq DOMAIN s /\ DOMAIN s \subseteq Int
      /\ b + HorizonDays \in DOMAIN s /\ d + HorizonDays \in DOMAIN s
      /\ \A x, y \in DOMAIN s : x .. y \subseteq DOMAIN s
  BY RowFields DEF IsSeries, RequireDense, UniqueLabelableDates
<1>2. ASSUME NEW e \in b .. d PROVE e \in RowDays(s)
  <2>1. e \in DOMAIN s /\ e + HorizonDays \in DOMAIN s
    BY SMT, <1>0, <1>1
  <2>2. e \in dates
    BY <2>1 DEF UniqueLabelableDates
  <2>3. upto(e) \subseteq upto(d) /\ IsFiniteSet(upto(d))
    <3>1. upto(d) \subseteq DOMAIN s
      BY <1>1
    <3>2. upto(e) \subseteq upto(d)
      BY <1>1, <2>1
    <3> QED BY <3>1, <3>2, FS_Subset DEF IsSeries
  <2>4. /\ Cardinality(upto(e)) \in Nat /\ Cardinality(upto(d)) \in Nat
        /\ Cardinality(upto(e)) <= Cardinality(upto(d))
    BY <2>3, FS_Subset, FS_CardinalityType
  <2> HIDE DEF upto
  <2>5. AssignSplits(dates)[d] # "none"
    BY DEF RowDays
  <2>6. Cardinality(upto(d)) <= TrainDays + ValidationDays + TestDays
    BY <1>1, <2>4, <2>5, ProtocolAssumption DEF AssignSplits, upto
  <2>7. AssignSplits(dates)[e] # "none"
    BY SMT, <2>2, <2>4, <2>6, ProtocolAssumption DEF AssignSplits, upto
  <2> QED BY <2>2, <2>7 DEF RowDays, AssignSplits
<1> QED BY <1>1, <1>2

\* The label HorizonDays ago is about exactly the days of the window.
LEMMA LabelIsWindow ==
    ASSUME NEW s, NEW d \in Int
    PROVE  LabelAt(s, d - HorizonDays) = IF \E e \in Window(d) : s[e] = 0 THEN 1 ELSE 0
<1>0. HorizonDays \in Nat \ {0}
  BY ProtocolAssumption
<1>1. ASSUME NEW i \in 1 .. HorizonDays, s[d - HorizonDays + i] = 0
      PROVE  \E e \in Window(d) : s[e] = 0
  <2>1. d - HorizonDays + i \in Window(d)
    BY <1>0 DEF Window
  <2> QED BY <1>1, <2>1
<1>2. ASSUME NEW e \in Window(d), s[e] = 0
      PROVE  \E i \in 1 .. HorizonDays : s[d - HorizonDays + i] = 0
  <2>1. /\ e - (d - HorizonDays) \in 1 .. HorizonDays
        /\ d - HorizonDays + (e - (d - HorizonDays)) = e
    BY <1>0 DEF Window
  <2> QED BY <1>2, <2>1
<1> QED BY <1>1, <1>2 DEF LabelAt

\* Looking back from a row to a row: every day of the window is a row.
LEMMA WindowHasRows ==
    ASSUME NEW s, IsSeries(s), NEW d \in RowDays(s), d - HorizonDays \in RowDays(s)
    PROVE  d \in Int /\ Window(d) \subseteq RowDays(s) /\ Window(d) \subseteq DOMAIN s
<1>1. HorizonDays \in Nat \ {0} /\ d \in Int
  BY ProtocolAssumption, RowFields DEF UniqueLabelableDates, IsSeries
<1>2. Window(d) \subseteq d - HorizonDays .. d
  BY <1>1 DEF Window
<1> QED BY <1>1, <1>2, RowsAreDense

\* BaselineRuntimeResponse gives what baselineScore gave.
LEMMA RuntimeScoreMatches ==
    ASSUME NEW s, IsSeries(s), NEW d \in RowDays(s), NEW id \in Baselines,
           BaselineScore(BuildDataset(s), BuildFeatureSnapshot(s), d, id) # Abstained
    PROVE  BaselineRuntimeScore(BuildFeatureSnapshot(s), d, id) =
           BaselineScore(BuildDataset(s), BuildFeatureSnapshot(s), d, id)
<1> DEFINE ds == BuildDataset(s)
           features == BuildFeatureSnapshot(s)
           known == {e \in DOMAIN features : e <= d}
           emptied == {e \in Window(d) \cap known :
                          features[e].qty = 0 /\ d - HorizonDays + 1 .. e \subseteq known}
<1>0. HorizonDays \in Nat \ {0}
  BY ProtocolAssumption
<1>1. DOMAIN ds = RowDays(s) /\ DOMAIN features = RowDays(s)
  BY RowFields
<1>2. /\ \A e \in RowDays(s) : ds[e].label = LabelAt(s, e)
      /\ \A e \in RowDays(s) : features[e].qty = s[e]
  BY RowFields
<1>3. d \in Int /\ RowDays(s) \subseteq Int
  BY RowFields DEF UniqueLabelableDates, IsSeries
<1>4. BaselineRuntimeScore(features, d, id) =
        IF id = "seasonal_naive" /\ emptied # {} THEN HorizonDays
        ELSE IF ~ Window(d) \subseteq known THEN Abstained
        ELSE IF id = "seasonal_naive" THEN 0
        ELSE ZeroDays(features, Window(d))
  BY DEF BaselineRuntimeScore
<1> HIDE DEF ds, features
<1>5. CASE id = "moving_average"
  <2>1. /\ Window(d) \subseteq DOMAIN features
        /\ BaselineScore(ds, features, d, id) = ZeroDays(features, Window(d))
    BY <1>5 DEF BaselineScore, ds, features
  <2>2. Window(d) \subseteq known
    BY <1>0, <1>3, <2>1 DEF Window
  <2> HIDE DEF known, emptied
  <2> QED BY <1>4, <1>5, <2>1, <2>2 DEF ds, features
<1>6. CASE id = "seasonal_naive"
  <2>1. /\ d - HorizonDays \in RowDays(s)
        /\ BaselineScore(ds, features, d, id) = HorizonDays * LabelAt(s, d - HorizonDays)
    BY <1>1, <1>2, <1>6 DEF BaselineScore, ds, features
  <2>2. Window(d) \subseteq RowDays(s)
    BY <2>1, WindowHasRows
  <2>3. Window(d) \subseteq known
    BY SMT, <1>0, <1>1, <1>3, <2>2 DEF Window
  <2>4. \A e \in Window(d) : d - HorizonDays + 1 .. e \subseteq Window(d)
    BY SMT, <1>0, <1>3 DEF Window
  <2>5. emptied = {e \in Window(d) : s[e] = 0}
    BY <1>2, <2>2, <2>3, <2>4
  <2>6. LabelAt(s, d - HorizonDays) = IF emptied # {} THEN 1 ELSE 0
    BY SMT, <1>3, <2>5, LabelIsWindow
  <2> HIDE DEF known, emptied
  <2>7. BaselineScore(ds, features, d, id) = IF emptied # {} THEN HorizonDays ELSE 0
    BY <1>0, <2>1, <2>6
  <2> QED BY <1>4, <1>6, <2>3, <2>7 DEF ds, features
<1> QED BY <1>5, <1>6 DEF Baselines

\* The rows up to d, and the baselines' scores of d, are those of any series
\* that has the same days and agrees with s up to d.
LEMMA RowsIgnoreFuture ==
    ASSUME NEW s, IsSeries(s), NEW d \in RowDays(s), NEW id \in Baselines, NEW t,
           DOMAIN t = DOMAIN s, \A e \in DOMAIN s : e <= d => t[e] = s[e]
    PROVE  /\ BuildFeatureSnapshot(s)[d] = BuildFeatureSnapshot(t)[d]
           /\ BaselineScore(BuildDataset(s), BuildFeatureSnapshot(s), d, id) =
              BaselineScore(BuildDataset(t), BuildFeatureSnapshot(t), d, id)
<1>0. HorizonDays \in Nat \ {0} /\ d \in Int /\ d \in DOMAIN s
  BY ProtocolAssumption, RowFields DEF UniqueLabelableDates, IsSeries
<1>1. /\ AssignSplits(UniqueLabelableDates(t)) = AssignSplits(UniqueLabelableDates(s))
      /\ RowDays(t) = RowDays(s)
  BY SplitsByDays
<1>2. RowDays(s) \subseteq DOMAIN s /\ DOMAIN s \subseteq Int
  BY RowFields DEF UniqueLabelableDates, IsSeries
<1>3. HistoryHash(t, d) = HistoryHash(s, d)
  BY DEF HistoryHash
<1> DEFINE splits == AssignSplits(UniqueLabelableDates(s))
<1>a. \A e \in RowDays(s) :
        /\ BuildDataset(s)[e].label = LabelAt(s, e)
        /\ BuildFeatureSnapshot(s)[e].qty = s[e]
        /\ BuildFeatureSnapshot(s)[e] = [qty |-> s[e], split |-> splits[e], hash |-> HistoryHash(s, e)]
  BY RowFields
<1>b. \A e \in RowDays(s) :
        /\ BuildDataset(t)[e].label = LabelAt(t, e)
        /\ BuildFeatureSnapshot(t)[e].qty = t[e]
        /\ BuildFeatureSnapshot(t)[e] = [qty |-> t[e], split |-> splits[e], hash |-> HistoryHash(t, e)]
  <2>1. \A e \in RowDays(t) :
          /\ BuildDataset(t)[e].label = LabelAt(t, e)
          /\ BuildFeatureSnapshot(t)[e].qty = t[e]
          /\ BuildFeatureSnapshot(t)[e] =
               [qty |-> t[e], split |-> AssignSplits(UniqueLabelableDates(t))[e],
                hash |-> HistoryHash(t, e)]
    BY RowFields
  <2> QED BY <1>1, <2>1
<1> HIDE DEF splits
<1>4. BuildFeatureSnapshot(s)[d] = BuildFeatureSnapshot(t)[d]
  <2>1. t[d] = s[d]
    BY <1>0
  <2> QED BY <1>3, <1>a, <1>b, <2>1
<1>5. ASSUME d - HorizonDays \in RowDays(s)
      PROVE  BuildDataset(s)[d - HorizonDays].label = BuildDataset(t)[d - HorizonDays].label
  <2>1. Window(d) \subseteq DOMAIN s
    BY <1>5, WindowHasRows
  <2>2. \A e \in Window(d) : t[e] = s[e]
    BY SMT, <1>0, <2>1 DEF Window
  <2>3. LabelAt(t, d - HorizonDays) = LabelAt(s, d - HorizonDays)
    BY SMT, <1>0, <2>2, LabelIsWindow
  <2> QED BY <1>5, <1>a, <1>b, <2>3
<1>6. ASSUME Window(d) \subseteq RowDays(s)
      PROVE  ZeroDays(BuildFeatureSnapshot(s), Window(d)) = ZeroDays(BuildFeatureSnapshot(t), Window(d))
  <2>1. \A e \in Window(d) : t[e] = s[e]
    BY SMT, <1>0, <1>2, <1>6 DEF Window
  <2>2. \A e \in Window(d) : BuildFeatureSnapshot(s)[e].qty = BuildFeatureSnapshot(t)[e].qty
    BY <1>6, <1>a, <1>b, <2>1
  <2>3. {e \in Window(d) : BuildFeatureSnapshot(s)[e].qty = 0} =
        {e \in Window(d) : BuildFeatureSnapshot(t)[e].qty = 0}
    BY <2>2
  <2> QED BY <2>3 DEF ZeroDays
<1>7. /\ DOMAIN BuildDataset(s) = RowDays(s) /\ DOMAIN BuildDataset(t) = RowDays(s)
      /\ DOMAIN BuildFeatureSnapshot(s) = RowDays(s) /\ DOMAIN BuildFeatureSnapshot(t) = RowDays(s)
  BY <1>1, RowFields
<1>8. BaselineScore(BuildDataset(s), BuildFeatureSnapshot(s), d, id) =
      BaselineScore(BuildDataset(t), BuildFeatureSnapshot(t), d, id)
  BY <1>5, <1>6, <1>7 DEF BaselineScore
<1> QED BY <1>4, <1>8

-----------------------------------------------------------------------------
(* The source, and what a call makes of it.                                *)

\* A set of positions up to n that is not empty has a last one.
LEMMA LastPosition ==
    ASSUME NEW n \in Nat, NEW S, S \subseteq 1 .. n, S # {}
    PROVE  Max(S) \in S
<1> DEFINE R == OpToRel(<, Nat)
           T == {k \in Nat : n - k \in S}
<1>1. IsWellFoundedOn(R, Nat)
  BY NatLessThanWellFounded
<1>2. \A x, y \in Nat : y < x => <<y, x>> \in R
  BY DEF OpToRel
<1> HIDE DEF R
<1>3. T # {} /\ T \subseteq Nat
  <2>1. PICK i \in S : TRUE
    OBVIOUS
  <2>2. i \in 1 .. n /\ n - (n - i) = i /\ n - i \in Nat
    OBVIOUS
  <2>3. n - i \in T
    BY <2>2
  <2> QED BY <2>3
<1>4. PICK x \in T : \A y \in T : ~ (<<y, x>> \in R)
  <2> HIDE DEF T
  <2> QED BY <1>1, <1>3, WFMin
<1>5. ASSUME NEW y \in T PROVE y >= x
  <2>1. y \in Nat /\ x \in Nat
    OBVIOUS
  <2>2. ~ (y < x)
    BY <1>2, <1>4, <2>1
  <2> QED BY <2>1, <2>2
<1>6. ASSUME NEW j \in S PROVE n - x >= j
  <2>1. j \in 1 .. n /\ n - j \in Nat /\ n - (n - j) = j
    OBVIOUS
  <2>2. n - j \in T
    BY <2>1
  <2>3. n - j >= x
    BY <1>5, <2>2
  <2> QED BY <2>1, <2>3
<1>7. n - x \in S /\ \A j \in S : n - x >= j
  BY <1>6
<1> HIDE DEF T
<1> QED BY <1>7 DEF Max

SourceEvent == [day : Nat, after : Nat]

\* The source starts with an event a day and only grows.
SourceInv ==
    /\ events \in Seq(SourceEvent) /\ Len(events) >= History
    /\ \A i \in 1 .. History : events[i].day = i

PastStays ==
    Len(events) <= Len(events') /\ \A i \in 1 .. Len(events) : events'[i] = events[i]

\* The events a snapshot was built from have happened.
Reads(f) == f = Frozen \/ f \in 1 .. Len(events)

\* What a baseline call records, a function of its snapshot alone.
BaselinePredictor(f) == QualifyingBaseline(Held(f).results)
BaselineRisk(f) ==
    BaselineRuntimeScore(Held(f).features, ObservationDay, BaselinePredictor(f))
Foretells(x, f) == x.predictor = BaselinePredictor(f) /\ x.risk = BaselineRisk(f)

Recorded == {"inserting", "waiting", "open", "ok", "conflict"}

\* While Python works, a call holds what the series of its snapshot gives, and
\* that series is dense; what it records without a candidate is the baseline's.
CallIsTrue(x, f) ==
    x.features = f =>
        /\ Reads(f)
        /\ x.pc = "producing" => x.held = Held(f) /\ IsSeries(Series(f))
        /\ x.pc \in Recorded /\ x.predictor # "candidate" => Foretells(x, f)

RowIsTrue(r, f) ==
    r.features = f => Reads(f) /\ (r.predictor # "candidate" => Foretells(r, f))

MemoryInv ==
    /\ \A c \in Callers : \A f : CallIsTrue(caller[c], f)
    /\ \A r \in rows : \A f : RowIsTrue(r, f)
    /\ BaselinesNeverConflict

LEMMA SourceInitHolds == Init => SourceInv
<1> SUFFICES ASSUME Init PROVE SourceInv
  OBVIOUS
<1>1. PICK q \in Histories : events = [d \in 1 .. History |-> [day |-> d, after |-> q[d]]]
  BY DEF Init
<1>2. q \in [1 .. History -> Nat] /\ History \in Nat
  BY ForecastAssumption
<1>3. events \in [1 .. History -> SourceEvent]
  BY SMT, <1>1, <1>2 DEF SourceEvent
<1>4. events \in Seq(SourceEvent) /\ Len(events) = History
  BY <1>2, <1>3
<1> QED BY <1>1, <1>2, <1>4 DEF SourceInv

LEMMA SourceGrows ==
    ASSUME SourceInv, [Next]_vars
    PROVE  SourceInv' /\ PastStays
<1>0. History \in Nat /\ History > 0 /\ Len(events) \in Nat
  BY SMT, ForecastAssumption DEF SourceInv
<1>1. ASSUME NEW e \in NewEvents, RecordEvent(e[1], e[2]) PROVE SourceInv' /\ PastStays
  <2>1. e[1] \in Nat /\ e[2] \in Nat
    BY ForecastAssumption
  <2>2. PICK x \in SourceEvent : events' = Append(events, x)
    <3>1. Len(events) \in 1 .. Len(events)
      BY <1>0 DEF SourceInv
    <3>2. events[Len(events)] \in SourceEvent
      BY <3>1 DEF SourceInv
    <3>3. events[Len(events)].day \in Nat
      BY <3>2 DEF SourceEvent
    <3> QED BY <1>1, <2>1, <3>3 DEF RecordEvent, SourceEvent
  <2>3. /\ events' \in Seq(SourceEvent) /\ Len(events') = Len(events) + 1
        /\ \A i \in 1 .. Len(events) : events'[i] = events[i]
    BY <2>2 DEF SourceInv
  <2>4. Len(events') >= History /\ Len(events) <= Len(events')
    BY <1>0, <2>3 DEF SourceInv
  <2>5. \A i \in 1 .. History : i \in 1 .. Len(events) /\ events[i].day = i
    BY SMT, <1>0 DEF SourceInv
  <2>6. \A i \in 1 .. History : events'[i].day = i
    BY <2>3, <2>5
  <2> QED BY <2>3, <2>4, <2>6 DEF SourceInv, PastStays
<1>2. CASE UNCHANGED events
  BY <1>0, <1>2 DEF SourceInv, PastStays
<1> QED
  BY <1>1, <1>2 DEF Next, vars, sourceVars, EventMoves, Start, Call, Answer, Persist, Produce,
     Invoke, PythonFails, PersistFails, Insert, InsertResumes, CommitPrediction, ReadLatest,
     AnswerFreshness

\* A snapshot means the same for ever: outbox events are appended, never
\* rewritten.
LEMMA ObservationsStay ==
    ASSUME SourceInv, PastStays, NEW n \in 1 .. Len(events)
    PROVE  Observations(n)' = Observations(n)
<1> DEFINE at(d) == {i \in 1 .. n : events[i].day = d}
<1>0. n \in Nat /\ Len(events) \in Nat
  BY DEF SourceInv
<1>1. \A i \in 1 .. n : events'[i] = events[i]
  BY <1>0 DEF PastStays
<1>2. {events'[i].day : i \in 1 .. n} = {events[i].day : i \in 1 .. n}
  BY <1>1
<1>3. \A d : {i \in 1 .. n : events'[i].day = d} = at(d)
  BY <1>1
<1>4. ASSUME NEW d \in {events[i].day : i \in 1 .. n}
      PROVE  events'[Max({i \in 1 .. n : events'[i].day = d})].after = events[Max(at(d))].after
  <2>1. at(d) # {} /\ at(d) \subseteq 1 .. n
    OBVIOUS
  <2>2. Max(at(d)) \in 1 .. n
    <3> HIDE DEF at
    <3> QED BY <1>0, <2>1, LastPosition
  <2> HIDE DEF at
  <2> QED BY <1>1, <1>3, <2>2
<1> QED BY <1>2, <1>4 DEF Observations

LEMMA HeldFields ==
    ASSUME NEW f
    PROVE  Held(f).ds = BuildDataset(Series(f)) /\ Held(f).features = BuildFeatureSnapshot(Series(f))
BY DEF Held, Protocol

LEMMA HeldStays ==
    ASSUME SourceInv, PastStays, NEW f, Reads(f)
    PROVE  /\ Reads(f)' /\ Series(f)' = Series(f) /\ Held(f)' = Held(f)
           /\ BaselinePredictor(f)' = BaselinePredictor(f) /\ BaselineRisk(f)' = BaselineRisk(f)
<1>0. /\ History \in 1 .. Len(events) /\ Len(events) \in Nat /\ Len(events') \in Nat
      /\ Len(events) <= Len(events')
  BY SMT, ForecastAssumption DEF SourceInv, PastStays
<1>1. Reads(f)'
  BY <1>0 DEF Reads
<1>2. Series(f)' = Series(f)
  <2>1. (IF f = Frozen THEN History ELSE f) \in 1 .. Len(events)
    BY <1>0 DEF Reads
  <2> QED BY <2>1, ObservationsStay DEF Series, Frozen
<1>3. Held(f)' = Held(f)
  BY <1>2 DEF Held
<1> QED BY <1>1, <1>2, <1>3 DEF BaselinePredictor, BaselineRisk

LEMMA TruthStays ==
    ASSUME SourceInv, PastStays, NEW x, NEW f
    PROVE  (CallIsTrue(x, f) => CallIsTrue(x, f)') /\ (RowIsTrue(x, f) => RowIsTrue(x, f)')
BY HeldStays DEF CallIsTrue, RowIsTrue, Foretells

\* The series behind a snapshot: dense because the build has refused any other,
\* and the frozen history has every day.
LEMMA SnapshotIsSeries ==
    ASSUME SourceInv, NEW f, Reads(f), f = Frozen \/ RequireDense(Series(f))
    PROVE  IsSeries(Series(f))
<1> DEFINE n == IF f = Frozen THEN History ELSE f
           days == {events[i].day : i \in 1 .. n}
<1>1. n \in 1 .. Len(events) /\ Len(events) \in Nat /\ n \in Nat
  BY SMT, ForecastAssumption DEF SourceInv, Reads
<1>2. DOMAIN Series(f) = days
  BY DEF Series, Observations
<1> HIDE DEF n
<1>3. \A i \in 1 .. n : events[i] \in SourceEvent
  BY <1>1 DEF SourceInv
<1>4. days \subseteq Int
  BY <1>3 DEF SourceEvent
<1>5. IsFiniteSet(days)
  <2> DEFINE g == [i \in 1 .. n |-> events[i].day]
  <2>1. g \in [1 .. n -> days] /\ \A d \in days : \E i \in 1 .. n : g[i] = d
    OBVIOUS
  <2>2. g \in Surjection(1 .. n, days)
    <3> HIDE DEF g, days
    <3> QED BY <2>1 DEF Surjection
  <2>3. IsFiniteSet(1 .. n)
    BY <1>1, FS_Interval
  <2> HIDE DEF g, days
  <2> QED BY <2>2, <2>3, FS_Surjection
<1>6. RequireDense(Series(f))
  <2>1. CASE f = Frozen
    <3>1. n = History /\ History \in Nat /\ History > 0
      BY <2>1, ForecastAssumption DEF n
    <3>2. days = 1 .. History
      BY ZenonT(60), <3>1 DEF SourceInv
    <3> HIDE DEF days
    <3> QED BY SMT, <1>2, <3>1, <3>2 DEF RequireDense
  <2> QED BY <2>1
<1> QED BY <1>2, <1>4, <1>5, <1>6 DEF IsSeries

\* A prediction that is not the candidate's is that of the best baseline.
LEMMA SelectedBaseline ==
    ASSUME NEW ds, NEW features, NEW results, NEW scores, NEW selected,
           selected = SelectRuntimePredictor(EvaluateCandidateArtifact(ds, features, results, scores)),
           selected \notin {"none", "candidate"}
    PROVE  selected = QualifyingBaseline(results)
BY DEF SelectRuntimePredictor, EvaluateCandidateArtifact

\* A call goes on, or ends, with what it has recorded.
LEMMA RecordStaysTrue ==
    ASSUME NEW y, IsCall(y), y.pc \in Recorded, NEW p, p # "producing", NEW n, NEW f,
           CallIsTrue(y, f)
    PROVE  CallIsTrue([y EXCEPT !.pc = p], f) /\ CallIsTrue([y EXCEPT !.pc = p, !.at = n], f)
<1> DEFINE a == [y EXCEPT !.pc = p]
           b == [y EXCEPT !.pc = p, !.at = n]
<1>1. /\ a.pc = p /\ a.features = y.features /\ a.predictor = y.predictor /\ a.risk = y.risk
      /\ b.pc = p /\ b.features = y.features /\ b.predictor = y.predictor /\ b.risk = y.risk
  BY DEF IsCall, Fields
<1> HIDE DEF a, b
<1>2. CallIsTrue(a, f) /\ CallIsTrue(b, f)
  BY <1>1 DEF CallIsTrue, Foretells
<1> QED BY <1>2 DEF a, b

Involved(x) == x.predictor = "candidate" \/ \E r \in RowsOf(x.features) : r.predictor = "candidate"

\* One call changes, and its row may be stored.
LEMMA CallChanges ==
    ASSUME AnswerInv, SourceInv, PastStays, MemoryInv, NEW c \in Callers, NEW x,
           \A f : CallIsTrue(x, f), caller' = [caller EXCEPT ![c] = x],
           \/ rows' = rows
           \/ caller[c].pc = "open" /\ rows' = rows \cup {Record(c)},
           x.pc = "conflict" => Involved(x)
    PROVE  MemoryInv'
<1>1. caller'[c] = x /\ \A d \in Callers \ {c} : caller'[d] = caller[d]
  BY DEF AnswerInv
<1>2. ASSUME NEW d \in Callers, NEW f PROVE CallIsTrue(caller[d], f)'
  BY ZenonT(60), <1>1, TruthStays DEF MemoryInv
<1>3. ASSUME NEW r \in rows', NEW f PROVE RowIsTrue(r, f)'
  <2>1. CASE r \in rows
    BY <2>1, TruthStays DEF MemoryInv
  <2>2. CASE caller[c].pc = "open" /\ r = Record(c)
    <3>1. CallIsTrue(caller[c], f)
      BY DEF MemoryInv
    <3>2. /\ r.features = caller[c].features /\ r.predictor = caller[c].predictor
          /\ r.risk = caller[c].risk
      BY <2>2 DEF Record
    <3>3. RowIsTrue(r, f)
      BY <2>2, <3>1, <3>2 DEF RowIsTrue, CallIsTrue, Foretells, Recorded
    <3> QED BY <3>3, TruthStays
  <2> QED BY <1>3, <2>1, <2>2
<1>4. ASSUME NEW d \in Callers, caller'[d].pc = "conflict"
      PROVE  \/ caller'[d].predictor = "candidate"
             \/ \E r \in rows' : r.features = caller'[d].features /\ r.predictor = "candidate"
  BY SMT, <1>1, <1>4 DEF MemoryInv, BaselinesNeverConflict, Involved, RowsOf
<1>5. BaselinesNeverConflict'
  BY <1>4 DEF BaselinesNeverConflict, RowsOf
<1> QED BY <1>2, <1>3, <1>5 DEF MemoryInv

LEMMA FailedIsTrue ==
    ASSUME NEW f
    PROVE  CallIsTrue([NoCall EXCEPT !.pc = "failed"], f) /\ [NoCall EXCEPT !.pc = "failed"].pc = "failed"
<1> DEFINE y == [NoCall EXCEPT !.pc = "failed"]
<1>1. y.pc = "failed" /\ y.features = Frozen
  BY DEF NoCall
<1> HIDE DEF y
<1>2. CallIsTrue(y, f)
  BY <1>1 DEF CallIsTrue, Reads, Recorded
<1> QED BY <1>1, <1>2 DEF y

LEMMA FailedKeepsMemory ==
    ASSUME AnswerInv, SourceInv, PastStays, MemoryInv, NEW c \in Callers, Ends(c, "failed"),
           \/ rows' = rows
           \/ caller[c].pc = "open" /\ rows' = rows \cup {Record(c)}
    PROVE  MemoryInv'
<1> DEFINE y == [NoCall EXCEPT !.pc = "failed"]
<1>1. y.pc # "conflict" /\ \A f : CallIsTrue(y, f)
  BY FailedIsTrue
<1>2. caller' = [caller EXCEPT ![c] = y]
  BY DEF Ends, Goes
<1> HIDE DEF y
<1> QED BY <1>1, <1>2, CallChanges

LEMMA StartKeepsMemory ==
    ASSUME AnswerInv, SourceInv, PastStays, MemoryInv, NEW c \in Callers, NEW f, Start(c, f)
    PROVE  MemoryInv'
<1> DEFINE y == [NoCall EXCEPT !.pc = "producing", !.features = f, !.held = Held(f)]
<1>1. y.pc = "producing" /\ y.features = f /\ y.held = Held(f)
  BY DEF NoCall
<1>2. caller' = [caller EXCEPT ![c] = y] /\ rows' = rows
  BY DEF Start, Goes
<1> HIDE DEF y
<1>3. Reads(f)
  <2>1. Len(events) \in Nat /\ Len(events) >= 1
    BY SMT, ForecastAssumption DEF SourceInv
  <2>2. f = Frozen \/ f = Len(events)
    BY DEF Start
  <2> QED BY <2>1, <2>2 DEF Reads
<1>4. IsSeries(Series(f))
  <2>1. f = Frozen \/ RequireDense(Series(f))
    BY DEF Start, SnapshotComplete
  <2> QED BY <1>3, <2>1, SnapshotIsSeries
<1>5. \A g : CallIsTrue(y, g)
  BY <1>1, <1>3, <1>4 DEF CallIsTrue, Recorded
<1>6. y.pc # "conflict"
  BY <1>1
<1> QED BY <1>2, <1>5, <1>6, CallChanges

\* A record says what the best baseline says, unless it is the candidate's.
LEMMA RecordKeepsMemory ==
    ASSUME AnswerInv, SourceInv, PastStays, MemoryInv, NEW c \in Callers, NEW b, NEW k,
           RecordOf(c, b, k), rows' = rows,
           b # "candidate" =>
              \A f : caller[c].features = f => b = BaselinePredictor(f) /\ k = BaselineRisk(f)
    PROVE  MemoryInv'
<1> DEFINE y == [caller[c] EXCEPT !.pc = "inserting", !.predictor = b, !.risk = k, !.at = clock,
                                  !.held = <<>>, !.scores = <<>>]
<1>1. y.pc = "inserting" /\ y.predictor = b /\ y.risk = k /\ y.features = caller[c].features
  BY DEF AnswerInv, IsCall, Fields
<1>2. caller' = [caller EXCEPT ![c] = y]
  BY DEF RecordOf, Goes
<1> HIDE DEF y
<1>3. \A f : CallIsTrue(caller[c], f)
  BY DEF MemoryInv
<1>4. \A f : CallIsTrue(y, f)
  BY <1>1, <1>3 DEF CallIsTrue, Foretells
<1>5. y.pc # "conflict"
  BY <1>1
<1> QED BY <1>2, <1>4, <1>5, CallChanges

LEMMA ProduceKeepsMemory ==
    ASSUME AnswerInv, SourceInv, PastStays, MemoryInv, NEW c \in Callers, NEW scores,
           Produce(c, scores)
    PROVE  MemoryInv'
<1> DEFINE h == caller[c].held
           selected == SelectRuntimePredictor(EvaluateCandidateArtifact(h.ds, h.features, h.results, scores))
<1>1. caller[c].pc = "producing" /\ rows' = rows
  BY DEF Produce
<1>2. \/ Ends(c, "failed")
      \/ Goes(c, [caller[c] EXCEPT !.pc = "invoking", !.scores = scores])
      \/ /\ selected \notin {"none", "candidate"}
         /\ RecordOf(c, selected, BaselineRuntimeScore(h.features, ObservationDay, selected))
  BY DEF Produce
<1>3. CASE Goes(c, [caller[c] EXCEPT !.pc = "invoking", !.scores = scores])
  <2> DEFINE y == [caller[c] EXCEPT !.pc = "invoking", !.scores = scores]
  <2>1. y.pc = "invoking" /\ y.features = caller[c].features
    BY DEF AnswerInv, IsCall, Fields
  <2>2. caller' = [caller EXCEPT ![c] = y]
    BY <1>3 DEF Goes
  <2> HIDE DEF y
  <2>3. \A f : CallIsTrue(caller[c], f)
    BY DEF MemoryInv
  <2>4. \A f : CallIsTrue(y, f)
    BY <2>1, <2>3 DEF CallIsTrue, Recorded
  <2>5. y.pc # "conflict"
    BY <2>1
  <2> QED BY <1>1, <2>2, <2>4, <2>5, CallChanges
<1>4. CASE /\ selected \notin {"none", "candidate"}
           /\ RecordOf(c, selected, BaselineRuntimeScore(h.features, ObservationDay, selected))
  <2>1. selected = QualifyingBaseline(h.results)
    BY <1>4, SelectedBaseline
  <2> HIDE DEF selected
  <2>2. ASSUME NEW f, caller[c].features = f PROVE h = Held(f)
    BY <1>1, <2>2 DEF MemoryInv, CallIsTrue
  <2>3. ASSUME NEW f, caller[c].features = f
        PROVE  /\ selected = BaselinePredictor(f)
               /\ BaselineRuntimeScore(h.features, ObservationDay, selected) = BaselineRisk(f)
    BY <2>1, <2>2, <2>3 DEF BaselinePredictor, BaselineRisk
  <2> QED BY <1>1, <1>4, <2>3, RecordKeepsMemory
<1> QED BY <1>1, <1>2, <1>3, <1>4, FailedKeepsMemory

\* Two baseline predictions of one input are the same.
LEMMA ConflictIsInvolved ==
    ASSUME AnswerInv, MemoryInv, NEW c \in Callers, caller[c].pc = "inserting",
           NEW r \in RowsOf(caller[c].features), ~ SamePrediction(Record(c), r)
    PROVE  Involved(caller[c])
<1> SUFFICES ASSUME caller[c].predictor # "candidate", r.predictor # "candidate" PROVE FALSE
  BY DEF Involved
<1>1. r \in rows /\ r.features = caller[c].features
  BY DEF RowsOf
<1>2. PICK f : f = caller[c].features
  OBVIOUS
<1>3. Foretells(caller[c], f)
  BY <1>2 DEF MemoryInv, CallIsTrue, Recorded
<1>4. Foretells(r, f)
  BY <1>1, <1>2 DEF MemoryInv, RowIsTrue
<1>5. Says(r, caller[c])
  BY <1>1, <1>3, <1>4 DEF Says, Foretells
<1> QED BY <1>1, <1>5, SameSays

LEMMA PersistKeepsMemory ==
    ASSUME AnswerInv, SourceInv, PastStays, MemoryInv, NEW c \in Callers, Persist(c) \/ PersistFails(c)
    PROVE  MemoryInv'
<1> DEFINE f == caller[c].features
           goes(p) == [caller[c] EXCEPT !.pc = p]
           ends(p) == [caller[c] EXCEPT !.pc = p, !.at = 0]
<1>0. IsCall(caller[c]) /\ caller[c].pc \in Recorded
  BY DEF AnswerInv, Persist, PersistFails, Insert, InsertResumes, CommitPrediction, Recorded
<1>1. \A g : CallIsTrue(caller[c], g)
  BY DEF MemoryInv
<1>2. ASSUME NEW p, p # "producing"
      PROVE  /\ \A g : CallIsTrue(goes(p), g) /\ CallIsTrue(ends(p), g)
             /\ goes(p).pc = p /\ ends(p).pc = p
             /\ ends(p).features = f /\ ends(p).predictor = caller[c].predictor
  <2>1. \A g : CallIsTrue(goes(p), g) /\ CallIsTrue(ends(p), g)
    BY <1>0, <1>1, <1>2, RecordStaysTrue
  <2>2. /\ goes(p).pc = p /\ ends(p).pc = p
        /\ ends(p).features = f /\ ends(p).predictor = caller[c].predictor
    BY <1>0 DEF IsCall, Fields
  <2> QED BY <2>1, <2>2
<1> HIDE DEF goes, ends
<1>3. ASSUME NEW p \in {"open", "waiting"}, Goes(c, goes(p)), rows' = rows PROVE MemoryInv'
  <2>1. goes(p).pc # "conflict" /\ \A g : CallIsTrue(goes(p), g)
    BY <1>2
  <2> QED BY <1>3, <2>1, CallChanges DEF Goes
<1>4. ASSUME NEW p \in {"ok", "conflict"}, Ends(c, p), p = "conflict" => Involved(caller[c]),
             \/ rows' = rows
             \/ caller[c].pc = "open" /\ rows' = rows \cup {Record(c)}
      PROVE  MemoryInv'
  <2>1. caller' = [caller EXCEPT ![c] = ends(p)]
    BY <1>4 DEF Ends, Goes, ends
  <2>2. ends(p).pc = "conflict" => Involved(ends(p))
    BY <1>2, <1>4 DEF Involved
  <2>3. \A g : CallIsTrue(ends(p), g)
    BY <1>2
  <2> QED BY <1>4, <2>1, <2>2, <2>3, CallChanges
<1>5. CASE Insert(c)
  <2>1. caller[c].pc = "inserting" /\ rows' = rows
    BY <1>5 DEF Insert
  <2>2. CASE RowsOf(f) # {} /\ \A r \in RowsOf(f) : SamePrediction(Record(c), r)
    BY <1>4, <1>5, <2>1, <2>2 DEF Insert
  <2>3. CASE RowsOf(f) # {} /\ ~ \A r \in RowsOf(f) : SamePrediction(Record(c), r)
    <3>1. Involved(caller[c])
      BY <2>1, <2>3, ConflictIsInvolved
    <3> QED BY <1>4, <1>5, <2>1, <2>3, <3>1 DEF Insert
  <2>4. CASE RowsOf(f) = {}
    BY <1>3, <1>5, <2>1, <2>4 DEF Insert, goes
  <2> QED BY <2>2, <2>3, <2>4
<1>6. CASE InsertResumes(c)
  <2>1. rows' = rows
    BY <1>6 DEF InsertResumes
  <2> QED BY <1>3, <1>6, <2>1, FailedKeepsMemory DEF InsertResumes, goes
<1>7. CASE CommitPrediction(c)
  BY <1>4, <1>7 DEF CommitPrediction
<1>8. CASE PersistFails(c)
  BY <1>8, FailedKeepsMemory DEF PersistFails
<1> QED BY <1>5, <1>6, <1>7, <1>8 DEF Persist

LEMMA MemoryInitHolds == Init => MemoryInv
<1> SUFFICES ASSUME Init PROVE MemoryInv
  OBVIOUS
<1>1. NoCall.pc = "idle" /\ NoCall.features = Frozen
  BY DEF NoCall
<1>2. \A c \in Callers : caller[c] = NoCall
  BY DEF Init
<1>3. rows = {}
  BY DEF Init
<1>4. \A c \in Callers : \A f : CallIsTrue(caller[c], f)
  BY <1>1, <1>2 DEF CallIsTrue, Reads, Recorded
<1>5. BaselinesNeverConflict
  BY <1>1, <1>2 DEF BaselinesNeverConflict
<1> QED BY <1>3, <1>4, <1>5 DEF MemoryInv

LEMMA MemoryMoves ==
    ASSUME AnswerInv, SourceInv, MemoryInv, [Next]_vars
    PROVE  MemoryInv'
<1>0. PastStays
  BY SourceGrows
<1>1. CASE \E c \in Callers : Persist(c) \/ PersistFails(c)
  BY <1>0, <1>1, PersistKeepsMemory
<1>2. CASE \E c \in Callers, f \in FeatureIds : Start(c, f)
  BY <1>0, <1>2, StartKeepsMemory
<1>3. CASE \E c \in Callers : PythonFails(c)
  BY <1>0, <1>3, FailedKeepsMemory DEF PythonFails
<1>4. CASE \E c \in Callers : Answer(c)
  <2>1. PICK c \in Callers : Answer(c)
    BY <1>4
  <2>2. CASE \E scores : Produce(c, scores)
    BY <1>0, <2>2, ProduceKeepsMemory
  <2>3. CASE \E k : Invoke(c, k)
    BY <1>0, <2>3, RecordKeepsMemory DEF Invoke
  <2> QED BY <2>1, <2>2, <2>3 DEF Answer
<1>5. CASE UNCHANGED <<caller, rows>>
  <2>1. caller' = caller /\ rows' = rows
    BY <1>5
  <2>2. ASSUME NEW c \in Callers, NEW f PROVE CallIsTrue(caller[c], f)'
    BY <1>0, <2>1, TruthStays DEF MemoryInv
  <2>3. ASSUME NEW r \in rows, NEW f PROVE RowIsTrue(r, f)'
    BY <1>0, TruthStays DEF MemoryInv
  <2>4. BaselinesNeverConflict'
    BY <2>1 DEF MemoryInv, BaselinesNeverConflict, RowsOf
  <2> QED BY <2>1, <2>2, <2>3, <2>4 DEF MemoryInv
<1> QED
  BY <1>1, <1>2, <1>3, <1>4, <1>5
     DEF Next, Call, vars, RecordEvent, EventMoves, ReadLatest, AnswerFreshness

LEMMA MemoryInductive == Spec => [](SourceInv /\ MemoryInv)
<1>1. AnswerInv /\ SourceInv /\ MemoryInv /\ [Next]_vars => SourceInv' /\ MemoryInv'
  BY SourceGrows, MemoryMoves
<1>2. Init => SourceInv /\ MemoryInv
  BY SourceInitHolds, MemoryInitHolds
<1> QED BY <1>1, <1>2, AnswerInductive, PTL DEF Spec

-----------------------------------------------------------------------------
(* The theorems.                                                           *)

\* One prediction per input, and every call that succeeded was answered with it
\* (PersistPrediction), for any number of callers and any answers of Python.
THEOREM OneAnswerPerInputHolds == Spec => []OneAnswerPerInput
<1>1. AnswerInv => OneAnswerPerInput
  <2> SUFFICES ASSUME AnswerInv PROVE OneAnswerPerInput
    OBVIOUS
  <2>1. ASSUME NEW c \in Callers, caller[c].pc = "ok"
        PROVE  \E r \in rows : SamePrediction(r, [Record(c) EXCEPT !.at = r.at])
                               /\ r.features = caller[c].features
    <3>1. PICK r \in rows : Says(r, caller[c])
      BY <2>1 DEF AnswerInv
    <3>2. r.features = caller[c].features
      BY <3>1 DEF Says
    <3> QED BY <3>1, <3>2, SameSays
  <2> QED BY <2>1 DEF AnswerInv, OneAnswerPerInput
<1> QED BY <1>1, AnswerInductive, PTL

\* No step changes or removes a stored prediction (forecast_predictions.go has
\* no UPDATE and no DELETE, and PersistPrediction overwrites nothing).
THEOREM PredictionsAreImmutableHolds == Spec => PredictionsAreImmutable
<1>1. AnswerInv /\ [Next]_vars => [rows \subseteq rows']_rows
  BY ForecastMoves
<1> QED BY <1>1, AnswerInductive, PTL DEF Spec, PredictionsAreImmutable

\* What a baseline says at run time is what it was evaluated on
\* (BaselineRuntimeResponse against baselineScore), for every series a source
\* can have, every length of the horizon and of the splits.
THEOREM RuntimeMatchesEvaluationHolds == Spec => []RuntimeMatchesEvaluation
<1>1. MemoryInv => RuntimeMatchesEvaluation
  <2> SUFFICES ASSUME MemoryInv, NEW c \in Callers, caller[c].pc = "producing",
                      NEW d \in DOMAIN caller[c].held.features, NEW id \in Baselines,
                      BaselineScore(caller[c].held.ds, caller[c].held.features, d, id) # Abstained
               PROVE  BaselineRuntimeScore(caller[c].held.features, d, id) =
                      BaselineScore(caller[c].held.ds, caller[c].held.features, d, id)
    BY DEF RuntimeMatchesEvaluation
  <2>1. PICK f : caller[c].held = Held(f) /\ IsSeries(Series(f))
    BY DEF MemoryInv, CallIsTrue
  <2>2. /\ caller[c].held.ds = BuildDataset(Series(f))
        /\ caller[c].held.features = BuildFeatureSnapshot(Series(f))
    BY <2>1, HeldFields
  <2>3. d \in RowDays(Series(f))
    BY <2>2, RowFields
  <2> QED BY <2>1, <2>2, <2>3, RuntimeScoreMatches
<1> QED BY <1>1, MemoryInductive, PTL

\* No row and no baseline score depends on a later day (BuildFeatureSnapshot,
\* baselineScore), for every series a source can have.
THEOREM NoFutureLeakHolds == Spec => []NoFutureLeak
<1>1. MemoryInv => NoFutureLeak
  <2> SUFFICES ASSUME MemoryInv PROVE NoFutureLeak
    OBVIOUS
  <2>1. ASSUME NEW c \in Callers, caller[c].pc = "producing",
               NEW d \in DOMAIN caller[c].held.features, NEW quantity \in {0, 1}, NEW id \in Baselines
        PROVE  LET s == Series(caller[c].features)
                   other == [e \in DOMAIN s |-> IF e <= d THEN s[e] ELSE quantity]
               IN  /\ caller[c].held.features[d] = BuildFeatureSnapshot(other)[d]
                   /\ BaselineScore(caller[c].held.ds, caller[c].held.features, d, id) =
                      BaselineScore(BuildDataset(other), BuildFeatureSnapshot(other), d, id)
    <3> DEFINE s == Series(caller[c].features)
               other == [e \in DOMAIN s |-> IF e <= d THEN s[e] ELSE quantity]
    <3>1. DOMAIN other = DOMAIN s /\ \A e \in DOMAIN s : e <= d => other[e] = s[e]
      OBVIOUS
    <3> HIDE DEF other
    <3>2. caller[c].held = Held(caller[c].features) /\ IsSeries(s)
      BY <2>1 DEF MemoryInv, CallIsTrue
    <3>3. caller[c].held.ds = BuildDataset(s) /\ caller[c].held.features = BuildFeatureSnapshot(s)
      BY <3>2, HeldFields
    <3> HIDE DEF s
    <3>4. d \in RowDays(s)
      BY <3>3, RowFields
    <3>5. /\ BuildFeatureSnapshot(s)[d] = BuildFeatureSnapshot(other)[d]
          /\ BaselineScore(BuildDataset(s), BuildFeatureSnapshot(s), d, id) =
             BaselineScore(BuildDataset(other), BuildFeatureSnapshot(other), d, id)
      BY <3>1, <3>2, <3>4, RowsIgnoreFuture
    <3>6. /\ caller[c].held.features[d] = BuildFeatureSnapshot(other)[d]
          /\ BaselineScore(caller[c].held.ds, caller[c].held.features, d, id) =
             BaselineScore(BuildDataset(other), BuildFeatureSnapshot(other), d, id)
      BY <3>3, <3>5
    <3> QED BY <3>6 DEF other, s
  <2> QED BY <2>1 DEF NoFutureLeak
<1> QED BY <1>1, MemoryInductive, PTL

\* Two baseline predictions of one input agree, so PersistPrediction answers
\* ErrPredictionConflict only where a candidate is involved, for any number of
\* callers, calls and failures and however the source grows between them.
THEOREM BaselinesNeverConflictHolds == Spec => []BaselinesNeverConflict
<1>1. MemoryInv => BaselinesNeverConflict
  BY DEF MemoryInv
<1> QED BY <1>1, MemoryInductive, PTL

\* A prediction is shown as fresh only over the events it was made from, all of
\* them applied (forecastPredictionFreshness compares it with the source as it
\* is when the answer is made, not with the source its row was read beside).
THEOREM FreshIsCurrentHolds == Spec => []FreshIsCurrent
<1>1. FreshIsCurrent
  BY DEF FreshIsCurrent, Freshness, SourceStatus
<1> QED BY <1>1, PTL

=============================================================================
