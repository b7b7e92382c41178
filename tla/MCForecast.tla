----------------------------- MODULE MCForecast -----------------------------
(* Instances of Forecast for TLC: a horizon of two days, and six days of    *)
(* history, which give one row to train on, one to tune and two to test.   *)
EXTENDS Forecast

CONSTANTS c1, c2

MCCallers == {c1, c2}

\* Day 1 decides nothing but a training row; with an empty day 5 both test
\* labels agree and no predictor qualifies.
MCHistories == {q \in [1 .. History -> {0, 1}] : q[1] = 1 /\ q[2] = 1 /\ q[5] = 1}

\* The same day again, the next day, and a day left out.
MCNewEvents == {<<0, 0>>, <<1, 1>>, <<2, 1>>}

MCScores == {Abstained, 0, 2}
MCRisks == {Abstained, 1}
MCRowId(d) == d

=============================================================================
