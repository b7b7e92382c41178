------------------------- MODULE ProjectionForecast -------------------------
(***************************************************************************)
(* The forecast source (ForecastSource) read between any two statements of *)
(* the consumer and of an operator control (ProjectionTx).                 *)
(***************************************************************************)
EXTENDS ProjectionTx, ForecastSource

\* The forecast source at this moment.  It reads the rows a replay reads; the relay
\* has published all of them.
SourceStatus == ForecastStatus(Retained, inbox, proj, {})

\* A complete forecast source is the whole history, even beside a live rebuild:
\* where the inbox and the projection have parted, comparing the projection
\* with the replay (compareForecastProjection) finds it out.
ForecastCompleteIsTrue ==
    SourceStatus = "complete" => proj = Projected(History[Len(History)])

\* A stale forecast source is only late: the projection is that of a proper
\* prefix of the history, and the inbox has nothing else, so that the events
\* still to come make it complete (hasOnlyStaleReasons).
ForecastStaleIsLate ==
    SourceStatus = "stale" =>
        \E k \in 0 .. Len(History) - 1 :
            /\ proj = IF k = 0 THEN NoView ELSE Projected(History[k])
            /\ \A i \in DOMAIN History :
                  (inbox[History[i].id].disp # "none") <=> (i <= k)

=============================================================================
