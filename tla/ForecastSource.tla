--------------------------- MODULE ForecastSource ---------------------------
(***************************************************************************)
(* The source of forecast features (src/platform/forecast_features.go): in *)
(* one repeatable-read transaction it joins the retained outbox rows of an *)
(* item with the inbox, replays those applied and compares the result with *)
(* the projection row.  The operators take what that transaction reads.    *)
(*                                                                         *)
(* Outbox rows are taken to hold what they were recorded with; what of     *)
(* them does not parse is left out.                                        *)
(***************************************************************************)
EXTENDS InboxRules, SequencesExt

\* loadForecastEvents: the retained events with a matching applied inbox row.
LoadForecastEvents(retained, inbox) ==
    {m \in retained : Duplicates(inbox[m.id], m)}

\* Those without an inbox row, which the stream may still bring unless the
\* relay gave up on them.
NotApplied(retained, inbox) == {m \in retained : inbox[m.id].disp = "none"}

\* Its other reasons, and those of detectForecastInboxHistoryGaps: an inbox row
\* of any other kind.
Disputed(retained, inbox, quarantined) ==
    \/ \E m \in NotApplied(retained, inbox) : m.id \in quarantined
    \/ \E id \in DOMAIN inbox :
          /\ inbox[id].disp # "none"
          /\ \A m \in LoadForecastEvents(retained, inbox) : m.id # id

\* replayForecastEvents: by version, skipping what does not follow.
ReplayForecastEvents(events) ==
    LET follows(v, m) == m.ver = v.ver + 1 /\ (m.ver = 1 \/ m.before = v.qty)
        step(acc, m) ==
            IF follows(acc.view, m) THEN [acc EXCEPT !.view = Projected(m)]
            ELSE [acc EXCEPT !.gaps = TRUE]
    IN  FoldLeft(step, [view |-> NoView, gaps |-> FALSE],
                 SetToSortSeq(events, LAMBDA m, n : m.ver < n.ver))

\* Mutant: the projection is not compared.
ForecastStatusUncompared(retained, inbox, view, quarantined) ==
    LET replay == ReplayForecastEvents(LoadForecastEvents(retained, inbox))
    IN  CASE Disputed(retained, inbox, quarantined) \/ replay.gaps -> "incomplete"
          [] NotApplied(retained, inbox) # {}                      -> "stale"
          [] OTHER                                                 -> "complete"

\* Mutant: an event the relay or the consumer gave up on is only late.
ForecastStatusHopeful(retained, inbox, view, quarantined) ==
    LET replay == ReplayForecastEvents(LoadForecastEvents(retained, inbox))
    IN  CASE replay.gaps \/ replay.view # view                      -> "incomplete"
          [] LoadForecastEvents(retained, inbox) # retained         -> "stale"
          [] OTHER                                                  -> "complete"

\* The status of LoadTenantForecastSource, compareForecastProjection included.
ForecastStatus(retained, inbox, view, quarantined) ==
    LET replay == ReplayForecastEvents(LoadForecastEvents(retained, inbox))
    IN  CASE \/ Disputed(retained, inbox, quarantined)
             \/ replay.gaps \/ replay.view # view       -> "incomplete"
          [] NotApplied(retained, inbox) # {}           -> "stale"
          [] OTHER                                      -> "complete"

=============================================================================
