--------------------------- MODULE SentimentSystem ---------------------------
(* The sentiment watch (module SentimentShift) with parameters and variables *)
(* of its own, under names that leave free those of the policy its alerts    *)
(* are subject to: what is checked and proved of it.                         *)
CONSTANTS Schedulers, N, StoryOf, Source, Ratings, Delays, MinStories, MinSources, Threshold,
          Batches, Window, Lateness, Staleness, SeriesCooldown, MaxRevised, MaxIntake,
          MaxChecks, SeriesEnd
VARIABLES clock, article, log, passes

W == INSTANCE SentimentShift WITH Event <- StoryOf, Cooldown <- SeriesCooldown,
       MaxTime <- SeriesEnd, now <- clock, work <- passes

ASSUME SeriesAssumption == W!Settings

SeriesSpec == W!Spec

\* Jev is asked about a shift only when an earlier check had found it, without the
\* newest of the news, and none between the two had seen it end.
ShiftIsConfirmed == W!ShiftIsConfirmed

\* Alerts of the series are a cooldown apart unless the mark of one was lost.
AlertsAreSpaced == W!AlertsAreSpaced
==============================================================================
