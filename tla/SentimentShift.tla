--------------------------- MODULE SentimentShift ---------------------------
(* The sentiment watch of the market alerts (MarketAlertService._sentiments, *)
(* alerts/sentiment.py) for one series: a ticker, a provider, its model.     *)
(*                                                                           *)
(* Every pass of a scheduler reads the articles, waits for the advisory lock *)
(* of the series, compares the current window with the prior one and with    *)
(* the state the last snapshot left, and inserts its own snapshot.  A change *)
(* that two batches confirm becomes a decision for Jev; when the decision is *)
(* delivered, the time of the alert is written to the newest snapshot, from  *)
(* which the following ones carry it on.  Providers revise their articles;   *)
(* other schedulers do the same at the same time.                            *)
EXTENDS Integers, Sequences, FiniteSets, FiniteSetsExt

CONSTANTS
  Schedulers,    \* processes that run process_once
  N,             \* articles the provider publishes, after the one there is
  Event,         \* the event an article reports, [Articles -> ...]
  Source,        \* its publisher, [Articles -> ...]
  Ratings,       \* what the provider can say of an article, sets of labels
  Delays,        \* how long after its publication an article may come in
  MinStories,    \* sentiment_min_stories
  MinSources,    \* sentiment_min_sources
  Threshold,     \* sentiment_change_threshold, in halves
  Batches,       \* required_batches
  Window,        \* length of a window
  Lateness,      \* age up to which an article counts as news
  Staleness,     \* age up to which the newest observation counts
  Cooldown,      \* between two alerts of the series
  MaxRevised,    \* bound on the articles that are revised
  MaxIntake,     \* bound on the time a pass takes before it reads
  MaxChecks,     \* bound on the snapshots
  MaxTime        \* bound on the clock

\* The articles are numbered as they come in.
Articles == 0..N
Labels == {"positive", "negative", "neutral", "mixed"}

\* The service leaves required_batches at two.
Settings ==
  /\ N \in Nat
  /\ DOMAIN Event = Articles /\ DOMAIN Source = Articles
  /\ Delays \in [Articles -> SUBSET Nat]
  /\ Ratings \in [Articles -> SUBSET SUBSET Labels]
  /\ {MinStories, MinSources, Threshold, Window, Staleness} \subseteq Nat \ {0}
  /\ Batches \in Nat \ {0, 1}
  /\ {Lateness, Cooldown, MaxRevised, MaxIntake, MaxChecks, MaxTime} \subseteq Nat
  /\ Window < MaxTime

VARIABLES
  now,      \* the clock
  article,  \* the articles' rows
  log,      \* the snapshots in the order of their commits, each with the
            \* decision prepared in its transaction
  work      \* what each scheduler is doing

vars == <<now, article, log, work>>

None == -1
Unpublished == [revision |-> 0, rating |-> {}, published |-> None, seen |-> None]
Idle == [pc |-> "idle", asOf |-> None, evidence |-> {}, row |-> <<>>, item |-> 0,
         finished |-> None]

Init ==
  /\ now = Window + 1
  /\ article = [a \in Articles |->
       IF a = 0 THEN [revision |-> 1, rating |-> {"negative"}, published |-> 0, seen |-> 0]
                  ELSE Unpublished]
  /\ log = <<>>
  /\ work = [w \in Schedulers |-> Idle]

-----------------------------------------------------------------------------
(* aggregate_windows *)

\* provider_observations: an article the provider has not rated gives none; two
\* ratings of one revision contradict one another and establish nothing.
LabelOf(a) == IF Cardinality(article[a].rating) = 1
                THEN CHOOSE l \in article[a].rating : TRUE
                ELSE "unknown"

\* _articles and the first filter of aggregate_windows.  Only the article's last
\* revision is there: one that was revised after t is not seen as it was at t.
Observations(t) ==
  {[article |-> a, label |-> LabelOf(a), published |-> article[a].published,
    seen |-> article[a].seen, revision |-> article[a].revision] :
     a \in {b \in Articles : /\ article[b].rating # {}
                             /\ article[b].published >= t - 2 * Window
                             /\ article[b].published < t /\ article[b].seen <= t}}

\* Articles of one event are one story, as old as the first of them.
Stories(obs) == {{o \in obs : Event[o.article] = e} : e \in {Event[o.article] : o \in obs}}
PublishedAt(story) == Min({o.published : o \in story})
Current(obs, t) == {s \in Stories(obs) : PublishedAt(s) >= t - Window}
Prior(obs, t) == Stories(obs) \ Current(obs, t)

\* _summarize
ToneOf(story) ==
  LET said == {o.label : o \in story} \ {"unknown"} IN
  IF "mixed" \in said \/ {"positive", "negative"} \subseteq said THEN "mixed"
  ELSE IF "positive" \in said THEN "positive"
  ELSE IF "negative" \in said THEN "negative"
  ELSE IF "neutral" \in said THEN "neutral" ELSE "unknown"

Known(window) == {s \in window : ToneOf(s) # "unknown"}
SourcesOf(window) == {Source[o.article] : o \in {p \in UNION window : p.label # "unknown"}}
Balance(window) == Cardinality({s \in window : ToneOf(s) = "positive"})
                     - Cardinality({s \in window : ToneOf(s) = "negative"})
Covered(window) ==
  Cardinality(Known(window)) >= MinStories /\ Cardinality(SourcesOf(window)) >= MinSources

\* latest_eligible_at: corrections and late arrivals are no news.
IsNews(o) == o.label # "unknown" /\ o.revision = 1 /\ o.seen - o.published <= Lateness
LatestNews(obs, t) ==
  LET times == {o.seen : o \in {p \in UNION Current(obs, t) : IsNews(p)}}
  IN  IF times = {} THEN None ELSE Max(times)

-----------------------------------------------------------------------------
(* evaluate_change *)

\* The difference of the means times both numbers of stories.
Delta(obs, t) ==
  Balance(Current(obs, t)) * Cardinality(Known(Prior(obs, t)))
    - Balance(Prior(obs, t)) * Cardinality(Known(Current(obs, t)))
Shifted(obs, t) ==
  2 * (IF Delta(obs, t) > 0 THEN Delta(obs, t) ELSE -Delta(obs, t))
    >= Threshold * Cardinality(Known(Current(obs, t))) * Cardinality(Known(Prior(obs, t)))

\* What has to be so for any of the reasons to stop not to be given.
Supported(obs, t, healthy) ==
  /\ healthy
  /\ Covered(Current(obs, t)) /\ Covered(Prior(obs, t))
  /\ LatestNews(obs, t) # None /\ t - LatestNews(obs, t) <= Staleness
  /\ Shifted(obs, t)

\* latest_sentiment: the committed snapshot with the newest as_of.
NoSnapshot == [mark |-> {}, observed |-> None, direction |-> 0, count |-> 0, alerted |-> None]
LatestIndex == CHOOSE i \in DOMAIN log : \A j \in DOMAIN log : log[j].asOf <= log[i].asOf
Latest == IF log = <<>> THEN NoSnapshot ELSE log[LatestIndex]

\* A batch has evidence that was not there in the last one.
ChangedBatch(obs, t) == log = <<>> \/ obs # Latest.mark
NewBatch(obs, t) ==
  \/ log = <<>>
  \/ obs # Latest.mark /\ LatestNews(obs, t) > Latest.observed

Direction(obs, t) == IF Delta(obs, t) > 0 THEN 1 ELSE -1
Count(obs, t) ==
  (IF Latest.direction = Direction(obs, t) THEN Latest.count ELSE 0)
    + (IF NewBatch(obs, t) THEN 1 ELSE 0)

\* The last alert goes from snapshot to snapshot.
Forgotten == None
Carried == Latest.alerted
CoolingDown(t) == Carried # None /\ t - Carried < Cooldown

Sustained(obs, t) == NewBatch(obs, t) /\ Count(obs, t) >= Batches /\ ~CoolingDown(t)

\* The snapshot, and the decision that is prepared beside it.  (A process that was
\* started after everything it has read prepares none: as if it were dropped.)
Evaluated(w, healthy) ==
  LET t == work[w].asOf
      obs == work[w].evidence
      ok == Supported(obs, t, healthy)
  IN  [asOf |-> t, mark |-> obs, observed |-> LatestNews(obs, t), alerted |-> Carried,
       direction |-> IF ok THEN Direction(obs, t) ELSE 0,
       count |-> IF ok THEN Count(obs, t) ELSE 0,
       decision |-> IF ok /\ Sustained(obs, t) THEN "prepared" ELSE "none",
       finished |-> None, markedAt |-> None, lost |-> FALSE]

-----------------------------------------------------------------------------
(* A pass of a scheduler *)

\* process_once has taken its time before its first transaction, and reads the
\* articles in the second; a series without an observation is not looked at.
\* Clocks are finer than two starts.
Read(w) ==
  /\ work[w].pc = "idle" /\ Len(log) < MaxChecks
  /\ \E t \in (now - MaxIntake)..now :
       /\ Observations(t) # {}
       /\ t \notin {log[i].asOf : i \in DOMAIN log} \cup {work[v].asOf : v \in Schedulers}
       /\ work' = [work EXCEPT ![w] = [Idle EXCEPT !.pc = "read", !.asOf = t,
                                                  !.evidence = Observations(t)]]
  /\ UNCHANGED <<now, article, log>>

\* The advisory lock is held until the transaction ends.
Unlocked == \A v \in Schedulers : work[v].pc # "evaluated"
Evaluate(w) ==
  /\ work[w].pc = "read"
  /\ Unlocked
  /\ \E healthy \in BOOLEAN :
       work' = [work EXCEPT ![w] = [Idle EXCEPT !.pc = "evaluated", !.asOf = work[w].asOf,
                                                !.row = <<Evaluated(w, healthy)>>]]
  /\ UNCHANGED <<now, article, log>>

Commit(w) ==
  /\ work[w].pc = "evaluated" /\ Len(log) < MaxChecks
  /\ log' = log \o work[w].row
  /\ work' = [work EXCEPT ![w] = Idle]
  /\ UNCHANGED <<now, article>>

\* A pass goes on with the decisions that are due; _process_decision takes the
\* time when Jev has answered.
Respond(w, i) ==
  /\ work[w].pc = "idle"
  /\ log[i].decision = "prepared"
  /\ log' = [log EXCEPT ![i].decision = "assessing"]
  /\ work' = [work EXCEPT ![w].pc = "settle", ![w].item = i, ![w].finished = now]
  /\ UNCHANGED <<now, article>>

Settled(w) == work' = [work EXCEPT ![w] = Idle]

\* The judgment is no alert, or the policy does not let it pass.
Drop(w) ==
  /\ work[w].pc = "settle"
  /\ log' = [log EXCEPT ![work[w].item].decision = "dropped"]
  /\ Settled(w)
  /\ UNCHANGED <<now, article>>

\* _mark_sentiment_alert writes the newest snapshot that is committed, without
\* the lock of the series: the mark is lost on a check that is open, and marks
\* of decisions that were answered later are, if that snapshot had one.
Marked(i, answered) ==
  [log[i] EXCEPT !.alerted = IF i = LatestIndex THEN answered ELSE @,
                 !.lost = @ \/ answered < log[i].finished]
Alert(w) ==
  /\ work[w].pc = "settle"
  /\ log' = [i \in DOMAIN log |->
       IF i = work[w].item
         THEN [Marked(i, work[w].finished) EXCEPT
                 !.decision = "alerted", !.finished = work[w].finished,
                 !.markedAt = Len(log), !.lost = ~Unlocked]
         ELSE Marked(i, work[w].finished)]
  /\ Settled(w)
  /\ UNCHANGED <<now, article>>

\* A pass fails or its process dies: the transaction is rolled back, and a claimed
\* decision comes back when its lease is over.
Stop(w) ==
  /\ work[w].pc # "idle"
  /\ work' = [work EXCEPT ![w] = Idle]
  /\ log' = IF work[w].item = 0 THEN log
            ELSE [log EXCEPT ![work[w].item].decision = "prepared"]
  /\ UNCHANGED <<now, article>>

-----------------------------------------------------------------------------
(* The provider and the clock *)

Publish(a) ==
  /\ article[a] = Unpublished /\ article[a - 1] # Unpublished
  /\ \E rating \in Ratings[a], delay \in Delays[a] :
       article' = [article EXCEPT ![a] = [revision |-> 1, rating |-> rating,
                                          published |-> now - delay, seen |-> now]]
  /\ UNCHANGED <<now, log, work>>

Revise(a) ==
  /\ article[a].revision = 1
  /\ Cardinality({b \in Articles : article[b].revision > 1}) < MaxRevised
  /\ \E rating \in Ratings[a] \ {article[a].rating} :
       article' = [article EXCEPT ![a].revision = @ + 1, ![a].rating = rating, ![a].seen = now]
  /\ UNCHANGED <<now, log, work>>

Tick ==
  /\ now < MaxTime
  /\ now' = now + 1
  /\ UNCHANGED <<article, log, work>>

Pass(w) ==
  \/ Read(w) \/ Evaluate(w) \/ Commit(w) \/ Drop(w) \/ Alert(w) \/ Stop(w)
  \/ \E i \in DOMAIN log : Respond(w, i)

Next ==
  \/ \E w \in Schedulers : Pass(w)
  \/ \E a \in 1..N : Publish(a)
  \/ \E a \in Articles : Revise(a)
  \/ Tick

Spec == Init /\ [][Next]_vars

-----------------------------------------------------------------------------
(* Properties *)

TypeOK ==
  /\ now \in Window..MaxTime
  /\ \A a \in Articles : article[a].revision \in 0..2
  /\ Len(log) <= MaxChecks
  /\ \A i \in DOMAIN log : log[i].direction \in {-1, 0, 1} /\ log[i].count \in 0..MaxChecks
  /\ \A w \in Schedulers : work[w].item \in 0..Len(log)

\* A snapshot that was the newest when it was committed.
InOrder(i) == \A j \in 1..(i - 1) : log[j].asOf < log[i].asOf

\* When the first revisions came in that were no late ones, of the current stories.
News(row) ==
  {o.seen : o \in {p \in UNION Current(row.mark, row.asOf) :
                     p.revision = 1 /\ p.label # "unknown" /\ p.seen - p.published <= Lateness}}

\* Jev is asked about a shift only when another check, committed before, had
\* found it too without the newest of the news, and no check between the two had
\* seen it end ("sustained across two newly observed provider batches",
\* "late/revised items ... cannot retroactively trigger a fresh alert",
\* docs/market-intelligence-migration-plan.md).
ShiftIsConfirmed ==
  /\ TypeOK
  /\ \A i \in DOMAIN log : log[i].decision # "none" =>
       \E j \in 1..(i - 1) :
         /\ log[j].direction = log[i].direction
         /\ \E new \in News(log[i]) : \A old \in News(log[j]) : old < new
         /\ \A k \in j..(i - 1) : InOrder(k) => log[k].direction = log[i].direction

\* A decision that is prepared after an alert was marked keeps the cooldown from
\* it, over restarts, failed passes and checks that found nothing: unless the
\* mark was written while another scheduler's check was open, which carries the
\* older state on, or was overwritten by that of a decision answered before.
AlertsAreSpaced ==
  \A i, j \in DOMAIN log :
    (log[i].decision = "alerted" /\ log[j].decision # "none" /\ j > log[i].markedAt) =>
      log[j].asOf - log[i].finished >= Cooldown \/ log[i].lost
=============================================================================
