-------------------------------- MODULE Refresh --------------------------------
(***************************************************************************)
(* Refreshes: the bulk loop of the scheduler (scheduler/service.py), which *)
(* runs the pipelines that are due and then the memory jobs, the report    *)
(* and the cleanup, and the bot, whose /refresh runs a pipeline and whose  *)
(* research extracts mentions; the row of job_runs each refresh has; the   *)
(* stages of graph/nodes.py on one article, whose text the collector may   *)
(* change at any time.                                                     *)
(*                                                                         *)
(* A refresh is allowed by a query and begins with a later insert.  One    *)
(* that raises leaves its row running, until a check finds it stale.       *)
(* Embedding, summary and mentions are made by calls outside transactions  *)
(* and saved for the revision of the text they were made from.             *)
(***************************************************************************)
EXTENDS Integers, Sequences, FiniteSetsExt

CONSTANTS Loop, Bot,     \* the two processes
          Pipelines,     \* names of the pipelines, in the order of _due_pipelines
          MarketPrices,  \* the one that runs in market hours only
          Cutoff         \* age at which a running row counts as stale

Settings ==
  /\ Loop # Bot
  /\ Cutoff \in Nat \ {0}
  /\ Pipelines \in Seq(STRING) \ {<<>>} /\ MarketPrices \in STRING

VARIABLES
  pc,        \* where a process stands: a node of the graph, or between refreshes
  kind,      \* the pipeline it runs
  job,       \* its row of job_runs
  age,       \* and how long ago that was inserted
  left,      \* ages of the running rows whose refresh is over
  queue,     \* pipelines of the tick that are still to be run, by their places
  ran,       \* those that have been
  rested,    \* pipelines whose interval has passed since last_runs
  slept,     \* time since the last tick
  embedding, \* the article's embedding: of which of its texts
  summary,   \* whether its current text has a summary
  summaryEmbedding, \* and the embedding of a summary
  mentions,  \* the mentions of its current text
  reading,   \* the text a process works from
  excuses,   \* how processes have come to work at the same time
  blamed,    \* something was saved twice without an excuse
  rowless    \* the loop's last tick was ended by a refresh that left no row running

jobVars == <<job, age, left>>
tickVars == <<queue, ran, rested, slept>>
derived == <<embedding, summary, summaryEmbedding, mentions>>
vars == <<pc, kind, jobVars, tickVars, derived, reading, excuses, blamed, rowless>>

Processes == {Loop, Bot}
Names == {Pipelines[i] : i \in DOMAIN Pipelines}
Kinds == Names \cup {MarketPrices}
Ages == 0..(Cutoff + 1)

\* A text is the article's current one, a former one, or there is none: what
\* the code compares of revisions.
Texts == {"none", "current", "former"}

Nodes == {"load_due_sources", "fetch_parallel", "normalize_dedupe", "embed_store", "embedding",
          "precompute_summaries", "summarizing", "extract_mentions", "saving",
          "retry_or_recover"}

TypeOK ==
  /\ pc \in [Processes -> Nodes \cup {"idle", "next", "after"}]
  /\ kind \in [Processes -> Kinds]
  /\ job \in [Processes -> {"none", "running", "abandoned"}]
  /\ age \in [Processes -> Ages] /\ left \subseteq Ages
  /\ queue \subseteq DOMAIN Pipelines /\ ran \subseteq Names /\ rested \subseteq Names /\ slept \in 0..1
  /\ {embedding, summaryEmbedding} \subseteq Texts /\ summary \in BOOLEAN
  /\ mentions \in 0..2 /\ reading \in [Processes -> Texts]
  /\ excuses \subseteq {"race", "late", "research"} /\ blamed \in BOOLEAN
  /\ rowless \in BOOLEAN

Init ==
  /\ pc = [p \in Processes |-> "idle"]
  /\ kind = [p \in Processes |-> Pipelines[1]]
  /\ job = [p \in Processes |-> "none"] /\ age = [p \in Processes |-> 0] /\ left = {}
  /\ queue = {} /\ ran = {} /\ rested = Names /\ slept = 0
  /\ embedding = "none" /\ summary = FALSE /\ summaryEmbedding = "none" /\ mentions = 0
  /\ reading = [p \in Processes |-> "none"]
  /\ excuses = {} /\ blamed = FALSE /\ rowless = FALSE

Goto(p, node) == pc' = [pc EXCEPT ![p] = node]

-----------------------------------------------------------------------------
(* JobRepository *)

Fresh(ages) == {a \in ages : a <= Cutoff}
Stale(p) == job[p] = "running" /\ age[p] > Cutoff

\* For comparison: only the rows of refreshes at work are recovered.
RecoverLive ==
  /\ job' = [p \in Processes |-> IF Stale(p) THEN "abandoned" ELSE job[p]]
  /\ excuses' = IF \E p \in Processes : Stale(p) THEN excuses \cup {"late"} ELSE excuses
  /\ UNCHANGED <<age, left>>

\* recover_stale_running_jobs; a refresh that is still at work may be abandoned.
RecoverStale ==
  /\ left' = Fresh(left)
  /\ job' = [p \in Processes |-> IF Stale(p) THEN "abandoned" ELSE job[p]]
  /\ excuses' = IF \E p \in Processes : Stale(p) THEN excuses \cup {"late"} ELSE excuses
  /\ UNCHANGED age

\* For comparison: a row counts only once its refresh is over.
HasLeftJob == Fresh(left) # {}

\* has_running_job, once the stale ones are gone.
HasRunningJob == Fresh(left) # {} \/ \E p \in Processes : job[p] = "running" /\ ~Stale(p)

-----------------------------------------------------------------------------
(* The loop and the bot *)

Due(open) ==
  {i \in DOMAIN Pipelines : Pipelines[i] \in rested /\ (Pipelines[i] = MarketPrices => open)}

\* run_scheduler_tick; the market may be open or closed.
StartTick(open) ==
  /\ pc[Loop] = "idle"
  /\ queue' = Due(open) /\ ran' = {} /\ slept' = 0 /\ rowless' = FALSE
  /\ Goto(Loop, "next")
  /\ UNCHANGED <<kind, jobVars, rested, derived, reading, excuses, blamed>>

\* can_start_refresh, for the next pipeline that is due: it is passed over while
\* a refresh is running.
NextPipeline ==
  /\ pc[Loop] = "next" /\ queue # {}
  /\ RecoverStale
  /\ queue' = queue \ {Min(queue)}
  /\ IF HasRunningJob
       THEN UNCHANGED <<pc, kind>>
       ELSE /\ Goto(Loop, "load_due_sources")
            /\ kind' = [kind EXCEPT ![Loop] = Pipelines[Min(queue)]]
  /\ UNCHANGED <<ran, rested, slept, derived, reading, blamed, rowless>>

Manual(n) ==
  /\ pc[Bot] = "idle"
  /\ RecoverStale
  /\ IF HasRunningJob
       THEN UNCHANGED <<pc, kind>>
       ELSE Goto(Bot, "load_due_sources") /\ kind' = [kind EXCEPT ![Bot] = n]
  /\ UNCHANGED <<tickVars, derived, reading, blamed, rowless>>

\* All pipelines are dealt with: the memory jobs, the report and the cleanup.
AfterPipelines ==
  /\ pc[Loop] = "next" /\ queue = {}
  /\ Goto(Loop, "after")
  /\ UNCHANGED <<kind, jobVars, tickVars, derived, reading, excuses, blamed, rowless>>

EndTick ==
  /\ pc[Loop] = "after"
  /\ rested' = rested \ ran
  /\ Goto(Loop, "idle")
  /\ UNCHANGED <<kind, jobVars, queue, ran, slept, derived, reading, excuses, blamed, rowless>>

\* One of them raises: the times of this tick's refreshes are lost.
TickFails ==
  /\ pc[Loop] = "after"
  /\ Goto(Loop, "idle")
  /\ UNCHANGED <<kind, jobVars, tickVars, derived, reading, excuses, blamed, rowless>>

IntervalOver(n) ==
  /\ n \notin rested /\ rested' = rested \cup {n}
  /\ UNCHANGED <<pc, kind, jobVars, queue, ran, slept, derived, reading, excuses, blamed, rowless>>

\* A research request of the bot extracts mentions as a refresh does.
Research ==
  /\ pc[Bot] = "idle"
  /\ Goto(Bot, "extract_mentions")
  /\ excuses' = excuses \cup {"research"}
  /\ UNCHANGED <<kind, jobVars, tickVars, derived, reading, blamed, rowless>>

-----------------------------------------------------------------------------
(* The nodes of a refresh *)

Working(p) == pc[p] \notin {"idle", "next", "after"}

\* A process is done with its refresh or its research; what excuses an overlap
\* is forgotten when nobody works.
Leave(p, to) ==
  /\ Goto(p, to)
  /\ excuses' = IF \E q \in Processes \ {p} : Working(q) THEN excuses ELSE {}
NoRow(p) == job' = [job EXCEPT ![p] = "none"] /\ age' = [age EXCEPT ![p] = 0]
Done(p) == reading' = [reading EXCEPT ![p] = "none"]

LoadDueSources(p) ==
  /\ pc[p] = "load_due_sources"
  /\ job' = [job EXCEPT ![p] = "running"] /\ age' = [age EXCEPT ![p] = 0]
  /\ excuses' = IF \E q \in Processes \ {p} : pc[q] = "load_due_sources"
                  THEN excuses \cup {"race"} ELSE excuses
  /\ Goto(p, "fetch_parallel")
  /\ UNCHANGED <<kind, left, tickVars, derived, reading, blamed, rowless>>

\* The tick or the request is over, with no row that holds off the next.
EndRowless(p) ==
  /\ rowless' = (rowless \/ p = Loop)
  /\ Leave(p, "idle")

\* It raises before there is a row.
LoadFails(p) ==
  /\ pc[p] = "load_due_sources"
  /\ EndRowless(p)
  /\ UNCHANGED <<kind, jobVars, tickVars, derived, reading, blamed>>

\* upsert_article of a new text: the embeddings of the former one are deleted,
\* its summaries and mentions remain.
Upsert ==
  /\ embedding' = "none" /\ summaryEmbedding' = "none"
  /\ summary' = FALSE /\ mentions' = 0
  /\ reading' = [p \in Processes |-> IF reading[p] = "current" THEN "former" ELSE reading[p]]

\* By the collector.
Publish ==
  /\ Upsert
  /\ UNCHANGED <<pc, kind, jobVars, tickVars, excuses, blamed, rowless>>

\* The sources and symbols are asked; a failure of theirs is an error of the job
\* and no more.
FetchParallel(p) ==
  /\ pc[p] = "fetch_parallel"
  /\ Goto(p, "normalize_dedupe")
  /\ UNCHANGED <<kind, jobVars, tickVars, derived, reading, excuses, blamed, rowless>>

\* The pipeline of prices has no articles and passes over the stages that follow.
NormalizeDedupe(p) ==
  /\ pc[p] = "normalize_dedupe"
  /\ (kind[p] # MarketPrices /\ Upsert) \/ UNCHANGED <<derived, reading>>
  /\ Goto(p, IF kind[p] = MarketPrices THEN "retry_or_recover" ELSE "embed_store")
  /\ UNCHANGED <<kind, jobVars, tickVars, excuses, blamed, rowless>>

Take(p) == reading' = [reading EXCEPT ![p] = "current"]

\* embed_store takes what was saved and what has no embedding, as far as a
\* batch goes.
EmbedStore(p) ==
  /\ pc[p] = "embed_store"
  /\ \/ Take(p) /\ Goto(p, "embedding")
     \/ Goto(p, "precompute_summaries") /\ UNCHANGED reading
  /\ UNCHANGED <<kind, jobVars, tickVars, derived, excuses, blamed, rowless>>

\* For comparison: the revision is not compared.
SaveAnyEmbedding(p) ==
  /\ pc[p] = "embedding"
  /\ embedding' = reading[p]
  /\ Done(p)
  /\ Goto(p, "precompute_summaries")
  /\ UNCHANGED <<kind, jobVars, tickVars, summary, summaryEmbedding, mentions, excuses,
                 blamed, rowless>>

\* save_article_embedding, under the lock of the article's row.
SaveArticleEmbedding(p) ==
  /\ pc[p] = "embedding"
  /\ embedding' = IF reading[p] = "current" THEN "current" ELSE embedding
  /\ Done(p)
  /\ Goto(p, "precompute_summaries")
  /\ UNCHANGED <<kind, jobVars, tickVars, summary, summaryEmbedding, mentions, excuses,
                 blamed, rowless>>

\* precompute_summaries takes an article without a summary of its revision.
PrecomputeSummaries(p) ==
  /\ pc[p] = "precompute_summaries"
  /\ \/ ~summary /\ Take(p) /\ Goto(p, "summarizing")
     \/ Goto(p, "extract_mentions") /\ UNCHANGED reading
  /\ UNCHANGED <<kind, jobVars, tickVars, derived, excuses, blamed, rowless>>

\* The summary and its embedding, under the lock of the article's row.
SaveSummary(p) ==
  /\ pc[p] = "summarizing"
  /\ IF reading[p] = "current"
       THEN /\ summary' = TRUE /\ summaryEmbedding' = "current"
            /\ blamed' = (blamed \/ (summary /\ excuses \cap {"race", "late"} = {}))
       ELSE UNCHANGED <<summary, summaryEmbedding, blamed>>
  /\ Done(p)
  /\ Goto(p, "extract_mentions")
  /\ UNCHANGED <<kind, jobVars, tickVars, embedding, mentions, excuses, rowless>>

\* extract_market_mentions looks for the mention, which has no theme: one that
\* is there is kept, none is added, and several raise (see Raise).
ExtractMentions(p) ==
  /\ pc[p] = "extract_mentions" /\ mentions < 2
  /\ IF mentions = 0 THEN Take(p) ELSE UNCHANGED reading
  /\ Goto(p, "saving")
  /\ UNCHANGED <<kind, jobVars, tickVars, derived, excuses, blamed, rowless>>

\* The transaction commits: no constraint compares mentions without a theme.
SaveMention(p) ==
  /\ pc[p] = "saving"
  /\ IF reading[p] = "current"
       THEN /\ mentions' = IF mentions < 2 THEN mentions + 1 ELSE mentions
            /\ blamed' = (blamed \/ (mentions > 0 /\ excuses = {}))
       ELSE UNCHANGED <<mentions, blamed>>
  /\ Done(p)
  /\ IF job[p] = "none"
       THEN Leave(p, "idle")
       ELSE Goto(p, "retry_or_recover") /\ UNCHANGED excuses
  /\ UNCHANGED <<kind, jobVars, tickVars, embedding, summary, summaryEmbedding, rowless>>

\* finish, whatever has become of the row meanwhile; last_runs are the tick's.
RetryOrRecover(p) ==
  /\ pc[p] = "retry_or_recover"
  /\ NoRow(p)
  /\ ran' = IF p = Loop THEN ran \cup {kind[p]} ELSE ran
  /\ Leave(p, IF p = Loop THEN "next" ELSE "idle")
  /\ UNCHANGED <<kind, left, queue, rested, slept, derived, reading, blamed, rowless>>

\* The trace, the report or the alert of the node raises when the row is closed:
\* the times of this tick's refreshes are lost.
ReportFails(p) ==
  /\ pc[p] = "retry_or_recover"
  /\ NoRow(p)
  /\ EndRowless(p)
  /\ UNCHANGED <<kind, left, tickVars, derived, reading, blamed>>

\* For comparison: a refresh that raises closes its row.
RaiseClosing(p) ==
  /\ pc[p] \in Nodes \ {"load_due_sources"}
  /\ NoRow(p) /\ Done(p)
  /\ Leave(p, "idle")
  /\ UNCHANGED <<kind, left, tickVars, derived, blamed, rowless>>

\* A node raises or the process dies: the row stays as it is, and the tick or
\* the request is over.
Raise(p) ==
  /\ pc[p] \in Nodes \ {"load_due_sources"}
  /\ left' = IF job[p] = "running" THEN left \cup {age[p]} ELSE left
  /\ NoRow(p) /\ Done(p)
  /\ Leave(p, "idle")
  /\ UNCHANGED <<kind, tickVars, derived, blamed, rowless>>

-----------------------------------------------------------------------------
Older(a) == IF a > Cutoff THEN a ELSE a + 1

\* Time passes, but the loop neither sleeps for longer than its interval nor
\* lingers between two refreshes.
Time ==
  /\ pc[Loop] # "next" /\ ~(pc[Loop] = "idle" /\ slept = 1)
  /\ age' = [p \in Processes |-> IF job[p] = "none" THEN 0 ELSE Older(age[p])]
  /\ left' = {Older(a) : a \in left}
  /\ slept' = IF pc[Loop] = "idle" THEN 1 ELSE slept
  /\ UNCHANGED <<pc, kind, job, queue, ran, rested, derived, reading, excuses, blamed, rowless>>

Work(p) ==
  \/ LoadDueSources(p) \/ FetchParallel(p) \/ NormalizeDedupe(p)
  \/ EmbedStore(p) \/ SaveArticleEmbedding(p)
  \/ PrecomputeSummaries(p) \/ SaveSummary(p) \/ ExtractMentions(p) \/ SaveMention(p)
  \/ RetryOrRecover(p)

Tick == NextPipeline \/ AfterPipelines \/ EndTick \/ \E open \in BOOLEAN : StartTick(open)

Next ==
  \/ Tick \/ TickFails \/ Publish \/ Research \/ Time
  \/ \E n \in Kinds : Manual(n)
  \/ \E n \in Names : IntervalOver(n)
  \/ \E p \in Processes : Work(p) \/ Raise(p) \/ LoadFails(p) \/ ReportFails(p)

Spec == Init /\ [][Next]_vars

\* The loop comes back and its intervals pass; calls end, by a timeout if need be.
FairSpec ==
  /\ Spec
  /\ WF_vars(Tick) /\ WF_vars(Time)
  /\ \A p \in Processes : WF_vars(Work(p) \/ Raise(p))
  /\ \A n \in Names : WF_vars(IntervalOver(n))

-----------------------------------------------------------------------------
(* Properties *)

\* An embedding, of the article or of its summary, is always of the article's
\* current text, although it is made outside any transaction and the text may
\* change meanwhile (storage/repositories.py: upsert_article, save_*_embedding).
EmbeddingsAreCurrent == TypeOK /\ "former" \notin {embedding, summaryEmbedding}

Refreshing(p) == job[p] # "none"

\* Two refreshes work at the same time only if one began between the other's
\* check and its insert, or had been at work for longer than the cutoff; and a
\* summary or a mention is doubled only in such a case, or by a research that
\* extracts at the same time.
OverlapIsAccounted ==
  /\ Refreshing(Loop) /\ Refreshing(Bot) => excuses \cap {"race", "late"} # {}
  /\ ~blamed

\* The loop comes to the memory jobs, the report and the cleanup again and again
\* even if every refresh raises at a node of the graph: the row it leaves running
\* holds off the next tick's refreshes.  That takes a row: a loop whose refreshes go
\* on to raise before they have one, or after they closed it, may never get there.
\* And they have to raise in time for that row not to be stale at the next tick.
MemoryIsReached ==
  <>[](~rowless /\ (Refreshing(Loop) => age[Loop] < Cutoff)) => []<>(pc[Loop] = "after")

\* A row that a refresh has left running does not stay stale.
RowsEnd == []<>(Cutoff + 1 \notin left)
===============================================================================
