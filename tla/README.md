# Verification of Hello Stock (`news_agent`)

TLA+ models of the parts of `src/src/news_agent` whose correctness depends on
the order of things: several processes on one database, calls of Telegram and
of model providers that fail or answer late, leases, retries, and processes
that die between two commits. Each module is translated from the code it names;
`PROJECT.json` maps every definition to its lines.

Check a model with `tlc -workers 2 -config <run>.cfg <module>.tla` and the proofs
of a component with `tlapm <module>_proofs.tla`.

## The system

Two long-running processes share a PostgreSQL database through SQLAlchemy:

* the **bot** (`main.py`, `bot/`, `app/`, `agent/`, `domains/`) answers Telegram
  messages, one after the other, through a graph of language-model calls;
* the **scheduler** (`scheduler/jobs.py`) runs the bulk loop (refresh pipelines,
  memory jobs, the daily report, cleanup) and, if market alerts are enabled, three
  periodic tasks beside it, each with an interval of its own: one collects news,
  one assesses it and one delivers alerts.

More than one scheduler may run at a time (a redeployment overlaps, a second
one is started by hand, commands start single passes), and either process may
be killed at any point. All coordination goes through rows of the database:
leases with tokens in the alert tables, an advisory lock for the report, status
columns for jobs. Within a process everything runs on one asyncio event loop,
so code between two awaits is atomic.

### Inventory

| Component | State | Operations | What is hard | What makes it correct |
|---|---|---|---|---|
| Alert dispatcher (`alerts/delivery.py`, second half of `alerts/storage.py`) | `market_alert_deliveries`: status, attempts, lease, token, `chunks_sent` | claim, guard, send a chunk, checkpoint, finish, recover | lost and late answers, leases that run out under a slow sender, commits that fail on either side, cancellation, crash | nothing shown twice or out of order; the table never says more than the chat shows; every row is settled |
| Alert assessment (`alerts/service.py`, first half of `alerts/storage.py`, `alerts/decision.py`) | `market_alert_decisions`, `market_alert_budgets`, the process's key circuit | tick, list, claim, reserve, request, settle, recover | a tick works with the clock it began with; billed answers that are lost; two assessors; month's end; a rejected key | the books balance, cover the bill and respect the limit; a decision is made once; everything is settled |
| Alert policy (`alerts/policy.py`) | none of its own | materiality, guards, hourly cap | the cap counts rows other transactions are writing | at most the configured alerts in an hour |
| Sentiment watch (`alerts/service.py:_sentiments`, `alerts/sentiment.py`) | `market_sentiment_snapshots`, the time of the last alert carried on from one to the next | read articles, lock the series, compare windows, confirm, prepare, mark | corrected and late articles, two schedulers whose clocks were read before the lock, the unlocked mark | a shift is confirmed by new news; alerts keep the cooldown |
| Alert collector (`alerts/collector.py`) | lease and counters inside `sources.config` (JSON) | claim, fetch, store | whole-JSON read-modify-write against the refresh and the bot, lock order | removals and refusals are not lost, the lease orders results, the source is polled for ever |
| Long-term memory (`memory/consolidation.py`) | cursor of a user, conversation events, jobs, learned memories | enqueue, list, process, add or update, retry, `/forget`, reset | several statements at READ COMMITTED, schedulers that list the same jobs, a transaction that spans model calls, commits that raise, deletions meanwhile | no message is passed over; failed attempts leave nothing; what was removed stays away; jobs end |
| Daily report (`scheduler/reports.py`) | one `runtime_runs` row a date, an advisory lock | lock, count, build, send, checkpoint, conclude | overlapping schedulers, failures between sending and recording | in order, one text, bounded repeats and attempts |
| Harness executor (`harness/executor.py`, `harness/contracts.py`) | tasks of nested batches, slots, the run's budget | validate, depend, take a slot, retry, time out, cancel | concurrency inside and between batches, interrupted writes, nested waiting | writes are ordered barriers and happen once; statuses are true; no waiting for itself |
| Harness service, MCP, OAuth | connections, files | set-up of a scope | external protocol | the handler of a command is the one it names |
| Refresh pipelines (`scheduler/service.py`, `graph/`) | `job_runs`, articles with embeddings, summaries, mentions | due, start, the nodes, finish | check-then-start, stale rows, texts that change under a call | embeddings are current, overlaps have a known cause, rows end, the rest of the loop is reached |
| Bot (`bot/handlers.py`, `app/supervisor.py`, `agent/`) | short-term session, conversation events, the message's run | route, loop of tools, review and retry, persist, reply | a session written back from what was read before, nodes that raise, a deadline that strikes anywhere | what is shown is recorded, a rejected answer says so, the run's status is true, every message ends |
| Research (`research/agents.py`, `research/orchestration.py`, `research/web_search.py`) | tasks and answers of one run | plan in turns, research companies at once, enrich, report | timeouts on four levels, tasks that are cancelled or left, partial failures, evidence that does not exist | answers in order and supported, shown or with a reason, no task outlives a research that returned |
| Repositories, ingestion, markets, search | rows; none | queries, parsing, scoring | article revisions | - |
| Observability, evaluation, maintenance, deployment | traces, scripts | - | - | - |

`PROJECT.json` lists the same components with their files and status, and under
`hazards` each place where one of these behaviours bites.

### Interaction

The three periodic tasks call the collector, `MarketAlertService.process_once`
and `MarketAlertDispatcher.dispatch_once`, independently of one another. The service's
transaction that decides an alert inserts the delivery row (`AlertDelivery!Enqueue` is
`AlertAssessment`'s decided alert), and both run `recover_expired` on both
tables, which is why each of the two models has an action in which the *other*
component recovers its rows. The dispatcher does so only if it is not in shadow mode
and has a token and a destination (`delivery.py:55-63`). The sentiment watch is part
of `process_once` and makes decisions of its own kind. The collector, the refresh and the bot's
commands meet in the row of a source (`SourceCollector`) and, the collector and
the refresh, in the rows of an article (`Refresh!Publish` is the collector).
`persist_session` of the bot queues memory jobs (`MemoryConsolidation`) that the
bulk loop processes after its refreshes (`Refresh!AfterPipelines`), which is why
`MemoryIsReached` matters; the report asks the harness for its text. A tool of
the main agent is a call of the executor (`HarnessExecutor`), the research agent
one with calls of its own (`CompanyResearch`).

## Modules

| Module | Models |
|---|---|
| `AlertOutbox` | what the dispatcher promises: a row is queued, its chunks appear in order, and it is settled once |
| `AlertDelivery` | the dispatcher in full; implements `AlertOutbox` by a refinement mapping |
| `AlertPolicy` | the limits a dispatcher computes from the other rows: cooldown, hourly cap, quiet hours |
| `AlertAssessment` | decisions, leases, the monthly budget, the key circuit |
| `SentimentShift` | one series of sentiments, its snapshots, decisions and marks |
| `SourceCollector` | the row of one source, its collectors and its other writers |
| `Refresh` | the bulk loop, `job_runs`, and the nodes of a refresh on one article |
| `MemoryConsolidation` | events, cursor, jobs, memories, `/forget` and the reset of one user |
| `DailyReport` | the report of one date |
| `ReportPromise` | what that report promises who reads the chat and its row |
| `HarnessExecutor` | one run: nested batches of calls over slots and a budget |
| `Conversation` | the answers to the messages of one user, and their short-term session |
| `CompanyResearch` | the live part of one market research |
| `MC...` | small instances for TLC |
| `RefreshSystem`, `SentimentSystem`, `ResearchSystem` | `Refresh`, `SentimentShift` and `CompanyResearch` as named instances, with their parameters, assumption, specification and properties: what is checked and proved of them |
| `..._proofs` | the theorems of `AlertDelivery`, `AlertPolicy` (with those of `SentimentShift`), `AlertAssessment`, `SourceCollector` (with those of `Refresh`), `MemoryConsolidation`, `DailyReport`, `HarnessExecutor` and `Conversation` (with those of `CompanyResearch`) |

### How state and actions correspond to the code

**AlertDelivery.** `row` is the table; a worker's `pc`, its claimed row and its
copies are the local variables of `dispatch_once`; `chat` and the request
buffer are Telegram's. One action per await: `Claim`, the guard's verdicts,
`Send`, the ways a send can end (`Acknowledged`, `Rejected`, `AnswerLost`),
`Checkpoint`, `Finish`, each transaction with a failing twin that may or may
not have taken effect, `Cancelled` at the awaits where a cancellation is
delivered, `Crash`. Two facts of the code deserve a note. A fully sent row
whose finish failed is recorded as failed and may end as expired: the table
then says less than the chat shows, never more. A deferral by the policy uses
up an attempt.

**AlertPolicy.** The same dispatcher, with less of its failures and with the
verdict of `_recheck_delivery` computed: `Waits` is the list of deadlines of
`guard_delivery`. An alert is one message, recorded by one step. `Queue` is the
first application of the policy, by an assessor whose clock may be behind (see
AlertAssessment), `Recheck` the second; they count different statuses. The
second reads the clock (`ReadClock`, `delivery.py:160`) and then waits for queries
and for the lock of the chat, while others deliver; `rushed` names the alerts
that such a check let go although another had been sent, or was being sent, that
counts for a time its clock had not reached (`Late`).

**AlertAssessment.** A worker's record is one run of `process_once`: the clock
it read when the tick began, the list of what was due, the decision in hand and
its token. `billed` is what the provider charged, known or not. Times are small
integers; the model keeps the code's two clocks apart: claims use the tick's
start, recovery and the request's end the real time.

**MemoryConsolidation.** `bot.pc` and each scheduler's `pc` stand between two
statements of `enqueue_if_due`, `forget`, `reset_user_state`, `process_due_jobs` and
`_process_job`. What a statement reads is what is committed when it runs; `row` is the
job as a scheduler's transaction has read it, which SQLAlchemy keeps for the session.
Row locks are guards: a memory that was written refers to its job, so the
reset's deletion of that job waits (`HoldsJob`); who has written a memory keeps
others from it (`Locked`); who is about to commit has the user's row and the job's
(`Committing`, `JobIsFree`). The loser of a deadlock is a failure. `learned` records
for each memory the job that wrote it last and the first message it draws on, instead
of a text.

Nothing keeps two schedulers from listing the same pending job, nor `mark_running`
from taking a job whose status has changed since; and `mark_failed`, which looks at no
status either, follows a commit that took effect and raised (`CommitRaises`) as it
follows any other failure. A completed job can so be run again. The properties
name these two causes: `overlap` has the jobs that a scheduler listed while another one
had them, `unsure` those whose commit took effect and raised. What is claimed is
that nothing else takes up a completed job or leaves a memory of one that is not
completed, and that not even then a message is passed over, or a memory the user
removed comes back. `mark_failed` reads the retries and writes them in two steps
(`ReadFailed`, `RecordFailure`), so that two schedulers can lose a count. `mark_seen`
only touches a time and is left out. Two memories the model does not forbid, because
the code promises nothing of them: a reset cannot see a memory that a running job has
inserted and not committed, which survives it, and a fact that was forgotten may
be learned anew from a later message.

**DailyReport.** `row` and `meta` are the committed metadata and the copy
`_deliver` works on; `rested` replaces the arithmetic on `last_attempt_at`. `today` is
true until local midnight (`Midnight`): `deliver_if_due` asks for the row of its own
day only, so a report that is not resolved by then is given up, though who is at
work on it goes on. The
connection of the lock is not lost while its holder goes on. The schedulers
implement `ReportPromise`, whose state is what the row says (completed, attempts)
and the chunks in the chat: an attempt is counted before it shows anything, a
chunk follows the one it continues, and "completed" comes once, after all of them.

**HarnessExecutor.** Steps the event loop runs without an await between them are
separate in the model, which only adds interleavings. A sub-agent's requests to
its model take a slot as a leaf does and are left out. `plan` is what models and
callers ask for: a list of calls with effects, batches and dependencies. `pc`
follows the task of a call from `execute_batch` through `_invoke`; `took` is
what the outside has seen. A handler issues one batch; in the code it may issue
several one after the other, each of which is over before the next begins.

**SourceCollector.** `config` holds the keys of the JSON column that matter, with
times as ages so that the clock can run for ever. The collector's transactions
lock the row (`SourceLocked`); every other writer goes through `Read` and
`Write`, and `Write` writes only the columns that differ from what was read,
as SQLAlchemy does. `articles` is the lock of the source's known articles, which
the refresh takes before the row and the collector after it. `track` follows the
claims from outside and forgives exactly what a stale copy can undo: once a
session has written back what had changed since it read it, the lease promises
nothing (`track.stale`), but removals and refusals must still be right.

**Refresh.** `pc` of the loop and of the bot is the node a refresh is at, `job` the
row it has inserted, `left` the running rows that nobody works on any more. One
article stands for those of the refresh, and its text is the current one, a
former one, or none: `Upsert` by the collector or by a refresh makes the current
text a former one in every hand. The nodes between which nothing is compared
are one step; the market's quotes (`graph/nodes.py:841-888`) are left out.
`excuses` records how two refreshes came to work at once; `blamed` is set when
something was doubled without one. A refresh that raises leaves its row running
(`Raise`), but for two places: before the row is inserted (`LoadFails`) and after it
was closed, in the trace, the report or the alert of its last node (`ReportFails`,
`graph/nodes.py:147-173`). Those end the tick without a row that would hold off the
next, and `rowless` says that the loop's last tick went that way.

**Conversation.** `stage` is the node of the graph, with the loop of tools as two
stages of its own. An answer is who made it and what was done to it; a message
is its number and role. The budget is the run's, spent by nested agents too.
`Cut` is the deadline of `StockNewsHarness.scope`: it cancels, and `traced`
catches exceptions only, so the run's row stays as it is. Telegram's updates are
handled one after the other, as python-telegram-bot does unless it is told
otherwise. The profile with interactive memory is assumed.

**SentimentShift.** `log` is the series' snapshots in the order of their commits,
each with the decision that was prepared in its transaction. Only
`aggregate_windows` and `evaluate_change` compute; their operators are the
code's, with means as products. Clocks of two passes differ; a pass reads when
it begins (`MaxIntake = 0` in the run: with a longer intake an older clock may be
the last to commit, which `InOrder` and `LatestIndex` provide for and the theorems
cover). A pass keeps the time it began with and the articles it read until it has the
lock, however many others commit meanwhile. `lost` says of an alert that the series
forgot it: its mark was written while a check was open, which then commits the older
state, or a decision that Jev had answered earlier was marked after it.
The scheduler's start is a free refusal of a decision. The series of Jev's own
judgments differs in that a correction empties it and is not modelled.

**CompanyResearch.** `calls` are the researches of one run with their tasks;
`agent` is the sub-agent. The transaction that comes before is left out: the
stored candidates are an input. A configured provider and a harness runtime are
assumed. A response names the company it is about and which addresses it
claims, so that `Verified` and `Parsed` can be the code's. What is given to the
synthesis counts as shown; that the prompt takes the first 6000 characters only
is not modelled.

## Runs

| Run | Shows |
|---|---|
| `alert_delivery` | two dispatchers, one row of two chunks, three attempts, times up to 5 with a lease of 2 and a deadline of 3: a lease can run out before and after the deadline, a late answer can arrive after another claim |
| `alert_assessment` | two assessors, which may be restarted with a newer key, a dispatcher that may recover their rows or not, two decisions about one event, a limit of 3 with reservations of 2: the second reservation never fits beside the first; a month ends between reservation and settlement; a rejected key is asked once |
| `alert_policy` | two dispatchers, two revisions of one event and another event, one alert an hour, a cooldown longer than an hour, one quiet time: every order of queueing, claiming, rechecking and sending; the clock counts thirds of an hour, so that an alert can be deferred and still be fresh |
| `sentiment` | two schedulers, four articles of which one may be negative, be corrected or come in late, two batches to confirm, a cooldown of two, three snapshots: a third check can follow an alert, whose mark may be lost |
| `sources` | two collectors, a session that is a refresh's or a command's, an interval of 2 and a lease of 3 with a lag of 1: a lease can run out under a fetch, and the row be read before and written after a claim |
| `refresh` | the loop with one pipeline of resources, the bot with that or the one of prices, a cutoff of one step of time: both can work at once, a row can become stale in any node, and a refresh may raise at any place any number of times |
| `memory_consolidation` | two schedulers that list up to two jobs, two messages in batches of one, two attempts, one candidate a batch, one memory, one reset, any number of `/forget` and of failures, and one job that is listed twice, or whose commit raises though it took effect, or one crash: a second job can be queued while the first is at work, and update the memory the first has added |
| `daily_report` | two schedulers, three chunks, three attempts, two faults (failed commits or deaths), a midnight at any time or never: two chunks can be repeated, and a death and a failed commit can hit one attempt; the schedulers implement `ReportPromise` |
| `harness_executor` | runs of four calls over two slots: a sub-agent between two leaves, a chain of sub-agents, and calls with dependencies, refusals, retries and a shared group |
| `conversation` | three messages over a window of three, two turns of tools, one review that may be repeated, four requests and two calls of budget: the window cuts a turn in half, and the budget can run out before, in and after the loop |
| `command_route` | a violation, see Findings |
| `company_research` | one stored company and another, one research by the model besides the fan-out, two turns, one slot, two attempts: a task can wait for the slot when the timeout strikes |

What the runs show is stated above each property in its module. Six of them
hold with an exception that the property names, because the code has it:
`LeaseIsKept` (stale copies of a source's config), `OverlapIsAccounted` (check
before insert, stale rows that are alive), `AlertsAreSpaced` (a mark written
while another scheduler checks, or overwritten by that of an earlier answer, is lost),
`HourlyCap` (alerts that a check let go by a clock older than what it counted, `rushed`),
`MemoryIsFaithful` (of completed jobs only) and `CompletedStays` (jobs that two
schedulers had at once, or whose commit took effect and raised). `TasksAreContained`
says of a research that was cut only that it keeps to its slots.

The bounds are the smallest at which each hazard can occur: two processes of a kind
are enough for every race here, since each step locks or tests one row, and tokens
or the lock make a third process a second competitor of the same kind; two
chunks give a first, a later and a last position for a fault, three attempts a
retry of a retry. The number of processes is a parameter of every theorem, so that
safety does not rest on this argument.

What keeps the state space finite without being of the code is a named constant.
`MaxTime`, `Horizon` (after which assessors begin only to recover rows), `MaxEvents`,
`MaxResets`, `MaxMessages`, `MaxChecks`, `MaxRevised`, `MaxIntake`, `MemoryIds` and
`MaxCalls` of `CompanyResearch`, which `ResearchSystem` calls `MaxAsked`, bound how long
a run is and how much it is given. Two bound what goes wrong, and liveness is
claimed of behaviours within them: `MaxFaults` of `DailyReport` the commits that fail
and the deaths (if every commit of an attempt failed before it took effect, the
day would pass without an attempt), and `MaxAccidents` of `MemoryConsolidation`
the jobs in `overlap` and `unsure`, each of which may come to be so again and again, and
the crashes, after which nothing is claimed of the end of a job.
`SourceCollector` and `Refresh` need no bound of time: ages saturate where the
code stops to tell them apart.

Deadlock is checked except in `alert_policy`, `conversation`, `command_route`,
`sentiment` and `company_research`, where the clock is at its end, the last
message was handled, the snapshots are used up or the research is over. `alert_policy` and `sentiment` check safety only and
use symmetry over their processes.

### Fairness

Liveness is claimed under weak fairness of the steps a process takes by itself
and of the clock: an asyncio task that can go on does, and the loops of
`scheduler/jobs.py` come back every interval and catch the exceptions of a
pass. Nothing obliges a user, a failure or a fault to happen. Requests end
because clients have timeouts.

* `AlertAssessment` asks that the clock runs, requests end, and each assessor goes on
  or is started again and comes back to `process_once`, which recovers. The
  dispatcher's recovery may happen and is not counted on: in shadow mode, which is the
  default, or without a token or destination, it returns before (`delivery.py:55-63`).
* `ReportIsResolved` asks that schedulers come back every tick of the report's day
  and Telegram decides. The day may end at any time, or be long enough for every
  attempt: from midnight on no tick takes the report up again, whatever attempts it
  has left (`reports.py:29-37`), and what is claimed then is that nobody is left at
  work on it.
* `BatchEnds` assumes less of timeouts: handlers return, but no timeout has to
  strike, so that a deadlock over slots would not be hidden by the timeout that
  breaks it. `ResearchEnds` likewise rests on the timeout of a single company,
  which every task has, and on none of the timeouts around it.
* `JobsAreResolved` asks of each scheduler by itself to go on and come back. Nobody is
  obliged to write or to reset; a transaction of the bot that hangs, with rows a job
  waits for, is not considered. It is claimed of behaviours
  without a crash between the transactions of a job, because the code has no recovery for a row left running
  (`mark_running` commits first, and a trace that raises at
  `memory/consolidation.py:180-191` or inside the handler at 326-357 is not
  caught).
* `KeepsPolling` assumes strong fairness of a claim and of storing a result: both
  wait for a row that a refresh locks for moments again and again. PostgreSQL
  queues those who wait for a lock, and the polls of the loop are not
  synchronised with refreshes.
* `MemoryIsReached` assumes that calls end, by a timeout if need be, and that the loop
  comes back within its interval. Its premise is that from some time on a refresh of
  the loop raises or ends before its row is stale, and that none raises before it has
  a row or after it closed it. Nothing in the code prevents either from happening
  in every tick, and then the memory jobs, the report and the cleanup are never
  reached; a row that is left running is what lets the loop pass by.
* `AnswerEnds` assumes that some node of the graph goes on: every call of a node
  has a timeout.

## Findings

`command_route`: the tool through which the harness calls a sub-agent hands it the
command, its arguments and the text, but not the route, and `NewsSubagent.run`
and `RuntimeSubagent.run` choose their handler by the route
(`harness/service.py:164-188`, `domains/news/subagent.py:60-91`). Slash commands
for sources, the scheduler, memory and alerts do not reach their handlers, against
`README.md:67`, `README.md:167-169` and `docs/architecture.md:59` of the source.
The other properties of the bot treat that answer as one of the default handler.

What modelling brought up beside that, without a run of its own:

* A reset that runs while a job is in its long transaction does not forget what
  that job has already inserted: the reset deletes the memories it can see, then
  waits for the job. The user is told "Learned memory has been reset."
  (`domains/news/subagent.py:353`).
* An alert that was sent and left unknown counts for the hourly cap at the time it
  was queued (`delivery.py:212`), so the chat may show one more in an hour than
  configured (`README.md:130-131`).
* `_recheck_delivery` reads its clock before its queries and before it waits for the
  chat's lock (`delivery.py:160`), and `guard_delivery` counts times up to that clock
  only. An alert that another dispatcher sent while this one waited is not
  counted, and the hour may hold one more: `HourlyCap` excepts what such a check let
  go. The cooldown does not suffer, since it compares from one side only.
* The cap and the cooldown hold for settings that nothing enforces
  (`settings.py:66-78` has lower bounds only): freshness plus lease, the longest way
  of an alert from the queue to the chat, within an hour for the cap; within the
  cooldown, and with the cooldown within the two hours that `delivery.py:197` looks
  back, for the cooldown. A longer cooldown ends after two hours. The
  defaults (30 minutes, 2 minutes, 60 minutes) satisfy both. A proof without these
  assumptions fails at the rows that are no longer looked at while still under way.
* Two dispatchers that hold the last two rows the cap has room for are each
  deferred because of the other's, and by the time they may go their news is too
  old. Nothing promises otherwise.
* `asyncio.wait` does not cancel its tasks when `research_many` itself is
  cancelled: by the timeout of its call (60 s, the same as the timeout of all
  companies), by the deadline, by the caller. The tasks go on and pay for answers
  nobody takes; `docs/stock-news-harness-proposal.md:302-303` wants children
  cancelled and awaited. A turn of the loop that raises drops what the turns
  before have found, and the stored candidates are then researched once more.
* `_mark_sentiment_alert` does not take the lock of the series: a mark written
  while a check is open is lost for the snapshots that follow. It also replaces the time
  of a later alert by that of one which Jev answered earlier.
* The collector locks a source before its articles, `normalize_dedupe` the
  articles before the source: the database resolves the deadlock by failing one.
* A refresh that was taken for dead writes completed over abandoned. When one of
  the loop's other jobs raises, the tick's `last_runs` are lost and its pipelines
  are due again. Mentions without a theme escape the unique constraint; once one
  is doubled, `scalar_one_or_none` raises in every later extraction of the article.
* A refresh that raises every time before it has a row, or after it has closed it,
  keeps the bulk loop from its memory jobs, its report and its cleanup for ever
  (`graph/nodes.py:86-104`, `graph/nodes.py:147-173`, `scheduler/service.py:149-157`).
* `process_due_jobs` lists jobs without a lock and `mark_running` and `mark_failed` look
  at no status (`repositories.py:1438-1484`): a second scheduler may run a completed
  job again, and a commit that took effect and raised makes its job pending again.
  What the job teaches is then consolidated twice. A job whose process died stays
  running, and its user's messages are never queued again.
* A daily report that is not complete at midnight is given up, attempts left or not.
* `process_once` prepares decisions that were blocked under another key once more
  (`alerts/service.py:364-384`). A sentiment decision made in this way does not consult
  the cooldown of its series, and `SentimentShift` leaves it out.
* An answer of no text is sent as such and not recorded (`app/supervisor.py:350`).
* The deadline leaves a message's row of `runtime_runs` running for ever. A
  retried answer can be replaced by an error text that is neither reviewed nor
  marked, if the budget is spent by then.
* A correction back to an earlier text makes no new revision of an event, so its
  decision is paid for and its alert is suppressed by the outbox's unique key.

## What is proved

Every safety property of the runs but the violation is a theorem, for every value of
the constants that the named assumption of its component allows. Every inductive
invariant was first checked by TLC as an invariant of the component's run. Each proof
has a lemma for every action, and the theorems follow from the invariant.

Eight modules hold the proofs. Three of them hold those of a second component, the one
their own works with: `Refresh` in `SourceCollector_proofs`, `CompanyResearch` in
`Conversation_proofs`, `SentimentShift` in `AlertPolicy_proofs`. Two components have
each an `Init`, a `Next` and variables of the same names, so the second one stands there
as a named instance (`R!`, `C!`, `W!`) with variables and constants of its own. That
instance, its assumption and its properties are declared once, in `RefreshSystem`,
`ResearchSystem` and `SentimentSystem`, which the proofs extend and the runs as well: what
TLC checks is what the theorem states. No proof about one of the two components uses
an assumption about the other.

**AlertDelivery** (any dispatchers, rows, chunks, attempts, lease and deadline):
`DispatcherTypes`, the type invariant; `NoDuplicates` (`ChatInOrder`),
`RetriesAreCertain` (`RetryIsCertain`), `DeliveredMeansComplete`
(`DeliveredIsComplete`), `SingleSender` (`OneSender`), `SettledRowsStay`
(`SettledStays`), and `ImplementsOutbox`: the dispatcher implements `AlertOutbox`.
The invariant (`DispatcherInvariant`) is that a token identifies the one worker
between claim and outcome: no token is given out twice, a row in sending
carries the token of at most one worker that still stands between claim and
finish, and a worker whose token is gone can write nothing. What the chat may
still come to show is then known from the row and its holder: a row that can be
claimed has no request under way and `chunks_sent` is exactly what is shown; a row
in sending shows that or one more, and only its holder can have a request out;
a row left unknown is never sent again. The clock is not needed for safety.

**AlertPolicy** (any dispatchers, alerts, clocks and settings): `CapHolds`
(`HourlyCap`) and `SpacingHolds` (`CooldownKept`), each under the hypothesis on the
settings that Findings explains; the run's settings satisfy both. The invariant
(`PolicyInvariant`) holds without them. It says of a row when it was or can still
be shown (no later than its freshness and its lease allow), that a row under way
has one dispatcher which knows whether its request is out, and counts: at every
time `T` (`Busy`), the alerts shown in the hour that ends at `T`, with those that a
check has let go and that may still be shown by then, are no more than the cap. Only a
check that lets an alert go adds to them, and unless it is late it has counted all
the others. The spacing is the same argument for pairs of alerts of one event.

**AlertAssessment** (any number of processes, decisions and months, any costs up
to the reservation): `SoundBooks` (`BooksAreSound`), `RejectedKeys`
(`RejectedOnce`), `DecidedRowsStay` (`DecidedStays`). A row carries a reservation
exactly while it is assessed, and by `AssessmentInvariant` what the provider has
charged for a decision, and may yet charge for each request under way, is at most
what the row has recorded and reserved. Summed over a month this is within the
budget's row, which no transaction takes over the limit. That needs sums over a
finite set that change in one place: `Total` is the size of a set of units, so that
the library's theorems about cardinality apply; `MCAlertAssessment` compares
it with `MapThenSumSet` of the community modules. Processes and decisions are
assumed to be finitely many.

**SourceCollector** (any collectors, sessions, interval, lease, lag and bound of
refusals): `SoundRow` (`RowIsSound`), `KeptLease` (`LeaseIsKept`).
`SourceInvariant` extends what is claimed of the row to every copy a session may
still write back: none counts a refusal that was not an answer. Whoever stores has
the row's token, and unless a stale copy was written back that is the newest
claim's. The attempt showed that with two sessions at once a copy can be stale though
no collector has claimed since it was read: the other session has written. From
then on the lease promises nothing either, and `track` says so.

**MemoryConsolidation** (any schedulers, jobs, memories, messages, candidates and
retries): `FaithfulMemory` (`MemoryIsFaithful`), `CompletedJobsStay`
(`CompletedStays`). `MemoryInvariant` says of the cursor, of each job, of the cursor a
message has read and of the job a scheduler has read that no message before it is
left out (`Covered`, `Ranged`). A job that a scheduler has in its queue is still
pending, one it works on still running, and one a memory refers to still
completed, unless a reset has deleted it or it is one of the excused (`Stands`). That
is inductive with several schedulers only because what two of them hold at once is
known to be in `overlap` (`PairsOK`): a step of one leaves the jobs of the others as
they are, or they are excused. Nobody has written a memory that a reset is about to
delete (`Apart`). What was to be forgotten stays away as long as no reset has deleted
a job (`Calm`); a memory the user has removed by itself (`erased`) is found neither in
the table nor in what a scheduler has written and not committed.

**DailyReport** (any schedulers, chunks, attempts and faults): `OneReport`
(`ChatShowsOneReport`), `BoundedRepeats` (`RepeatsAreBounded`). In `ReportInvariant`
the row is never ahead of the chat, the chat ahead of the row by at most one
message for each attempt, and all that is shown or under way is of the row's
text. With the invariant that nothing is on its way before an attempt was counted
(`Early`), it gives `KeepsPromise` (`PromiseSpec`), the refinement of
`ReportPromise`: `RowChange` says that a step leaves the row alone, counts an attempt
that is due, or is of a scheduler whose attempt the row has counted and which it
does not call completed. The only assumption on names is that no scheduler is
called `"free"`.

**HarnessExecutor** (any tree of calls, modes, slots, limits and attempts):
`SoundWrites` (`WritesAreSound`), `HonestStatus` (`StatusIsHonest`), `ContainedRun`
(`RunIsContained`). `HarnessInvariant` relates for each call its place, attempts,
starts and effects, and for each batch its issuer: it is on while the batch is,
and behind a call that only reads nothing is started that writes. `Below`, what
a call delegates at any depth, is the least set closed under batches, so that what
holds of a call and passes to its batch holds of all below it without recursion. The
budget is a count of the starts.

**Conversation** (any window, budget, iterations, reviews and messages):
`RecordedReplies` (`RepliesAreRecorded`), `RejectedReplies` (`RejectedIsMarked`),
`HonestRuns` (`RunIsHonest`). `ConversationInvariant`: the session, and the copy a
message made of it, is the end of the recorded conversation until that message
writes it back, because between the two nobody adds an event; the answer on its
way has been through the nodes its agent requires.

**Refresh** (any pipelines, market prices and cutoff):
`EmbeddingsStayCurrent` (`EmbeddingsAreCurrent`), `OverlapHasCause`
(`OverlapIsAccounted`). `RefreshInvariant` has three parts, none of which is kept
without the others. A process past its first node has a row of `job_runs`, unless it
is the bot that extracts mentions for a research (`RowInv`). Two rows, or a row and a
process that has been let through the check and has none yet, need one of the causes
named (`OverlapInv`): it is the second half that makes the first inductive, since the
insert follows a check made earlier. What a process works from is a text only while
a call for it is out, and if the summary or the mentions of that text are there
already, somebody else was at work, for a cause (`TextInv`). It is enough to tell the
current text from the former ones, because a save compares with the current one only.

**SentimentShift** (any schedulers, articles, events, publishers, ratings, delays,
windows and thresholds, `Batches` of two or more): `ShiftsStayConfirmed`
(`ShiftIsConfirmed`), `AlertsStaySpaced` (`AlertsAreSpaced`). With a single batch a shift
would be reported unconfirmed, and the first would not hold; the service leaves
`required_batches` at the default of two. The clock of a pass may be older than the
log's last (`MaxIntake`). By `SeriesInvariant` no two checks are as of the same time
(`Ordered`), so that the newest snapshot is one; a snapshot that counts `n` batches has
its newest news on record and follows as many snapshots (`LogInv`); a decision, and the one
an open check is about to commit, has its confirming snapshot, with every
in-order check between them agreeing (`ShiftInv`); and the newest snapshot, with the one an
open check is about to commit, knows of every alert whose mark is not lost
(`SpaceInv`). The last is why `lost` must also name the alerts an older answer
overwrote: the first attempt did not, and failed at `Alert`.

**CompanyResearch** (any stored companies, requests, responses and limits):
`ResearchStaysShown` (`ResearchIsShown`), `TasksStayContained` (`TasksAreContained`).
`ResearchInvariant` says of each research alone which tasks it may have at its
place, that no more of them ask than the semaphore lets in, and that a task which is
done holds the packet of its own company (`TasksOK`, `PacketsOK`); and of the agent
which researches it waits for (`PlanInv`), that the packets of the others are in its
hands unless a turn failed (`TakenInv`), and that the stored candidates are researched
only when it had none (`EnrichInv`). Which evidence of a response is kept is the set
that the code's loop would leave (`Verified`); that there is one is proved by way of the
shortest prefix of the response that had none.

Only model-checked: liveness, which is out of this prover's reach and stays with
TLC: `EventuallySettled` of both alert tables,
`JobsAreResolved`, `KeepsPolling`, `BatchEnds`, `ReportIsResolved`, `AnswerEnds`,
`ResearchEnds`, `RowsEnd`, `MemoryIsReached`.

## What is not modelled, and the plan

Not modelled because there is nothing for these tools to decide: prompts and
the texts of models, parsing of feeds, floating-point scores and embeddings,
wording and layout, traces beyond a run's status, command-line output, deployment
scripts. Not modelled because no second actor or failure makes them hard: market hours and
indicators, searches, summaries of single articles, settings, maintenance
scripts. Left out of modelled components:

* Alerts: how an event is recognised in an article and revised (`event_identity`,
  `same_event`, `_prepare`), the prompt and the parsing of Jev's answer.
* Research: mentions become signals, scores, link checks and snapshots in one
  transaction (`research/agents.py:128-297`, `research/scheduler.py`,
  `research/link_validation.py`). The evidence of a snapshot is written back from
  what was read before the links were checked over the network, which can undo a
  newer check.
* Harness: tokens and the size of results, MCP servers and OAuth.

The plan from here:

1. An abstract budget (reserve, settle, never above the limit) that
   `AlertAssessment` implements, as `AlertDelivery` implements `AlertOutbox` and
   `DailyReport` implements `ReportPromise`.
2. The transaction that comes before the live research, with the checks of links that
   its snapshots are written back over.
3. The series of Jev's own judgments beside that of the provider's labels.
