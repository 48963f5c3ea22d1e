---------------------------- MODULE DailyReport ----------------------------
(***************************************************************************)
(* The daily research report of one date: DailyResearchReportService       *)
(* (scheduler/reports.py) over its row of runtime_runs                     *)
(* (storage/repositories.py), called by every tick of every scheduler.     *)
(*                                                                         *)
(* A scheduler takes an advisory lock in a transaction of its own, counts  *)
(* the attempt, builds the text once, and sends it chunk by chunk with a   *)
(* commit after each.  Calls of Telegram may fail, and take effect after   *)
(* the caller gave up; a commit may fail before or after it took effect;   *)
(* a process may die anywhere, which ends its lock.                        *)
(***************************************************************************)
EXTENDS Integers, FiniteSets, Sequences

CONSTANTS Schedulers,
          Chunks,       \* length of split_telegram_message(text)
          MaxAttempts,  \* settings.daily_research_report_max_attempts
          MaxFaults     \* bound of failed commits and deaths

ASSUME ReportAssumption ==
  /\ {Chunks, MaxAttempts} \subseteq Nat \ {0} /\ MaxFaults \in Nat
  /\ "free" \notin Schedulers

VARIABLES
  row,    \* the date's row in runtime_runs
  rested, \* daily_research_report_retry_seconds have passed since last_attempt_at
  lock,   \* holder of the advisory lock, or "free"
  pc,
  meta,   \* the metadata a scheduler works on
  net,    \* messages Telegram was sent and has not decided about
  chat,   \* what the chat shows
  texts,  \* reports built so far
  begun,  \* attempts that went on to build or send
  today,  \* it is still the report's date, in daily_research_report_timezone
  faults

vars == <<row, rested, lock, pc, meta, net, chat, texts, begun, today, faults>>

NoMeta == [attempts |-> 0, text |-> 0, sent |-> 0]
NoRow == [status |-> "absent", meta |-> NoMeta]

Metas == [attempts : 0..MaxAttempts, text : 0..MaxAttempts, sent : 0..Chunks]
Messages == [chunk : 1..Chunks, text : 1..MaxAttempts, attempt : 1..MaxAttempts]

TypeOK ==
  /\ row \in [status : {"absent", "running", "failed", "completed"}, meta : Metas]
  /\ rested \in BOOLEAN
  /\ lock \in Schedulers \cup {"free"}
  /\ pc \in [Schedulers -> {"idle", "locked", "build", "send", "wait", "checkpoint",
                            "failed"}]
  /\ meta \in [Schedulers -> Metas]
  /\ net \subseteq Messages
  /\ chat \in Seq(Messages)
  /\ texts \in 0..MaxAttempts /\ begun \in 0..MaxAttempts
  /\ today \in BOOLEAN /\ faults \in 0..MaxFaults

Init ==
  /\ row = NoRow /\ rested = FALSE
  /\ lock = "free"
  /\ pc = [s \in Schedulers |-> "idle"]
  /\ meta = [s \in Schedulers |-> NoMeta]
  /\ net = {} /\ chat = <<>>
  /\ texts = 0 /\ begun = 0 /\ today = TRUE /\ faults = 0

-----------------------------------------------------------------------------

GoTo(s, p) == pc' = [pc EXCEPT ![s] = p] /\ UNCHANGED lock

\* The call of _deliver ends, and with its session the lock.
Leave(s) ==
  /\ pc' = [pc EXCEPT ![s] = "idle"]
  /\ lock' = IF lock = s THEN "free" ELSE lock

\* A commit that fails, having taken effect or not.
CommitFails(new) ==
  /\ faults < MaxFaults
  /\ faults' = faults + 1
  /\ row' \in {row, new}

\* deliver_if_due is about the report of its own day.  pg_try_advisory_xact_lock: who
\* does not get the lock leaves the report alone.
Lock(s) ==
  /\ pc[s] = "idle" /\ today /\ lock = "free"
  /\ lock' = s
  /\ pc' = [pc EXCEPT ![s] = "locked"]
  /\ UNCHANGED <<row, rested, meta, net, chat, texts, begun, faults, today>>

DueOnlyOnce == row.status = "absent"
DueAgain == row.status = "absent" \/ (row.meta.attempts < MaxAttempts /\ rested)
Due ==
  \/ row.status = "absent"
  \/ row.status # "completed" /\ row.meta.attempts < MaxAttempts /\ rested

NotDue(s) ==
  /\ pc[s] = "locked" /\ ~Due
  /\ Leave(s)
  /\ UNCHANGED <<row, rested, meta, net, chat, texts, begun, faults, today>>

\* The attempt is counted and committed before anything is built or sent; a row
\* that failed before keeps that status meanwhile.
Counted(n) == n + 1

Attempted ==
  [status |-> IF row.status = "absent" THEN "running" ELSE row.status,
   meta |-> [row.meta EXCEPT !.attempts = Counted(row.meta.attempts)]]

\* The lock belongs to a transaction that these commits do not end.
LockAfterCommitInOneSession(s) == "free"
LockAfterCommit(s) == lock

BeginAttempt(s) ==
  /\ pc[s] = "locked" /\ Due
  /\ row' = Attempted /\ rested' = FALSE
  /\ meta' = [meta EXCEPT ![s] = Attempted.meta]
  /\ begun' = begun + 1
  /\ pc' = [pc EXCEPT ![s] = "build"]
  /\ lock' = LockAfterCommit(s)
  /\ UNCHANGED <<net, chat, texts, faults, today>>

\* Before the try: the exception ends the call.
BeginFails(s) ==
  /\ pc[s] = "locked" /\ Due
  /\ CommitFails(Attempted)
  /\ rested' = (rested /\ row' = row)
  /\ Leave(s)
  /\ UNCHANGED <<meta, net, chat, texts, begun, today>>

\* The text is built by the first attempt that can, and stored.
RebuildAlways(m) == TRUE
NeedsText(m) == m.text = 0

Build(s) ==
  /\ pc[s] = "build"
  /\ IF NeedsText(meta[s])
       THEN /\ texts' = texts + 1
            /\ meta' = [meta EXCEPT ![s].text = texts + 1]
            /\ \/ row' = [row EXCEPT !.meta = meta'[s]] /\ GoTo(s, "send") /\ UNCHANGED faults
               \/ CommitFails([row EXCEPT !.meta = meta'[s]]) /\ GoTo(s, "failed")
       ELSE GoTo(s, "send") /\ UNCHANGED <<row, meta, texts, faults>>
  /\ UNCHANGED <<rested, net, chat, begun, today>>

BuildFails(s) ==
  /\ pc[s] = "build" /\ NeedsText(meta[s])
  /\ GoTo(s, "failed")
  /\ UNCHANGED <<row, rested, meta, net, chat, texts, begun, faults, today>>

NextChunk(m) == m.sent + 1

Message(s) == [chunk |-> NextChunk(meta[s]), text |-> meta[s].text,
               attempt |-> meta[s].attempts]

Send(s) ==
  /\ pc[s] = "send" /\ NextChunk(meta[s]) <= Chunks
  /\ net' = net \cup {Message(s)}
  /\ GoTo(s, "wait")
  /\ UNCHANGED <<row, rested, meta, chat, texts, begun, faults, today>>

\* Telegram accepts a message, or drops it, whether or not anyone still waits.
Accept ==
  \E m \in net :
    /\ net' = net \ {m}
    /\ chat' = Append(chat, m)
    /\ UNCHANGED <<row, rested, lock, pc, meta, texts, begun, faults, today>>

Drop ==
  \E m \in net :
    /\ \A s \in Schedulers : pc[s] = "wait" => Message(s) # m
    /\ net' = net \ {m}
    /\ UNCHANGED <<row, rested, lock, pc, meta, chat, texts, begun, faults, today>>

Shown(m) == \E i \in DOMAIN chat : chat[i] = m

Acknowledged(s) ==
  /\ pc[s] = "wait" /\ Shown(Message(s))
  /\ GoTo(s, "checkpoint")
  /\ UNCHANGED <<row, rested, meta, net, chat, texts, begun, faults, today>>

Rejected(s) ==
  /\ pc[s] = "wait" /\ Message(s) \in net
  /\ net' = net \ {Message(s)}
  /\ GoTo(s, "failed")
  /\ UNCHANGED <<row, rested, meta, chat, texts, begun, faults, today>>

AnswerLost(s) ==
  /\ pc[s] = "wait"
  /\ GoTo(s, "failed")
  /\ UNCHANGED <<row, rested, meta, net, chat, texts, begun, faults, today>>

\* The count is raised in memory first, so that the failure's record has it too.
NoProgress(m) == m
Progress(m) == [m EXCEPT !.sent = @ + 1]

Checkpoint(s) ==
  /\ pc[s] = "checkpoint"
  /\ meta' = [meta EXCEPT ![s] = Progress(@)]
  /\ \/ row' = [row EXCEPT !.meta = meta'[s]] /\ GoTo(s, "send") /\ UNCHANGED faults
     \/ CommitFails([row EXCEPT !.meta = meta'[s]]) /\ GoTo(s, "failed")
  /\ UNCHANGED <<rested, net, chat, texts, begun, today>>

\* All chunks are sent; after the try, so an exception ends the call.
Conclude(s) ==
  LET new == [status |-> "completed", meta |-> meta[s]] IN
  /\ pc[s] = "send" /\ NextChunk(meta[s]) > Chunks
  /\ (row' = new /\ UNCHANGED faults) \/ CommitFails(new)
  /\ Leave(s)
  /\ UNCHANGED <<rested, meta, net, chat, texts, begun, today>>

RecordFailure(s) ==
  LET new == [status |-> "failed", meta |-> meta[s]] IN
  /\ pc[s] = "failed"
  /\ (row' = new /\ UNCHANGED faults) \/ CommitFails(new)
  /\ Leave(s)
  /\ UNCHANGED <<rested, meta, net, chat, texts, begun, today>>

\* The process dies, and the database ends its transactions and its lock.
Crash(s) ==
  /\ pc[s] # "idle" /\ faults < MaxFaults
  /\ faults' = faults + 1
  /\ Leave(s)
  /\ UNCHANGED <<row, rested, meta, net, chat, texts, begun, today>>

\* Time passes since the last attempt that was recorded.
Wait ==
  /\ row.status # "absent" /\ ~rested
  /\ rested' = TRUE
  /\ UNCHANGED <<row, lock, pc, meta, net, chat, texts, begun, faults, today>>

\* From midnight on the ticks are about another date; who has begun goes on.
Midnight ==
  /\ today /\ today' = FALSE
  /\ UNCHANGED <<row, rested, lock, pc, meta, net, chat, texts, begun, faults>>

\* Then the ticks leave this report alone.
AnotherDay ==
  /\ ~today /\ net = {} /\ \A s \in Schedulers : pc[s] = "idle"
  /\ UNCHANGED vars

Step(s) == Lock(s) \/ NotDue(s) \/ BeginAttempt(s) \/ Build(s) \/ Send(s) \/ Acknowledged(s)
           \/ Checkpoint(s) \/ Conclude(s) \/ RecordFailure(s)

Fault(s) == BeginFails(s) \/ BuildFails(s) \/ Rejected(s) \/ AnswerLost(s) \/ Crash(s)

Next == \/ \E s \in Schedulers : Step(s) \/ Fault(s)
        \/ Accept \/ Drop \/ Wait \/ Midnight \/ AnotherDay

Spec == Init /\ [][Next]_vars

\* Each scheduler goes on with what it began and comes back every tick of the day,
\* Telegram decides about what it was sent, and the clock runs; the day may end
\* at any time, or be long enough for every attempt.
FairSpec ==
  /\ Spec
  /\ \A s \in Schedulers : WF_vars(Step(s) \/ Rejected(s) \/ AnswerLost(s))
  /\ WF_vars(Accept \/ Drop) /\ WF_vars(Wait)

-----------------------------------------------------------------------------
(* Properties *)

\* "Transaction-scoped lock: overlapping scheduler processes must not both send."
OneReportAtATime ==
  TypeOK /\ \A s, t \in Schedulers :
    pc[s] \notin {"idle", "locked"} /\ pc[t] \notin {"idle", "locked"} => s = t

\* No chunk is shown before the one it continues, whatever was repeated.
ReportInOrder ==
  \A i \in DOMAIN chat :
    chat[i].chunk > 1 => \E j \in 1..(i - 1) : chat[j].chunk = chat[i].chunk - 1

\* docs/architecture.md: retries resume with the remaining chunks, and only a
\* chunk that was sent and not recorded is sent again.  Each attempt after the
\* first repeats at most one.
RepeatsAreAccounted ==
  Len(chat) + Cardinality(net) <= Chunks + (IF begun = 0 THEN 0 ELSE begun - 1)

\* All messages of the date are chunks of one text, however often a building or
\* a commit failed: the chat never shows the end of a report that differs from
\* the one it shows the beginning of.
OneText == \A i, j \in DOMAIN chat : chat[i].text = chat[j].text

\* No attempt is made that the row does not count: not even by dying can a
\* scheduler send more often than it may.
AttemptsAreBounded == begun <= row.meta.attempts /\ row.meta.attempts <= MaxAttempts

\* The chat shows a chunk again at most once for each attempt after the first, and
\* the row counts every attempt, one that ended with its process included.
RepeatsAreBounded == RepeatsAreAccounted /\ AttemptsAreBounded

\* The row says completed only of a report that is shown in full.
CompletedIsShown ==
  row.status = "completed" => {chat[i].chunk : i \in DOMAIN chat} = 1..Chunks

\* Whoever sends, and whatever failed and was built or sent again, the chat shows
\* one report, its chunks in order, and all of it once the row says so.
ChatShowsOneReport == OneReportAtATime /\ ReportInOrder /\ OneText /\ CompletedIsShown

\* The schedulers implement the report the reader is promised: in particular one
\* that the row calls completed is never begun again, and no attempt shows more than
\* it may ("completed reports survive scheduler restarts", "retries resume with the
\* remaining chunks", docs/architecture.md).
Seen == [i \in DOMAIN chat |-> chat[i].chunk]
Promise == INSTANCE ReportPromise WITH completed <- (row.status = "completed"),
                                       attempts <- row.meta.attempts, seen <- Seen
PromiseSpec == Promise!Spec

\* The report is completed in the end, or its attempts are used up, or its day is
\* over before that: at midnight a report that failed, or whose scheduler died, is
\* given up whatever attempts it has left.  No scheduler is left at work on it.
ReportIsResolved ==
  <>[](/\ row.status = "completed" \/ row.meta.attempts = MaxAttempts \/ ~today
       /\ \A s \in Schedulers : pc[s] \in {"idle", "locked"})
=============================================================================
