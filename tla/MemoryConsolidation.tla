------------------------- MODULE MemoryConsolidation -------------------------
(***************************************************************************)
(* Long-term memory of one user: MemoryConsolidationService                *)
(* (memory/consolidation.py) over the user's cursor, the conversation      *)
(* events, the jobs and the learned memories (storage/repositories.py).    *)
(*                                                                         *)
(* The bot records messages, queues a job once a full batch of new         *)
(* messages stands behind the cursor, and forgets one memory or resets     *)
(* them all on request.  A scheduler takes pending jobs, merges what their *)
(* messages say into the memories in one long transaction that spans the   *)
(* model calls, and moves the cursor.  Nothing keeps two schedulers from   *)
(* listing the same job.                                                   *)
(* They share the database at READ COMMITTED: every statement sees what is *)
(* committed when it begins, and waits for the rows another transaction    *)
(* has written.  An object once loaded keeps the values it was loaded with *)
(* for the rest of its session, and of these only the changed ones are     *)
(* written.  A learned memory refers to its job, so the transaction that   *)
(* writes one holds a key lock on the job's row too.                       *)
(***************************************************************************)
EXTENDS Integers, FiniteSets, FiniteSetsExt

CONSTANTS Workers,     \* processes that run the scheduler
          JobIds,      \* ids of memory_consolidation_jobs, in order of creation
          MemoryIds,   \* ids of long_term_memories
          Batch,       \* settings.long_term_memory_batch_size
          MaxRetries,  \* settings.memory_job_max_retries
          Candidates,  \* settings.memory_candidates_per_batch
          JobLimit,    \* jobs of one process_due_jobs
          MaxEvents,   \* bound of the messages
          MaxResets,   \* bound of the resets
          MaxAccidents \* bound of the jobs that are in overlap or unsure, however often
                       \* each comes to be so, and of the crashes

ASSUME MemoryAssumption ==
  /\ JobIds \subseteq Nat \ {0} /\ IsFiniteSet(JobIds)
  /\ {Batch, MaxRetries, JobLimit} \subseteq Nat \ {0}
  /\ {Candidates, MaxEvents, MaxResets, MaxAccidents} \subseteq Nat

VARIABLES
  events,   \* conversation_events of the user's messages: ids 1..events
  cursor,   \* users.memory_cursor_event_id
  job,      \* memory_consolidation_jobs
  learned,  \* long_term_memories of type learned, as [id, job, from]: the job that
            \* wrote it last, the first message it draws on
  bot,      \* the chat process
  worker,   \* the scheduler processes
  done,     \* messages whose batch was consolidated
  forgotten,\* messages a reset has forgotten: 1..forgotten
  erased,   \* memories the user has removed
  overlap,  \* jobs a scheduler has listed while another one had them
  unsure,   \* jobs whose commit took effect although it raised
  resets, crashes

told == <<forgotten, erased>>
excuses == <<overlap, unsure>>
vars == <<events, cursor, job, learned, bot, worker, done, told, excuses, resets, crashes>>

Active == {"pending", "running"}
Existing == Active \cup {"completed", "failed"}
Jobs == [status : Existing \cup {"absent", "deleted"}, from : 0..MaxEvents, to : 0..MaxEvents,
         retries : Nat]
NoJob == [status |-> "absent", from |-> 0, to |-> 0, retries |-> 0]
BotIdle == [pc |-> "idle", cursor |-> 0, doomed |-> {}]

\* A scheduler: row is its job as its transaction has read it.
WorkerIdle == [pc |-> "idle", queue |-> {}, job |-> 0, row |-> NoJob,
               left |-> 0, near |-> {}, wrote |-> {}, next |-> 0]

Memories == [id : MemoryIds, job : JobIds, from : 1..MaxEvents]
Ids(memories) == {m.id : m \in memories}

TypeOK ==
  /\ events \in 0..MaxEvents /\ cursor \in 0..MaxEvents
  /\ job \in [JobIds -> Jobs]
  /\ learned \subseteq Memories
  /\ bot \in [pc : {"idle", "cursor", "active", "list", "delete", "reset"}, cursor : 0..MaxEvents,
              doomed : SUBSET Memories]
  /\ worker \in [Workers ->
       [pc : {"idle", "next", "load", "work", "decide", "commit", "fail", "record"},
        queue : SUBSET JobIds, job : JobIds \cup {0}, row : Jobs, left : 0..Candidates,
        near : SUBSET MemoryIds, wrote : SUBSET Memories, next : 0..MaxEvents]]
  /\ done \subseteq 1..MaxEvents
  /\ forgotten \in 0..MaxEvents /\ erased \subseteq MemoryIds
  /\ overlap \subseteq JobIds /\ unsure \subseteq JobIds
  /\ resets \in 0..MaxResets /\ crashes \in Nat

Init ==
  /\ events = 0 /\ cursor = 0
  /\ job = [j \in JobIds |-> NoJob]
  /\ learned = {}
  /\ bot = BotIdle /\ worker = [w \in Workers |-> WorkerIdle]
  /\ done = {} /\ forgotten = 0 /\ erased = {}
  /\ overlap = {} /\ unsure = {}
  /\ resets = 0 /\ crashes = 0

-----------------------------------------------------------------------------
(* The repositories *)

HasActiveJob == \E j \in JobIds : job[j].status \in Active

Unused == {j \in JobIds : job[j].status = "absent"}

\* The first batch of messages after a cursor, if there is a full one.
BatchAfter(c) == IF events >= c + Batch THEN (c + 1)..(c + Batch) ELSE {}

\* A pending job for the batch B, in table t; the ids bound how many there are.
WithJob(t, B) ==
  IF Unused = {} THEN t ELSE
  [t EXCEPT ![Min(Unused)] = [status |-> "pending", from |-> Min(B), to |-> Max(B),
                              retries |-> 0]]

\* The memories that the open transaction of some scheduler has written.
Locked == UNION {Ids(worker[w].wrote) : w \in Workers}

\* A scheduler is about to commit: it holds the user's row and the job's.
Committing(w) == worker[w].pc = "commit"
JobIsFree(j) == \A w \in Workers : ~(Committing(w) /\ worker[w].job = j)

-----------------------------------------------------------------------------
(* The bot *)

\* persist_session commits the message, and then calls enqueue_if_due.
Message ==
  /\ bot.pc = "idle" /\ events < MaxEvents
  /\ events' = events + 1
  /\ bot' = [bot EXCEPT !.pc = "cursor"]
  /\ UNCHANGED <<cursor, job, learned, worker, done, told, excuses, resets, crashes>>

\* enqueue_if_due reads the user, asks for an active job and lists the events
\* in three statements; only the user row it read first is used at the end.
ReadCursor ==
  /\ bot.pc = "cursor"
  /\ bot' = [bot EXCEPT !.pc = "active", !.cursor = cursor]
  /\ UNCHANGED <<events, cursor, job, learned, worker, done, told, excuses, resets, crashes>>

CheckActive ==
  /\ bot.pc = "active"
  /\ bot' = IF HasActiveJob THEN BotIdle ELSE [bot EXCEPT !.pc = "list"]
  /\ UNCHANGED <<events, cursor, job, learned, worker, done, told, excuses, resets, crashes>>

EnqueueIfDue ==
  LET B == BatchAfter(bot.cursor) IN
  /\ bot.pc = "list"
  /\ job' = IF B = {} THEN job ELSE WithJob(job, B)
  /\ bot' = BotIdle
  /\ UNCHANGED <<events, cursor, learned, worker, done, told, excuses, resets, crashes>>

\* /forget deletes one of the memories the user has listed, and waits for a job
\* that has written it.
Forget(i) ==
  /\ bot.pc = "idle"
  /\ i \in Ids(learned) \ Locked
  /\ learned' = {m \in learned : m.id # i}
  /\ erased' = erased \cup {i}
  /\ UNCHANGED <<events, cursor, job, bot, worker, done, forgotten, excuses, resets, crashes>>

\* reset_user_state deletes the learned memories there are when it begins, ...
BeginReset ==
  /\ bot.pc = "idle" /\ resets < MaxResets
  /\ bot' = [bot EXCEPT !.pc = "delete", !.doomed = learned]
  /\ resets' = resets + 1
  /\ UNCHANGED <<events, cursor, job, learned, worker, done, told, excuses, crashes>>

DeleteLearned ==
  /\ bot.pc = "delete"
  /\ Ids(bot.doomed) \cap Locked = {}
  /\ bot' = [bot EXCEPT !.pc = "reset", !.doomed = {m \in learned : m.id \in Ids(@)}]
  /\ UNCHANGED <<events, cursor, job, learned, worker, done, told, excuses, resets, crashes>>

\* Some transaction holds a job: it has written a memory that refers to it, or
\* the job itself.
HoldsJob == \E w \in Workers : worker[w].wrote # {} \/ Committing(w)

\* ... then the jobs, waiting for a transaction that holds one of them, and
\* moves the cursor to the latest event, waiting for one that moves it too.
CommitReset ==
  /\ bot.pc = "reset" /\ ~HoldsJob
  /\ learned' = learned \ bot.doomed
  /\ job' = [j \in JobIds |-> IF job[j].status \in Existing
                                THEN [job[j] EXCEPT !.status = "deleted"] ELSE job[j]]
  /\ cursor' = events
  /\ forgotten' = events
  /\ erased' = erased \cup Ids(bot.doomed)
  /\ bot' = BotIdle
  /\ UNCHANGED <<events, worker, done, excuses, resets, crashes>>

\* The call raises, the process dies, or the database picks the reset as the
\* victim of a deadlock (it takes the job's row before the user's, the worker
\* the other way round): nothing of it is committed.
BotFails ==
  /\ bot.pc # "idle"
  /\ bot' = BotIdle
  /\ UNCHANGED <<events, cursor, job, learned, worker, done, told, excuses, resets, crashes>>

-----------------------------------------------------------------------------
(* The schedulers *)

\* What the bound is of.
Accidents == Cardinality(overlap) + Cardinality(unsure) + crashes

Turn(w, r) == worker' = [worker EXCEPT ![w] = r]

FailedToo == {j \in JobIds : job[j].status \in {"pending", "failed"}}
Pending == {j \in JobIds : job[j].status = "pending"}
Held(w) == worker[w].queue \cup {worker[w].job}

\* The next of the jobs Q, or the end of the tick.
Onward(Q) == IF Q = {} THEN WorkerIdle ELSE [WorkerIdle EXCEPT !.pc = "next", !.queue = Q]
NextJob(w) == Onward(worker[w].queue)

\* process_due_jobs lists the oldest pending jobs, and keeps no one from listing
\* them again.
ListPending(w) ==
  LET Q == {j \in Pending : Cardinality({i \in Pending : i < j}) < JobLimit} IN
  /\ worker[w].pc = "idle" /\ Pending # {}
  /\ Turn(w, Onward(Q))
  /\ overlap' = overlap \cup {j \in Q : \E v \in Workers \ {w} : j \in Held(v)}
  /\ UNCHANGED <<events, cursor, job, learned, bot, done, told, unsure, resets, crashes>>
  /\ Accidents' <= MaxAccidents

\* mark_running, in a transaction of its own, whatever the status is by now.  A job
\* that is gone is passed over, or ends the tick if it goes between the two
\* statements.
MarkRunning(w) ==
  LET j == Min(worker[w].queue)
      rest == worker[w].queue \ {j}
  IN
  /\ worker[w].pc = "next"
  /\ IF job[j].status \in Existing
       THEN /\ job[j].status = "running" \/ JobIsFree(j)
            /\ job' = [job EXCEPT ![j].status = "running"]
            /\ Turn(w, [worker[w] EXCEPT !.pc = "load", !.job = j, !.queue = rest])
       ELSE /\ Turn(w, Onward(rest)) \/ Turn(w, WorkerIdle)
            /\ UNCHANGED job
  /\ UNCHANGED <<events, cursor, learned, bot, done, told, excuses, resets, crashes>>

\* How many candidates the model may find in the messages.
Extracted == 0..Candidates

\* The long transaction begins with the job's row and messages.
Load(w) ==
  LET j == worker[w].job IN
  /\ worker[w].pc = "load"
  /\ \E n \in Extracted :
       Turn(w, IF job[j].status \in Existing
                 THEN [worker[w] EXCEPT !.pc = "work", !.row = [job[j] EXCEPT !.retries = 0],
                                         !.left = n]
                 ELSE NextJob(w))
  /\ UNCHANGED <<events, cursor, job, learned, bot, done, told, excuses, resets, crashes>>

\* What the scheduler's transaction sees, with what it has written itself.
Visible(w) == {m \in learned : m.id \notin Ids(worker[w].wrote)} \cup worker[w].wrote

\* The memories next to a candidate are read, and then the model is asked.
ReadNearest(w) ==
  /\ worker[w].pc = "work" /\ worker[w].left > 0
  /\ Turn(w, [worker[w] EXCEPT !.pc = "decide", !.left = @ - 1, !.near = Ids(Visible(w))])
  /\ UNCHANGED <<events, cursor, job, learned, bot, done, told, excuses, resets, crashes>>

RolledBack(w) ==
  [worker[w] EXCEPT !.pc = "fail", !.row = NoJob, !.left = 0, !.near = {}, !.wrote = {},
                    !.next = 0]

\* The job the memory shall refer to must still be there.
Written(w, i) ==
  LET j == worker[w].job
      basis == {worker[w].row.from} \cup {m.from : m \in {n \in Visible(w) : n.id = i}}
  IN
  IF job[j].status \in Existing
    THEN [worker[w] EXCEPT !.pc = "work", !.near = {},
            !.wrote = {m \in @ : m.id # i} \cup {[id |-> i, job |-> j, from |-> Min(basis)]}]
    ELSE RolledBack(w)
Skipped(w) == [worker[w] EXCEPT !.pc = "work", !.near = {}]

\* No memory has, or has had, this id.
Fresh == MemoryIds \ (Ids(learned) \cup Locked \cup erased)
AddMemory(w) ==
  /\ worker[w].pc = "decide" /\ Fresh # {}
  /\ Turn(w, Written(w, CHOOSE i \in Fresh : TRUE))
  /\ UNCHANGED <<events, cursor, job, learned, bot, done, told, excuses, resets, crashes>>

\* The model may name a memory it was shown and no other.
Offered(w, i) == i \in worker[w].near

\* The memory is looked for once more, and waits for another scheduler that has
\* written it.  A row a reset has deleted makes the update wait; when the reset
\* commits, it fails.
WasNear(w, i) == i \in worker[w].near
Found(w, i) == i \in Ids(Visible(w))
UpdateMemory(w, i) ==
  /\ worker[w].pc = "decide" /\ Offered(w, i)
  /\ \A v \in Workers \ {w} : i \notin Ids(worker[v].wrote)
  /\ ~(bot.pc = "reset" /\ i \in Ids(bot.doomed))
  /\ Turn(w, IF Found(w, i) THEN Written(w, i) ELSE Skipped(w))
  /\ UNCHANGED <<events, cursor, job, learned, bot, done, told, excuses, resets, crashes>>

Skip(w) ==
  /\ worker[w].pc = "decide"
  /\ Turn(w, Skipped(w))
  /\ UNCHANGED <<events, cursor, job, learned, bot, done, told, excuses, resets, crashes>>

\* The jobs once mark_completed has written the scheduler's own, if it is there: a
\* job it has read as completed keeps the status it has by now.
WithCompleted(w) ==
  LET j == worker[w].job IN
  IF worker[w].row.status = "completed" \/ job[j].status \notin Existing THEN job
  ELSE [job EXCEPT ![j].status = "completed"]

\* All candidates are dealt with: the cursor moves and the job is completed, and the
\* next batch is looked for, all uncommitted.  The user's row keeps others waiting.
Conclude(w) ==
  LET active == \E j \in JobIds : WithCompleted(w)[j].status \in Active
      to == worker[w].row.to
  IN
  /\ worker[w].pc = "work" /\ worker[w].left = 0
  /\ \A v \in Workers : ~Committing(v)
  /\ Turn(w, [worker[w] EXCEPT !.pc = "commit",
                !.next = IF active \/ BatchAfter(to) = {} THEN 0 ELSE to + 1])
  /\ UNCHANGED <<events, cursor, job, learned, bot, done, told, excuses, resets, crashes>>

\* What a commit brings about.
Committed(w) ==
  LET next == worker[w].next
      row == worker[w].row
  IN
  /\ cursor' = row.to
  /\ job' = IF next = 0 THEN WithCompleted(w)
            ELSE WithJob(WithCompleted(w), next..(next + Batch - 1))
  /\ learned' = Visible(w)
  /\ done' = done \cup (row.from..row.to)

Commit(w) ==
  /\ Committing(w) /\ Committed(w)
  /\ Turn(w, NextJob(w))
  /\ UNCHANGED <<events, bot, told, excuses, resets, crashes>>

\* The connection is lost when the database has committed: it looks like a failure.
CommitRaises(w) ==
  /\ Committing(w) /\ Committed(w)
  /\ Turn(w, RolledBack(w))
  /\ unsure' = unsure \cup {worker[w].job}
  /\ UNCHANGED <<events, bot, told, overlap, resets, crashes>>
  /\ Accidents' <= MaxAccidents

\* A model call, a statement or the commit raises: everything is rolled back.
Raise(w) ==
  /\ worker[w].pc \in {"load", "work", "decide", "commit"}
  /\ Turn(w, RolledBack(w))
  /\ UNCHANGED <<events, cursor, job, learned, bot, done, told, excuses, resets, crashes>>

\* mark_failed reads the job, ...
ReadFailed(w) ==
  LET j == worker[w].job IN
  /\ worker[w].pc = "fail"
  /\ Turn(w, IF job[j].status \in Existing
               THEN [worker[w] EXCEPT !.pc = "record", !.row = job[j]] ELSE NextJob(w))
  /\ UNCHANGED <<events, cursor, job, learned, bot, done, told, excuses, resets, crashes>>

\* ... and counts the failure from what it has read; the last failure gives the
\* batch up until a message queues it again.
StillRunning(row) == "running"
StatusAfterFailure(row) == IF row.retries + 1 < MaxRetries THEN "pending" ELSE "failed"

\* A status that it has read already is not written.  If the job is gone by now,
\* the tick is over.
RecordFailure(w) ==
  LET j == worker[w].job
      row == worker[w].row
      status == StatusAfterFailure(row)
  IN
  /\ worker[w].pc = "record" /\ JobIsFree(j)
  /\ IF job[j].status \in Existing
       THEN /\ job' = [job EXCEPT ![j].status = IF status = row.status THEN @ ELSE status,
                                  ![j].retries = row.retries + 1]
            /\ Turn(w, NextJob(w))
       ELSE Turn(w, WorkerIdle) /\ UNCHANGED job
  /\ UNCHANGED <<events, cursor, learned, bot, done, told, excuses, resets, crashes>>

\* The process dies and the database rolls its transaction back, or the run
\* trace or the failure alert raises where nothing catches it: before the try,
\* or inside its handler.
Crash(w) ==
  /\ worker[w].pc # "idle"
  /\ Turn(w, WorkerIdle)
  /\ crashes' = crashes + 1
  /\ UNCHANGED <<events, cursor, job, learned, bot, done, told, excuses, resets>>
  /\ Accidents' <= MaxAccidents

-----------------------------------------------------------------------------

BotStep == ReadCursor \/ CheckActive \/ EnqueueIfDue \/ DeleteLearned \/ CommitReset
WorkerStep(w) ==
  \/ ListPending(w) \/ MarkRunning(w) \/ Load(w)
  \/ ReadNearest(w) \/ AddMemory(w) \/ (\E i \in MemoryIds : UpdateMemory(w, i)) \/ Skip(w)
  \/ Conclude(w) \/ Commit(w) \/ ReadFailed(w) \/ RecordFailure(w)
Fault(w) == CommitRaises(w) \/ Raise(w) \/ Crash(w)

\* Messages stop at the bound, and the job ids may be used up.
Rest == /\ events = MaxEvents
        /\ UNCHANGED vars

Next ==
  \/ Message \/ (\E i \in MemoryIds : Forget(i)) \/ BeginReset \/ BotStep \/ BotFails
  \/ \E w \in Workers : WorkerStep(w) \/ Fault(w)
  \/ Rest

Spec == Init /\ [][Next]_vars

\* The schedulers go on with what they began and come back every tick; nothing
\* obliges a user to write, the bot to go on, or a call to fail.
FairSpec == Spec /\ \A w \in Workers : WF_vars(WorkerStep(w))

-----------------------------------------------------------------------------
(* Properties *)

\* Two schedulers had the job at the same time, or its commit was not noticed.
Excused == overlap \cup unsure

\* No message is lost: what the cursor has passed was consolidated, or the user
\* asked to forget it, whatever failed, was retried or ran at the same time.
NothingSkipped == \A e \in 1..cursor : e \in done \/ e <= forgotten

\* A memory is kept only of a job that was completed, or deleted by a reset: nothing
\* of an attempt that failed or crashed remains.  Only where Excused says so a
\* completed job may be at work again.  What a reset was asked to forget is learned
\* only where it deleted a job, which may have been running.
OnlyCompletedJobsTeach ==
  TypeOK /\ \A m \in learned :
    /\ job[m.job].status \in {"completed", "deleted"} \/ m.job \in Excused
    /\ m.from <= forgotten => \E j \in JobIds : job[j].status = "deleted"

\* A memory the user has removed never comes back, though a job may have found it
\* before and updates it now ("Memory removed.", _memory_admin).
ForgottenStays == erased \cap Ids(learned) = {}

\* What is remembered of the messages is neither less nor more than the jobs that
\* were completed made of them and the user has not removed.
MemoryIsFaithful == NothingSkipped /\ OnlyCompletedJobsTeach /\ ForgottenStays

\* A job that was completed or given up is not taken up again, unless two schedulers
\* had it or its commit was not noticed.
CompletedStep ==
  \A j \in JobIds : job[j].status \in {"completed", "failed"} =>
    job'[j].status \in {job[j].status, "deleted"} \/ j \in Excused'
CompletedStays == [][CompletedStep]_vars

\* Unless a scheduler is lost between two transactions, a queued job is completed
\* or given up: retries are bounded though their count may be written from an old
\* value, and no order of bot and schedulers leaves a job hanging.
JobsAreResolved ==
  \A j \in JobIds :
    job[j].status \in Active ~> job[j].status \notin Active \/ crashes > 0
==============================================================================
