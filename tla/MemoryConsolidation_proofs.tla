---------------------- MODULE MemoryConsolidation_proofs ----------------------
(***************************************************************************)
(* Proofs about the long-term memory of a user, for any number of          *)
(* schedulers, jobs, memories, messages, candidates and retries.           *)
(***************************************************************************)
EXTENDS MemoryConsolidation, TLAPS, WellFoundedInduction

\* A scheduler has taken a job, and is merging what its messages say.
Merging == {"work", "decide", "commit"}
Working == Merging \cup {"load", "fail", "record"}

\* Every message up to n was consolidated, or the user asked to forget it.
Covered(n) == \A e \in 1..n : e \in done \/ e <= forgotten

\* No reset has deleted a job.
Calm == \A j \in JobIds : job[j].status # "deleted"

\* Messages that a job may consolidate: nothing before them is left out, and unless
\* a reset deleted a job, none of them was to be forgotten.
Ranged(from, to) ==
  /\ 1 <= from /\ from <= to /\ Covered(from - 1)
  /\ Calm => from > forgotten

JobOK(j) == job[j].status # "absent" => Ranged(job[j].from, job[j].to)

\* The job was queued once, and is as one scheduler has left it but for a reset, or
\* it is one of those of which nothing of the kind can be said.
Stands(j, status) ==
  /\ job[j].status # "absent"
  /\ job[j].status \in {status, "deleted"} \/ j \in Excused

\* What a memory is, once it was learned.
MemoryOK(m) ==
  /\ m.id \notin erased /\ Stands(m.job, "completed")
  /\ Calm => m.from > forgotten

DataInv ==
  /\ Covered(cursor) /\ (Calm => cursor >= forgotten) /\ forgotten <= events
  /\ \A m \in learned : MemoryOK(m)

\* A scheduler works on what it has marked as running, on messages that may be
\* consolidated, and has written nothing that the user has removed.
WorkerOK(r) ==
  /\ \A j \in r.queue : Stands(j, "pending")
  /\ r.pc = "next" => r.queue # {}
  /\ r.pc \in Working => r.job \in JobIds \ r.queue /\ Stands(r.job, "running")
  /\ r.pc \in Merging => /\ Ranged(r.row.from, r.row.to)
                         /\ r.row.status = "completed" => r.job \in Excused
  /\ r.wrote # {} => r.pc \in Merging
  /\ \A m \in r.wrote : /\ m.job = r.job /\ m.id \notin erased
                        /\ Calm => m.from > forgotten
  /\ r.pc = "commit" /\ r.next # 0 => r.next = r.row.to + 1 /\ r.row.to + Batch <= events

\* What two schedulers have in common is in overlap.
Shared(r, v) == (r.queue \cup {r.job}) \cap Held(v) \cap JobIds
PairsOK == \A v, w \in Workers : v # w => Held(v) \cap Held(w) \cap JobIds \subseteq overlap

\* A message's cursor is a cursor still, and a reset deletes all there is of the
\* memories that it has locked.
BotOK(b) ==
  /\ b.pc \in {"active", "list"} => Covered(b.cursor) /\ (Calm => b.cursor >= forgotten)
  /\ b.pc = "reset" => b.doomed = {m \in learned : m.id \in Ids(b.doomed)}

\* Nobody writes a memory that a reset is about to delete.
Apart(b, r) == b.pc = "reset" => Ids(b.doomed) \cap Ids(r.wrote) = {}

IInv ==
  /\ TypeOK /\ DataInv /\ \A j \in JobIds : JobOK(j)
  /\ \A w \in Workers : WorkerOK(worker[w]) /\ Apart(bot, worker[w])
  /\ PairsOK /\ BotOK(bot)

-----------------------------------------------------------------------------
(* Constants, types and sets *)

Schedulers == [pc : {"idle", "next"} \cup Working, queue : SUBSET JobIds, job : JobIds \cup {0},
               row : Jobs, left : 0..Candidates, near : SUBSET MemoryIds,
               wrote : SUBSET Memories, next : 0..MaxEvents]
Bots == [pc : {"idle", "cursor", "active", "list", "delete", "reset"}, cursor : 0..MaxEvents,
         doomed : SUBSET Memories]

\* What the assumption says of each constant.
LEMMA Constants ==
  /\ JobIds \subseteq Nat /\ 0 \notin JobIds
  /\ Batch \in Nat /\ Batch > 0 /\ MaxRetries \in Nat /\ MaxRetries > 0
  /\ Candidates \in Nat /\ MaxEvents \in Nat /\ MaxResets \in Nat
BY MemoryAssumption

\* TypeOK in terms of the record types.
LEMMA Types ==
  TypeOK <=> /\ events \in 0..MaxEvents /\ cursor \in 0..MaxEvents
             /\ job \in [JobIds -> Jobs] /\ learned \subseteq Memories
             /\ bot \in Bots /\ worker \in [Workers -> Schedulers]
             /\ done \subseteq 1..MaxEvents
             /\ forgotten \in 0..MaxEvents /\ erased \subseteq MemoryIds
             /\ overlap \subseteq JobIds /\ unsure \subseteq JobIds
             /\ resets \in 0..MaxResets /\ crashes \in Nat
<1>1. Schedulers = [pc : {"idle", "next", "load", "work", "decide", "commit", "fail", "record"},
                    queue : SUBSET JobIds, job : JobIds \cup {0}, row : Jobs,
                    left : 0..Candidates, near : SUBSET MemoryIds,
                    wrote : SUBSET Memories, next : 0..MaxEvents]
  <2>1. {"idle", "next"} \cup Working
        = {"idle", "next", "load", "work", "decide", "commit", "fail", "record"}
    BY DEF Working, Merging
  <2> QED BY <2>1 DEF Schedulers
<1> QED BY <1>1 DEF TypeOK, Bots

\* The ids of a set of memories.
LEMMA IdsOf ==
  ASSUME NEW S \in SUBSET Memories
  PROVE  /\ Ids(S) \subseteq MemoryIds
         /\ \A i : i \in Ids(S) <=> \E m \in S : m.id = i
BY DEF Ids, Memories

\* A set of numbers has a least one.
LEMMA MinOf ==
  ASSUME NEW S \in SUBSET Nat, S # {}
  PROVE  Min(S) \in S /\ \A y \in S : Min(S) <= y
<1>1. PICK x \in S : \A y \in S : ~ (<<y, x>> \in OpToRel(<, Nat))
  BY NatLessThanWellFounded, WFMin
<1>2. \A y \in S : x \in Nat /\ y \in Nat /\ <<y, x>> \in Nat \X Nat
  OBVIOUS
<1>3. \A y \in S : ~(y < x)
  BY <1>1, <1>2 DEF OpToRel
<1>4. \A y \in S : x <= y
  BY <1>2, <1>3
<1>5. \E z \in S : \A y \in S : z <= y
  BY <1>4
<1> QED BY <1>5 DEF Min

\* The ends of a batch of messages.
LEMMA BatchEnds ==
  ASSUME NEW a \in Nat, NEW b \in Nat, a <= b
  PROVE  a..b # {} /\ Min(a..b) = a /\ Max(a..b) = b
<1>1. a \in a..b /\ b \in a..b
  OBVIOUS
<1>2. Min(a..b) \in a..b /\ Min(a..b) <= a
  <2>1. \E x \in a..b : \A y \in a..b : x <= y
    BY <1>1
  <2>2. Min(a..b) \in a..b /\ \A y \in a..b : Min(a..b) <= y
    BY <2>1 DEF Min
  <2> QED BY <1>1, <2>2
<1>3. Max(a..b) \in a..b /\ Max(a..b) >= b
  <2>1. \E x \in a..b : \A y \in a..b : x >= y
    BY <1>1
  <2>2. Max(a..b) \in a..b /\ \A y \in a..b : Max(a..b) >= y
    BY <2>1 DEF Max
  <2> QED BY <1>1, <2>2
<1> QED BY <1>1, <1>2, <1>3

-----------------------------------------------------------------------------
(* What becomes of the parts of the invariant *)

\* Consolidated messages stay consolidated, forgotten ones forgotten.
LEMMA Later ==
  ASSUME done \subseteq done', forgotten \in Nat, forgotten' \in Nat, forgotten <= forgotten'
  PROVE  /\ \A n \in Nat : Covered(n) => Covered(n)'
         /\ (Calm' => Calm /\ forgotten' = forgotten) =>
              \A f, t \in Nat : Ranged(f, t) => Ranged(f, t)'
<1>1. \A n \in Nat : Covered(n) => Covered(n)'
  BY DEF Covered
<1>2. ASSUME Calm' => Calm /\ forgotten' = forgotten, NEW f \in Nat, NEW t \in Nat, Ranged(f, t)
      PROVE  Ranged(f, t)'
  <2>1. 1 <= f /\ f <= t /\ f - 1 \in Nat /\ Covered(f - 1) /\ (Calm => f > forgotten)
    BY <1>2 DEF Ranged
  <2>2. Covered(f - 1)'
    BY <1>1, <2>1
  <2> QED BY <1>2, <2>1, <2>2 DEF Ranged
<1> QED BY <1>1, <1>2


\* What the invariant says of one scheduler, of the bot and of the data.
LEMMA Facts ==
  ASSUME IInv
  PROVE  /\ bot \in Bots /\ BotOK(bot) /\ worker \in [Workers -> Schedulers]
         /\ \A w \in Workers : /\ worker[w] \in Schedulers /\ WorkerOK(worker[w])
                               /\ Apart(bot, worker[w])
         /\ learned \subseteq Memories /\ \A m \in learned : MemoryOK(m)
         /\ events \in Nat /\ events \in 0..MaxEvents
         /\ cursor \in 0..MaxEvents /\ Covered(cursor) /\ (Calm => cursor >= forgotten)
         /\ forgotten \in Nat /\ forgotten <= events /\ erased \subseteq MemoryIds
         /\ job \in [JobIds -> Jobs] /\ \A j \in JobIds : JobOK(j)
         /\ overlap \subseteq JobIds /\ unsure \subseteq JobIds
         /\ resets \in 0..MaxResets /\ crashes \in Nat
<1>1. TypeOK
  BY DEF IInv
<1>2. worker \in [Workers -> Schedulers] /\ forgotten \in 0..MaxEvents /\ events \in 0..MaxEvents
  BY <1>1, Types
<1> QED BY <1>1, <1>2, Types DEF IInv, DataInv

\* The row of a scheduler, and its other fields.
LEMMA Fields ==
  ASSUME NEW r \in Schedulers
  PROVE  /\ r.queue \subseteq JobIds /\ r.job \in JobIds \cup {0} /\ r.row \in Jobs
         /\ r.row.from \in 0..MaxEvents /\ r.row.to \in 0..MaxEvents
         /\ r.row.from \in Nat /\ r.row.to \in Nat /\ r.row.retries \in Nat
         /\ r.left \in 0..Candidates /\ r.near \subseteq MemoryIds
         /\ r.wrote \in SUBSET Memories /\ r.next \in 0..MaxEvents
<1>1. r.row \in Jobs
  BY DEF Schedulers
<1>2. r.row.from \in 0..MaxEvents /\ r.row.to \in 0..MaxEvents /\ r.row.retries \in Nat
  BY <1>1 DEF Jobs
<1> QED BY <1>1, <1>2 DEF Schedulers

\* A scheduler takes its turn, and the others are as they were.
LEMMA TurnOf ==
  ASSUME worker \in [Workers -> Schedulers], NEW w \in Workers, NEW r \in Schedulers, Turn(w, r)
  PROVE  /\ worker' \in [Workers -> Schedulers] /\ worker'[w] = r
         /\ \A v \in Workers \ {w} : worker'[v] = worker[v]
BY DEF Turn

\* Data that stays as it is is as good as it was.
LEMMA DataKept ==
  ASSUME IInv,
         UNCHANGED <<events, cursor, job, learned, done, told>>,
         overlap \subseteq overlap', unsure \subseteq unsure'
  PROVE  /\ DataInv' /\ \A j \in JobIds : JobOK(j)'
         /\ \A r : WorkerOK(r) => WorkerOK(r)'
         /\ \A b : BotOK(b) => BotOK(b)'
<1>1. /\ events' = events /\ cursor' = cursor /\ job' = job /\ learned' = learned
      /\ done' = done /\ forgotten' = forgotten /\ erased' = erased
  BY DEF told
<1>2. Calm' = Calm /\ \A n : Covered(n)' = Covered(n)
  BY <1>1 DEF Calm, Covered
<1>3. \A j, s : Stands(j, s) => Stands(j, s)'
  BY <1>1 DEF Stands, Excused
<1>4. DataInv'
  BY <1>1, <1>2, <1>3 DEF IInv, DataInv, MemoryOK
<1>5. \A j \in JobIds : JobOK(j)'
  BY <1>1, <1>2 DEF IInv, JobOK, Ranged
<1>6. ASSUME NEW r, WorkerOK(r) PROVE WorkerOK(r)'
  BY <1>1, <1>2, <1>3, <1>6 DEF WorkerOK, Ranged, Excused
<1>7. ASSUME NEW b, BotOK(b) PROVE BotOK(b)'
  BY <1>1, <1>2, <1>7 DEF BotOK
<1> QED BY <1>4, <1>5, <1>6, <1>7

\* A step of the bot that changes nothing else.
LEMMA BotOnly ==
  ASSUME IInv, UNCHANGED <<events, cursor, job, learned, worker, done, told, excuses, crashes>>,
         bot' \in Bots, resets' \in 0..MaxResets, BotOK(bot'),
         \A w \in Workers : Apart(bot', worker[w])
  PROVE  IInv'
<1>1. /\ forgotten' = forgotten /\ erased' = erased /\ overlap' = overlap /\ unsure' = unsure
      /\ UNCHANGED <<events, cursor, job, learned, done, told, worker, crashes>>
  BY DEF told, excuses
<1>2. TypeOK'
  BY <1>1, Types DEF IInv, TypeOK, Bots
<1>3. DataInv' /\ \A j \in JobIds : JobOK(j)'
  BY <1>1, DataKept
<1>4. \A w \in Workers : WorkerOK(worker[w])' /\ Apart(bot, worker[w])'
  BY <1>1, DataKept, Facts DEF WorkerOK, Apart
<1>5. BotOK(bot)'
  BY <1>1, DataKept DEF BotOK
<1>6. PairsOK'
  BY <1>1 DEF IInv, PairsOK, Held
<1> QED BY <1>2, <1>3, <1>4, <1>5, <1>6 DEF IInv

\* A turn of a scheduler that changes nothing else but what is said of its accidents.
LEMMA WorkerOnly ==
  ASSUME IInv, UNCHANGED <<events, cursor, job, learned, bot, done, told, unsure, resets>>,
         NEW w \in Workers, NEW r \in Schedulers, Turn(w, r), WorkerOK(r), Apart(bot, r),
         crashes' \in Nat, overlap \subseteq overlap', overlap' \subseteq JobIds,
         \A v \in Workers \ {w} : Shared(r, v) \subseteq overlap'
  PROVE  IInv'
<1>1. /\ forgotten' = forgotten /\ erased' = erased /\ unsure' = unsure
      /\ UNCHANGED <<events, cursor, job, learned, done, told, bot, resets>>
  BY DEF told
<1>2. /\ worker' \in [Workers -> Schedulers] /\ worker'[w] = r
      /\ \A v \in Workers \ {w} : worker'[v] = worker[v]
  BY Facts, TurnOf
<1>3. TypeOK'
  <2>1. worker' \in [Workers -> Schedulers] /\ TypeOK
    BY <1>2 DEF IInv
  <2> QED BY <1>1, <2>1, Types DEF TypeOK, Schedulers, Working, Merging
<1>4. DataInv' /\ \A j \in JobIds : JobOK(j)'
  BY <1>1, DataKept
<1>5. ASSUME NEW v \in Workers PROVE WorkerOK(worker[v])' /\ Apart(bot, worker[v])'
  <2>1. PICK q : q = worker'[v] /\ WorkerOK(q) /\ Apart(bot, q)
    BY <1>2, Facts
  <2>2. WorkerOK(q)'
    BY <1>1, <2>1, DataKept
  <2> QED BY <1>1, <2>1, <2>2 DEF WorkerOK, Apart
<1>6. PairsOK'
  <2>1. ASSUME NEW u \in Workers, NEW v \in Workers, u # v
        PROVE  Held(u)' \cap Held(v)' \cap JobIds \subseteq overlap'
    <3>1. CASE u = w
      BY <1>2, <2>1, <3>1 DEF Held, Shared
    <3>2. CASE v = w
      BY <1>2, <2>1, <3>2 DEF Held, Shared
    <3>3. CASE u # w /\ v # w
      BY <1>2, <2>1, <3>3 DEF Held, PairsOK, IInv
    <3> QED BY <3>1, <3>2, <3>3
  <2> QED BY <2>1 DEF PairsOK
<1>7. BotOK(bot)'
  BY <1>1, DataKept, Facts DEF BotOK
<1> QED BY <1>3, <1>4, <1>5, <1>6, <1>7 DEF IInv

\* What a scheduler keeps of its jobs is no more in common than it was.
LEMMA SharedKept ==
  ASSUME IInv, NEW w \in Workers, NEW r \in Schedulers, r.queue \cup {r.job} \subseteq Held(w) \cup {0}
  PROVE  \A v \in Workers \ {w} : Shared(r, v) \subseteq overlap
<1>1. ASSUME NEW v \in Workers \ {w} PROVE Shared(r, v) \subseteq overlap
  <2>1. Held(w) \cap Held(v) \cap JobIds \subseteq overlap
    BY DEF IInv, PairsOK
  <2>2. 0 \notin JobIds
    BY Constants
  <2> QED BY <2>1, <2>2 DEF Shared
<1> QED BY <1>1

-----------------------------------------------------------------------------
(* The bot *)

\* A bot that is not serving a request.
LEMMA IdleBot == BotIdle \in Bots /\ BotOK(BotIdle) /\ \A r : Apart(BotIdle, r)
<1>1. BotIdle \in Bots
  BY Constants DEF BotIdle, Bots
<1>2. BotIdle.pc = "idle"
  BY DEF BotIdle
<1> QED BY <1>1, <1>2 DEF BotOK, Apart

\* Steps that read, give up, or begin a reset.
LEMMA BotStepInv ==
  ASSUME IInv, ReadCursor \/ CheckActive \/ BeginReset \/ DeleteLearned \/ BotFails
  PROVE  IInv'
<1>1. CASE ReadCursor
  <2>1. /\ bot' \in Bots /\ bot'.pc = "active" /\ bot'.cursor = cursor
        /\ UNCHANGED <<events, cursor, job, learned, worker, done, told, excuses, crashes>>
        /\ resets' \in 0..MaxResets
    BY <1>1, Facts DEF ReadCursor, Bots
  <2>2. BotOK(bot') /\ \A w \in Workers : Apart(bot', worker[w])
    BY <2>1, Facts DEF BotOK, Apart
  <2> QED BY <2>1, <2>2, BotOnly
<1>2. CASE CheckActive
  <2>1. /\ bot' \in Bots
        /\ bot' = BotIdle \/ (bot'.pc = "list" /\ bot'.cursor = bot.cursor)
        /\ UNCHANGED <<events, cursor, job, learned, worker, done, told, excuses, crashes>>
        /\ resets' \in 0..MaxResets
    BY <1>2, Facts, IdleBot DEF CheckActive, Bots
  <2>2. BotOK(bot') /\ \A w \in Workers : Apart(bot', worker[w])
    BY <1>2, <2>1, Facts, IdleBot DEF BotOK, Apart, CheckActive
  <2> QED BY <2>1, <2>2, BotOnly
<1>3. CASE BeginReset
  <2>1. /\ bot' \in Bots /\ bot'.pc = "delete"
        /\ UNCHANGED <<events, cursor, job, learned, worker, done, told, excuses, crashes>>
    BY <1>3, Facts DEF BeginReset, Bots
  <2>2. resets' \in 0..MaxResets
    BY <1>3, Facts, Constants DEF BeginReset
  <2>3. BotOK(bot') /\ \A w \in Workers : Apart(bot', worker[w])
    BY <2>1 DEF BotOK, Apart
  <2> QED BY <2>1, <2>2, <2>3, BotOnly
<1>4. CASE DeleteLearned
  <2> DEFINE D == {m \in learned : m.id \in Ids(bot.doomed)}
  <2>1. /\ D \in SUBSET Memories /\ bot' = [bot EXCEPT !.pc = "reset", !.doomed = D]
        /\ bot.doomed \in SUBSET Memories /\ Ids(bot.doomed) \cap Locked = {}
        /\ UNCHANGED <<events, cursor, job, learned, worker, done, told, excuses, crashes>>
        /\ resets' \in 0..MaxResets
    BY <1>4, Facts DEF DeleteLearned, Bots
  <2>2. bot' \in Bots /\ bot'.pc = "reset" /\ bot'.doomed = D
    BY <2>1, Facts DEF Bots
  <2>3. Ids(D) \subseteq Ids(bot.doomed) /\ \A m \in D : m.id \in Ids(D)
    BY <2>1, IdsOf
  <2>4. D = {m \in learned : m.id \in Ids(D)}
    BY <2>3
  <2>5. BotOK(bot')
    BY <2>2, <2>4 DEF BotOK
  <2>6. \A w \in Workers : Apart(bot', worker[w])
    BY <2>1, <2>2, <2>3 DEF Apart, Locked
  <2> QED BY <2>1, <2>2, <2>5, <2>6, BotOnly
<1>5. CASE BotFails
  <2>1. /\ bot' = BotIdle /\ resets' \in 0..MaxResets
        /\ UNCHANGED <<events, cursor, job, learned, worker, done, told, excuses, crashes>>
    BY <1>5, Facts DEF BotFails
  <2> QED BY <2>1, IdleBot, BotOnly
<1> QED BY <1>1, <1>2, <1>3, <1>4, <1>5

\* A message is recorded.
LEMMA MessageInv == ASSUME IInv, Message PROVE IInv'
<1>1. /\ events' = events + 1 /\ events' \in 0..MaxEvents /\ events \in Nat
      /\ bot' \in Bots /\ bot'.pc = "cursor" /\ forgotten' = forgotten /\ erased' = erased
      /\ overlap' = overlap /\ unsure' = unsure
      /\ UNCHANGED <<cursor, job, learned, worker, done, resets, crashes>>
  BY Facts, Constants DEF Message, Bots, told, excuses
<1>2. TypeOK'
  BY <1>1, Types DEF IInv, TypeOK, Bots
<1>3. Calm' = Calm /\ \A n : Covered(n)' = Covered(n)
  BY <1>1 DEF Calm, Covered
<1>4. \A j, s : Stands(j, s)' = Stands(j, s)
  BY <1>1 DEF Stands, Excused
<1>5. DataInv' /\ \A j \in JobIds : JobOK(j)'
  BY <1>1, <1>3, <1>4, Facts DEF IInv, DataInv, MemoryOK, Ranged, JobOK
<1>6. ASSUME NEW w \in Workers PROVE WorkerOK(worker[w])' /\ Apart(bot, worker[w])'
  <2>1. PICK r \in Schedulers : r = worker[w] /\ WorkerOK(r)
    BY Facts
  <2>2. r.row.to + Batch <= events => r.row.to + Batch <= events'
    BY <1>1, <2>1, Fields, Constants
  <2>3. WorkerOK(r)'
    BY <1>1, <1>3, <1>4, <2>1, <2>2 DEF WorkerOK, Ranged, Excused
  <2>4. worker'[w] = r
    BY <1>1, <2>1
  <2> QED BY <1>1, <2>3, <2>4 DEF WorkerOK, Apart
<1>7. BotOK(bot)' /\ PairsOK'
  BY <1>1 DEF BotOK, PairsOK, Held, IInv
<1> QED BY <1>2, <1>5, <1>6, <1>7 DEF IInv

\* One memory is removed.
LEMMA ForgetInv == ASSUME IInv, NEW i \in MemoryIds, Forget(i) PROVE IInv'
<1>1. /\ bot.pc = "idle" /\ i \in Ids(learned) \ Locked
      /\ learned' = {m \in learned : m.id # i} /\ erased' = erased \cup {i}
      /\ overlap' = overlap /\ unsure' = unsure
      /\ UNCHANGED <<events, cursor, job, bot, worker, done, forgotten, resets, crashes>>
  BY DEF Forget, excuses
<1>2. TypeOK'
  BY <1>1, Types DEF IInv, TypeOK
<1>3. Calm' = Calm /\ \A n : Covered(n)' = Covered(n)
  BY <1>1 DEF Calm, Covered
<1>4. \A j, s : Stands(j, s)' = Stands(j, s)
  BY <1>1 DEF Stands, Excused
<1>5. DataInv' /\ \A j \in JobIds : JobOK(j)'
  BY <1>1, <1>3, <1>4 DEF IInv, DataInv, MemoryOK, Ranged, JobOK
<1>6. ASSUME NEW w \in Workers PROVE WorkerOK(worker[w])' /\ Apart(bot, worker[w])'
  <2>1. PICK r \in Schedulers : r = worker[w] /\ WorkerOK(r)
    BY Facts
  <2>2. i \notin Ids(r.wrote)
    BY <1>1, <2>1 DEF Locked
  <2>3. \A m \in r.wrote : m.id # i
    BY <2>1, <2>2, Fields, IdsOf
  <2>4. WorkerOK(r)'
    BY <1>1, <1>3, <1>4, <2>1, <2>3 DEF WorkerOK, Ranged, Excused
  <2>5. worker'[w] = r
    BY <1>1, <2>1
  <2> QED BY <1>1, <2>4, <2>5 DEF WorkerOK, Apart
<1>7. BotOK(bot)' /\ PairsOK'
  BY <1>1 DEF BotOK, PairsOK, Held, IInv
<1> QED BY <1>2, <1>5, <1>6, <1>7 DEF IInv

-----------------------------------------------------------------------------
(* The jobs *)

\* What a step may do to the jobs: those of J change their status and retries, and
\* others are queued.
JobStep(J) ==
  /\ job' \in [JobIds -> Jobs]
  /\ \A i \in JobIds :
       \/ job'[i] = job[i]
       \/ /\ i \in J /\ job[i].status \in Existing /\ job'[i].status \in Existing
          /\ job'[i].from = job[i].from /\ job'[i].to = job[i].to
       \/ /\ job[i].status = "absent" /\ job'[i].status = "pending"
          /\ Ranged(job[i].from, job[i].to)'

\* Such a step keeps what is known of messages and jobs.
LEMMA JobsKept ==
  ASSUME IInv, NEW J, JobStep(J), done \subseteq done', UNCHANGED told
  PROVE  /\ Calm' = Calm /\ \A n \in Nat : Covered(n) => Covered(n)'
         /\ \A f, t \in Nat : Ranged(f, t) => Ranged(f, t)'
         /\ \A i \in JobIds : /\ JobOK(i)'
                              /\ job[i].status # "absent" => job'[i].status # "absent"
                              /\ job[i].status # "absent" /\ i \notin J => job'[i] = job[i]
                              /\ job[i].status = "deleted" => job'[i] = job[i]
<1>1. forgotten' = forgotten /\ forgotten \in Nat
  BY Facts DEF told
<1>2. ASSUME NEW i \in JobIds
      PROVE  /\ job[i].status # "absent" => job'[i].status # "absent"
             /\ job[i].status # "absent" /\ i \notin J => job'[i] = job[i]
             /\ job[i].status = "deleted" => job'[i] = job[i]
             /\ job'[i].status = "deleted" <=> job[i].status = "deleted"
  BY <1>2 DEF JobStep, Existing, Active
<1>3. Calm' = Calm
  BY <1>2 DEF Calm
<1>4. /\ \A n \in Nat : Covered(n) => Covered(n)'
      /\ \A f, t \in Nat : Ranged(f, t) => Ranged(f, t)'
  BY <1>1, <1>3, Later
<1>5. ASSUME NEW i \in JobIds PROVE JobOK(i)'
  <2>1. JobOK(i) /\ job[i] \in Jobs
    BY Facts
  <2>2. PICK f \in Nat, t \in Nat : f = job[i].from /\ t = job[i].to
    BY <2>1 DEF Jobs
  <2>3. Ranged(f, t) => Ranged(f, t)'
    BY <1>4
  <2>4. CASE job'[i].status # "absent" /\ job'[i].from = f /\ job'[i].to = t /\ Ranged(f, t)
    BY <2>3, <2>4 DEF JobOK
  <2>5. CASE job'[i].status = "absent"
    BY <2>5 DEF JobOK
  <2>6. CASE Ranged(job[i].from, job[i].to)'
    BY <2>6 DEF JobOK
  <2> QED BY <2>1, <2>2, <2>4, <2>5, <2>6 DEF JobStep, JobOK, Existing, Active
<1> QED BY <1>2, <1>3, <1>4, <1>5

\* What is said of a job stays true, if it is another one or is excused.
LEMMA StandsKept ==
  ASSUME IInv, NEW J, JobStep(J), done \subseteq done', UNCHANGED told,
         overlap \subseteq overlap', unsure \subseteq unsure',
         NEW i \in JobIds, NEW s, Stands(i, s), i \notin J \/ i \in Excused'
  PROVE  Stands(i, s)'
<1>1. job[i].status # "absent" /\ (job[i].status \in {s, "deleted"} \/ i \in Excused)
  BY DEF Stands
<1>2. job'[i].status # "absent" /\ (i \notin J => job'[i] = job[i])
  BY <1>1, JobsKept
<1> QED BY <1>1, <1>2 DEF Stands, Excused

\* A scheduler that does not have the jobs, or only those that are excused, is not
\* disturbed.
LEMMA WorkerKept ==
  ASSUME IInv, NEW J, JobStep(J), done \subseteq done', UNCHANGED <<told, events>>,
         overlap \subseteq overlap', unsure \subseteq unsure',
         NEW r \in Schedulers, WorkerOK(r),
         \A i \in (r.queue \cup {r.job}) \cap JobIds : i \notin J \/ i \in Excused'
  PROVE  WorkerOK(r)'
<1>1. \A i \in r.queue : i \in JobIds /\ Stands(i, "pending")
  BY Fields DEF WorkerOK
<1>2. \A i \in r.queue : Stands(i, "pending")'
  BY <1>1, StandsKept
<1>3. r.pc \in Working => r.job \in JobIds \ r.queue /\ Stands(r.job, "running")'
  <2>1. ASSUME r.pc \in Working PROVE r.job \in JobIds \ r.queue /\ Stands(r.job, "running")'
    <3>1. r.job \in JobIds \ r.queue /\ Stands(r.job, "running")
      BY <2>1 DEF WorkerOK
    <3> QED BY <3>1, StandsKept
  <2> QED BY <2>1
<1>4. r.pc \in Merging => Ranged(r.row.from, r.row.to)'
  <2>1. PICK f \in Nat, t \in Nat : f = r.row.from /\ t = r.row.to
    BY Fields
  <2>2. Ranged(f, t) => Ranged(f, t)'
    BY JobsKept
  <2> QED BY <2>1, <2>2 DEF WorkerOK
<1>5. Calm' = Calm /\ forgotten' = forgotten /\ erased' = erased /\ events' = events
  BY JobsKept DEF told
<1> QED BY <1>2, <1>3, <1>4, <1>5 DEF WorkerOK, Excused

\* A queue as it was is as good as it was, though the scheduler's own job changes.
LEMMA QueueKept ==
  ASSUME IInv, NEW J, JobStep(J), done \subseteq done', UNCHANGED told,
         overlap \subseteq overlap', unsure \subseteq unsure',
         NEW w \in Workers, NEW i \in worker[w].queue, i \notin J
  PROVE  Stands(i, "pending")'
<1>1. i \in JobIds /\ Stands(i, "pending")
  BY Facts, Fields DEF WorkerOK
<1> QED BY <1>1, StandsKept

\* The other schedulers have a job of w only if it is in overlap.
LEMMA OthersKept ==
  ASSUME IInv, NEW w \in Workers, NEW j \in JobIds, j \in Held(w), JobStep({j}),
         done \subseteq done', UNCHANGED <<told, events, overlap>>, unsure \subseteq unsure',
         NEW r \in Schedulers, Turn(w, r), r.queue \cup {r.job} \subseteq Held(w) \cup {0}
  PROVE  /\ \A v \in Workers \ {w} : WorkerOK(worker[v])'
         /\ PairsOK'
<1>1. /\ worker' \in [Workers -> Schedulers] /\ worker'[w] = r
      /\ \A v \in Workers \ {w} : worker'[v] = worker[v]
  BY Facts, TurnOf
<1>2. ASSUME NEW v \in Workers \ {w} PROVE WorkerOK(worker[v])'
  <2>1. PICK q \in Schedulers : q = worker[v] /\ WorkerOK(q)
    BY Facts
  <2>2. Held(v) \cap Held(w) \cap JobIds \subseteq overlap
    BY DEF IInv, PairsOK
  <2>3. \A i \in (q.queue \cup {q.job}) \cap JobIds : i \notin {j} \/ i \in Excused'
    BY <2>1, <2>2 DEF Held, Excused
  <2>4. WorkerOK(q)'
    BY <2>1, <2>3, WorkerKept
  <2>5. worker'[v] = q
    BY <1>1, <2>1
  <2> QED BY <2>4, <2>5 DEF WorkerOK
<1>3. PairsOK'
  <2>1. \A v \in Workers \ {w} : Shared(r, v) \subseteq overlap
    BY SharedKept
  <2>2. ASSUME NEW u \in Workers, NEW v \in Workers, u # v
        PROVE  Held(u)' \cap Held(v)' \cap JobIds \subseteq overlap'
    <3>1. CASE u = w
      BY <1>1, <2>1, <2>2, <3>1 DEF Held, Shared
    <3>2. CASE v = w
      BY <1>1, <2>1, <2>2, <3>2 DEF Held, Shared
    <3>3. CASE u # w /\ v # w
      BY <1>1, <2>2, <3>3 DEF Held, PairsOK, IInv
    <3> QED BY <3>1, <3>2, <3>3
  <2> QED BY <2>2 DEF PairsOK
<1> QED BY <1>2, <1>3

\* A job is queued for the first full batch after a cursor.
LEMMA QueuedJob ==
  ASSUME NEW t \in [JobIds -> Jobs], NEW a \in Nat, NEW b \in 0..MaxEvents, 1 <= a, a <= b
  PROVE  /\ WithJob(t, a..b) \in [JobIds -> Jobs]
         /\ \A j \in JobIds :
              \/ WithJob(t, a..b)[j] = t[j]
              \/ /\ job[j].status = "absent"
                 /\ WithJob(t, a..b)[j]
                    = [status |-> "pending", from |-> a, to |-> b, retries |-> 0]
<1>1. Min(a..b) = a /\ Max(a..b) = b /\ a \in 0..MaxEvents
  BY BatchEnds, Constants
<1>2. Unused \subseteq JobIds /\ Unused \in SUBSET Nat
  BY Constants DEF Unused
<1>3. Unused # {} => Min(Unused) \in Unused
  BY <1>2, MinOf
<1> DEFINE n == [status |-> "pending", from |-> a, to |-> b, retries |-> 0]
<1>4. n \in Jobs
  BY <1>1, Constants DEF Jobs, Existing, Active
<1>5. CASE Unused = {}
  BY <1>5 DEF WithJob
<1>6. CASE Unused # {}
  <2>1. WithJob(t, a..b) = [t EXCEPT ![Min(Unused)] = n]
    BY <1>1, <1>6 DEF WithJob
  <2>2. Min(Unused) \in JobIds /\ job[Min(Unused)].status = "absent"
    BY <1>3, <1>6 DEF Unused
  <2> HIDE DEF n
  <2>3. WithJob(t, a..b) \in [JobIds -> Jobs] /\ WithJob(t, a..b)[Min(Unused)] = n
    BY <1>4, <2>1, <2>2
  <2>4. \A j \in JobIds : j # Min(Unused) => WithJob(t, a..b)[j] = t[j]
    BY <2>1, <2>2
  <2>5. n = [status |-> "pending", from |-> a, to |-> b, retries |-> 0]
    BY DEF n
  <2> QED BY <2>2, <2>3, <2>4, <2>5
<1> QED BY <1>5, <1>6

\* Such a queued job may be consolidated.
LEMMA QueuedStep ==
  ASSUME IInv, UNCHANGED told, done \subseteq done',
         NEW J, NEW t \in [JobIds -> Jobs], NEW c \in Nat, c + Batch <= events,
         Covered(c)', Calm => c >= forgotten,
         \A i \in JobIds : \/ t[i] = job[i]
                           \/ /\ i \in J /\ job[i].status \in Existing /\ t[i].status \in Existing
                              /\ t[i].from = job[i].from /\ t[i].to = job[i].to,
         job' = WithJob(t, (c + 1)..(c + Batch))
  PROVE  JobStep(J) /\ \A i \in JobIds : job[i].status # "absent" => job'[i] = t[i]
<1>1. /\ c + 1 \in Nat /\ c + Batch \in 0..MaxEvents /\ 1 <= c + 1 /\ c + 1 <= c + Batch
      /\ c + 1 - 1 = c /\ forgotten \in Nat /\ forgotten' = forgotten
  BY Facts, Constants DEF told
<1>2. /\ job' \in [JobIds -> Jobs]
      /\ \A i \in JobIds :
           \/ job'[i] = t[i]
           \/ /\ job[i].status = "absent"
              /\ job'[i] = [status |-> "pending", from |-> c + 1, to |-> c + Batch, retries |-> 0]
  BY <1>1, QueuedJob
<1>3. Calm' => Calm
  <2>1. \A i \in JobIds : job[i].status = "deleted" => job'[i].status = "deleted"
    BY <1>2 DEF Existing, Active
  <2> QED BY <2>1 DEF Calm
<1>4. ASSUME NEW i \in JobIds, job'[i].from = c + 1, job'[i].to = c + Batch
      PROVE  Ranged(job[i].from, job[i].to)'
  <2>1. Covered(job[i].from - 1)'
    BY <1>1, <1>4
  <2>2. Calm' => job'[i].from > forgotten'
    BY <1>1, <1>3, <1>4
  <2> QED BY <1>1, <1>4, <2>1, <2>2 DEF Ranged
<1> QED BY <1>2, <1>4 DEF JobStep

\* Enqueue keeps the invariant.
LEMMA EnqueueInv == ASSUME IInv, EnqueueIfDue PROVE IInv' /\ JobStep({})
<1>1. /\ UNCHANGED <<events, cursor, learned, worker, done, told, excuses, resets, crashes>>
      /\ bot' = BotIdle /\ forgotten' = forgotten /\ erased' = erased /\ bot.pc = "list"
      /\ overlap' = overlap /\ unsure' = unsure
  BY DEF EnqueueIfDue, told, excuses
<1>2. /\ Covered(bot.cursor) /\ (Calm => bot.cursor >= forgotten) /\ bot.cursor \in Nat
      /\ job \in [JobIds -> Jobs]
  BY <1>1, Facts DEF BotOK, Bots
<1>3. JobStep({})
  <2>1. CASE job' = job
    BY <1>2, <2>1 DEF JobStep
  <2>2. CASE /\ job' = WithJob(job, (bot.cursor + 1)..(bot.cursor + Batch))
             /\ events >= bot.cursor + Batch
    <3>1. PICK c \in Nat : c = bot.cursor
      BY <1>2
    <3>2. Covered(c)' /\ (Calm => c >= forgotten) /\ c + Batch <= events
      BY <1>1, <1>2, <2>2, <3>1, Facts, Constants DEF Covered
    <3>3. UNCHANGED told /\ done \subseteq done'
      BY <1>1
    <3> QED BY <1>2, <2>2, <3>1, <3>2, <3>3, QueuedStep
  <2> QED BY <2>1, <2>2 DEF EnqueueIfDue, BatchAfter
<1>4. TypeOK'
  <2>1. bot' \in Bots /\ job' \in [JobIds -> Jobs]
    BY <1>1, <1>3, IdleBot DEF JobStep
  <2> QED BY <1>1, <2>1, Types DEF IInv, TypeOK, Bots
<1>5. Calm' = Calm /\ Covered(cursor)' /\ \A j \in JobIds : JobOK(j)'
  BY <1>1, <1>3, JobsKept, Facts DEF Covered
<1>6. DataInv'
  <2>1. ASSUME NEW m \in learned PROVE MemoryOK(m)'
    <3>1. MemoryOK(m) /\ m.job \in JobIds
      BY Facts DEF Memories
    <3>2. Stands(m.job, "completed")'
      BY <1>1, <1>3, <3>1, StandsKept DEF MemoryOK
    <3> QED BY <1>1, <1>5, <3>1, <3>2 DEF MemoryOK
  <2> QED BY <1>1, <1>5, <2>1, Facts DEF DataInv
<1>7. ASSUME NEW w \in Workers PROVE WorkerOK(worker[w])' /\ Apart(bot, worker[w])'
  <2>1. PICK r \in Schedulers : r = worker[w] /\ WorkerOK(r)
    BY Facts
  <2>2. WorkerOK(r)'
    BY <1>1, <1>3, <2>1, WorkerKept
  <2>3. worker'[w] = r
    BY <1>1, <2>1
  <2> QED BY <1>1, <2>2, <2>3 DEF WorkerOK, Apart, BotIdle
<1>8. BotOK(bot)' /\ PairsOK'
  BY <1>1 DEF BotOK, BotIdle, PairsOK, Held, IInv
<1> QED BY <1>3, <1>4, <1>5, <1>6, <1>7, <1>8 DEF IInv

\* A reset is committed: whatever was to be forgotten is, and the jobs are deleted.
LEMMA CommitResetInv == ASSUME IInv, CommitReset PROVE IInv'
<1>1. /\ bot.pc = "reset" /\ \A w \in Workers : worker[w].wrote = {}
      /\ learned' = learned \ bot.doomed /\ cursor' = events /\ forgotten' = events
      /\ erased' = erased \cup Ids(bot.doomed) /\ bot' = BotIdle
      /\ overlap' = overlap /\ unsure' = unsure
      /\ UNCHANGED <<events, worker, done, resets, crashes>>
  BY DEF CommitReset, HoldsJob, excuses
<1>2. /\ bot.doomed = {m \in learned : m.id \in Ids(bot.doomed)}
      /\ bot.doomed \in SUBSET Memories /\ learned \subseteq Memories
  BY <1>1, Facts DEF BotOK, Bots
<1>3. \A j \in JobIds : job'[j] = IF job[j].status \in Existing
                                   THEN [job[j] EXCEPT !.status = "deleted"] ELSE job[j]
  BY DEF CommitReset
<1>4. /\ job' \in [JobIds -> Jobs]
      /\ \A j \in JobIds : /\ job'[j].from = job[j].from /\ job'[j].to = job[j].to
                           /\ job'[j].status \in {"absent", "deleted"}
                           /\ job[j].status = "absent" <=> job'[j].status = "absent"
  <2>1. \A j \in JobIds : job[j] \in Jobs
    BY Facts
  <2>2. ASSUME NEW j \in JobIds
        PROVE  job'[j] \in Jobs /\ job'[j].from = job[j].from /\ job'[j].to = job[j].to
    <3>1. PICK old \in Jobs : old = job[j]
      BY <2>1
    <3>2. /\ [old EXCEPT !.status = "deleted"] \in Jobs
          /\ [old EXCEPT !.status = "deleted"].from = old.from
          /\ [old EXCEPT !.status = "deleted"].to = old.to
      BY DEF Jobs
    <3> QED BY <1>3, <3>1, <3>2
  <2>3. \A j \in JobIds : /\ job'[j].status \in {"absent", "deleted"}
                          /\ job[j].status = "absent" <=> job'[j].status = "absent"
    BY <1>3, <2>1 DEF Jobs, Existing, Active
  <2>4. job' \in [JobIds -> Jobs]
    BY <2>2 DEF CommitReset
  <2> QED BY <2>2, <2>3, <2>4
<1>5. Calm' => \A j \in JobIds : job[j].status = "absent"
  BY <1>4 DEF Calm
<1>6. /\ forgotten \in Nat /\ events \in Nat /\ forgotten <= events
      /\ forgotten' \in Nat /\ done' = done
  BY <1>1, Facts
<1>7. \A n \in Nat : Covered(n) => Covered(n)'
  BY <1>6, <1>1, Later
<1>8. TypeOK'
  <2>1. Ids(bot.doomed) \subseteq MemoryIds /\ bot' \in Bots
    BY <1>1, <1>2, IdsOf, IdleBot
  <2>2. learned' \subseteq Memories /\ erased' \subseteq MemoryIds
    BY <1>1, <1>2, <2>1, Facts
  <2> QED BY <1>1, <1>4, <2>1, <2>2, Types DEF IInv, TypeOK, Bots
<1>9. ASSUME NEW f \in Nat, NEW t \in Nat, Ranged(f, t), ~Calm' PROVE Ranged(f, t)'
  <2>1. 1 <= f /\ f <= t /\ f - 1 \in Nat /\ Covered(f - 1)
    BY <1>9 DEF Ranged
  <2>2. Covered(f - 1)'
    BY <1>7, <2>1
  <2> QED BY <1>9, <2>1, <2>2 DEF Ranged
<1>10. \A j \in JobIds : \A s : Stands(j, s) => Stands(j, s)' /\ ~Calm'
  BY <1>1, <1>4, <1>5 DEF Stands, Excused
<1>11. ASSUME NEW j \in JobIds PROVE JobOK(j)'
  <2>1. CASE job'[j].status = "absent"
    BY <2>1 DEF JobOK
  <2>2. CASE job'[j].status # "absent"
    <3>1. PICK f \in Nat, t \in Nat : f = job[j].from /\ t = job[j].to
      BY Facts DEF Jobs
    <3>2. Ranged(f, t) /\ ~Calm'
      BY <1>4, <1>5, <2>2, <3>1, Facts DEF JobOK
    <3>3. Ranged(f, t)' /\ f = job'[j].from /\ t = job'[j].to
      BY <1>4, <1>9, <3>1, <3>2
    <3> QED BY <3>3 DEF JobOK
  <2> QED BY <2>1, <2>2
<1>12. DataInv'
  <2>1. Covered(cursor)' /\ forgotten' <= events' /\ cursor' >= forgotten'
    BY <1>1, <1>6 DEF Covered
  <2>2. ASSUME NEW m \in learned' PROVE MemoryOK(m)'
    <3>1. m \in learned /\ m.id \notin Ids(bot.doomed) /\ m.job \in JobIds
      BY <1>1, <1>2 DEF Memories
    <3>2. MemoryOK(m)
      BY <3>1, Facts
    <3>3. Stands(m.job, "completed")' /\ ~Calm'
      BY <1>10, <3>1, <3>2 DEF MemoryOK
    <3> QED BY <1>1, <3>1, <3>2, <3>3 DEF MemoryOK
  <2> QED BY <2>1, <2>2 DEF DataInv
<1>13. ASSUME NEW w \in Workers PROVE WorkerOK(worker[w])' /\ Apart(bot, worker[w])'
  <2>1. PICK r \in Schedulers : r = worker[w] /\ WorkerOK(r) /\ r.wrote = {}
    BY <1>1, Facts
  <2>2. \A j \in r.queue : Stands(j, "pending")'
    BY <1>10, <2>1, Fields DEF WorkerOK
  <2>3. r.pc \in Working => r.job \in JobIds \ r.queue /\ Stands(r.job, "running")' /\ ~Calm'
    BY <1>10, <2>1 DEF WorkerOK
  <2>4. r.pc \in Merging => Ranged(r.row.from, r.row.to)'
    <3>1. PICK f \in Nat, t \in Nat : f = r.row.from /\ t = r.row.to
      BY Fields
    <3>2. r.pc \in Merging => Ranged(f, t)'
      BY <1>9, <2>1, <2>3, <3>1 DEF WorkerOK, Working
    <3> QED BY <3>1, <3>2
  <2>5. WorkerOK(r)'
    BY <1>1, <2>1, <2>2, <2>3, <2>4 DEF WorkerOK, Excused
  <2>6. worker'[w] = r
    BY <1>1, <2>1
  <2> QED BY <1>1, <2>5, <2>6 DEF WorkerOK, Apart, BotIdle
<1>14. BotOK(bot)' /\ PairsOK'
  BY <1>1 DEF BotOK, BotIdle, PairsOK, Held, IInv
<1> QED BY <1>8, <1>11, <1>12, <1>13, <1>14 DEF IInv

-----------------------------------------------------------------------------
(* The schedulers *)

\* A scheduler between two jobs.
LEMMA OnwardIs ==
  ASSUME NEW Q \in SUBSET JobIds
  PROVE  /\ Onward(Q) \in Schedulers /\ Onward(Q).queue = Q /\ Onward(Q).job = 0
         /\ Onward(Q).wrote = {} /\ Onward(Q).pc \in {"idle", "next"}
         /\ Onward(Q).pc = "next" => Q # {}
<1>1. NoJob \in Jobs
  BY Constants DEF NoJob, Jobs
<1>2. /\ WorkerIdle \in Schedulers /\ WorkerIdle.queue = {} /\ WorkerIdle.job = 0
      /\ WorkerIdle.wrote = {} /\ WorkerIdle.pc = "idle"
  BY <1>1, Constants DEF WorkerIdle, Schedulers
<1> DEFINE r == [WorkerIdle EXCEPT !.pc = "next", !.queue = Q]
<1>3. r \in Schedulers /\ r.queue = Q /\ r.job = 0 /\ r.wrote = {} /\ r.pc = "next"
  BY <1>2 DEF Schedulers
<1> HIDE DEF r
<1>4. CASE Q = {}
  BY <1>2, <1>4 DEF Onward
<1>5. CASE Q # {}
  <2>1. Onward(Q) = r
    BY <1>5 DEF Onward, r
  <2> QED BY <1>3, <1>5, <2>1
<1> QED BY <1>4, <1>5

\* It has written nothing, and its queue is as good as it was.
LEMMA OnwardOK ==
  ASSUME NEW Q \in SUBSET JobIds, \A j \in Q : Stands(j, "pending")
  PROVE  WorkerOK(Onward(Q)) /\ \A b : Apart(b, Onward(Q))
BY OnwardIs DEF WorkerOK, Working, Merging, Apart, Ids

\* A scheduler gives a job back and goes on, with some of its queue or none of it.
LEMMA GoesOn ==
  ASSUME IInv, NEW w \in Workers, NEW Q \in SUBSET worker[w].queue, Turn(w, Onward(Q)),
         UNCHANGED <<events, cursor, job, learned, bot, done, told, excuses, resets>>,
         crashes' \in Nat
  PROVE  IInv'
<1>1. Q \in SUBSET JobIds /\ \A j \in Q : Stands(j, "pending")
  BY Facts, Fields DEF WorkerOK
<1>2. /\ Onward(Q) \in Schedulers /\ WorkerOK(Onward(Q)) /\ Apart(bot, Onward(Q))
      /\ Onward(Q).queue \cup {Onward(Q).job} \subseteq Held(w) \cup {0}
  BY <1>1, OnwardIs, OnwardOK DEF Held
<1>3. \A v \in Workers \ {w} : Shared(Onward(Q), v) \subseteq overlap
  BY <1>2, SharedKept
<1>4. /\ overlap' = overlap /\ overlap \subseteq JobIds
      /\ UNCHANGED <<events, cursor, job, learned, bot, done, told, unsure, resets>>
  BY Facts DEF excuses
<1> QED BY <1>2, <1>3, <1>4, WorkerOnly

\* A scheduler keeps its jobs, and what it has done is as good as it was.
LEMMA KeepsOn ==
  ASSUME IInv, NEW w \in Workers, NEW r \in Schedulers, Turn(w, r),
         r.queue = worker[w].queue, r.job = worker[w].job,
         UNCHANGED <<events, cursor, job, learned, bot, done, told, excuses, resets, crashes>>,
         WorkerOK(r), Apart(bot, r)
  PROVE  IInv'
<1>1. \A v \in Workers \ {w} : Shared(r, v) \subseteq overlap
  BY SharedKept DEF Held
<1>2. /\ overlap' = overlap /\ overlap \subseteq JobIds /\ crashes' \in Nat
      /\ UNCHANGED <<events, cursor, job, learned, bot, done, told, unsure, resets>>
  BY Facts DEF excuses
<1> QED BY <1>1, <1>2, WorkerOnly

\* A list of jobs is taken: those that others have are in overlap from now on.
LEMMA ListInv == ASSUME IInv, NEW w \in Workers, ListPending(w) PROVE IInv'
<1> DEFINE Q == {j \in Pending : Cardinality({i \in Pending : i < j}) < JobLimit}
<1>1. Q \in SUBSET JobIds /\ \A j \in Q : Stands(j, "pending")
  BY DEF Pending, Stands
<1>2. /\ Turn(w, Onward(Q))
      /\ overlap' = overlap \cup {j \in Q : \E v \in Workers \ {w} : j \in Held(v)}
      /\ UNCHANGED <<events, cursor, job, learned, bot, done, told, unsure, resets, crashes>>
  BY DEF ListPending
<1> HIDE DEF Q
<1>3. Onward(Q) \in Schedulers /\ WorkerOK(Onward(Q)) /\ Apart(bot, Onward(Q))
  BY <1>1, OnwardIs, OnwardOK
<1>4. \A v \in Workers \ {w} : Shared(Onward(Q), v) \subseteq overlap'
  BY <1>1, <1>2, OnwardIs, Constants DEF Shared
<1>5. overlap \subseteq overlap' /\ overlap' \subseteq JobIds /\ crashes' \in Nat
  BY <1>1, <1>2, Facts
<1> QED BY <1>2, <1>3, <1>4, <1>5, WorkerOnly

\* A scheduler is lost.
LEMMA CrashInv == ASSUME IInv, NEW w \in Workers, Crash(w) PROVE IInv'
<1>1. /\ Turn(w, Onward({})) /\ {} \in SUBSET worker[w].queue
      /\ UNCHANGED <<events, cursor, job, learned, bot, done, told, excuses, resets>>
  BY DEF Crash, Onward
<1>2. crashes' \in Nat
  BY Facts DEF Crash
<1> QED BY <1>1, <1>2, GoesOn

\* Its transaction is rolled back.
LEMMA RolledBackIs ==
  ASSUME IInv, NEW w \in Workers
  PROVE  /\ RolledBack(w) \in Schedulers /\ RolledBack(w).pc = "fail"
         /\ RolledBack(w).wrote = {} /\ RolledBack(w).queue = worker[w].queue
         /\ RolledBack(w).job = worker[w].job
<1>1. "fail" \in {"idle", "next"} \cup Working /\ 0 \in 0..Candidates /\ NoJob \in Jobs
      /\ 0 \in 0..MaxEvents
  BY Constants DEF Working, NoJob, Jobs
<1>2. worker[w] \in Schedulers
  BY Facts
<1> HIDE DEF Working
<1> QED BY <1>1, <1>2 DEF RolledBack, Schedulers

LEMMA RolledBackOK ==
  ASSUME IInv, NEW w \in Workers, worker[w].pc \in Working
  PROVE  WorkerOK(RolledBack(w)) /\ \A b : Apart(b, RolledBack(w))
<1>1. WorkerOK(worker[w])
  BY Facts
<1> QED BY <1>1, RolledBackIs DEF WorkerOK, Working, Merging, Apart, Ids

LEMMA RaiseInv ==
  ASSUME IInv, NEW w \in Workers, worker[w].pc \in Working, Turn(w, RolledBack(w)),
         UNCHANGED <<events, cursor, job, learned, bot, done, told, excuses, resets, crashes>>
  PROVE  IInv'
BY RolledBackIs, RolledBackOK, KeepsOn

\* Load keeps the invariant.
LEMMA LoadInv == ASSUME IInv, NEW w \in Workers, Load(w) PROVE IInv'
<1>1. /\ worker[w].pc = "load"
      /\ UNCHANGED <<events, cursor, job, learned, bot, done, told, excuses, resets, crashes>>
      /\ crashes' \in Nat
  BY Facts DEF Load
<1>2. CASE Turn(w, NextJob(w))
  BY <1>1, <1>2, GoesOn DEF NextJob
<1>3. ASSUME NEW n \in Extracted, job[worker[w].job].status \in Existing,
             Turn(w, [worker[w] EXCEPT !.pc = "work",
                        !.row = [job[worker[w].job] EXCEPT !.retries = 0], !.left = n])
      PROVE  IInv'
  <2>1. PICK j \in JobIds : /\ j = worker[w].job /\ j \notin worker[w].queue
                            /\ Stands(j, "running")
    BY <1>1, Facts DEF WorkerOK, Working
  <2>2. worker[w] \in Schedulers /\ WorkerOK(worker[w]) /\ worker[w].wrote = {}
    BY <1>1, Facts DEF WorkerOK, Merging
  <2>3. job[j] \in Jobs /\ Ranged(job[j].from, job[j].to)
    BY <2>1, Facts DEF JobOK, Stands
  <2>4. PICK row \in Jobs : /\ row = [job[j] EXCEPT !.retries = 0] /\ row.from = job[j].from
                            /\ row.to = job[j].to /\ row.status = job[j].status
    <3>1. [job[j] EXCEPT !.retries = 0] \in Jobs
      BY <2>3 DEF Jobs
    <3> QED BY <2>3, <3>1 DEF Jobs
  <2>5. PICK r : r = [worker[w] EXCEPT !.pc = "work", !.row = row, !.left = n]
    OBVIOUS
  <2>6. /\ r \in Schedulers /\ r.queue = worker[w].queue /\ r.job = j /\ r.wrote = {}
        /\ r.row = row /\ r.pc = "work"
    <3>1. "work" \in {"idle", "next"} \cup Working /\ n \in 0..Candidates
      BY DEF Working, Merging, Extracted
    <3> QED BY <2>1, <2>2, <2>5, <3>1 DEF Schedulers
  <2>7. row.status = "completed" => j \in Excused
    BY <2>1, <2>4 DEF Stands
  <2>8. WorkerOK(r) /\ Apart(bot, r)
    BY <2>1, <2>2, <2>3, <2>4, <2>6, <2>7 DEF WorkerOK, Apart, Ids
  <2>9. Turn(w, r)
    BY <1>3, <2>1, <2>4, <2>5
  <2> QED BY <1>1, <2>1, <2>6, <2>8, <2>9, KeepsOn
<1> QED BY <1>2, <1>3 DEF Load

\* The merge goes on, and nothing more is written.
LEMMA MergeGoesOn ==
  ASSUME IInv, NEW w \in Workers, worker[w].pc \in Merging, NEW r \in Schedulers,
         r.queue = worker[w].queue, r.job = worker[w].job, r.row = worker[w].row,
         r.wrote = worker[w].wrote, r.pc \in {"work", "decide"}
  PROVE  WorkerOK(r) /\ Apart(bot, r)
<1>1. r.pc \in Merging /\ r.pc \in Working /\ worker[w].pc \in Working /\ r.pc # "commit"
  BY DEF Merging, Working
<1>2. WorkerOK(worker[w]) /\ Apart(bot, worker[w])
  BY Facts
<1> QED BY <1>1, <1>2 DEF WorkerOK, Apart

\* What a scheduler sees of the memories is as a memory has to be.
LEMMA VisibleOK ==
  ASSUME IInv, NEW w \in Workers
  PROVE  /\ Visible(w) \in SUBSET Memories
         /\ \A m \in Visible(w) : m.id \notin erased /\ (Calm => m.from > forgotten)
<1>1. worker[w] \in Schedulers /\ WorkerOK(worker[w])
  BY Facts
<1> QED BY <1>1, Facts, Fields DEF Visible, MemoryOK, WorkerOK

\* ReadNearest keeps the invariant.
LEMMA ReadNearestInv == ASSUME IInv, NEW w \in Workers, ReadNearest(w) PROVE IInv'
<1>1. /\ worker[w].pc = "work" /\ worker[w].left > 0 /\ worker[w] \in Schedulers
      /\ UNCHANGED <<events, cursor, job, learned, bot, done, told, excuses, resets, crashes>>
  BY Facts DEF ReadNearest
<1>2. Ids(Visible(w)) \subseteq MemoryIds /\ worker[w].left - 1 \in 0..Candidates
  BY <1>1, VisibleOK, IdsOf, Fields, Constants
<1>3. PICK r : r = [worker[w] EXCEPT !.pc = "decide", !.left = @ - 1, !.near = Ids(Visible(w))]
  OBVIOUS
<1>4. "decide" \in {"idle", "next"} \cup Working /\ worker[w].pc \in Merging
  BY <1>1 DEF Working, Merging
<1>5. /\ r \in Schedulers /\ r.queue = worker[w].queue /\ r.job = worker[w].job
      /\ r.row = worker[w].row /\ r.wrote = worker[w].wrote /\ r.pc = "decide"
  BY <1>1, <1>2, <1>3, <1>4 DEF Schedulers
<1>6. Turn(w, r)
  BY <1>3 DEF ReadNearest
<1> QED BY <1>1, <1>4, <1>5, <1>6, MergeGoesOn, KeepsOn

\* A candidate is passed over.
LEMMA SkippedInv ==
  ASSUME IInv, NEW w \in Workers, worker[w].pc = "decide", Turn(w, Skipped(w)),
         UNCHANGED <<events, cursor, job, learned, bot, done, told, excuses, resets, crashes>>
  PROVE  IInv'
<1>1. "work" \in {"idle", "next"} \cup Working /\ worker[w].pc \in Merging
  BY DEF Working, Merging
<1>2. worker[w] \in Schedulers
  BY Facts
<1>3. /\ Skipped(w) \in Schedulers /\ Skipped(w).queue = worker[w].queue
      /\ Skipped(w).job = worker[w].job /\ Skipped(w).row = worker[w].row
      /\ Skipped(w).wrote = worker[w].wrote /\ Skipped(w).pc = "work"
  BY <1>1, <1>2 DEF Skipped, Schedulers
<1> QED BY <1>1, <1>3, MergeGoesOn, KeepsOn

\* A memory that is not removed, nor about to be, may be written.
LEMMA WrittenInv ==
  ASSUME IInv, NEW w \in Workers, worker[w].pc = "decide", NEW i \in MemoryIds, i \notin erased,
         ~(bot.pc = "reset" /\ i \in Ids(bot.doomed)), Turn(w, Written(w, i)),
         UNCHANGED <<events, cursor, job, learned, bot, done, told, excuses, resets, crashes>>
  PROVE  IInv'
<1>1. /\ worker[w].pc \in Merging /\ worker[w].pc \in Working
      /\ "work" \in {"idle", "next"} \cup Working /\ "work" \in Merging \cap Working
  BY DEF Merging, Working
<1>2. CASE job[worker[w].job].status \notin Existing
  <2>1. Turn(w, RolledBack(w))
    BY <1>2 DEF Written
  <2> QED BY <1>1, <2>1, RaiseInv
<1>3. CASE job[worker[w].job].status \in Existing
  <2>1. PICK q \in Schedulers : q = worker[w] /\ WorkerOK(q) /\ Apart(bot, q)
    BY Facts
  <2>2. /\ q.job \in JobIds /\ q.row.from \in 1..MaxEvents /\ (Calm => q.row.from > forgotten)
    BY <1>1, <2>1, Fields DEF WorkerOK, Ranged
  <2> DEFINE F == {q.row.from} \cup {m.from : m \in {n \in Visible(w) : n.id = i}}
             x == Min(F)
             new == [id |-> i, job |-> q.job, from |-> x]
             W == {m \in q.wrote : m.id # i} \cup {new}
  <2>3. ASSUME NEW y \in F PROVE y \in 1..MaxEvents /\ (Calm => y > forgotten)
    <3>1. CASE y = q.row.from
      BY <2>2, <3>1
    <3>2. CASE y # q.row.from
      <4>1. PICK m \in Visible(w) : y = m.from
        BY <3>2
      <4> QED BY <4>1, VisibleOK DEF Memories
    <3> QED BY <3>1, <3>2
  <2>4. F \in SUBSET Nat /\ F # {}
    <3> HIDE DEF F
    <3>1. q.row.from \in F
      BY DEF F
    <3>2. \A y \in F : y \in Nat
      BY <2>3, Constants
    <3> QED BY <3>1, <3>2
  <2>5. x \in F
    <3> HIDE DEF F
    <3> QED BY <2>4, MinOf
  <2>6. x \in 1..MaxEvents /\ (Calm => x > forgotten)
    <3> HIDE DEF F, x
    <3> QED BY <2>3, <2>5
  <2> HIDE DEF x, F
  <2>7. new \in Memories /\ new.id = i /\ new.job = q.job /\ new.from = x
    BY <2>2, <2>6 DEF Memories
  <2> HIDE DEF new
  <2>8. Written(w, i) = [q EXCEPT !.pc = "work", !.near = {}, !.wrote = W]
    BY <1>3, <2>1 DEF Written, new, x, F
  <2>9. W \in SUBSET Memories
    BY <2>7, Fields
  <2> HIDE DEF W
  <2>10. PICK r \in Schedulers : /\ r = Written(w, i) /\ r.queue = q.queue /\ r.job = q.job
                                 /\ r.row = q.row /\ r.wrote = W /\ r.pc = "work"
    BY <1>1, <2>8, <2>9 DEF Schedulers
  <2>11. ASSUME NEW m \in W
         PROVE  m.job = q.job /\ m.id \notin erased /\ (Calm => m.from > forgotten)
    BY <2>1, <2>6, <2>7 DEF W, WorkerOK
  <2>12. WorkerOK(r)
    <3>1. r.pc # "commit" /\ r.pc \in Merging \cap Working
      BY <2>10 DEF Working, Merging
    <3> QED BY <1>1, <2>1, <2>10, <2>11, <3>1 DEF WorkerOK
  <2>13. Apart(bot, r)
    <3>1. \A k \in Ids(W) : k = i \/ k \in Ids(q.wrote)
      BY <2>7, <2>9, IdsOf, Fields DEF W
    <3> QED BY <2>1, <2>10, <3>1 DEF Apart
  <2> QED BY <2>1, <2>10, <2>12, <2>13, KeepsOn
<1> QED BY <1>2, <1>3

\* A memory is added, or one that was shown to the model is updated, or none.
LEMMA DecideInv ==
  ASSUME IInv, NEW w \in Workers,
         AddMemory(w) \/ (\E i \in MemoryIds : UpdateMemory(w, i)) \/ Skip(w)
  PROVE  IInv'
<1>1. /\ worker[w].pc = "decide"
      /\ UNCHANGED <<events, cursor, job, learned, bot, done, told, excuses, resets, crashes>>
  BY DEF AddMemory, UpdateMemory, Skip
<1>2. CASE AddMemory(w)
  <2>1. PICK i \in Fresh : Turn(w, Written(w, i))
    BY <1>2 DEF AddMemory
  <2>2. i \in MemoryIds /\ i \notin erased /\ i \notin Ids(learned)
    BY DEF Fresh
  <2>3. bot.pc = "reset" => bot.doomed \subseteq learned
    BY Facts DEF BotOK
  <2>4. ~(bot.pc = "reset" /\ i \in Ids(bot.doomed))
    BY <2>2, <2>3 DEF Ids
  <2> QED BY <1>1, <2>1, <2>2, <2>4, WrittenInv
<1>3. ASSUME NEW i \in MemoryIds, UpdateMemory(w, i) PROVE IInv'
  <2>1. CASE Found(w, i)
    <3>1. i \notin erased
      BY <2>1, VisibleOK, IdsOf DEF Found
    <3>2. ~(bot.pc = "reset" /\ i \in Ids(bot.doomed)) /\ Turn(w, Written(w, i))
      BY <1>3, <2>1 DEF UpdateMemory
    <3> QED BY <1>1, <3>1, <3>2, WrittenInv
  <2>2. CASE ~Found(w, i)
    <3>1. Turn(w, Skipped(w))
      BY <1>3, <2>2 DEF UpdateMemory
    <3> QED BY <1>1, <3>1, SkippedInv
  <2> QED BY <2>1, <2>2
<1>4. CASE Skip(w)
  BY <1>1, <1>4, SkippedInv DEF Skip
<1> QED BY <1>2, <1>3, <1>4

\* Conclude keeps the invariant.
LEMMA ConcludeInv == ASSUME IInv, NEW w \in Workers, Conclude(w) PROVE IInv'
<1>1. /\ worker[w].pc = "work"
      /\ UNCHANGED <<events, cursor, job, learned, bot, done, told, excuses, resets, crashes>>
  BY DEF Conclude
<1>2. PICK n, r : /\ Turn(w, r) /\ r = [worker[w] EXCEPT !.pc = "commit", !.next = n]
                  /\ n = 0 \/ (n = worker[w].row.to + 1 /\ BatchAfter(worker[w].row.to) # {})
  BY DEF Conclude
<1>3. PICK q \in Schedulers : q = worker[w] /\ WorkerOK(q) /\ Apart(bot, q)
  BY Facts
<1>4. n = 0 \/ (n = q.row.to + 1 /\ q.row.to + Batch <= events)
  BY <1>2, <1>3, Fields, Facts, Constants DEF BatchAfter
<1>5. n \in 0..MaxEvents
  BY <1>3, <1>4, Fields, Facts, Constants
<1>6. /\ "commit" \in {"idle", "next"} \cup Working /\ "commit" \in Merging \cap Working
      /\ q.pc \in Merging \cap Working
  BY <1>1, <1>3 DEF Working, Merging
<1>7. /\ r \in Schedulers /\ r.queue = q.queue /\ r.job = q.job /\ r.row = q.row
      /\ r.wrote = q.wrote /\ r.pc = "commit" /\ r.next = n
  BY <1>2, <1>3, <1>5, <1>6 DEF Schedulers
<1>8. WorkerOK(r) /\ Apart(bot, r)
  BY <1>3, <1>4, <1>6, <1>7 DEF WorkerOK, Apart
<1> QED BY <1>1, <1>2, <1>3, <1>7, <1>8, KeepsOn

\* A job of the scheduler's own changes, and nothing else of the data.
LEMMA OwnJobInv ==
  ASSUME IInv, NEW w \in Workers, NEW j \in JobIds, j \in Held(w), JobStep({j}),
         Stands(j, "pending") \/ Stands(j, "running"),
         UNCHANGED <<events, cursor, learned, bot, done, told, excuses, resets, crashes>>,
         NEW r \in Schedulers, Turn(w, r), r.queue \cup {r.job} \subseteq Held(w) \cup {0},
         WorkerOK(r)', r.wrote = {}
  PROVE  IInv'
<1>1. /\ forgotten' = forgotten /\ erased' = erased /\ overlap' = overlap /\ unsure' = unsure
      /\ UNCHANGED <<events, cursor, learned, bot, done, told, resets, crashes>>
  BY DEF told, excuses
<1>2. /\ worker' \in [Workers -> Schedulers] /\ worker'[w] = r
      /\ \A v \in Workers \ {w} : worker'[v] = worker[v]
  BY Facts, TurnOf
<1>3. TypeOK'
  <2>1. worker' \in [Workers -> Schedulers] /\ job' \in [JobIds -> Jobs] /\ TypeOK
    BY <1>2 DEF IInv, JobStep
  <2> QED BY <1>1, <2>1, Types DEF TypeOK, Schedulers, Working, Merging
<1>4. /\ Calm' = Calm /\ \A i \in JobIds : JobOK(i)'
      /\ \A n : Covered(n)' = Covered(n)
  BY <1>1, JobsKept DEF Covered
<1>5. DataInv'
  <2>1. ASSUME NEW m \in learned PROVE MemoryOK(m)'
    <3>1. MemoryOK(m) /\ m.job \in JobIds
      BY Facts DEF Memories
    <3>2. CASE m.job # j \/ m.job \in Excused
      <4>1. Stands(m.job, "completed")'
        BY <1>1, <3>1, <3>2, StandsKept DEF MemoryOK, Excused
      <4> QED BY <1>1, <1>4, <3>1, <4>1 DEF MemoryOK
    <3>3. CASE m.job = j /\ j \notin Excused
      <4>1. job[j].status = "deleted"
        BY <3>1, <3>3 DEF MemoryOK, Stands
      <4>2. job'[j] = job[j]
        BY <1>1, <4>1, JobsKept
      <4>3. Stands(m.job, "completed")'
        BY <3>3, <4>1, <4>2 DEF Stands
      <4> QED BY <1>1, <1>4, <3>1, <4>3 DEF MemoryOK
    <3> QED BY <3>2, <3>3
  <2> QED BY <1>1, <1>4, <2>1, Facts DEF DataInv
<1>6. (\A v \in Workers \ {w} : WorkerOK(worker[v])') /\ PairsOK'
  BY <1>1, OthersKept
<1>7. ASSUME NEW v \in Workers PROVE WorkerOK(worker[v])' /\ Apart(bot, worker[v])'
  <2>1. CASE v = w
    BY <1>1, <1>2, <2>1 DEF WorkerOK, Apart, Ids
  <2>2. CASE v # w
    BY <1>1, <1>2, <1>6, <2>2, Facts DEF Apart
  <2> QED BY <2>1, <2>2
<1>8. BotOK(bot)'
  BY <1>1, <1>4, Facts DEF BotOK
<1> QED BY <1>3, <1>4, <1>5, <1>6, <1>7, <1>8 DEF IInv

\* Of the jobs there were, only one that a scheduler had and that had not ended changes.
Owned == \E j \in JobIds : JobStep({j}) /\ (Stands(j, "pending") \/ Stands(j, "running"))

\* MarkRunning keeps the invariant.
LEMMA MarkRunningInv ==
  ASSUME IInv, NEW w \in Workers, MarkRunning(w)
  PROVE  IInv' /\ (UNCHANGED job \/ Owned)
<1>1. PICK q \in Schedulers : q = worker[w] /\ WorkerOK(q) /\ q.pc = "next" /\ q.queue # {}
  <2>1. worker[w].pc = "next"
    BY DEF MarkRunning
  <2> QED BY <2>1, Facts DEF WorkerOK
<1>2. UNCHANGED <<events, cursor, learned, bot, done, told, excuses, resets, crashes>>
  BY DEF MarkRunning
<1>3. PICK j \in JobIds : j = Min(q.queue) /\ j \in q.queue /\ Stands(j, "pending") /\ q.wrote = {}
  <2>1. q.queue \in SUBSET Nat /\ q.queue \subseteq JobIds
    BY Fields, Constants
  <2> QED BY <1>1, <2>1, MinOf DEF WorkerOK, Merging
<1>4. CASE job[j].status \in Existing
  <2>1. PICK r : /\ r = [q EXCEPT !.pc = "load", !.job = j, !.queue = q.queue \ {j}] /\ Turn(w, r)
                 /\ job' = [job EXCEPT ![j].status = "running"]
    BY <1>1, <1>3, <1>4 DEF MarkRunning
  <2>2. /\ r \in Schedulers /\ r.pc = "load" /\ r.job = j /\ r.wrote = {}
        /\ r.queue = q.queue \ {j}
    <3>1. "load" \in {"idle", "next"} \cup Working
      BY DEF Working
    <3> QED BY <1>3, <2>1, <3>1 DEF Schedulers
  <2>3. /\ job' \in [JobIds -> Jobs] /\ \A i \in JobIds \ {j} : job'[i] = job[i]
        /\ job'[j].status = "running" /\ job'[j].from = job[j].from /\ job'[j].to = job[j].to
    <3>1. [job[j] EXCEPT !.status = "running"] \in Jobs /\ job[j] \in Jobs
      BY Facts DEF Jobs, Existing, Active
    <3> QED BY <2>1, <3>1, Facts DEF Jobs
  <2>4. JobStep({j})
    BY <1>4, <2>3 DEF JobStep, Existing, Active
  <2>5. \A i \in r.queue : Stands(i, "pending")'
    BY <1>1, <1>2, <2>2, <2>4, QueueKept DEF excuses
  <2>6. WorkerOK(r)'
    BY <1>3, <2>2, <2>3, <2>5 DEF WorkerOK, Stands, Working, Merging
  <2>7. r.queue \cup {r.job} \subseteq Held(w) \cup {0} /\ j \in Held(w)
    BY <1>1, <1>3, <2>2 DEF Held
  <2>8. IInv'
    BY <1>2, <1>3, <2>1, <2>2, <2>4, <2>6, <2>7, OwnJobInv
  <2> QED BY <1>3, <2>4, <2>8 DEF Owned
<1>5. CASE job[j].status \notin Existing
  <2>1. PICK Q \in SUBSET q.queue : Turn(w, Onward(Q)) /\ UNCHANGED job
    BY <1>1, <1>3, <1>5 DEF MarkRunning, Onward
  <2>2. crashes' \in Nat
    BY <1>2, Facts
  <2> QED BY <1>1, <1>2, <2>1, <2>2, GoesOn
<1> QED BY <1>4, <1>5

\* ReadFailed keeps the invariant.
LEMMA ReadFailedInv == ASSUME IInv, NEW w \in Workers, ReadFailed(w) PROVE IInv'
<1>1. /\ worker[w].pc = "fail" /\ crashes' \in Nat
      /\ UNCHANGED <<events, cursor, job, learned, bot, done, told, excuses, resets, crashes>>
  BY Facts DEF ReadFailed
<1>2. CASE Turn(w, NextJob(w))
  BY <1>1, <1>2, GoesOn DEF NextJob
<1>3. ASSUME NEW r, r = [worker[w] EXCEPT !.pc = "record", !.row = job[worker[w].job]], Turn(w, r)
      PROVE  IInv'
  <2>1. PICK q \in Schedulers : /\ q = worker[w] /\ WorkerOK(q) /\ q.pc = "fail"
                                /\ q.job \in JobIds /\ q.wrote = {}
    BY <1>1, Facts DEF WorkerOK, Working, Merging
  <2>2. /\ r \in Schedulers /\ r.queue = q.queue /\ r.job = q.job /\ r.wrote = {}
        /\ r.pc = "record"
    <3>1. "record" \in {"idle", "next"} \cup Working /\ job[q.job] \in Jobs
      BY <2>1, Facts DEF Working
    <3> QED BY <1>3, <2>1, <3>1 DEF Schedulers
  <2>3. WorkerOK(r) /\ Apart(bot, r)
    BY <2>1, <2>2 DEF WorkerOK, Working, Merging, Apart, Ids
  <2> QED BY <1>1, <1>3, <2>1, <2>2, <2>3, KeepsOn
<1> QED BY <1>2, <1>3 DEF ReadFailed

\* RecordFailure keeps the invariant.
LEMMA RecordFailureInv ==
  ASSUME IInv, NEW w \in Workers, RecordFailure(w)
  PROVE  IInv' /\ (UNCHANGED job \/ Owned)
<1>1. /\ worker[w].pc = "record" /\ crashes' \in Nat
      /\ UNCHANGED <<events, cursor, learned, bot, done, told, excuses, resets, crashes>>
  BY Facts DEF RecordFailure
<1>2. PICK q \in Schedulers, j \in JobIds :
         q = worker[w] /\ j = q.job /\ j \notin q.queue /\ Stands(j, "running")
  BY <1>1, Facts DEF WorkerOK, Working
<1>3. CASE job[j].status \in Existing
  <2>1. PICK s : /\ s \in {"pending", "failed", job[j].status} /\ Turn(w, NextJob(w))
                 /\ job' = [job EXCEPT ![j].status = s, ![j].retries = q.row.retries + 1]
    <3>1. StatusAfterFailure(q.row) \in {"pending", "failed"}
      BY DEF StatusAfterFailure
    <3> DEFINE s == IF StatusAfterFailure(q.row) = q.row.status THEN job[j].status
                    ELSE StatusAfterFailure(q.row)
    <3>2. s \in {"pending", "failed", job[j].status}
      BY <3>1
    <3>3. job' = [job EXCEPT ![j].status = s, ![j].retries = q.row.retries + 1]
      BY <1>2, <1>3, Facts DEF RecordFailure
    <3> QED BY <1>2, <1>3, <3>2, <3>3 DEF RecordFailure
  <2>2. /\ job' \in [JobIds -> Jobs] /\ \A i \in JobIds \ {j} : job'[i] = job[i]
        /\ job'[j].status = s /\ job'[j].from = job[j].from /\ job'[j].to = job[j].to
    <3>1. q.row.retries + 1 \in Nat /\ job[j] \in Jobs /\ s \in Existing \cup {"absent", "deleted"}
      BY <1>3, <2>1, Fields, Facts DEF Existing, Active
    <3>2. PICK new \in Jobs : /\ new = [job[j] EXCEPT !.status = s, !.retries = q.row.retries + 1]
                              /\ new.status = s /\ new.from = job[j].from /\ new.to = job[j].to
      <4>1. [[job[j] EXCEPT !.status = s] EXCEPT !.retries = q.row.retries + 1] \in Jobs
        BY <3>1 DEF Jobs
      <4> QED BY <3>1, <4>1 DEF Jobs
    <3>3. job' = [job EXCEPT ![j] = new]
      BY <2>1, <3>1, <3>2, Facts
    <3> QED BY <3>2, <3>3, Facts
  <2>3. JobStep({j})
    BY <1>3, <2>1, <2>2 DEF JobStep, Existing, Active
  <2>4. PICK r \in Schedulers : /\ Turn(w, r) /\ r.queue = q.queue /\ r.job = 0 /\ r.wrote = {}
                                /\ r.pc \in {"idle", "next"}
                                /\ r.pc = "next" => r.queue # {}
    BY <1>2, <2>1, Fields, OnwardIs DEF NextJob
  <2>5. \A i \in r.queue : Stands(i, "pending")'
    BY <1>1, <1>2, <2>3, <2>4, QueueKept DEF excuses
  <2>6. WorkerOK(r)'
    BY <2>4, <2>5 DEF WorkerOK, Working, Merging
  <2>7. r.queue \cup {r.job} \subseteq Held(w) \cup {0} /\ j \in Held(w)
    BY <1>2, <2>4 DEF Held
  <2>8. IInv'
    BY <1>1, <1>2, <2>3, <2>4, <2>6, <2>7, OwnJobInv
  <2> QED BY <1>2, <2>3, <2>8 DEF Owned
<1>4. CASE job[j].status \notin Existing
  <2>1. Turn(w, Onward({})) /\ UNCHANGED job /\ {} \in SUBSET worker[w].queue
    BY <1>2, <1>4 DEF RecordFailure, Onward
  <2> QED BY <1>1, <2>1, GoesOn
<1> QED BY <1>3, <1>4

\* What a commit makes of the jobs and the messages.
LEMMA CommittedJobs ==
  ASSUME IInv, NEW w \in Workers, Committing(w), Committed(w), UNCHANGED <<events, told>>,
         NEW q \in Schedulers, q = worker[w], NEW j, j = q.job, NEW to, to = q.row.to
  PROVE  /\ j \in JobIds /\ Stands(j, "running")
         /\ JobStep({j}) /\ done \subseteq done' /\ done' \subseteq 1..MaxEvents
         /\ Covered(to)' /\ (Calm => to >= forgotten)
         /\ job'[j].status \in {"completed", "deleted"} \/ j \in Excused
<1>1. PICK from \in Nat : from = q.row.from /\ to \in Nat /\ WorkerOK(q) /\ q.pc = "commit"
  BY Facts, Fields DEF Committing
<1>2. /\ j \in JobIds \ q.queue /\ Stands(j, "running") /\ Ranged(from, to)
      /\ q.row.status = "completed" => j \in Excused
      /\ q.next # 0 => q.next = to + 1 /\ to + Batch <= events
  BY <1>1 DEF WorkerOK, Working, Merging
<1>3. /\ 1 <= from /\ from <= to /\ Covered(from - 1) /\ (Calm => from > forgotten)
      /\ to \in 0..MaxEvents /\ forgotten' = forgotten /\ forgotten \in Nat
  BY <1>1, <1>2, Fields, Facts DEF Ranged, told
<1>4. done' = done \cup (from..to)
  BY <1>1 DEF Committed
<1>5. done \subseteq done' /\ done' \subseteq 1..MaxEvents
  <2>1. \A e \in from..to : e \in 1..MaxEvents
    BY <1>3, Constants
  <2>2. done \subseteq 1..MaxEvents
    BY Types DEF IInv
  <2> QED BY <1>4, <2>1, <2>2
<1>6. Covered(to)'
  <2>1. \A e \in 1..to : e \in 1..(from - 1) \/ e \in from..to
    BY <1>3
  <2> QED BY <1>3, <1>4, <2>1 DEF Covered
<1>7. /\ WithCompleted(w) \in [JobIds -> Jobs]
      /\ \A i \in JobIds \ {j} : WithCompleted(w)[i] = job[i]
      /\ \/ WithCompleted(w)[j] = job[j]
         \/ /\ job[j].status \in Existing /\ WithCompleted(w)[j].status \in Existing
            /\ WithCompleted(w)[j].from = job[j].from /\ WithCompleted(w)[j].to = job[j].to
      /\ WithCompleted(w)[j].status \in {"completed", "deleted"} \/ j \in Excused
  <2>1. job \in [JobIds -> Jobs] /\ job[j] \in Jobs
    BY <1>2, Facts
  <2>2. CASE q.row.status = "completed" \/ job[j].status \notin Existing
    <3>1. WithCompleted(w) = job
      BY <1>1, <2>2 DEF WithCompleted
    <3>2. job[j].status \in {"completed", "deleted"} \/ j \in Excused
      BY <1>2, <2>2 DEF Stands, Existing, Active
    <3> QED BY <2>1, <3>1, <3>2
  <2>3. CASE ~(q.row.status = "completed" \/ job[j].status \notin Existing)
    <3>1. PICK new \in Jobs : /\ new = [job[j] EXCEPT !.status = "completed"]
                              /\ new.status = "completed" /\ new.from = job[j].from
                              /\ new.to = job[j].to
      <4>1. [job[j] EXCEPT !.status = "completed"] \in Jobs
        BY <2>1 DEF Jobs, Existing
      <4> QED BY <2>1, <4>1 DEF Jobs
    <3>2. WithCompleted(w) = [job EXCEPT ![j] = new]
      BY <1>1, <2>1, <2>3, <3>1 DEF WithCompleted
    <3> QED BY <1>2, <2>1, <2>3, <3>1, <3>2 DEF Existing
  <2> QED BY <2>2, <2>3
<1>8. JobStep({j}) /\ (job'[j] = WithCompleted(w)[j])
  <2>1. CASE q.next = 0
    <3>1. job' = WithCompleted(w)
      BY <1>1, <2>1 DEF Committed
    <3> QED BY <1>7, <3>1 DEF JobStep
  <2>2. CASE q.next # 0
    <3>1. q.next + Batch - 1 = to + Batch /\ q.next = to + 1 /\ to + Batch <= events
      BY <1>1, <1>2, <2>2, Constants
    <3>2. job' = WithJob(WithCompleted(w), (to + 1)..(to + Batch))
      BY <1>1, <2>2, <3>1 DEF Committed
    <3>3. Calm => to >= forgotten
      BY <1>3
    <3>4. JobStep({j}) /\ (job[j].status # "absent" => job'[j] = WithCompleted(w)[j])
      <4>1. PICK t \in [JobIds -> Jobs] :
               /\ t = WithCompleted(w) /\ job' = WithJob(t, (to + 1)..(to + Batch))
               /\ \A i \in JobIds :
                    \/ t[i] = job[i]
                    \/ /\ i \in {j} /\ job[i].status \in Existing /\ t[i].status \in Existing
                       /\ t[i].from = job[i].from /\ t[i].to = job[i].to
        BY <1>7, <3>2
      <4>2. JobStep({j}) /\ \A i \in JobIds : job[i].status # "absent" => job'[i] = t[i]
        BY <1>1, <1>5, <1>6, <3>1, <3>3, <4>1, QueuedStep
      <4> QED BY <1>2, <4>1, <4>2
    <3> QED BY <1>2, <3>4 DEF Stands
  <2> QED BY <2>1, <2>2
<1> QED BY <1>1, <1>2, <1>3, <1>5, <1>6, <1>7, <1>8

\* A job is committed with what it has written, and its scheduler goes on or takes it
\* for a failure.
LEMMA CommitInv ==
  ASSUME IInv, NEW w \in Workers, Commit(w) \/ CommitRaises(w)
  PROVE  IInv' /\ Owned
<1>1. PICK q, j, to : /\ q \in Schedulers /\ q = worker[w] /\ j = q.job /\ to = q.row.to
                      /\ WorkerOK(q) /\ Apart(bot, q)
  BY Facts
<1>2. /\ Committing(w) /\ Committed(w) /\ q.pc = "commit" /\ cursor' = to
      /\ learned' = Visible(w)
      /\ UNCHANGED <<events, bot, told, overlap, resets, crashes>>
  BY <1>1 DEF Commit, CommitRaises, Committing, Committed, excuses
<1>3. /\ j \in JobIds /\ Stands(j, "running") /\ JobStep({j}) /\ done \subseteq done'
      /\ done' \subseteq 1..MaxEvents /\ Covered(to)' /\ (Calm => to >= forgotten)
      /\ job'[j].status \in {"completed", "deleted"} \/ j \in Excused
  BY <1>1, <1>2, CommittedJobs
<1>4. /\ unsure \subseteq unsure' /\ unsure' \subseteq JobIds
      /\ \/ Turn(w, NextJob(w))
         \/ Turn(w, RolledBack(w)) /\ j \in Excused'
  BY <1>1, <1>3, Facts DEF Commit, CommitRaises, excuses, Excused
<1>5. PICK r \in Schedulers : /\ Turn(w, r) /\ r.queue = q.queue /\ r.wrote = {}
                              /\ \/ r.job = 0 /\ r.pc \in {"idle", "next"}
                                 \/ r.job = j /\ r.pc = "fail" /\ j \in Excused'
                              /\ r.pc = "next" => r.queue # {}
  <2>1. CASE Turn(w, NextJob(w))
    BY <1>1, <2>1, Fields, OnwardIs DEF NextJob
  <2>2. CASE Turn(w, RolledBack(w)) /\ j \in Excused'
    BY <1>1, <2>2, RolledBackIs
  <2> QED BY <1>4, <2>1, <2>2
<1>6. /\ worker' \in [Workers -> Schedulers] /\ worker'[w] = r
      /\ \A v \in Workers \ {w} : worker'[v] = worker[v]
  BY <1>5, Facts, TurnOf
<1>7. /\ Calm' = Calm /\ forgotten' = forgotten /\ erased' = erased /\ forgotten <= events
      /\ \A n \in Nat : Covered(n) => Covered(n)'
      /\ \A i \in JobIds : JobOK(i)'
      /\ Visible(w) \in SUBSET Memories
  BY <1>2, <1>3, JobsKept, Facts, VisibleOK DEF told
<1>8. TypeOK'
  <2>1. /\ worker' \in [Workers -> Schedulers] /\ job' \in [JobIds -> Jobs] /\ TypeOK
        /\ cursor' \in 0..MaxEvents /\ learned' \subseteq Memories
    BY <1>1, <1>2, <1>3, <1>6, <1>7, Fields DEF IInv, JobStep
  <2> QED BY <1>2, <1>3, <1>4, <1>7, <2>1, Types DEF TypeOK, Schedulers, Working, Merging
<1>9. Stands(j, "completed")'
  BY <1>3, <1>4, <1>2 DEF Stands, Excused, JobStep, Existing, Active
<1>10. DataInv'
  <2>1. ASSUME NEW m \in Visible(w) PROVE MemoryOK(m)'
    <3>1. m.id \notin erased /\ (Calm => m.from > forgotten)
      BY VisibleOK
    <3>2. Stands(m.job, "completed")'
      <4>1. CASE m.job = j
        BY <1>9, <4>1
      <4>2. CASE m.job # j
        <5>1. MemoryOK(m) /\ m.job \in JobIds
          BY <1>1, <4>2, Facts DEF Visible, WorkerOK, Memories
        <5> QED BY <1>2, <1>3, <1>4, <4>2, <5>1, StandsKept DEF MemoryOK
      <4> QED BY <4>1, <4>2
    <3> QED BY <1>7, <3>1, <3>2 DEF MemoryOK
  <2>2. Covered(cursor)'
    BY <1>2, <1>3 DEF Covered
  <2> QED BY <1>2, <1>3, <1>7, <2>1, <2>2 DEF DataInv
<1>11. WorkerOK(r)'
  <2>1. \A i \in q.queue : i # j
    BY <1>1, <1>2 DEF WorkerOK, Working, Merging
  <2>2. \A i \in r.queue : Stands(i, "pending")'
    BY <1>1, <1>2, <1>3, <1>4, <1>5, <2>1, QueueKept
  <2>3. r.pc = "fail" => Stands(j, "running")'
    BY <1>5, <1>9 DEF Stands
  <2> QED BY <1>3, <1>5, <2>1, <2>2, <2>3 DEF WorkerOK, Working, Merging
<1>12. (\A v \in Workers \ {w} : WorkerOK(worker[v])') /\ PairsOK'
  <2>1. r.queue \cup {r.job} \subseteq Held(w) \cup {0} /\ j \in Held(w)
    BY <1>1, <1>5 DEF Held
  <2> QED BY <1>2, <1>3, <1>4, <1>5, <2>1, OthersKept
<1>13. ASSUME NEW v \in Workers PROVE WorkerOK(worker[v])' /\ Apart(bot, worker[v])'
  <2>1. CASE v = w
    BY <1>2, <1>5, <1>6, <1>11, <2>1 DEF WorkerOK, Apart, Ids
  <2>2. CASE v # w
    BY <1>2, <1>6, <1>12, <2>2, Facts DEF Apart
  <2> QED BY <2>1, <2>2
<1>14. BotOK(bot)'
  <2>1. BotOK(bot) /\ bot' = bot
    BY <1>2, Facts
  <2>2. bot.pc \in {"active", "list"} => Covered(bot.cursor)' /\ (Calm' => bot.cursor >= forgotten')
    <3>1. PICK c \in Nat : c = bot.cursor
      BY Facts DEF Bots
    <3> QED BY <1>2, <1>7, <2>1, <3>1 DEF BotOK, Covered
  <2>3. ASSUME bot.pc = "reset" PROVE bot.doomed = {m \in learned' : m.id \in Ids(bot.doomed)}
    <3>1. /\ bot.doomed = {m \in learned : m.id \in Ids(bot.doomed)}
          /\ Ids(bot.doomed) \cap Ids(q.wrote) = {}
      BY <1>1, <2>1, <2>3 DEF BotOK, Apart
    <3>2. \A m \in q.wrote : m.id \in Ids(q.wrote)
      BY DEF Ids
    <3>3. \A m : m \in learned' /\ m.id \in Ids(bot.doomed)
                 <=> m \in learned /\ m.id \in Ids(bot.doomed)
      BY <1>1, <1>2, <3>1, <3>2 DEF Visible
    <3> QED BY <3>1, <3>3
  <2> QED BY <2>1, <2>2, <2>3 DEF BotOK
<1> QED BY <1>3, <1>7, <1>8, <1>10, <1>12, <1>13, <1>14 DEF IInv, Owned

-----------------------------------------------------------------------------
(* The inductive invariant and what follows from it *)

\* The invariant holds at first.
LEMMA InitInv == Init => IInv
<1> SUFFICES ASSUME Init PROVE IInv
  OBVIOUS
<1>1. bot \in Bots /\ BotOK(bot) /\ \A r : Apart(bot, r)
  BY IdleBot DEF Init
<1>2. NoJob \in Jobs /\ NoJob.status = "absent"
  BY Constants DEF NoJob, Jobs
<1>3. /\ WorkerIdle \in Schedulers /\ WorkerIdle.queue = {} /\ WorkerIdle.job = 0
      /\ WorkerIdle.wrote = {} /\ WorkerIdle.pc = "idle"
  BY <1>2, Constants DEF WorkerIdle, Schedulers
<1>4. TypeOK
  BY <1>1, <1>2, <1>3, Types, Constants DEF Init
<1>5. \A w \in Workers : WorkerOK(worker[w]) /\ Apart(bot, worker[w])
  BY <1>1, <1>3 DEF Init, WorkerOK, Working, Merging
<1>6. DataInv /\ \A j \in JobIds : JobOK(j)
  BY <1>2 DEF Init, DataInv, JobOK, Covered
<1>7. PairsOK
  BY <1>3, Constants DEF Init, PairsOK, Held
<1> QED BY <1>1, <1>4, <1>5, <1>6, <1>7 DEF IInv

\* A turn of a scheduler keeps the invariant.
LEMMA TurnInv ==
  ASSUME IInv, NEW w \in Workers, WorkerStep(w) \/ Fault(w)
  PROVE  IInv'
<1>1. CASE Raise(w)
  <2>1. worker[w].pc \in Working
    BY <1>1 DEF Raise, Working, Merging
  <2> QED BY <1>1, <2>1, RaiseInv DEF Raise
<1>2. CASE WorkerStep(w)
  BY <1>2, ListInv, MarkRunningInv, LoadInv, ReadNearestInv, DecideInv, ConcludeInv, CommitInv,
     ReadFailedInv, RecordFailureInv DEF WorkerStep
<1>3. CASE CommitRaises(w) \/ Crash(w)
  BY <1>3, CommitInv, CrashInv
<1> QED BY <1>1, <1>2, <1>3 DEF Fault

\* Every step keeps the invariant.
LEMMA NextInv == IInv /\ [Next]_vars => IInv'
<1> SUFFICES ASSUME IInv, [Next]_vars PROVE IInv'
  OBVIOUS
<1>1. CASE UNCHANGED vars
  <2>1. /\ UNCHANGED <<events, cursor, job, learned, bot, worker, done, told, excuses, crashes>>
        /\ resets' \in 0..MaxResets
    BY <1>1, Facts DEF vars
  <2> QED BY <2>1, Facts, BotOnly
<1>2. CASE Message \/ (\E i \in MemoryIds : Forget(i)) \/ BeginReset \/ BotStep \/ BotFails
  BY <1>2, MessageInv, ForgetInv, BotStepInv, EnqueueInv, CommitResetInv DEF BotStep
<1>3. CASE \E w \in Workers : WorkerStep(w) \/ Fault(w)
  BY <1>3, TurnInv
<1> QED BY <1>1, <1>2, <1>3 DEF Next, Rest

\* Every job, memory and cursor stands for messages behind which nothing is left out,
\* and of a job that no two schedulers had and whose commit was noticed the status
\* says what was done, however many schedulers there are.
THEOREM MemoryInvariant == Spec => []IInv
<1> QED BY InitInv, NextInv, PTL DEF Spec

\* Nothing the cursor has passed is lost, only completed jobs teach but for the named
\* excuses, and what the user was told is removed does not come back, however many
\* schedulers there are, and whichever of their commits raise though they took effect.
THEOREM FaithfulMemory == Spec => []MemoryIsFaithful
<1>1. ASSUME IInv PROVE NothingSkipped
  BY <1>1 DEF IInv, DataInv, Covered, NothingSkipped
<1>2. ASSUME IInv PROVE OnlyCompletedJobsTeach
  <2>1. TypeOK /\ forgotten \in Nat
    BY <1>2, Facts DEF IInv
  <2>2. ASSUME NEW m \in learned
        PROVE  /\ job[m.job].status \in {"completed", "deleted"} \/ m.job \in Excused
               /\ m.from <= forgotten => \E j \in JobIds : job[j].status = "deleted"
    <3>1. MemoryOK(m) /\ m.from \in Nat
      BY <1>2, Facts DEF Memories
    <3> QED BY <2>1, <3>1 DEF MemoryOK, Stands, Calm
  <2> QED BY <2>1, <2>2 DEF OnlyCompletedJobsTeach
<1>3. ASSUME IInv PROVE ForgottenStays
  BY <1>3, IdsOf, Facts DEF MemoryOK, ForgottenStays
<1>4. IInv => MemoryIsFaithful
  BY <1>1, <1>2, <1>3 DEF MemoryIsFaithful
<1> QED BY <1>4, MemoryInvariant, PTL

\* No action takes up a job that was completed or given up: what a scheduler has
\* listed or holds is pending, running or deleted, or excused.
LEMMA CompletedStepHolds ==
  ASSUME IInv, [Next]_vars, NEW j \in JobIds, job[j].status \in {"completed", "failed"}
  PROVE  job'[j].status \in {job[j].status, "deleted"} \/ j \in Excused'
<1>1. CASE UNCHANGED job
  BY <1>1
<1>2. CASE CommitReset
  BY <1>2, Facts DEF CommitReset, Jobs
<1>3. ASSUME NEW J, JobStep(J), j \notin J PROVE job'[j].status = job[j].status
  BY <1>3 DEF JobStep
<1>4. CASE Owned
  <2>1. PICK k \in JobIds : JobStep({k}) /\ (Stands(k, "pending") \/ Stands(k, "running"))
    BY <1>4 DEF Owned
  <2>2. CASE k = j
    <3>1. j \in Excused
      BY <2>1, <2>2 DEF Stands
    <3>2. Excused \subseteq Excused'
      BY DEF Next, vars, excuses, Excused, Rest, Message, Forget, BeginReset, BotStep, BotFails,
             ReadCursor, CheckActive, EnqueueIfDue, DeleteLearned, CommitReset, WorkerStep, Fault,
             ListPending, MarkRunning, Load, ReadNearest, AddMemory, UpdateMemory, Skip, Conclude,
             Commit, CommitRaises, Raise, ReadFailed, RecordFailure, Crash
    <3> QED BY <3>1, <3>2
  <2>3. CASE k # j
    BY <1>3, <2>1, <2>3
  <2> QED BY <2>2, <2>3
<1>5. CASE EnqueueIfDue
  BY <1>3, <1>5, EnqueueInv
<1>6. CASE \E w \in Workers : MarkRunning(w) \/ RecordFailure(w) \/ Commit(w) \/ CommitRaises(w)
  BY <1>1, <1>4, <1>6, MarkRunningInv, RecordFailureInv, CommitInv
<1>7. \/ UNCHANGED job \/ EnqueueIfDue \/ CommitReset
      \/ \E w \in Workers : MarkRunning(w) \/ RecordFailure(w) \/ Commit(w) \/ CommitRaises(w)
  BY DEF Next, vars, Rest, Message, Forget, BeginReset, BotStep, BotFails, WorkerStep, Fault, Raise,
         Crash, ReadCursor, CheckActive, DeleteLearned, ListPending, Load, ReadNearest,
         AddMemory, UpdateMemory, Skip, Conclude, ReadFailed
<1> QED BY <1>1, <1>2, <1>5, <1>6, <1>7

\* A job that was completed or given up is not taken up again, unless two schedulers had
\* it or its commit was not noticed.
THEOREM CompletedJobsStay == Spec => CompletedStays
<1>1. IInv /\ [Next]_vars => [CompletedStep]_vars
  BY CompletedStepHolds DEF CompletedStep
<1> QED BY <1>1, MemoryInvariant, PTL DEF Spec, CompletedStays
===============================================================================
