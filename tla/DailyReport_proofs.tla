-------------------------- MODULE DailyReport_proofs --------------------------
(***************************************************************************)
(* Proofs about the daily research report, for any number of schedulers,   *)
(* chunks, attempts and faults.                                            *)
(***************************************************************************)
EXTENDS DailyReport, TLAPS, SequenceTheorems, FiniteSetTheorems

Working(s) == pc[s] \notin {"idle", "locked"}

\* Messages sent that have not been refused.
Total == Len(chat) + Cardinality(net)

ShowsUpTo(n) == \A c \in 1..n : \E i \in DOMAIN chat : chat[i].chunk = c

\* Whoever has left the start holds the lock.
LockInv == \A s \in Schedulers : pc[s] # "idle" => lock = s

\* What Telegram shows and has yet to decide about belongs to the text of the row,
\* and goes no further than the next chunk.
ChatInv ==
  /\ ReportInOrder
  /\ \A i \in DOMAIN chat : chat[i].text = row.meta.text
  /\ IsFiniteSet(net)
  /\ \A m \in net : m.text = row.meta.text /\ ShowsUpTo(m.chunk - 1)

\* The row is never ahead of the chat, and no more than one message for each
\* attempt behind it.
RowInv ==
  /\ row.status = "absent" => row.meta.attempts = 0
  /\ row.status = "completed" => row.meta.sent = Chunks
  /\ begun <= row.meta.attempts /\ texts <= begun
  /\ ShowsUpTo(row.meta.sent)
  /\ Total <= row.meta.sent + begun
  /\ RepeatsAreAccounted

\* What a scheduler works on is what the row holds, except for what it has just
\* failed to commit.
WorkInv(s) ==
  Working(s) =>
    /\ row.status \notin {"absent", "completed"}
    /\ begun >= 1 /\ meta[s].attempts >= 1 /\ meta[s].attempts = row.meta.attempts
    /\ pc[s] # "failed" => row.meta = meta[s]
    /\ pc[s] = "build" /\ NeedsText(meta[s]) => texts < begun
    /\ pc[s] \in {"send", "wait", "checkpoint"} => meta[s].text # 0
    /\ pc[s] \in {"build", "send"} => Total <= meta[s].sent + begun - 1
    /\ pc[s] \in {"wait", "checkpoint"} => NextChunk(meta[s]) <= Chunks
    /\ pc[s] = "checkpoint" => ShowsUpTo(NextChunk(meta[s]))
    /\ pc[s] = "failed" =>
         /\ row.meta.text \in {0, meta[s].text}
         /\ ShowsUpTo(meta[s].sent) /\ Total <= meta[s].sent + begun

IInv == /\ TypeOK
        /\ LockInv
        /\ ChatInv
        /\ RowInv
        /\ \A s \in Schedulers : WorkInv(s)

-----------------------------------------------------------------------------
(* Lemmas *)

\* What the assumption says of each constant.
LEMMA Constants ==
  /\ Chunks \in Nat /\ Chunks > 0 /\ MaxAttempts \in Nat /\ MaxAttempts > 0
  /\ MaxFaults \in Nat /\ "free" \notin Schedulers
BY ReportAssumption DEF ReportAssumption

\* The numbers the invariant adds and compares.
LEMMA Numbers ==
  ASSUME TypeOK, ChatInv
  PROVE  /\ Len(chat) \in Nat /\ Cardinality(net) \in Nat /\ Total \in Nat
         /\ DOMAIN chat = 1..Len(chat)
         /\ begun \in Nat /\ texts \in Nat /\ row.meta \in Metas
         /\ \A m \in Metas : m.attempts \in 0..MaxAttempts /\ m.text \in 0..MaxAttempts
                             /\ m.sent \in 0..Chunks
<1>1. chat \in Seq(Messages) /\ IsFiniteSet(net)
  BY DEF TypeOK, ChatInv
<1>2. Len(chat) \in Nat /\ DOMAIN chat = 1..Len(chat)
  BY <1>1, LenProperties
<1>3. Cardinality(net) \in Nat
  BY <1>1, FS_CardinalityType
<1>4. begun \in Nat /\ texts \in Nat /\ row.meta \in Metas
  BY Constants DEF TypeOK
<1> QED BY <1>2, <1>3, <1>4 DEF Total, Metas

\* The lock keeps the others out.
LEMMA Alone ==
  ASSUME LockInv, NEW s \in Schedulers, pc[s] # "idle", NEW t \in Schedulers, t # s
  PROVE  pc[t] = "idle"
BY DEF LockInv

\* While the lock is free no scheduler is at work.
LEMMA NobodyHoldsIt ==
  ASSUME LockInv, lock = "free", NEW t \in Schedulers
  PROVE  pc[t] = "idle"
BY Constants DEF LockInv

\* Who holds the lock may move on or leave.
LEMMA LockKept ==
  ASSUME TypeOK, LockInv, NEW s \in Schedulers, pc[s] # "idle",
         \/ Leave(s)
         \/ \E p : pc' = [pc EXCEPT ![s] = p] /\ lock' = lock
  PROVE  /\ LockInv'
         /\ \A t \in Schedulers : t # s => pc'[t] = "idle"
<1>1. \A t \in Schedulers : t # s => pc'[t] = "idle"
  BY Alone DEF Leave, TypeOK
<1>2. pc'[s] # "idle" => lock' = s
  BY DEF Leave, TypeOK, LockInv
<1> QED BY <1>1, <1>2 DEF LockInv

\* The chat is not disturbed by a row that keeps its text, or had none.
LEMMA ChatKept ==
  ASSUME TypeOK, ChatInv, UNCHANGED <<chat, net>>,
         row'.meta.text = row.meta.text \/ row.meta.text = 0
  PROVE  ChatInv'
<1>1. CASE row'.meta.text = row.meta.text
  BY <1>1 DEF ChatInv, ReportInOrder, ShowsUpTo
<1>2. CASE row.meta.text = 0
  <2>1. \A m \in net : m.text # 0
    BY Constants DEF TypeOK, Messages
  <2>2. \A i \in DOMAIN chat : chat[i].text # 0
    <3>1. \A i \in DOMAIN chat : chat[i] \in Messages
      BY LenProperties, ElementOfSeq DEF TypeOK
    <3> QED BY <3>1, Constants DEF Messages
  <2>3. net = {} /\ DOMAIN chat = {}
    BY <1>2, <2>1, <2>2 DEF ChatInv
  <2> QED BY <2>3 DEF ChatInv, ReportInOrder
<1> QED BY <1>1, <1>2

\* A step that leaves Telegram alone is right if the row is, and its scheduler.
LEMMA StepInv ==
  ASSUME IInv, TypeOK', NEW s \in Schedulers, pc[s] # "idle", UNCHANGED <<net, chat>>,
         \/ Leave(s)
         \/ \E p : pc' = [pc EXCEPT ![s] = p] /\ lock' = lock,
         row'.meta.text = row.meta.text \/ row.meta.text = 0,
         RowInv', WorkInv(s)'
  PROVE  IInv'
<1>1. LockInv' /\ \A t \in Schedulers : t # s => pc'[t] = "idle"
  BY LockKept DEF IInv
<1>2. ChatInv'
  BY ChatKept DEF IInv
<1>3. \A t \in Schedulers : WorkInv(t)'
  BY <1>1 DEF WorkInv, Working
<1> QED BY <1>1, <1>2, <1>3 DEF IInv

-----------------------------------------------------------------------------
(* Types *)

RowType == [status : {"absent", "running", "failed", "completed"}, meta : Metas]

\* A commit, failed or not, leaves the row as it was or as it was to be.
LEMMA CommitType ==
  ASSUME TypeOK, NEW new \in RowType, (row' = new /\ UNCHANGED faults) \/ CommitFails(new)
  PROVE  row' \in {row, new} /\ row' \in RowType /\ faults' \in 0..MaxFaults
BY Constants DEF TypeOK, CommitFails, RowType

\* An attempt that is due is within the bound.
LEMMA AttemptedType ==
  ASSUME IInv, Due
  PROVE  /\ Attempted \in RowType /\ begun + 1 <= MaxAttempts
         /\ Attempted.status = IF row.status = "absent" THEN "running" ELSE row.status
         /\ Attempted.meta.attempts = row.meta.attempts + 1
         /\ Attempted.meta.text = row.meta.text /\ Attempted.meta.sent = row.meta.sent
<1>1. row \in RowType /\ row.meta \in Metas
  BY DEF IInv, TypeOK, RowType
<1>2. row.meta.attempts + 1 \in 0..MaxAttempts
  BY <1>1, Constants DEF IInv, RowInv, Due, Metas
<1>3. begun \in Nat /\ begun <= row.meta.attempts
  BY Constants DEF IInv, RowInv, TypeOK
<1> QED BY <1>1, <1>2, <1>3, Constants DEF Attempted, Counted, RowType, Metas

\* A move of a scheduler has its type.
LEMMA PlaceType ==
  ASSUME TypeOK, NEW s \in Schedulers
  PROVE  /\ Leave(s) => /\ pc' = [pc EXCEPT ![s] = "idle"]
                        /\ pc' \in [Schedulers -> {"idle", "locked", "build", "send", "wait",
                                                  "checkpoint", "failed"}]
                        /\ lock' \in Schedulers \cup {"free"}
         /\ \A p \in {"build", "send", "wait", "checkpoint", "failed"} :
              GoTo(s, p) => /\ pc' \in [Schedulers -> {"idle", "locked", "build", "send", "wait",
                                                      "checkpoint", "failed"}]
                            /\ lock' \in Schedulers \cup {"free"}
BY DEF TypeOK, Leave, GoTo

\* Every step keeps the types.
LEMMA TypesNext == ASSUME IInv, [Next]_vars PROVE TypeOK'
<1>0. TypeOK /\ RowInv
  BY DEF IInv
<1> USE Constants, <1>0
<1>1. ASSUME NEW s \in Schedulers, Lock(s) PROVE TypeOK'
  BY <1>1 DEF Lock, TypeOK
<1>2. ASSUME NEW s \in Schedulers,
             NotDue(s) \/ BuildFails(s) \/ Acknowledged(s) \/ AnswerLost(s) \/ Rejected(s)
      PROVE  TypeOK'
  BY <1>2, PlaceType DEF NotDue, BuildFails, Acknowledged, AnswerLost, Rejected, TypeOK
<1>3. ASSUME NEW s \in Schedulers, BeginAttempt(s) PROVE TypeOK'
  <2>1. row' \in RowType /\ meta' \in [Schedulers -> Metas] /\ begun' \in 0..MaxAttempts
    BY <1>3, AttemptedType DEF BeginAttempt, TypeOK, RowType
  <2> QED BY <1>3, <2>1 DEF BeginAttempt, LockAfterCommit, TypeOK, RowType
<1>4. ASSUME NEW s \in Schedulers, BeginFails(s) PROVE TypeOK'
  <2>1. row' \in RowType /\ faults' \in 0..MaxFaults
    BY <1>4, AttemptedType, CommitType DEF BeginFails
  <2> QED BY <1>4, <2>1, PlaceType DEF BeginFails, TypeOK, RowType
<1>5. ASSUME NEW s \in Schedulers, Build(s) PROVE TypeOK'
  <2>1. CASE NeedsText(meta[s])
    <3>1. texts + 1 \in 0..MaxAttempts
      BY <1>5, <2>1 DEF Build, IInv, WorkInv, Working, RowInv, TypeOK
    <3>2. meta' = [meta EXCEPT ![s].text = texts + 1] /\ texts' = texts + 1
      BY <1>5, <2>1 DEF Build
    <3>3. meta' \in [Schedulers -> Metas]
      BY <3>1, <3>2 DEF TypeOK, Metas
    <3>4. [row EXCEPT !.meta = meta'[s]] \in RowType
      BY <3>3 DEF TypeOK, RowType
    <3>5. row' \in RowType /\ faults' \in 0..MaxFaults
      BY <1>5, <2>1, <3>4, CommitType DEF Build
    <3>6. GoTo(s, "send") \/ GoTo(s, "failed")
      BY <1>5, <2>1 DEF Build
    <3> QED BY <1>5, <3>1, <3>2, <3>3, <3>5, <3>6, PlaceType DEF Build, TypeOK, RowType
  <2>2. CASE ~NeedsText(meta[s])
    BY <1>5, <2>2, PlaceType DEF Build, TypeOK
  <2> QED BY <2>1, <2>2
<1>6. ASSUME NEW s \in Schedulers, Send(s) PROVE TypeOK'
  <2>1. meta[s] \in Metas /\ meta[s].attempts >= 1 /\ meta[s].text # 0
        /\ NextChunk(meta[s]) <= Chunks
    BY <1>6 DEF Send, IInv, WorkInv, Working, TypeOK
  <2>2. Message(s) \in Messages
    BY <2>1 DEF Message, NextChunk, Messages, Metas
  <2> QED BY <1>6, <2>2, PlaceType DEF Send, TypeOK
<1>7. ASSUME NEW m \in net, chat' = Append(chat, m) PROVE chat' \in Seq(Messages)
  BY <1>7, AppendProperties DEF TypeOK
<1>8. CASE Accept \/ Drop \/ Wait \/ Midnight \/ AnotherDay
  BY <1>7, <1>8 DEF Accept, Drop, Wait, Midnight, AnotherDay, vars, TypeOK
<1>9. ASSUME NEW s \in Schedulers, Checkpoint(s) PROVE TypeOK'
  <2>1. meta[s] \in Metas /\ NextChunk(meta[s]) <= Chunks /\ meta' = [meta EXCEPT ![s] = Progress(@)]
    BY <1>9 DEF Checkpoint, IInv, WorkInv, Working, TypeOK
  <2>2. Progress(meta[s]) \in Metas
    BY <2>1 DEF Progress, NextChunk, Metas
  <2>3. meta' \in [Schedulers -> Metas] /\ [row EXCEPT !.meta = meta'[s]] \in RowType
    BY <2>1, <2>2 DEF TypeOK, RowType
  <2>4. row' \in RowType /\ faults' \in 0..MaxFaults /\ (GoTo(s, "send") \/ GoTo(s, "failed"))
    BY <1>9, <2>3, CommitType DEF Checkpoint
  <2> QED BY <1>9, <2>3, <2>4, PlaceType DEF Checkpoint, TypeOK, RowType
<1>10. ASSUME NEW s \in Schedulers, Conclude(s) \/ RecordFailure(s) PROVE TypeOK'
  <2>1. /\ [status |-> "completed", meta |-> meta[s]] \in RowType
        /\ [status |-> "failed", meta |-> meta[s]] \in RowType
    BY DEF TypeOK, RowType
  <2>2. row' \in RowType /\ faults' \in 0..MaxFaults
    BY <1>10, <2>1, CommitType DEF Conclude, RecordFailure
  <2> QED BY <1>10, <2>2, PlaceType DEF Conclude, RecordFailure, TypeOK, RowType
<1>11. ASSUME NEW s \in Schedulers, Crash(s) PROVE TypeOK'
  BY <1>11, PlaceType DEF Crash, TypeOK
<1>12. CASE UNCHANGED vars
  BY <1>12 DEF vars, TypeOK
<1> QED BY <1>1, <1>2, <1>3, <1>4, <1>5, <1>6, <1>8, <1>9, <1>10, <1>11, <1>12
       DEF Next, Step, Fault

-----------------------------------------------------------------------------
(* The steps *)

\* A chat that does not change shows what it showed, and the row that is not
\* written stays sound.
LEMMA SameChat ==
  ASSUME UNCHANGED <<net, chat>>
  PROVE  UNCHANGED Total /\ \A n : ShowsUpTo(n) => ShowsUpTo(n)'
BY DEF Total, ShowsUpTo

\* A step that leaves row, requests and chat alone keeps what they agree on.
LEMMA RowKept ==
  ASSUME RowInv, UNCHANGED <<row, net, chat, texts, begun>>
  PROVE  RowInv'
BY SameChat DEF RowInv, RepeatsAreAccounted

\* Taking the lock keeps the invariant.
LEMMA LockStep ==
  ASSUME IInv, TypeOK', NEW s \in Schedulers, Lock(s)
  PROVE  IInv'
<1>1. \A t \in Schedulers : t # s => pc'[t] = "idle"
  BY NobodyHoldsIt DEF Lock, IInv, TypeOK
<1>2. pc'[s] = "locked" /\ lock' = s
  BY DEF Lock, IInv, TypeOK
<1>3. ChatInv' /\ RowInv'
  BY ChatKept, RowKept DEF Lock, IInv
<1> QED BY <1>1, <1>2, <1>3 DEF IInv, LockInv, WorkInv, Working

\* A call that ends without a word to the row, by itself or with its process.
LEMMA LeaveStep ==
  ASSUME IInv, TypeOK', NEW s \in Schedulers, NotDue(s) \/ Crash(s)
  PROVE  IInv'
<1>1. pc[s] # "idle" /\ Leave(s) /\ UNCHANGED <<row, net, chat, texts, begun>>
  BY DEF NotDue, Crash
<1>2. pc'[s] = "idle"
  BY <1>1 DEF Leave, IInv, TypeOK
<1> QED BY <1>1, <1>2, RowKept, StepInv DEF IInv, WorkInv, Working

\* BeginFails keeps the invariant.
LEMMA BeginFailsStep ==
  ASSUME IInv, TypeOK', NEW s \in Schedulers, BeginFails(s)
  PROVE  IInv'
<1>1. pc[s] # "idle" /\ Due /\ Leave(s) /\ row' \in {row, Attempted}
      /\ UNCHANGED <<net, chat, texts, begun>>
  BY DEF BeginFails, CommitFails
<1>2. pc'[s] = "idle"
  BY <1>1 DEF Leave, IInv, TypeOK
<1>3. RowInv'
  <2>1. RowInv /\ Total \in Nat /\ begun \in Nat /\ texts \in Nat /\ row.meta.attempts \in Nat
        /\ UNCHANGED Total
    BY <1>1, Numbers, SameChat, Constants DEF IInv
  <2>2. /\ row'.status = row.status \/ (row.status = "absent" /\ row'.status = "running")
        /\ row'.meta.attempts \in {row.meta.attempts, row.meta.attempts + 1}
        /\ row'.meta.text = row.meta.text /\ row'.meta.sent = row.meta.sent
    BY <1>1, AttemptedType
  <2>3. row'.status # "completed" /\ (row'.status = "absent" => row'.meta.attempts = 0)
    <3>1. CASE row' = row
      BY <1>1, <2>1, <3>1 DEF RowInv, Due
    <3>2. CASE row' = Attempted
      BY <1>1, <3>2, AttemptedType DEF Due
    <3> QED BY <1>1, <3>1, <3>2
  <2>4. ShowsUpTo(row.meta.sent)'
    <3>1. chat' = chat /\ ShowsUpTo(row.meta.sent)
      BY <1>1, <2>1 DEF RowInv
    <3> QED BY <2>2, <3>1 DEF ShowsUpTo
  <2>5. RepeatsAreAccounted'
    BY <1>1, <2>1 DEF RowInv, RepeatsAreAccounted
  <2> QED BY <1>1, <2>1, <2>2, <2>3, <2>4, <2>5 DEF RowInv
<1>4. row'.meta.text = row.meta.text
  BY <1>1, AttemptedType
<1> QED BY <1>1, <1>2, <1>3, <1>4, StepInv DEF WorkInv, Working

\* Begin keeps the invariant.
LEMMA BeginStep ==
  ASSUME IInv, TypeOK', NEW s \in Schedulers, BeginAttempt(s)
  PROVE  IInv'
<1>1. /\ pc[s] # "idle" /\ Due /\ row' = Attempted /\ begun' = begun + 1
      /\ pc' = [pc EXCEPT ![s] = "build"] /\ lock' = lock
      /\ meta' = [meta EXCEPT ![s] = Attempted.meta]
      /\ UNCHANGED <<net, chat, texts>>
  BY DEF BeginAttempt, LockAfterCommit
<1>2. pc'[s] = "build" /\ meta'[s] = row'.meta
  BY <1>1 DEF IInv, TypeOK
<1>3. /\ row'.status \notin {"absent", "completed"}
      /\ row'.meta.attempts = row.meta.attempts + 1 /\ row'.meta.attempts >= 1
      /\ row'.meta.text = row.meta.text /\ row'.meta.sent = row.meta.sent
  BY <1>1, AttemptedType, Numbers, Constants DEF Due, IInv, TypeOK
<1>4. RowInv'
  <2>1. RowInv /\ Total \in Nat /\ begun \in Nat /\ texts \in Nat /\ row.meta.sent \in Nat
        /\ row.meta.attempts \in Nat /\ UNCHANGED Total
    BY <1>1, Numbers, SameChat, Constants DEF IInv
  <2>2. ShowsUpTo(row.meta.sent)'
    BY <1>1, <1>3, <2>1, SameChat DEF RowInv
  <2>3. RepeatsAreAccounted'
    BY <1>1, <2>1, Constants DEF RowInv, RepeatsAreAccounted, Total
  <2> QED BY <1>1, <1>3, <2>1, <2>2, <2>3 DEF RowInv
<1>5. WorkInv(s)'
  <2>1. Total' <= meta'[s].sent + begun' - 1 /\ texts' < begun' /\ begun' >= 1
    <3>1. Total' = Total /\ row'.meta.sent = row.meta.sent /\ begun' = begun + 1
          /\ texts' = texts
      BY <1>1, <1>3, SameChat
    <3>2. Total <= row.meta.sent + begun /\ texts <= begun
      BY DEF IInv, RowInv
    <3>3. Total \in Nat /\ begun \in Nat /\ texts \in Nat /\ row.meta.sent \in Nat
      BY Numbers, Constants DEF IInv
    <3> QED BY <1>2, <3>1, <3>2, <3>3
  <2> QED BY <1>2, <1>3, <2>1 DEF WorkInv
<1> QED BY <1>1, <1>3, <1>4, <1>5, StepInv

\* A move between two commits.
LEMMA MoveStep ==
  ASSUME IInv, TypeOK', NEW s \in Schedulers,
         BuildFails(s) \/ Acknowledged(s) \/ AnswerLost(s)
  PROVE  IInv'
<1>1. pc[s] \in {"build", "wait"} /\ UNCHANGED <<row, meta, net, chat, texts, begun>>
  BY DEF BuildFails, Acknowledged, AnswerLost
<1>2. PICK p \in {"failed", "checkpoint"} : GoTo(s, p) /\ (p = "checkpoint" => Acknowledged(s))
  BY DEF BuildFails, Acknowledged, AnswerLost
<1>3. WorkInv(s)'
  <2>1. WorkInv(s) /\ pc'[s] = p /\ TypeOK /\ RowInv /\ meta[s] \in Metas
    BY <1>1, <1>2 DEF GoTo, IInv, TypeOK
  <2>2. p = "checkpoint" => ShowsUpTo(NextChunk(meta[s]))' /\ pc[s] = "wait"
    <3> SUFFICES ASSUME p = "checkpoint"
                 PROVE  ShowsUpTo(NextChunk(meta[s]))' /\ pc[s] = "wait"
      OBVIOUS
    <3>1. pc[s] = "wait" /\ Shown(Message(s))
      BY <1>2 DEF Acknowledged
    <3>2. \E i \in DOMAIN chat : chat[i].chunk = NextChunk(meta[s])
      BY <3>1 DEF Shown, Message
    <3>3. ShowsUpTo(meta[s].sent) /\ meta[s].sent \in Nat
      BY <2>1, <3>1, Constants DEF WorkInv, Working, RowInv, Metas
    <3>4. ShowsUpTo(NextChunk(meta[s]))
      BY <3>2, <3>3 DEF ShowsUpTo, NextChunk
    <3> QED BY <1>1, <3>1, <3>4 DEF ShowsUpTo
  <2>3. p = "failed" => /\ row.meta = meta[s] /\ ShowsUpTo(meta[s].sent)'
                        /\ Total' <= meta[s].sent + begun
    BY <1>1, <2>1, SameChat DEF WorkInv, Working, RowInv
  <2> QED BY <1>1, <2>1, <2>2, <2>3 DEF WorkInv, Working
<1> QED BY <1>1, <1>2, <1>3, RowKept, StepInv DEF IInv, GoTo

\* The text is new only while nothing of another one can have been sent.
LEMMA BuildStep ==
  ASSUME IInv, TypeOK', NEW s \in Schedulers, Build(s)
  PROVE  IInv'
<1>1. /\ pc[s] = "build" /\ WorkInv(s) /\ Working(s) /\ row.meta = meta[s] /\ RowInv /\ TypeOK
      /\ UNCHANGED <<net, chat, begun>> /\ meta[s] \in Metas
  BY DEF Build, IInv, WorkInv, Working, TypeOK
<1>2. CASE ~NeedsText(meta[s])
  <2>1. GoTo(s, "send") /\ UNCHANGED <<row, meta, texts>>
    BY <1>2 DEF Build
  <2>2. pc'[s] = "send"
    BY <1>1, <2>1 DEF GoTo, TypeOK
  <2>3. WorkInv(s)'
    BY <1>1, <1>2, <2>1, <2>2, SameChat DEF WorkInv, Working, NeedsText
  <2> QED BY <1>1, <2>1, <2>3, RowKept, StepInv DEF GoTo
<1>3. CASE NeedsText(meta[s])
  <2> DEFINE new == [row EXCEPT !.meta = meta'[s]]
  <2>1. /\ texts' = texts + 1 /\ meta'[s] = [meta[s] EXCEPT !.text = texts + 1]
        /\ row' \in {row, new} /\ ((GoTo(s, "send") /\ row' = new) \/ GoTo(s, "failed"))
    BY <1>1, <1>3 DEF Build, CommitFails, TypeOK
  <2>2. /\ new.meta = meta'[s] /\ new.status = row.status
        /\ meta'[s].sent = row.meta.sent /\ meta'[s].attempts = row.meta.attempts
        /\ meta'[s].text = texts + 1 /\ texts \in Nat
    BY <1>1, <2>1, Constants DEF TypeOK, Metas
  <2>3. /\ row.meta.text = 0 /\ row'.status = row.status /\ row'.meta.sent = row.meta.sent
        /\ row'.meta.attempts = row.meta.attempts /\ row'.meta.text \in {0, texts + 1}
    BY <1>1, <1>3, <2>1, <2>2 DEF NeedsText
  <2>4. /\ begun \in Nat /\ texts + 1 <= begun /\ UNCHANGED Total /\ Total \in Nat
        /\ row.meta.sent \in Nat
    BY <1>1, <1>3, <2>2, Numbers, SameChat, Constants DEF WorkInv, IInv, Metas
  <2>5. RowInv'
    BY <1>1, <2>1, <2>3, <2>4, SameChat DEF RowInv, RepeatsAreAccounted
  <2>6. pc'[s] \in {"send", "failed"} /\ (pc'[s] = "send" => row' = new)
    BY <1>1, <2>1 DEF GoTo, TypeOK
  <2>7. ShowsUpTo(meta[s].sent)'
    BY <1>1, <2>2, <2>3, <2>5 DEF RowInv
  <2>8. /\ Total' <= meta'[s].sent + begun' - 1 /\ Total' <= meta'[s].sent + begun'
        /\ meta'[s].text # 0
    BY <1>1, <2>2, <2>4 DEF WorkInv
  <2>9. WorkInv(s)'
    <3> HIDE DEF new
    <3> QED BY <1>1, <2>2, <2>3, <2>6, <2>7, <2>8 DEF WorkInv, Working
  <2> QED BY <1>1, <2>1, <2>3, <2>5, <2>9, StepInv DEF GoTo
<1> QED BY <1>2, <1>3

\* A chunk that is shown is counted, in the row or at least in memory.
LEMMA CheckpointStep ==
  ASSUME IInv, TypeOK', NEW s \in Schedulers, Checkpoint(s)
  PROVE  IInv'
<1>1. /\ pc[s] = "checkpoint" /\ WorkInv(s) /\ Working(s) /\ row.meta = meta[s] /\ RowInv
      /\ TypeOK /\ UNCHANGED <<net, chat, begun, texts>> /\ meta[s] \in Metas
  BY DEF Checkpoint, IInv, WorkInv, Working, TypeOK
<1> DEFINE new == [row EXCEPT !.meta = meta'[s]]
<1>2. /\ meta'[s] = [meta[s] EXCEPT !.sent = @ + 1]
      /\ row' \in {row, new} /\ ((GoTo(s, "send") /\ row' = new) \/ GoTo(s, "failed"))
  BY <1>1 DEF Checkpoint, CommitFails, Progress, TypeOK
<1>3. /\ new.meta = meta'[s] /\ new.status = row.status
      /\ meta'[s].sent = row.meta.sent + 1 /\ meta'[s].attempts = row.meta.attempts
      /\ meta'[s].text = row.meta.text
  BY <1>1, <1>2 DEF TypeOK, Metas
<1>4. /\ row'.status = row.status /\ row'.meta.attempts = row.meta.attempts
      /\ row'.meta.text = row.meta.text /\ row'.meta.sent \in {row.meta.sent, row.meta.sent + 1}
  BY <1>1, <1>2, <1>3
<1>5. /\ begun \in Nat /\ UNCHANGED Total /\ Total \in Nat /\ row.meta.sent \in Nat
      /\ ShowsUpTo(row.meta.sent)' /\ ShowsUpTo(row.meta.sent + 1)
  <2>1. begun \in Nat /\ UNCHANGED Total /\ Total \in Nat /\ row.meta.sent \in Nat
    BY <1>1, Numbers, SameChat, Constants DEF IInv
  <2>2. ShowsUpTo(row.meta.sent)'
    <3>1. chat' = chat /\ ShowsUpTo(row.meta.sent)
      BY <1>1 DEF RowInv
    <3>2. row'.meta.sent = row.meta.sent \/ row'.meta.sent = row.meta.sent + 1
      BY <1>4
    <3>3. ShowsUpTo(row.meta.sent + 1)
      BY <1>1 DEF WorkInv, NextChunk
    <3> QED BY <3>1, <3>2, <3>3 DEF ShowsUpTo
  <2>3. ShowsUpTo(row.meta.sent + 1)
    BY <1>1, <2>1 DEF WorkInv, NextChunk
  <2> QED BY <2>1, <2>2, <2>3
<1>6. RowInv'
  <2>1. RepeatsAreAccounted'
    BY <1>1 DEF RowInv, RepeatsAreAccounted
  <2>2. Total' <= row'.meta.sent + begun'
    BY <1>1, <1>4, <1>5 DEF RowInv
  <2> QED BY <1>1, <1>4, <1>5, <2>1, <2>2 DEF RowInv, WorkInv
<1>7. pc'[s] \in {"send", "failed"} /\ (pc'[s] = "send" => row' = new)
  BY <1>1, <1>2 DEF GoTo, TypeOK
<1>8. ShowsUpTo(meta[s].sent)'
  BY <1>1, <1>3, <1>5, SameChat DEF ShowsUpTo
<1>9. Total' <= meta'[s].sent + begun' - 1 /\ Total' <= meta'[s].sent + begun'
  BY <1>1, <1>3, <1>5 DEF RowInv
<1>10. WorkInv(s)'
  <2> HIDE DEF new
  <2> QED BY <1>1, <1>3, <1>4, <1>7, <1>8, <1>9 DEF WorkInv, Working
<1> QED BY <1>1, <1>2, <1>4, <1>6, <1>10, StepInv DEF GoTo

\* What a scheduler writes last is no more than what it did.
LEMMA LastWriteStep ==
  ASSUME IInv, TypeOK', NEW s \in Schedulers, Conclude(s) \/ RecordFailure(s)
  PROVE  IInv'
<1>1. /\ pc[s] \in {"send", "failed"} /\ WorkInv(s) /\ Working(s) /\ RowInv /\ TypeOK
      /\ UNCHANGED <<net, chat, begun, texts>> /\ Leave(s) /\ meta[s] \in Metas
  BY DEF Conclude, RecordFailure, IInv, WorkInv, Working, TypeOK
<1>2. /\ begun \in Nat /\ UNCHANGED Total /\ Total \in Nat /\ meta[s].sent \in 0..Chunks
  BY <1>1, Numbers, SameChat DEF IInv, Metas
<1>3. PICK st \in {"completed", "failed"} :
        /\ row' \in {row, [status |-> st, meta |-> meta[s]]}
        /\ st = "completed" => meta[s].sent = Chunks
  <2>1. CASE Conclude(s)
    BY <1>2, <2>1, Constants DEF Conclude, CommitFails, NextChunk
  <2>2. CASE RecordFailure(s)
    BY <2>2 DEF RecordFailure, CommitFails
  <2> QED BY <2>1, <2>2
<1>4. /\ ShowsUpTo(meta[s].sent) /\ Total <= meta[s].sent + begun
      /\ meta[s].attempts = row.meta.attempts /\ row.meta.text \in {0, meta[s].text}
  BY <1>1, <1>2, Constants DEF WorkInv, RowInv
<1>5. CASE row' = row
  BY <1>1, <1>5, RowKept, StepInv DEF WorkInv, Working, Leave, TypeOK
<1>6. CASE row' = [status |-> st, meta |-> meta[s]]
  <2>1. /\ row'.status = st /\ row'.meta = meta[s]
    BY <1>6
  <2>2. RepeatsAreAccounted'
    BY <1>1 DEF RowInv, RepeatsAreAccounted
  <2>3. ShowsUpTo(row.meta.sent)'
    BY <1>1, <1>4, <2>1 DEF ShowsUpTo
  <2>4. RowInv'
    BY <1>1, <1>2, <1>3, <1>4, <2>1, <2>2, <2>3 DEF RowInv
  <2>5. WorkInv(s)'
    BY <1>1 DEF WorkInv, Working, Leave, TypeOK
  <2> QED BY <1>1, <1>4, <2>1, <2>4, <2>5, StepInv
<1> QED BY <1>3, <1>5, <1>6

-----------------------------------------------------------------------------
(* Telegram *)

\* A message more, or one less, in the set of those under way.
LEMMA NetSize ==
  ASSUME TypeOK, ChatInv, NEW m
  PROVE  /\ IsFiniteSet(net \cup {m}) /\ Cardinality(net \cup {m}) <= Cardinality(net) + 1
         /\ Cardinality(net \cup {m}) \in Nat
         /\ IsFiniteSet(net \ {m}) /\ Cardinality(net \ {m}) <= Cardinality(net)
         /\ Cardinality(net \ {m}) \in Nat
         /\ m \in net => Cardinality(net \ {m}) = Cardinality(net) - 1
<1>1. IsFiniteSet(net) /\ Cardinality(net) \in Nat
  BY Numbers DEF ChatInv
<1>2. /\ IsFiniteSet(net \cup {m})
      /\ Cardinality(net \cup {m}) = IF m \in net THEN Cardinality(net) ELSE Cardinality(net) + 1
  BY <1>1, FS_AddElement
<1>3. /\ IsFiniteSet(net \ {m})
      /\ Cardinality(net \ {m}) = IF m \in net THEN Cardinality(net) - 1 ELSE Cardinality(net)
  BY <1>1, FS_RemoveElement
<1>4. Cardinality(net \cup {m}) \in Nat /\ Cardinality(net \ {m}) \in Nat
  BY <1>2, <1>3, FS_CardinalityType
<1> QED BY <1>1, <1>2, <1>3, <1>4

\* Chunks become visible and requests disappear while the schedulers look on.
LEMMA TelegramInv ==
  ASSUME IInv, TypeOK', UNCHANGED <<row, pc, lock, meta, texts, begun>>,
         Total' \in Nat, Total' <= Total, \A n : ShowsUpTo(n) => ShowsUpTo(n)', ChatInv'
  PROVE  IInv'
<1>1. Total \in Nat /\ begun \in Nat /\ row.meta.sent \in Nat
  BY Numbers, Constants DEF IInv
<1>2. RowInv'
  <2>1. ShowsUpTo(row.meta.sent)'
    BY DEF IInv, RowInv, ShowsUpTo
  <2> QED BY <1>1, <2>1, Constants DEF IInv, RowInv, RepeatsAreAccounted, Total
<1>3. ASSUME NEW s \in Schedulers PROVE WorkInv(s)'
  <2>1. WorkInv(s) /\ meta[s].sent \in Nat
    BY Numbers, Constants DEF IInv, TypeOK, Metas
  <2>2. /\ ShowsUpTo(NextChunk(meta[s])) => ShowsUpTo(NextChunk(meta[s]))'
        /\ ShowsUpTo(meta[s].sent) => ShowsUpTo(meta[s].sent)'
    BY DEF ShowsUpTo
  <2> QED BY <1>1, <2>1, <2>2 DEF WorkInv, Working
<1> QED BY <1>2, <1>3 DEF IInv, LockInv

\* A message Telegram accepts keeps the invariant.
LEMMA AcceptStep ==
  ASSUME IInv, TypeOK', Accept
  PROVE  IInv'
<1>1. PICK m \in net : net' = net \ {m} /\ chat' = Append(chat, m)
  BY DEF Accept
<1>2. UNCHANGED <<row, pc, lock, meta, texts, begun>> /\ TypeOK /\ ChatInv
  BY DEF Accept, IInv
<1> DEFINE l == Len(chat)
<1>3. l \in Nat /\ Cardinality(net) \in Nat /\ DOMAIN chat = 1..l
  BY <1>2, Numbers
<1>4. /\ Len(chat') = l + 1 /\ DOMAIN chat' = 1..l + 1
      /\ \A i \in 1..l : chat'[i] = chat[i]
      /\ chat'[l + 1] = m
  <2>1. chat \in Seq(Messages) /\ m \in Messages /\ chat' \in Seq(Messages)
    BY <1>1, <1>2 DEF TypeOK
  <2>2. /\ Len(Append(chat, m)) = l + 1 /\ Append(chat, m)[l + 1] = m
        /\ \A i \in 1..l : Append(chat, m)[i] = chat[i]
    BY <2>1, AppendProperties
  <2> QED BY <1>1, <2>1, <2>2, LenProperties
<1> HIDE DEF l
<1>5. Total' = Total /\ Total' \in Nat
  <2>1. Cardinality(net \ {m}) = Cardinality(net) - 1 /\ Cardinality(net \ {m}) \in Nat
    BY <1>1, <1>2, NetSize
  <2> QED BY <1>1, <1>3, <1>4, <2>1 DEF Total, l
<1>6. \A n : ShowsUpTo(n) => ShowsUpTo(n)'
  <2>1. \A i \in DOMAIN chat : i \in DOMAIN chat' /\ chat'[i] = chat[i]
    BY <1>3, <1>4
  <2> QED BY <2>1 DEF ShowsUpTo
<1>7. ChatInv'
  <2>1. m.text = row.meta.text /\ ShowsUpTo(m.chunk - 1) /\ m.chunk \in Nat
    BY <1>1, <1>2, Constants DEF ChatInv, TypeOK, Messages
  <2>2. ReportInOrder'
    <3> SUFFICES ASSUME NEW i \in DOMAIN chat', chat'[i].chunk > 1
                 PROVE  \E j \in 1..(i - 1) : chat'[j].chunk = chat'[i].chunk - 1
      BY DEF ReportInOrder
    <3>1. CASE i \in 1..l
      <4>1. PICK j \in 1..(i - 1) : chat[j].chunk = chat[i].chunk - 1
        BY <1>2, <1>3, <1>4, <3>1 DEF ChatInv, ReportInOrder
      <4>2. j \in 1..l
        BY <1>3, <3>1
      <4> QED BY <1>4, <3>1, <4>1, <4>2
    <3>2. CASE i = l + 1
      <4>1. m.chunk - 1 \in 1..(m.chunk - 1)
        BY <1>4, <2>1, <3>2
      <4>2. PICK j \in 1..l : chat[j].chunk = m.chunk - 1
        BY <1>3, <2>1, <4>1 DEF ShowsUpTo
      <4>3. j \in 1..(i - 1) /\ chat'[j] = chat[j] /\ chat'[i] = m
        BY <1>3, <1>4, <3>2
      <4> QED BY <4>2, <4>3
    <3> QED BY <1>3, <1>4, <3>1, <3>2
  <2>3. \A i \in DOMAIN chat' : chat'[i].text = row.meta.text
    <3> SUFFICES ASSUME NEW i \in DOMAIN chat' PROVE chat'[i].text = row.meta.text
      OBVIOUS
    <3>1. i \in 1..l \/ i = l + 1
      BY <1>3, <1>4
    <3> QED BY <1>2, <1>3, <1>4, <2>1, <3>1 DEF ChatInv
  <2>4. IsFiniteSet(net')
    BY <1>1, <1>2, NetSize
  <2>5. \A k \in net' : k.text = row.meta.text /\ ShowsUpTo(k.chunk - 1)'
    BY <1>1, <1>2, <1>6 DEF ChatInv, ShowsUpTo
  <2> QED BY <1>2, <2>2, <2>3, <2>4, <2>5 DEF ChatInv, ShowsUpTo
<1>8. Total' <= Total
  BY <1>5
<1> QED BY <1>2, <1>5, <1>6, <1>7, <1>8, TelegramInv

\* One message less under way.
LEMMA OneLess ==
  ASSUME IInv, NEW m, net' = net \ {m}, UNCHANGED <<chat, row>>
  PROVE  /\ ChatInv' /\ Total' <= Total /\ Total' \in Nat /\ Total \in Nat
         /\ \A n : ShowsUpTo(n) => ShowsUpTo(n)'
<1>1. TypeOK /\ ChatInv
  BY DEF IInv
<1>2. IsFiniteSet(net') /\ Total' <= Total /\ Total' \in Nat /\ Total \in Nat
  <2>1. /\ IsFiniteSet(net') /\ Cardinality(net') <= Cardinality(net) /\ Cardinality(net') \in Nat
        /\ Cardinality(net) \in Nat /\ Len(chat) \in Nat /\ Len(chat') = Len(chat)
    BY <1>1, NetSize, Numbers
  <2> QED BY <2>1 DEF Total
<1>3. \A n : ShowsUpTo(n) => ShowsUpTo(n)'
  BY DEF ShowsUpTo
<1>4. ChatInv'
  BY <1>1, <1>2 DEF ChatInv, ReportInOrder, ShowsUpTo
<1> QED BY <1>2, <1>3, <1>4

\* Losing a request, waiting and stuttering keep the invariant.
LEMMA QuietStep ==
  ASSUME IInv, TypeOK', Drop \/ Wait \/ Midnight \/ AnotherDay \/ UNCHANGED vars
  PROVE  IInv'
<1>1. UNCHANGED <<row, pc, lock, meta, texts, begun, chat>>
  BY DEF Drop, Wait, Midnight, AnotherDay, vars
<1>2. CASE Drop
  BY <1>1, <1>2, OneLess, TelegramInv DEF Drop
<1>3. CASE Wait \/ Midnight \/ AnotherDay \/ UNCHANGED vars
  <2>1. UNCHANGED net
    BY <1>3 DEF Wait, Midnight, AnotherDay, vars
  <2>2. ChatInv' /\ UNCHANGED Total /\ (\A n : ShowsUpTo(n) => ShowsUpTo(n)') /\ Total \in Nat
    BY <1>1, <2>1, ChatKept, SameChat, Numbers DEF IInv
  <2>3. Total' \in Nat /\ Total' <= Total
    BY <2>2
  <2> QED BY <1>1, <2>2, <2>3, TelegramInv
<1> QED BY <1>2, <1>3

\* The next chunk is sent of the row's text, after those that are shown.
LEMMA SendStep ==
  ASSUME IInv, TypeOK', NEW s \in Schedulers, Send(s)
  PROVE  IInv'
<1>1. /\ pc[s] = "send" /\ WorkInv(s) /\ Working(s) /\ row.meta = meta[s] /\ RowInv /\ TypeOK
      /\ ChatInv /\ UNCHANGED <<row, meta, chat, begun, texts>> /\ meta[s] \in Metas
      /\ NextChunk(meta[s]) <= Chunks /\ net' = net \cup {Message(s)} /\ GoTo(s, "wait")
  BY DEF Send, IInv, WorkInv, Working, TypeOK
<1>2. /\ LockInv' /\ \A t \in Schedulers : t # s => pc'[t] = "idle"
  BY <1>1, LockKept DEF GoTo, IInv
<1>3. \A n : ShowsUpTo(n) => ShowsUpTo(n)'
  BY <1>1 DEF ShowsUpTo
<1>4. meta[s].sent \in Nat /\ Message(s).chunk - 1 = meta[s].sent /\ Message(s).text = meta[s].text
  BY <1>1, Constants DEF Metas, Message, NextChunk
<1>5. ChatInv'
  <2>1. IsFiniteSet(net')
    BY <1>1, NetSize
  <2>2. ShowsUpTo(Message(s).chunk - 1)
    BY <1>1, <1>4 DEF RowInv
  <2>3. \A k \in net' : k.text = row.meta.text /\ ShowsUpTo(k.chunk - 1)
    BY <1>1, <1>4, <2>2 DEF ChatInv
  <2> QED BY <1>1, <2>1, <2>3 DEF ChatInv, ReportInOrder, ShowsUpTo
<1>6. Total' <= Total + 1 /\ Total \in Nat /\ Total' \in Nat /\ begun \in Nat
  <2>1. /\ Cardinality(net') <= Cardinality(net) + 1 /\ Cardinality(net') \in Nat
        /\ Cardinality(net) \in Nat /\ Len(chat) \in Nat /\ Len(chat') = Len(chat)
    BY <1>1, NetSize, Numbers
  <2> QED BY <1>1, <2>1, Numbers DEF Total
<1>7. Total' <= meta[s].sent + begun /\ begun >= 1
  BY <1>1, <1>4, <1>6 DEF WorkInv
<1>8. RowInv'
  <2>1. RepeatsAreAccounted'
    BY <1>1, <1>4, <1>6, <1>7, Constants DEF RepeatsAreAccounted, Total, NextChunk
  <2>2. ShowsUpTo(row.meta.sent)'
    BY <1>1 DEF RowInv, ShowsUpTo
  <2> QED BY <1>1, <1>7, <2>1, <2>2 DEF RowInv
<1>9. WorkInv(s)'
  BY <1>1 DEF WorkInv, Working, GoTo, TypeOK, NextChunk
<1>10. \A t \in Schedulers : WorkInv(t)'
  BY <1>2, <1>9 DEF WorkInv, Working
<1> QED BY <1>2, <1>5, <1>8, <1>10 DEF IInv

\* Rejected keeps the invariant.
LEMMA RejectedStep ==
  ASSUME IInv, TypeOK', NEW s \in Schedulers, Rejected(s)
  PROVE  IInv'
<1>1. /\ pc[s] = "wait" /\ WorkInv(s) /\ Working(s) /\ row.meta = meta[s] /\ RowInv /\ TypeOK
      /\ UNCHANGED <<row, meta, chat, begun, texts>> /\ meta[s] \in Metas
      /\ net' = net \ {Message(s)} /\ GoTo(s, "failed")
  BY DEF Rejected, IInv, WorkInv, Working, TypeOK
<1>2. LockInv' /\ \A t \in Schedulers : t # s => pc'[t] = "idle"
  BY <1>1, LockKept DEF GoTo, IInv
<1>3. /\ ChatInv' /\ Total' <= Total /\ Total' \in Nat /\ Total \in Nat
      /\ ShowsUpTo(row.meta.sent)'
  BY <1>1, OneLess DEF RowInv, ShowsUpTo
<1>4. begun \in Nat /\ row.meta.sent \in Nat
  BY <1>1, Constants DEF TypeOK, Metas
<1>5. RowInv'
  BY <1>1, <1>3, <1>4, Constants DEF RowInv, RepeatsAreAccounted, Total
<1>6. pc'[s] = "failed"
  BY <1>1 DEF GoTo, TypeOK
<1>7. ShowsUpTo(meta[s].sent)' /\ Total' <= meta[s].sent + begun
  BY <1>1, <1>3, <1>4 DEF RowInv, ShowsUpTo
<1>8. WorkInv(s)'
  BY <1>1, <1>6, <1>7 DEF WorkInv, Working
<1>9. \A t \in Schedulers : WorkInv(t)'
  BY <1>2, <1>8 DEF WorkInv, Working
<1> QED BY <1>2, <1>3, <1>5, <1>9 DEF IInv

-----------------------------------------------------------------------------
(* The inductive invariant and what follows from it *)

\* The invariant holds at first.
LEMMA InitInv == Init => IInv
<1> SUFFICES ASSUME Init PROVE IInv
  OBVIOUS
<1>1. NoMeta \in Metas
  BY Constants DEF NoMeta, Metas
<1>2. TypeOK
  <2>1. row \in [status : {"absent", "running", "failed", "completed"}, meta : Metas]
    BY <1>1 DEF Init, NoRow
  <2>2. chat \in Seq(Messages) /\ net \subseteq Messages
    BY EmptySeq DEF Init
  <2>3. texts \in 0..MaxAttempts /\ begun \in 0..MaxAttempts /\ faults \in 0..MaxFaults
    BY Constants DEF Init
  <2>4. /\ pc \in [Schedulers -> {"idle", "locked", "build", "send", "wait", "checkpoint", "failed"}]
        /\ meta \in [Schedulers -> Metas] /\ lock \in Schedulers \cup {"free"}
        /\ rested \in BOOLEAN /\ today \in BOOLEAN
    BY <1>1 DEF Init
  <2> QED BY <2>1, <2>2, <2>3, <2>4 DEF TypeOK
<1>3. Cardinality(net) = 0 /\ IsFiniteSet(net) /\ Len(chat) = 0 /\ DOMAIN chat = {}
  BY FS_EmptySet DEF Init
<1>4. ChatInv
  BY <1>3 DEF Init, ChatInv, ReportInOrder
<1>5. RowInv
  BY <1>3, Constants DEF Init, RowInv, NoRow, NoMeta, ShowsUpTo, Total, RepeatsAreAccounted
<1> QED BY <1>2, <1>4, <1>5 DEF Init, IInv, LockInv, WorkInv, Working

\* Every step keeps the invariant.
LEMMA NextInv == IInv /\ [Next]_vars => IInv'
<1> SUFFICES ASSUME IInv, [Next]_vars PROVE IInv'
  OBVIOUS
<1>1. TypeOK'
  BY TypesNext
<1>2. ASSUME NEW s \in Schedulers, Step(s) PROVE IInv'
  BY <1>1, <1>2, LockStep, LeaveStep, BeginStep, BuildStep, SendStep, MoveStep, CheckpointStep,
     LastWriteStep DEF Step
<1>3. ASSUME NEW s \in Schedulers, Fault(s) PROVE IInv'
  BY <1>1, <1>3, BeginFailsStep, MoveStep, RejectedStep, LeaveStep DEF Fault
<1>4. CASE Accept \/ Drop \/ Wait \/ Midnight \/ AnotherDay \/ UNCHANGED vars
  BY <1>1, <1>4, AcceptStep, QuietStep
<1> QED BY <1>2, <1>3, <1>4 DEF Next

\* The row is never ahead of the chat and at most one message for each attempt
\* behind it, whoever died and whatever commit failed.
THEOREM ReportInvariant == Spec => []IInv
<1> QED BY InitInv, NextInv, PTL DEF Spec

\* No two schedulers are at work, and the chat shows one report, in order, and all
\* of it once the row says completed.
THEOREM OneReport == Spec => []ChatShowsOneReport
<1>1. IInv => ChatShowsOneReport
  <2> SUFFICES ASSUME IInv PROVE ChatShowsOneReport
    OBVIOUS
  <2>1. OneReportAtATime
    BY DEF IInv, LockInv, OneReportAtATime
  <2>2. ReportInOrder /\ OneText
    BY DEF IInv, ChatInv, OneText
  <2>3. ASSUME row.status = "completed"
        PROVE  {chat[i].chunk : i \in DOMAIN chat} = 1..Chunks
    <3>1. \A i \in DOMAIN chat : chat[i] \in Messages
      BY LenProperties, ElementOfSeq DEF IInv, TypeOK
    <3>2. ShowsUpTo(Chunks)
      BY <2>3 DEF IInv, RowInv
    <3> QED BY <3>1, <3>2 DEF Messages, ShowsUpTo
  <2> QED BY <2>1, <2>2, <2>3 DEF ChatShowsOneReport, CompletedIsShown
<1> QED BY <1>1, ReportInvariant, PTL

\* Each attempt after the first repeats at most one chunk, and the row counts every
\* attempt.
THEOREM BoundedRepeats == Spec => []RepeatsAreBounded
<1>1. IInv => RepeatsAreBounded
  BY Constants DEF IInv, RowInv, TypeOK, Metas, RepeatsAreBounded, AttemptsAreBounded
<1> QED BY <1>1, ReportInvariant, PTL

-----------------------------------------------------------------------------
(* The promise of the report *)

\* Nothing is on its way before an attempt was counted.
Early == net # {} => row.meta.attempts > 0

\* The row is given an attempt that is due, or is written by a scheduler at work,
\* which does not count again.
LEMMA RowChange ==
  ASSUME IInv, [Next]_vars
  PROVE  \/ row' = row
         \/ Due /\ row' = Attempted
         \/ row.status # "completed" /\ row'.meta.attempts = row.meta.attempts
<1>1. CASE Accept \/ Drop \/ Wait \/ Midnight \/ AnotherDay \/ UNCHANGED vars
  BY <1>1 DEF Accept, Drop, Wait, Midnight, AnotherDay, vars
<1>2. ASSUME NEW s \in Schedulers,
             \/ Lock(s) \/ NotDue(s) \/ Send(s) \/ Acknowledged(s) \/ BuildFails(s)
             \/ Rejected(s) \/ AnswerLost(s) \/ Crash(s)
      PROVE  row' = row
  BY <1>2 DEF Lock, NotDue, Send, Acknowledged, BuildFails, Rejected, AnswerLost, Crash
<1>3. ASSUME NEW s \in Schedulers, BeginAttempt(s) \/ BeginFails(s)
      PROVE  row' = row \/ (Due /\ row' = Attempted)
  <2>1. CASE BeginAttempt(s)
    BY <2>1 DEF BeginAttempt
  <2>2. CASE BeginFails(s)
    <3>1. Due /\ CommitFails(Attempted)
      BY <2>2 DEF BeginFails
    <3> QED BY <3>1 DEF CommitFails
  <2> QED BY <1>3, <2>1, <2>2
<1>4. ASSUME NEW s \in Schedulers, Working(s)
      PROVE  /\ row.status # "completed" /\ meta[s].attempts = row.meta.attempts
             /\ row.meta \in Metas /\ meta[s] \in Metas
             /\ DOMAIN row = {"status", "meta"}
  BY <1>4 DEF IInv, WorkInv, TypeOK
<1>5. ASSUME NEW s \in Schedulers, Build(s) \/ Checkpoint(s)
      PROVE  row' = row \/ (row.status # "completed" /\ row'.meta.attempts = row.meta.attempts)
  <2>1. Working(s) /\ meta \in [Schedulers -> Metas]
    BY <1>5 DEF Build, Checkpoint, Working, IInv, TypeOK
  <2>2. row' \in {row, [row EXCEPT !.meta = meta'[s]]}
    BY <1>5 DEF Build, Checkpoint, CommitFails
  <2>3. meta'[s].attempts = meta[s].attempts
    BY <1>5, <2>1, <1>4 DEF Build, Checkpoint, Progress, Metas
  <2> QED BY <1>4, <2>1, <2>2, <2>3
<1>6. ASSUME NEW s \in Schedulers, Conclude(s) \/ RecordFailure(s)
      PROVE  row' = row \/ (row.status # "completed" /\ row'.meta.attempts = row.meta.attempts)
  <2>1. Working(s)
    BY <1>6 DEF Conclude, RecordFailure, Working
  <2>2. row' = row \/ row'.meta = meta[s]
    BY <1>6 DEF Conclude, RecordFailure, CommitFails
  <2> QED BY <1>4, <2>1, <2>2
<1> QED BY <1>1, <1>2, <1>3, <1>5, <1>6 DEF Next, Step, Fault

\* The row counts up.
LEMMA CountGrows ==
  ASSUME IInv, [Next]_vars
  PROVE  row.meta.attempts \in Nat /\ row'.meta.attempts \in Nat
         /\ row'.meta.attempts >= row.meta.attempts
<1>1. row.meta.attempts \in Nat
  BY Constants DEF IInv, TypeOK, Metas
<1> QED BY <1>1, RowChange, AttemptedType

\* Only a scheduler at work, whose attempt was counted, puts a message on its way.
LEMMA EarlyNext == IInv /\ Early /\ [Next]_vars => Early'
<1> SUFFICES ASSUME IInv, Early, [Next]_vars PROVE Early'
  OBVIOUS
<1>1. CASE \E s \in Schedulers : Send(s)
  <2>1. PICK s \in Schedulers : Send(s)
    BY <1>1
  <2>2. Working(s) /\ row' = row
    BY <2>1 DEF Send, Working
  <2>3. row.meta.attempts >= 1
    BY <2>2 DEF IInv, WorkInv
  <2> QED BY <2>2, <2>3, CountGrows DEF Early
<1>2. CASE ~\E s \in Schedulers : Send(s)
  <2>1. net' \subseteq net
    BY <1>2 DEF Next, Step, Fault, Lock, NotDue, BeginAttempt, Build, Acknowledged, Checkpoint,
       Conclude, RecordFailure, BeginFails, BuildFails, Rejected, AnswerLost, Crash, Accept,
       Drop, Wait, Midnight, AnotherDay, vars
  <2> QED BY <2>1, CountGrows DEF Early
<1> QED BY <1>1, <1>2

\* A message Telegram accepts continues what the chat shows, within what the
\* attempts may show.
LEMMA ShowStep ==
  ASSUME IInv, Early, Accept
  PROVE  Promise!Next
<1>1. PICK m \in net : chat' = Append(chat, m) /\ row' = row
  BY DEF Accept
<1>2. /\ m.chunk \in 1..Chunks /\ chat \in Seq(Messages) /\ m \in Messages
      /\ row.meta.attempts > 0 /\ ShowsUpTo(m.chunk - 1)
  BY Constants DEF IInv, TypeOK, ChatInv, Messages, Early
<1>3. Len(chat) < Chunks + row.meta.attempts - 1
  <2>1. /\ Len(chat) \in Nat /\ Cardinality(net) \in Nat /\ begun \in Nat
        /\ row.meta.attempts \in Nat /\ begun <= row.meta.attempts
    BY Numbers, CountGrows, Constants DEF IInv, RowInv, TypeOK, Metas
  <2>2. Cardinality(net) > 0
    BY <1>1, <2>1, FS_EmptySet DEF IInv, ChatInv
  <2>3. Len(chat) + Cardinality(net) <= Chunks + (IF begun = 0 THEN 0 ELSE begun - 1)
    BY DEF IInv, RowInv, RepeatsAreAccounted
  <2> QED BY <1>2, <2>1, <2>2, <2>3, Constants
<1>4. Seen \in Seq(1..Chunks) /\ Len(Seen) = Len(chat) /\ DOMAIN Seen = DOMAIN chat
  <2>1. DOMAIN chat = 1..Len(chat) /\ Len(chat) \in Nat
    BY <1>2, LenProperties
  <2>2. \A i \in 1..Len(chat) : chat[i].chunk \in 1..Chunks
    <3>1. \A i \in 1..Len(chat) : chat[i] \in Messages
      BY <1>2, ElementOfSeq
    <3> QED BY <3>1 DEF Messages
  <2>3. Seen \in [1..Len(chat) -> 1..Chunks] /\ DOMAIN Seen = DOMAIN chat
    BY <2>1, <2>2 DEF Seen
  <2>4. Seen \in Seq(1..Chunks)
    BY <2>1, <2>3, SeqDef
  <2> QED BY <2>1, <2>3, <2>4, LenProperties
<1>5. Seen' = Append(Seen, m.chunk)
  BY <1>1, <1>2, <1>4, AppendProperties, LenProperties DEF Seen
<1>6. m.chunk > 1 => \E i \in DOMAIN Seen : Seen[i] = m.chunk - 1
  <2>1. ASSUME m.chunk > 1
        PROVE  \E i \in DOMAIN chat : chat[i].chunk = m.chunk - 1
    <3>1. m.chunk - 1 \in 1..(m.chunk - 1)
      BY <1>2, <2>1, Constants
    <3> QED BY <1>2, <3>1 DEF ShowsUpTo
  <2> QED BY <1>4, <2>1 DEF Seen
<1> QED BY <1>1, <1>2, <1>3, <1>4, <1>5, <1>6 DEF Promise!Next, Promise!Show

\* Whatever the schedulers do is an attempt, the end of the report, or nothing the
\* reader can tell.
LEMMA RowStep ==
  ASSUME IInv, IInv', [Next]_vars, UNCHANGED chat
  PROVE  [Promise!Next]_Promise!promiseVars
<1>1. Seen' = Seen /\ DOMAIN Seen = DOMAIN chat
  BY DEF Seen
<1>2. CASE row' = row
  BY <1>1, <1>2 DEF Promise!promiseVars
<1>3. CASE Due /\ row' = Attempted
  <2>1. /\ row.status # "completed" /\ Attempted.status # "completed"
        /\ Attempted.meta.attempts = row.meta.attempts + 1
    BY <1>3, AttemptedType DEF Due
  <2>2. row.meta.attempts < MaxAttempts
    BY <1>3, Constants DEF Due, IInv, RowInv
  <2> QED BY <1>1, <1>3, <2>1, <2>2 DEF Promise!Next, Promise!Attempt
<1>4. CASE row.status # "completed" /\ row'.meta.attempts = row.meta.attempts
  <2>1. CASE row'.status = "completed"
    <3>1. \A c \in 1..Chunks : \E i \in DOMAIN Seen : Seen[i] = c
      BY <1>1, <2>1 DEF IInv, RowInv, ShowsUpTo, Seen
    <3> QED BY <1>1, <1>4, <2>1, <3>1 DEF Promise!Next, Promise!Complete
  <2>2. CASE row'.status # "completed"
    BY <1>1, <1>4, <2>2 DEF Promise!promiseVars
  <2> QED BY <2>1, <2>2
<1> QED BY <1>2, <1>3, <1>4, RowChange

\* The schedulers implement the promise of the report.
THEOREM KeepsPromise == Spec => PromiseSpec
<1>1. Init => Promise!Init /\ Early
  BY DEF Init, NoRow, NoMeta, Seen, Promise!Init, Early
<1>2. IInv /\ Early /\ IInv' /\ [Next]_vars => [Promise!Next]_Promise!promiseVars
  <2> SUFFICES ASSUME IInv, Early, IInv', [Next]_vars
               PROVE  [Promise!Next]_Promise!promiseVars
    OBVIOUS
  <2>1. CASE Accept
    BY <2>1, ShowStep
  <2>2. CASE ~Accept
    <3>1. UNCHANGED chat
      BY <2>2 DEF Next, Step, Fault, Lock, NotDue, BeginAttempt, Build, Send, Acknowledged,
         Checkpoint, Conclude, RecordFailure, BeginFails, BuildFails, Rejected, AnswerLost,
         Crash, Drop, Wait, Midnight, AnotherDay, vars
    <3> QED BY <3>1, RowStep
  <2> QED BY <2>1, <2>2
<1>3. Spec => []Early
  BY <1>1, ReportInvariant, EarlyNext, PTL DEF Spec
<1> QED BY <1>1, <1>2, <1>3, ReportInvariant, PTL DEF Spec, PromiseSpec, Promise!Spec
===============================================================================
