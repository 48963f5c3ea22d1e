------------------------ MODULE AlertDelivery_proofs ------------------------
(***************************************************************************)
(* Proofs about the alert dispatcher, for any number of rows, chunks and   *)
(* workers, any deadlines, lease and retry bound.                          *)
(***************************************************************************)
EXTENDS AlertDelivery, TLAPS, SequenceTheorems

\* The chat is at the table's checkpoint, with at most the next chunk on its
\* way, or one chunk ahead of it.
Even(d) == wire[d] = {} /\ Len(chat[d]) = sent[d]
Ahead(d) == wire[d] = {} /\ Len(chat[d]) = sent[d] + 1
UnderWay(d) == wire[d] = {sent[d] + 1} /\ Len(chat[d]) = sent[d]

RowInv(d) ==
  /\ chat[d] = [i \in 1..Len(chat[d]) |-> i]
  /\ Even(d) \/ Ahead(d) \/ UnderWay(d)
  /\ status[d] \in {"absent", "delivered", "expired"} \cup Retryable => Even(d)
  /\ status[d] = "delivered" => sent[d] = NChunks
  /\ status[d] = "sending" => token[d] = attempts[d]

\* Where a worker stands, its row has got so far.
WorkerInv(w) ==
  pc[w] \notin {"idle", "claim"} =>
    /\ item[w] \in Deliveries
    /\ claim[w] <= attempts[item[w]]
    /\ MaySend(w) => /\ status[item[w]] \in {"sending", "unknown"}
                     /\ claim[w] = attempts[item[w]]
                     /\ index[w] = sent[item[w]] + 1
    /\ pc[w] \in {"guard", "send"} => Even(item[w])
    /\ pc[w] = "wait" => UnderWay(item[w]) \/ Ahead(item[w])
    /\ pc[w] = "checkpoint" => Ahead(item[w])
    /\ pc[w] = "finish" =>
         /\ verdict[w] \in Verdicts
         /\ verdict[w].place = "body" => verdict[w].status # "unknown"
         /\ /\ verdict[w].status # "unknown"
            /\ status[item[w]] = "sending"
            /\ token[item[w]] = claim[w]
            => Even(item[w])

\* A claim has one holder: its token is never handed out again.
OneHolder ==
  \A v, w \in Workers :
    /\ pc[v] \notin {"idle", "claim"}
    /\ pc[w] \notin {"idle", "claim"}
    /\ item[v] = item[w]
    /\ claim[v] = claim[w]
    => v = w

IInv == /\ TypeOK
        /\ \A d \in Deliveries : RowInv(d)
        /\ \A w \in Workers : WorkerInv(w)
        /\ OneHolder

-----------------------------------------------------------------------------
(* Lemmas *)

\* The state of a worker and of a row, for the steps of others.
SameWorker(v) ==
  /\ pc'[v] = pc[v] /\ item'[v] = item[v] /\ claim'[v] = claim[v]
  /\ index'[v] = index[v] /\ verdict'[v] = verdict[v]
SameRow(d) ==
  /\ status'[d] = status[d] /\ attempts'[d] = attempts[d] /\ sent'[d] = sent[d]
  /\ token'[d] = token[d] /\ wire'[d] = wire[d] /\ chat'[d] = chat[d]

\* An ordered chat shows no more chunks than the alert has.
LEMMA ChatLength ==
  ASSUME TypeOK, NEW d \in Deliveries, RowInv(d)
  PROVE  /\ Len(chat[d]) \in Nat
         /\ Len(chat[d]) <= NChunks
<1>1. chat[d] \in Seq(1..NChunks) /\ Len(chat[d]) \in Nat
  BY DEF TypeOK
<1>2. CASE Len(chat[d]) > 0
  <2> DEFINE c == chat[d]
             n == Len(c)
  <2>1. c \in Seq(1..NChunks) /\ n \in 1..Len(c)
    BY <1>1, <1>2
  <2> HIDE DEF c, n
  <2>2. c[n] \in 1..NChunks
    BY <2>1, ElementOfSeq
  <2> USE DEF c, n
  <2>3. chat[d][n] = n
    BY <1>1, <1>2 DEF RowInv
  <2> QED BY <1>1, <2>2, <2>3, DeliveryAssumption DEF DeliveryAssumption
<1>3. CASE Len(chat[d]) = 0
  BY <1>3, DeliveryAssumption DEF DeliveryAssumption
<1> QED BY <1>1, <1>2, <1>3

\* A row nobody touches keeps its invariant.
LEMMA RowKept ==
  ASSUME NEW d \in Deliveries, RowInv(d), SameRow(d)
  PROVE  RowInv(d)'
BY DEF RowInv, SameRow, Even, Ahead, UnderWay

\* So does a worker that does not move while its row stays as it is.
LEMMA WorkerKept ==
  ASSUME NEW v \in Workers, WorkerInv(v), SameWorker(v),
         pc[v] \notin {"idle", "claim"} => SameRow(item[v])
  PROVE  WorkerInv(v)'
BY DEF WorkerInv, SameWorker, SameRow, MaySend, Even, Ahead, UnderWay

\* A worker that keeps its claim, or gives it up, shares it with nobody.
LEMMA HolderKept ==
  ASSUME OneHolder, NEW w \in Workers,
         \A v \in Workers : v # w => SameWorker(v),
         \/ pc'[w] \in {"idle", "claim"}
         \/ /\ pc[w] \notin {"idle", "claim"}
            /\ item'[w] = item[w] /\ claim'[w] = claim[w]
  PROVE  OneHolder'
BY DEF OneHolder, SameWorker

\* A step that moves one worker and leaves every row alone.
LEMMA WorkerMoves ==
  ASSUME IInv, TypeOK', NEW w \in Workers,
         \A v \in Workers : v # w => SameWorker(v),
         \A d \in Deliveries : SameRow(d),
         \/ pc'[w] \in {"idle", "claim"}
         \/ /\ pc[w] \notin {"idle", "claim"}
            /\ item'[w] = item[w] /\ claim'[w] = claim[w]
            /\ WorkerInv(w)'
  PROVE  IInv'
<1>1. \A d \in Deliveries : RowInv(d)'
  BY RowKept DEF IInv
<1>2. ASSUME NEW v \in Workers PROVE WorkerInv(v)'
  <2>1. CASE v = w
    BY <2>1 DEF WorkerInv
  <2>2. CASE v # w
    <3>1. WorkerInv(v) /\ SameWorker(v)
      BY <2>2 DEF IInv
    <3>2. pc[v] \notin {"idle", "claim"} => SameRow(item[v])
      BY <3>1 DEF WorkerInv
    <3> QED BY <3>1, <3>2, WorkerKept
  <2> QED BY <2>1, <2>2
<1>3. OneHolder'
  BY HolderKept DEF IInv
<1> QED BY <1>1, <1>2, <1>3 DEF IInv

\* On a row a worker may write, it is the only one: another worker that has
\* the row holds an older claim, and only waits to find that out.
LEMMA OthersAreStale ==
  ASSUME IInv, NEW w \in Workers, NEW v \in Workers, v # w,
         pc[w] \notin {"idle", "claim"}, Owned(item[w], claim[w]),
         pc[v] \notin {"idle", "claim"}, item[v] = item[w]
  PROVE  pc[v] = "finish" /\ claim[v] # claim[w]
<1>1. claim[v] # claim[w]
  BY DEF IInv, OneHolder
<1>2. claim[w] = attempts[item[w]]
  BY DEF IInv, RowInv, WorkerInv, Owned
<1>3. ~MaySend(v)
  BY <1>1, <1>2 DEF IInv, WorkerInv
<1> QED BY <1>1, <1>3 DEF MaySend, IInv, TypeOK

-----------------------------------------------------------------------------
(* Steps that change no row *)

\* A step that leaves rows and requests alone leaves each row alone.
LEMMA RowsKept ==
  ASSUME UNCHANGED <<rowVars, netVars>>
  PROVE  \A d \in Deliveries : SameRow(d)
BY DEF rowVars, netVars, SameRow

\* A worker that leaves its row moves alone.
LEMMA LeaveMoves ==
  ASSUME TypeOK, NEW w \in Workers, NEW next \in {"claim", "idle"}, Leave(w, next)
  PROVE  /\ \A v \in Workers : v # w => SameWorker(v)
         /\ pc'[w] \in {"idle", "claim"}
         /\ pc' \in [Workers -> {"idle", "claim", "guard", "send", "wait",
                                 "checkpoint", "finish"}]
         /\ quota' \in [Workers -> 0..Limit]
         /\ item' \in [Workers -> Deliveries \cup {0}]
         /\ claim' \in [Workers -> Nat]
         /\ index' \in [Workers -> 0..NChunks + 1]
         /\ verdict' \in [Workers -> Verdicts \cup {NoVerdict}]
BY DeliveryAssumption DEF DeliveryAssumption, TypeOK, Leave, SameWorker

\* Leaving a row keeps the invariant.
LEMMA LeaveInv ==
  ASSUME IInv, NEW w \in Workers, NEW next \in {"claim", "idle"}, Leave(w, next),
         UNCHANGED <<now, rowVars, netVars>>
  PROVE  IInv'
<1>1. TypeOK'
  BY LeaveMoves DEF IInv, TypeOK, rowVars, netVars
<1> QED BY <1>1, RowsKept, LeaveMoves, WorkerMoves DEF IInv

\* A worker that reaches a verdict moves alone, and holds the row until it is written.
LEMMA ConcludeMoves ==
  ASSUME TypeOK, NEW w \in Workers, NEW delay \in Nat,
         NEW s \in {"delivered", "failed", "unknown", "expired"},
         NEW place \in Places, NEW then \in {"claim", "idle"},
         Conclude(w, s, delay, place, then)
  PROVE  /\ \A v \in Workers : v # w => SameWorker(v)
         /\ pc'[w] = "finish" /\ item'[w] = item[w] /\ claim'[w] = claim[w]
         /\ verdict'[w] \in Verdicts
         /\ verdict'[w].status = s /\ verdict'[w].place = place
         /\ pc' \in [Workers -> {"idle", "claim", "guard", "send", "wait",
                                 "checkpoint", "finish"}]
         /\ quota' \in [Workers -> 0..Limit]
         /\ item' \in [Workers -> Deliveries \cup {0}]
         /\ claim' \in [Workers -> Nat]
         /\ index' \in [Workers -> 0..NChunks + 1]
         /\ verdict' \in [Workers -> Verdicts \cup {NoVerdict}]
<1> DEFINE v == [status |-> s, retry |-> now + delay, place |-> place, then |-> then]
<1>1. v \in Verdicts
  BY DEF TypeOK, Verdicts
<1>2. verdict' = [verdict EXCEPT ![w] = v]
  BY DEF Conclude
<1>3. v.status = s /\ v.place = place
  OBVIOUS
<1> HIDE DEF v
<1> QED BY <1>1, <1>2, <1>3 DEF TypeOK, Conclude, SameWorker

\* A worker that leaves with anything but "unknown" must be sure of its row.
LEMMA ConcludeInv ==
  ASSUME IInv, NEW w \in Workers, NEW delay \in Nat,
         NEW s \in {"delivered", "failed", "unknown", "expired"},
         NEW place \in Places, NEW then \in {"claim", "idle"},
         Conclude(w, s, delay, place, then),
         UNCHANGED <<now, rowVars, netVars>>,
         pc[w] \notin {"idle", "claim"},
         place = "body" => s # "unknown",
         s # "unknown" /\ status[item[w]] = "sending" /\ token[item[w]] = claim[w]
           => Even(item[w])
  PROVE  IInv'
<1>0. TypeOK
  BY DEF IInv
<1>1. TypeOK'
  <2>1. /\ pc' \in [Workers -> {"idle", "claim", "guard", "send", "wait",
                                "checkpoint", "finish"}]
        /\ quota' \in [Workers -> 0..Limit]
        /\ item' \in [Workers -> Deliveries \cup {0}]
        /\ claim' \in [Workers -> Nat]
        /\ index' \in [Workers -> 0..NChunks + 1]
        /\ verdict' \in [Workers -> Verdicts \cup {NoVerdict}]
    BY <1>0, ConcludeMoves
  <2> QED BY <1>0, <2>1 DEF TypeOK, rowVars, netVars
<1>2. WorkerInv(w)'
  BY ConcludeMoves DEF IInv, WorkerInv, MaySend, rowVars, netVars, Even
<1>3. /\ \A v \in Workers : v # w => SameWorker(v)
      /\ item'[w] = item[w] /\ claim'[w] = claim[w]
  BY ConcludeMoves DEF IInv
<1> QED BY <1>1, <1>2, <1>3, RowsKept, WorkerMoves

\* Going on to send, or to the checkpoint of an acknowledged chunk, keeps the invariant.
LEMMA GoToInv ==
  ASSUME IInv, NEW w \in Workers, NEW place \in {"send", "checkpoint"},
         GoTo(w, place), UNCHANGED <<now, rowVars, netVars>>,
         \/ place = "send" /\ pc[w] = "guard"
         \/ place = "checkpoint" /\ pc[w] = "wait" /\ Ahead(item[w])
  PROVE  IInv'
<1>1. TypeOK'
  BY DEF IInv, TypeOK, rowVars, netVars, GoTo
<1>2. \A v \in Workers : v # w => SameWorker(v)
  BY DEF IInv, TypeOK, GoTo, SameWorker
<1>3. item'[w] = item[w] /\ claim'[w] = claim[w] /\ pc'[w] = place
  BY DEF IInv, TypeOK, GoTo
<1>4. WorkerInv(w)'
  BY <1>3 DEF IInv, WorkerInv, MaySend, rowVars, netVars, Even, Ahead, GoTo
<1> QED BY <1>1, <1>2, <1>3, <1>4, RowsKept, WorkerMoves

-----------------------------------------------------------------------------
(* Steps that change one row *)

\* The worker's claim holds: what it finishes the row with is certain, unless
\* it is "unknown".
LEMMA FinishRowInv ==
  ASSUME IInv, NEW w \in Workers, pc[w] = "finish",
         CanFinish(item[w], claim[w], verdict[w]), FinishRow(item[w], verdict[w]),
         UNCHANGED <<now, netVars>>, TypeOK',
         \A v \in Workers : v # w => SameWorker(v),
         \/ pc'[w] \in {"idle", "claim"}
         \/ /\ pc'[w] = "finish" /\ item'[w] = item[w] /\ claim'[w] = claim[w]
            /\ verdict'[w] \in Verdicts
            /\ verdict'[w].status # "unknown" \/ verdict'[w].place # "body"
  PROVE  IInv'
<1> DEFINE d == item[w]
<1>1. /\ d \in Deliveries /\ verdict[w] \in Verdicts /\ claim[w] = token[d]
      /\ status[d] = "sending" /\ token[d] = attempts[d]
      /\ verdict[w].status # "unknown" => Even(d)
  BY DEF IInv, WorkerInv, RowInv, CanFinish, Owned
<1>2. /\ status'[d] = verdict[w].status /\ token'[d] = 0
      /\ UNCHANGED <<attempts, sent, wire, chat>>
      /\ \A e \in Deliveries : e # d => SameRow(e)
  BY <1>1 DEF FinishRow, SameRow, IInv, TypeOK, netVars
<1>3. verdict[w].status \in {"delivered", "failed", "unknown", "expired"}
  BY <1>1 DEF Verdicts
<1>4. ASSUME NEW e \in Deliveries PROVE RowInv(e)'
  <2>1. CASE e = d
    BY <1>1, <1>2, <1>3, <2>1
    DEF IInv, RowInv, CanFinish, Retryable, Even, Ahead, UnderWay
  <2>2. CASE e # d
    BY <1>2, <2>2, RowKept DEF IInv
  <2> QED BY <2>1, <2>2
<1>5. ASSUME NEW v \in Workers PROVE WorkerInv(v)'
  <2>1. CASE v = w
    BY <1>1, <1>2, <1>3, <2>1 DEF IInv, WorkerInv, MaySend, Retryable, RowInv, Even
  <2>2. CASE v # w /\ pc[v] \notin {"idle", "claim"} /\ item[v] = d
    <3>1. pc[v] = "finish" /\ claim[v] # claim[w]
      BY <1>1, <2>2, OthersAreStale DEF CanFinish
    <3>2. SameWorker(v) /\ claim[v] \in Nat
      BY <2>2 DEF IInv, TypeOK
    <3> QED BY <1>1, <1>2, <1>3, <2>2, <3>1, <3>2
            DEF IInv, WorkerInv, MaySend, SameWorker, Even
  <2>3. CASE v # w /\ ~(pc[v] \notin {"idle", "claim"} /\ item[v] = d)
    <3>1. pc[v] \notin {"idle", "claim"} => SameRow(item[v])
      BY <1>2, <2>3 DEF IInv, WorkerInv
    <3> QED BY <2>3, <3>1, WorkerKept DEF IInv
  <2> QED BY <2>1, <2>2, <2>3
<1>6. OneHolder'
  BY HolderKept DEF IInv
<1> QED BY <1>4, <1>5, <1>6 DEF IInv

\* The checkpoint of an accepted chunk brings table and chat level.
LEMMA CheckpointRowInv ==
  ASSUME IInv, NEW w \in Workers, pc[w] = "checkpoint",
         CanCheckpoint(item[w], claim[w], index[w]), CheckpointRow(item[w]),
         UNCHANGED <<now, netVars>>,
         \A v \in Workers : v # w => SameWorker(v),
         item'[w] = item[w], claim'[w] = claim[w],
         \/ pc'[w] = "send" /\ index'[w] = index[w] + 1
         \/ pc'[w] = "finish" /\ verdict'[w] \in Verdicts /\ verdict'[w].place # "body"
  PROVE  /\ sent' \in [Deliveries -> 0..NChunks]
         /\ \A d \in Deliveries : RowInv(d)'
         /\ \A v \in Workers : WorkerInv(v)'
         /\ OneHolder'
<1> DEFINE d == item[w]
<1>1. /\ d \in Deliveries /\ claim[w] = token[d] /\ status[d] = "sending"
      /\ token[d] = attempts[d] /\ Ahead(d) /\ index[w] = sent[d] + 1
  BY DEF IInv, WorkerInv, RowInv, CanCheckpoint, Owned
<1>2. sent[d] \in Nat /\ sent[d] + 1 <= NChunks
  <2>1. Len(chat[d]) = sent[d] + 1 /\ Len(chat[d]) <= NChunks
    BY <1>1, ChatLength DEF IInv, Ahead
  <2>2. sent[d] \in Nat
    BY <1>1 DEF IInv, TypeOK
  <2> QED BY <2>1, <2>2
<1>3. /\ sent' = [sent EXCEPT ![d] = @ + 1]
      /\ UNCHANGED <<status, attempts, token, wire, chat>>
      /\ \A e \in Deliveries : e # d => SameRow(e)
  BY <1>1 DEF CheckpointRow, SameRow, IInv, TypeOK, netVars
<1>4. sent' \in [Deliveries -> 0..NChunks] /\ sent'[d] = sent[d] + 1 /\ Even(d)'
  BY <1>1, <1>2, <1>3 DEF IInv, TypeOK, Even, Ahead
<1>5. ASSUME NEW e \in Deliveries PROVE RowInv(e)'
  <2>1. CASE e = d
    BY <1>1, <1>3, <1>4, <2>1 DEF IInv, RowInv, Retryable
  <2>2. CASE e # d
    BY <1>3, <2>2, RowKept DEF IInv
  <2> QED BY <2>1, <2>2
<1>6. ASSUME NEW v \in Workers PROVE WorkerInv(v)'
  <2>1. CASE v = w
    <3>1. claim'[w] <= attempts'[d] /\ claim'[w] = attempts'[d]
      BY <1>1, <1>3 DEF IInv, WorkerInv
    <3>2. sent[d] + 1 + 1 = index[w] + 1 /\ index[w] + 1 = sent'[d] + 1
      BY <1>1, <1>4, <1>2
    <3> QED BY <1>1, <1>3, <1>4, <2>1, <3>1, <3>2 DEF WorkerInv, MaySend
  <2>2. CASE v # w /\ pc[v] \notin {"idle", "claim"} /\ item[v] = d
    <3>1. pc[v] = "finish" /\ claim[v] # claim[w]
      BY <1>1, <2>2, OthersAreStale DEF CanCheckpoint
    <3> QED BY <1>1, <1>3, <2>2, <3>1 DEF IInv, WorkerInv, MaySend, SameWorker
  <2>3. CASE v # w /\ ~(pc[v] \notin {"idle", "claim"} /\ item[v] = d)
    <3>1. pc[v] \notin {"idle", "claim"} => SameRow(item[v])
      BY <1>3, <2>3 DEF IInv, WorkerInv
    <3> QED BY <2>3, <3>1, WorkerKept DEF IInv
  <2> QED BY <2>1, <2>2, <2>3
<1>7. OneHolder'
  BY HolderKept DEF IInv
<1> QED BY <1>4, <1>5, <1>6, <1>7

\* Recovery turns a row its sender left behind into "unknown": no later claim
\* can send it again, so nothing has to be known about it.
LEMMA RecoverInv ==
  ASSUME IInv, Recover, UNCHANGED netVars
  PROVE  /\ status' \in [Deliveries -> Statuses]
         /\ token' \in [Deliveries -> Nat]
         /\ leaseEnd' \in [Deliveries -> Nat]
         /\ dueAt' \in [Deliveries -> Nat]
         /\ \A d \in Deliveries : RowInv(d)'
         /\ \A v \in Workers : UNCHANGED <<item, claim, index, verdict>>
              /\ (pc'[v] = pc[v] \/ pc'[v] \in {"idle", "claim"})
              => WorkerInv(v)'
<1>1. /\ status' \in [Deliveries -> Statuses]
      /\ token' \in [Deliveries -> Nat]
      /\ leaseEnd' \in [Deliveries -> Nat]
      /\ dueAt' \in [Deliveries -> Nat]
  BY DEF IInv, TypeOK, Recover, Statuses, Settled, Retryable, Abandoned, PastDeadline
<1>2. UNCHANGED <<attempts, sent, wire, chat>>
  BY DEF Recover, netVars
<1>3. ASSUME NEW d \in Deliveries
      PROVE  \/ status'[d] = status[d] /\ token'[d] = token[d]
             \/ status[d] = "sending" /\ status'[d] = "unknown"
             \/ status[d] \in Retryable /\ status'[d] = "expired" /\ token'[d] = token[d]
  BY DEF Recover, LeaseRanOut, PastDeadline, Abandoned, Retryable
<1>4. ASSUME NEW d \in Deliveries PROVE RowInv(d)'
  BY <1>2, <1>3 DEF IInv, RowInv, Even, Ahead, UnderWay, Retryable
<1>5. ASSUME NEW v \in Workers, UNCHANGED <<item, claim, index, verdict>>,
             pc'[v] = pc[v] \/ pc'[v] \in {"idle", "claim"}
      PROVE  WorkerInv(v)'
  <2>1. CASE pc'[v] \in {"idle", "claim"}
    BY <2>1 DEF WorkerInv
  <2>2. CASE pc'[v] = pc[v] /\ pc[v] \notin {"idle", "claim"}
    <3>1. item[v] \in Deliveries /\ WorkerInv(v)
      BY <2>2 DEF IInv, WorkerInv
    <3>2. status[item[v]] \in {"sending", "unknown"}
            => status'[item[v]] \in {"sending", "unknown"}
      BY <1>3, <3>1 DEF Retryable
    <3>3. status'[item[v]] = "sending"
            => status[item[v]] = "sending" /\ token'[item[v]] = token[item[v]]
      BY <1>3, <3>1
    <3> QED BY <1>2, <1>5, <2>2, <3>1, <3>2, <3>3
            DEF WorkerInv, MaySend, Even, Ahead, UnderWay
  <2> QED BY <1>5, <2>1, <2>2
<1> QED BY <1>1, <1>4, <1>5

-----------------------------------------------------------------------------
(* The remaining actions *)

\* Begin keeps the invariant.
LEMMA BeginInv == ASSUME IInv, NEW w \in Workers, Begin(w) PROVE IInv'
<1>1. UNCHANGED netVars /\ Recover /\ UNCHANGED <<now, item, claim, index, verdict>>
  BY DEF Begin
<1>2. \A v \in Workers : pc'[v] = pc[v] \/ pc'[v] \in {"idle", "claim"}
  BY DEF Begin, IInv, TypeOK
<1>3. TypeOK'
  <2>1. /\ status' \in [Deliveries -> Statuses]
        /\ token' \in [Deliveries -> Nat]
        /\ leaseEnd' \in [Deliveries -> Nat]
        /\ dueAt' \in [Deliveries -> Nat]
    BY <1>1, RecoverInv
  <2>2. quota' \in [Workers -> 0..Limit]
    BY DeliveryAssumption DEF DeliveryAssumption, IInv, TypeOK, Begin
  <2>3. pc' = [pc EXCEPT ![w] = "claim"] /\ UNCHANGED <<attempts, sent>>
    BY <1>1 DEF Begin, Recover
  <2> QED BY <1>1, <2>1, <2>2, <2>3 DEF IInv, TypeOK, netVars
<1>4. OneHolder'
  BY DEF IInv, OneHolder, Begin, TypeOK
<1> QED BY <1>1, <1>2, <1>3, <1>4, RecoverInv DEF IInv

\* The recovery an assessor makes keeps the invariant.
LEMMA AssessorInv == ASSUME IInv, AssessorRecovers PROVE IInv'
<1>1. Recover /\ UNCHANGED netVars /\ UNCHANGED <<now, pc, quota, item, claim, index, verdict>>
  BY DEF AssessorRecovers, workVars
<1>2. TypeOK'
  BY <1>1, RecoverInv DEF IInv, TypeOK, Recover, netVars
<1>3. OneHolder'
  BY <1>1 DEF IInv, OneHolder
<1> QED BY <1>1, <1>2, <1>3, RecoverInv DEF IInv

\* A fresh token: whoever still holds an older one on the row only finishes.
LEMMA ClaimInv == ASSUME IInv, NEW w \in Workers, Claim(w) PROVE IInv'
<1>1. PICK d \in Due :
        /\ status' = [status EXCEPT ![d] = "sending"]
        /\ attempts' = [attempts EXCEPT ![d] = @ + 1]
        /\ token' = [token EXCEPT ![d] = attempts[d] + 1]
        /\ leaseEnd' = [leaseEnd EXCEPT ![d] = now + Lease]
        /\ item' = [item EXCEPT ![w] = d]
        /\ claim' = [claim EXCEPT ![w] = attempts[d] + 1]
        /\ index' = [index EXCEPT ![w] = sent[d] + 1]
  BY DEF Claim
<1>2. d \in Deliveries /\ status[d] \in Retryable /\ Even(d)
  BY <1>1 DEF Due, Claimable, IInv, RowInv
<1>3. /\ pc[w] = "claim" /\ quota[w] > 0
      /\ pc' = [pc EXCEPT ![w] = "guard"]
      /\ quota' = [quota EXCEPT ![w] = @ - 1]
      /\ UNCHANGED <<now, sent, dueAt, verdict, wire, chat>>
  BY DEF Claim, netVars
<1>4. TypeOK'
  <2>1. quota' \in [Workers -> 0..Limit]
    BY <1>3, DeliveryAssumption DEF DeliveryAssumption, IInv, TypeOK
  <2>2. leaseEnd' \in [Deliveries -> Nat]
    <3>1. now + Lease \in Nat
      BY DeliveryAssumption DEF DeliveryAssumption, IInv, TypeOK
    <3>2. leaseEnd' = [leaseEnd EXCEPT ![d] = now + Lease]
      BY <1>1
    <3> QED BY <3>1, <3>2 DEF IInv, TypeOK
  <2>3. /\ status' \in [Deliveries -> Statuses]
        /\ attempts' \in [Deliveries -> Nat]
        /\ token' \in [Deliveries -> Nat]
        /\ item' \in [Workers -> Deliveries \cup {0}]
        /\ claim' \in [Workers -> Nat]
    <3>1. /\ status \in [Deliveries -> Statuses] /\ attempts \in [Deliveries -> Nat]
          /\ token \in [Deliveries -> Nat] /\ item \in [Workers -> Deliveries \cup {0}]
          /\ claim \in [Workers -> Nat]
      BY DEF IInv, TypeOK
    <3>2. attempts[d] + 1 \in Nat /\ "sending" \in Statuses
      BY <1>2, <3>1 DEF Statuses
    <3> QED BY <1>1, <1>2, <3>1, <3>2
  <2>4. index' \in [Workers -> 0..NChunks + 1]
    <3>1. sent[d] + 1 \in 0..NChunks + 1
      <4>1. sent[d] \in 0..NChunks
        BY <1>2 DEF IInv, TypeOK
      <4>2. NChunks \in Nat
        BY DeliveryAssumption DEF DeliveryAssumption
      <4> QED BY <4>1, <4>2
    <3>2. index' = [index EXCEPT ![w] = sent[d] + 1]
      BY <1>1
    <3> QED BY <3>1, <3>2 DEF IInv, TypeOK
  <2> QED BY <1>3, <2>1, <2>2, <2>3, <2>4 DEF IInv, TypeOK
<1>5. /\ \A v \in Workers : v # w => SameWorker(v)
      /\ \A e \in Deliveries : e # d => SameRow(e)
  BY <1>1, <1>2, <1>3 DEF IInv, TypeOK, SameWorker, SameRow
<1>6. /\ status'[d] = "sending" /\ attempts'[d] = attempts[d] + 1
      /\ token'[d] = attempts[d] + 1 /\ attempts[d] \in Nat
      /\ item'[w] = d /\ claim'[w] = attempts[d] + 1 /\ index'[w] = sent[d] + 1
      /\ pc'[w] = "guard"
  BY <1>1, <1>2, <1>3 DEF IInv, TypeOK
<1>7. ASSUME NEW e \in Deliveries PROVE RowInv(e)'
  <2>1. CASE e = d
    BY <1>2, <1>3, <1>6, <2>1 DEF IInv, RowInv, Retryable, Even, Ahead, UnderWay
  <2>2. CASE e # d
    BY <1>5, <2>2, RowKept DEF IInv
  <2> QED BY <2>1, <2>2
<1>8. ASSUME NEW v \in Workers, v # w, pc[v] \notin {"idle", "claim"}, item[v] = d
      PROVE  pc[v] = "finish" /\ claim[v] < attempts[d] + 1 /\ claim[v] \in Nat
  <2>1. WorkerInv(v) /\ claim[v] \in Nat
    BY DEF IInv, TypeOK
  <2>2. ~MaySend(v) /\ claim[v] <= attempts[d]
    BY <1>2, <1>8, <2>1 DEF WorkerInv, Retryable
  <2>3. pc[v] = "finish"
    BY <1>8, <2>2 DEF MaySend, IInv, TypeOK
  <2> QED BY <1>6, <2>1, <2>2, <2>3
<1>9. ASSUME NEW v \in Workers PROVE WorkerInv(v)'
  <2>1. CASE v = w
    BY <1>2, <1>3, <1>6, <2>1 DEF WorkerInv, MaySend, Even
  <2>2. CASE v # w /\ pc[v] \notin {"idle", "claim"} /\ item[v] = d
    BY <1>2, <1>5, <1>6, <1>8, <2>2 DEF IInv, WorkerInv, MaySend, SameWorker
  <2>3. CASE v # w /\ ~(pc[v] \notin {"idle", "claim"} /\ item[v] = d)
    <3>1. pc[v] \notin {"idle", "claim"} => SameRow(item[v])
      BY <1>5, <2>3 DEF IInv, WorkerInv
    <3> QED BY <1>5, <2>3, <3>1, WorkerKept DEF IInv
  <2> QED BY <2>1, <2>2, <2>3
<1>10. OneHolder'
  BY <1>5, <1>6, <1>8 DEF IInv, OneHolder, SameWorker
<1> QED BY <1>4, <1>7, <1>9, <1>10 DEF IInv

\* Send keeps the invariant.
LEMMA SendInv == ASSUME IInv, NEW w \in Workers, Send(w) PROVE IInv'
<1> DEFINE d == item[w]
<1>1. /\ pc[w] = "send" /\ index[w] <= NChunks /\ d \in Deliveries
      /\ claim[w] = attempts[d] /\ index[w] = sent[d] + 1 /\ Even(d)
      /\ status[d] \in {"sending", "unknown"}
  BY DEF Send, IInv, WorkerInv, MaySend
<1>2. CASE Deadline[d] <= now
  <2>1. Conclude(w, "expired", 0, "body", "claim") /\ UNCHANGED <<now, rowVars, netVars>>
    BY <1>2 DEF Send, netVars
  <2> QED BY <1>1, <2>1, ConcludeInv DEF Places
<1>3. CASE ~(Deadline[d] <= now)
  <2>1. /\ wire' = [wire EXCEPT ![d] = @ \cup {index[w]}]
        /\ pc' = [pc EXCEPT ![w] = "wait"]
        /\ UNCHANGED <<now, status, attempts, sent, token, leaseEnd, dueAt, chat,
                       quota, item, claim, index, verdict>>
    BY <1>3 DEF Send, GoTo, rowVars
  <2>2. wire'[d] = {sent[d] + 1} /\ pc'[w] = "wait" /\ UnderWay(d)'
    BY <1>1, <2>1 DEF IInv, TypeOK, Even, UnderWay
  <2>3. index[w] \in 1..NChunks
    BY <1>1 DEF IInv, TypeOK
  <2>4. TypeOK'
    BY <2>1, <2>3 DEF IInv, TypeOK
  <2>5. /\ \A v \in Workers : v # w => SameWorker(v)
        /\ \A e \in Deliveries : e # d => SameRow(e)
    BY <1>1, <2>1 DEF IInv, TypeOK, SameWorker, SameRow
  <2>6. ASSUME NEW e \in Deliveries PROVE RowInv(e)'
    <3>1. CASE e = d
      BY <1>1, <2>1, <2>2, <3>1 DEF IInv, RowInv, Retryable
    <3>2. CASE e # d
      BY <2>5, <3>2, RowKept DEF IInv
    <3> QED BY <3>1, <3>2
  <2>7. ASSUME NEW v \in Workers PROVE WorkerInv(v)'
    <3>1. CASE v = w
      BY <1>1, <2>1, <2>2, <3>1 DEF IInv, WorkerInv, MaySend
    <3>2. CASE v # w /\ pc[v] \notin {"idle", "claim"} /\ item[v] = d
      <4>1. claim[v] # claim[w]
        BY <1>1, <3>2 DEF IInv, OneHolder
      <4>2. pc[v] = "finish"
        BY <1>1, <3>2, <4>1 DEF IInv, TypeOK, WorkerInv, MaySend
      <4>3. status[d] = "sending" => token[d] # claim[v]
        BY <1>1, <4>1 DEF IInv, RowInv
      <4> QED BY <1>1, <2>1, <2>5, <3>2, <4>2, <4>3 DEF IInv, WorkerInv, MaySend, SameWorker
    <3>3. CASE v # w /\ ~(pc[v] \notin {"idle", "claim"} /\ item[v] = d)
      <4>1. pc[v] \notin {"idle", "claim"} => SameRow(item[v])
        BY <2>5, <3>3 DEF IInv, WorkerInv
      <4> QED BY <2>5, <3>3, <4>1, WorkerKept DEF IInv
    <3> QED BY <3>1, <3>2, <3>3
  <2>8. OneHolder'
    BY <1>1, <2>1, <2>5, HolderKept DEF IInv
  <2> QED BY <2>4, <2>6, <2>7, <2>8 DEF IInv
<1> QED BY <1>2, <1>3

\* Rejected keeps the invariant.
LEMMA RejectedInv == ASSUME IInv, NEW w \in Workers, Rejected(w) PROVE IInv'
<1> DEFINE d == item[w]
<1>1. /\ pc[w] = "wait" /\ index[w] \in wire[d] /\ d \in Deliveries
      /\ claim[w] = attempts[d] /\ index[w] = sent[d] + 1 /\ UnderWay(d)
      /\ status[d] \in {"sending", "unknown"}
  BY DEF Rejected, IInv, WorkerInv, MaySend, Ahead
<1>2. /\ wire' = [wire EXCEPT ![d] = @ \ {index[w]}]
      /\ UNCHANGED <<now, status, attempts, sent, token, leaseEnd, dueAt, chat>>
  BY DEF Rejected, rowVars
<1>3. PICK delay \in Nat, s \in {"failed", "expired"} :
        Conclude(w, s, delay, "handler", "claim")
  BY DeliveryAssumption DEF DeliveryAssumption, Rejected
<1>4. /\ \A v \in Workers : v # w => SameWorker(v)
      /\ pc'[w] = "finish" /\ item'[w] = d /\ claim'[w] = claim[w]
      /\ verdict'[w] \in Verdicts
      /\ verdict'[w].status = s /\ verdict'[w].place = "handler"
      /\ pc' \in [Workers -> {"idle", "claim", "guard", "send", "wait",
                              "checkpoint", "finish"}]
      /\ quota' \in [Workers -> 0..Limit]
      /\ item' \in [Workers -> Deliveries \cup {0}]
      /\ claim' \in [Workers -> Nat]
      /\ index' \in [Workers -> 0..NChunks + 1]
      /\ verdict' \in [Workers -> Verdicts \cup {NoVerdict}]
  BY <1>3, ConcludeMoves DEF Places, IInv
<1>5. Even(d)' /\ \A e \in Deliveries : e # d => SameRow(e)
  BY <1>1, <1>2, <1>4 DEF IInv, TypeOK, UnderWay, Even, SameRow
<1>6. TypeOK'
  BY <1>2, <1>4 DEF IInv, TypeOK
<1>7. ASSUME NEW e \in Deliveries PROVE RowInv(e)'
  <2>1. CASE e = d
    BY <1>1, <1>2, <1>4, <1>5, <2>1 DEF IInv, RowInv, Retryable
  <2>2. CASE e # d
    BY <1>5, <2>2, RowKept DEF IInv
  <2> QED BY <2>1, <2>2
<1>8. ASSUME NEW v \in Workers PROVE WorkerInv(v)'
  <2>1. CASE v = w
    BY <1>1, <1>2, <1>4, <1>5, <2>1 DEF IInv, WorkerInv, MaySend
  <2>2. CASE v # w /\ pc[v] \notin {"idle", "claim"} /\ item[v] = d
    <3>1. claim[v] # claim[w]
      BY <1>1, <2>2 DEF IInv, OneHolder
    <3>2. pc[v] = "finish"
      BY <1>1, <2>2, <3>1 DEF IInv, TypeOK, WorkerInv, MaySend
    <3> QED BY <1>1, <1>2, <1>4, <1>5, <2>2, <3>2 DEF IInv, WorkerInv, MaySend, SameWorker
  <2>3. CASE v # w /\ ~(pc[v] \notin {"idle", "claim"} /\ item[v] = d)
    <3>1. pc[v] \notin {"idle", "claim"} => SameRow(item[v])
      BY <1>5, <2>3 DEF IInv, WorkerInv
    <3> QED BY <1>4, <2>3, <3>1, WorkerKept DEF IInv
  <2> QED BY <2>1, <2>2, <2>3
<1>9. OneHolder'
  <2>1. pc[w] \notin {"idle", "claim"} /\ item'[w] = item[w] /\ claim'[w] = claim[w]
    BY <1>1, <1>4
  <2> QED BY <1>4, <2>1, HolderKept DEF IInv
<1> QED BY <1>6, <1>7, <1>8, <1>9 DEF IInv

\* Checkpoint keeps the invariant.
LEMMA CheckpointInv == ASSUME IInv, NEW w \in Workers, Checkpoint(w) PROVE IInv'
<1>1. pc[w] = "checkpoint" /\ UNCHANGED <<now, netVars>>
  BY DEF Checkpoint
<1>2. CASE CanCheckpoint(item[w], claim[w], index[w])
  <2>1. /\ CheckpointRow(item[w])
        /\ pc' = [pc EXCEPT ![w] = "send"]
        /\ index' = [index EXCEPT ![w] = @ + 1]
        /\ UNCHANGED <<quota, item, claim, verdict>>
    BY <1>2 DEF Checkpoint
  <2>2. /\ \A v \in Workers : v # w => SameWorker(v)
        /\ item'[w] = item[w] /\ claim'[w] = claim[w]
        /\ pc'[w] = "send" /\ index'[w] = index[w] + 1
    BY <2>1 DEF IInv, TypeOK, SameWorker
  <2>3. /\ sent' \in [Deliveries -> 0..NChunks]
        /\ \A d \in Deliveries : RowInv(d)'
        /\ \A v \in Workers : WorkerInv(v)'
        /\ OneHolder'
    BY <1>1, <1>2, <2>1, <2>2, CheckpointRowInv
  <2>4. index' \in [Workers -> 0..NChunks + 1]
    <3>1. item[w] \in Deliveries /\ index[w] = sent[item[w]] + 1 /\ Ahead(item[w])
      BY <1>1 DEF IInv, WorkerInv, MaySend
    <3>2. Len(chat[item[w]]) <= NChunks /\ sent[item[w]] \in Nat
      <4>1. TypeOK /\ RowInv(item[w])
        BY <3>1 DEF IInv
      <4>2. Len(chat[item[w]]) <= NChunks
        BY <3>1, <4>1, ChatLength
      <4> QED BY <3>1, <4>1, <4>2 DEF TypeOK
    <3>3. index[w] \in 0..NChunks
      BY <3>1, <3>2, DeliveryAssumption DEF DeliveryAssumption, Ahead
    <3>4. index[w] + 1 \in 0..NChunks + 1
      BY <3>3, DeliveryAssumption DEF DeliveryAssumption
    <3> QED BY <2>1, <3>4 DEF IInv, TypeOK
  <2>5. TypeOK'
    BY <1>1, <2>1, <2>3, <2>4 DEF IInv, TypeOK, CheckpointRow, netVars
  <2> QED BY <2>3, <2>5 DEF IInv
<1>3. CASE ~CanCheckpoint(item[w], claim[w], index[w])
  <2>1. Leave(w, "claim") /\ UNCHANGED <<now, rowVars, netVars>>
    BY <1>3 DEF Checkpoint
  <2> QED BY <2>1, LeaveInv
<1> QED BY <1>2, <1>3

\* CheckpointFails keeps the invariant.
LEMMA CheckpointFailsInv == ASSUME IInv, NEW w \in Workers, CheckpointFails(w) PROVE IInv'
<1>1. pc[w] = "checkpoint" /\ UNCHANGED <<now, netVars>> /\ FailureStatus(w) = "unknown"
  BY DEF CheckpointFails, FailureStatus, RequestStarted
<1>2. PICK delay \in Nat, place \in Places \ {"body"}, then \in {"claim", "idle"} :
        Conclude(w, "unknown", delay, place, then)
  BY <1>1, DeliveryAssumption DEF DeliveryAssumption, CheckpointFails, Places
<1>3. CASE UNCHANGED rowVars
  BY <1>1, <1>2, <1>3, ConcludeInv DEF Places
<1>4. CASE CanCheckpoint(item[w], claim[w], index[w]) /\ CheckpointRow(item[w])
  <2>1. /\ \A v \in Workers : v # w => SameWorker(v)
        /\ pc'[w] = "finish" /\ item'[w] = item[w] /\ claim'[w] = claim[w]
        /\ verdict'[w] \in Verdicts /\ verdict'[w].place # "body"
        /\ pc' \in [Workers -> {"idle", "claim", "guard", "send", "wait",
                                "checkpoint", "finish"}]
        /\ quota' \in [Workers -> 0..Limit]
        /\ item' \in [Workers -> Deliveries \cup {0}]
        /\ claim' \in [Workers -> Nat]
        /\ index' \in [Workers -> 0..NChunks + 1]
        /\ verdict' \in [Workers -> Verdicts \cup {NoVerdict}]
    BY <1>2, ConcludeMoves DEF Places, IInv
  <2>2. /\ sent' \in [Deliveries -> 0..NChunks]
        /\ \A d \in Deliveries : RowInv(d)'
        /\ \A v \in Workers : WorkerInv(v)'
        /\ OneHolder'
    BY <1>1, <1>4, <2>1, CheckpointRowInv
  <2>3. TypeOK'
    BY <1>1, <1>4, <2>1, <2>2 DEF IInv, TypeOK, CheckpointRow, netVars
  <2> QED BY <2>2, <2>3 DEF IInv
<1> QED BY <1>3, <1>4 DEF CheckpointFails

\* What finish_delivery writes has its type.
LEMMA FinishRowTypes ==
  ASSUME IInv, NEW w \in Workers, pc[w] = "finish", FinishRow(item[w], verdict[w])
  PROVE  /\ status' \in [Deliveries -> Statuses]
         /\ token' \in [Deliveries -> Nat]
         /\ leaseEnd' \in [Deliveries -> Nat]
         /\ dueAt' \in [Deliveries -> Nat]
         /\ UNCHANGED <<attempts, sent>>
<1>1. verdict[w] \in Verdicts
  BY DEF IInv, WorkerInv
<1>2. verdict[w].status \in Statuses /\ verdict[w].retry \in Nat
  BY <1>1 DEF Verdicts, Statuses, Retryable, Settled
<1> QED BY <1>2 DEF FinishRow, IInv, TypeOK

\* Finish keeps the invariant.
LEMMA FinishInv == ASSUME IInv, NEW w \in Workers, Finish(w) PROVE IInv'
<1>1. pc[w] = "finish" /\ UNCHANGED <<now, netVars>> /\ verdict[w] \in Verdicts
  BY DEF Finish, IInv, WorkerInv
<1>2. PICK next \in {"claim", "idle"} : Leave(w, next)
  BY <1>1 DEF Finish, Verdicts
<1>3. CASE UNCHANGED rowVars
  BY <1>1, <1>2, <1>3, LeaveInv
<1>4. CASE CanFinish(item[w], claim[w], verdict[w]) /\ FinishRow(item[w], verdict[w])
  <2>1. TypeOK
    BY DEF IInv
  <2>2. /\ \A v \in Workers : v # w => SameWorker(v)
        /\ pc'[w] \in {"idle", "claim"}
        /\ pc' \in [Workers -> {"idle", "claim", "guard", "send", "wait",
                                "checkpoint", "finish"}]
        /\ quota' \in [Workers -> 0..Limit]
        /\ item' \in [Workers -> Deliveries \cup {0}]
        /\ claim' \in [Workers -> Nat]
        /\ index' \in [Workers -> 0..NChunks + 1]
        /\ verdict' \in [Workers -> Verdicts \cup {NoVerdict}]
    BY <1>2, <2>1, LeaveMoves
  <2>3. TypeOK'
    BY <1>1, <1>4, <2>1, <2>2, FinishRowTypes DEF TypeOK, netVars
  <2> QED BY <1>1, <1>4, <2>2, <2>3, FinishRowInv
<1> QED BY <1>3, <1>4 DEF Finish

\* FinishFails keeps the invariant.
LEMMA FinishFailsInv == ASSUME IInv, NEW w \in Workers, FinishFails(w) PROVE IInv'
<1>1. pc[w] = "finish" /\ UNCHANGED <<now, netVars>> /\ FailureStatus(w) = "failed" /\ TypeOK
  BY DEF FinishFails, FailureStatus, RequestStarted, IInv
<1>2. /\ verdict[w] \in Verdicts
      /\ verdict[w].place = "body" => verdict[w].status # "unknown"
      /\ /\ verdict[w].status # "unknown"
         /\ status[item[w]] = "sending"
         /\ token[item[w]] = claim[w]
         => Even(item[w])
  BY <1>1 DEF IInv, WorkerInv
<1>3. CASE \E next \in {"claim", "idle"} : Leave(w, next)
  <2>1. PICK next \in {"claim", "idle"} : Leave(w, next)
    BY <1>3
  <2>2. /\ \A v \in Workers : v # w => SameWorker(v)
        /\ pc'[w] \in {"idle", "claim"}
        /\ pc' \in [Workers -> {"idle", "claim", "guard", "send", "wait",
                                "checkpoint", "finish"}]
        /\ quota' \in [Workers -> 0..Limit]
        /\ item' \in [Workers -> Deliveries \cup {0}]
        /\ claim' \in [Workers -> Nat]
        /\ index' \in [Workers -> 0..NChunks + 1]
        /\ verdict' \in [Workers -> Verdicts \cup {NoVerdict}]
    BY <1>1, <2>1, LeaveMoves
  <2>3. CASE UNCHANGED rowVars
    BY <1>1, <2>1, <2>3, LeaveInv
  <2>4. CASE CanFinish(item[w], claim[w], verdict[w]) /\ FinishRow(item[w], verdict[w])
    <3>1. TypeOK'
      BY <1>1, <2>2, <2>4, FinishRowTypes DEF TypeOK, netVars
    <3> QED BY <1>1, <2>2, <2>4, <3>1, FinishRowInv
  <2> QED BY <2>3, <2>4 DEF FinishFails
<1>4. CASE verdict[w].place = "body" /\
           \E delay \in Nat, p \in {"lastHandler", "handler"}, t \in {"claim", "idle"} :
             Conclude(w, "failed", delay, p, t)
  <2>1. PICK delay \in Nat, p \in {"lastHandler", "handler"}, t \in {"claim", "idle"} :
          Conclude(w, "failed", delay, p, t)
    BY <1>4
  <2>2. /\ \A v \in Workers : v # w => SameWorker(v)
        /\ pc'[w] = "finish" /\ item'[w] = item[w] /\ claim'[w] = claim[w]
        /\ verdict'[w] \in Verdicts /\ verdict'[w].status # "unknown"
        /\ pc' \in [Workers -> {"idle", "claim", "guard", "send", "wait",
                                "checkpoint", "finish"}]
        /\ quota' \in [Workers -> 0..Limit]
        /\ item' \in [Workers -> Deliveries \cup {0}]
        /\ claim' \in [Workers -> Nat]
        /\ index' \in [Workers -> 0..NChunks + 1]
        /\ verdict' \in [Workers -> Verdicts \cup {NoVerdict}]
    BY <1>1, <2>1, ConcludeMoves DEF Places
  <2>3. CASE UNCHANGED rowVars
    BY <1>1, <1>2, <1>4, <2>1, <2>3, ConcludeInv DEF Places
  <2>4. CASE CanFinish(item[w], claim[w], verdict[w]) /\ FinishRow(item[w], verdict[w])
    <3>1. TypeOK'
      BY <1>1, <2>2, <2>4, FinishRowTypes DEF TypeOK, netVars
    <3> QED BY <1>1, <2>2, <2>4, <3>1, FinishRowInv
  <2> QED BY <2>3, <2>4 DEF FinishFails
<1>5. RetryDelays \subseteq Nat
  BY DeliveryAssumption DEF DeliveryAssumption
<1> QED BY <1>1, <1>3, <1>4, <1>5 DEF FinishFails

\* The steps of a worker in the middle of its work that only decide how it ends.
LEMMA DecisionInv ==
  ASSUME IInv, NEW w \in Workers,
         \/ DestinationChanged(w) \/ GuardDefers(w) \/ GuardRefuses(w) \/ GuardFails(w)
         \/ AllSent(w) \/ AnswerLost(w) \/ Cancelled(w)
  PROVE  IInv'
<1>1. UNCHANGED <<now, rowVars, netVars>> /\ pc[w] \notin {"idle", "claim"}
  BY DEF DestinationChanged, GuardDefers, GuardRefuses, GuardFails, AllSent, AnswerLost,
         Cancelled
<1>2. RetryDelays \subseteq Nat /\ 0 \in Nat
  BY DeliveryAssumption DEF DeliveryAssumption
<1>3. CASE pc[w] \in {"guard", "send"}
  <2>1. FailureStatus(w) = "failed" /\ Even(item[w])
    BY <1>3 DEF FailureStatus, RequestStarted, IInv, WorkerInv
  <2>2. \E delay \in Nat, s \in {"delivered", "failed", "expired"}, p \in Places,
           t \in {"claim", "idle"} : Conclude(w, s, delay, p, t)
    BY <1>2, <1>3, <2>1 DEF DestinationChanged, GuardDefers, GuardRefuses, GuardFails,
       AllSent, AnswerLost, Cancelled, Places
  <2> QED BY <1>1, <2>1, <2>2, ConcludeInv
<1>4. CASE pc[w] \in {"wait", "checkpoint"}
  <2>1. FailureStatus(w) = "unknown"
    BY <1>4 DEF FailureStatus, RequestStarted
  <2>2. \E delay \in Nat, p \in {"lastHandler", "handler"}, t \in {"claim", "idle"} :
          Conclude(w, "unknown", delay, p, t)
    BY <1>2, <1>4, <2>1 DEF DestinationChanged, GuardDefers, GuardRefuses, GuardFails,
       AllSent, AnswerLost, Cancelled
  <2> QED BY <1>1, <2>2, ConcludeInv DEF Places
<1> QED BY <1>3, <1>4 DEF DestinationChanged, GuardDefers, GuardRefuses, GuardFails,
        AllSent, AnswerLost, Cancelled

\* The steps that change a worker's place only keep the invariant.
LEMMA ShortMoveInv ==
  ASSUME IInv, NEW w \in Workers,
         EndCall(w) \/ Crash(w) \/ GuardAllows(w) \/ Acknowledged(w)
  PROVE  IInv'
<1>1. CASE EndCall(w) \/ Crash(w)
  BY <1>1, LeaveInv DEF EndCall, Crash
<1>2. CASE GuardAllows(w)
  BY <1>2, GoToInv DEF GuardAllows
<1>3. CASE Acknowledged(w)
  <2>1. pc[w] = "wait" /\ index[w] \notin wire[item[w]] /\ GoTo(w, "checkpoint")
        /\ UNCHANGED <<now, rowVars, netVars>>
    BY <1>3 DEF Acknowledged, Answered
  <2>2. Ahead(item[w])
    BY <2>1 DEF IInv, WorkerInv, MaySend, UnderWay
  <2> QED BY <2>1, <2>2, GoToInv
<1> QED BY <1>1, <1>2, <1>3

\* Inserted rows are level with the empty chat.
LEMMA EnqueueInv == ASSUME IInv, NEW d \in Deliveries, Enqueue(d) PROVE IInv'
<1>1. /\ status[d] = "absent" /\ status' = [status EXCEPT ![d] = "pending"]
      /\ UNCHANGED <<now, attempts, sent, token, leaseEnd, wire, chat,
                     pc, quota, item, claim, index, verdict>>
  BY DEF Enqueue, workVars, netVars
<1>2. dueAt' \in [Deliveries -> Nat]
  <2>1. PICK at \in {0} \cup {now + r : r \in RetryDelays} :
          dueAt' = [dueAt EXCEPT ![d] = at]
    BY DEF Enqueue
  <2>2. at \in Nat
    BY DeliveryAssumption DEF DeliveryAssumption, IInv, TypeOK
  <2> QED BY <2>1, <2>2 DEF IInv, TypeOK
<1>3. TypeOK'
  BY <1>1, <1>2 DEF IInv, TypeOK, Statuses, Retryable
<1>4. ASSUME NEW e \in Deliveries PROVE RowInv(e)'
  <2>1. CASE e = d
    BY <1>1, <2>1 DEF IInv, TypeOK, RowInv, Retryable, Even, Ahead, UnderWay
  <2>2. CASE e # d
    <3>1. SameRow(e)
      BY <1>1, <2>2 DEF IInv, TypeOK, SameRow
    <3> QED BY <3>1, RowKept DEF IInv
  <2> QED BY <2>1, <2>2
<1>5. ASSUME NEW v \in Workers PROVE WorkerInv(v)'
  <2>1. WorkerInv(v) /\ status \in [Deliveries -> Statuses]
    BY DEF IInv, TypeOK
  <2>2. item[v] \in Deliveries /\ status[item[v]] # status'[item[v]] =>
          status[item[v]] = "absent" /\ status'[item[v]] = "pending"
    BY <1>1, <2>1
  <2> QED BY <1>1, <2>1, <2>2 DEF WorkerInv, MaySend, Even, Ahead, UnderWay
<1>6. OneHolder'
  BY <1>1 DEF IInv, OneHolder
<1> QED BY <1>3, <1>4, <1>5, <1>6 DEF IInv

\* A request under way puts exactly the next chunk in the chat.
LEMMA AcceptInv == ASSUME IInv, NEW d \in Deliveries, TelegramAccepts(d) PROVE IInv'
<1>1. PICK i \in wire[d] : /\ wire' = [wire EXCEPT ![d] = @ \ {i}]
                           /\ chat' = [chat EXCEPT ![d] = Append(@, i)]
  BY DEF TelegramAccepts
<1>2. UNCHANGED <<now, status, attempts, sent, token, leaseEnd, dueAt,
                  pc, quota, item, claim, index, verdict>>
  BY DEF TelegramAccepts, rowVars, workVars
<1>3. RowInv(d) /\ TypeOK
  BY DEF IInv
<1>4. UnderWay(d) /\ i = sent[d] + 1
  BY <1>1, <1>3 DEF RowInv, Even, Ahead, UnderWay
<1>5. i \in 1..NChunks /\ chat[d] \in Seq(1..NChunks) /\ sent[d] \in Nat
  BY <1>1, <1>3 DEF TypeOK
<1>6. /\ chat'[d] = Append(chat[d], i) /\ wire'[d] = {}
      /\ \A e \in Deliveries : e # d => SameRow(e)
  BY <1>1, <1>2, <1>3, <1>4 DEF TypeOK, SameRow, UnderWay
<1>7. /\ chat'[d] \in Seq(1..NChunks)
      /\ Len(chat'[d]) = sent[d] + 1
      /\ chat'[d] = [j \in 1..Len(chat'[d]) |-> j]
  <2> DEFINE c == chat[d]
  <2>1. c \in Seq(1..NChunks) /\ Len(c) = sent[d] /\ c = [j \in 1..Len(c) |-> j]
    BY <1>3, <1>4, <1>5 DEF RowInv, UnderWay
  <2>2. chat'[d] = Append(c, Len(c) + 1)
    BY <1>4, <1>6, <2>1
  <2> HIDE DEF c
  <2>3. Append(c, Len(c) + 1) \in Seq(1..NChunks) /\ Len(Append(c, Len(c) + 1)) = Len(c) + 1
    BY <1>4, <1>5, <2>1
  <2>4. Append(c, Len(c) + 1) = [j \in 1..Len(c) + 1 |-> j]
    BY <2>1
  <2> QED BY <2>1, <2>2, <2>3, <2>4
<1>8. Ahead(d)'
  BY <1>2, <1>6, <1>7 DEF Ahead
<1>9. TypeOK'
  BY <1>1, <1>2, <1>3, <1>7 DEF TypeOK
<1>10. ASSUME NEW e \in Deliveries PROVE RowInv(e)'
  <2>1. CASE e = d
    BY <1>2, <1>3, <1>4, <1>5, <1>7, <1>8, <2>1 DEF RowInv, Retryable, UnderWay, Even
  <2>2. CASE e # d
    BY <1>6, <2>2, RowKept DEF IInv
  <2> QED BY <2>1, <2>2
<1>11. ASSUME NEW v \in Workers PROVE WorkerInv(v)'
  <2>1. CASE pc[v] \notin {"idle", "claim"} /\ item[v] = d
    <3>1. pc[v] = "wait" \/ (pc[v] = "finish" /\ ~Even(d))
      <4>1. ~Even(d) /\ ~Ahead(d)
        BY <1>4 DEF UnderWay, Even, Ahead
      <4>2. pc[v] \in {"guard", "send", "wait", "checkpoint", "finish"} /\ WorkerInv(v)
        BY <2>1 DEF IInv, TypeOK
      <4> QED BY <2>1, <4>1, <4>2 DEF WorkerInv
    <3> QED BY <1>2, <1>4, <1>8, <2>1, <3>1 DEF IInv, WorkerInv, MaySend
  <2>2. CASE ~(pc[v] \notin {"idle", "claim"} /\ item[v] = d)
    <3>1. SameWorker(v) /\ (pc[v] \notin {"idle", "claim"} => SameRow(item[v]))
      BY <1>2, <1>6, <2>2 DEF SameWorker, IInv, WorkerInv
    <3> QED BY <3>1, WorkerKept DEF IInv
  <2> QED BY <2>1, <2>2
<1>12. OneHolder'
  BY <1>2 DEF IInv, OneHolder
<1> QED BY <1>9, <1>10, <1>11, <1>12 DEF IInv

\* Ticks and stuttering steps keep the invariant.
LEMMA StutterInv == ASSUME IInv, Tick \/ UNCHANGED vars PROVE IInv'
<1>1. UNCHANGED <<status, attempts, sent, token, leaseEnd, dueAt,
                  pc, quota, item, claim, index, verdict, wire, chat>>
      /\ now' \in Nat
  BY DEF Tick, vars, rowVars, workVars, netVars, IInv, TypeOK
<1>2. TypeOK'
  BY <1>1 DEF IInv, TypeOK
<1>3. \A d \in Deliveries : RowInv(d)'
  BY <1>1 DEF IInv, RowInv, Even, Ahead, UnderWay
<1>4. \A v \in Workers : WorkerInv(v)'
  BY <1>1 DEF IInv, WorkerInv, MaySend, Even, Ahead, UnderWay
<1>5. OneHolder'
  BY <1>1 DEF IInv, OneHolder
<1> QED BY <1>2, <1>3, <1>4, <1>5 DEF IInv

-----------------------------------------------------------------------------
(* The inductive invariant and what follows from it *)

\* The invariant holds at first.
LEMMA InitInv == Init => IInv
<1> SUFFICES ASSUME Init PROVE IInv
  OBVIOUS
<1>1. TypeOK
  BY DeliveryAssumption DEF DeliveryAssumption, Init, TypeOK, Statuses
<1>2. \A d \in Deliveries : RowInv(d)
  BY DEF Init, RowInv, Even
<1>3. (\A w \in Workers : WorkerInv(w)) /\ OneHolder
  BY DEF Init, WorkerInv, OneHolder
<1> QED BY <1>1, <1>2, <1>3 DEF IInv

\* Every step keeps the invariant.
LEMMA NextInv == IInv /\ [Next]_vars => IInv'
<1> SUFFICES ASSUME IInv, [Next]_vars PROVE IInv'
  OBVIOUS
<1>1. ASSUME NEW w \in Workers, WorkerStep(w) PROVE IInv'
  BY <1>1, BeginInv, ClaimInv, ShortMoveInv, DecisionInv, SendInv, RejectedInv,
     CheckpointInv, FinishInv DEF WorkerStep
<1>2. ASSUME NEW w \in Workers, WorkerFault(w) PROVE IInv'
  BY <1>2, CheckpointFailsInv, FinishFailsInv, DecisionInv, ShortMoveInv DEF WorkerFault
<1>3. ASSUME NEW d \in Deliveries, Enqueue(d) \/ TelegramAccepts(d) PROVE IInv'
  BY <1>3, EnqueueInv, AcceptInv
<1>4. CASE AssessorRecovers \/ Tick \/ UNCHANGED vars
  BY <1>4, AssessorInv, StutterInv
<1> QED BY <1>1, <1>2, <1>3, <1>4 DEF Next

\* The invariant the properties below follow from: the chat is never more
\* than the one chunk under way ahead of the table, and level with it whenever
\* a row can be claimed again.
THEOREM DispatcherInvariant == Spec => []IInv
<1> QED BY InitInv, NextInv, PTL DEF Spec

\* Every variable keeps its type, for any instance.
THEOREM DispatcherTypes == Spec => []TypeOK
<1>1. IInv => TypeOK
  BY DEF IInv
<1> QED BY <1>1, DispatcherInvariant, PTL

\* No chunk is shown twice or out of order: no duplicate alerts, whatever is
\* lost, retried, cancelled or restarted.
THEOREM NoDuplicates == Spec => []ChatInOrder
<1>1. IInv => ChatInOrder
  BY DEF IInv, RowInv, ChatInOrder
<1> QED BY <1>1, DispatcherInvariant, PTL

\* A row that may be claimed again has nothing on its way and a checkpoint
\* that equals the chat.
THEOREM RetriesAreCertain == Spec => []RetryIsCertain
<1>1. IInv => RetryIsCertain
  BY DEF IInv, RowInv, RetryIsCertain, Even
<1> QED BY <1>1, DispatcherInvariant, PTL

\* "delivered" means the whole alert is in the chat.
THEOREM DeliveredMeansComplete == Spec => []DeliveredIsComplete
<1>1. IInv => DeliveredIsComplete
  BY DEF IInv, RowInv, DeliveredIsComplete, Even
<1> QED BY <1>1, DispatcherInvariant, PTL

\* No two dispatchers send the same row.
THEOREM SingleSender == Spec => []OneSender
<1>1. IInv => OneSender
  BY DEF IInv, OneSender, OneHolder, WorkerInv, MaySend
<1> QED BY <1>1, DispatcherInvariant, PTL

-----------------------------------------------------------------------------
(* What a step may not do, and the abstract outbox *)

\* A step does not touch a settled row.
LEMMA SettledNext == IInv /\ [Next]_vars => SettledStep
<1> SUFFICES ASSUME IInv, [Next]_vars, NEW d \in Deliveries, status[d] \in Settled
             PROVE  /\ status'[d] = status[d] /\ sent'[d] = sent[d]
                    /\ token'[d] = token[d] /\ attempts'[d] = attempts[d]
  BY DEF SettledStep
<1>1. status[d] \notin Retryable \cup {"absent", "sending"}
  BY DEF Settled, Retryable
<1>2. /\ status \in [Deliveries -> Statuses] /\ token \in [Deliveries -> Nat]
      /\ attempts \in [Deliveries -> Nat] /\ sent \in [Deliveries -> 0..NChunks]
  BY DEF IInv, TypeOK
<1> DEFINE Kept == /\ status'[d] = status[d] /\ sent'[d] = sent[d]
                   /\ token'[d] = token[d] /\ attempts'[d] = attempts[d]
<1>3. ASSUME UNCHANGED rowVars PROVE Kept
  BY <1>3 DEF rowVars
<1>4. ASSUME Recover PROVE Kept
  BY <1>1, <1>4 DEF Recover, LeaseRanOut, PastDeadline
<1>5. ASSUME NEW w \in Workers, Owned(item[w], claim[w]), pc[w] \notin {"idle", "claim"},
             CheckpointRow(item[w]) \/ FinishRow(item[w], verdict[w])
      PROVE  Kept
  <2>1. item[w] \in Deliveries /\ item[w] # d
    BY <1>1, <1>5 DEF Owned, IInv, WorkerInv
  <2> QED BY <1>2, <1>5, <2>1 DEF CheckpointRow, FinishRow
<1>6. ASSUME NEW w \in Workers, Claim(w) PROVE Kept
  BY <1>1, <1>2, <1>6 DEF Claim, Due, Claimable
<1>7. ASSUME NEW w \in Workers, WorkerStep(w) PROVE Kept
  <2>1. CASE Begin(w)
    BY <1>4, <2>1 DEF Begin
  <2>2. CASE Claim(w)
    BY <1>6, <2>2
  <2>3. CASE Checkpoint(w)
    BY <1>3, <1>5, <2>3 DEF Checkpoint, CanCheckpoint
  <2>4. CASE Finish(w)
    BY <1>3, <1>5, <2>4 DEF Finish, CanFinish
  <2>5. CASE ~(Begin(w) \/ Claim(w) \/ Checkpoint(w) \/ Finish(w))
    <3>1. UNCHANGED rowVars
      BY <1>7, <2>5 DEF WorkerStep, EndCall, DestinationChanged, GuardAllows, GuardDefers,
         GuardRefuses, GuardFails, Send, AllSent, Acknowledged, Rejected, AnswerLost
    <3> QED BY <1>3, <3>1
  <2> QED BY <2>1, <2>2, <2>3, <2>4, <2>5
<1>8. ASSUME NEW w \in Workers, WorkerFault(w) PROVE Kept
  BY <1>3, <1>5, <1>8 DEF WorkerFault, CheckpointFails, FinishFails, Cancelled, Crash,
     CanCheckpoint, CanFinish
<1>9. ASSUME NEW e \in Deliveries, Enqueue(e) \/ TelegramAccepts(e) PROVE Kept
  <2>1. CASE Enqueue(e)
    BY <1>1, <1>2, <2>1 DEF Enqueue
  <2>2. CASE TelegramAccepts(e)
    BY <1>3, <2>2 DEF TelegramAccepts
  <2> QED BY <1>9, <2>1, <2>2
<1>10. CASE AssessorRecovers \/ Tick \/ UNCHANGED vars
  BY <1>3, <1>4, <1>10 DEF AssessorRecovers, Tick, vars
<1> QED BY <1>7, <1>8, <1>9, <1>10 DEF Next

\* Nobody, and no stale claim in particular, writes a row that is settled.
THEOREM SettledRowsStay == Spec => SettledStays
<1> QED BY SettledNext, DispatcherInvariant, PTL DEF Spec, SettledStays

\* Only Telegram adds to the chat.
LEMMA ChatStep ==
  [Next]_vars => (UNCHANGED chat \/ \E d \in Deliveries : TelegramAccepts(d))
<1> SUFFICES ASSUME [Next]_vars, ~(\E d \in Deliveries : TelegramAccepts(d))
             PROVE  UNCHANGED chat
  OBVIOUS
<1>1. ASSUME NEW w \in Workers, WorkerStep(w) PROVE UNCHANGED chat
  BY <1>1 DEF WorkerStep, Begin, Claim, EndCall, DestinationChanged, GuardAllows,
     GuardDefers, GuardRefuses, GuardFails, Send, AllSent, Acknowledged, Rejected,
     AnswerLost, Checkpoint, Finish, netVars
<1>2. ASSUME NEW w \in Workers, WorkerFault(w) PROVE UNCHANGED chat
  BY <1>2 DEF WorkerFault, CheckpointFails, FinishFails, Cancelled, Crash, netVars
<1> QED BY <1>1, <1>2 DEF Next, Enqueue, AssessorRecovers, Tick, vars, netVars

\* The dispatcher, with its leases, retries and crashes, implements the
\* abstract outbox; after "delivered" or "expired" the chat is silent.
THEOREM ImplementsOutbox == Spec => OutboxSpec
<1>1. Init => Outbox!Init
  <2> SUFFICES ASSUME Init PROVE Outbox!Init
    OBVIOUS
  <2>1. Outcome = [d \in Deliveries |-> "open"]
    BY DEF Init, Outcome, Settled
  <2> QED BY <2>1 DEF Init, Outbox!Init
<1>2. IInv /\ IInv' /\ [Next]_vars => [Outbox!Next]_Outbox!outboxVars
  <2> SUFFICES ASSUME IInv, IInv', [Next]_vars
               PROVE  [Outbox!Next]_Outbox!outboxVars
    OBVIOUS
  <2>1. CASE UNCHANGED chat
    <3>1. Outcome' \in [Deliveries -> Outbox!Outcomes \cup {"open"}]
      BY DEF Outcome, Settled, Outbox!Outcomes
    <3>2. ASSUME NEW d \in Deliveries, Outcome'[d] # Outcome[d]
          PROVE  /\ Outcome[d] = "open"
                 /\ Outcome'[d] = "delivered" => Len(chat[d]) = NChunks
      <4>1. SettledStep
        BY SettledNext
      <4>2. Outcome[d] = "open"
        BY <3>2, <4>1 DEF SettledStep, Outcome
      <4>3. Outcome'[d] = "delivered" => status'[d] = "delivered"
        BY DEF Outcome, Settled
      <4> QED BY <2>1, <4>2, <4>3 DEF IInv, RowInv, Even
    <3> QED BY <2>1, <3>1, <3>2 DEF Outbox!Next, Outbox!Settle
  <2>2. CASE \E d \in Deliveries : TelegramAccepts(d)
    <3>1. PICK d \in Deliveries : TelegramAccepts(d)
      BY <2>2
    <3>2. PICK i \in wire[d] : chat' = [chat EXCEPT ![d] = Append(@, i)]
      BY <3>1 DEF TelegramAccepts
    <3>3. status[d] \notin {"delivered", "expired"} /\ i = Len(chat[d]) + 1
      <4>1. RowInv(d) /\ ~Even(d) /\ ~Ahead(d)
        BY <3>2 DEF IInv, Even, Ahead
      <4>2. UnderWay(d) /\ status[d] \notin {"delivered", "expired"}
        BY <4>1 DEF RowInv
      <4> QED BY <3>2, <4>2 DEF UnderWay
    <3>4. Outcome[d] \in {"open", "unknown"} /\ UNCHANGED Outcome
      BY <3>1, <3>3 DEF TelegramAccepts, rowVars, Outcome, Settled
    <3>5. Len(chat[d]) < NChunks
      <4>1. i \in 1..NChunks
        BY <3>2 DEF IInv, TypeOK
      <4>2. TypeOK /\ RowInv(d)
        BY DEF IInv
      <4>3. Len(chat[d]) \in Nat
        BY <4>2, ChatLength
      <4> QED BY <3>3, <4>1, <4>3, DeliveryAssumption DEF DeliveryAssumption
    <3> QED BY <3>2, <3>3, <3>4, <3>5 DEF Outbox!Next, Outbox!Show
  <2> QED BY <2>1, <2>2, ChatStep
<1> QED BY <1>1, <1>2, DispatcherInvariant, PTL DEF Spec, OutboxSpec, Outbox!Spec
=============================================================================
