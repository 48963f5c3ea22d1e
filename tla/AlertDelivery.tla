---------------------------- MODULE AlertDelivery ----------------------------
(***************************************************************************)
(* The market alert dispatcher: MarketAlertDispatcher.dispatch_once        *)
(* (alerts/delivery.py) run by every scheduler process against the         *)
(* market_alert_deliveries table (alerts/storage.py), with Telegram on the *)
(* far side of the network.                                                *)
(*                                                                         *)
(* A worker claims a row with a lease in one transaction, checks the       *)
(* policy, sends the chunks it has not sent before one request at a time,  *)
(* and commits a checkpoint after each.  Requests and their answers can be *)
(* lost or late, a transaction can fail before or after its commit, a task *)
(* can be cancelled, a process can die, and a lease can run out at any     *)
(* point.  Telegram is external: it accepts a request at most once, at any *)
(* time after it was sent, or rejects it.                                  *)
(*                                                                         *)
(* Each database transaction is one action; row locks make it atomic.      *)
(***************************************************************************)
EXTENDS Integers, Sequences

CONSTANTS Workers,      \* dispatcher loops, one per scheduler process
          Deliveries,   \* row ids, which also order created_at
          NChunks,      \* chunks of an alert
          Deadline,     \* expires_at of each row
          Lease,        \* settings.market_alert_lease_seconds
          MaxAttempts,  \* settings.market_alert_max_attempts
          Limit,        \* claims per dispatch_once
          RetryDelays,  \* delays the code or a 429 answer can ask for
          MaxTime       \* bound of the clock

ASSUME DeliveryAssumption ==
  /\ Deliveries \subseteq Nat \ {0}
  /\ NChunks \in Nat \ {0}
  /\ Deadline \in [Deliveries -> Nat]
  /\ Lease \in Nat \ {0}
  /\ MaxAttempts \in Nat \ {0}
  /\ Limit \in Nat \ {0}
  /\ RetryDelays \subseteq Nat
  /\ MaxTime \in Nat

VARIABLES
  now,          \* the clock of the processes and the database
  status,       \* market_alert_deliveries.status, "absent" before the insert
  attempts,     \* .attempts
  sent,         \* .chunks_sent, the length of .message_ids
  token,        \* .lease_token: the claim that set it, 0 for NULL
  leaseEnd,     \* .lease_expires_at, 0 for NULL
  dueAt,        \* .next_attempt_at, 0 for NULL
  pc,           \* where each worker stands in dispatch_once
  quota,        \* claims it may still make in this call
  item,         \* the row it claimed, 0 for none
  claim,        \* the token it holds
  index,        \* the chunk it is sending, from 1
  verdict,      \* the arguments of the _finish call it is about to make
  wire,         \* chunks whose requests Telegram has not decided yet
  chat          \* chunks Telegram has accepted, in the order it did

rowVars == <<status, attempts, sent, token, leaseEnd, dueAt>>
workVars == <<pc, quota, item, claim, index, verdict>>
netVars == <<wire, chat>>
vars == <<now, rowVars, workVars, netVars>>

-----------------------------------------------------------------------------
(* Types *)

Retryable == {"pending", "failed"}
Settled == {"delivered", "unknown", "expired"}
Statuses == {"absent", "sending"} \cup Retryable \cup Settled

\* Where an exception of _finish leads: raised in the body of the try it is
\* answered by the handler's own _finish; in the last handler it is logged; in
\* the other handlers, and outside the try, it ends dispatch_once.
Places == {"body", "lastHandler", "handler"}

NoVerdict == [status |-> "none", retry |-> 0, place |-> "body", then |-> "claim"]
Verdicts == [status : {"delivered", "failed", "unknown", "expired"}, retry : Nat,
             place : Places, then : {"claim", "idle"}]

TypeOK ==
  /\ now \in Nat
  /\ status \in [Deliveries -> Statuses]
  /\ attempts \in [Deliveries -> Nat]
  /\ sent \in [Deliveries -> 0..NChunks]
  /\ token \in [Deliveries -> Nat]
  /\ leaseEnd \in [Deliveries -> Nat]
  /\ dueAt \in [Deliveries -> Nat]
  /\ pc \in [Workers -> {"idle", "claim", "guard", "send", "wait", "checkpoint", "finish"}]
  /\ quota \in [Workers -> 0..Limit]
  /\ item \in [Workers -> Deliveries \cup {0}]
  /\ claim \in [Workers -> Nat]
  /\ index \in [Workers -> 0..NChunks + 1]
  /\ verdict \in [Workers -> Verdicts \cup {NoVerdict}]
  /\ wire \in [Deliveries -> SUBSET (1..NChunks)]
  /\ chat \in [Deliveries -> Seq(1..NChunks)]

Init ==
  /\ now = 0
  /\ status = [d \in Deliveries |-> "absent"]
  /\ attempts = [d \in Deliveries |-> 0]
  /\ sent = [d \in Deliveries |-> 0]
  /\ token = [d \in Deliveries |-> 0]
  /\ leaseEnd = [d \in Deliveries |-> 0]
  /\ dueAt = [d \in Deliveries |-> 0]
  /\ pc = [w \in Workers |-> "idle"]
  /\ quota = [w \in Workers |-> 0]
  /\ item = [w \in Workers |-> 0]
  /\ claim = [w \in Workers |-> 0]
  /\ index = [w \in Workers |-> 0]
  /\ verdict = [w \in Workers |-> NoVerdict]
  /\ wire = [d \in Deliveries |-> {}]
  /\ chat = [d \in Deliveries |-> <<>>]

-----------------------------------------------------------------------------
(* The repository's transactions *)

\* complete_decision inserts the row, due at once or at the policy's
\* not_before, if that is before it expires.
Enqueue(d) ==
  /\ status[d] = "absent"
  /\ \A e \in Deliveries : e < d => status[e] # "absent"
  /\ \E at \in {0} \cup {now + r : r \in RetryDelays} :
       /\ now < Deadline[d] /\ at < Deadline[d]
       /\ dueAt' = [dueAt EXCEPT ![d] = at]
  /\ status' = [status EXCEPT ![d] = "pending"]
  /\ UNCHANGED <<now, attempts, sent, token, leaseEnd, workVars, netVars>>

ClaimableAlsoUnknown == Retryable \cup {"unknown"}
Claimable == Retryable

\* The rows claim_delivery selects from.
Due == {d \in Deliveries : /\ status[d] \in Claimable
                           /\ attempts[d] < MaxAttempts
                           /\ Deadline[d] > now
                           /\ dueAt[d] <= now}

\* The test of _assert_claim: the row is still this claim's to write.
OwnedByLeaseAlone(d, t) == status[d] # "absent"
Owned(d, t) == /\ status[d] = "sending"
               /\ token[d] = t
               /\ leaseEnd[d] > now

LeaseRanOut(d) == status[d] = "sending" /\ leaseEnd[d] <= now

NeverPastDeadline(d) == FALSE
PastDeadline(d) == status[d] \in Retryable /\ Deadline[d] <= now

\* What recover_expired makes of a row whose sender went silent.
AbandonedIsFailed == "failed"
Abandoned == "unknown"

\* recover_expired, on this table.
Recover ==
  /\ status' = [d \in Deliveries |-> IF LeaseRanOut(d) THEN Abandoned
                                     ELSE IF PastDeadline(d) THEN "expired"
                                     ELSE status[d]]
  /\ token' = [d \in Deliveries |-> IF LeaseRanOut(d) THEN 0 ELSE token[d]]
  /\ leaseEnd' = [d \in Deliveries |-> IF LeaseRanOut(d) THEN 0 ELSE leaseEnd[d]]
  /\ dueAt' = [d \in Deliveries |->
                 IF LeaseRanOut(d) \/ PastDeadline(d) THEN 0 ELSE dueAt[d]]
  /\ UNCHANGED <<attempts, sent>>

\* finish_delivery of a row the caller owns; "delivered" is refused before
\* every chunk has its checkpoint.
CanFinish(d, t, v) == Owned(d, t) /\ (v.status = "delivered" => sent[d] = NChunks)
FinishRow(d, v) ==
  /\ status' = [status EXCEPT ![d] = v.status]
  /\ dueAt' = [dueAt EXCEPT ![d] = IF v.status = "failed" THEN v.retry ELSE 0]
  /\ token' = [token EXCEPT ![d] = 0]
  /\ leaseEnd' = [leaseEnd EXCEPT ![d] = 0]
  /\ UNCHANGED <<attempts, sent>>

\* checkpoint_chunk of a row the caller owns; chunks are taken in order.
CanCheckpoint(d, t, i) == Owned(d, t) /\ i = sent[d] + 1
CheckpointRow(d) == /\ sent' = [sent EXCEPT ![d] = @ + 1]
                    /\ UNCHANGED <<status, attempts, token, leaseEnd, dueAt>>

-----------------------------------------------------------------------------
(* The worker's own moves *)

\* The worker is done with its row: on to the next claim, or out of the call.
Leave(w, next) ==
  /\ pc' = [pc EXCEPT ![w] = next]
  /\ quota' = [quota EXCEPT ![w] = IF next = "idle" THEN 0 ELSE @]
  /\ item' = [item EXCEPT ![w] = 0]
  /\ claim' = [claim EXCEPT ![w] = 0]
  /\ index' = [index EXCEPT ![w] = 0]
  /\ verdict' = [verdict EXCEPT ![w] = NoVerdict]

\* The worker is about to call _finish.
Conclude(w, s, delay, place, then) ==
  /\ pc' = [pc EXCEPT ![w] = "finish"]
  /\ verdict' = [verdict EXCEPT ![w] = [status |-> s, retry |-> now + delay,
                                        place |-> place, then |-> then]]
  /\ UNCHANGED <<quota, item, claim, index>>

GoTo(w, place) == /\ pc' = [pc EXCEPT ![w] = place]
                  /\ UNCHANGED <<quota, item, claim, index, verdict>>

\* What the handlers record after a failure: a request that was under way may
\* have been accepted.
RequestStarted(w) == pc[w] \in {"wait", "checkpoint"}
FailureIsRetried(w) == "failed"
FailureStatus(w) == IF RequestStarted(w) THEN "unknown" ELSE "failed"

-----------------------------------------------------------------------------
(* dispatch_once *)

Begin(w) ==
  /\ pc[w] = "idle"
  /\ Recover
  /\ pc' = [pc EXCEPT ![w] = "claim"]
  /\ quota' = [quota EXCEPT ![w] = Limit]
  /\ UNCHANGED <<now, item, claim, index, verdict, netVars>>

\* claim_delivery takes the oldest due row under a fresh token.
Claim(w) ==
  /\ pc[w] = "claim" /\ quota[w] > 0
  /\ \E d \in Due :
       /\ \A e \in Due : d <= e
       /\ status' = [status EXCEPT ![d] = "sending"]
       /\ attempts' = [attempts EXCEPT ![d] = @ + 1]
       /\ token' = [token EXCEPT ![d] = attempts[d] + 1]
       /\ leaseEnd' = [leaseEnd EXCEPT ![d] = now + Lease]
       /\ item' = [item EXCEPT ![w] = d]
       /\ claim' = [claim EXCEPT ![w] = attempts[d] + 1]
       /\ index' = [index EXCEPT ![w] = sent[d] + 1]
  /\ pc' = [pc EXCEPT ![w] = "guard"]
  /\ quota' = [quota EXCEPT ![w] = @ - 1]
  /\ UNCHANGED <<now, sent, dueAt, verdict, netVars>>

EndCall(w) ==
  /\ pc[w] = "claim" /\ (quota[w] = 0 \/ Due = {})
  /\ Leave(w, "idle")
  /\ UNCHANGED <<now, rowVars, netVars>>

\* The alert's chat is not the configured one any more.
DestinationChanged(w) ==
  /\ pc[w] = "guard"
  /\ Conclude(w, "expired", 0, "handler", "claim")
  /\ UNCHANGED <<now, rowVars, netVars>>

\* _recheck_delivery lets the alert go, holds it back, or gives it up.
GuardAllows(w) ==
  /\ pc[w] = "guard"
  /\ GoTo(w, "send")
  /\ UNCHANGED <<now, rowVars, netVars>>

GuardDefers(w) ==
  /\ pc[w] = "guard"
  /\ \E r \in RetryDelays : /\ now + r < Deadline[item[w]]
                            /\ Conclude(w, "failed", r, "body", "claim")
  /\ UNCHANGED <<now, rowVars, netVars>>

GuardRefuses(w) ==
  /\ pc[w] = "guard"
  /\ Conclude(w, "expired", 0, "body", "claim")
  /\ UNCHANGED <<now, rowVars, netVars>>

\* The guard raises, or the bot client cannot be opened: nothing was sent.
GuardFails(w) ==
  /\ pc[w] = "guard"
  /\ \E r \in RetryDelays, p \in {"lastHandler", "handler"} :
       Conclude(w, FailureStatus(w), r, p, "claim")
  /\ UNCHANGED <<now, rowVars, netVars>>

Send(w) ==
  LET d == item[w] IN
  /\ pc[w] = "send" /\ index[w] <= NChunks
  /\ IF Deadline[d] <= now
       THEN Conclude(w, "expired", 0, "body", "claim") /\ UNCHANGED wire
       ELSE GoTo(w, "wait") /\ wire' = [wire EXCEPT ![d] = @ \cup {index[w]}]
  /\ UNCHANGED <<now, rowVars, chat>>

AllSent(w) ==
  /\ pc[w] = "send" /\ index[w] > NChunks
  /\ Conclude(w, "delivered", 0, "body", "claim")
  /\ UNCHANGED <<now, rowVars, netVars>>

\* Telegram's answer is back: the chunk was accepted.
AnsweredUnseen(w) == TRUE
Answered(w) == index[w] \notin wire[item[w]]

Acknowledged(w) ==
  /\ pc[w] = "wait" /\ Answered(w)
  /\ GoTo(w, "checkpoint")
  /\ UNCHANGED <<now, rowVars, netVars>>

\* RetryAfter (429), or BadRequest and Forbidden: Telegram refused the chunk.
Rejected(w) ==
  /\ pc[w] = "wait" /\ index[w] \in wire[item[w]]
  /\ wire' = [wire EXCEPT ![item[w]] = @ \ {index[w]}]
  /\ \/ \E r \in RetryDelays : Conclude(w, "failed", r, "handler", "claim")
     \/ Conclude(w, "expired", 0, "handler", "claim")
  /\ UNCHANGED <<now, rowVars, chat>>

\* A timeout or a broken connection, whatever Telegram did or will do.
AnswerLost(w) ==
  /\ pc[w] = "wait"
  /\ \E r \in RetryDelays, p \in {"lastHandler", "handler"} :
       Conclude(w, FailureStatus(w), r, p, "claim")
  /\ UNCHANGED <<now, rowVars, netVars>>

\* The checkpoint transaction; a stale claim ends the work on this row.
Checkpoint(w) ==
  /\ pc[w] = "checkpoint"
  /\ IF CanCheckpoint(item[w], claim[w], index[w])
       THEN /\ CheckpointRow(item[w])
            /\ pc' = [pc EXCEPT ![w] = "send"]
            /\ index' = [index EXCEPT ![w] = @ + 1]
            /\ UNCHANGED <<quota, item, claim, verdict>>
       ELSE Leave(w, "claim") /\ UNCHANGED rowVars
  /\ UNCHANGED <<now, netVars>>

\* The checkpoint raises or is cancelled, before or after the database
\* committed it.
CheckpointFails(w) ==
  /\ pc[w] = "checkpoint"
  /\ \/ UNCHANGED rowVars
     \/ CanCheckpoint(item[w], claim[w], index[w]) /\ CheckpointRow(item[w])
  /\ \E r \in RetryDelays :
       \/ Conclude(w, FailureStatus(w), r, "lastHandler", "claim")
       \/ Conclude(w, FailureStatus(w), r, "handler", "idle")
  /\ UNCHANGED <<now, netVars>>

\* _finish; a stale claim is logged and nothing is written.
Finish(w) ==
  /\ pc[w] = "finish"
  /\ IF CanFinish(item[w], claim[w], verdict[w])
       THEN FinishRow(item[w], verdict[w])
       ELSE UNCHANGED rowVars
  /\ Leave(w, verdict[w].then)
  /\ UNCHANGED <<now, netVars>>

\* _finish raises or is cancelled, before or after the database committed it.
FinishFails(w) ==
  /\ pc[w] = "finish"
  /\ \/ UNCHANGED rowVars
     \/ CanFinish(item[w], claim[w], verdict[w]) /\ FinishRow(item[w], verdict[w])
  /\ \/ /\ verdict[w].place = "body"
        /\ \E r \in RetryDelays :
             \/ Conclude(w, FailureStatus(w), r, "lastHandler", "claim")
             \/ Conclude(w, FailureStatus(w), r, "handler", "idle")
     \/ verdict[w].place = "lastHandler" /\ Leave(w, "claim")
     \/ verdict[w].place # "body" /\ Leave(w, "idle")
  /\ UNCHANGED <<now, netVars>>

\* The task is cancelled at an await; the handler's _finish is shielded.
Cancelled(w) ==
  /\ pc[w] \in {"guard", "send", "wait"}
  /\ \E r \in RetryDelays : Conclude(w, FailureStatus(w), r, "handler", "idle")
  /\ UNCHANGED <<now, rowVars, netVars>>

Crash(w) ==
  /\ pc[w] # "idle"
  /\ Leave(w, "idle")
  /\ UNCHANGED <<now, rowVars, netVars>>

-----------------------------------------------------------------------------
(* The rest of the world *)

\* MarketAlertService.process_once runs the same recovery on its own schedule.
AssessorRecovers == Recover /\ UNCHANGED <<now, workVars, netVars>>

\* Telegram accepts a request that reached it, sooner or later.
TelegramAccepts(d) ==
  /\ \E i \in wire[d] : /\ wire' = [wire EXCEPT ![d] = @ \ {i}]
                        /\ chat' = [chat EXCEPT ![d] = Append(@, i)]
  /\ UNCHANGED <<now, rowVars, workVars>>

Tick == now < MaxTime /\ now' = now + 1 /\ UNCHANGED <<rowVars, workVars, netVars>>

\* What a running worker does by itself; every HTTP call has a timeout.
WorkerStep(w) ==
  \/ Begin(w) \/ Claim(w) \/ EndCall(w)
  \/ DestinationChanged(w) \/ GuardAllows(w) \/ GuardDefers(w) \/ GuardRefuses(w)
  \/ GuardFails(w)
  \/ Send(w) \/ AllSent(w)
  \/ Acknowledged(w) \/ Rejected(w) \/ AnswerLost(w)
  \/ Checkpoint(w) \/ Finish(w)

\* What may befall it.
WorkerFault(w) == CheckpointFails(w) \/ FinishFails(w) \/ Cancelled(w) \/ Crash(w)

Next ==
  \/ \E w \in Workers : WorkerStep(w) \/ WorkerFault(w)
  \/ \E d \in Deliveries : Enqueue(d) \/ TelegramAccepts(d)
  \/ AssessorRecovers
  \/ Tick

Spec == Init /\ [][Next]_vars

\* The event loop keeps running the loops of a live process, a dead process is
\* restarted, and time passes.
FairSpec == Spec /\ WF_vars(Tick) /\ \A w \in Workers : WF_vars(WorkerStep(w))

-----------------------------------------------------------------------------
(* Properties *)

\* The chat never shows a chunk twice, or out of order, whatever is retried,
\* lost, cancelled or restarted ("avoiding duplicates", README.md).
ChatInOrder == \A d \in Deliveries : chat[d] = [i \in 1..Len(chat[d]) |-> i]

\* A row a dispatcher may claim again has no request on its way, and its
\* chunks_sent is exactly what the chat shows: a retry resumes, never repeats.
RetryIsCertain ==
  \A d \in Deliveries : status[d] \in Retryable =>
    wire[d] = {} /\ Len(chat[d]) = sent[d]

\* A row says "delivered" only when the chat shows the whole alert.
DeliveredIsComplete ==
  \A d \in Deliveries : status[d] = "delivered" => Len(chat[d]) = NChunks

\* At most one dispatcher is sending, or may still send, a row's chunks, even
\* after leases ran out.
MaySend(w) == pc[w] \in {"guard", "send", "wait", "checkpoint"}
OneSender ==
  TypeOK /\ \A v, w \in Workers :
    MaySend(v) /\ MaySend(w) /\ item[v] = item[w] => v = w

\* A settled row is never written again, by a stale claim or anyone else.
SettledStep ==
  \A d \in Deliveries : status[d] \in Settled =>
    /\ status'[d] = status[d] /\ sent'[d] = sent[d]
    /\ token'[d] = token[d] /\ attempts'[d] = attempts[d]
SettledStays == [][SettledStep]_vars

\* The dispatcher implements the abstract outbox: in particular nothing
\* appears in the chat after "delivered" or "expired".
Outcome == [d \in Deliveries |-> IF status[d] \in Settled THEN status[d] ELSE "open"]
Outbox == INSTANCE AlertOutbox WITH outcome <- Outcome, seen <- chat
OutboxSpec == Outbox!Spec

\* No row stays undecided: one that was inserted is settled in the end, also
\* when its attempts are used up or its sender died.
EventuallySettled ==
  \A d \in Deliveries : status[d] # "absent" ~> status[d] \in Settled
==============================================================================
