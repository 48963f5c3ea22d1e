--------------------------- MODULE AlertAssessment ---------------------------
(***************************************************************************)
(* The market alert assessor: MarketAlertService.process_once and          *)
(* _process_decision (alerts/service.py) over the decision, budget and     *)
(* delivery tables of AlertRepository (alerts/storage.py), with the paid   *)
(* model provider (OpenRouter's Jev) on the far side of the network.       *)
(*                                                                         *)
(* Every scheduler process runs process_once.  One call recovers the       *)
(* claims that ran out, prepares decisions, lists the due ones and works   *)
(* through them one at a time: a transaction claims the decision and       *)
(* reserves the worst cost of a request from the month's budget, the       *)
(* request is made with no transaction open, and a second transaction      *)
(* settles the reservation and records the answer, together with the alert *)
(* to deliver.  Every timestamp a call uses is derived from the time the   *)
(* call began, while other processes, and the dispatcher, judge its leases *)
(* by the true time.  Processes die and are restarted, with another key or *)
(* the same, and answers are lost after the provider billed them.          *)
(***************************************************************************)
EXTENDS Integers, FiniteSets, FiniteSetsExt

CONSTANTS Workers,      \* assessor loops, one per scheduler process
          Decisions,    \* row ids, which also order created_at
          Alert,        \* the (event, revision, kind, chat) a decision is about
          Model,        \* model_revision of a decision: model, prompt, key, budget
          Reserve,      \* _reservation, the most a request can cost
          Costs,        \* what the usage of an answer can amount to
          MonthlyLimit, \* settings.jev_monthly_budget_usd
          Lease,        \* settings.market_alert_lease_seconds
          RequestTime,  \* the timeout of a request
          MaxAttempts,  \* settings.market_alert_max_attempts
          RetryDelay,   \* max(30, retry_after)
          MonthLength,  \* a month, in ticks of the clock
          Horizon,      \* bound: later calls start only to recover
          MaxTime       \* bound of the clock

Models == {Model[d] : d \in Decisions}
Alerts == {Alert[d] : d \in Decisions}
Month(t) == t \div MonthLength
Months == 0..Month(MaxTime)

ASSUME AssessmentAssumption ==
  /\ Decisions \subseteq Nat \ {0}
  /\ IsFiniteSet(Workers) /\ IsFiniteSet(Decisions) /\ Decisions # {}
  /\ DOMAIN Alert = Decisions
  /\ Model \in [Decisions -> Nat]
  /\ {Reserve, Lease, RequestTime, MaxAttempts, RetryDelay, MonthLength} \subseteq Nat \ {0}
  /\ {MonthlyLimit, Horizon, MaxTime} \subseteq Nat
  /\ Costs \subseteq 0..Reserve

VARIABLES
  now,      \* the true time
  row,      \* market_alert_decisions
  budget,   \* market_alert_budgets
  alert,    \* market_alert_deliveries: the decision that queued it, 0 for none
  work,     \* where each process stands in process_once
  billed,   \* what the provider has charged for each decision
  rejected  \* 401 and 403 answers each process has seen since it started

vars == <<now, row, budget, alert, work, billed, rejected>>

Statuses == {"absent", "pending", "assessing", "completed", "failed", "blocked"}
Unlisted == [status |-> "absent", attempts |-> 0, token |-> 0, leaseEnd |-> 0,
             dueAt |-> 0, month |-> 0, reserved |-> 0, cost |-> 0, auth |-> FALSE]

\* An answer of the assessment capability; cost -1 stands for None.
NoAnswer == [kind |-> "none", cost |-> -1]
Answers == [kind : {"decision", "retry", "fail", "auth"}, cost : Costs \cup {-1}]

Idle(model, circuit) ==
  [pc |-> "idle", tick |-> 0, queue |-> {}, item |-> 0, claim |-> 0, began |-> 0,
   finished |-> 0, answer |-> NoAnswer, model |-> model, circuit |-> circuit]

TypeOK ==
  /\ now \in 0..MaxTime
  /\ row \in [Decisions ->
       [status : Statuses, attempts : 0..MaxAttempts, token : 0..MaxAttempts,
        leaseEnd : Nat, dueAt : Nat, month : Months, reserved : {0, Reserve},
        cost : Nat, auth : BOOLEAN]]
  /\ budget \in [Months -> [spent : Nat, held : Nat]]
  /\ alert \in [Alerts -> Decisions \cup {0}]
  /\ work \in [Workers ->
       [pc : {"idle", "list", "next", "request", "settle"}, tick : Nat,
        queue : SUBSET Decisions, item : Decisions \cup {0}, claim : 0..MaxAttempts,
        began : Nat, finished : Nat, answer : Answers \cup {NoAnswer},
        model : Models, circuit : BOOLEAN]]
  /\ billed \in [Decisions -> Nat]
  /\ rejected \in [Workers -> Nat]

Init ==
  /\ now = 0
  /\ row = [d \in Decisions |-> Unlisted]
  /\ budget = [m \in Months |-> [spent |-> 0, held |-> 0]]
  /\ alert = [a \in Alerts |-> 0]
  /\ work = [w \in Workers |-> Idle(Min(Models), FALSE)]
  /\ billed = [d \in Decisions |-> 0]
  /\ rejected = [w \in Workers |-> 0]

-----------------------------------------------------------------------------
(* The repository *)

\* The sum of f over a set: as many units as its members have together.
Units(f, S) == UNION {{x} \X (1..f[x]) : x \in S}
Total(f, S) == Cardinality(Units(f, S))

Reserved == [d \in Decisions |-> row[d].reserved]
Costed == [d \in Decisions |-> row[d].cost]
OfMonth(m) == {d \in Decisions : row[d].month = m}

\* _settle takes the reservation back and books the cost, all of it when the
\* cost is unknown; on the row and on the budget of the month it was taken in.
UnknownIsFree(d, c) == IF c = -1 THEN 0 ELSE c
CostOf(d, c) == IF c = -1 THEN row[d].reserved ELSE c

SettledRow(d, c) == [row[d] EXCEPT !.cost = @ + CostOf(d, c), !.reserved = 0]
SettledBudget(D, c) ==
  [m \in Months |->
     LET of == D \cap OfMonth(m)
     IN  [spent |-> budget[m].spent + Total([d \in D |-> CostOf(d, c)], of),
          held  |-> budget[m].held - Total(Reserved, of)]]

\* recover_expired of decisions, by the caller's clock.
AbandonedUnclaimed == {d \in Decisions : row[d].status = "assessing" /\ row[d].token = 0}
Abandoned == {d \in Decisions : row[d].status = "assessing" /\ row[d].leaseEnd <= now}
RecoveredRow ==
  [d \in Decisions |->
     IF d \in Abandoned
       THEN [SettledRow(d, -1) EXCEPT !.status = "failed", !.dueAt = now,
                                      !.token = 0, !.leaseEnd = 0]
       ELSE row[d]]

\* The test of _assert_claim, at the time t the caller believes it is.
OwnedUnchecked(d, k, t) == row[d].status # "absent"
Owned(d, k, t) == /\ row[d].status = "assessing"
                  /\ row[d].token = k
                  /\ row[d].leaseEnd > t

\* claim_decision's conditions, at time t.
Claimable(d, t) == /\ row[d].status \in {"pending", "failed"}
                   /\ row[d].attempts < MaxAttempts
                   /\ row[d].dueAt <= t

ClaimedRow(d, t) == [row[d] EXCEPT !.status = "assessing", !.attempts = @ + 1,
                                   !.token = row[d].attempts + 1, !.leaseEnd = t + Lease]

\* reserve_budget's comparison with the month's limit.
Fits(m) == budget[m].spent + budget[m].held + Reserve <= MonthlyLimit

-----------------------------------------------------------------------------
(* process_once *)

KeyRejected(model) ==
  \E d \in Decisions : row[d].status = "blocked" /\ row[d].auth /\ Model[d] = model

\* The circuit is open once this process, or the table, knows the key is bad.
CircuitFromTable(w) == KeyRejected(work[w].model)
Circuit(w) == work[w].circuit \/ KeyRejected(work[w].model)

\* The first transaction: recovery, and new decisions from fresh evidence, from
\* the sentiment series, or copied from those another key had blocked.
StartTick(w) ==
  /\ work[w].pc = "idle" /\ (now <= Horizon \/ Abandoned # {})
  /\ \E New \in SUBSET {d \in Decisions : /\ row[d].status = "absent"
                                          /\ Model[d] = work[w].model} :
       row' = [d \in Decisions |-> IF d \in New THEN [Unlisted EXCEPT !.status = "pending"]
                                                ELSE RecoveredRow[d]]
  /\ budget' = SettledBudget(Abandoned, -1)
  /\ work' = [work EXCEPT ![w].pc = "list", ![w].tick = now, ![w].circuit = Circuit(w)]
  /\ UNCHANGED <<now, alert, billed, rejected>>

\* The due decisions of this model revision, as of the time the call began.
ListDue(w) ==
  /\ work[w].pc = "list"
  /\ work' = IF work[w].circuit
               THEN [work EXCEPT ![w] = Idle(@.model, TRUE)]
               ELSE [work EXCEPT
                       ![w].pc = "next",
                       ![w].queue = {d \in Decisions : /\ Model[d] = work[w].model
                                                       /\ Claimable(d, work[w].tick)
                                                       /\ work[w].tick <= Horizon}]
  /\ UNCHANGED <<now, row, budget, alert, billed, rejected>>

\* The end of the call; an exception ends it at any decision.
EndTick(w) ==
  /\ work[w].pc = "next" /\ (work[w].queue = {} \/ work[w].circuit)
  /\ work' = [work EXCEPT ![w] = Idle(@.model, @.circuit)]
  /\ UNCHANGED <<now, row, budget, alert, billed, rejected>>

Take(w, d) == /\ work[w].pc = "next" /\ ~work[w].circuit
              /\ work[w].queue # {} /\ d = Min(work[w].queue)

\* Another process has it, or had it.
Unclaimed(w, d) ==
  /\ Take(w, d) /\ ~Claimable(d, work[w].tick)
  /\ work' = [work EXCEPT ![w].queue = @ \ {d}]
  /\ UNCHANGED <<now, row, budget, alert, billed, rejected>>

\* Claimed and blocked in one transaction at no cost: the evidence is too old
\* or too large or the capability is not allowed, or the budget is used up.
Block(w, d) ==
  /\ Take(w, d) /\ Claimable(d, work[w].tick)
  /\ row' = [row EXCEPT ![d] = [ClaimedRow(d, work[w].tick) EXCEPT
                                  !.status = "blocked", !.token = 0, !.leaseEnd = 0,
                                  !.dueAt = 0]]
  /\ work' = [work EXCEPT ![w].queue = @ \ {d}]
  /\ UNCHANGED <<now, budget, alert, billed, rejected>>

\* Claimed with its reservation, and the request is on its way.
Request(w, d) ==
  LET m == Month(work[w].tick) IN
  /\ Take(w, d) /\ Claimable(d, work[w].tick) /\ Fits(m)
  /\ row' = [row EXCEPT ![d] = [ClaimedRow(d, work[w].tick) EXCEPT
                                  !.reserved = Reserve, !.month = m]]
  /\ budget' = [budget EXCEPT ![m].held = @ + Reserve]
  /\ work' = [work EXCEPT ![w].pc = "request", ![w].item = d, ![w].began = now,
                          ![w].claim = row[d].attempts + 1, ![w].queue = @ \ {d}]
  /\ UNCHANGED <<now, alert, billed, rejected>>

\* What comes of a request, and what the provider has charged for it: a usage
\* that is reported is the charge; a lost or unreadable answer may have cost
\* anything up to the worst case, and a rejected key costs nothing.
Outcomes ==
  [kind : {"decision", "fail"}, cost : Costs] \cup
  [kind : {"retry", "fail", "auth"}, cost : {-1}]
Charges(answer) == IF answer.cost # -1 THEN {answer.cost}
                   ELSE IF answer.kind = "auth" THEN {0}
                   ELSE {0, Reserve}

Respond(w) ==
  /\ work[w].pc = "request"
  /\ \E answer \in Outcomes :
       /\ work' = [work EXCEPT ![w].pc = "settle", ![w].answer = answer, ![w].began = 0,
                               ![w].finished = work[w].tick + (now - work[w].began)]
       /\ \E charge \in Charges(answer) :
            billed' = [billed EXCEPT ![work[w].item] = @ + charge]
       /\ rejected' = [rejected EXCEPT ![w] = @ + IF answer.kind = "auth" THEN 1 ELSE 0]
  /\ UNCHANGED <<now, row, budget, alert>>

\* The row complete_decision or fail_decision leaves behind.
AnsweredRow(w) ==
  LET d == work[w].item
      a == work[w].answer
  IN  [SettledRow(d, a.cost) EXCEPT
         !.status = CASE a.kind = "decision" -> "completed"
                      [] a.kind = "retry" -> "failed"
                      [] a.kind \in {"fail", "auth"} -> "blocked",
         !.dueAt = IF a.kind = "retry" THEN work[w].finished + RetryDelay
                   ELSE IF a.kind \in {"fail", "auth"} THEN 0 ELSE @,
         !.auth = a.kind = "auth",
         !.token = 0, !.leaseEnd = 0]

\* The circuit follows the last answer that was an error.
AnsweredCircuit(w) ==
  IF work[w].answer.kind = "decision" THEN work[w].circuit
                                      ELSE work[w].answer.kind = "auth"

\* The second transaction.  A decision to alert that the policy lets pass queues
\* the alert, unless the outbox has one of this event, revision and kind.  A
\* claim that is not ours any more raises StaleClaimError out of process_once.
Settle(w) ==
  LET d == work[w].item IN
  /\ work[w].pc = "settle"
  /\ IF Owned(d, work[w].claim, work[w].finished)
       THEN /\ row' = [row EXCEPT ![d] = AnsweredRow(w)]
            /\ budget' = SettledBudget({d}, work[w].answer.cost)
            /\ \/ UNCHANGED alert
               \/ /\ work[w].answer.kind = "decision" /\ alert[Alert[d]] = 0
                  /\ alert' = [alert EXCEPT ![Alert[d]] = d]
            /\ work' = [work EXCEPT ![w] =
                          [Idle(@.model, AnsweredCircuit(w)) EXCEPT
                             !.pc = "next", !.tick = work[w].tick, !.queue = work[w].queue]]
       ELSE /\ work' = [work EXCEPT ![w] = Idle(@.model, AnsweredCircuit(w))]
            /\ UNCHANGED <<row, budget, alert>>
  /\ UNCHANGED <<now, billed, rejected>>

-----------------------------------------------------------------------------
(* The rest of the world *)

\* A database error ends the call where it stands.
TickFails(w) ==
  /\ work[w].pc # "idle"
  /\ work' = [work EXCEPT ![w] = Idle(@.model, IF @.pc = "settle" THEN AnsweredCircuit(w)
                                                                ELSE @.circuit)]
  /\ UNCHANGED <<now, row, budget, alert, billed, rejected>>

\* The process dies, its request billed or not, and is started again, perhaps
\* with a newer key or configuration.
Restart(w) ==
  /\ \E m \in Models : m >= work[w].model /\ work' = [work EXCEPT ![w] = Idle(m, FALSE)]
  /\ IF work[w].pc = "request"
       THEN \E charge \in {0, Reserve} :
              billed' = [billed EXCEPT ![work[w].item] = @ + charge]
       ELSE UNCHANGED billed
  /\ rejected' = [rejected EXCEPT ![w] = 0]
  /\ UNCHANGED <<now, row, budget, alert>>

\* The dispatcher runs recover_expired too, unless it is in shadow mode or has no
\* token or destination.
DispatcherRecovers ==
  /\ row' = RecoveredRow
  /\ budget' = SettledBudget(Abandoned, -1)
  /\ UNCHANGED <<now, alert, work, billed, rejected>>

\* Time passes; a request ends by its timeout.
Tick ==
  /\ now < MaxTime
  /\ \A w \in Workers : work[w].pc = "request" => now < work[w].began + RequestTime
  /\ now' = now + 1
  /\ UNCHANGED <<row, budget, alert, work, billed, rejected>>

Step(w) ==
  \/ StartTick(w) \/ ListDue(w) \/ EndTick(w) \/ Respond(w) \/ Settle(w)
  \/ \E d \in Decisions : Unclaimed(w, d) \/ Block(w, d) \/ Request(w, d)

Next ==
  \/ \E w \in Workers : Step(w) \/ TickFails(w) \/ Restart(w)
  \/ DispatcherRecovers
  \/ Tick

Spec == Init /\ [][Next]_vars

\* Time passes, a request ends by its timeout, and each process goes on with what
\* it began or is started again, and comes back to process_once; the dispatcher,
\* which may be in shadow mode, is not counted on.
FairSpec == Spec /\ WF_vars(Tick) /\ \A w \in Workers : WF_vars(Step(w))

-----------------------------------------------------------------------------
(* Properties *)

\* The two ledgers agree: what a month holds is what its rows have reserved,
\* and what the months have spent is what the decisions cost.
BudgetBalanced ==
  /\ \A m \in Months : budget[m].held = Total(Reserved, OfMonth(m))
  /\ Total([m \in Months |-> budget[m].spent], Months) = Total(Costed, Decisions)

\* A month's budget is never exceeded, by all workers together ("Monthly Jev
\* reservations are shared across workers", README.md).
WithinLimit == \A m \in Months : budget[m].spent + budget[m].held <= MonthlyLimit

\* Nothing the provider billed is missing from the books, whatever was lost,
\* retried or restarted ("unknown request costs conservatively consume the
\* reservation", README.md).
LedgerCoversBill == \A d \in Decisions : billed[d] <= row[d].cost + row[d].reserved

\* A queued alert comes from a decision that was completed.
AlertIsDecided == \A a \in Alerts : alert[a] # 0 => row[alert[a]].status = "completed"

\* The books of the two assessors and of recovery are sound together: the ledgers
\* agree, keep the limit and cover the bill, and only a decision on them has
\* queued an alert.
BooksAreSound ==
  TypeOK /\ BudgetBalanced /\ WithinLimit /\ LedgerCoversBill /\ AlertIsDecided

\* A decision that was completed or blocked is never assessed, charged or
\* written again, by a stale answer, a recovery or another process.
DecidedStep ==
  \A d \in Decisions : row[d].status \in {"completed", "blocked"} => row'[d] = row[d]
DecidedStays == [][DecidedStep]_vars

\* A process asks at most once with a key the provider rejects ("a bad key
\* opens the circuit before another paid request", alerts/service.py).
RejectedOnce == \A w \in Workers : rejected[w] <= 1

\* A decision does not stay claimed: its reservation is settled in the end,
\* also when the process that held it died.
EventuallySettled ==
  \A d \in Decisions : row[d].status = "assessing" ~> row[d].status # "assessing"
==============================================================================
