-------------------------- MODULE HarnessExecutor --------------------------
(***************************************************************************)
(* One run of the harness: Executor.execute_batch and _invoke              *)
(* (harness/executor.py) with the RunBudget all batches of the run share   *)
(* (harness/contracts.py).                                                 *)
(*                                                                         *)
(* A batch is an ordered list of calls, each of a capability with an       *)
(* effect.  All calls of a batch become tasks at once and wait for those   *)
(* they depend on: the ones they name, the last write before them, and,    *)
(* for a write, everything before it.  A call of a leaf takes a slot of    *)
(* the executor; a call of a sub-agent takes none, since its handler       *)
(* issues a batch of its own.  Timeouts and cancellation end a handler at  *)
(* its next await, and what it had asked of the outside may still happen.  *)
(*                                                                         *)
(* The tokens of model requests, traces and the size of results are left   *)
(* out.  "failed" also stands for unavailable and for a budget that runs   *)
(* out inside a handler.                                                   *)
(***************************************************************************)
EXTENDS Integers, FiniteSets

CONSTANTS N,            \* calls of a run are 1..N, in the order they are issued
          Plans,        \* what the model may ask for: functions on 1..N
          MaxCalls,     \* limits.max_calls_per_run
          MaxDepth,     \* limits.max_agent_depth
          MaxAttempts,  \* max_attempts of the capabilities
          Slots,        \* limits.max_parallel_calls
          GroupSlots    \* limit of the one concurrency group

Ids == 1..N
Effects == {"read", "cache", "write", "delivery"}
Level == [read |-> 0, cache |-> 1, write |-> 2, delivery |-> 3]

\* batch: the sub-agent's call whose handler issues this one, 0 for the run's own.
\* refused: what validation finds wrong with the call, if anything.
Plan == [Ids -> [batch : 0..N, effect : Effects, agent : BOOLEAN, deps : SUBSET Ids,
                 grouped : BOOLEAN, idempotent : BOOLEAN,
                 refused : {"no", "unavailable", "denied", "invalid_arguments"}]]

ASSUME HarnessAssumption ==
  /\ N \in Nat \ {0} /\ Plans \subseteq Plan
  /\ {MaxCalls, MaxDepth} \subseteq Nat
  /\ {MaxAttempts, Slots, GroupSlots} \subseteq Nat \ {0}
  /\ \A p \in Plans : \A c \in Ids :
       p[c].batch < c /\ (p[c].batch # 0 => p[p[c].batch].agent)

VARIABLES
  plan,      \* the calls of this run
  issued,    \* batches that were issued: 0 and calls of sub-agents
  stopping,  \* batches whose tasks are being cancelled
  pc, status,
  attempt,   \* retries of the call so far
  runs,      \* how often its handler began
  took,      \* how often its effect was taken
  calls,     \* budget.calls
  overdue    \* the run's deadline has passed

vars == <<plan, issued, stopping, pc, status, attempt, runs, took, calls, overdue>>

Statuses == {"ok", "invalid_arguments", "denied", "unavailable", "timeout", "failed",
             "unknown_outcome", "budget_exceeded", "dependency_failed"}

TypeOK ==
  /\ plan \in Plans
  /\ issued \subseteq 0..N /\ stopping \subseteq issued
  /\ pc \in [Ids -> {"idle", "waiting", "ready", "queued", "group", "running",
                     "stopping", "done"}]
  /\ status \in [Ids -> Statuses \cup {"none", "cancelled"}]
  /\ \A c \in Ids : pc[c] = "done" <=> status[c] # "none"
  /\ attempt \in [Ids -> 0..(MaxAttempts - 1)]
  /\ runs \in [Ids -> 0..MaxAttempts] /\ took \in [Ids -> 0..MaxAttempts]
  /\ calls \in 0..MaxCalls
  /\ overdue \in BOOLEAN

Init ==
  /\ plan \in Plans
  /\ issued = {} /\ stopping = {}
  /\ pc = [c \in Ids |-> "idle"] /\ status = [c \in Ids |-> "none"]
  /\ attempt = [c \in Ids |-> 0] /\ runs = [c \in Ids |-> 0] /\ took = [c \in Ids |-> 0]
  /\ calls = 0
  /\ overdue = FALSE

-----------------------------------------------------------------------------
(* Batches *)

Batch(b) == {c \in Ids : plan[c].batch = b}

Ancestors[c \in 0..N] ==
  IF c = 0 THEN {} ELSE {plan[c].batch} \cup Ancestors[plan[c].batch]

\* context.depth of the batch b.
Depth(b) == Cardinality(Ancestors[b])

\* What the handler of c delegates, at any depth: whatever is closed under
\* delegation and holds the calls of its batch has these too.
Below(c) ==
  {d \in Ids : \A S \in SUBSET Ids :
     Batch(c) \subseteq S /\ (\A e \in S : Batch(e) \subseteq S) => d \in S}

\* A sub-agent passes on the effects up to its own; since its own was allowed,
\* these are all allowed where it was called.
AnyEffect(b) == Effects
AllowedEffects(b) ==
  IF b = 0 THEN Effects ELSE {e \in Effects : Level[e] <= Level[plan[b].effect]}

Earlier(c) == {d \in Batch(plan[c].batch) : d < c}

\* An unknown capability has no effect to wait for.
IsWrite(c) == plan[c].refused # "unavailable" /\ plan[c].effect # "read"

LastWrite(c) ==
  {w \in Earlier(c) : IsWrite(w) /\ \A d \in Earlier(c) : IsWrite(d) => d <= w}

RequiredDependencies(c) == plan[c].deps \cup LastWrite(c)

Dependencies(c) == RequiredDependencies(c) \cup (IF IsWrite(c) THEN Earlier(c) ELSE {})

\* Every dependency is a call of the batch, and some order respects them all.
ValidDependencies(b) ==
  /\ \A c \in Batch(b) : Dependencies(c) \subseteq Batch(b)
  /\ \A S \in SUBSET Batch(b) : S # {} => \E c \in S : Dependencies(c) \cap S = {}

\* What validation answers to a call of the batch b, "none" if it is accepted.
Refusal(c) ==
  LET b == plan[c].batch IN
  IF plan[c].refused # "no" THEN plan[c].refused
  ELSE IF plan[c].effect \notin AllowedEffects(b) THEN "denied"
  ELSE IF plan[c].agent /\ Depth(b) >= MaxDepth THEN "budget_exceeded"
  ELSE "none"

\* budget.reserve, call by call in the order of the batch.
Granted(b) ==
  {c \in Batch(b) :
     /\ Refusal(c) = "none" /\ ~overdue
     /\ calls + Cardinality({d \in Batch(b) : d <= c /\ Refusal(d) = "none"}) <= MaxCalls}

Answer(b, c) ==
  IF ~ValidDependencies(b) THEN "invalid_arguments"
  ELSE IF c \in Granted(b) THEN "none"
  ELSE IF Refusal(c) = "none" THEN "budget_exceeded" ELSE Refusal(c)

\* execute_batch up to the creation of its tasks: refused calls are answered at
\* once, the others wait for their dependencies.
Issue(b) ==
  /\ b \notin issued
  /\ IF b = 0 THEN TRUE ELSE pc[b] = "running" /\ plan[b].batch \notin stopping
  /\ Batch(b) # {}
  /\ issued' = issued \cup {b}
  /\ status' = [c \in Ids |-> IF c \in Batch(b) THEN Answer(b, c) ELSE status[c]]
  /\ pc' = [c \in Ids |-> IF c \notin Batch(b) THEN pc[c]
                          ELSE IF Answer(b, c) = "none" THEN "waiting" ELSE "done"]
  /\ calls' = IF ValidDependencies(b) THEN calls + Cardinality(Granted(b)) ELSE calls
  /\ UNCHANGED <<plan, stopping, attempt, runs, took, overdue>>

-----------------------------------------------------------------------------
(* Calls *)

\* The task of c runs on: it has not been cancelled.
Live(c) == plan[c].batch \notin stopping

End(c, s) ==
  /\ pc' = [pc EXCEPT ![c] = "done"]
  /\ status' = [status EXCEPT ![c] = s]

\* A call whose dependencies are done goes on, or fails with a required one.
Depend(c) ==
  /\ pc[c] = "waiting" /\ Live(c)
  /\ \A d \in Dependencies(c) : pc[d] = "done"
  /\ IF \E d \in RequiredDependencies(c) : status[d] # "ok"
       THEN End(c, "dependency_failed")
       ELSE /\ pc' = [pc EXCEPT ![c] = "ready"]
            /\ UNCHANGED status
  /\ UNCHANGED <<plan, issued, stopping, attempt, runs, took, calls, overdue>>

EveryAttempt(c) == MaxAttempts
Attempts(c) ==
  IF plan[c].effect = "read" \/ (plan[c].effect = "cache" /\ plan[c].idempotent)
    THEN MaxAttempts ELSE 1

\* What a new attempt takes of the budget: the first was reserved by the batch.
RetriesAreFree(c) == 0
RetryCost(c) == IF attempt[c] = 0 THEN 0 ELSE 1

\* Leaves hold a slot while they wait for their group and while they run.
EveryCallTakesSlot(c) == TRUE
TakesSlot(c) == ~plan[c].agent
SlotsUsed == Cardinality({c \in Ids : TakesSlot(c) /\ pc[c] \in {"group", "running", "stopping"}})
GroupUsed == Cardinality({c \in Ids : plan[c].grouped /\ pc[c] = "running"})

\* An attempt begins: the deadline, then the budget, then the wait for a slot.
Attempt(c) ==
  /\ pc[c] = "ready" /\ Live(c)
  /\ IF overdue THEN End(c, "timeout") /\ UNCHANGED calls
     ELSE IF calls + RetryCost(c) > MaxCalls THEN End(c, "budget_exceeded") /\ UNCHANGED calls
     ELSE /\ pc' = [pc EXCEPT ![c] = "queued"]
          /\ calls' = calls + RetryCost(c)
          /\ UNCHANGED status
  /\ UNCHANGED <<plan, issued, stopping, attempt, runs, took, overdue>>

Begin(c) ==
  /\ pc' = [pc EXCEPT ![c] = "running"]
  /\ runs' = [runs EXCEPT ![c] = @ + 1]

\* invoke_with_slots: a slot of the executor first, then one of the group.
TakeSlot(c) ==
  /\ pc[c] = "queued" /\ Live(c)
  /\ TakesSlot(c) => SlotsUsed < Slots
  /\ IF TakesSlot(c) /\ plan[c].grouped
       THEN /\ pc' = [pc EXCEPT ![c] = "group"]
            /\ UNCHANGED runs
       ELSE Begin(c)
  /\ UNCHANGED <<plan, issued, stopping, status, attempt, took, calls, overdue>>

TakeGroup(c) ==
  /\ pc[c] = "group" /\ Live(c) /\ GroupUsed < GroupSlots
  /\ Begin(c)
  /\ UNCHANGED <<plan, issued, stopping, status, attempt, took, calls, overdue>>

\* The handler of a leaf that is no read changes something outside.
HasEffect(c) == ~plan[c].agent /\ plan[c].effect # "read"

Act(c) ==
  /\ pc[c] = "running" /\ Live(c) /\ HasEffect(c) /\ took[c] < runs[c]
  /\ took' = [took EXCEPT ![c] = @ + 1]
  /\ UNCHANGED <<plan, issued, stopping, pc, status, attempt, runs, calls, overdue>>

\* What was asked of the outside happens after the handler was given up.
LateAct(c) ==
  /\ pc[c] = "done" /\ status[c] \in {"unknown_outcome", "cancelled", "timeout"}
  /\ HasEffect(c) /\ took[c] < runs[c]
  /\ took' = [took EXCEPT ![c] = @ + 1]
  /\ UNCHANGED <<plan, issued, stopping, pc, status, attempt, runs, calls, overdue>>

\* A handler that is waiting for its batch has not returned.
HandlerFree(c) == \A d \in Batch(c) : pc[d] \in {"idle", "done"}

\* The handler returns, raises a capability error, or raises anything else.
Return(c) ==
  /\ pc[c] = "running" /\ Live(c) /\ HandlerFree(c)
  /\ \/ (HasEffect(c) => took[c] = runs[c]) /\ End(c, "ok")
     \/ End(c, "failed")
     \/ plan[c].effect # "read" /\ End(c, "unknown_outcome")
  /\ UNCHANGED <<plan, issued, stopping, attempt, runs, took, calls, overdue>>

\* The handler of a leaf raises TransientCapabilityError.  A sub-agent's does
\* not: the failures of its calls are results.
Transient(c) ==
  /\ pc[c] = "running" /\ Live(c) /\ ~plan[c].agent
  /\ IF attempt[c] + 1 < Attempts(c)
       THEN /\ pc' = [pc EXCEPT ![c] = "ready"]
            /\ attempt' = [attempt EXCEPT ![c] = @ + 1]
            /\ UNCHANGED status
       ELSE End(c, "failed") /\ UNCHANGED attempt
  /\ UNCHANGED <<plan, issued, stopping, runs, took, calls, overdue>>

TimeoutIsTimeout(c) == "timeout"
TimeoutStatus(c) ==
  IF runs[c] > 0 /\ plan[c].effect # "read" THEN "unknown_outcome" ELSE "timeout"

\* The task's await is interrupted: a handler waiting for its batch cancels that
\* first, any other ends with the status s.
Interrupt(c, s) ==
  IF pc[c] = "running" /\ ~HandlerFree(c)
    THEN /\ pc' = [pc EXCEPT ![c] = "stopping"]
         /\ stopping' = stopping \cup {c}
         /\ UNCHANGED status
    ELSE End(c, s) /\ UNCHANGED stopping

\* asyncio.timeout of a capability covers the wait for a slot as well.
TimeOut(c) ==
  /\ pc[c] \in {"queued", "group", "running"} /\ Live(c)
  /\ Interrupt(c, TimeoutStatus(c))
  /\ UNCHANGED <<plan, issued, attempt, runs, took, calls, overdue>>

\* The tasks of a batch that is given up are cancelled.
Cancel(c) ==
  /\ ~Live(c) /\ pc[c] \in {"waiting", "ready", "queued", "group", "running"}
  /\ Interrupt(c, "cancelled")
  /\ UNCHANGED <<plan, issued, attempt, runs, took, calls, overdue>>

\* ... and awaited, before the call that issued the batch ends.
AtOnce(c) == TRUE
Drained(c) == HandlerFree(c)

Stopped(c) ==
  /\ pc[c] = "stopping" /\ Drained(c)
  /\ End(c, IF Live(c) THEN TimeoutStatus(c) ELSE "cancelled")
  /\ UNCHANGED <<plan, issued, stopping, attempt, runs, took, calls, overdue>>

-----------------------------------------------------------------------------
(* The run *)

Returned == 0 \in issued /\ \A c \in Batch(0) : pc[c] = "done"

\* The caller of the run is cancelled.
CancelRun ==
  /\ 0 \in issued /\ 0 \notin stopping /\ ~Returned
  /\ stopping' = stopping \cup {0}
  /\ UNCHANGED <<plan, issued, pc, status, attempt, runs, took, calls, overdue>>

DeadlinePasses ==
  /\ ~overdue /\ ~Returned
  /\ overdue' = TRUE
  /\ UNCHANGED <<plan, issued, stopping, pc, status, attempt, runs, took, calls>>

Ended == Returned /\ UNCHANGED vars

CallStep(c) == Issue(c) \/ Depend(c) \/ Attempt(c) \/ TakeSlot(c) \/ TakeGroup(c) \/ Act(c)
               \/ Return(c) \/ Cancel(c) \/ Stopped(c)

Next ==
  \/ Issue(0)
  \/ \E c \in Ids : CallStep(c) \/ LateAct(c) \/ Transient(c) \/ TimeOut(c)
  \/ CancelRun \/ DeadlinePasses \/ Ended

Spec == Init /\ [][Next]_vars

\* Tasks that can go on do, and handlers return; no timeout has to strike.
FairSpec == Spec /\ WF_vars(Issue(0)) /\ \A c \in Ids : WF_vars(CallStep(c))

-----------------------------------------------------------------------------
(* Properties *)

\* docs/harness.md: "Writes form ordered barriers."  No handler of a batch begins
\* before every earlier write and every call it names ended well, and a write's
\* begins when everything before it is over, whatever failed or timed out.
WritesAreBarriers ==
  \A c \in Ids : runs[c] > 0 =>
    /\ \A d \in Earlier(c) : IsWrite(d) => status[d] = "ok"
    /\ \A d \in plan[c].deps : status[d] = "ok"
    /\ IsWrite(c) => \A d \in Earlier(c) : pc[d] = "done"

\* A cache that may be written again; nothing else may take effect twice.
Repeatable(c) == plan[c].effect = "cache" /\ plan[c].idempotent

\* docs/harness.md: "Unknown write outcomes are never automatically retried."
\* Nothing that may not be repeated takes effect twice.
WritesOnce == \A c \in Ids : Repeatable(c) \/ took[c] <= 1

\* What a batch writes is written in order and once.
WritesAreSound == WritesAreBarriers /\ WritesOnce

\* A status that says nothing happened is true of the call and of everything its
\* handler delegated, then and later.
StatusIsHonest ==
  \A c \in Ids :
    status[c] \in {"timeout", "denied", "invalid_arguments", "dependency_failed"} =>
      \A d \in Below(c) \cup {c} : Repeatable(d) \/ took[d] = 0

\* <<c, k>>: the handler of c began for the k-th time.
Starts == {x \in Ids \X (1..MaxAttempts) : x[2] <= runs[x[1]]}

\* All batches and retries of a run together start no more handlers than it has
\* calls.
WithinBudget == TypeOK /\ Cardinality(Starts) <= calls /\ calls <= MaxCalls

\* A batch is over before the call that issued it: no handler runs on behind a
\* result that was reported, or behind a cancelled run.
NothingOutlives ==
  \A c \in Ids : pc[c] = "done" => \A d \in Below(c) : pc[d] \in {"idle", "done"}

\* A run and what it delegates keep to its calls and to its time.
RunIsContained == WithinBudget /\ NothingOutlives

\* No order of nested batches, slots and groups leaves calls waiting for one
\* another: even if no timeout strikes, every run returns.
BatchEnds == <>Returned
=============================================================================
