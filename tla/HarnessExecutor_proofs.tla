------------------------ MODULE HarnessExecutor_proofs ------------------------
(***************************************************************************)
(* Proofs about a run of the harness, for any number of calls, any plan,   *)
(* any limits and any number of slots.                                     *)
(***************************************************************************)
EXTENDS HarnessExecutor, TLAPS, FiniteSetTheorems, WellFoundedInduction

\* A call that waits for the start of an attempt, and one whose handler is on.
Pending == {"ready", "queued", "group"}
Handling == {"running", "stopping"}
Over == {"idle", "done"}
States == {"waiting"} \cup Pending \cup Handling \cup Over

\* The statuses that say that nothing happened.
Silent == {"timeout", "denied", "invalid_arguments", "dependency_failed"}

\* A handler begins once per attempt, and a call is attempted again only if it may
\* be; a call that claims that nothing happened had no effect or may be repeated.
\* p, s, a, r, t: where the call stands, its status, attempts, starts and effects.
Consistent(c, p, s, a, r, t) ==
  /\ p \in {"idle", "waiting"} => a = 0 /\ r = 0
  /\ p \in Pending => r = a
  /\ p \in Handling => r = a + 1
  /\ r <= a + 1
  /\ a < Attempts(c) /\ (a > 0 => ~plan[c].agent)
  /\ t <= r /\ (t > 0 => HasEffect(c))
  /\ s = "ok" => r > 0
  /\ s \in Silent => \/ r = 0 \/ plan[c].effect = "read"
                     \/ Repeatable(c) /\ ~plan[c].agent
CallInv(c) == Consistent(c, pc[c], status[c], attempt[c], runs[c], took[c])

\* A batch was issued by a handler that was on, is over when its issuer is, and
\* what is behind a read only reads.
BatchInv(c) ==
  /\ pc[c] = "idle" <=> plan[c].batch \notin issued
  /\ c \in issued => /\ plan[c].agent /\ runs[c] > 0
                     /\ pc[c] \in Handling \cup {"done"}
  /\ pc[c] = "done" => \A d \in Batch(c) : pc[d] \in Over
  /\ /\ pc[c] \notin Over \/ runs[c] > 0
     /\ plan[c].batch # 0 /\ plan[plan[c].batch].effect = "read"
     => plan[c].effect = "read"

\* What a call waits for is behind it, for all of its attempts.
Behind(c) ==
  /\ \A d \in Earlier(c) : IsWrite(d) => status[d] = "ok"
  /\ \A d \in plan[c].deps : status[d] = "ok"
  /\ IsWrite(c) => \A d \in Earlier(c) : pc[d] = "done"
BarrierInv(c) == pc[c] \in Pending \cup Handling \/ runs[c] > 0 => Behind(c)

StateInv == TypeOK /\ \A c \in Ids : CallInv(c) /\ BatchInv(c) /\ BarrierInv(c)

\* The k-th attempt of a call was taken of the budget, and was not given up before
\* its handler began.
Paid(p, a, r, k) ==
  \/ k <= r
  \/ k = a + 1 /\ (p \in {"waiting", "queued", "group"} \/ (p = "ready" /\ a = 0))
Payments ==
  {x \in Ids \X (1..MaxAttempts) : Paid(pc[x[1]], attempt[x[1]], runs[x[1]], x[2])}

BudgetInv == Cardinality(Payments) <= calls

IInv == StateInv /\ BudgetInv

-----------------------------------------------------------------------------
(* Constants and sets *)

\* What the assumption says of each constant.
LEMMA Constants ==
  /\ N \in Nat /\ N > 0 /\ MaxCalls \in Nat /\ MaxDepth \in Nat
  /\ MaxAttempts \in Nat /\ MaxAttempts > 0
  /\ IsFiniteSet(Ids) /\ \A c \in Ids : c \in Int /\ c > 0 /\ c <= N
  /\ 0 \notin Ids
<1>1. IsFiniteSet(1..N)
  BY HarnessAssumption, FS_Interval
<1> QED BY <1>1, HarnessAssumption DEF Ids

\* What a plan gives of a call.
LEMMA PlanType ==
  ASSUME TypeOK, NEW c \in Ids
  PROVE  /\ plan[c].batch \in 0..N /\ plan[c].batch < c
         /\ plan[c].effect \in Effects /\ plan[c].agent \in BOOLEAN
         /\ plan[c].deps \subseteq Ids /\ plan[c].idempotent \in BOOLEAN
         /\ plan[c].refused \in {"no", "unavailable", "denied", "invalid_arguments"}
         /\ plan[c].batch # 0 => plan[c].batch \in Ids /\ plan[plan[c].batch].agent
<1>1. plan \in Plan /\ plan \in Plans
  BY HarnessAssumption DEF TypeOK
<1>2. plan[c] \in [batch : 0..N, effect : Effects, agent : BOOLEAN, deps : SUBSET Ids,
                   grouped : BOOLEAN, idempotent : BOOLEAN,
                   refused : {"no", "unavailable", "denied", "invalid_arguments"}]
  BY <1>1 DEF Plan
<1>3. plan[c].batch < c /\ (plan[c].batch # 0 => plan[plan[c].batch].agent)
  BY <1>1, HarnessAssumption
<1>4. plan[c].batch \in 0..N
  BY <1>2
<1>5. plan[c].batch # 0 => plan[c].batch \in Ids
  BY <1>4, Constants DEF Ids
<1> QED BY <1>2, <1>3, <1>4, <1>5

\* A set of calls has a last one.
LEMMA LastOf ==
  ASSUME NEW S \in SUBSET Ids, S # {}
  PROVE  \E m \in S : \A d \in S : d <= m
<1> DEFINE T == {N - c : c \in S}
<1>1. T \subseteq Nat /\ T # {}
  BY Constants
<1>2. PICK x \in T : \A y \in T : ~ (<<y, x>> \in OpToRel(<, Nat))
  BY <1>1, NatLessThanWellFounded, WFMin
<1>3. \A y \in T : ~(y < x)
  BY <1>1, <1>2 DEF OpToRel
<1>4. PICK m \in S : x = N - m
  BY <1>2
<1>5. ASSUME NEW d \in S PROVE d <= m
  <2>1. N - d \in T
    OBVIOUS
  <2>2. ~(N - d < N - m)
    BY <1>3, <1>4, <2>1
  <2> QED BY <2>2, Constants
<1> QED BY <1>5

\* Only the calls of sub-agents have batches, and a batch is below its issuer.
LEMMA BatchType ==
  ASSUME TypeOK, NEW c \in Ids, NEW d \in Batch(c)
  PROVE  d \in Ids /\ plan[d].batch = c /\ plan[c].agent /\ c < d
<1>1. d \in Ids /\ plan[d].batch = c
  BY DEF Batch
<1> QED BY <1>1, PlanType, Constants

\* Every call may be attempted at least once.
LEMMA AttemptsType ==
  ASSUME TypeOK, NEW c \in Ids
  PROVE  Attempts(c) \in 1..MaxAttempts
BY Constants DEF Attempts

-----------------------------------------------------------------------------
(* Steps of one call *)

Elsewhere(c) ==
  \A d \in Ids \ {c} : /\ pc'[d] = pc[d] /\ status'[d] = status[d]
                       /\ attempt'[d] = attempt[d] /\ runs'[d] = runs[d] /\ took'[d] = took[d]
TypesOK ==
  /\ pc' \in [Ids -> States] /\ status' \in [Ids -> Statuses \cup {"none", "cancelled"}]
  /\ attempt' \in [Ids -> 0..(MaxAttempts - 1)]
  /\ runs' \in [Ids -> 0..MaxAttempts] /\ took' \in [Ids -> 0..MaxAttempts]

\* A step of the call c leaves it consistent: nothing else has to be looked at but
\* what is behind it when it sets out and its batch when it ends.
LEMMA OneCall ==
  ASSUME StateInv, NEW c \in Ids, Elsewhere(c), TypesOK,
         plan' = plan, issued' = issued, stopping' \subseteq issued,
         calls' \in 0..MaxCalls, overdue' \in BOOLEAN,
         \/ pc[c] \notin Over
         \/ pc[c] = "done" /\ pc'[c] = "done" /\ status'[c] = status[c] /\ runs'[c] = runs[c],
         pc'[c] # "idle", pc'[c] = "done" <=> status'[c] # "none",
         Consistent(c, pc'[c], status'[c], attempt'[c], runs'[c], took'[c]),
         pc'[c] \in Pending \cup Handling \/ runs'[c] > 0 => Behind(c),
         c \in issued => pc'[c] \in Handling \cup {"done"} /\ runs'[c] > 0,
         pc'[c] = "done" => HandlerFree(c)
  PROVE  StateInv'
<1>1. TypeOK /\ pc \in [Ids -> States] /\ status \in [Ids -> Statuses \cup {"none", "cancelled"}]
  BY DEF StateInv, TypeOK, States, Pending, Handling, Over
<1>2. \A d \in Ids \ {c} : /\ pc'[d] = pc[d] /\ status'[d] = status[d]
                           /\ attempt'[d] = attempt[d] /\ runs'[d] = runs[d]
                           /\ took'[d] = took[d]
  BY DEF Elsewhere
<1>3. TypeOK'
  <2>1. pc' \in [Ids -> {"idle", "waiting", "ready", "queued", "group", "running",
                     "stopping", "done"}]
    BY DEF TypesOK, States, Pending, Handling, Over
  <2>2. \A d \in Ids : pc'[d] = "done" <=> status'[d] # "none"
    BY <1>1, <1>2 DEF TypeOK
  <2> QED BY <1>1, <2>1, <2>2 DEF TypeOK, TypesOK
<1>4. \A d \in Ids : /\ Batch(d)' = Batch(d) /\ Earlier(d)' = Earlier(d)
                     /\ Batch(d) \subseteq Ids /\ Earlier(d) \subseteq Ids
                     /\ IsWrite(d)' = IsWrite(d)
  BY DEF Batch, Earlier, IsWrite
<1>5. \A d \in Ids : /\ status[d] = "ok" => status'[d] = "ok"
                     /\ pc[d] \in Over <=> pc[d] = "idle" \/ pc[d] = "done"
                     /\ pc[d] = "done" => pc'[d] = "done"
                     /\ pc[d] = "idle" <=> pc'[d] = "idle"
                     /\ pc[d] \in Over => pc'[d] \in Over
  BY <1>1, <1>2 DEF Over, TypeOK
<1>6. ASSUME NEW d \in Ids PROVE CallInv(d)'
  <2>1. /\ Attempts(d)' = Attempts(d) /\ HasEffect(d)' = HasEffect(d)
        /\ Repeatable(d)' = Repeatable(d)
    BY DEF Attempts, HasEffect, Repeatable
  <2>2. CASE d = c
    BY <1>2, <2>1, <2>2 DEF CallInv, Consistent
  <2>3. CASE d # c
    BY <1>2, <2>1, <2>3 DEF CallInv, Consistent, StateInv
  <2> QED BY <2>2, <2>3
<1>7. ASSUME NEW d \in Ids PROVE BatchInv(d)'
  <2>1. BatchInv(d)
    BY DEF StateInv
  <2>2. pc'[d] = "idle" <=> plan[d].batch \notin issued
    BY <1>5, <2>1 DEF BatchInv
  <2>3. d \in issued => plan[d].agent /\ runs'[d] > 0 /\ pc'[d] \in Handling \cup {"done"}
    BY <1>2, <2>1 DEF BatchInv
  <2>4. pc'[d] = "done" => \A e \in Batch(d) : pc'[e] \in Over
    <3>1. CASE d = c
      BY <1>2, <1>4, <1>5, <3>1 DEF HandlerFree, Over
    <3>2. CASE d # c
      BY <1>2, <1>4, <1>5, <2>1, <3>2 DEF BatchInv
    <3> QED BY <3>1, <3>2
  <2>5. pc'[d] \notin Over \/ runs'[d] > 0 => pc[d] \notin Over \/ runs[d] > 0
    BY <1>2, <1>5
  <2> QED BY <1>4, <2>1, <2>2, <2>3, <2>4, <2>5 DEF BatchInv
<1>8. ASSUME NEW d \in Ids PROVE BarrierInv(d)'
  <2>1. pc'[d] \in Pending \cup Handling \/ runs'[d] > 0 => Behind(d)
    BY <1>2 DEF StateInv, BarrierInv
  <2>2. plan[d].deps \subseteq Ids
    BY <1>1, PlanType
  <2>3. Behind(d) => Behind(d)'
    BY <1>4, <1>5, <2>2 DEF Behind
  <2> QED BY <2>1, <2>3 DEF BarrierInv
<1> QED BY <1>3, <1>6, <1>7, <1>8 DEF StateInv

\* What the lemmas on actions need of the types of a call.
LEMMA CallType ==
  ASSUME StateInv, NEW c \in Ids
  PROVE  /\ pc[c] \in States /\ status[c] \in Statuses \cup {"none", "cancelled"}
         /\ pc[c] = "done" <=> status[c] # "none"
         /\ attempt[c] \in 0..(MaxAttempts - 1)
         /\ runs[c] \in 0..MaxAttempts /\ took[c] \in 0..MaxAttempts
         /\ Attempts(c) \in 1..MaxAttempts
         /\ stopping \subseteq issued /\ calls \in 0..MaxCalls /\ overdue \in BOOLEAN
         /\ CallInv(c) /\ BatchInv(c) /\ BarrierInv(c)
<1>1. TypeOK /\ Attempts(c) \in 1..MaxAttempts
  BY AttemptsType DEF StateInv
<1> QED BY <1>1 DEF StateInv, TypeOK, States, Pending, Handling, Over

\* The variables of the calls are functions on them.
LEMMA FunctionTypes ==
  StateInv => /\ pc \in [Ids -> States]
              /\ status \in [Ids -> Statuses \cup {"none", "cancelled"}]
              /\ attempt \in [Ids -> 0..(MaxAttempts - 1)]
              /\ runs \in [Ids -> 0..MaxAttempts] /\ took \in [Ids -> 0..MaxAttempts]
BY DEF StateInv, TypeOK, States, Pending, Handling, Over

\* A handler that is not on has no batch, and neither has one of a leaf.
LEMMA NoBatch ==
  ASSUME StateInv, NEW c \in Ids, ~plan[c].agent \/ pc[c] \notin Handling \cup {"done"}
  PROVE  c \notin issued /\ HandlerFree(c)
<1>1. c \notin issued
  BY DEF StateInv, BatchInv
<1>2. \A d \in Batch(c) : pc[d] = "idle"
  BY <1>1 DEF StateInv, BatchInv, Batch
<1> QED BY <1>1, <1>2 DEF HandlerFree

\* A handler that waits for calls has issued them.
LEMMA HasBatch ==
  ASSUME StateInv, NEW c \in Ids, ~HandlerFree(c)
  PROVE  c \in issued
BY DEF StateInv, BatchInv, Batch, HandlerFree

\* A call ends.
LEMMA EndInv ==
  ASSUME StateInv, NEW c \in Ids, NEW s \in Statuses \cup {"cancelled"}, End(c, s),
         UNCHANGED <<plan, issued, attempt, runs, took>>, stopping' \subseteq issued,
         calls' \in 0..MaxCalls, overdue' \in BOOLEAN,
         pc[c] \notin Over, HandlerFree(c),
         s = "ok" => runs[c] > 0,
         s \in Silent => \/ runs[c] = 0 \/ plan[c].effect = "read"
                         \/ Repeatable(c) /\ ~plan[c].agent
  PROVE  StateInv'
<1>1. "done" \in States /\ s # "none" /\ "done" \notin Pending \cup Handling
  BY DEF States, Over, Statuses, Pending, Handling
<1>2. pc'[c] = "done" /\ status'[c] = s /\ Elsewhere(c) /\ TypesOK
  BY <1>1, FunctionTypes DEF End, Elsewhere, TypesOK
<1>3. Consistent(c, pc'[c], status'[c], attempt'[c], runs'[c], took'[c])
  BY <1>2, CallType DEF CallInv, Consistent, Pending, Handling
<1>4. runs[c] > 0 => Behind(c)
  BY CallType DEF BarrierInv
<1>5. c \in issued => runs[c] > 0
  BY CallType DEF BatchInv
<1> QED BY <1>1, <1>2, <1>3, <1>4, <1>5, OneCall

\* A handler begins: its call waited for that, and nothing more is in its way.
LEMMA BeginInv ==
  ASSUME StateInv, NEW c \in Ids, pc[c] \in {"queued", "group"}, Begin(c),
         UNCHANGED <<plan, issued, stopping, status, attempt, took, calls, overdue>>
  PROVE  StateInv'
<1>1. runs[c] = attempt[c] /\ attempt[c] \in 0..(MaxAttempts - 1) /\ took[c] \in 0..MaxAttempts
  BY CallType DEF CallInv, Consistent, Pending
<1>2. runs[c] + 1 \in 0..MaxAttempts /\ runs[c] + 1 > 0
  BY <1>1, Constants
<1>3. pc[c] \notin Over /\ pc[c] # "done" /\ status[c] = "none" /\ c \notin issued
  BY CallType, NoBatch DEF Over, Handling
<1>4. pc'[c] = "running" /\ runs'[c] = runs[c] + 1 /\ Elsewhere(c) /\ TypesOK
  BY <1>2, FunctionTypes DEF Begin, Elsewhere, TypesOK, States, Handling
<1>5. Consistent(c, pc'[c], status'[c], attempt'[c], runs'[c], took'[c])
  BY <1>1, <1>3, <1>4, CallType DEF CallInv, Consistent, Pending, Handling, Silent
<1>6. Behind(c)
  BY CallType DEF BarrierInv, Pending
<1>7. stopping' \subseteq issued /\ calls' \in 0..MaxCalls /\ overdue' \in BOOLEAN
  BY CallType
<1> QED BY <1>3, <1>4, <1>5, <1>6, <1>7, OneCall

\* A call moves on to where it waits for its attempt.
LEMMA WaitInv ==
  ASSUME StateInv, NEW c \in Ids, NEW p \in Pending, pc' = [pc EXCEPT ![c] = p],
         attempt' \in [Ids -> 0..(MaxAttempts - 1)],
         \A d \in Ids \ {c} : attempt'[d] = attempt[d],
         UNCHANGED <<plan, issued, stopping, status, runs, took, overdue>>,
         calls' \in 0..MaxCalls,
         pc[c] \notin Over, c \notin issued, Behind(c),
         runs[c] = attempt'[c], attempt'[c] < Attempts(c), attempt'[c] > 0 => ~plan[c].agent
  PROVE  StateInv'
<1>1. p \in States \ {"idle"} /\ p # "done" /\ p \notin Handling \cup {"idle", "waiting"}
  BY DEF States, Pending, Handling
<1>2. pc'[c] = p /\ Elsewhere(c) /\ TypesOK
  BY <1>1, FunctionTypes DEF Elsewhere, TypesOK
<1>3. status[c] = "none" /\ pc[c] # "done"
  BY CallType DEF Over
<1>4. Consistent(c, pc'[c], status'[c], attempt'[c], runs'[c], took'[c])
  BY <1>1, <1>2, <1>3, CallType DEF CallInv, Consistent, Silent
<1>5. stopping' \subseteq issued /\ overdue' \in BOOLEAN
  BY CallType
<1> QED BY <1>1, <1>2, <1>3, <1>4, <1>5, OneCall

-----------------------------------------------------------------------------
(* Actions on calls *)

\* When the last write before a call ended well, so had all the writes before.
LEMMA WritesBefore ==
  ASSUME StateInv, NEW c \in Ids, \A w \in LastWrite(c) : status[w] = "ok"
  PROVE  \A d \in Earlier(c) : IsWrite(d) => status[d] = "ok"
<1> DEFINE W == {d \in Earlier(c) : IsWrite(d)}
<1> SUFFICES ASSUME W # {} PROVE \A d \in W : status[d] = "ok"
  OBVIOUS
<1>1. Earlier(c) \subseteq Ids
  BY DEF Earlier, Batch
<1>2. PICK m \in W : \A d \in W : d <= m
  BY <1>1, LastOf
<1>3. m \in Ids /\ status[m] = "ok" /\ plan[m].batch = plan[c].batch
  BY <1>1, <1>2 DEF LastWrite, Earlier, Batch
<1>4. Behind(m)
  BY <1>3, CallType DEF CallInv, Consistent, BarrierInv
<1>5. ASSUME NEW d \in W, d # m PROVE d \in Earlier(m)
  BY <1>1, <1>2, <1>3, <1>5, Constants DEF Earlier, Batch
<1> QED BY <1>3, <1>4, <1>5 DEF Behind

\* Depend keeps the invariant.
LEMMA DependInv == ASSUME StateInv, NEW c \in Ids, Depend(c) PROVE StateInv'
<1>1. /\ pc[c] = "waiting" /\ stopping' \subseteq issued /\ calls' \in 0..MaxCalls
      /\ overdue' \in BOOLEAN /\ runs[c] = 0 /\ attempt[c] = 0 /\ Attempts(c) > 0
  BY CallType DEF Depend, CallInv, Consistent
<1>2. pc[c] \notin Over \cup Handling /\ HandlerFree(c) /\ c \notin issued
  BY <1>1, NoBatch DEF Over, Handling
<1>3. CASE End(c, "dependency_failed")
  BY <1>1, <1>2, <1>3, EndInv DEF Depend, Statuses
<1>4. CASE pc' = [pc EXCEPT ![c] = "ready"] /\ UNCHANGED status
          /\ \A d \in RequiredDependencies(c) : status[d] = "ok"
  <2>1. \A d \in Earlier(c) : IsWrite(d) => status[d] = "ok"
    BY <1>4, WritesBefore DEF RequiredDependencies
  <2>2. Behind(c)
    BY <1>4, <2>1 DEF Behind, Depend, Dependencies, RequiredDependencies
  <2>3. "ready" \in Pending /\ attempt' \in [Ids -> 0..(MaxAttempts - 1)] /\ attempt' = attempt
    BY FunctionTypes DEF Pending, Depend
  <2>4. UNCHANGED <<plan, issued, stopping, status, runs, took, overdue>>
    BY <1>4 DEF Depend
  <2>5. runs[c] = attempt'[c] /\ attempt'[c] < Attempts(c) /\ ~(attempt'[c] > 0)
    BY <1>1, <2>3
  <2> QED BY <1>1, <1>2, <1>4, <2>2, <2>3, <2>4, <2>5, WaitInv
<1> QED BY <1>3, <1>4 DEF Depend

\* Attempt keeps the invariant.
LEMMA AttemptInv == ASSUME StateInv, NEW c \in Ids, Attempt(c) PROVE StateInv'
<1>1. /\ pc[c] = "ready" /\ stopping' \subseteq issued /\ overdue' \in BOOLEAN
      /\ attempt[c] \in Nat /\ runs[c] = attempt[c] /\ attempt[c] < Attempts(c)
      /\ attempt[c] > 0 => ~plan[c].agent
  BY CallType DEF Attempt, CallInv, Consistent, Pending
<1>2. pc[c] \notin Over \cup Handling /\ HandlerFree(c) /\ c \notin issued
  BY <1>1, NoBatch DEF Over, Handling
<1>3. CASE End(c, "timeout") /\ UNCHANGED calls
  <2>1. runs[c] > 0 => plan[c].effect = "read" \/ Repeatable(c)
    BY <1>1, CallType DEF Attempts, Repeatable
  <2>2. runs[c] = 0 \/ plan[c].effect = "read" \/ (Repeatable(c) /\ ~plan[c].agent)
    BY <1>1, <2>1
  <2>3. calls' \in 0..MaxCalls
    BY <1>3, CallType
  <2> QED BY <1>1, <1>2, <1>3, <2>2, <2>3, EndInv DEF Attempt, Statuses
<1>4. CASE End(c, "budget_exceeded") /\ UNCHANGED calls
  <2>1. calls' \in 0..MaxCalls /\ "budget_exceeded" \notin Silent
    BY <1>4, CallType DEF Silent
  <2> QED BY <1>1, <1>2, <1>4, <2>1, EndInv DEF Attempt, Statuses
<1>5. CASE /\ pc' = [pc EXCEPT ![c] = "queued"] /\ UNCHANGED status
           /\ calls' = calls + RetryCost(c) /\ ~(calls + RetryCost(c) > MaxCalls)
  <2>1. calls' \in 0..MaxCalls
    BY <1>5, CallType, Constants DEF RetryCost
  <2>2. Behind(c)
    BY <1>1, CallType DEF BarrierInv, Pending
  <2>3. "queued" \in Pending /\ attempt' \in [Ids -> 0..(MaxAttempts - 1)] /\ attempt' = attempt
    BY FunctionTypes DEF Pending, Attempt
  <2>4. UNCHANGED <<plan, issued, stopping, status, runs, took, overdue>>
    BY <1>5 DEF Attempt
  <2> QED BY <1>1, <1>2, <1>5, <2>1, <2>2, <2>3, <2>4, WaitInv
<1> QED BY <1>3, <1>4, <1>5 DEF Attempt

\* TakeSlot keeps the invariant.
LEMMA TakeSlotInv == ASSUME StateInv, NEW c \in Ids, TakeSlot(c) PROVE StateInv'
<1>1. CASE Begin(c)
  BY <1>1, BeginInv DEF TakeSlot
<1>2. CASE pc' = [pc EXCEPT ![c] = "group"] /\ UNCHANGED runs
  <2>1. /\ pc[c] = "queued" /\ calls' \in 0..MaxCalls
        /\ runs[c] = attempt[c] /\ attempt[c] < Attempts(c)
        /\ attempt[c] > 0 => ~plan[c].agent
    BY CallType DEF TakeSlot, CallInv, Consistent, Pending
  <2>2. pc[c] \notin Over \cup Handling /\ c \notin issued
    BY <2>1, NoBatch DEF Over, Handling
  <2>3. Behind(c)
    BY <2>1, CallType DEF BarrierInv, Pending
  <2>4. "group" \in Pending /\ attempt' \in [Ids -> 0..(MaxAttempts - 1)] /\ attempt' = attempt
    BY FunctionTypes DEF Pending, TakeSlot
  <2>5. UNCHANGED <<plan, issued, stopping, status, runs, took, overdue>>
    BY <1>2 DEF TakeSlot
  <2> QED BY <1>2, <2>1, <2>2, <2>3, <2>4, <2>5, WaitInv
<1> QED BY <1>1, <1>2 DEF TakeSlot

\* TakeGroup keeps the invariant.
LEMMA TakeGroupInv == ASSUME StateInv, NEW c \in Ids, TakeGroup(c) PROVE StateInv'
BY BeginInv DEF TakeGroup

\* An effect is taken, by a handler or behind its back.
LEMMA ActInv == ASSUME StateInv, NEW c \in Ids, Act(c) \/ LateAct(c) PROVE StateInv'
<1>1. /\ HasEffect(c) /\ took[c] < runs[c] /\ took' = [took EXCEPT ![c] = @ + 1]
      /\ UNCHANGED <<plan, issued, stopping, pc, status, attempt, runs, calls, overdue>>
      /\ pc[c] \in {"running", "done"}
  BY DEF Act, LateAct
<1>2. took[c] + 1 \in 0..MaxAttempts /\ took[c] + 1 <= runs[c]
  BY <1>1, CallType, Constants
<1>3. took'[c] = took[c] + 1 /\ Elsewhere(c) /\ TypesOK
  BY <1>1, <1>2, FunctionTypes DEF Elsewhere, TypesOK
<1>4. Consistent(c, pc'[c], status'[c], attempt'[c], runs'[c], took'[c])
  BY <1>1, <1>2, <1>3, CallType DEF CallInv, Consistent
<1>5. pc[c] \notin Over \/ pc[c] = "done"
  BY <1>1 DEF Over
<1>6. pc[c] \in Pending \cup Handling \/ runs[c] > 0 => Behind(c)
  BY CallType DEF BarrierInv
<1>7. c \in issued => pc[c] \in Handling \cup {"done"} /\ runs[c] > 0
  BY CallType DEF BatchInv
<1>8. pc[c] = "done" => HandlerFree(c)
  BY CallType DEF BatchInv, HandlerFree, Over
<1>9. /\ stopping' \subseteq issued /\ calls' \in 0..MaxCalls /\ overdue' \in BOOLEAN
      /\ pc[c] # "idle" /\ (pc[c] = "done" <=> status[c] # "none")
  BY <1>1, CallType
<1> QED BY <1>1, <1>3, <1>4, <1>5, <1>6, <1>7, <1>8, <1>9, OneCall

\* Return keeps the invariant.
LEMMA ReturnInv == ASSUME StateInv, NEW c \in Ids, Return(c) PROVE StateInv'
<1>1. /\ pc[c] = "running" /\ HandlerFree(c) /\ runs[c] > 0 /\ stopping' \subseteq issued
      /\ calls' \in 0..MaxCalls /\ overdue' \in BOOLEAN
  BY CallType DEF Return, CallInv, Consistent, Handling
<1>2. PICK s \in {"ok", "failed", "unknown_outcome"} : End(c, s)
  BY DEF Return
<1>3. s \in Statuses /\ s \notin Silent /\ pc[c] \notin Over
  BY <1>1, <1>2 DEF Statuses, Silent, Over
<1> QED BY <1>1, <1>2, <1>3, EndInv DEF Return

\* Transient keeps the invariant.
LEMMA TransientInv == ASSUME StateInv, NEW c \in Ids, Transient(c) PROVE StateInv'
<1>1. /\ pc[c] = "running" /\ ~plan[c].agent /\ runs[c] = attempt[c] + 1
      /\ attempt[c] \in 0..(MaxAttempts - 1) /\ Attempts(c) \in 1..MaxAttempts
      /\ stopping' \subseteq issued /\ calls' \in 0..MaxCalls /\ overdue' \in BOOLEAN
  BY CallType DEF Transient, CallInv, Consistent, Handling
<1>2. pc[c] \notin Over /\ HandlerFree(c) /\ c \notin issued
  BY <1>1, NoBatch DEF Over
<1>3. CASE End(c, "failed") /\ UNCHANGED attempt
  BY <1>1, <1>2, <1>3, EndInv DEF Transient, Statuses, Silent
<1>4. CASE /\ pc' = [pc EXCEPT ![c] = "ready"] /\ attempt' = [attempt EXCEPT ![c] = @ + 1]
           /\ UNCHANGED status /\ attempt[c] + 1 < Attempts(c)
  <2>1. attempt[c] + 1 \in 0..(MaxAttempts - 1)
    BY <1>1, <1>4, Constants
  <2>2. /\ attempt' \in [Ids -> 0..(MaxAttempts - 1)] /\ attempt'[c] = attempt[c] + 1
        /\ \A d \in Ids \ {c} : attempt'[d] = attempt[d]
    BY <1>4, <2>1, FunctionTypes
  <2>3. Behind(c) /\ "ready" \in Pending
    BY <1>1, CallType DEF BarrierInv, Handling, Pending
  <2>4. UNCHANGED <<plan, issued, stopping, status, runs, took, overdue>>
    BY <1>4 DEF Transient
  <2> QED BY <1>1, <1>2, <1>4, <2>2, <2>3, <2>4, WaitInv
<1> QED BY <1>3, <1>4 DEF Transient

\* A call is interrupted: at once, or, while it waits for its batch, for later.
LEMMA InterruptInv ==
  ASSUME StateInv, NEW c \in Ids, NEW s \in {"timeout", "unknown_outcome", "cancelled"},
         Interrupt(c, s), pc[c] \in {"waiting", "ready", "queued", "group", "running"},
         UNCHANGED <<plan, issued, attempt, runs, took, calls, overdue>>,
         s = "timeout" => runs[c] = 0 \/ plan[c].effect = "read"
  PROVE  StateInv'
<1>1. /\ pc[c] \notin Over /\ calls' \in 0..MaxCalls /\ overdue' \in BOOLEAN
      /\ stopping \subseteq issued /\ pc[c] # "done"
  BY CallType DEF Over
<1>2. CASE pc[c] = "running" /\ ~HandlerFree(c)
  <2>1. pc' = [pc EXCEPT ![c] = "stopping"] /\ stopping' = stopping \cup {c} /\ UNCHANGED status
    BY <1>2 DEF Interrupt
  <2>2. stopping' \subseteq issued
    BY <1>1, <1>2, <2>1, HasBatch
  <2>3. /\ pc'[c] = "stopping" /\ Elsewhere(c) /\ TypesOK
        /\ pc'[c] \in Handling /\ status' = status
    BY <2>1, FunctionTypes DEF Elsewhere, TypesOK, States, Handling
  <2>4. Consistent(c, pc'[c], status'[c], attempt'[c], runs'[c], took'[c])
    BY <1>2, <2>3, CallType DEF CallInv, Consistent, Handling, Pending
  <2>5. Behind(c) /\ (c \in issued => runs[c] > 0) /\ status[c] = "none"
    BY <1>1, <1>2, CallType DEF BarrierInv, BatchInv, Handling
  <2> QED BY <1>1, <2>2, <2>3, <2>4, <2>5, OneCall
<1>3. CASE ~(pc[c] = "running" /\ ~HandlerFree(c))
  <2>1. End(c, s) /\ UNCHANGED stopping
    BY <1>3 DEF Interrupt
  <2>2. HandlerFree(c)
    BY <1>3, NoBatch DEF Handling
  <2>3. s \in Statuses \cup {"cancelled"} /\ s # "ok" /\ (s \in Silent => s = "timeout")
    BY DEF Statuses, Silent
  <2> QED BY <1>1, <2>1, <2>2, <2>3, EndInv
<1> QED BY <1>2, <1>3

\* TimeOut keeps the invariant.
LEMMA TimeOutInv == ASSUME StateInv, NEW c \in Ids, TimeOut(c) PROVE StateInv'
<1>1. /\ TimeoutStatus(c) \in {"timeout", "unknown_outcome", "cancelled"}
      /\ TimeoutStatus(c) = "timeout" => runs[c] = 0 \/ plan[c].effect = "read"
  BY CallType DEF TimeoutStatus
<1> QED BY <1>1, InterruptInv DEF TimeOut

\* Cancel keeps the invariant.
LEMMA CancelInv == ASSUME StateInv, NEW c \in Ids, Cancel(c) PROVE StateInv'
BY InterruptInv DEF Cancel

\* Stopped keeps the invariant.
LEMMA StoppedInv == ASSUME StateInv, NEW c \in Ids, Stopped(c) PROVE StateInv'
<1>1. PICK s \in {TimeoutStatus(c), "cancelled"} : End(c, s)
  BY DEF Stopped
<1>2. /\ s \in Statuses \cup {"cancelled"} /\ s # "ok"
      /\ s \in Silent => runs[c] = 0 \/ plan[c].effect = "read"
  BY <1>1, CallType DEF TimeoutStatus, Statuses, Silent
<1>3. /\ pc[c] \notin Over /\ HandlerFree(c) /\ calls' \in 0..MaxCalls
      /\ overdue' \in BOOLEAN /\ stopping' \subseteq issued
  BY CallType DEF Stopped, Over, Drained
<1> QED BY <1>1, <1>2, <1>3, EndInv DEF Stopped

-----------------------------------------------------------------------------
(* Batches *)

\* The budget grants as many calls as it has left.
LEMMA GrantedFits ==
  ASSUME TypeOK, NEW b
  PROVE  /\ IsFiniteSet(Granted(b)) /\ Granted(b) \subseteq Batch(b)
         /\ Cardinality(Granted(b)) \in Nat
         /\ calls + Cardinality(Granted(b)) \in 0..MaxCalls
<1> DEFINE G == Granted(b)
<1>1. G \subseteq Batch(b) /\ Batch(b) \subseteq Ids /\ calls \in 0..MaxCalls
  BY DEF Granted, Batch, TypeOK
<1>2. IsFiniteSet(G) /\ Cardinality(G) \in Nat
  BY <1>1, Constants, FS_Subset, FS_CardinalityType
<1>3. CASE G = {}
  BY <1>1, <1>2, <1>3, FS_EmptySet, Constants
<1>4. CASE G # {}
  <2>1. PICK m \in G : \A d \in G : d <= m
    BY <1>1, <1>4, LastOf
  <2> DEFINE A == {d \in Batch(b) : d <= m /\ Refusal(d) = "none"}
  <2>2. calls + Cardinality(A) <= MaxCalls
    BY <2>1 DEF Granted
  <2>3. G \subseteq A
    BY <2>1 DEF Granted
  <2>4. IsFiniteSet(A) /\ Cardinality(A) \in Nat
    BY <1>1, Constants, FS_Subset, FS_CardinalityType
  <2>5. Cardinality(G) <= Cardinality(A)
    BY <2>3, <2>4, FS_Subset
  <2> QED BY <1>1, <1>2, <2>2, <2>4, <2>5, Constants
<1> QED BY <1>1, <1>2, <1>3, <1>4

\* A call is answered or granted; a granted call of a read is one.
LEMMA AnswerType ==
  ASSUME TypeOK, NEW b, NEW c \in Batch(b)
  PROVE  /\ Answer(b, c) \in (Statuses \ {"ok"}) \cup {"none"}
         /\ Answer(b, c) = "none" => c \in Granted(b) /\ ValidDependencies(b)
         /\ /\ Answer(b, c) = "none" /\ plan[c].batch # 0
            /\ plan[plan[c].batch].effect = "read"
            => plan[c].effect = "read"
<1>1. c \in Ids
  BY DEF Batch
<1>2. Refusal(c) \in (Statuses \ {"ok"}) \cup {"none"}
  BY <1>1, PlanType DEF Refusal, Statuses
<1>3. /\ Answer(b, c) \in (Statuses \ {"ok"}) \cup {"none"}
      /\ Answer(b, c) = "none" => c \in Granted(b) /\ ValidDependencies(b)
  BY <1>2 DEF Answer, Statuses
<1>4. ASSUME c \in Granted(b), plan[c].batch # 0, plan[plan[c].batch].effect = "read"
      PROVE  plan[c].effect = "read"
  <2>1. plan[c].effect \in AllowedEffects(plan[c].batch) /\ plan[c].effect \in Effects
    BY <1>1, <1>4, PlanType DEF Granted, Refusal
  <2>2. Level[plan[c].effect] <= Level["read"]
    BY <1>4, <2>1 DEF AllowedEffects
  <2> QED BY <2>1, <2>2 DEF Level, Effects
<1> QED BY <1>3, <1>4

\* A handler issues its batch.
LEMMA IssueInv == ASSUME StateInv, NEW b \in Ids \cup {0}, Issue(b) PROVE StateInv'
<1>1. /\ TypeOK /\ b \notin issued /\ issued' = issued \cup {b} /\ Batch(b) # {}
      /\ b # 0 => b \in Ids /\ pc[b] = "running"
      /\ UNCHANGED <<plan, stopping, attempt, runs, took, overdue>>
  BY Constants DEF Issue, StateInv
<1>2. \A c \in Batch(b) : /\ c \in Ids /\ pc[c] = "idle" /\ plan[c].batch = b
                          /\ status[c] = "none" /\ runs[c] = 0 /\ attempt[c] = 0 /\ c \notin issued
  BY <1>1, CallType, NoBatch DEF BatchInv, Batch, CallInv, Consistent, Handling
<1>3. \A c \in Batch(b) : /\ Answer(b, c) \in (Statuses \ {"ok"}) \cup {"none"}
                          /\ pc'[c] = IF Answer(b, c) = "none" THEN "waiting" ELSE "done"
                          /\ status'[c] = Answer(b, c)
  BY <1>1, <1>2, AnswerType DEF Issue
<1>4. \A c \in Ids \ Batch(b) : pc'[c] = pc[c] /\ status'[c] = status[c]
  BY DEF Issue
<1>5. TypeOK'
  <2>1. /\ pc' \in [Ids -> {"idle", "waiting", "ready", "queued", "group", "running",
                            "stopping", "done"}]
        /\ status' \in [Ids -> Statuses \cup {"none", "cancelled"}]
    BY <1>1, <1>3, <1>4 DEF Issue, TypeOK, Batch
  <2>2. \A c \in Ids : pc'[c] = "done" <=> status'[c] # "none"
    <3>1. \A c \in Ids \ Batch(b) : pc'[c] = "done" <=> status'[c] # "none"
      BY <1>1, <1>4 DEF TypeOK
    <3>2. \A c \in Batch(b) : pc'[c] = "done" <=> status'[c] # "none"
      BY <1>3
    <3> QED BY <3>1, <3>2
  <2>3. issued' \subseteq 0..N /\ stopping' \subseteq issued'
    BY <1>1, Constants DEF TypeOK, Ids
  <2>4. calls' \in 0..MaxCalls
    BY <1>1, GrantedFits DEF Issue, TypeOK
  <2> QED BY <1>1, <2>1, <2>2, <2>3, <2>4 DEF TypeOK
<1>6. \A c \in Ids : /\ Batch(c)' = Batch(c) /\ Earlier(c)' = Earlier(c)
                     /\ Batch(c) \subseteq Ids /\ Earlier(c) \subseteq Ids
                     /\ IsWrite(c)' = IsWrite(c)
                     /\ Attempts(c)' = Attempts(c) /\ HasEffect(c)' = HasEffect(c)
                     /\ Repeatable(c)' = Repeatable(c)
  BY <1>1 DEF Batch, Earlier, IsWrite, Attempts, HasEffect, Repeatable
<1>7. ASSUME NEW c \in Ids PROVE CallInv(c)'
  <2>1. CallInv(c)
    BY CallType
  <2>2. CASE c \in Batch(b)
    <3>1. pc'[c] \in {"waiting", "done"} /\ status'[c] # "ok" /\ runs'[c] = 0 /\ attempt'[c] = 0
      BY <1>1, <1>2, <1>3, <2>2
    <3> QED BY <1>1, <1>2, <1>6, <2>1, <2>2, <3>1 DEF CallInv, Consistent, Pending, Handling
  <2>3. CASE c \notin Batch(b)
    BY <1>1, <1>4, <1>6, <2>1, <2>3 DEF CallInv, Consistent
  <2> QED BY <2>2, <2>3
<1>8. ASSUME NEW c \in Ids PROVE BatchInv(c)'
  <2>1. BatchInv(c)
    BY CallType
  <2>2. pc'[c] = "idle" <=> plan[c].batch \notin issued'
    BY <1>1, <1>3, <1>4, <2>1 DEF BatchInv, Batch
  <2>3. c \in issued' => plan[c].agent /\ runs[c] > 0 /\ pc'[c] \in Handling \cup {"done"}
    <3>1. CASE c = b
      <4>1. runs[c] > 0 /\ pc[c] \in Handling
        BY <1>1, <3>1, CallType, Constants DEF CallInv, Consistent, Handling
      <4>2. c \notin Batch(b)
        BY <1>2, <4>1 DEF Handling
      <4> QED BY <1>1, <1>4, <3>1, <4>1, <4>2, BatchType
    <3>2. CASE c # b
      BY <1>1, <1>2, <1>4, <2>1, <3>2 DEF BatchInv
    <3> QED BY <3>1, <3>2
  <2>4. ASSUME pc'[c] = "done" PROVE \A d \in Batch(c) : pc'[d] \in Over
    <3>1. CASE c \in Batch(b)
      <4>1. c # b /\ c \notin issued
        BY <1>1, <1>2, <3>1, Constants
      <4>2. ASSUME NEW d \in Batch(c) PROVE pc[d] = "idle" /\ d \in Ids \ Batch(b)
        <5>1. d \in Ids /\ plan[d].batch = c
          BY DEF Batch
        <5> QED BY <4>1, <5>1, CallType DEF BatchInv, Batch
      <4> QED BY <1>4, <4>2 DEF Over
    <3>2. CASE c \notin Batch(b)
      <4>1. pc[c] = "done" /\ c # b
        BY <1>1, <1>4, <2>4, <3>2, Constants
      <4>2. \A d \in Batch(c) : pc[d] \in Over /\ d \in Ids \ Batch(b)
        BY <2>1, <4>1 DEF BatchInv, Batch
      <4> QED BY <1>4, <4>2
    <3> QED BY <3>1, <3>2
  <2>5. ASSUME pc'[c] \notin Over \/ runs[c] > 0, plan[c].batch # 0,
               plan[plan[c].batch].effect = "read"
        PROVE  plan[c].effect = "read"
    <3>1. CASE c \in Batch(b)
      <4>1. pc'[c] \notin Over
        BY <1>2, <2>5, <3>1
      <4>2. Answer(b, c) = "none"
        BY <1>3, <3>1, <4>1 DEF Over
      <4> QED BY <1>1, <2>5, <3>1, <4>2, AnswerType
    <3>2. CASE c \notin Batch(b)
      BY <1>4, <2>1, <2>5, <3>2 DEF BatchInv
    <3> QED BY <3>1, <3>2
  <2> QED BY <1>1, <1>6, <2>2, <2>3, <2>4, <2>5 DEF BatchInv
<1>9. ASSUME NEW c \in Ids PROVE BarrierInv(c)'
  <2>1. plan[c].deps \subseteq Ids
    BY <1>1, PlanType
  <2>2. \A d \in Ids : /\ status[d] = "ok" => status'[d] = "ok"
                       /\ pc[d] = "done" => pc'[d] = "done"
    BY <1>2, <1>4
  <2>3. Behind(c) => Behind(c)'
    BY <1>1, <1>6, <2>1, <2>2 DEF Behind
  <2>4. pc'[c] \in Pending \cup Handling \/ runs'[c] > 0
        => pc[c] \in Pending \cup Handling \/ runs[c] > 0
    BY <1>1, <1>3, <1>4 DEF Pending, Handling
  <2> QED BY <2>3, <2>4, CallType DEF BarrierInv
<1> QED BY <1>5, <1>7, <1>8, <1>9 DEF StateInv

\* The steps of the run as a whole leave its calls alone.
LEMMA RunInv ==
  ASSUME StateInv, CancelRun \/ DeadlinePasses \/ UNCHANGED vars
  PROVE  StateInv'
<1>1. /\ UNCHANGED <<plan, issued, pc, status, attempt, runs, took, calls>>
      /\ stopping' \subseteq issued /\ overdue' \in BOOLEAN
  BY DEF CancelRun, DeadlinePasses, vars, StateInv, TypeOK
<1>2. TypeOK'
  BY <1>1 DEF StateInv, TypeOK
<1>3. ASSUME NEW c \in Ids PROVE (CallInv(c) /\ BatchInv(c) /\ BarrierInv(c))'
  <2>1. CallInv(c) /\ BatchInv(c) /\ BarrierInv(c)
    BY CallType
  <2>2. /\ Batch(c)' = Batch(c) /\ Earlier(c)' = Earlier(c)
        /\ Attempts(c)' = Attempts(c) /\ HasEffect(c)' = HasEffect(c)
        /\ Repeatable(c)' = Repeatable(c) /\ \A d : IsWrite(d)' = IsWrite(d)
    BY <1>1 DEF Batch, Earlier, IsWrite, Attempts, HasEffect, Repeatable
  <2> QED BY <1>1, <2>1, <2>2 DEF CallInv, Consistent, BatchInv, BarrierInv, Behind
<1> QED BY <1>2, <1>3 DEF StateInv

-----------------------------------------------------------------------------
(* The budget *)

\* The attempts that were taken of the budget are finitely many.
LEMMA PaymentsFinite ==
  IsFiniteSet(Payments) /\ Cardinality(Payments) \in Nat
<1>1. IsFiniteSet(1..MaxAttempts)
  BY Constants, FS_Interval
<1>2. IsFiniteSet(Ids \X (1..MaxAttempts))
  BY <1>1, Constants, FS_Product
<1>3. Payments \subseteq Ids \X (1..MaxAttempts)
  BY DEF Payments
<1> QED BY <1>2, <1>3, FS_Subset, FS_CardinalityType

\* What is spent anew was taken of the budget.
LEMMA SpendInv ==
  ASSUME BudgetInv, NEW X, IsFiniteSet(X), Payments' \subseteq Payments \cup X,
         calls \in Nat, calls' = calls + Cardinality(X)
  PROVE  BudgetInv'
<1>1. /\ IsFiniteSet(Payments \cup X) /\ Cardinality(X) \in Nat
      /\ Cardinality(Payments \cup X) <= Cardinality(Payments) + Cardinality(X)
  <2>1. IsFiniteSet(Payments \cap X)
    BY PaymentsFinite, FS_Intersection
  <2>2. Cardinality(Payments \cap X) \in Nat /\ Cardinality(X) \in Nat
    BY <2>1, FS_CardinalityType
  <2>3. /\ IsFiniteSet(Payments \cup X)
        /\ Cardinality(Payments \cup X)
           = Cardinality(Payments) + Cardinality(X) - Cardinality(Payments \cap X)
    BY PaymentsFinite, FS_Union
  <2> QED BY <2>2, <2>3, PaymentsFinite
<1>2. Cardinality(Payments') <= Cardinality(Payments \cup X) /\ Cardinality(Payments') \in Nat
  BY <1>1, FS_Subset, FS_CardinalityType
<1>3. Cardinality(Payments \cup X) \in Nat
  BY <1>1, FS_CardinalityType
<1> QED BY <1>1, <1>2, <1>3, PaymentsFinite DEF BudgetInv

\* Most steps of a call take nothing of the budget.
LEMMA NoSpending ==
  ASSUME BudgetInv, TypeOK, NEW c \in Ids,
         \A d \in Ids \ {c} : pc'[d] = pc[d] /\ attempt'[d] = attempt[d] /\ runs'[d] = runs[d],
         \A k \in 1..MaxAttempts :
           Paid(pc'[c], attempt'[c], runs'[c], k) => Paid(pc[c], attempt[c], runs[c], k),
         calls' = calls
  PROVE  BudgetInv'
<1>1. ASSUME NEW x \in Payments' PROVE x \in Payments
  <2>1. /\ x[1] \in Ids /\ x[2] \in 1..MaxAttempts /\ x \in Ids \X (1..MaxAttempts)
        /\ Paid(pc'[x[1]], attempt'[x[1]], runs'[x[1]], x[2])
    BY DEF Payments
  <2>2. Paid(pc[x[1]], attempt[x[1]], runs[x[1]], x[2])
    BY <2>1
  <2> QED BY <2>1, <2>2 DEF Payments
<1>2. IsFiniteSet({}) /\ Cardinality({}) = 0 /\ calls \in Nat
  BY FS_EmptySet, Constants DEF TypeOK
<1> QED BY <1>1, <1>2, SpendInv

\* A step that ends a call, or lets its handler begin, takes nothing of the budget.
LEMMA CallBudget ==
  ASSUME IInv, NEW c \in Ids,
         \/ Depend(c) \/ TakeSlot(c) \/ TakeGroup(c) \/ Act(c) \/ LateAct(c)
         \/ Return(c) \/ Transient(c) \/ TimeOut(c) \/ Cancel(c) \/ Stopped(c)
  PROVE  BudgetInv'
<1> USE DEF IInv
<1>1. TypeOK /\ StateInv /\ BudgetInv /\ pc \in [Ids -> States]
  BY FunctionTypes DEF StateInv
<1>2. attempt[c] \in Nat /\ runs[c] \in Nat /\ runs[c] <= attempt[c] + 1
  BY CallType, Constants DEF CallInv, Consistent
<1>3. CASE calls' = calls /\ runs' = runs /\ attempt' = attempt
           /\ pc' = [pc EXCEPT ![c] = pc'[c]] /\ pc'[c] \in {"done", "stopping", pc[c]}
  BY <1>1, <1>3, NoSpending DEF Paid
<1>4. ASSUME NEW s, End(c, s), UNCHANGED <<attempt, runs, calls>> PROVE BudgetInv'
  BY <1>1, <1>3, <1>4 DEF End
<1>5. ASSUME NEW s, Interrupt(c, s), UNCHANGED <<attempt, runs, calls>> PROVE BudgetInv'
  <2>1. pc' = [pc EXCEPT ![c] = pc'[c]] /\ pc'[c] \in {"done", "stopping"}
    BY <1>1, <1>5 DEF Interrupt, End
  <2> QED BY <1>3, <1>5, <2>1
<1>6. ASSUME Begin(c), pc[c] \in {"queued", "group"}, UNCHANGED <<attempt, calls>>
      PROVE  BudgetInv'
  <2>1. runs[c] = attempt[c]
    BY <1>6, CallType DEF CallInv, Consistent, Pending
  <2>2. pc'[c] = "running" /\ runs'[c] = runs[c] + 1
        /\ \A d \in Ids \ {c} : pc'[d] = pc[d] /\ runs'[d] = runs[d]
    BY <1>1, <1>6 DEF Begin, TypeOK
  <2>3. \A k \in 1..MaxAttempts :
          Paid(pc'[c], attempt'[c], runs'[c], k) => Paid(pc[c], attempt[c], runs[c], k)
    BY <1>2, <1>6, <2>1, <2>2 DEF Paid
  <2> QED BY <1>1, <1>6, <2>2, <2>3, NoSpending
<1>7. ASSUME pc[c] \in {"waiting", "queued"}, NEW p \in {"ready", "group"},
             pc[c] = "waiting" => attempt[c] = 0, pc[c] = "queued" => p = "group",
             pc' = [pc EXCEPT ![c] = p], UNCHANGED <<attempt, runs, calls>>
      PROVE  BudgetInv'
  <2>1. pc'[c] = p /\ \A d \in Ids \ {c} : pc'[d] = pc[d]
    BY <1>1, <1>7
  <2>2. \A k \in 1..MaxAttempts :
          Paid(pc'[c], attempt'[c], runs'[c], k) => Paid(pc[c], attempt[c], runs[c], k)
    BY <1>2, <1>7, <2>1 DEF Paid
  <2> QED BY <1>1, <1>7, <2>1, <2>2, NoSpending
<1>8. CASE Depend(c)
  <2>1. pc[c] = "waiting" /\ attempt[c] = 0 /\ UNCHANGED <<attempt, runs, calls>>
    BY <1>8, CallType DEF Depend, CallInv, Consistent
  <2> QED BY <1>4, <1>7, <1>8, <2>1 DEF Depend
<1>9. CASE TakeSlot(c) \/ TakeGroup(c)
  BY <1>6, <1>7, <1>9 DEF TakeSlot, TakeGroup
<1>10. CASE Act(c) \/ LateAct(c)
  BY <1>1, <1>3, <1>10 DEF Act, LateAct
<1>11. CASE Return(c) \/ Stopped(c)
  BY <1>4, <1>11 DEF Return, Stopped
<1>12. CASE TimeOut(c) \/ Cancel(c)
  BY <1>5, <1>12 DEF TimeOut, Cancel
<1>13. CASE Transient(c)
  <2>1. CASE End(c, "failed") /\ UNCHANGED attempt
    BY <1>4, <1>13, <2>1 DEF Transient
  <2>2. CASE pc' = [pc EXCEPT ![c] = "ready"] /\ attempt' = [attempt EXCEPT ![c] = @ + 1]
    <3>1. /\ pc'[c] = "ready" /\ attempt'[c] = attempt[c] + 1 /\ runs' = runs /\ calls' = calls
          /\ \A d \in Ids \ {c} : pc'[d] = pc[d] /\ attempt'[d] = attempt[d]
      BY <1>1, <1>13, <2>2 DEF Transient, TypeOK
    <3>2. \A k \in 1..MaxAttempts :
            Paid(pc'[c], attempt'[c], runs'[c], k) => Paid(pc[c], attempt[c], runs[c], k)
      BY <1>2, <3>1 DEF Paid
    <3> QED BY <1>1, <3>1, <3>2, NoSpending
  <2> QED BY <1>13, <2>1, <2>2 DEF Transient
<1> QED BY <1>8, <1>9, <1>10, <1>11, <1>12, <1>13

\* A retry is taken of the budget, as a first attempt was with its batch.
LEMMA AttemptBudget == ASSUME IInv, NEW c \in Ids, Attempt(c) PROVE BudgetInv'
<1>1. /\ TypeOK /\ BudgetInv /\ pc \in [Ids -> States] /\ attempt[c] \in 0..(MaxAttempts - 1)
      /\ pc[c] = "ready" /\ UNCHANGED <<attempt, runs>> /\ calls \in Nat
  BY FunctionTypes, CallType, Constants DEF IInv, StateInv, Attempt
<1>2. CASE (\E s : End(c, s)) /\ UNCHANGED calls
  <2>1. pc'[c] = "done" /\ \A d \in Ids \ {c} : pc'[d] = pc[d]
    BY <1>1, <1>2 DEF End
  <2> QED BY <1>1, <1>2, <2>1, NoSpending DEF Paid
<1>3. CASE pc' = [pc EXCEPT ![c] = "queued"] /\ calls' = calls + RetryCost(c)
  <2>1. pc'[c] = "queued" /\ \A d \in Ids \ {c} : pc'[d] = pc[d]
    BY <1>1, <1>3
  <2>2. CASE attempt[c] = 0
    BY <1>1, <1>3, <2>1, <2>2, NoSpending DEF Paid, RetryCost
  <2>3. CASE attempt[c] # 0
    <3> DEFINE X == {<<c, attempt[c] + 1>>}
    <3>1. IsFiniteSet(X) /\ Cardinality(X) = 1
      BY FS_Singleton
    <3>2. ASSUME NEW x \in Payments' PROVE x \in Payments \cup X
      <4>1. /\ x[1] \in Ids /\ x[2] \in 1..MaxAttempts /\ x \in Ids \X (1..MaxAttempts)
            /\ x = <<x[1], x[2]>> /\ Paid(pc'[x[1]], attempt[x[1]], runs[x[1]], x[2])
        BY <1>1 DEF Payments
      <4>2. CASE x[1] = c
        <5>1. x[2] <= runs[c] \/ x[2] = attempt[c] + 1
          BY <4>1, <4>2 DEF Paid
        <5> QED BY <4>1, <4>2, <5>1 DEF Payments, Paid
      <4>3. CASE x[1] # c
        BY <2>1, <4>1, <4>3 DEF Payments
      <4> QED BY <4>2, <4>3
    <3>3. calls' = calls + Cardinality(X)
      BY <1>3, <2>3, <3>1 DEF RetryCost
    <3> QED BY <1>1, <3>1, <3>2, <3>3, SpendInv
  <2> QED BY <2>2, <2>3
<1> QED BY <1>2, <1>3 DEF Attempt

\* A batch takes its granted calls of the budget, and no others wait for a handler.
LEMMA IssueBudget == ASSUME IInv, NEW b \in Ids \cup {0}, Issue(b) PROVE BudgetInv'
<1> DEFINE X == IF ValidDependencies(b) THEN Granted(b) \X {1} ELSE {}
<1>1. TypeOK /\ StateInv /\ BudgetInv /\ calls \in Nat /\ UNCHANGED <<attempt, runs>>
  BY Constants DEF IInv, StateInv, TypeOK, Issue
<1>2. IsFiniteSet({1}) /\ Cardinality({1}) = 1 /\ IsFiniteSet({}) /\ Cardinality({}) = 0
  BY FS_Singleton, FS_EmptySet
<1>3. IsFiniteSet(X) /\ calls' = calls + Cardinality(X)
  <2>1. CASE ValidDependencies(b)
    <3>1. /\ IsFiniteSet(Granted(b) \X {1})
          /\ Cardinality(Granted(b) \X {1}) = Cardinality(Granted(b)) * 1
      BY <1>1, <1>2, GrantedFits, FS_Product
    <3>2. Cardinality(Granted(b)) \in Nat /\ calls' = calls + Cardinality(Granted(b))
      BY <1>1, <2>1, GrantedFits DEF Issue
    <3> QED BY <2>1, <3>1, <3>2
  <2>2. CASE ~ValidDependencies(b)
    BY <1>1, <1>2, <2>2 DEF Issue
  <2> QED BY <2>1, <2>2
<1>4. ASSUME NEW x \in Payments' PROVE x \in Payments \cup X
  <2>1. /\ x[1] \in Ids /\ x[2] \in 1..MaxAttempts /\ x \in Ids \X (1..MaxAttempts)
        /\ x = <<x[1], x[2]>> /\ Paid(pc'[x[1]], attempt[x[1]], runs[x[1]], x[2])
    BY <1>1 DEF Payments
  <2>2. CASE x[1] \notin Batch(b)
    <3>1. pc'[x[1]] = pc[x[1]]
      BY <2>1, <2>2 DEF Issue
    <3> QED BY <2>1, <3>1 DEF Payments
  <2>3. CASE x[1] \in Batch(b)
    <3>1. pc[x[1]] = "idle" /\ attempt[x[1]] = 0 /\ runs[x[1]] = 0
      BY <1>1, <2>1, <2>3, CallType DEF Issue, Batch, BatchInv, CallInv, Consistent
    <3>2. pc'[x[1]] = IF Answer(b, x[1]) = "none" THEN "waiting" ELSE "done"
      BY <2>1, <2>3 DEF Issue
    <3>3. Answer(b, x[1]) = "none" /\ x[2] = 1
      BY <2>1, <3>1, <3>2 DEF Paid
    <3>4. x[1] \in Granted(b) /\ ValidDependencies(b)
      BY <1>1, <2>3, <3>3, AnswerType
    <3> QED BY <2>1, <3>3, <3>4
  <2> QED BY <2>2, <2>3
<1> QED BY <1>1, <1>3, <1>4, SpendInv

-----------------------------------------------------------------------------
(* The inductive invariant and what follows from it *)

\* The invariant holds at first.
LEMMA InitInv == Init => IInv
<1> SUFFICES ASSUME Init PROVE IInv
  OBVIOUS
<1>1. TypeOK
  <2>1. 0 \in 0..(MaxAttempts - 1) /\ 0 \in 0..MaxAttempts /\ 0 \in 0..MaxCalls
    BY Constants
  <2>2. \A c \in Ids : pc[c] = "idle" /\ status[c] = "none"
    BY DEF Init
  <2> QED BY <2>1, <2>2 DEF Init, TypeOK
<1>2. ASSUME NEW c \in Ids PROVE CallInv(c) /\ BatchInv(c) /\ BarrierInv(c)
  <2>1. Attempts(c) > 0
    BY <1>1, AttemptsType, Constants
  <2>2. pc[c] = "idle" /\ status[c] = "none" /\ attempt[c] = 0 /\ runs[c] = 0 /\ took[c] = 0
    BY DEF Init
  <2>3. CallInv(c)
    BY <2>1, <2>2 DEF CallInv, Consistent, Pending, Handling, Silent
  <2>4. BatchInv(c) /\ BarrierInv(c)
    BY <2>2 DEF Init, BatchInv, BarrierInv, Pending, Handling, Over
  <2> QED BY <2>3, <2>4
<1>3. Payments = {}
  BY Constants DEF Init, Payments, Paid
<1> QED BY <1>1, <1>2, <1>3, FS_EmptySet, Constants DEF IInv, StateInv, BudgetInv, Init

\* Every step keeps the invariant.
LEMMA NextInv == IInv /\ [Next]_vars => IInv'
<1> SUFFICES ASSUME IInv, [Next]_vars PROVE IInv'
  OBVIOUS
<1>1. StateInv
  BY DEF IInv
<1>2. ASSUME NEW b \in Ids \cup {0}, Issue(b) PROVE IInv'
  BY <1>1, <1>2, IssueInv, IssueBudget DEF IInv
<1>3. ASSUME NEW c \in Ids, Attempt(c) PROVE IInv'
  BY <1>1, <1>3, AttemptInv, AttemptBudget DEF IInv
<1>4. ASSUME NEW c \in Ids,
             \/ Depend(c) \/ TakeSlot(c) \/ TakeGroup(c) \/ Act(c) \/ LateAct(c)
             \/ Return(c) \/ Transient(c) \/ TimeOut(c) \/ Cancel(c) \/ Stopped(c)
      PROVE  IInv'
  <2>1. StateInv'
    BY <1>1, <1>4, DependInv, TakeSlotInv, TakeGroupInv, ActInv, ReturnInv, TransientInv,
       TimeOutInv, CancelInv, StoppedInv
  <2> QED BY <1>4, <2>1, CallBudget DEF IInv
<1>5. CASE CancelRun \/ DeadlinePasses \/ UNCHANGED vars
  <2>1. UNCHANGED <<pc, attempt, runs, calls>>
    BY <1>5 DEF CancelRun, DeadlinePasses, vars
  <2>2. Payments' = Payments
    BY <2>1 DEF Payments
  <2> QED BY <1>1, <1>5, <2>1, <2>2, RunInv DEF IInv, BudgetInv
<1> QED BY <1>2, <1>3, <1>4, <1>5 DEF Next, CallStep, Ended

\* Every call is where its attempts, its batch and the calls before it put it, and
\* every start of a handler was taken of the budget.
THEOREM HarnessInvariant == Spec => []IInv
<1> QED BY InitInv, NextInv, PTL DEF Spec

\* What a batch writes is written in order and once.
THEOREM SoundWrites == Spec => []WritesAreSound
<1>1. ASSUME IInv PROVE WritesAreBarriers
  BY <1>1, CallType DEF IInv, BarrierInv, Behind, WritesAreBarriers
<1>2. ASSUME IInv PROVE WritesOnce
  <2> SUFFICES ASSUME NEW c \in Ids, ~Repeatable(c) PROVE took[c] <= 1
    BY DEF WritesOnce
  <2>1. /\ CallInv(c) /\ took[c] \in 0..MaxAttempts /\ runs[c] \in 0..MaxAttempts
        /\ attempt[c] \in 0..(MaxAttempts - 1)
    BY <1>2, CallType DEF IInv
  <2>2. HasEffect(c) => attempt[c] = 0
    BY <2>1 DEF CallInv, Consistent, Attempts, HasEffect, Repeatable
  <2> QED BY <2>1, <2>2 DEF CallInv, Consistent
<1>3. IInv => WritesAreSound
  BY <1>1, <1>2 DEF WritesAreSound
<1> QED BY <1>3, HarnessInvariant, PTL

\* A status that says that nothing happened is true of everything the handler
\* delegated: what is behind a handler that never began, or behind a read, changes
\* nothing, at any depth.
THEOREM HonestStatus == Spec => []StatusIsHonest
<1>1. ASSUME IInv PROVE StatusIsHonest
  <2> DEFINE Harmless == {c \in Ids : runs[c] = 0 \/ plan[c].effect = "read"}
  <2> SUFFICES ASSUME NEW c \in Ids, status[c] \in Silent, NEW d \in Below(c) \cup {c}
               PROVE  Repeatable(d) \/ took[d] = 0
    BY DEF StatusIsHonest, Silent
  <2>1. StateInv /\ d \in Ids
    BY <1>1 DEF IInv, Below
  <2>2. \A e \in Harmless : took[e] = 0
    BY <2>1, CallType DEF CallInv, Consistent, HasEffect
  <2>3. ASSUME NEW e \in Harmless PROVE Batch(e) \subseteq Harmless
    <3> SUFFICES ASSUME NEW f \in Batch(e) PROVE f \in Harmless
      OBVIOUS
    <3>1. f \in Ids /\ plan[f].batch = e /\ e \in Ids /\ e # 0
      BY Constants DEF Batch
    <3>2. CASE runs[e] = 0
      <4>1. pc[f] = "idle"
        BY <2>1, <3>1, <3>2, CallType DEF BatchInv
      <4> QED BY <2>1, <3>1, <4>1, CallType DEF CallInv, Consistent
    <3>3. CASE plan[e].effect = "read"
      <4>1. runs[f] > 0 => plan[f].effect = "read"
        BY <2>1, <3>1, <3>3, CallType DEF BatchInv
      <4>2. runs[f] \in 0..MaxAttempts
        BY <2>1, <3>1, CallType
      <4> QED BY <3>1, <4>1, <4>2
    <3> QED BY <3>2, <3>3
  <2>4. c \in Harmless \/ (Repeatable(c) /\ ~plan[c].agent)
    BY <2>1, CallType DEF CallInv, Consistent
  <2>5. CASE c \in Harmless
    <3>1. Batch(c) \subseteq Harmless /\ Harmless \in SUBSET Ids
      BY <2>3, <2>5
    <3>2. Below(c) \subseteq Harmless
      BY <2>3, <3>1 DEF Below
    <3> QED BY <2>2, <2>5, <3>2
  <2>6. CASE Repeatable(c) /\ ~plan[c].agent
    <3>1. Batch(c) = {}
      BY <2>1, <2>6, BatchType DEF StateInv
    <3>2. Below(c) = {}
      BY <3>1 DEF Below
    <3> QED BY <2>6, <3>2
  <2> QED BY <2>4, <2>5, <2>6
<1>2. IInv => StatusIsHonest
  BY <1>1
<1> QED BY <1>2, HarnessInvariant, PTL

\* A run and what it delegates, at any depth, keep to the budget and end before the
\* call that delegated them.
THEOREM ContainedRun == Spec => []RunIsContained
<1>1. ASSUME IInv PROVE WithinBudget
  <2>1. TypeOK /\ calls \in 0..MaxCalls /\ StateInv
    BY <1>1 DEF IInv, StateInv, TypeOK
  <2>2. Starts \subseteq Payments
    BY DEF Starts, Payments, Paid
  <2>3. Cardinality(Starts) <= Cardinality(Payments) /\ Cardinality(Starts) \in Nat
    BY <2>2, PaymentsFinite, FS_Subset, FS_CardinalityType
  <2> QED BY <1>1, <2>1, <2>3, PaymentsFinite, Constants DEF IInv, BudgetInv, WithinBudget
<1>2. ASSUME IInv PROVE NothingOutlives
  <2> DEFINE S == {c \in Ids : pc[c] \in Over}
  <2> SUFFICES ASSUME NEW c \in Ids, pc[c] = "done", NEW d \in Below(c)
               PROVE  pc[d] \in Over
    BY DEF NothingOutlives, Over
  <2>1. StateInv
    BY <1>2 DEF IInv
  <2>2. ASSUME NEW e \in S PROVE Batch(e) \subseteq S
    <3> SUFFICES ASSUME NEW f \in Batch(e) PROVE f \in S
      OBVIOUS
    <3>1. f \in Ids /\ plan[f].batch = e
      BY DEF Batch
    <3>2. CASE pc[e] = "idle"
      <4>1. e \notin issued
        BY <2>1, <3>2, NoBatch DEF Handling
      <4> QED BY <2>1, <3>1, <4>1, CallType DEF BatchInv, Over
    <3>3. CASE pc[e] = "done"
      BY <2>1, <3>1, <3>3, CallType DEF BatchInv
    <3> QED BY <3>2, <3>3 DEF Over
  <2>3. c \in S /\ S \in SUBSET Ids
    BY DEF Over
  <2> QED BY <2>2, <2>3 DEF Below
<1>3. IInv => RunIsContained
  BY <1>1, <1>2 DEF RunIsContained
<1> QED BY <1>3, HarnessInvariant, PTL
===============================================================================
