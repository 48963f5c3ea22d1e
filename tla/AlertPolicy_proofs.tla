-------------------------- MODULE AlertPolicy_proofs --------------------------
(***************************************************************************)
(* Proofs about the delivery limits of a chat, for any dispatchers, alerts *)
(* and settings whose freshness and lease are short enough.                *)
(***************************************************************************)
EXTENDS AlertPolicy, SentimentSystem, TLAPS, FiniteSetTheorems, SequenceTheorems, WellFoundedInduction

\* How long after it was queued an alert may be recorded as delivered: it is
\* claimed before it expires and finished before the lease ends.
Way == MaxAge + Lease - 2

\* What a row says of itself and of the chat.
RowInv(a) ==
  LET r == row[a] IN
  /\ r.status = "absent" => r = NoRow
  /\ r.created <= now /\ r.expires <= r.created + MaxAge
  /\ r.status = "sending" => r.leaseEnd <= r.created + Way + 1
  /\ IF r.status = "delivered"
       THEN /\ shown[a] # Never /\ shown[a] <= r.delivered
            /\ r.delivered <= now /\ r.delivered <= r.created + Way
       ELSE r.delivered = Never
  /\ a \in wire => r.status \in {"sending", "unknown"}
  /\ shown[a] # Never => /\ r.status \in {"sending", "delivered", "unknown"}
                         /\ a \notin wire /\ shown[a] <= now

\* What a dispatcher knows of the row it claimed.
Unsent(k) == \/ k.pc \in {"guard", "check", "send"}
             \/ k.pc = "finish" /\ k.outcome \in {"failed", "expired"}
WorkInv(w) ==
  LET k == work[w]
      a == k.item
  IN
  IF k.pc = "idle" THEN a = 0
  ELSE /\ a \in Alerts /\ row[a].status \in {"sending", "unknown"}
       /\ k.clock <= now
       /\ Unsent(k) => a \notin wire /\ shown[a] = Never
       /\ k.pc = "wait" => a \in wire \/ shown[a] # Never
       /\ k.pc = "finish" => k.outcome # "none"
       /\ k.pc = "finish" /\ k.outcome = "delivered" => shown[a] # Never

\* A row has one dispatcher at most.
OneHolder == \A v, w \in Workers :
  work[v].pc # "idle" /\ work[v].item = work[w].item => v = w

\* The alerts the chat shows or may yet show of those that are or may yet be
\* recorded as delivered.
Cleared(k) == \/ k.pc \in {"send", "wait"}
              \/ k.pc = "finish" /\ k.outcome = "delivered"
Going(a) ==
  /\ row[a].status = "sending" /\ row[a].leaseEnd > now
  /\ \E w \in Workers : work[w].item = a /\ Cleared(work[w])
Counts(a) == row[a].status = "delivered" \/ Going(a)

\* Those that were or can still be shown in the hour that ends at time T.
InHour(a, T) == IF shown[a] = Never THEN now <= T ELSE T - Hour < shown[a] /\ shown[a] <= T
Busy(T) == {a \in Alerts \ rushed : Counts(a) /\ InHour(a, T)}
CapSettings == Way < Hour
CapInv == CapSettings => \A T \in 0..MaxTime : Cardinality(Busy(T)) <= MaxPerHour

\* b has news that a has not, or is shown a cooldown after a.
Newer(a, b) == Revision[a] < Revision[b] /\ row[b].newFacts
Apart(a, b) ==
  /\ shown[a] # Never
  /\ shown[a] + Cooldown <= IF shown[b] = Never THEN now ELSE shown[b]
SpacedPair(a, b) ==
  a # b /\ Event[a] = Event[b] /\ Counts(a) /\ Counts(b)
    => Newer(a, b) \/ Newer(b, a) \/ Apart(a, b) \/ Apart(b, a)
SpacingSettings == Way < Cooldown /\ Cooldown + Way <= History
SpacedInv == SpacingSettings => \A a, b \in Alerts : SpacedPair(a, b)

\* The bookkeeping both limits rest on.
Base ==
  /\ TypeOK
  /\ \A a \in Alerts : RowInv(a)
  /\ \A w \in Workers : WorkInv(w)
  /\ OneHolder

IInv == Base /\ CapInv /\ SpacedInv

RowType ==
  [status : Statuses, created : Nat, expires : Nat, delivered : Nat \cup {Never},
   due : Nat, attempts : 0..MaxAttempts, token : 0..MaxAttempts, leaseEnd : Nat,
   newFacts : BOOLEAN]
WorkType ==
  [pc : {"idle", "guard", "check", "send", "wait", "finish"}, item : Alerts \cup {0},
   claim : 0..MaxAttempts, clock : Nat, retry : Nat,
   outcome : {"none", "delivered", "failed", "unknown", "expired"}]

-----------------------------------------------------------------------------
(* Lemmas about the constants and the helpers *)

\* What the assumption says of each constant.
LEMMA Constants ==
  /\ Alerts \subseteq Nat /\ 0 \notin Alerts /\ IsFiniteSet(Alerts)
  /\ \A a \in Alerts : Revision[a] \in Nat /\ Judgments[a] \in SUBSET BOOLEAN
  /\ Hour \in Nat /\ Hour > 0 /\ MaxAge \in Nat /\ MaxAge > 0
  /\ MaxPerHour \in Nat /\ MaxPerHour > 0 /\ Lease \in Nat /\ Lease > 0
  /\ MaxAttempts \in Nat /\ MaxAttempts > 0 /\ RetryDelay \in Nat
  /\ Cooldown \in Nat /\ Lag \in Nat /\ MaxTime \in Nat
  /\ QuietTimes \subseteq Nat /\ IsFiniteSet(QuietTimes)
BY PolicyAssumption DEF PolicyAssumption

\* TypeOK in terms of the two record types.
LEMMA TypeParts ==
  TypeOK <=> /\ now \in 0..MaxTime
             /\ revision \in [Events -> Nat \ {0}]
             /\ row \in [Alerts -> RowType]
             /\ work \in [Workers -> WorkType]
             /\ wire \in SUBSET Alerts
             /\ shown \in [Alerts -> Nat \cup {Never}]
             /\ rushed \in SUBSET Alerts
BY DEF TypeOK, RowType, WorkType

\* The same of the next state.
LEMMA TypePartsNext ==
  TypeOK' <=> /\ now' \in 0..MaxTime
              /\ revision' \in [Events -> Nat \ {0}]
              /\ row' \in [Alerts -> RowType]
              /\ work' \in [Workers -> WorkType]
              /\ wire' \in SUBSET Alerts
              /\ shown' \in [Alerts -> Nat \cup {Never}]
              /\ rushed' \in SUBSET Alerts
BY DEF TypeOK, RowType, WorkType

\* A set of integers with an upper bound has a greatest element, and Max is it.
LEMMA MaxBounded ==
  ASSUME NEW S, S \subseteq Int, S # {}, NEW n \in Int, \A x \in S : x <= n
  PROVE  Max(S) \in S /\ \A x \in S : x <= Max(S)
<1> DEFINE T == {n - x : x \in S}
<1>1. T \subseteq Nat /\ T # {}
  <2>1. \A x \in S : n - x \in Nat
    OBVIOUS
  <2>2. \E x \in S : n - x \in T
    OBVIOUS
  <2> QED BY <2>1, <2>2
<1>2. PICK u \in T : \A v \in T : ~(<<v, u>> \in OpToRel(<, Nat))
  BY <1>1, NatLessThanWellFounded, WFMin
<1>3. \A v \in T : ~(v < u)
  BY <1>1, <1>2 DEF OpToRel
<1>4. PICK m \in S : u = n - m
  BY <1>2
<1>5. \A x \in S : m >= x
  <2>1. ASSUME NEW x \in S PROVE m >= x
    <3>1. ~(n - x < n - m)
      BY <1>3, <1>4
    <3> QED BY <3>1
  <2> QED BY <2>1
<1>6. Max(S) \in S /\ \A x \in S : Max(S) >= x
  BY <1>5 DEF Max
<1>7. \A x \in S : x \in Int /\ Max(S) \in Int
  BY <1>6
<1> QED BY <1>6, <1>7

\* A set of natural numbers has a least element, and Min is it.
LEMMA MinOfNat ==
  ASSUME NEW S, S \subseteq Nat, S # {}
  PROVE  Min(S) \in S /\ \A x \in S : Min(S) <= x
<1>1. PICK m \in S : \A x \in S : ~(<<x, m>> \in OpToRel(<, Nat))
  BY NatLessThanWellFounded, WFMin
<1>2. \A x \in S : m <= x
  <2>1. \A x \in S : ~(x < m)
    BY <1>1 DEF OpToRel
  <2> QED BY <2>1
<1> QED BY <1>2 DEF Min

\* A finite set of natural numbers has an upper bound.
LEMMA FiniteBounded ==
  ASSUME NEW S, S \subseteq Nat, IsFiniteSet(S)
  PROVE  \E n \in Nat : \A x \in S : x <= n
<1> DEFINE Bounded(U) == \E n \in Nat : \A x \in U : x <= n
           Bad == {k \in Nat : \E U \in SUBSET S : Cardinality(U) = k /\ ~Bounded(U)}
<1>1. SUFFICES ASSUME Bad # {} PROVE FALSE
  <2>1. Cardinality(S) \in Nat
    BY FS_CardinalityType
  <2> QED BY <1>1, <2>1
<1>2. PICK k \in Bad : \A j \in Bad : ~(<<j, k>> \in OpToRel(<, Nat))
  BY <1>1, NatLessThanWellFounded, WFMin
<1>3. \A j \in Bad : ~(j < k)
  BY <1>2 DEF OpToRel
<1>4. PICK U \in SUBSET S : Cardinality(U) = k /\ ~Bounded(U)
  BY <1>2
<1>5. PICK u \in U : TRUE
  <2>1. ASSUME U = {} PROVE Bounded(U)
    BY <2>1
  <2> QED BY <1>4, <2>1
<1>6. IsFiniteSet(U)
  BY <1>4, FS_Subset
<1>7. /\ Cardinality(U \ {u}) = k - 1 /\ Cardinality(U \ {u}) \in Nat
      /\ U \ {u} \in SUBSET S
  BY <1>4, <1>5, <1>6, FS_RemoveElement, FS_CardinalityType
<1>8. k \in Nat
  BY <1>2
<1>9. Bounded(U \ {u})
  <2>1. k - 1 \in Nat /\ k - 1 < k
    BY <1>7, <1>8
  <2>2. k - 1 \notin Bad
    BY <1>3, <2>1
  <2> QED BY <2>1, <2>2, <1>7
<1>10. PICK n \in Nat : \A x \in U \ {u} : x <= n
  BY <1>9
<1>11. \A x \in U : x <= n + u
  BY <1>5, <1>10
<1> QED BY <1>4, <1>5, <1>11

\* What the row of an alert counts for is a time that has passed.
LEMMA CountedType ==
  ASSUME TypeOK, NEW b \in Alerts, RowInv(b)
  PROVE  CountedAt(b) \in Nat /\ CountedAt(b) <= now
BY Constants, TypeParts DEF RowType, RowInv, CountedAt, Never, Way, Statuses

\* The greatest of the times some alerts count for.
LEMMA LatestCounted ==
  ASSUME Base, NEW B, B \subseteq Alerts, B # {}
  PROVE  /\ Max({CountedAt(b) : b \in B}) \in Nat
         /\ \A c \in B : CountedAt(c) <= Max({CountedAt(b) : b \in B})
<1> DEFINE S == {CountedAt(b) : b \in B}
<1>1. \A b \in B : CountedAt(b) \in Nat /\ CountedAt(b) <= now
  BY CountedType DEF Base
<1>2. now \in Nat
  BY Constants, TypeParts DEF Base
<1>3. S \subseteq Int /\ S # {} /\ (\A x \in S : x <= now)
  BY <1>1
<1>4. Max(S) \in S /\ \A x \in S : x <= Max(S)
  <2>1. now \in Int
    BY <1>2
  <2> HIDE DEF S
  <2> QED BY <2>1, <1>3, MaxBounded
<1> QED BY <1>1, <1>4

\* What the policy makes an alert wait for is a time, and there is a last one.
LEMMA WaitsType ==
  ASSUME Base, NEW a \in Alerts, NEW newFacts \in BOOLEAN, NEW t \in Nat, NEW kinds,
         NEW S, S \subseteq Waits(a, newFacts, t, kinds) \cup {t}, S # {}
  PROVE  Max(S) \in Nat /\ Max(S) \in S
<1> DEFINE B == Recent(a, t, kinds)
<1>1. \E x \in Nat : CooldownEnds(a, newFacts, t, B) \subseteq {x}
  <2> DEFINE same == {b \in B : Event[b] = Event[a]}
             end  == Max({CountedAt(b) : b \in same}) + Cooldown
  <2>1. CASE same = {} \/ IsMaterialUpdate(a, newFacts, same)
    BY <2>1 DEF CooldownEnds
  <2>2. CASE ~(same = {} \/ IsMaterialUpdate(a, newFacts, same))
    <3>1. Max({CountedAt(b) : b \in same}) \in Nat
      BY <2>2, LatestCounted DEF Recent
    <3>2. end \in Nat
      BY <3>1, Constants
    <3>3. CooldownEnds(a, newFacts, t, B) \subseteq {end}
      BY <2>2 DEF CooldownEnds
    <3> QED BY <3>2, <3>3
  <2> QED BY <2>1, <2>2
<1>2. \E x \in Nat : CapEnds(t, B) \subseteq {x}
  <2> DEFINE Since(x) == Cardinality({b \in B : x <= CountedAt(b) /\ CountedAt(b) <= t})
             full     == {x \in t - Hour + 1..t : Full(Since(x))}
  <2>1. CASE full = {}
    BY <2>1 DEF CapEnds
  <2>2. CASE full # {}
    <3>1. full \subseteq Int /\ (\A x \in full : x <= t) /\ t \in Int
      BY Constants
    <3>2. Max(full) \in full
      <4> HIDE DEF full
      <4> QED BY <2>2, <3>1, MaxBounded
    <3>3. Max(full) + Hour \in Nat
      BY <3>2, Constants
    <3>4. CapEnds(t, B) \subseteq {Max(full) + Hour}
      BY <2>2 DEF CapEnds
    <3> QED BY <3>3, <3>4
  <2> QED BY <2>1, <2>2
<1>3. \E x \in Nat : QuietEnds(a, t) \subseteq {x}
  <2> DEFINE after == {u \in t..Max(QuietTimes) + 1 : u \notin QuietTimes}
  <2>1. CASE ~(t \in QuietTimes /\ a \notin Critical)
    BY <2>1 DEF QuietEnds
  <2>2. CASE t \in QuietTimes /\ a \notin Critical
    <3>1. PICK n \in Nat : \A x \in QuietTimes : x <= n
      BY Constants, FiniteBounded
    <3>2. Max(QuietTimes) \in QuietTimes /\ \A x \in QuietTimes : x <= Max(QuietTimes)
      <4>1. QuietTimes \subseteq Int /\ QuietTimes # {} /\ n \in Int
        BY <2>2, Constants
      <4> QED BY <4>1, <3>1, MaxBounded
    <3>3. Max(QuietTimes) \in Nat /\ t <= Max(QuietTimes)
      BY <2>2, <3>2, Constants
    <3>4. Max(QuietTimes) + 1 \notin QuietTimes
      BY <3>2, <3>3
    <3>5. Max(QuietTimes) + 1 \in after /\ after \subseteq Nat
      BY <3>3, <3>4
    <3>6. Min(after) \in after
      BY <3>5, MinOfNat
    <3>7. QuietEnds(a, t) \subseteq {Min(after)}
      BY DEF QuietEnds
    <3> QED BY <3>5, <3>6, <3>7
  <2> QED BY <2>1, <2>2
<1>4. PICK x \in Nat : CooldownEnds(a, newFacts, t, B) \subseteq {x}
  BY <1>1
<1>5. PICK y \in Nat : CapEnds(t, B) \subseteq {y}
  BY <1>2
<1>6. PICK z \in Nat : QuietEnds(a, t) \subseteq {z}
  BY <1>3
<1>7. S \subseteq {x, y, z, t}
  BY <1>4, <1>5, <1>6 DEF Waits
<1>8. S \subseteq Int /\ (\A u \in S : u <= x + y + z + t) /\ x + y + z + t \in Int
  BY <1>7
<1>9. Max(S) \in S
  BY <1>8, MaxBounded
<1> QED BY <1>7, <1>9

-----------------------------------------------------------------------------
(* What a step leaves alone *)

\* A row, with what the chat shows of it, that a step does not touch.
LEMMA RowFrame ==
  ASSUME NEW a \in Alerts, TypeOK, RowInv(a), now' \in Nat, now <= now',
         row'[a] = row[a], shown'[a] = shown[a], a \in wire' <=> a \in wire
  PROVE  RowInv(a)'
<1>1. now \in Nat /\ row[a] \in RowType /\ shown[a] \in Nat \cup {Never}
  BY Constants, TypeParts
<1> QED BY <1>1, Constants DEF RowInv, RowType, Never, Way

\* A dispatcher that does not act while its row may be given up.
LEMMA WorkFrame ==
  ASSUME NEW w \in Workers, TypeOK, WorkInv(w), now' \in Nat, now <= now',
         work'[w] = work[w],
         work[w].pc # "idle" =>
           LET a == work[w].item IN
           /\ row'[a].status \in {"sending", "unknown"}
           /\ shown'[a] = shown[a] /\ (a \in wire' <=> a \in wire)
  PROVE  WorkInv(w)'
<1>1. now \in Nat /\ work[w] \in WorkType
  BY Constants, TypeParts
<1> QED BY <1>1, Constants DEF WorkInv, WorkType, Unsent

\* A step makes an alert count only if it is recorded as delivered, or is let
\* go by a dispatcher.
LEMMA CountsKept ==
  ASSUME NEW a \in Alerts, TypeOK, now' \in Nat, now <= now',
         row'[a].status = "delivered" => Counts(a),
         row'[a].status = "sending" =>
           /\ row[a].status = "sending" /\ row'[a].leaseEnd = row[a].leaseEnd
           /\ \A w \in Workers : work'[w].item = a /\ Cleared(work'[w])
                => work[w].item = a /\ Cleared(work[w])
  PROVE  Counts(a)' => Counts(a)
<1>1. now \in Nat /\ row[a] \in RowType
  BY Constants, TypeParts
<1>2. ASSUME Going(a)' PROVE Counts(a)
  BY <1>1, <1>2 DEF Counts, Going, Cleared, RowType
<1> QED BY <1>2 DEF Counts

\* While nothing else counts, and what the chat shows anew it shows now, both
\* limits are kept.
LEMMA LimitsKept ==
  ASSUME TypeOK, CapInv, SpacedInv, now' \in Nat, now <= now', rushed' = rushed,
         \A a \in Alerts :
           /\ Counts(a)' => Counts(a) /\ row'[a].newFacts = row[a].newFacts
           /\ shown'[a] = shown[a] \/ (shown[a] = Never /\ shown'[a] = now)
  PROVE  CapInv' /\ SpacedInv'
<1>1. now \in Nat /\ \A a \in Alerts : shown[a] \in Nat \cup {Never}
  <2>1. now \in 0..MaxTime /\ shown \in [Alerts -> Nat \cup {Never}]
    BY TypeParts
  <2>2. MaxTime \in Nat
    BY Constants
  <2>3. now \in Nat
    BY <2>1, <2>2
  <2> QED BY <2>1, <2>3
<1>2. ASSUME CapSettings, NEW T \in 0..MaxTime PROVE Cardinality(Busy(T)') <= MaxPerHour
  <2>1. ASSUME NEW a \in Alerts, InHour(a, T)' PROVE InHour(a, T)
    BY <1>1, <2>1, Constants DEF InHour, Never
  <2>2. Busy(T)' \subseteq Busy(T)
    BY <2>1 DEF Busy
  <2>3. IsFiniteSet(Busy(T))
    BY Constants, FS_Subset DEF Busy
  <2>4. /\ Cardinality(Busy(T)') <= Cardinality(Busy(T))
        /\ Cardinality(Busy(T)') \in Nat /\ Cardinality(Busy(T)) \in Nat
    BY <2>2, <2>3, FS_Subset, FS_CardinalityType
  <2>5. Cardinality(Busy(T)) <= MaxPerHour
    BY <1>2 DEF CapInv
  <2> QED BY <2>4, <2>5, Constants
<1>3. ASSUME NEW a \in Alerts, NEW b \in Alerts, SpacedPair(a, b) PROVE SpacedPair(a, b)'
  <2>1. SUFFICES ASSUME a # b, Event[a] = Event[b], Counts(a)', Counts(b)'
                 PROVE  (Newer(a, b) \/ Newer(b, a) \/ Apart(a, b) \/ Apart(b, a))'
    BY DEF SpacedPair
  <2>2. Newer(a, b) \/ Newer(b, a) \/ Apart(a, b) \/ Apart(b, a)
    BY <1>3, <2>1 DEF SpacedPair
  <2>3. (Newer(a, b) => Newer(a, b)') /\ (Newer(b, a) => Newer(b, a)')
    BY <2>1 DEF Newer
  <2>4. (Apart(a, b) => Apart(a, b)') /\ (Apart(b, a) => Apart(b, a)')
    BY <1>1, Constants DEF Apart, Never
  <2> QED BY <2>2, <2>3, <2>4
<1>4. SpacedInv'
  BY <1>3 DEF SpacedInv
<1> QED BY <1>2, <1>4 DEF CapInv

\* What a row is held for is known to its dispatcher alone.
LEMMA OthersElsewhere ==
  ASSUME Base, NEW w \in Workers, work[w].pc # "idle"
  PROVE  \A v \in Workers \ {w} : work[v].item # work[w].item
BY DEF Base, OneHolder

\* A step of dispatcher w, that changes at most its row a.
LEMMA WorkerStep ==
  ASSUME Base, TypeOK', now' = now, shown' = shown,
         NEW w \in Workers, NEW a \in Alerts,
         \A v \in Workers \ {w} : work'[v] = work[v] /\ work[v].item # a,
         work'[w] = Idle \/ work'[w].item = a,
         \A b \in Alerts \ {a} : row'[b] = row[b] /\ (b \in wire' <=> b \in wire),
         RowInv(a)', WorkInv(w)'
  PROVE  Base'
<1>1. now \in Nat /\ 0 \notin Alerts
  BY Constants, TypeParts DEF Base
<1>2. ASSUME NEW b \in Alerts PROVE RowInv(b)'
  <2>1. CASE b # a
    BY <1>1, <2>1, RowFrame DEF Base
  <2> QED BY <2>1
<1>3. ASSUME NEW v \in Workers PROVE WorkInv(v)'
  <2>1. CASE v # w
    <3>1. WorkInv(v) /\ TypeOK
      BY DEF Base
    <3>2. ASSUME work[v].pc # "idle"
          PROVE  /\ work[v].item \in Alerts \ {a}
                 /\ row[work[v].item].status \in {"sending", "unknown"}
      BY <2>1, <3>1, <3>2 DEF WorkInv
    <3> QED BY <1>1, <2>1, <3>1, <3>2, WorkFrame
  <2> QED BY <2>1
<1>4. ASSUME NEW u \in Workers, NEW v \in Workers,
             work'[u].pc # "idle", work'[u].item = work'[v].item
      PROVE  u = v
  <2>1. Idle.item = 0 /\ Idle.pc = "idle"
    BY DEF Idle
  <2>2. CASE u = w
    BY <1>4, <2>1, <2>2
  <2>3. CASE u # w
    <3>1. work[u].item \in Alerts
      BY <1>4, <2>3 DEF Base, WorkInv
    <3>2. v # w
      BY <1>1, <1>4, <2>1, <2>3, <3>1
    <3> QED BY <1>4, <2>3, <3>2 DEF Base, OneHolder
  <2> QED BY <2>2, <2>3
<1>5. OneHolder'
  BY <1>4 DEF OneHolder
<1> QED BY <1>2, <1>3, <1>5 DEF Base

\* The limits, when dispatcher w lets nothing go and records nothing.
LEMMA WorkerLimits ==
  ASSUME IInv, NEW w \in Workers, now' = now, row' = row, shown' = shown, rushed' = rushed,
         \A v \in Workers \ {w} : work'[v] = work[v],
         Cleared(work'[w]) => Cleared(work[w]) /\ work'[w].item = work[w].item
  PROVE  CapInv' /\ SpacedInv'
<1>1. now \in Nat /\ TypeOK
  BY Constants, TypeParts DEF IInv, Base
<1>2. ASSUME NEW a \in Alerts PROVE Counts(a)' => Counts(a)
  <2>1. ASSUME NEW v \in Workers, work'[v].item = a, Cleared(work'[v])
        PROVE  work[v].item = a /\ Cleared(work[v])
    BY <2>1
  <2>2. row'[a].status = "delivered" => Counts(a)
    BY DEF Counts
  <2> QED BY <1>1, <2>1, <2>2, CountsKept
<1> QED BY <1>1, <1>2, LimitsKept DEF IInv

-----------------------------------------------------------------------------
(* The assessor, the clock and Telegram *)

\* Revise keeps the invariant.
LEMMA ReviseStep ==
  ASSUME IInv, NEW e \in Events, Revise(e)
  PROVE  IInv'
<1>1. now \in Nat /\ TypeOK /\ now <= now /\ revision \in [Events -> Nat \ {0}]
  BY Constants, TypeParts DEF IInv, Base
<1>2. /\ now' = now /\ row' = row /\ work' = work /\ wire' = wire
      /\ shown' = shown /\ rushed' = rushed
      /\ revision' = [revision EXCEPT ![e] = @ + 1]
  BY DEF Revise
<1>3. TypeOK'
  <2>1. revision' \in [Events -> Nat \ {0}]
    BY <1>1, <1>2
  <2> QED BY <1>1, <1>2, <2>1, TypeParts, TypePartsNext
<1>4. \A a \in Alerts : RowInv(a)'
  BY <1>1, <1>2, RowFrame DEF IInv, Base
<1>5. \A w \in Workers : WorkInv(w)'
  BY <1>2 DEF IInv, Base, WorkInv
<1>6. OneHolder'
  BY <1>2 DEF IInv, Base, OneHolder
<1>7. CapInv' /\ SpacedInv'
  <2>1. \A a \in Alerts : Counts(a)' => Counts(a)
    BY <1>2 DEF Counts, Going
  <2> QED BY <1>1, <1>2, <2>1, LimitsKept DEF IInv
<1> QED BY <1>3, <1>4, <1>5, <1>6, <1>7 DEF IInv, Base

\* Tick keeps the invariant.
LEMMA TickStep ==
  ASSUME IInv, Tick
  PROVE  IInv'
<1>1. now \in 0..MaxTime /\ TypeOK /\ now < MaxTime /\ MaxTime \in Nat
  BY Constants, TypeParts DEF IInv, Base, Tick
<1>2. /\ now' = now + 1 /\ row' = row /\ work' = work /\ wire' = wire
      /\ shown' = shown /\ rushed' = rushed /\ revision' = revision
  BY DEF Tick
<1>3. now' \in 0..MaxTime /\ now' \in Nat /\ now <= now' /\ now \in Nat
  BY <1>1, <1>2
<1>4. TypeOK'
  BY <1>1, <1>2, <1>3, TypeParts, TypePartsNext
<1>5. \A a \in Alerts : RowInv(a)'
  BY <1>1, <1>2, <1>3, RowFrame DEF IInv, Base
<1>6. ASSUME NEW w \in Workers PROVE WorkInv(w)'
  <2>1. WorkInv(w)
    BY DEF IInv, Base
  <2>2. work[w].pc # "idle" => row'[work[w].item].status \in {"sending", "unknown"}
    BY <1>2, <2>1 DEF WorkInv
  <2> QED BY <1>1, <1>2, <1>3, <2>1, <2>2, WorkFrame
<1>7. OneHolder'
  BY <1>2 DEF IInv, Base, OneHolder
<1>8. CapInv' /\ SpacedInv'
  <2>1. ASSUME NEW a \in Alerts PROVE Counts(a)' => Counts(a)
    <3>1. row'[a].status = "delivered" => Counts(a)
      BY <1>2 DEF Counts
    <3> QED BY <1>1, <1>2, <1>3, <3>1, CountsKept
  <2> QED BY <1>1, <1>2, <1>3, <2>1, LimitsKept DEF IInv
<1> QED BY <1>4, <1>5, <1>6, <1>7, <1>8 DEF IInv, Base

\* A message that Telegram shows keeps the invariant.
LEMMA TelegramStep ==
  ASSUME IInv, NEW a \in Alerts, TelegramShows(a)
  PROVE  IInv'
<1>1. now \in 0..MaxTime /\ now \in Nat /\ TypeOK /\ now <= now
  BY Constants, TypeParts DEF IInv, Base
<1>2. /\ now' = now /\ row' = row /\ work' = work /\ wire' = wire \ {a}
      /\ shown' = [shown EXCEPT ![a] = now] /\ rushed' = rushed /\ revision' = revision
      /\ a \in wire
  BY DEF TelegramShows
<1>3. shown \in [Alerts -> Nat \cup {Never}] /\ RowInv(a)
  BY TypeParts DEF IInv, Base
<1>4. /\ \A b \in Alerts \ {a} : shown'[b] = shown[b] /\ (b \in wire' <=> b \in wire)
      /\ shown'[a] = now /\ a \notin wire' /\ now # Never
  BY <1>1, <1>2, <1>3 DEF Never
<1>5. shown[a] = Never /\ row[a].status \in {"sending", "unknown"}
  BY <1>2, <1>3 DEF RowInv
<1>6. TypeOK'
  <2>1. wire' \in SUBSET Alerts /\ shown' \in [Alerts -> Nat \cup {Never}]
    BY <1>1, <1>2, <1>3, TypeParts
  <2> QED BY <1>1, <1>2, <2>1, TypeParts, TypePartsNext
<1>7. ASSUME NEW b \in Alerts PROVE RowInv(b)'
  <2>1. CASE b = a
    BY <1>1, <1>2, <1>3, <1>4, <1>5, <2>1 DEF RowInv
  <2>2. CASE b # a
    BY <1>1, <1>2, <1>4, <2>2, RowFrame DEF IInv, Base
  <2> QED BY <2>1, <2>2
<1>8. ASSUME NEW w \in Workers PROVE WorkInv(w)'
  <2>1. WorkInv(w) /\ work[w] \in WorkType
    BY TypeParts DEF IInv, Base
  <2>2. CASE work[w].item = a
    BY <1>1, <1>2, <1>4, <2>1, <2>2, Constants DEF WorkInv, WorkType
  <2>3. CASE work[w].item # a
    <3>1. work[w].pc # "idle" =>
            /\ row'[work[w].item].status \in {"sending", "unknown"}
            /\ work[w].item \in Alerts \ {a}
      BY <1>2, <2>1, <2>3 DEF WorkInv
    <3> QED BY <1>1, <1>2, <1>4, <2>1, <3>1, WorkFrame
  <2> QED BY <2>2, <2>3
<1>9. OneHolder'
  BY <1>2 DEF IInv, Base, OneHolder
<1>10. CapInv' /\ SpacedInv'
  <2>1. \A b \in Alerts : Counts(b)' => Counts(b)
    BY <1>2 DEF Counts, Going
  <2>2. \A b \in Alerts : shown'[b] = shown[b] \/ (shown[b] = Never /\ shown'[b] = now)
    BY <1>4, <1>5
  <2> QED BY <1>1, <1>2, <2>1, <2>2, LimitsKept DEF IInv
<1> QED BY <1>6, <1>7, <1>8, <1>9, <1>10 DEF IInv, Base

\* Queue keeps the invariant.
LEMMA QueueStep ==
  ASSUME IInv, NEW a \in Alerts, Queue(a)
  PROVE  IInv'
<1>1. now \in 0..MaxTime /\ now \in Nat /\ TypeOK /\ now <= now
  BY Constants, TypeParts DEF IInv, Base
<1>2. row \in [Alerts -> RowType] /\ row[a].status = "absent" /\ RowInv(a)
  BY TypeParts DEF IInv, Base, Queue
<1>3. /\ now' = now /\ work' = work /\ wire' = wire /\ shown' = shown
      /\ rushed' = rushed /\ revision' = revision
  BY DEF Queue
<1>4. PICK t \in now - Lag..now, age \in 0..MaxAge, newFacts \in Judgments[a] :
        LET waits   == Waits(a, newFacts, t, AtQueueing)
            due     == Max(waits \cup {t})
            expires == t - age + MaxAge
        IN  /\ t >= 0 /\ due < expires
            /\ row' = [row EXCEPT ![a] =
                 [NoRow EXCEPT !.status = "pending", !.created = t,
                               !.expires = expires, !.due = due,
                               !.newFacts = newFacts]]
  BY DEF Queue
<1>5. t \in Nat /\ t <= now /\ newFacts \in BOOLEAN /\ t - age + MaxAge \in Nat
      /\ t - age + MaxAge <= t + MaxAge
  BY <1>1, <1>4, Constants
<1>6. PICK due \in Nat : due = Max(Waits(a, newFacts, t, AtQueueing) \cup {t})
  BY <1>5, WaitsType DEF IInv
<1>7. PICK q : q = [NoRow EXCEPT !.status = "pending", !.created = t,
                                 !.expires = t - age + MaxAge, !.due = due,
                                 !.newFacts = newFacts]
  OBVIOUS
<1>8. row' = [row EXCEPT ![a] = q]
  BY <1>4, <1>6, <1>7
<1>9. q \in RowType /\ q.status = "pending" /\ q.created = t
      /\ q.expires = t - age + MaxAge /\ q.delivered = Never
  <2>1. q = [status |-> "pending", created |-> t, expires |-> t - age + MaxAge,
             delivered |-> Never, due |-> due, attempts |-> 0, token |-> 0,
             leaseEnd |-> 0, newFacts |-> newFacts]
    BY <1>7 DEF NoRow
  <2>2. 0 \in 0..MaxAttempts
    BY Constants
  <2> QED BY <1>5, <1>6, <2>1, <2>2 DEF RowType, Statuses
<1>10. /\ row' \in [Alerts -> RowType] /\ row'[a] = q
       /\ \A b \in Alerts \ {a} : row'[b] = row[b]
  BY <1>2, <1>8, <1>9
<1>11. shown[a] = Never /\ a \notin wire
  BY <1>2 DEF RowInv
<1>12. TypeOK'
  BY <1>1, <1>3, <1>10, TypeParts, TypePartsNext
<1>13. ASSUME NEW b \in Alerts PROVE RowInv(b)'
  <2>1. CASE b = a
    BY <1>3, <1>5, <1>9, <1>10, <1>11, <2>1 DEF RowInv
  <2>2. CASE b # a
    BY <1>1, <1>3, <1>10, <2>2, RowFrame DEF IInv, Base
  <2> QED BY <2>1, <2>2
<1>14. ASSUME NEW w \in Workers PROVE WorkInv(w)'
  <2>1. WorkInv(w)
    BY DEF IInv, Base
  <2>2. work[w].pc # "idle" => row'[work[w].item].status \in {"sending", "unknown"}
    BY <1>2, <1>10, <2>1 DEF WorkInv
  <2> QED BY <1>1, <1>3, <2>1, <2>2, WorkFrame
<1>15. OneHolder'
  BY <1>3 DEF IInv, Base, OneHolder
<1>16. CapInv' /\ SpacedInv'
  <2>1. ASSUME NEW b \in Alerts, Counts(b)' PROVE Counts(b) /\ b # a
    BY <1>3, <1>9, <1>10, <2>1 DEF Counts, Going
  <2> QED BY <1>1, <1>3, <1>10, <2>1, LimitsKept DEF IInv
<1> QED BY <1>12, <1>13, <1>14, <1>15, <1>16 DEF IInv, Base

-----------------------------------------------------------------------------
(* The dispatcher *)

\* Recover keeps the invariant.
LEMMA RecoverStep ==
  ASSUME IInv, Recover
  PROVE  IInv'
<1>1. now \in 0..MaxTime /\ now \in Nat /\ TypeOK /\ now <= now
  BY Constants, TypeParts DEF IInv, Base
<1>2. row \in [Alerts -> RowType] /\ shown \in [Alerts -> Nat \cup {Never}]
  BY TypeParts DEF IInv, Base
<1>3. /\ now' = now /\ work' = work /\ wire' = wire /\ shown' = shown
      /\ rushed' = rushed /\ revision' = revision /\ row' = Recovered
  BY DEF Recover
<1>4. ASSUME NEW a \in Alerts
      PROVE  /\ row'[a] \in RowType /\ row'[a].created = row[a].created
             /\ row'[a].expires = row[a].expires /\ row'[a].delivered = row[a].delivered
             /\ \/ row'[a] = row[a]
                \/ row[a].status = "sending" /\ row'[a].status = "unknown"
                \/ row[a].status \in {"pending", "failed"} /\ row'[a].status = "expired"
             /\ row'[a].leaseEnd = row[a].leaseEnd \/ row'[a].status = "unknown"
             /\ row'[a].newFacts = row[a].newFacts
  <2>1. row[a] \in RowType
    BY <1>2
  <2>2. CASE row[a].status = "sending" /\ row[a].leaseEnd <= now
    <3>1. PICK q : q = [row[a] EXCEPT !.status = "unknown", !.token = 0, !.leaseEnd = 0, !.due = 0]
      OBVIOUS
    <3>2. row'[a] = q
      BY <1>3, <2>2, <3>1 DEF Recovered
    <3>3. 0 \in 0..MaxAttempts
      BY Constants
    <3>4. /\ q \in RowType /\ q.status = "unknown" /\ q.created = row[a].created
          /\ q.expires = row[a].expires /\ q.delivered = row[a].delivered
          /\ q.newFacts = row[a].newFacts
      BY <2>1, <3>1, <3>3 DEF RowType, Statuses
    <3> QED BY <2>2, <3>2, <3>4
  <2>3. CASE /\ ~(row[a].status = "sending" /\ row[a].leaseEnd <= now)
             /\ row[a].status \in {"pending", "failed"} /\ row[a].expires <= now
    <3>1. PICK q : q = [row[a] EXCEPT !.status = "expired", !.due = 0]
      OBVIOUS
    <3>2. row'[a] = q
      BY <1>3, <2>3, <3>1 DEF Recovered
    <3>3. /\ q \in RowType /\ q.status = "expired" /\ q.created = row[a].created
          /\ q.expires = row[a].expires /\ q.delivered = row[a].delivered
          /\ q.newFacts = row[a].newFacts /\ q.leaseEnd = row[a].leaseEnd
      BY <2>1, <3>1 DEF RowType, Statuses
    <3> QED BY <2>3, <3>2, <3>3
  <2>4. CASE /\ ~(row[a].status = "sending" /\ row[a].leaseEnd <= now)
             /\ ~(row[a].status \in {"pending", "failed"} /\ row[a].expires <= now)
    BY <1>3, <2>1, <2>4 DEF Recovered
  <2> QED BY <2>2, <2>3, <2>4
<1>5. TypeOK'
  <2>1. row' \in [Alerts -> RowType]
    <3>1. row' = [a \in Alerts |-> row'[a]]
      BY <1>3 DEF Recovered
    <3> QED BY <1>4, <3>1
  <2> QED BY <1>1, <1>3, <2>1, TypeParts, TypePartsNext
<1>6. ASSUME NEW a \in Alerts PROVE RowInv(a)'
  <2>1. RowInv(a)
    BY DEF IInv, Base
  <2>2. CASE row'[a] = row[a]
    BY <1>1, <1>3, <2>1, <2>2, RowFrame
  <2>3. CASE row[a].status = "sending" /\ row'[a].status = "unknown"
    BY <1>3, <1>4, <2>1, <2>3 DEF RowInv
  <2>4. CASE row[a].status \in {"pending", "failed"} /\ row'[a].status = "expired"
    BY <1>3, <1>4, <2>1, <2>4 DEF RowInv
  <2> QED BY <1>4, <2>2, <2>3, <2>4
<1>7. ASSUME NEW w \in Workers PROVE WorkInv(w)'
  <2>1. WorkInv(w)
    BY DEF IInv, Base
  <2>2. work[w].pc # "idle" => row'[work[w].item].status \in {"sending", "unknown"}
    BY <1>4, <2>1 DEF WorkInv
  <2> QED BY <1>1, <1>3, <2>1, <2>2, WorkFrame
<1>8. OneHolder'
  BY <1>3 DEF IInv, Base, OneHolder
<1>9. CapInv' /\ SpacedInv'
  <2>1. ASSUME NEW a \in Alerts PROVE Counts(a)' => Counts(a)
    BY <1>3, <1>4 DEF Counts, Going
  <2> QED BY <1>1, <1>3, <1>4, <2>1, LimitsKept DEF IInv
<1> QED BY <1>5, <1>6, <1>7, <1>8, <1>9 DEF IInv, Base

\* Claim keeps the invariant.
LEMMA ClaimStep ==
  ASSUME IInv, NEW w \in Workers, Claim(w)
  PROVE  IInv'
<1>1. now \in 0..MaxTime /\ now \in Nat /\ TypeOK /\ now <= now /\ Base
  BY Constants, TypeParts DEF IInv, Base
<1>2. row \in [Alerts -> RowType] /\ work \in [Workers -> WorkType]
  BY <1>1, TypeParts
<1>3. PICK a \in Claimable : a = Min(Claimable)
  <2>1. Claimable # {} /\ Claimable \subseteq Nat
    BY Constants DEF Claim, Claimable
  <2> QED BY <2>1, MinOfNat
<1>4. /\ a \in Alerts /\ row[a].status \in {"pending", "failed"}
      /\ row[a].attempts < MaxAttempts /\ row[a].expires > now
  BY <1>3 DEF Claimable
<1>5. PICK t : t = row[a].attempts + 1
  OBVIOUS
<1>6. row[a] \in RowType /\ t \in 0..MaxAttempts /\ now + Lease \in Nat
  BY <1>1, <1>2, <1>4, <1>5, Constants DEF RowType
<1>7. PICK q : q = [row[a] EXCEPT !.status = "sending", !.attempts = t,
                                  !.token = t, !.leaseEnd = now + Lease]
  OBVIOUS
<1>8. /\ q \in RowType /\ q.status = "sending" /\ q.leaseEnd = now + Lease
      /\ q.created = row[a].created /\ q.expires = row[a].expires
      /\ q.delivered = row[a].delivered /\ q.newFacts = row[a].newFacts
  BY <1>6, <1>7 DEF RowType, Statuses
<1>9. PICK k : k = [Idle EXCEPT !.pc = "guard", !.item = a, !.claim = t]
  OBVIOUS
<1>10. k \in WorkType /\ k.pc = "guard" /\ k.item = a /\ k.clock = 0
  BY <1>4, <1>6, <1>9, Constants DEF Idle, WorkType
<1>11. /\ now' = now /\ wire' = wire /\ shown' = shown /\ rushed' = rushed
       /\ revision' = revision /\ work' = [work EXCEPT ![w] = k] /\ work[w].pc = "idle"
       /\ row' = [row EXCEPT ![a].status = "sending", ![a].attempts = t,
                             ![a].token = t, ![a].leaseEnd = now + Lease]
  BY <1>3, <1>5, <1>9 DEF Claim
<1>12. row' = [row EXCEPT ![a] = q]
  BY <1>2, <1>4, <1>7, <1>11
<1>13. /\ row'[a] = q /\ row' \in [Alerts -> RowType]
       /\ \A b \in Alerts \ {a} : row'[b] = row[b]
       /\ work'[w] = k /\ work' \in [Workers -> WorkType]
       /\ \A v \in Workers \ {w} : work'[v] = work[v]
  <2>1. work'[w] = k /\ work' \in [Workers -> WorkType]
        /\ \A v \in Workers \ {w} : work'[v] = work[v]
    BY <1>2, <1>10, <1>11
  <2>2. row'[a] = q /\ row' \in [Alerts -> RowType]
        /\ \A b \in Alerts \ {a} : row'[b] = row[b]
    BY <1>2, <1>4, <1>8, <1>12
  <2> QED BY <2>1, <2>2
<1>14. RowInv(a) /\ shown[a] = Never /\ a \notin wire
  <2>1. RowInv(a)
    BY <1>1, <1>4 DEF Base
  <2> QED BY <1>4, <2>1 DEF RowInv
<1>15. \A v \in Workers : work[v].item # a
  <2>1. ASSUME NEW v \in Workers PROVE work[v].item # a
    <3>1. WorkInv(v)
      BY <1>1 DEF Base
    <3> QED BY <1>4, <3>1, Constants DEF WorkInv
  <2> QED BY <2>1
<1>16. TypeOK'
  BY <1>1, <1>11, <1>13, TypeParts, TypePartsNext
<1>17. RowInv(a)'
  <2>1. q.leaseEnd <= q.created + Way + 1
    BY <1>1, <1>4, <1>6, <1>8, <1>14, Constants DEF RowInv, Way, RowType
  <2> QED BY <1>4, <1>8, <1>11, <1>13, <1>14, <2>1 DEF RowInv
<1>18. WorkInv(w)'
  BY <1>1, <1>4, <1>8, <1>10, <1>11, <1>13, <1>14 DEF WorkInv
<1>19. Base'
  BY <1>1, <1>4, <1>10, <1>11, <1>13, <1>15, <1>16, <1>17, <1>18, WorkerStep
<1>20. CapInv' /\ SpacedInv'
  <2>1. ASSUME NEW b \in Alerts, Counts(b)' PROVE Counts(b) /\ b # a
    <3>1. b # a
      BY <1>8, <1>10, <1>13, <1>15, <2>1 DEF Counts, Going, Cleared
    <3>2. row'[b] = row[b]
      BY <1>13, <3>1
    <3>3. ASSUME NEW v \in Workers, work'[v].item = b
          PROVE  work'[v] = work[v]
      BY <1>10, <1>13, <3>1, <3>3
    <3> QED BY <1>11, <2>1, <3>1, <3>2, <3>3 DEF Counts, Going
  <2> QED BY <1>1, <1>11, <1>13, <2>1, LimitsKept DEF IInv
<1> QED BY <1>19, <1>20 DEF IInv

\* The dispatcher ends its work on a row: every verdict is one of what it knows.
LEMMA ConcludeStep ==
  ASSUME IInv, NEW w \in Workers, NEW outcome, NEW retry \in Nat, Conclude(w, outcome, retry),
         outcome \in {"delivered", "failed", "unknown", "expired"},
         work[w].pc # "idle", now' = now, revision' = revision, row' = row,
         shown' = shown, rushed' = rushed,
         wire' = wire \/ wire' = wire \ {work[w].item},
         outcome \in {"failed", "expired"} =>
           work[w].item \notin wire' /\ shown[work[w].item] = Never,
         outcome = "delivered" => shown[work[w].item] # Never /\ work[w].pc = "wait"
  PROVE  IInv'
<1>1. now \in 0..MaxTime /\ now \in Nat /\ TypeOK /\ Base
  BY Constants, TypeParts DEF IInv, Base
<1>2. work \in [Workers -> WorkType] /\ wire \in SUBSET Alerts
  BY <1>1, TypeParts
<1>3. PICK k : k = [work[w] EXCEPT !.pc = "finish", !.clock = 0, !.outcome = outcome, !.retry = retry]
  OBVIOUS
<1>4. k \in WorkType /\ k.pc = "finish" /\ k.outcome = outcome /\ k.item = work[w].item
      /\ k.clock = 0
  BY <1>2, <1>3 DEF WorkType
<1>5. work' = [work EXCEPT ![w] = k]
  BY <1>3 DEF Conclude
<1>6. /\ work'[w] = k /\ work' \in [Workers -> WorkType]
      /\ \A v \in Workers \ {w} : work'[v] = work[v]
  BY <1>2, <1>4, <1>5
<1>7. WorkInv(w) /\ work[w].item \in Alerts
  BY <1>1 DEF Base, WorkInv
<1>8. PICK a \in Alerts : a = work[w].item
  BY <1>7
<1>9. wire' \in SUBSET Alerts /\ \A b \in Alerts \ {a} : b \in wire' <=> b \in wire
  BY <1>2, <1>8
<1>10. TypeOK'
  BY <1>1, <1>6, <1>9, TypeParts, TypePartsNext
<1>11. RowInv(a)'
  <2>1. RowInv(a)
    BY <1>1 DEF Base
  <2>2. a \in wire' => a \in wire
    BY <1>8
  <2> QED BY <2>1, <2>2 DEF RowInv
<1>12. WorkInv(w)'
  BY <1>1, <1>4, <1>6, <1>7, <1>8 DEF WorkInv, Unsent
<1>13. \A v \in Workers \ {w} : work'[v] = work[v] /\ work[v].item # a
  BY <1>1, <1>6, <1>8, OthersElsewhere
<1>14. Base'
  BY <1>1, <1>4, <1>6, <1>8, <1>9, <1>10, <1>11, <1>12, <1>13, WorkerStep
<1>15. Cleared(work'[w]) => Cleared(work[w]) /\ work'[w].item = work[w].item
  BY <1>4, <1>6 DEF Cleared
<1>16. CapInv' /\ SpacedInv'
  BY <1>6, <1>15, WorkerLimits
<1> QED BY <1>14, <1>16 DEF IInv

\* ReadClock keeps the invariant.
LEMMA ReadClockStep ==
  ASSUME IInv, NEW w \in Workers, ReadClock(w)
  PROVE  IInv'
<1>1. now \in 0..MaxTime /\ now \in Nat /\ TypeOK /\ Base
  BY Constants, TypeParts DEF IInv, Base
<1>2. work \in [Workers -> WorkType]
  BY <1>1, TypeParts
<1>3. /\ now' = now /\ row' = row /\ wire' = wire /\ shown' = shown /\ rushed' = rushed
      /\ revision' = revision /\ work[w].pc = "guard"
      /\ work' = [work EXCEPT ![w].pc = "check", ![w].clock = now]
  BY DEF ReadClock
<1>4. PICK k : k = [work[w] EXCEPT !.pc = "check", !.clock = now]
  OBVIOUS
<1>5. k \in WorkType /\ k.pc = "check" /\ k.item = work[w].item /\ k.clock = now
  BY <1>1, <1>2, <1>4 DEF WorkType
<1>6. work' = [work EXCEPT ![w] = k]
  BY <1>2, <1>3, <1>4
<1>7. /\ work'[w] = k /\ work' \in [Workers -> WorkType]
      /\ \A v \in Workers \ {w} : work'[v] = work[v]
  BY <1>2, <1>5, <1>6
<1>8. WorkInv(w) /\ work[w].item \in Alerts
  BY <1>1, <1>3 DEF Base, WorkInv
<1>9. PICK a \in Alerts : a = work[w].item
  BY <1>8
<1>10. TypeOK'
  BY <1>1, <1>3, <1>7, TypeParts, TypePartsNext
<1>11. RowInv(a)'
  <2>1. RowInv(a)
    BY <1>1 DEF Base
  <2> QED BY <1>3, <2>1 DEF RowInv
<1>12. WorkInv(w)'
  BY <1>1, <1>3, <1>5, <1>7, <1>8, <1>9 DEF WorkInv, Unsent
<1>13. \A v \in Workers \ {w} : work'[v] = work[v] /\ work[v].item # a
  BY <1>1, <1>3, <1>7, <1>9, OthersElsewhere
<1>14. Base'
  BY <1>1, <1>3, <1>5, <1>7, <1>9, <1>10, <1>11, <1>12, <1>13, WorkerStep
<1>15. ~Cleared(work'[w])
  BY <1>5, <1>7 DEF Cleared
<1>16. CapInv' /\ SpacedInv'
  BY <1>3, <1>7, <1>15, WorkerLimits
<1> QED BY <1>14, <1>16 DEF IInv

\* Send keeps the invariant.
LEMMA SendStep ==
  ASSUME IInv, NEW w \in Workers, Send(w)
  PROVE  IInv'
<1>1. now \in 0..MaxTime /\ now \in Nat /\ TypeOK /\ Base
  BY Constants, TypeParts DEF IInv, Base
<1>2. work \in [Workers -> WorkType] /\ wire \in SUBSET Alerts
  BY <1>1, TypeParts
<1>3. /\ now' = now /\ row' = row /\ shown' = shown /\ rushed' = rushed
      /\ revision' = revision /\ work[w].pc = "send"
  BY DEF Send
<1>4. WorkInv(w) /\ work[w].item \in Alerts
  BY <1>1, <1>3 DEF Base, WorkInv
<1>5. PICK a \in Alerts : a = work[w].item
  BY <1>4
<1>6. a \notin wire /\ shown[a] = Never /\ row[a].status \in {"sending", "unknown"}
  BY <1>3, <1>4, <1>5 DEF WorkInv, Unsent
<1>7. CASE row[a].expires <= now
  <2>1. Conclude(w, "expired", 0) /\ wire' = wire
    BY <1>5, <1>7 DEF Send
  <2> QED BY <1>3, <1>5, <1>6, <2>1, ConcludeStep
<1>8. CASE ~(row[a].expires <= now)
  <2>1. work' = [work EXCEPT ![w].pc = "wait"] /\ wire' = wire \cup {a}
    BY <1>5, <1>8 DEF Send
  <2>2. PICK k : k = [work[w] EXCEPT !.pc = "wait"]
    OBVIOUS
  <2>3. k \in WorkType /\ k.pc = "wait" /\ k.item = work[w].item /\ k.clock = work[w].clock
    BY <1>2, <2>2 DEF WorkType
  <2>4. work' = [work EXCEPT ![w] = k]
    BY <1>2, <2>1, <2>2
  <2>5. /\ work'[w] = k /\ work' \in [Workers -> WorkType]
        /\ \A v \in Workers \ {w} : work'[v] = work[v]
    BY <1>2, <2>3, <2>4
  <2>6. wire' \in SUBSET Alerts /\ a \in wire' /\ \A b \in Alerts \ {a} : b \in wire' <=> b \in wire
    BY <1>2, <2>1
  <2>7. TypeOK'
    BY <1>1, <1>3, <2>5, <2>6, TypeParts, TypePartsNext
  <2>8. RowInv(a)'
    <3>1. RowInv(a)
      BY <1>1 DEF Base
    <3> QED BY <1>3, <1>6, <3>1 DEF RowInv
  <2>9. WorkInv(w)'
    BY <1>1, <1>3, <1>4, <1>5, <2>3, <2>5, <2>6 DEF WorkInv, Unsent
  <2>10. \A v \in Workers \ {w} : work'[v] = work[v] /\ work[v].item # a
    BY <1>1, <1>3, <1>5, <2>5, OthersElsewhere
  <2>11. Base'
    BY <1>1, <1>3, <1>5, <2>3, <2>5, <2>6, <2>7, <2>8, <2>9, <2>10, WorkerStep
  <2>12. Cleared(work[w]) /\ work'[w].item = work[w].item
    BY <1>3, <2>3, <2>5 DEF Cleared
  <2>13. CapInv' /\ SpacedInv'
    BY <1>3, <2>5, <2>12, WorkerLimits
  <2> QED BY <2>11, <2>13 DEF IInv
<1> QED BY <1>7, <1>8

\* The answers of a request, and the lack of one.
LEMMA AnswerStep ==
  ASSUME IInv, NEW w \in Workers, Acknowledged(w) \/ Rejected(w) \/ AnswerLost(w)
  PROVE  IInv'
<1>1. now \in 0..MaxTime /\ now \in Nat /\ TypeOK /\ Base
  BY Constants, TypeParts DEF IInv, Base
<1>2. work[w].pc = "wait" /\ now' = now /\ row' = row /\ shown' = shown
      /\ rushed' = rushed /\ revision' = revision
  BY DEF Acknowledged, Rejected, AnswerLost
<1>3. WorkInv(w) /\ work[w].item \in Alerts /\ RowInv(work[w].item)
  BY <1>1, <1>2 DEF Base, WorkInv
<1>4. CASE Acknowledged(w)
  <2>1. Conclude(w, "delivered", 0) /\ wire' = wire /\ work[w].item \notin wire
    BY <1>4 DEF Acknowledged
  <2>2. shown[work[w].item] # Never
    BY <1>2, <1>3, <2>1 DEF WorkInv
  <2> QED BY <1>2, <2>1, <2>2, ConcludeStep
<1>5. CASE Rejected(w)
  <2>1. wire' = wire \ {work[w].item} /\ work[w].item \in wire
    BY <1>5 DEF Rejected
  <2>2. work[w].item \notin wire' /\ shown[work[w].item] = Never
    BY <1>3, <2>1 DEF RowInv
  <2>3. CASE Conclude(w, "failed", now + RetryDelay)
    <3>1. now + RetryDelay \in Nat
      BY <1>1, Constants
    <3> QED BY <1>2, <2>1, <2>2, <2>3, <3>1, ConcludeStep
  <2>4. CASE Conclude(w, "expired", 0)
    BY <1>2, <2>1, <2>2, <2>4, ConcludeStep
  <2> QED BY <1>5, <2>3, <2>4 DEF Rejected
<1>6. CASE AnswerLost(w)
  <2>1. Conclude(w, "unknown", 0) /\ wire' = wire
    BY <1>6 DEF AnswerLost
  <2> QED BY <1>2, <2>1, ConcludeStep
<1> QED BY <1>4, <1>5, <1>6

\* Crash keeps the invariant.
LEMMA CrashStep ==
  ASSUME IInv, NEW w \in Workers, Crash(w)
  PROVE  IInv'
<1>1. now \in 0..MaxTime /\ now \in Nat /\ TypeOK /\ Base
  BY Constants, TypeParts DEF IInv, Base
<1>2. work \in [Workers -> WorkType] /\ Idle \in WorkType /\ Idle.pc = "idle" /\ Idle.item = 0
  BY <1>1, TypeParts, Constants DEF Idle, WorkType
<1>3. /\ now' = now /\ row' = row /\ wire' = wire /\ shown' = shown /\ rushed' = rushed
      /\ revision' = revision /\ work[w].pc # "idle" /\ work' = [work EXCEPT ![w] = Idle]
  BY DEF Crash
<1>4. /\ work'[w] = Idle /\ work' \in [Workers -> WorkType]
      /\ \A v \in Workers \ {w} : work'[v] = work[v]
  BY <1>2, <1>3
<1>5. PICK a \in Alerts : a = work[w].item
  BY <1>1, <1>3 DEF Base, WorkInv
<1>6. TypeOK'
  BY <1>1, <1>3, <1>4, TypeParts, TypePartsNext
<1>7. RowInv(a)'
  <2>1. RowInv(a)
    BY <1>1 DEF Base
  <2> QED BY <1>3, <2>1 DEF RowInv
<1>8. WorkInv(w)'
  BY <1>2, <1>4 DEF WorkInv
<1>9. \A v \in Workers \ {w} : work'[v] = work[v] /\ work[v].item # a
  BY <1>1, <1>3, <1>4, <1>5, OthersElsewhere
<1>10. Base'
  BY <1>1, <1>3, <1>4, <1>5, <1>6, <1>7, <1>8, <1>9, WorkerStep
<1>11. ~Cleared(work'[w])
  BY <1>2, <1>4 DEF Cleared
<1>12. CapInv' /\ SpacedInv'
  BY <1>3, <1>4, <1>11, WorkerLimits
<1> QED BY <1>10, <1>12 DEF IInv

\* Finish keeps the invariant.
LEMMA FinishStep ==
  ASSUME IInv, NEW w \in Workers, Finish(w)
  PROVE  IInv'
<1>1. now \in 0..MaxTime /\ now \in Nat /\ TypeOK /\ Base
  BY Constants, TypeParts DEF IInv, Base
<1>2. work \in [Workers -> WorkType] /\ Idle \in WorkType /\ Idle.pc = "idle" /\ Idle.item = 0
      /\ row \in [Alerts -> RowType]
  BY <1>1, TypeParts, Constants DEF Idle, WorkType
<1>3. /\ now' = now /\ wire' = wire /\ shown' = shown /\ rushed' = rushed
      /\ revision' = revision /\ work[w].pc = "finish" /\ work' = [work EXCEPT ![w] = Idle]
  BY DEF Finish
<1>4. /\ work'[w] = Idle /\ work' \in [Workers -> WorkType]
      /\ \A v \in Workers \ {w} : work'[v] = work[v]
  BY <1>2, <1>3
<1>5. WorkInv(w) /\ work[w].item \in Alerts
  BY <1>1, <1>3 DEF Base, WorkInv
<1>6. PICK a \in Alerts : a = work[w].item
  BY <1>5
<1>7. RowInv(a) /\ row[a] \in RowType /\ work[w] \in WorkType
  BY <1>1, <1>2 DEF Base
<1>8. WorkInv(w)'
  BY <1>2, <1>4 DEF WorkInv
<1>9. \A v \in Workers \ {w} : work'[v] = work[v] /\ work[v].item # a
  BY <1>1, <1>3, <1>4, <1>6, OthersElsewhere
<1>10. ~Cleared(work'[w])
  BY <1>2, <1>4 DEF Cleared
<1>11. CASE row' = row
  <2>1. TypeOK'
    BY <1>1, <1>3, <1>4, <1>11, TypeParts, TypePartsNext
  <2>2. RowInv(a)'
    BY <1>3, <1>7, <1>11 DEF RowInv
  <2>3. Base'
    BY <1>1, <1>3, <1>4, <1>8, <1>9, <1>11, <2>1, <2>2, WorkerStep
  <2>4. CapInv' /\ SpacedInv'
    BY <1>3, <1>4, <1>10, <1>11, WorkerLimits
  <2> QED BY <2>3, <2>4 DEF IInv
<1>12. CASE row' # row
  <2>1. PICK d, u : /\ d = (IF work[w].outcome = "delivered" THEN now ELSE Never)
                    /\ u = (IF work[w].outcome = "failed" THEN work[w].retry ELSE 0)
    OBVIOUS
  <2>2. /\ row[a].status = "sending" /\ row[a].leaseEnd > now
        /\ row' = [row EXCEPT ![a].status = work[w].outcome, ![a].delivered = d,
                              ![a].due = u, ![a].token = 0, ![a].leaseEnd = 0]
    BY <1>6, <1>12, <2>1 DEF Finish
  <2>3. PICK q : q = [row[a] EXCEPT !.status = work[w].outcome, !.delivered = d,
                                    !.due = u, !.token = 0, !.leaseEnd = 0]
    OBVIOUS
  <2>4. work[w].outcome \in {"delivered", "failed", "unknown", "expired"}
    BY <1>3, <1>5, <1>7 DEF WorkInv, WorkType
  <2>5. /\ q \in RowType /\ q.status = work[w].outcome /\ q.delivered = d
        /\ q.created = row[a].created /\ q.expires = row[a].expires
        /\ q.newFacts = row[a].newFacts
    <3>1. u \in Nat /\ d \in Nat \cup {Never} /\ 0 \in 0..MaxAttempts
      BY <1>1, <1>7, <2>1, Constants DEF WorkType
    <3> QED BY <1>7, <2>3, <2>4, <3>1 DEF RowType, Statuses
  <2>6. row' = [row EXCEPT ![a] = q]
    BY <1>2, <2>2, <2>3
  <2>7. row'[a] = q /\ row' \in [Alerts -> RowType] /\ \A b \in Alerts \ {a} : row'[b] = row[b]
    BY <1>2, <2>5, <2>6
  <2>8. TypeOK'
    BY <1>1, <1>3, <1>4, <2>7, TypeParts, TypePartsNext
  <2>9. RowInv(a)'
    <3>1. CASE work[w].outcome = "delivered"
      <4>1. shown[a] # Never /\ shown[a] <= now /\ a \notin wire
        BY <1>3, <1>5, <1>6, <1>7, <3>1 DEF WorkInv, RowInv
      <4>2. now <= row[a].created + Way
        BY <1>1, <1>7, <2>2, Constants DEF RowInv, RowType, Way
      <4> QED BY <1>1, <1>3, <1>7, <2>1, <2>5, <2>7, <3>1, <4>1, <4>2 DEF RowInv
    <3>2. CASE work[w].outcome = "unknown"
      BY <1>3, <1>7, <2>1, <2>2, <2>5, <2>7, <3>2 DEF RowInv
    <3>3. CASE work[w].outcome \in {"failed", "expired"}
      <4>1. shown[a] = Never /\ a \notin wire
        BY <1>3, <1>5, <1>6, <3>3 DEF WorkInv, Unsent
      <4> QED BY <1>3, <1>7, <2>1, <2>5, <2>7, <3>3, <4>1 DEF RowInv
    <3> QED BY <2>4, <3>1, <3>2, <3>3
  <2>10. Base'
    BY <1>1, <1>3, <1>4, <1>8, <1>9, <2>7, <2>8, <2>9, WorkerStep
  <2>11. ASSUME NEW b \in Alerts PROVE Counts(b)' => Counts(b)
    <3>1. CASE b = a
      <4>1. row'[b].status # "sending"
        BY <2>4, <2>5, <2>7, <3>1
      <4>2. ASSUME row'[b].status = "delivered" PROVE Counts(b)
        <5>1. Cleared(work[w])
          BY <1>3, <2>5, <2>7, <3>1, <4>2 DEF Cleared
        <5> QED BY <1>6, <2>2, <3>1, <5>1 DEF Counts, Going
      <4> QED BY <1>1, <1>3, <4>1, <4>2, CountsKept
    <3>2. CASE b # a
      <4>1. row'[b] = row[b]
        BY <2>7, <3>2
      <4>2. ASSUME NEW v \in Workers, work'[v].item = b, Cleared(work'[v])
            PROVE  work[v].item = b /\ Cleared(work[v])
        BY <1>4, <1>10, <4>2
      <4>3. row'[b].status = "delivered" => Counts(b)
        BY <4>1 DEF Counts
      <4> QED BY <1>1, <1>3, <4>1, <4>2, <4>3, CountsKept
    <3> QED BY <3>1, <3>2
  <2>12. \A b \in Alerts : row'[b].newFacts = row[b].newFacts
    BY <2>5, <2>7
  <2>13. CapInv' /\ SpacedInv'
    BY <1>1, <1>3, <2>11, <2>12, LimitsKept DEF IInv
  <2> QED BY <2>10, <2>13 DEF IInv
<1> QED BY <1>11, <1>12

\* An alert that counts, and was or can be shown in the hour before time t, is
\* one the policy looks at and counts within that hour, if not after t.
LEMMA RecentlyCounted ==
  ASSUME Base, CapSettings, NEW a \in Alerts, NEW b \in Alerts, a # b, Counts(b),
         NEW t \in Nat, t <= now, shown[b] = Never \/ t - Hour < shown[b]
  PROVE  b \in Recent(a, t, AtDispatch) /\ t - Hour + 1 <= CountedAt(b)
<1>1. RowInv(b) /\ row[b] \in RowType /\ shown[b] \in Nat \cup {Never} /\ now \in Nat
  BY Constants, TypeParts DEF Base
<1>2. CASE row[b].status = "delivered"
  BY <1>1, <1>2, Constants
     DEF RowInv, RowType, Recent, CountedAt, AtDispatch, History, CapSettings, Way, Never
<1>3. CASE Going(b)
  BY <1>1, <1>3, Constants
     DEF Going, RowInv, RowType, Recent, CountedAt, AtDispatch, History, CapSettings, Way, Never
<1> QED BY <1>2, <1>3 DEF Counts

\* When the policy lets an alert go, fewer than MaxPerHour others were or can be
\* shown in the hour before, unless one counts for a later time.
LEMMA RoomForOne ==
  ASSUME Base, CapSettings, NEW a \in Alerts, NEW t \in Nat, t <= now,
         NEW newFacts, Waits(a, newFacts, t, AtDispatch) = {}, ~Late(a, t),
         NEW S, S \subseteq Alerts \ {a},
         \A b \in S : Counts(b) /\ (shown[b] = Never \/ t - Hour < shown[b])
  PROVE  Cardinality(S) < MaxPerHour
<1> DEFINE B == Recent(a, t, AtDispatch)
           Since(x) == Cardinality({b \in B : x <= CountedAt(b) /\ CountedAt(b) <= t})
           full == {x \in t - Hour + 1..t : Full(Since(x))}
           x0 == t - Hour + 1
           S0 == {b \in B : x0 <= CountedAt(b) /\ CountedAt(b) <= t}
<1>1. CapEnds(t, B) = {}
  BY DEF Waits
<1>2. full = {}
  BY <1>1 DEF CapEnds
<1>3. x0 \in t - Hour + 1..t
  BY Constants
<1>4. ~Full(Cardinality(S0))
  BY <1>2, <1>3
<1>5. ASSUME NEW b \in S PROVE b \in S0
  <2>1. b \in Alerts /\ a # b /\ Counts(b) /\ (shown[b] = Never \/ t - Hour < shown[b])
    OBVIOUS
  <2>2. b \in B /\ x0 <= CountedAt(b)
    BY <2>1, RecentlyCounted
  <2>3. b \in Recent(a, t, {"sending", "delivered"})
    BY <2>1, <2>2 DEF Recent, Counts, Going
  <2>4. ~(CountedAt(b) > t)
    BY <2>3 DEF Late
  <2>5. CountedAt(b) \in Nat
    BY <2>1, CountedType DEF Base
  <2> QED BY <2>2, <2>4, <2>5
<1>6. IsFiniteSet(S0)
  <2>1. S0 \in SUBSET Alerts
    BY DEF Recent
  <2> HIDE DEF S0
  <2> QED BY <2>1, Constants, FS_Subset
<1>7. Cardinality(S) <= Cardinality(S0) /\ Cardinality(S) \in Nat /\ Cardinality(S0) \in Nat
  <2>1. S \in SUBSET S0
    BY <1>5
  <2> HIDE DEF S0
  <2> QED BY <1>6, <2>1, FS_Subset, FS_CardinalityType
<1>8. Cardinality(S0) < MaxPerHour
  BY <1>4, <1>7, Constants DEF Full
<1> QED BY <1>7, <1>8, Constants

\* When the policy lets an alert b go, every alert a of the event that counts is
\* old enough, or of an earlier revision than b's news.
LEMMA ClearOfOthers ==
  ASSUME Base, SpacingSettings, NEW a \in Alerts, NEW b \in Alerts, a # b,
         Event[a] = Event[b], Counts(a), NEW t \in Nat, t <= now,
         Waits(b, row[b].newFacts, t, AtDispatch) = {}
  PROVE  Newer(a, b) \/ (shown[a] # Never /\ shown[a] + Cooldown <= now)
<1>1. RowInv(a) /\ row[a] \in RowType /\ shown[a] \in Nat \cup {Never} /\ now \in Nat
  BY Constants, TypeParts DEF Base
<1>2. CountedAt(a) \in Nat
  BY <1>1, CountedType DEF Base
<1> DEFINE B == Recent(b, t, AtDispatch)
           same == {c \in B : Event[c] = Event[b]}
<1>3. CASE a \notin B
  <2>1. row[a].status \in AtDispatch
    BY DEF Counts, Going, AtDispatch
  <2>2. ~(row[a].created > t - History)
    BY <1>3, <2>1 DEF Recent
  <2>3. CASE row[a].status = "delivered"
    BY <1>1, <2>2, <2>3, Constants DEF RowInv, RowType, SpacingSettings, Way, Never, History
  <2>4. CASE Going(a)
    BY <1>1, <2>2, <2>4, Constants
       DEF Going, RowInv, RowType, SpacingSettings, Way, Never, History
  <2> QED BY <2>3, <2>4 DEF Counts
<1>4. CASE a \in B
  <2>1. a \in same /\ same # {}
    BY <1>4
  <2>2. CASE IsMaterialUpdate(b, row[b].newFacts, same)
    <3>1. row[b].newFacts /\ Revision[b] > Revision[a]
      BY <2>1, <2>2 DEF IsMaterialUpdate, IsLaterRevision
    <3> QED BY <3>1, Constants DEF Newer
  <2>3. CASE ~IsMaterialUpdate(b, row[b].newFacts, same)
    <3> DEFINE M == Max({CountedAt(c) : c \in same})
    <3>1. CooldownEnds(b, row[b].newFacts, t, B) = {}
      BY DEF Waits
    <3>2. ~(M + Cooldown > t)
      BY <2>1, <2>3, <3>1 DEF CooldownEnds
    <3>3. M \in Nat /\ CountedAt(a) <= M
      <4>1. same \subseteq Alerts
        BY DEF Recent
      <4> HIDE DEF same
      <4> QED BY <2>1, <4>1, LatestCounted
    <3>4. CountedAt(a) + Cooldown <= now
      <4> HIDE DEF M
      <4> QED BY <1>1, <1>2, <3>2, <3>3, Constants
    <3>5. CASE row[a].status = "delivered"
      BY <1>1, <3>4, <3>5, Constants DEF RowInv, RowType, CountedAt, Never
    <3>6. CASE Going(a)
      BY <1>1, <3>4, <3>6, Constants
         DEF Going, RowInv, RowType, CountedAt, SpacingSettings, Way, Never
    <3> QED BY <3>5, <3>6 DEF Counts
  <2> QED BY <2>2, <2>3
<1> QED BY <1>3, <1>4

\* Recheck keeps the invariant.
LEMMA RecheckStep ==
  ASSUME IInv, NEW w \in Workers, Recheck(w)
  PROVE  IInv'
<1>1. now \in 0..MaxTime /\ now \in Nat /\ TypeOK /\ Base
  BY Constants, TypeParts DEF IInv, Base
<1>2. /\ work \in [Workers -> WorkType] /\ rushed \in SUBSET Alerts
      /\ \A b \in Alerts : row[b] \in RowType /\ shown[b] \in Nat \cup {Never}
  BY <1>1, TypeParts
<1>3. /\ now' = now /\ row' = row /\ wire' = wire /\ shown' = shown
      /\ revision' = revision /\ work[w].pc = "check"
  BY DEF Recheck
<1>4. WorkInv(w) /\ work[w].item \in Alerts /\ work[w] \in WorkType
  BY <1>1, <1>2, <1>3 DEF Base, WorkInv
<1>5. PICK a \in Alerts : a = work[w].item
  BY <1>4
<1>6. PICK t \in Nat : t = work[w].clock
  BY <1>4 DEF WorkType
<1>7. /\ a \notin wire /\ shown[a] = Never /\ row[a].status \in {"sending", "unknown"}
      /\ t <= now
  BY <1>3, <1>4, <1>5, <1>6 DEF WorkInv, Unsent
<1> DEFINE waits == Waits(a, row[a].newFacts, t, AtDispatch)
<1>8. CASE Conclude(w, "expired", 0) /\ rushed' = rushed
  BY <1>3, <1>5, <1>7, <1>8, ConcludeStep
<1>9. CASE waits # {} /\ Conclude(w, "failed", Max(waits)) /\ rushed' = rushed
  <2>1. row[a].newFacts \in BOOLEAN
    BY <1>2 DEF RowType
  <2>2. Max(waits) \in Nat
    <3>1. waits \subseteq Waits(a, row[a].newFacts, t, AtDispatch) \cup {t}
      OBVIOUS
    <3> QED BY <1>1, <1>9, <2>1, <3>1, WaitsType
  <2> QED BY <1>3, <1>5, <1>7, <1>9, <2>2, ConcludeStep
<1>10. CASE /\ waits = {} /\ work' = [work EXCEPT ![w].pc = "send", ![w].clock = 0]
            /\ rushed' = IF Late(a, t) THEN rushed \cup {a} ELSE rushed \ {a}
  <2>1. PICK k : k = [work[w] EXCEPT !.pc = "send", !.clock = 0]
    OBVIOUS
  <2>2. k \in WorkType /\ k.pc = "send" /\ k.item = a /\ k.clock = 0
    BY <1>4, <1>5, <2>1 DEF WorkType
  <2>3. work' = [work EXCEPT ![w] = k]
    BY <1>2, <1>10, <2>1
  <2>4. /\ work'[w] = k /\ work' \in [Workers -> WorkType]
        /\ \A v \in Workers \ {w} : work'[v] = work[v]
    BY <1>2, <2>2, <2>3
  <2>5. rushed' \in SUBSET Alerts /\ \A b \in Alerts \ {a} : b \in rushed' <=> b \in rushed
    BY <1>2, <1>10
  <2>6. TypeOK'
    BY <1>1, <1>3, <2>4, <2>5, TypeParts, TypePartsNext
  <2>7. RowInv(a)'
    <3>1. RowInv(a)
      BY <1>1 DEF Base
    <3> QED BY <1>3, <3>1 DEF RowInv
  <2>8. WorkInv(w)'
    BY <1>1, <1>3, <1>7, <2>2, <2>4 DEF WorkInv, Unsent
  <2>9. \A v \in Workers \ {w} : work'[v] = work[v] /\ work[v].item # a
    BY <1>1, <1>3, <1>5, <2>4, OthersElsewhere
  <2>10. Base'
    BY <1>1, <1>3, <2>2, <2>4, <2>6, <2>7, <2>8, <2>9, WorkerStep
  <2>11. ASSUME NEW b \in Alerts \ {a}, Counts(b)' PROVE Counts(b)
    <3>1. ASSUME NEW v \in Workers, work'[v].item = b, Cleared(work'[v])
          PROVE  work[v].item = b /\ Cleared(work[v])
      BY <2>2, <2>4, <3>1
    <3>2. row'[b].status = "delivered" => Counts(b)
      BY <1>3 DEF Counts
    <3> QED BY <1>1, <1>3, <2>11, <3>1, <3>2, CountsKept
  <2>12. CapInv'
    <3>1. ASSUME CapSettings, NEW T \in 0..MaxTime PROVE Cardinality(Busy(T)') <= MaxPerHour
      <4> DEFINE S == Busy(T)' \ {a}
      <4>1. \A b \in S : /\ b \in Alerts \ {a} /\ b \notin rushed /\ Counts(b)
                         /\ InHour(b, T) /\ InHour(b, T)' /\ shown'[b] = shown[b]
        BY <1>3, <2>5, <2>11 DEF Busy, InHour
      <4>2. S \subseteq Busy(T) /\ IsFiniteSet(Busy(T)) /\ IsFiniteSet(Busy(T)') /\ IsFiniteSet(S)
        <5>1. S \subseteq Busy(T)
          BY <4>1 DEF Busy
        <5>2. Busy(T) \in SUBSET Alerts /\ Busy(T)' \in SUBSET Alerts /\ S \in SUBSET Alerts
          BY DEF Busy
        <5> QED BY <5>1, <5>2, Constants, FS_Subset
      <4>3. Cardinality(S) <= MaxPerHour
        <5>1. /\ Cardinality(S) <= Cardinality(Busy(T))
              /\ Cardinality(S) \in Nat /\ Cardinality(Busy(T)) \in Nat
          BY <4>2, FS_Subset, FS_CardinalityType
        <5>2. Cardinality(Busy(T)) <= MaxPerHour
          BY <3>1 DEF CapInv, IInv
        <5> QED BY <5>1, <5>2, Constants
      <4>4. CASE a \notin Busy(T)'
        <5>1. S = Busy(T)'
          BY <4>4
        <5> QED BY <4>3, <5>1
      <4>5. CASE a \in Busy(T)'
        <5>1. now <= T /\ a \notin rushed'
          BY <1>3, <1>7, <4>5 DEF Busy, InHour
        <5>2. ~Late(a, t)
          BY <1>10, <5>1
        <5>3. S \subseteq Alerts \ {a}
          BY <4>1
        <5>4. ASSUME NEW b \in S PROVE Counts(b) /\ (shown[b] = Never \/ t - Hour < shown[b])
          <6>1. b \in Alerts /\ Counts(b) /\ InHour(b, T)
            BY <4>1
          <6>2. shown[b] \in Nat \cup {Never} /\ T \in Nat
            <7> HIDE DEF S
            <7>1. T \in Nat
              BY Constants
            <7> QED BY <1>2, <6>1, <7>1
          <6>3. shown[b] # Never => T - Hour < shown[b]
            BY <6>1 DEF InHour
          <6> HIDE DEF S
          <6> QED BY <1>1, <1>7, <5>1, <6>1, <6>2, <6>3, Constants DEF Never
        <5>5. Cardinality(S) < MaxPerHour
          <6> HIDE DEF S
          <6> QED BY <1>1, <1>7, <1>10, <3>1, <5>2, <5>3, <5>4, RoomForOne
        <5>6. Cardinality(S) = Cardinality(Busy(T)') - 1 /\ Cardinality(Busy(T)') \in Nat
          BY <4>2, <4>5, FS_RemoveElement, FS_CardinalityType
        <5> QED BY <5>5, <5>6, Constants
      <4> QED BY <4>4, <4>5
    <3> QED BY <3>1 DEF CapInv
  <2>13. SpacedInv'
    <3>1. ASSUME SpacingSettings, NEW b \in Alerts, NEW c \in Alerts PROVE SpacedPair(b, c)'
      <4>1. SUFFICES ASSUME b # c, Event[b] = Event[c], Counts(b)', Counts(c)'
                     PROVE  (Newer(b, c) \/ Newer(c, b) \/ Apart(b, c) \/ Apart(c, b))'
        BY DEF SpacedPair
      <4>2. CASE b # a /\ c # a
        <5>1. Newer(b, c) \/ Newer(c, b) \/ Apart(b, c) \/ Apart(c, b)
          BY <2>11, <3>1, <4>1, <4>2 DEF IInv, SpacedInv, SpacedPair
        <5> QED BY <1>3, <5>1 DEF Newer, Apart
      <4>3. ASSUME NEW d \in Alerts, d # a, Event[d] = Event[a], Counts(d)'
            PROVE  (Newer(d, a) \/ Apart(d, a))'
        <5>1. Newer(d, a) \/ (shown[d] # Never /\ shown[d] + Cooldown <= now)
          BY <1>1, <1>7, <1>10, <2>11, <3>1, <4>3, ClearOfOthers
        <5> QED BY <1>3, <1>7, <5>1 DEF Newer, Apart
      <4> QED BY <4>1, <4>2, <4>3
    <3> QED BY <3>1 DEF SpacedInv
  <2> QED BY <2>10, <2>12, <2>13 DEF IInv
<1> QED BY <1>5, <1>6, <1>8, <1>9, <1>10 DEF Recheck

-----------------------------------------------------------------------------
(* The theorems *)

\* The invariant holds at first.
LEMMA InitInv == Init => IInv
<1> SUFFICES ASSUME Init PROVE IInv
  OBVIOUS
<1>1. /\ now = 0 /\ wire = {} /\ rushed = {} /\ revision = [e \in Events |-> 1]
      /\ row = [a \in Alerts |-> NoRow] /\ work = [w \in Workers |-> Idle]
      /\ shown = [a \in Alerts |-> Never]
  BY DEF Init
<1>2. Idle \in WorkType /\ Idle.pc = "idle" /\ Idle.item = 0
  BY Constants DEF Idle, WorkType
<1>3. /\ NoRow \in RowType /\ NoRow.status = "absent" /\ NoRow.created = 0
      /\ NoRow.expires = 0 /\ NoRow.delivered = Never
  BY Constants DEF NoRow, RowType, Statuses, Never
<1>4. TypeOK
  <2>1. now \in 0..MaxTime /\ revision \in [Events -> Nat \ {0}]
    BY <1>1, Constants
  <2> QED BY <1>1, <1>2, <1>3, <2>1, TypeParts
<1>5. ASSUME NEW a \in Alerts PROVE RowInv(a) /\ ~Counts(a)
  BY <1>1, <1>3, Constants DEF RowInv, Counts, Going
<1>6. ASSUME NEW w \in Workers PROVE WorkInv(w) /\ work[w].pc = "idle"
  BY <1>1, <1>2 DEF WorkInv
<1>7. CapInv
  <2>1. ASSUME NEW T \in 0..MaxTime PROVE Cardinality(Busy(T)) <= MaxPerHour
    <3>1. Busy(T) = {}
      BY <1>5 DEF Busy
    <3> QED BY <3>1, Constants, FS_EmptySet
  <2> QED BY <2>1 DEF CapInv
<1>8. SpacedInv
  BY <1>5 DEF SpacedInv, SpacedPair
<1> QED BY <1>4, <1>5, <1>6, <1>7, <1>8 DEF IInv, Base, OneHolder

\* Every step keeps the invariant.
LEMMA NextInv == IInv /\ [Next]_vars => IInv'
<1> SUFFICES ASSUME IInv, [Next]_vars PROVE IInv'
  OBVIOUS
<1>1. ASSUME NEW e \in Events, Revise(e) PROVE IInv'
  BY <1>1, ReviseStep
<1>2. ASSUME NEW a \in Alerts, Queue(a) \/ TelegramShows(a) PROVE IInv'
  BY <1>2, QueueStep, TelegramStep
<1>3. ASSUME NEW w \in Workers,
             \/ Claim(w) \/ ReadClock(w) \/ Recheck(w) \/ Send(w)
             \/ Acknowledged(w) \/ Rejected(w) \/ AnswerLost(w)
             \/ Finish(w) \/ Crash(w)
      PROVE  IInv'
  BY <1>3, ClaimStep, ReadClockStep, RecheckStep, SendStep, AnswerStep, FinishStep, CrashStep
<1>4. CASE Recover
  BY <1>4, RecoverStep
<1>5. CASE Tick
  BY <1>5, TickStep
<1>6. CASE UNCHANGED vars
  BY <1>6 DEF vars, IInv, Base, TypeOK, RowInv, WorkInv, Unsent, OneHolder, CapInv, SpacedInv,
              SpacedPair, Busy, InHour, Counts, Going, Cleared, Newer, Apart
<1> QED BY <1>1, <1>2, <1>3, <1>4, <1>5, <1>6 DEF Next

\* The bookkeeping of the outbox: a row on its way has one dispatcher, which knows
\* whether its request is out, and is recorded as delivered, if at all, after the
\* chat showed it and before its freshness and its lease have both run out.
THEOREM PolicyInvariant == Spec => []IInv
<1>1. Init => IInv
  BY InitInv
<1>2. IInv /\ [Next]_vars => IInv'
  BY NextInv
<1> QED BY <1>1, <1>2, PTL DEF Spec

\* With freshness and lease that together are shorter than an hour, whatever the
\* dispatchers do at once, no hour of the chat holds more of the alerts recorded as
\* delivered than the settings allow, but for those a late check let go.
THEOREM CapHolds ==
  ASSUME MaxAge + Lease - 2 < Hour
  PROVE  Spec => []HourlyCap
<1>1. ASSUME IInv PROVE HourlyCap
  <2>1. TypeOK
    BY <1>1 DEF IInv, Base
  <2>2. \A a \in Alerts : shown[a] \in Nat \cup {Never}
    BY <2>1, TypeParts
  <2>3. ASSUME NEW T \in 0..MaxTime,
               NEW S, S = {a \in {b \in Alerts \ rushed : row[b].status = "delivered"} :
                            shown[a] # Never /\ T - Hour < shown[a] /\ shown[a] <= T}
        PROVE  Cardinality(S) <= MaxPerHour
    <3>1. S \in SUBSET Busy(T)
      BY <2>3 DEF Busy, Counts, InHour
    <3>2. IsFiniteSet(Busy(T))
      <4>1. Busy(T) \in SUBSET Alerts
        BY DEF Busy
      <4> QED BY <4>1, Constants, FS_Subset
    <3>3. /\ Cardinality(S) <= Cardinality(Busy(T))
          /\ Cardinality(S) \in Nat /\ Cardinality(Busy(T)) \in Nat
      BY <3>1, <3>2, FS_Subset, FS_CardinalityType
    <3>4. Cardinality(Busy(T)) <= MaxPerHour
      BY <1>1 DEF IInv, CapInv, CapSettings, Way
    <3> QED BY <3>3, <3>4, Constants
  <2> QED BY <2>1, <2>3 DEF HourlyCap, WithinAnHour
<1>2. IInv => HourlyCap
  BY <1>1
<1> QED BY PolicyInvariant, <1>2, PTL

\* With freshness and lease that together are shorter than the cooldown, and a
\* cooldown that ends within the two hours the policy looks back, two delivered
\* alerts of an event are a cooldown apart in the chat or the later has new facts.
THEOREM SpacingHolds ==
  ASSUME Cooldown = 0 \/ (/\ MaxAge + Lease - 2 < Cooldown
                          /\ Cooldown + MaxAge + Lease - 2 <= History)
  PROVE  Spec => []CooldownKept
<1>1. ASSUME IInv PROVE CooldownKept
  <2>1. SUFFICES ASSUME NEW a \in Alerts, NEW b \in Alerts,
                        a # b, Event[a] = Event[b], Revision[a] <= Revision[b],
                        row[a].status = "delivered", row[b].status = "delivered"
                 PROVE  \/ shown[b] - shown[a] >= Cooldown \/ shown[a] - shown[b] >= Cooldown
                        \/ Revision[a] < Revision[b] /\ row[b].newFacts
    BY DEF CooldownKept
  <2>2. /\ shown[a] \in Nat /\ shown[b] \in Nat /\ shown[a] # Never /\ shown[b] # Never
    <3>1. /\ shown[a] \in Nat \cup {Never} /\ shown[b] \in Nat \cup {Never}
          /\ RowInv(a) /\ RowInv(b)
      BY <1>1, TypeParts DEF IInv, Base
    <3> QED BY <2>1, <3>1 DEF RowInv
  <2>3. CASE Cooldown = 0
    BY <2>2, <2>3
  <2>4. CASE SpacingSettings
    <3>1. Newer(a, b) \/ Newer(b, a) \/ Apart(a, b) \/ Apart(b, a)
      BY <1>1, <2>1, <2>4 DEF IInv, SpacedInv, SpacedPair, Counts
    <3>2. ~Newer(b, a)
      BY <2>1, Constants DEF Newer
    <3> QED BY <2>2, <3>1, <3>2, Constants DEF Newer, Apart
  <2>5. Cooldown = 0 \/ SpacingSettings
    BY Constants DEF SpacingSettings, Way, History
  <2> QED BY <2>3, <2>4, <2>5
<1>2. IInv => CooldownKept
  BY <1>1
<1> QED BY PolicyInvariant, <1>2, PTL

-----------------------------------------------------------------------------
(***************************************************************************)
(* The sentiment watch whose decisions are alerts too (module              *)
(* SentimentShift), for any schedulers, articles, ratings and settings.    *)
(***************************************************************************)
\* What is observed of an article.
Obs == [article : W!Articles, label : W!Labels \cup {"unknown"}, published : Int,
        seen : 0..SeriesEnd, revision : 0..2]

\* Times a check may be as of.
Times == {t \in Int : t <= SeriesEnd}

\* A time, or none.
Marks == Nat \cup {W!None}

\* What a snapshot, with its decision, may hold.
SnapshotType ==
  [asOf : Times, mark : SUBSET Obs, observed : Int, alerted : Marks,
   direction : {-1, 0, 1}, count : Nat,
   decision : {"none", "prepared", "assessing", "alerted", "dropped"},
   finished : Marks, markedAt : Int, lost : BOOLEAN]

\* What a scheduler may hold.
PassType ==
  [pc : {"idle", "read", "evaluated", "settle"}, asOf : Times, evidence : SUBSET Obs,
   row : {<<>>} \cup {<<r>> : r \in SnapshotType}, item : Nat, finished : Marks]

\* What the row of an article may hold.
ArticleType ==
  [revision : 0..2, rating : SUBSET W!Labels, published : Int, seen : Marks]

\* An article that is rated came in at some time.
ArticleInv ==
  /\ clock \in Window..SeriesEnd
  /\ article \in [W!Articles -> ArticleType]
  /\ \A a \in W!Articles : article[a].rating # {} => article[a].seen \in 0..SeriesEnd

\* The log and the schedulers are typed.
Shape ==
  /\ log \in Seq(SnapshotType) /\ Len(log) <= MaxChecks
  /\ passes \in [Schedulers -> PassType]

\* A snapshot keeps the newest of its news and counts at most the snapshots.
Sound(r, n) == r.observed = W!LatestNews(r.mark, r.asOf) /\ r.count <= n

\* A scheduler has read and not yet committed.
Checking(w) == passes[w].pc \in {"read", "evaluated"}

\* No two checks are as of the same time.
Ordered ==
  /\ \A i, j \in DOMAIN log : log[i].asOf = log[j].asOf => i = j
  /\ \A w \in Schedulers : Checking(w) =>
       /\ \A i \in DOMAIN log : log[i].asOf # passes[w].asOf
       /\ \A v \in Schedulers : Checking(v) /\ passes[v].asOf = passes[w].asOf => v = w

\* What a scheduler holds for the log as it is.
PassInv(w) ==
  LET k == passes[w] IN
  /\ k.pc # "settle" => k.item = 0
  /\ k.pc # "evaluated" => k.row = <<>>
  /\ k.pc = "evaluated" =>
       /\ k.row # <<>> /\ k.row[1].asOf = k.asOf /\ Sound(k.row[1], Len(log) + 1)
       /\ k.row[1].decision \in {"none", "prepared"}
  /\ k.pc = "settle" => /\ k.item \in DOMAIN log /\ log[k.item].decision # "none"
                        /\ k.finished \in Nat

\* The log is sound, and one check at most is open.
LogInv ==
  /\ \A i \in DOMAIN log : Sound(log[i], i)
  /\ \A w \in Schedulers : PassInv(w)
  /\ \A v, w \in Schedulers : passes[v].pc = "evaluated" /\ passes[w].pc = "evaluated" => v = w

\* The j-th snapshot confirms r, which comes after n snapshots.
Confirms(j, r, n) ==
  /\ log[j].direction = r.direction
  /\ \E new \in W!News(r) : \A old \in W!News(log[j]) : old < new
  /\ \A k \in j..n : W!InOrder(k) => log[k].direction = r.direction

\* Every decision, and the one that an open check will commit, is confirmed.
ShiftInv ==
  /\ \A i \in DOMAIN log : log[i].decision # "none" =>
       \E j \in 1..(i - 1) : Confirms(j, log[i], i - 1)
  /\ \A w \in Schedulers : passes[w].pc = "evaluated" /\ passes[w].row[1].decision # "none" =>
       \E j \in 1..Len(log) : Confirms(j, passes[w].row[1], Len(log))

\* No snapshot is newer than the i-th.
Newest(i) == i \in DOMAIN log /\ \A j \in DOMAIN log : log[j].asOf <= log[i].asOf

\* The i-th snapshot is an alert whose mark is not lost.
Stands(i) == log[i].decision = "alerted" /\ ~log[i].lost

\* A decision of r is a cooldown after the i-th alert.
Far(r, i) == r.decision # "none" => r.asOf - log[i].finished >= SeriesCooldown

\* The newest snapshot and the open check know of every alert that stands.
SpaceInv ==
  \A i \in DOMAIN log : Stands(i) =>
    /\ log[i].finished \in Nat
    /\ \A j \in DOMAIN log : Newest(j) => log[j].alerted >= log[i].finished
    /\ \A j \in DOMAIN log : j > log[i].markedAt => Far(log[j], i)
    /\ \A w \in Schedulers : passes[w].pc = "evaluated" =>
         /\ passes[w].row[1].alerted >= log[i].finished
         /\ Far(passes[w].row[1], i)

\* The inductive invariant of the series.
SeriesInv == ArticleInv /\ Shape /\ Ordered /\ LogInv /\ ShiftInv /\ SpaceInv

-----------------------------------------------------------------------------
\* The greatest of a set of integers that has an upper bound.
LEMMA MaxOf ==
  ASSUME NEW S, S \subseteq Int, S # {}, NEW b \in Int, \A x \in S : x <= b
  PROVE  W!Max(S) \in S /\ \A x \in S : x <= W!Max(S)
<1> DEFINE T == {b - x : x \in S}
<1>1. T \subseteq Nat /\ T # {}
  <2>1. \A x \in S : b - x \in Nat
    OBVIOUS
  <2> QED BY <2>1
<1>2. PICK m \in T : \A y \in T : ~(<<y, m>> \in OpToRel(<, Nat))
  BY <1>1, NatLessThanWellFounded, WFMin
<1>3. \A y \in T : m <= y
  <2>1. \A y \in T : ~(y < m)
    BY <1>1, <1>2 DEF OpToRel
  <2> QED BY <1>1, <2>1
<1>4. PICK z \in S : m = b - z
  BY <1>2
<1>5. \A x \in S : x <= z
  <2>1. ASSUME NEW x \in S PROVE x <= z
    <3>1. b - x \in T
      BY <2>1
    <3>2. b - z <= b - x
      BY <1>3, <1>4, <3>1
    <3> QED BY <2>1, <1>4, <3>2
  <2> QED BY <2>1
<1>6. W!Max(S) = CHOOSE x \in S : \A y \in S : x >= y
  BY DEF W!Max
<1>7. \E x \in S : \A y \in S : x >= y
  BY <1>4, <1>5
<1>8. \A y \in S : W!Max(S) >= y
  BY <1>6, <1>7
<1>9. W!Max(S) \in S
  BY <1>6, <1>7
<1> QED BY <1>8, <1>9

\* What the log's and the schedulers' records hold.
LEMMA SeriesHeld ==
  ASSUME Shape
  PROVE  /\ Len(log) \in Nat /\ DOMAIN log = 1..Len(log)
         /\ \A i \in DOMAIN log : log[i] \in SnapshotType
         /\ \A w \in Schedulers : passes[w] \in PassType
<1>1. log \in Seq(SnapshotType) /\ passes \in [Schedulers -> PassType]
  BY DEF Shape
<1>2. Len(log) \in Nat /\ DOMAIN log = 1..Len(log) /\ log \in [1..Len(log) -> SnapshotType]
  BY <1>1, LenProperties
<1> QED BY <1>1, <1>2

\* A row that is held is typed.
LEMMA RowHeld ==
  ASSUME NEW k \in PassType, k.row # <<>>
  PROVE  k.row[1] \in SnapshotType /\ k.row = <<k.row[1]>> /\ Len(k.row) = 1
<1>1. PICK r \in SnapshotType : k.row = <<r>>
  BY DEF PassType
<1> QED BY <1>1

\* The state of the series is the one snapshot that no other is newer than.
LEMMA LatestIs ==
  ASSUME SeriesEnd \in Nat, Shape, Ordered, log # <<>>
  PROVE  /\ W!LatestIndex \in DOMAIN log /\ Newest(W!LatestIndex)
         /\ \A i \in DOMAIN log : Newest(i) => i = W!LatestIndex
<1> DEFINE S == {log[i].asOf : i \in DOMAIN log}
<1>1. /\ Len(log) \in Nat /\ DOMAIN log = 1..Len(log)
      /\ \A i \in DOMAIN log : log[i] \in SnapshotType
  BY SeriesHeld
<1>2. log \in Seq(SnapshotType)
  BY DEF Shape
<1>3. DOMAIN log # {}
  BY <1>1, <1>2, EmptySeq
<1>4. Len(log) # 0
  BY <1>1, <1>3
<1>5. \A i \in DOMAIN log : log[i].asOf \in Int /\ log[i].asOf <= SeriesEnd
  BY <1>1 DEF SnapshotType, Times
<1>6. PICK i \in DOMAIN log : \A j \in DOMAIN log : log[j].asOf <= log[i].asOf
  <2>1. S \subseteq Int /\ S # {} /\ \A x \in S : x <= SeriesEnd
    BY <1>3, <1>5
  <2>2. W!Max(S) \in S /\ \A x \in S : x <= W!Max(S)
    <3>1. SeriesEnd \in Int
      OBVIOUS
    <3> HIDE DEF S
    <3> QED BY <2>1, <3>1, MaxOf
  <2> QED BY <2>2
<1>7. W!LatestIndex \in DOMAIN log /\ \A j \in DOMAIN log : log[j].asOf <= log[W!LatestIndex].asOf
  BY <1>6 DEF W!LatestIndex
<1>8. ASSUME NEW n \in DOMAIN log, Newest(n) PROVE n = W!LatestIndex
  <2>1. log[W!LatestIndex].asOf <= log[n].asOf /\ log[n].asOf <= log[W!LatestIndex].asOf
    BY <1>7, <1>8 DEF Newest
  <2>2. log[n].asOf = log[W!LatestIndex].asOf
    BY <2>1, <1>5, <1>7, <1>8
  <2> QED BY <2>2, <1>7, <1>8 DEF Ordered
<1> QED BY <1>7, <1>8 DEF Newest

-----------------------------------------------------------------------------
\* The time of the newest of the news is the greatest of their times.
LEMMA NewsTimes ==
  ASSUME SeriesEnd \in Nat, NEW r, r.mark \in SUBSET Obs
  PROVE  /\ W!News(r) \subseteq 0..SeriesEnd
         /\ W!LatestNews(r.mark, r.asOf) \in Marks
         /\ W!News(r) = {} => W!LatestNews(r.mark, r.asOf) = W!None
         /\ \A x \in W!News(r) : x <= W!LatestNews(r.mark, r.asOf)
         /\ W!News(r) # {} => W!LatestNews(r.mark, r.asOf) \in W!News(r)
<1> DEFINE S == {o.seen : o \in {p \in UNION W!Current(r.mark, r.asOf) : W!IsNews(p)}}
<1>1. W!News(r) = S
  BY DEF W!News, W!IsNews
<1>2. UNION W!Current(r.mark, r.asOf) \subseteq r.mark
  BY DEF W!Current, W!Stories
<1>3. S \subseteq 0..SeriesEnd
  <2>1. \A o \in Obs : o.seen \in 0..SeriesEnd
    BY DEF Obs
  <2> QED BY <1>2, <2>1
<1>4. W!LatestNews(r.mark, r.asOf) = IF S = {} THEN W!None ELSE W!Max(S)
  BY DEF W!LatestNews
<1> HIDE DEF S
<1>5. CASE S = {}
  BY <1>1, <1>4, <1>5 DEF Marks
<1>6. CASE S # {}
  <2>1. S \subseteq Int /\ SeriesEnd \in Int /\ \A x \in S : x <= SeriesEnd
    BY <1>3
  <2>2. W!Max(S) \in S /\ \A x \in S : x <= W!Max(S)
    BY <2>1, <1>6, MaxOf
  <2>3. W!Max(S) \in Marks
    <3>1. W!Max(S) \in 0..SeriesEnd
      BY <2>2, <1>3
    <3>2. W!Max(S) \in Nat
      BY <3>1
    <3> QED BY <3>2 DEF Marks
  <2> QED BY <1>1, <1>3, <1>4, <1>6, <2>2, <2>3
<1> QED BY <1>5, <1>6

\* A check that counts enough batches has found the shift of the snapshot it
\* follows, and news that came in after the news of that one.
LEMMA Counted ==
  ASSUME W!Settings, Shape, Ordered, LogInv, NEW w \in Schedulers, NEW healthy \in BOOLEAN,
         passes[w].pc = "read"
  PROVE  LET r == W!Evaluated(w, healthy) IN
         /\ r \in SnapshotType /\ r.asOf = passes[w].asOf /\ r.mark = passes[w].evidence
         /\ Sound(r, Len(log) + 1) /\ r.decision \in {"none", "prepared"}
         /\ log # <<>> => r.alerted = log[W!LatestIndex].alerted
         /\ r.decision # "none" => /\ r.alerted # W!None => r.asOf - r.alerted >= SeriesCooldown
                                   /\ \E j \in 1..Len(log) : Confirms(j, r, Len(log))
<1> DEFINE t == passes[w].asOf
<1> DEFINE obs == passes[w].evidence
<1> DEFINE ok == W!Supported(obs, t, healthy)
<1> DEFINE n == Len(log)
<1>s. Batches \in Nat /\ Batches >= 2 /\ SeriesCooldown \in Nat /\ SeriesEnd \in Nat
  BY DEF W!Settings
<1>1. /\ n \in Nat /\ DOMAIN log = 1..n /\ \A i \in DOMAIN log : log[i] \in SnapshotType
      /\ passes[w] \in PassType
  BY SeriesHeld
<1>2. t \in Times /\ obs \in SUBSET Obs
  BY <1>1 DEF PassType
<1>e. PICK r : r = W!Evaluated(w, healthy)
  OBVIOUS
<1>3. r = [asOf |-> t, mark |-> obs, observed |-> W!LatestNews(obs, t), alerted |-> W!Carried,
           direction |-> IF ok THEN W!Direction(obs, t) ELSE 0,
           count |-> IF ok THEN W!Count(obs, t) ELSE 0,
           decision |-> IF ok /\ W!Sustained(obs, t) THEN "prepared" ELSE "none",
           finished |-> W!None, markedAt |-> W!None, lost |-> FALSE]
  BY <1>e DEF W!Evaluated
<1>4. CASE log = <<>>
  <2>1. W!Latest = W!NoSnapshot /\ n = 0
    BY <1>4 DEF W!Latest
  <2>2. /\ W!Latest.direction = 0 /\ W!Latest.alerted = W!None
    BY <2>1 DEF W!NoSnapshot
  <2>3. W!Count(obs, t) \in 0..1
    BY <2>2 DEF W!Count, W!Direction
  <2>4. ~W!Sustained(obs, t)
    BY <2>3, <1>s DEF W!Sustained
  <2>5. W!LatestNews(obs, t) \in Marks
    <3>1. PICK q : q = [mark |-> obs, asOf |-> t]
      OBVIOUS
    <3> QED BY <3>1, <1>2, <1>s, NewsTimes
  <2>6. W!Carried = W!None /\ W!Direction(obs, t) \in {-1, 1}
    BY <2>2 DEF W!Carried, W!Direction
  <2>7. r.count \in Nat /\ r.count <= n + 1 /\ r.decision = "none"
    BY <1>3, <2>1, <2>3, <2>4
  <2>8. r \in SnapshotType
    BY <1>2, <1>3, <2>4, <2>5, <2>6, <2>7 DEF SnapshotType, Marks, W!None
  <2> HIDE DEF obs, t, ok
  <2>9. Sound(r, n + 1)
    BY <1>3, <2>7 DEF Sound
  <2>10. r.asOf = passes[w].asOf /\ r.mark = passes[w].evidence
    BY <1>3 DEF obs, t
  <2> HIDE DEF n
  <2> QED BY <1>e, <1>4, <2>7, <2>8, <2>9, <2>10 DEF n
<1>5. CASE log # <<>>
  <2> DEFINE l == W!LatestIndex
  <2>1. l \in 1..n /\ Newest(l)
    BY <1>1, <1>5, <1>s, LatestIs
  <2>2. W!Latest = log[l] /\ log[l] \in SnapshotType
    BY <1>1, <1>5, <2>1 DEF W!Latest
  <2> HIDE DEF l
  <2>3. /\ W!Latest.direction \in {-1, 0, 1} /\ W!Latest.count \in Nat /\ W!Latest.alerted \in Marks
        /\ W!Latest.mark \in SUBSET Obs
    BY <2>2 DEF SnapshotType
  <2>4. Sound(log[l], l)
    BY <1>1, <2>1 DEF LogInv
  <2>5. W!Latest.count <= n
    BY <1>1, <2>1, <2>2, <2>3, <2>4 DEF Sound
  <2>6. W!Direction(obs, t) \in {-1, 1}
    BY DEF W!Direction
  <2>7. W!Count(obs, t) \in 0..(n + 1)
    <3>1. (IF W!Latest.direction = W!Direction(obs, t) THEN W!Latest.count ELSE 0) \in 0..n
      BY <1>1, <2>3, <2>5
    <3>2. (IF W!NewBatch(obs, t) THEN 1 ELSE 0) \in 0..1
      OBVIOUS
    <3> QED BY <1>1, <3>1, <3>2 DEF W!Count
  <2>8. W!LatestNews(obs, t) \in Marks
    <3>1. PICK q : q = [mark |-> obs, asOf |-> t]
      OBVIOUS
    <3> QED BY <3>1, <1>2, <1>s, NewsTimes
  <2>9. W!Carried \in Marks /\ W!Carried = log[W!LatestIndex].alerted
    BY <2>2, <2>3 DEF W!Carried, l
  <2>10. r \in SnapshotType
    <3>1. /\ (IF ok THEN W!Direction(obs, t) ELSE 0) \in {-1, 0, 1}
          /\ (IF ok THEN W!Count(obs, t) ELSE 0) \in Nat
      BY <1>1, <2>6, <2>7
    <3>2. (IF ok /\ W!Sustained(obs, t) THEN "prepared" ELSE "none") \in {"none", "prepared"}
      OBVIOUS
    <3>3. W!LatestNews(obs, t) \in Int
      BY <2>8 DEF Marks, W!None
    <3> HIDE DEF ok, obs, t
    <3> QED BY <1>2, <1>3, <2>9, <3>1, <3>2, <3>3 DEF SnapshotType, Marks, W!None
  <2>11. Sound(r, n + 1) /\ r.decision \in {"none", "prepared"}
    <3>1. r.count = (IF ok THEN W!Count(obs, t) ELSE 0)
      BY <1>3
    <3>2. r.count <= n + 1
      BY <1>1, <2>7, <3>1
    <3> QED BY <1>3, <3>2 DEF Sound
  <2>12. ASSUME r.decision # "none"
         PROVE  /\ r.alerted # W!None => r.asOf - r.alerted >= SeriesCooldown
                /\ \E j \in 1..n : Confirms(j, r, n)
    <3>1. ok /\ W!Sustained(obs, t)
      BY <1>3, <2>12
    <3>2. /\ W!NewBatch(obs, t) /\ W!Count(obs, t) >= Batches /\ ~W!CoolingDown(t)
          /\ W!LatestNews(obs, t) # W!None
      BY <3>1 DEF W!Sustained, W!Supported
    <3>3. r.alerted # W!None => r.asOf - r.alerted >= SeriesCooldown
      <4>1. W!Carried # W!None => ~(t - W!Carried < SeriesCooldown)
        BY <3>2 DEF W!CoolingDown
      <4>2. W!Carried # W!None => t - W!Carried \in Int
        BY <1>2, <2>9 DEF Times, Marks
      <4> QED BY <1>3, <1>s, <4>1, <4>2
    <3>4. W!Latest.direction = W!Direction(obs, t)
      BY <3>2, <1>s, <2>3 DEF W!Count
    <3>5. log[l].direction = r.direction
      BY <1>3, <2>2, <3>1, <3>4
    <3>6. W!LatestNews(obs, t) > log[l].observed
      BY <1>5, <2>2, <3>2 DEF W!NewBatch
    <3>7. log[l].observed = W!LatestNews(log[l].mark, log[l].asOf)
      BY <2>4 DEF Sound
    <3>8. /\ r.mark \in SUBSET Obs /\ W!LatestNews(r.mark, r.asOf) = W!LatestNews(obs, t)
      BY <1>2, <1>3
    <3>9. W!LatestNews(obs, t) \in W!News(r) /\ W!News(r) \subseteq 0..SeriesEnd
      BY <1>s, <3>2, <3>8, NewsTimes
    <3>10. /\ \A x \in W!News(log[l]) : x <= log[l].observed
           /\ W!News(log[l]) \subseteq 0..SeriesEnd /\ log[l].observed \in Int
      BY <1>s, <2>2, <3>7, NewsTimes DEF SnapshotType
    <3>11. \A old \in W!News(log[l]) : old < W!LatestNews(obs, t)
      BY <1>s, <3>6, <3>9, <3>10
    <3>12. ASSUME NEW k \in l..n, W!InOrder(k) PROVE log[k].direction = r.direction
      <4>1. CASE k = l
        BY <3>5, <4>1
      <4>2. CASE k # l
        <5>1. k \in DOMAIN log /\ l \in 1..(k - 1)
          BY <1>1, <2>1, <3>12, <4>2
        <5>2. log[l].asOf < log[k].asOf
          BY <5>1, <3>12 DEF W!InOrder
        <5>3. log[k].asOf <= log[l].asOf
          BY <5>1, <2>1 DEF Newest
        <5>4. log[k].asOf \in Int /\ log[l].asOf \in Int
          BY <1>1, <2>2, <5>1 DEF SnapshotType, Times
        <5> QED BY <5>2, <5>3, <5>4
      <4> QED BY <4>1, <4>2
    <3> HIDE DEF n, ok, obs, t
    <3>13. Confirms(l, r, n)
      BY <3>5, <3>9, <3>11, <3>12 DEF Confirms
    <3> QED BY <2>1, <3>3, <3>13
  <2>13. r.asOf = passes[w].asOf /\ r.mark = passes[w].evidence /\ r.alerted = W!Carried
    BY <1>3
  <2> HIDE DEF n, ok, obs, t
  <2> QED BY <1>e, <2>9, <2>10, <2>11, <2>12, <2>13 DEF n
<1> QED BY <1>4, <1>5

-----------------------------------------------------------------------------
\* The snapshots of a log.
LEMMA LogHeld ==
  ASSUME NEW s \in Seq(SnapshotType)
  PROVE  /\ Len(s) \in Nat /\ DOMAIN s = 1..Len(s)
         /\ \A i \in 1..Len(s) : s[i] \in SnapshotType
BY LenProperties

\* A step that writes decisions and marks keeps what the snapshots say, and makes
\* no decision.
Kept ==
  /\ Len(log') = Len(log)
  /\ \A i \in 1..Len(log) :
       /\ log'[i].asOf = log[i].asOf /\ log'[i].mark = log[i].mark
       /\ log'[i].observed = log[i].observed /\ log'[i].direction = log[i].direction
       /\ log'[i].count = log[i].count
       /\ log[i].decision = "none" <=> log'[i].decision = "none"

\* The scheduler that takes such a step has no check open after it.
Writes(w) ==
  /\ Kept
  /\ \A v \in Schedulers : v # w => passes'[v] = passes[v]
  /\ passes'[w].pc \in {"idle", "settle"} /\ PassInv(w)'

\* Snapshots of the same articles as of the same time have the same news.
LEMMA SameNews ==
  ASSUME NEW q, NEW r, q.mark = r.mark, q.asOf = r.asOf
  PROVE  W!News(q) = W!News(r)
BY DEF W!News

\* What is confirmed stays confirmed while the snapshots it is about are kept.
LEMMA KeptConfirms ==
  ASSUME NEW n \in Nat, NEW j \in 1..n, NEW q, NEW r,
         q.mark = r.mark, q.asOf = r.asOf, q.direction = r.direction,
         \A k \in 1..n : /\ log'[k].asOf = log[k].asOf /\ log'[k].mark = log[k].mark
                        /\ log'[k].direction = log[k].direction,
         Confirms(j, q, n)
  PROVE  Confirms(j, r, n)'
<1>1. \A k \in j..n : k \in 1..n /\ 1..(k - 1) \subseteq 1..n
  OBVIOUS
<1>2. \A k \in j..n : W!InOrder(k)' => W!InOrder(k)
  BY <1>1 DEF W!InOrder
<1>3. \A k \in j..n : log'[k].direction = log[k].direction
  BY <1>1
<1>4. W!News(r) = W!News(q)
  BY SameNews
<1>5. W!News(log'[j]) = W!News(log[j])
  BY SameNews
<1>6. log'[j].direction = r.direction
  BY DEF Confirms
<1>7. \E new \in W!News(r) : \A old \in W!News(log'[j]) : old < new
  BY <1>4, <1>5 DEF Confirms
<1>8. \A k \in j..n : W!InOrder(k)' => log'[k].direction = r.direction
  BY <1>2, <1>3 DEF Confirms
<1> QED BY <1>6, <1>7, <1>8 DEF Confirms

\* The newest snapshot stays the newest.
LEMMA KeptNewest ==
  ASSUME Shape, Shape', Kept, NEW j
  PROVE  Newest(j)' <=> Newest(j)
<1>1. DOMAIN log = 1..Len(log) /\ DOMAIN log' = 1..Len(log') /\ Len(log') = Len(log)
  BY LogHeld DEF Shape, Kept
<1>2. \A i \in DOMAIN log : log'[i].asOf = log[i].asOf
  BY <1>1 DEF Kept
<1> QED BY <1>1, <1>2 DEF Newest

\* What a step that writes marks and decisions does not disturb.
LEMMA WritesKeep ==
  ASSUME Shape, Shape', Ordered, LogInv, ShiftInv, NEW w \in Schedulers, Writes(w)
  PROVE  Ordered' /\ LogInv' /\ ShiftInv'
<1>1. /\ Len(log) \in Nat /\ DOMAIN log = 1..Len(log) /\ DOMAIN log' = 1..Len(log)
      /\ Len(log') = Len(log)
  BY LogHeld DEF Shape, Writes, Kept
<1>2. \A i \in DOMAIN log :
        /\ log'[i].asOf = log[i].asOf /\ log'[i].mark = log[i].mark
        /\ log'[i].observed = log[i].observed /\ log'[i].direction = log[i].direction
        /\ log'[i].count = log[i].count
        /\ log[i].decision = "none" <=> log'[i].decision = "none"
  BY <1>1 DEF Writes, Kept
<1>3. \A v \in Schedulers : v # w => passes'[v] = passes[v]
  BY DEF Writes
<1>4. passes'[w].pc \in {"idle", "settle"}
  BY DEF Writes
<1>5. \A v \in Schedulers : Checking(v)' => v # w /\ Checking(v) /\ passes'[v].asOf = passes[v].asOf
  BY <1>3, <1>4 DEF Checking
<1>6. Ordered'
  BY <1>1, <1>2, <1>5 DEF Ordered
<1>7. LogInv'
  <2>1. \A i \in DOMAIN log' : Sound(log'[i], i)
    BY <1>1, <1>2 DEF LogInv, Sound
  <2>2. ASSUME NEW v \in Schedulers PROVE PassInv(v)'
    <3>1. CASE v = w
      BY <3>1 DEF Writes
    <3>2. CASE v # w
      <4>1. passes'[v] = passes[v] /\ PassInv(v)
        BY <1>3, <3>2 DEF LogInv
      <4> QED BY <1>1, <1>2, <4>1 DEF PassInv, Sound
    <3> QED BY <3>1, <3>2
  <2>3. \A u, v \in Schedulers : passes'[u].pc = "evaluated" /\ passes'[v].pc = "evaluated" => u = v
    BY <1>3, <1>4 DEF LogInv
  <2> QED BY <2>1, <2>2, <2>3 DEF LogInv
<1>8. ShiftInv'
  <2>1. ASSUME NEW i \in DOMAIN log', log'[i].decision # "none"
        PROVE  (\E j \in 1..(i - 1) : Confirms(j, log[i], i - 1))'
    <3>1. i \in DOMAIN log /\ log[i].decision # "none"
      BY <1>1, <1>2, <2>1
    <3>2. PICK j \in 1..(i - 1) : Confirms(j, log[i], i - 1)
      BY <3>1 DEF ShiftInv
    <3>3. /\ log[i].mark = log'[i].mark /\ log[i].asOf = log'[i].asOf
          /\ log[i].direction = log'[i].direction
          /\ i - 1 \in Nat /\ i - 1 <= Len(log)
      BY <1>1, <1>2, <3>1
    <3>4. PICK q, r, m : q = log[i] /\ r = log'[i] /\ m = i - 1
      OBVIOUS
    <3>5. \A k \in 1..m : /\ log'[k].asOf = log[k].asOf /\ log'[k].mark = log[k].mark
                          /\ log'[k].direction = log[k].direction
      BY <1>1, <1>2, <3>3, <3>4
    <3>6. Confirms(j, r, m)'
      BY <3>2, <3>3, <3>4, <3>5, KeptConfirms
    <3>7. Confirms(j, log[i], i - 1)'
      BY <3>4, <3>6 DEF Confirms
    <3> QED BY <3>7
  <2>2. ASSUME NEW v \in Schedulers, passes'[v].pc = "evaluated",
               passes'[v].row[1].decision # "none"
        PROVE  (\E j \in 1..Len(log) : Confirms(j, passes[v].row[1], Len(log)))'
    <3>1. v # w /\ passes'[v] = passes[v]
      BY <1>3, <1>4, <2>2
    <3>2. PICK j \in 1..Len(log) : Confirms(j, passes[v].row[1], Len(log))
      BY <2>2, <3>1 DEF ShiftInv
    <3>3. PICK q, m : q = passes[v].row[1] /\ m = Len(log)
      OBVIOUS
    <3>4. /\ m \in Nat /\ j \in 1..m
          /\ \A k \in 1..m : /\ log'[k].asOf = log[k].asOf /\ log'[k].mark = log[k].mark
                            /\ log'[k].direction = log[k].direction
      BY <1>1, <1>2, <3>3
    <3>5. Confirms(j, q, m)'
      BY <3>2, <3>3, <3>4, KeptConfirms
    <3>6. Confirms(j, passes[v].row[1], Len(log))'
      BY <1>1, <3>1, <3>3, <3>5 DEF Confirms
    <3> QED BY <1>1, <3>6
  <2> QED BY <2>1, <2>2 DEF ShiftInv
<1> QED BY <1>6, <1>7, <1>8

-----------------------------------------------------------------------------
\* A function on the first numbers is a sequence.
LEMMA FunctionIsLog ==
  ASSUME NEW T, NEW n \in Nat, NEW s \in [1..n -> T]
  PROVE  s \in Seq(T) /\ Len(s) = n
<1>1. s \in Seq(T)
  BY SeqDef
<1>2. Len(s) \in Nat /\ DOMAIN s = 1..Len(s)
  BY <1>1, LenProperties
<1> QED BY <1>1, <1>2

\* A step that writes decisions alone writes no mark and makes no alert.
Quiet ==
  \A i \in DOMAIN log :
    /\ log'[i].alerted = log[i].alerted /\ log'[i].finished = log[i].finished
    /\ log'[i].markedAt = log[i].markedAt /\ log'[i].lost = log[i].lost
    /\ log'[i].decision = "alerted" => log[i].decision = "alerted"

\* Writing one decision that is no alert.
LEMMA DecisionWritten ==
  ASSUME Shape, NEW i \in DOMAIN log, log[i].decision # "none",
         NEW d \in {"prepared", "assessing", "dropped"},
         log' = [log EXCEPT ![i].decision = d]
  PROVE  log' \in Seq(SnapshotType) /\ Kept /\ Quiet /\ log'[i].decision = d
<1>1. /\ Len(log) \in Nat /\ DOMAIN log = 1..Len(log)
      /\ \A k \in 1..Len(log) : log[k] \in SnapshotType
  BY LogHeld DEF Shape
<1>2. log \in [1..Len(log) -> SnapshotType]
  BY LenProperties DEF Shape
<1>3. PICK q : q = [log[i] EXCEPT !.decision = d]
  OBVIOUS
<1>4. q \in SnapshotType
  BY <1>1, <1>3 DEF SnapshotType
<1>5. log' = [log EXCEPT ![i] = q]
  BY <1>3
<1>6. log' \in [1..Len(log) -> SnapshotType]
  BY <1>1, <1>2, <1>4, <1>5
<1>7. log' \in Seq(SnapshotType) /\ Len(log') = Len(log)
  BY <1>1, <1>6, FunctionIsLog
<1>8. log'[i] = q /\ \A k \in 1..Len(log) : k # i => log'[k] = log[k]
  BY <1>1, <1>5
<1>9. /\ q.asOf = log[i].asOf /\ q.mark = log[i].mark /\ q.observed = log[i].observed
      /\ q.direction = log[i].direction /\ q.count = log[i].count
      /\ q.alerted = log[i].alerted /\ q.finished = log[i].finished
      /\ q.markedAt = log[i].markedAt /\ q.lost = log[i].lost /\ q.decision = d
  BY <1>1, <1>3 DEF SnapshotType
<1>10. Kept
  <2>1. ASSUME NEW k \in 1..Len(log)
        PROVE  /\ log'[k].asOf = log[k].asOf /\ log'[k].mark = log[k].mark
               /\ log'[k].observed = log[k].observed /\ log'[k].direction = log[k].direction
               /\ log'[k].count = log[k].count
               /\ log[k].decision = "none" <=> log'[k].decision = "none"
    BY <1>8, <1>9
  <2> QED BY <1>7, <2>1 DEF Kept
<1>11. Quiet
  BY <1>1, <1>8, <1>9 DEF Quiet
<1> QED BY <1>7, <1>8, <1>9, <1>10, <1>11

\* What the alerts stand for is as it was when no mark is written.
LEMMA QuietSpace ==
  ASSUME Shape, Shape', Kept, Quiet, SpaceInv,
         \A v \in Schedulers : passes'[v].pc = "evaluated" => passes'[v] = passes[v]
  PROVE  SpaceInv'
<1>1. DOMAIN log = 1..Len(log) /\ DOMAIN log' = 1..Len(log)
  BY LogHeld DEF Shape, Kept
<1>2. ASSUME NEW i \in DOMAIN log', Stands(i)'
      PROVE  (/\ log[i].finished \in Nat
              /\ \A j \in DOMAIN log : Newest(j) => log[j].alerted >= log[i].finished
              /\ \A j \in DOMAIN log : j > log[i].markedAt => Far(log[j], i)
              /\ \A w \in Schedulers : passes[w].pc = "evaluated" =>
                   /\ passes[w].row[1].alerted >= log[i].finished
                   /\ Far(passes[w].row[1], i))'
  <2>1. i \in DOMAIN log /\ Stands(i)
    BY <1>1, <1>2 DEF Stands, Quiet
  <2>2. /\ log[i].finished \in Nat
        /\ \A j \in DOMAIN log : Newest(j) => log[j].alerted >= log[i].finished
        /\ \A j \in DOMAIN log : j > log[i].markedAt => Far(log[j], i)
        /\ \A w \in Schedulers : passes[w].pc = "evaluated" =>
             /\ passes[w].row[1].alerted >= log[i].finished
             /\ Far(passes[w].row[1], i)
    BY <2>1 DEF SpaceInv
  <2>3. log'[i].finished = log[i].finished /\ log'[i].markedAt = log[i].markedAt
    BY <2>1 DEF Quiet
  <2>4. \A j \in DOMAIN log' : Newest(j)' => log'[j].alerted >= log'[i].finished
    <3>1. ASSUME NEW j \in DOMAIN log', Newest(j)' PROVE log'[j].alerted >= log'[i].finished
      <4>1. j \in DOMAIN log /\ Newest(j)
        BY <1>1, <3>1, KeptNewest
      <4> QED BY <2>2, <2>3, <4>1 DEF Quiet
    <3> QED BY <3>1
  <2>5. \A j \in DOMAIN log' : j > log'[i].markedAt => Far(log[j], i)'
    <3>1. ASSUME NEW j \in DOMAIN log', j > log'[i].markedAt PROVE Far(log[j], i)'
      <4>1. j \in DOMAIN log /\ Far(log[j], i)
        BY <1>1, <2>2, <2>3, <3>1
      <4>2. log'[j].asOf = log[j].asOf /\ (log[j].decision = "none" => log'[j].decision = "none")
        BY <1>1, <4>1 DEF Kept
      <4> QED BY <2>3, <4>1, <4>2 DEF Far
    <3> QED BY <3>1
  <2>6. ASSUME NEW v \in Schedulers, passes'[v].pc = "evaluated"
        PROVE  passes'[v].row[1].alerted >= log'[i].finished /\ Far(passes[v].row[1], i)'
    <3>1. passes'[v] = passes[v] /\ passes[v].pc = "evaluated"
      BY <2>6
    <3>2. passes[v].row[1].alerted >= log[i].finished /\ Far(passes[v].row[1], i)
      BY <2>2, <3>1
    <3> QED BY <2>3, <3>1, <3>2 DEF Far
  <2> QED BY <2>2, <2>3, <2>4, <2>5, <2>6
<1> QED BY <1>2 DEF SpaceInv

-----------------------------------------------------------------------------
\* What the invariant says of the log and of the schedulers.
Series == Shape /\ Ordered /\ LogInv /\ ShiftInv /\ SpaceInv

\* A scheduler that does nothing holds nothing.
LEMMA IdleHolds ==
  ASSUME W!Settings
  PROVE  /\ W!Idle \in PassType /\ W!Idle.pc = "idle" /\ W!Idle.item = 0 /\ W!Idle.row = <<>>
         /\ SeriesEnd \in Nat /\ SeriesCooldown \in Nat
<1>1. SeriesEnd \in Nat /\ SeriesCooldown \in Nat
  BY DEF W!Settings
<1>2. W!None \in Times
  BY <1>1 DEF W!None, Times
<1> QED BY <1>1, <1>2 DEF W!Idle, PassType, Marks

\* A scheduler is given what it holds next.
LEMMA PassGiven ==
  ASSUME Shape, NEW w \in Schedulers, NEW k \in PassType, passes' = [passes EXCEPT ![w] = k]
  PROVE  /\ passes' \in [Schedulers -> PassType] /\ passes'[w] = k
         /\ \A v \in Schedulers : v # w => passes'[v] = passes[v]
BY DEF Shape

\* A decision is taken for an answer.
LEMMA RespondStep ==
  ASSUME W!Settings, ArticleInv, Series, NEW w \in Schedulers, NEW i \in DOMAIN log, W!Respond(w, i)
  PROVE  Series'
<1> USE DEF Series
<1>1. /\ passes[w].pc = "idle" /\ log[i].decision = "prepared"
      /\ log' = [log EXCEPT ![i].decision = "assessing"]
      /\ passes' = [passes EXCEPT ![w].pc = "settle", ![w].item = i, ![w].finished = clock]
  BY DEF W!Respond
<1>2. /\ DOMAIN log = 1..Len(log) /\ Len(log) \in Nat /\ passes[w] \in PassType
      /\ passes \in [Schedulers -> PassType]
  BY SeriesHeld DEF Shape
<1>3. clock \in Nat
  BY DEF ArticleInv, W!Settings
<1>4. PICK k : k = [passes[w] EXCEPT !.pc = "settle", !.item = i, !.finished = clock]
  OBVIOUS
<1>5. /\ k \in PassType /\ k.pc = "settle" /\ k.item = i /\ k.finished = clock
      /\ k.row = passes[w].row
  <2>1. i \in Nat /\ clock \in Marks
    BY <1>2, <1>3 DEF Marks
  <2> QED BY <1>2, <1>4, <2>1 DEF PassType
<1>6. passes' = [passes EXCEPT ![w] = k]
  BY <1>1, <1>2, <1>4
<1>7. /\ passes' \in [Schedulers -> PassType] /\ passes'[w] = k
      /\ \A v \in Schedulers : v # w => passes'[v] = passes[v]
  BY <1>5, <1>6, PassGiven
<1>8. log' \in Seq(SnapshotType) /\ Kept /\ Quiet /\ log'[i].decision = "assessing"
  <2>1. log[i].decision # "none"
    BY <1>1
  <2> QED BY <1>1, <2>1, DecisionWritten
<1>9. Len(log') = Len(log) /\ DOMAIN log' = DOMAIN log
  BY <1>2, <1>8, LogHeld DEF Kept
<1>10. Shape'
  BY <1>7, <1>8, <1>9 DEF Shape
<1>11. Writes(w)
  <2>1. passes[w].row = <<>>
    BY <1>1 DEF LogInv, PassInv
  <2>2. PassInv(w)'
    BY <1>3, <1>5, <1>7, <1>8, <1>9, <2>1 DEF PassInv
  <2> QED BY <1>5, <1>7, <1>8, <2>2 DEF Writes
<1>12. Ordered' /\ LogInv' /\ ShiftInv'
  BY <1>10, <1>11, WritesKeep
<1>13. SpaceInv'
  <2>1. \A v \in Schedulers : passes'[v].pc = "evaluated" => passes'[v] = passes[v]
    BY <1>5, <1>7
  <2> QED BY <1>8, <1>10, <2>1, QuietSpace
<1> QED BY <1>10, <1>12, <1>13

\* A scheduler lets go of its item, whose decision is written or not.
LEMMA LetGo ==
  ASSUME W!Settings, Series, NEW w \in Schedulers, passes' = [passes EXCEPT ![w] = W!Idle],
         log' \in Seq(SnapshotType), Kept, Quiet
  PROVE  Series'
<1> USE DEF Series
<1>1. /\ passes' \in [Schedulers -> PassType] /\ passes'[w] = W!Idle
      /\ \A v \in Schedulers : v # w => passes'[v] = passes[v]
  BY IdleHolds, PassGiven
<1>2. Shape'
  BY <1>1 DEF Shape, Kept
<1>3. Writes(w)
  BY <1>1, IdleHolds DEF Writes, PassInv
<1>4. SpaceInv'
  <2>1. \A v \in Schedulers : passes'[v].pc = "evaluated" => passes'[v] = passes[v]
    BY <1>1, IdleHolds
  <2> QED BY <1>2, <2>1, QuietSpace
<1> QED BY <1>2, <1>3, <1>4, WritesKeep

\* A decision is dropped.
LEMMA DropStep ==
  ASSUME W!Settings, Series, NEW w \in Schedulers, W!Drop(w)
  PROVE  Series'
<1>1. /\ passes[w].pc = "settle" /\ passes' = [passes EXCEPT ![w] = W!Idle]
      /\ log' = [log EXCEPT ![passes[w].item].decision = "dropped"]
  BY DEF W!Drop, W!Settled
<1>2. passes[w].item \in DOMAIN log /\ log[passes[w].item].decision # "none"
  BY <1>1 DEF Series, LogInv, PassInv
<1>3. log' \in Seq(SnapshotType) /\ Kept /\ Quiet
  BY <1>1, <1>2, DecisionWritten DEF Series
<1> QED BY <1>1, <1>3, LetGo

\* A pass stops, and the decision it had is prepared again.
LEMMA StopStep ==
  ASSUME W!Settings, Series, NEW w \in Schedulers, W!Stop(w)
  PROVE  Series'
<1>1. /\ passes' = [passes EXCEPT ![w] = W!Idle]
      /\ log' = IF passes[w].item = 0 THEN log
                ELSE [log EXCEPT ![passes[w].item].decision = "prepared"]
  BY DEF W!Stop
<1>2. CASE passes[w].item = 0
  <2>1. log' = log
    BY <1>1, <1>2
  <2>2. log' \in Seq(SnapshotType) /\ Kept /\ Quiet
    BY <2>1 DEF Series, Shape, Kept, Quiet
  <2> QED BY <1>1, <2>2, LetGo
<1>3. CASE passes[w].item # 0
  <2>1. passes[w].item \in DOMAIN log /\ log[passes[w].item].decision # "none"
    <3>1. passes[w].pc = "settle"
      BY <1>3 DEF Series, LogInv, PassInv
    <3> QED BY <3>1 DEF Series, LogInv, PassInv
  <2>2. log' = [log EXCEPT ![passes[w].item].decision = "prepared"]
    BY <1>1, <1>3
  <2>3. log' \in Seq(SnapshotType) /\ Kept /\ Quiet
    BY <2>1, <2>2, DecisionWritten DEF Series
  <2> QED BY <1>1, <2>3, LetGo
<1> QED BY <1>2, <1>3

\* An alert is marked at the newest snapshot.
LEMMA AlertStep ==
  ASSUME W!Settings, Series, NEW w \in Schedulers, W!Alert(w)
  PROVE  Series'
<1> USE DEF Series
<1> DEFINE n == Len(log)
<1> DEFINE c == passes[w].item
<1> DEFINE f == passes[w].finished
<1> DEFINE done(i) == [W!Marked(i, f) EXCEPT !.decision = "alerted", !.finished = f,
                                          !.markedAt = n, !.lost = ~W!Unlocked]
<1>1. /\ passes[w].pc = "settle" /\ passes' = [passes EXCEPT ![w] = W!Idle]
      /\ log' = [i \in DOMAIN log |-> IF i = c THEN done(i) ELSE W!Marked(i, f)]
  BY DEF W!Alert, W!Settled
<1>2. /\ n \in Nat /\ DOMAIN log = 1..n /\ \A i \in 1..n : log[i] \in SnapshotType
  BY LogHeld DEF Shape
<1>3. c \in 1..n /\ log[c].decision # "none" /\ f \in Nat
  BY <1>1, <1>2 DEF LogInv, PassInv
<1>4. log # <<>>
  BY <1>2, <1>3
<1>5. W!LatestIndex \in 1..n /\ \A i \in 1..n : Newest(i) <=> i = W!LatestIndex
  BY <1>2, <1>4, IdleHolds, LatestIs
<1>6. ASSUME NEW i \in 1..n
      PROVE  /\ W!Marked(i, f) \in SnapshotType
             /\ W!Marked(i, f).asOf = log[i].asOf /\ W!Marked(i, f).mark = log[i].mark
             /\ W!Marked(i, f).observed = log[i].observed
             /\ W!Marked(i, f).direction = log[i].direction
             /\ W!Marked(i, f).count = log[i].count /\ W!Marked(i, f).decision = log[i].decision
             /\ W!Marked(i, f).finished = log[i].finished
             /\ W!Marked(i, f).markedAt = log[i].markedAt
             /\ W!Marked(i, f).alerted = (IF i = W!LatestIndex THEN f ELSE log[i].alerted)
             /\ ~W!Marked(i, f).lost => ~log[i].lost /\ ~(f < log[i].finished)
  <2>1. log[i] \in SnapshotType /\ f \in Marks
    BY <1>2, <1>3 DEF Marks
  <2>2. (IF i = W!LatestIndex THEN f ELSE log[i].alerted) \in Marks
    BY <2>1 DEF SnapshotType
  <2>3. (log[i].lost \/ f < log[i].finished) \in BOOLEAN
    OBVIOUS
  <2> HIDE DEF n, f
  <2> QED BY <2>1, <2>2, <2>3 DEF W!Marked, SnapshotType
<1>7. /\ done(c) \in SnapshotType
      /\ done(c).asOf = log[c].asOf /\ done(c).mark = log[c].mark
      /\ done(c).observed = log[c].observed /\ done(c).direction = log[c].direction
      /\ done(c).count = log[c].count /\ done(c).decision = "alerted"
      /\ done(c).finished = f /\ done(c).markedAt = n
      /\ done(c).alerted = (IF c = W!LatestIndex THEN f ELSE log[c].alerted)
      /\ done(c).lost = ~W!Unlocked
  <2>1. PICK q : q = W!Marked(c, f)
    OBVIOUS
  <2>2. /\ q \in SnapshotType /\ q.asOf = log[c].asOf /\ q.mark = log[c].mark
        /\ q.observed = log[c].observed /\ q.direction = log[c].direction
        /\ q.count = log[c].count
        /\ q.alerted = (IF c = W!LatestIndex THEN f ELSE log[c].alerted)
    BY <1>3, <1>6, <2>1
  <2>3. done(c) = [q EXCEPT !.decision = "alerted", !.finished = f, !.markedAt = n,
                            !.lost = ~W!Unlocked]
    BY <2>1
  <2>4. f \in Marks /\ n \in Int /\ (~W!Unlocked) \in BOOLEAN
    BY <1>2, <1>3 DEF Marks
  <2> HIDE DEF n, f, c, done
  <2> QED BY <2>2, <2>3, <2>4 DEF SnapshotType
<1> HIDE DEF done
<1>8. log'[c] = done(c) /\ \A i \in 1..n : i # c => log'[i] = W!Marked(i, f)
  BY <1>1, <1>2, <1>3
<1>9. \A i \in 1..n : log'[i] \in SnapshotType
  BY <1>6, <1>7, <1>8
<1>10. log' \in [1..n -> SnapshotType]
  BY <1>1, <1>2, <1>6, <1>7
<1>11. log' \in Seq(SnapshotType) /\ Len(log') = n /\ DOMAIN log' = 1..n
  BY <1>2, <1>10, FunctionIsLog
<1> HIDE DEF n, f, c
<1>12. /\ passes' \in [Schedulers -> PassType] /\ passes'[w] = W!Idle
       /\ \A v \in Schedulers : v # w => passes'[v] = passes[v]
  BY <1>1, IdleHolds, PassGiven
<1>13. Shape'
  BY <1>11, <1>12 DEF Shape, n
<1>14. Kept
  <2>1. ASSUME NEW k \in 1..n
        PROVE  /\ log'[k].asOf = log[k].asOf /\ log'[k].mark = log[k].mark
               /\ log'[k].observed = log[k].observed /\ log'[k].direction = log[k].direction
               /\ log'[k].count = log[k].count
               /\ log[k].decision = "none" <=> log'[k].decision = "none"
    <3>1. CASE k = c
      BY <1>3, <1>7, <1>8, <3>1
    <3>2. CASE k # c
      BY <1>6, <1>8, <3>2
    <3> QED BY <3>1, <3>2
  <2> QED BY <1>11, <2>1 DEF Kept, n
<1>15. Writes(w)
  BY <1>12, <1>14, IdleHolds DEF Writes, PassInv
<1>16. SpaceInv'
  <2>1. \A j \in 1..n : Newest(j)' => j = W!LatestIndex
    BY <1>5, <1>13, <1>14, KeptNewest
  <2>2. log'[W!LatestIndex].alerted = f
    BY <1>3, <1>5, <1>6, <1>7, <1>8
  <2>3. ASSUME NEW i \in 1..n, Stands(i)'
        PROVE  (/\ log[i].finished \in Nat
                /\ \A j \in DOMAIN log : Newest(j) => log[j].alerted >= log[i].finished
                /\ \A j \in DOMAIN log : j > log[i].markedAt => Far(log[j], i)
                /\ \A v \in Schedulers : passes[v].pc = "evaluated" =>
                     /\ passes[v].row[1].alerted >= log[i].finished
                     /\ Far(passes[v].row[1], i))'
    <3>1. CASE i = c
      <4>1. /\ log'[i].finished = f /\ log'[i].markedAt = n /\ W!Unlocked
        BY <1>7, <1>8, <2>3, <3>1 DEF Stands
      <4>2. \A v \in Schedulers : passes'[v].pc # "evaluated"
        BY <1>12, <4>1, IdleHolds DEF W!Unlocked
      <4>3. \A j \in DOMAIN log' : ~(j > n)
        BY <1>2, <1>11
      <4>4. \A j \in DOMAIN log' : Newest(j)' => log'[j].alerted >= f
        BY <1>3, <1>11, <2>1, <2>2
      <4> QED BY <1>3, <4>1, <4>2, <4>3, <4>4
    <3>2. CASE i # c
      <4>1. /\ log'[i].finished = log[i].finished /\ log'[i].markedAt = log[i].markedAt
            /\ log'[i].decision = log[i].decision /\ ~log[i].lost
            /\ ~(f < log[i].finished)
        BY <1>6, <1>8, <2>3, <3>2 DEF Stands
      <4>2. Stands(i)
        BY <2>3, <4>1 DEF Stands
      <4>3. /\ log[i].finished \in Nat
            /\ \A j \in DOMAIN log : j > log[i].markedAt => Far(log[j], i)
            /\ \A v \in Schedulers : passes[v].pc = "evaluated" =>
                 /\ passes[v].row[1].alerted >= log[i].finished
                 /\ Far(passes[v].row[1], i)
        BY <1>2, <4>2 DEF SpaceInv
      <4>4. \A j \in DOMAIN log' : Newest(j)' => log'[j].alerted >= log'[i].finished
        BY <1>3, <1>11, <2>1, <2>2, <4>1, <4>3
      <4>5. ASSUME NEW j \in DOMAIN log', j > log'[i].markedAt PROVE Far(log[j], i)'
        <5>1. j \in 1..n /\ Far(log[j], i)
          BY <1>2, <1>11, <4>1, <4>3, <4>5
        <5>2. log'[j].asOf = log[j].asOf /\ (log[j].decision = "none" => log'[j].decision = "none")
          BY <1>14, <5>1 DEF Kept, n
        <5> QED BY <4>1, <5>1, <5>2 DEF Far
      <4>6. ASSUME NEW v \in Schedulers, passes'[v].pc = "evaluated"
            PROVE  passes'[v].row[1].alerted >= log'[i].finished /\ Far(passes[v].row[1], i)'
        <5>1. passes'[v] = passes[v] /\ passes[v].pc = "evaluated"
          BY <1>12, <4>6, IdleHolds
        <5>2. passes[v].row[1].alerted >= log[i].finished /\ Far(passes[v].row[1], i)
          BY <4>3, <5>1
        <5> QED BY <4>1, <5>1, <5>2 DEF Far
      <4> QED BY <4>1, <4>3, <4>4, <4>5, <4>6
    <3> QED BY <3>1, <3>2
  <2> QED BY <1>11, <2>3 DEF SpaceInv
<1> QED BY <1>13, <1>15, <1>16, WritesKeep

-----------------------------------------------------------------------------
\* What a pass reads are observations.
LEMMA Observed ==
  ASSUME W!Settings, ArticleInv, NEW t
  PROVE  W!Observations(t) \in SUBSET Obs
<1>1. ASSUME NEW a \in W!Articles, article[a].rating # {}
      PROVE  W!LabelOf(a) \in W!Labels \cup {"unknown"}
  <2>1. article[a].rating \in SUBSET W!Labels
    BY DEF ArticleInv, ArticleType
  <2>2. (CHOOSE l \in article[a].rating : TRUE) \in article[a].rating
    BY <1>1
  <2> QED BY <2>1, <2>2 DEF W!LabelOf
<1>2. ASSUME NEW a \in W!Articles, article[a].rating # {}
      PROVE  /\ article[a].published \in Int /\ article[a].seen \in 0..SeriesEnd
             /\ article[a].revision \in 0..2
  BY <1>2 DEF ArticleInv, ArticleType
<1> QED BY <1>1, <1>2 DEF W!Observations, Obs

\* A pass reads the articles as of its start.
LEMMA ReadStep ==
  ASSUME W!Settings, ArticleInv, Series, NEW w \in Schedulers, W!Read(w)
  PROVE  Series'
<1> USE DEF Series
<1>1. PICK t \in (clock - MaxIntake)..clock :
        /\ t \notin {log[i].asOf : i \in DOMAIN log} \cup {passes[v].asOf : v \in Schedulers}
        /\ passes' = [passes EXCEPT ![w] = [W!Idle EXCEPT !.pc = "read", !.asOf = t,
                                                    !.evidence = W!Observations(t)]]
  BY DEF W!Read
<1>2. log' = log
  BY DEF W!Read
<1>3. clock \in Int /\ clock <= SeriesEnd /\ SeriesEnd \in Nat /\ MaxIntake \in Nat
  BY DEF ArticleInv, W!Settings
<1>4. t \in Times
  BY <1>3 DEF Times
<1>5. PICK k : k = [W!Idle EXCEPT !.pc = "read", !.asOf = t, !.evidence = W!Observations(t)]
  OBVIOUS
<1>6. /\ k \in PassType /\ k.pc = "read" /\ k.asOf = t /\ k.item = 0 /\ k.row = <<>>
  <2>1. W!Observations(t) \in SUBSET Obs
    BY Observed
  <2> QED BY <1>4, <1>5, <2>1, IdleHolds DEF PassType
<1>7. /\ passes' \in [Schedulers -> PassType] /\ passes'[w] = k
      /\ \A v \in Schedulers : v # w => passes'[v] = passes[v]
  BY <1>1, <1>5, <1>6, PassGiven
<1>8. Shape'
  BY <1>2, <1>7 DEF Shape
<1>9. Ordered'
  <2>1. /\ \A i \in DOMAIN log : log[i].asOf # t
        /\ \A v \in Schedulers : passes[v].asOf # t
    BY <1>1
  <2> QED BY <1>2, <1>6, <1>7, <2>1 DEF Ordered, Checking
<1>10. LogInv'
  <2>1. ASSUME NEW v \in Schedulers PROVE PassInv(v)'
    <3>1. CASE v = w
      BY <1>6, <1>7, <3>1 DEF PassInv
    <3>2. CASE v # w
      BY <1>2, <1>7, <3>2 DEF LogInv, PassInv, Sound
    <3> QED BY <3>1, <3>2
  <2> QED BY <1>2, <1>6, <1>7, <2>1 DEF LogInv
<1>11. \A v \in Schedulers : passes'[v].pc = "evaluated" => passes'[v] = passes[v]
  BY <1>6, <1>7
<1>12. Kept /\ Quiet
  BY <1>2 DEF Kept, Quiet
<1>13. ShiftInv'
  <2>1. \A i \in DOMAIN log' : log'[i].decision # "none" =>
          (\E j \in 1..(i - 1) : Confirms(j, log[i], i - 1))'
    BY <1>2 DEF ShiftInv, Confirms, W!InOrder
  <2>2. ASSUME NEW v \in Schedulers, passes'[v].pc = "evaluated",
               passes'[v].row[1].decision # "none"
        PROVE  (\E j \in 1..Len(log) : Confirms(j, passes[v].row[1], Len(log)))'
    <3>1. passes'[v] = passes[v]
      BY <1>11, <2>2
    <3>2. \E j \in 1..Len(log) : Confirms(j, passes[v].row[1], Len(log))
      BY <2>2, <3>1 DEF ShiftInv
    <3> QED BY <1>2, <3>1, <3>2 DEF Confirms, W!InOrder
  <2> QED BY <2>1, <2>2 DEF ShiftInv
<1>14. SpaceInv'
  BY <1>8, <1>11, <1>12, QuietSpace
<1> QED BY <1>8, <1>9, <1>10, <1>13, <1>14

\* A pass compares the windows, alone.
LEMMA EvaluateStep ==
  ASSUME W!Settings, ArticleInv, Series, NEW w \in Schedulers, W!Evaluate(w)
  PROVE  Series'
<1> USE DEF Series
<1>1. /\ passes[w].pc = "read" /\ W!Unlocked /\ log' = log
  BY DEF W!Evaluate
<1>2. PICK healthy \in BOOLEAN :
        passes' = [passes EXCEPT ![w] = [W!Idle EXCEPT !.pc = "evaluated", !.asOf = passes[w].asOf,
                                                 !.row = <<W!Evaluated(w, healthy)>>]]
  BY DEF W!Evaluate
<1>3. PICK r : r = W!Evaluated(w, healthy)
  OBVIOUS
<1>4. /\ r \in SnapshotType /\ r.asOf = passes[w].asOf
      /\ Sound(r, Len(log) + 1) /\ r.decision \in {"none", "prepared"}
      /\ log # <<>> => r.alerted = log[W!LatestIndex].alerted
      /\ r.decision # "none" => /\ r.alerted # W!None => r.asOf - r.alerted >= SeriesCooldown
                                /\ \E j \in 1..Len(log) : Confirms(j, r, Len(log))
  BY <1>1, <1>3, Counted
<1>5. PICK k : k = [W!Idle EXCEPT !.pc = "evaluated", !.asOf = passes[w].asOf, !.row = <<r>>]
  OBVIOUS
<1>6. /\ k \in PassType /\ k.pc = "evaluated" /\ k.asOf = passes[w].asOf /\ k.item = 0
      /\ k.row = <<r>> /\ k.row # <<>> /\ k.row[1] = r
  <2>1. passes[w].asOf \in Times
    BY SeriesHeld DEF PassType
  <2>2. <<r>> # <<>> /\ <<r>>[1] = r
    OBVIOUS
  <2>3. <<r>> \in {<<>>} \cup {<<q>> : q \in SnapshotType}
    BY <1>4
  <2> QED BY <1>5, <2>1, <2>2, <2>3, IdleHolds DEF PassType
<1>7. /\ passes' \in [Schedulers -> PassType] /\ passes'[w] = k
      /\ \A v \in Schedulers : v # w => passes'[v] = passes[v]
  BY <1>2, <1>3, <1>5, <1>6, PassGiven
<1>8. Shape'
  BY <1>1, <1>7 DEF Shape
<1>9. Ordered'
  BY <1>1, <1>6, <1>7 DEF Ordered, Checking
<1>10. \A v \in Schedulers : passes'[v].pc = "evaluated" => v = w
  BY <1>1, <1>7 DEF W!Unlocked
<1>11. LogInv'
  <2>1. ASSUME NEW v \in Schedulers PROVE PassInv(v)'
    <3>1. CASE v = w
      <4>1. Len(log') = Len(log)
        BY <1>1
      <4> QED BY <1>4, <1>6, <1>7, <3>1, <4>1 DEF PassInv
    <3>2. CASE v # w
      BY <1>1, <1>7, <3>2 DEF LogInv, PassInv, Sound
    <3> QED BY <3>1, <3>2
  <2> QED BY <1>1, <1>10, <2>1 DEF LogInv
<1>12. ShiftInv'
  <2>1. \A i \in DOMAIN log' : log'[i].decision # "none" =>
          (\E j \in 1..(i - 1) : Confirms(j, log[i], i - 1))'
    BY <1>1 DEF ShiftInv, Confirms, W!InOrder
  <2>2. ASSUME NEW v \in Schedulers, passes'[v].pc = "evaluated",
               passes'[v].row[1].decision # "none"
        PROVE  (\E j \in 1..Len(log) : Confirms(j, passes[v].row[1], Len(log)))'
    <3>1. passes'[v].row[1] = r
      BY <1>6, <1>7, <1>10, <2>2
    <3>2. \E j \in 1..Len(log) : Confirms(j, r, Len(log))
      BY <1>4, <2>2, <3>1
    <3> QED BY <1>1, <3>1, <3>2 DEF Confirms, W!InOrder
  <2> QED BY <2>1, <2>2 DEF ShiftInv
<1>13. SpaceInv'
  <2>1. ASSUME NEW i \in DOMAIN log, Stands(i)
        PROVE  r.alerted >= log[i].finished /\ Far(r, i)
    <3>1. log # <<>> /\ W!LatestIndex \in DOMAIN log /\ Newest(W!LatestIndex)
      BY <2>1, IdleHolds, LatestIs
    <3>2. log[W!LatestIndex].alerted >= log[i].finished /\ log[i].finished \in Nat
      BY <2>1, <3>1 DEF SpaceInv
    <3>3. r.alerted >= log[i].finished /\ r.alerted # W!None /\ r.alerted \in Int
      BY <1>4, <3>1, <3>2 DEF SnapshotType, Marks, W!None
    <3>4. r.asOf \in Int /\ SeriesCooldown \in Nat
      BY <1>4, IdleHolds DEF SnapshotType, Times
    <3>5. r.decision # "none" => r.asOf - log[i].finished >= SeriesCooldown
      BY <1>4, <3>2, <3>3, <3>4
    <3> QED BY <3>3, <3>5 DEF Far
  <2>2. ASSUME NEW i \in DOMAIN log', Stands(i)'
        PROVE  (/\ log[i].finished \in Nat
                /\ \A j \in DOMAIN log : Newest(j) => log[j].alerted >= log[i].finished
                /\ \A j \in DOMAIN log : j > log[i].markedAt => Far(log[j], i)
                /\ \A v \in Schedulers : passes[v].pc = "evaluated" =>
                     /\ passes[v].row[1].alerted >= log[i].finished
                     /\ Far(passes[v].row[1], i))'
    <3>1. i \in DOMAIN log /\ Stands(i)
      BY <1>1, <2>2 DEF Stands
    <3>2. /\ log[i].finished \in Nat
          /\ \A j \in DOMAIN log : Newest(j) => log[j].alerted >= log[i].finished
          /\ \A j \in DOMAIN log : j > log[i].markedAt => Far(log[j], i)
      BY <3>1 DEF SpaceInv
    <3>3. \A v \in Schedulers : passes'[v].pc = "evaluated" => passes'[v].row[1] = r
      BY <1>6, <1>7, <1>10
    <3>4. r.alerted >= log[i].finished /\ Far(r, i)
      BY <2>1, <3>1
    <3> QED BY <1>1, <3>2, <3>3, <3>4 DEF Newest, Far
  <2> QED BY <2>2 DEF SpaceInv
<1> QED BY <1>8, <1>9, <1>11, <1>12, <1>13

\* A snapshot is committed after those that are there.
LEMMA CommitStep ==
  ASSUME W!Settings, Series, NEW w \in Schedulers, W!Commit(w)
  PROVE  Series'
<1> USE DEF Series
<1> DEFINE n == Len(log)
<1>1. /\ passes[w].pc = "evaluated" /\ n < MaxChecks
      /\ log' = log \o passes[w].row /\ passes' = [passes EXCEPT ![w] = W!Idle]
  BY DEF W!Commit
<1>2. /\ n \in Nat /\ DOMAIN log = 1..n /\ \A i \in DOMAIN log : log[i] \in SnapshotType
      /\ passes[w] \in PassType /\ log \in Seq(SnapshotType)
  BY SeriesHeld DEF Shape
<1>3. PICK r : r = passes[w].row[1]
  OBVIOUS
<1>4. PassInv(w) /\ passes[w].row # <<>>
  BY <1>1 DEF LogInv, PassInv
<1>5. /\ r \in SnapshotType /\ passes[w].row = <<r>> /\ r.asOf = passes[w].asOf
      /\ Sound(r, n + 1) /\ r.decision \in {"none", "prepared"}
  BY <1>1, <1>2, <1>3, <1>4, RowHeld DEF PassInv
<1>6. log' = Append(log, r)
  <2>1. log \o <<r>> = Append(log, r)
    BY <1>2, <1>5
  <2> QED BY <1>1, <1>5, <2>1
<1>7. /\ log' \in Seq(SnapshotType) /\ Len(log') = n + 1 /\ log'[n + 1] = r
      /\ \A i \in 1..n : log'[i] = log[i]
  BY <1>2, <1>5, <1>6, AppendProperties
<1>8. DOMAIN log' = 1..(n + 1)
  BY <1>7, LogHeld
<1>9. /\ passes' \in [Schedulers -> PassType] /\ passes'[w] = W!Idle
      /\ \A v \in Schedulers : v # w => passes'[v] = passes[v]
  BY <1>1, IdleHolds, PassGiven
<1>10. MaxChecks \in Nat
  BY DEF W!Settings
<1> HIDE DEF n
<1>11. Shape'
  <2>1. n + 1 <= MaxChecks
    BY <1>1, <1>2, <1>10
  <2> QED BY <1>7, <1>9, <2>1 DEF Shape
<1>12. \A i \in DOMAIN log : log[i].asOf # r.asOf
  BY <1>1, <1>5 DEF Ordered, Checking
<1>13. \A v \in Schedulers : Checking(v)' => v # w /\ Checking(v) /\ passes'[v] = passes[v]
  BY <1>9, IdleHolds DEF Checking
<1>14. \A i \in 1..(n + 1) : i \in 1..n \/ i = n + 1
  BY <1>2
<1>15. Ordered'
  <2>1. \A i, j \in DOMAIN log' : log'[i].asOf = log'[j].asOf => i = j
    <3>1. ASSUME NEW i \in 1..(n + 1), NEW j \in 1..(n + 1), log'[i].asOf = log'[j].asOf
          PROVE  i = j
      <4>1. CASE i \in 1..n /\ j \in 1..n
        BY <1>2, <1>7, <3>1, <4>1 DEF Ordered
      <4>2. CASE i \in 1..n /\ j = n + 1
        BY <1>2, <1>7, <1>12, <3>1, <4>2
      <4>3. CASE i = n + 1 /\ j \in 1..n
        BY <1>2, <1>7, <1>12, <3>1, <4>3
      <4> QED BY <1>14, <4>1, <4>2, <4>3
    <3> QED BY <1>8, <3>1
  <2>2. ASSUME NEW v \in Schedulers, Checking(v)'
        PROVE  /\ \A i \in DOMAIN log' : log'[i].asOf # passes'[v].asOf
               /\ \A u \in Schedulers : Checking(u)' /\ passes'[u].asOf = passes'[v].asOf => u = v
    <3>1. v # w /\ Checking(v) /\ passes'[v] = passes[v]
      BY <1>13, <2>2
    <3>2. \A i \in 1..n : log[i].asOf # passes[v].asOf
      BY <1>2, <3>1 DEF Ordered
    <3>3. r.asOf # passes[v].asOf
      BY <1>1, <1>5, <3>1 DEF Ordered, Checking
    <3>4. \A i \in 1..(n + 1) : log'[i].asOf # passes[v].asOf
      BY <1>7, <1>14, <3>2, <3>3
    <3>5. \A u \in Schedulers : Checking(u)' /\ passes'[u].asOf = passes'[v].asOf => u = v
      BY <1>13, <3>1 DEF Ordered
    <3> QED BY <1>8, <3>1, <3>4, <3>5
  <2> QED BY <2>1, <2>2 DEF Ordered
<1>16. \A v \in Schedulers : passes'[v].pc # "evaluated"
  BY <1>1, <1>9, IdleHolds DEF LogInv
<1>17. LogInv'
  <2>1. \A i \in DOMAIN log' : Sound(log'[i], i)
    BY <1>2, <1>5, <1>7, <1>8, <1>14 DEF LogInv
  <2>2. ASSUME NEW v \in Schedulers PROVE PassInv(v)'
    <3>1. CASE v = w
      BY <1>9, <3>1, IdleHolds DEF PassInv
    <3>2. CASE v # w
      <4>1. passes'[v] = passes[v] /\ PassInv(v) /\ passes[v].pc # "evaluated"
        BY <1>9, <1>16, <3>2 DEF LogInv
      <4>2. passes[v].pc = "settle" => /\ passes[v].item \in DOMAIN log'
                                       /\ log'[passes[v].item].decision # "none"
        BY <1>2, <1>7, <1>8, <4>1 DEF PassInv
      <4> QED BY <4>1, <4>2 DEF PassInv
    <3> QED BY <3>1, <3>2
  <2> QED BY <1>16, <2>1, <2>2 DEF LogInv
<1>18. ASSUME NEW m \in 0..n, NEW q, \E j \in 1..m : Confirms(j, q, m)
       PROVE  \E j \in 1..m : Confirms(j, q, m)'
  <2>1. PICK j \in 1..m : Confirms(j, q, m)
    BY <1>18
  <2>2. /\ m \in Nat
        /\ \A k \in 1..m : /\ log'[k].asOf = log[k].asOf /\ log'[k].mark = log[k].mark
                           /\ log'[k].direction = log[k].direction
    BY <1>2, <1>7
  <2>3. Confirms(j, q, m)'
    BY <2>1, <2>2, KeptConfirms
  <2> QED BY <2>3
<1>19. ShiftInv'
  <2>1. ASSUME NEW i \in DOMAIN log', log'[i].decision # "none"
        PROVE  (\E j \in 1..(i - 1) : Confirms(j, log[i], i - 1))'
    <3>1. PICK m, q : m = i - 1 /\ q = log'[i]
      OBVIOUS
    <3>2. m \in 0..n /\ \E j \in 1..m : Confirms(j, q, m)
      <4>1. CASE i \in 1..n
        BY <1>2, <1>7, <2>1, <3>1, <4>1 DEF ShiftInv
      <4>2. CASE i = n + 1
        <5>1. m = n /\ q = r
          BY <1>2, <1>7, <3>1, <4>2
        <5>2. \E j \in 1..n : Confirms(j, r, n)
          BY <1>1, <1>3, <2>1, <3>1, <5>1 DEF ShiftInv, n
        <5> QED BY <1>2, <5>1, <5>2
      <4> QED BY <1>8, <1>14, <4>1, <4>2
    <3>3. \E j \in 1..m : Confirms(j, q, m)'
      BY <1>18, <3>2
    <3> QED BY <3>1, <3>3 DEF Confirms
  <2> QED BY <1>16, <2>1 DEF ShiftInv
<1>20. SpaceInv'
  <2>1. ASSUME NEW i \in DOMAIN log', Stands(i)'
        PROVE  (/\ log[i].finished \in Nat
                /\ \A j \in DOMAIN log : Newest(j) => log[j].alerted >= log[i].finished
                /\ \A j \in DOMAIN log : j > log[i].markedAt => Far(log[j], i)
                /\ \A v \in Schedulers : passes[v].pc = "evaluated" =>
                     /\ passes[v].row[1].alerted >= log[i].finished
                     /\ Far(passes[v].row[1], i))'
    <3>1. i # n + 1
      BY <1>5, <1>7, <2>1 DEF Stands
    <3>2. i \in 1..n /\ log'[i] = log[i]
      BY <1>7, <1>8, <1>14, <3>1
    <3>3. Stands(i)
      BY <2>1, <3>2 DEF Stands
    <3>4. /\ log[i].finished \in Nat
          /\ \A j \in DOMAIN log : Newest(j) => log[j].alerted >= log[i].finished
          /\ \A j \in DOMAIN log : j > log[i].markedAt => Far(log[j], i)
          /\ r.alerted >= log[i].finished /\ Far(r, i)
      BY <1>1, <1>2, <1>3, <3>2, <3>3 DEF SpaceInv
    <3>5. ASSUME NEW j \in 1..(n + 1), Newest(j)' PROVE log'[j].alerted >= log[i].finished
      <4>1. CASE j \in 1..n
        <5>1. Newest(j)
          BY <1>2, <1>7, <1>8, <1>14, <3>5, <4>1 DEF Newest
        <5> QED BY <1>2, <1>7, <3>4, <4>1, <5>1
      <4>2. CASE j = n + 1
        BY <1>7, <3>4, <4>2
      <4> QED BY <1>14, <4>1, <4>2
    <3>6. ASSUME NEW j \in 1..(n + 1), j > log[i].markedAt PROVE Far(log[j], i)'
      <4>1. CASE j \in 1..n
        BY <1>2, <1>7, <3>2, <3>4, <3>6, <4>1 DEF Far
      <4>2. CASE j = n + 1
        BY <1>7, <3>2, <3>4, <4>2 DEF Far
      <4> QED BY <1>14, <4>1, <4>2
    <3> QED BY <1>8, <1>16, <3>2, <3>4, <3>5, <3>6
  <2> QED BY <2>1 DEF SpaceInv
<1> QED BY <1>11, <1>15, <1>17, <1>19, <1>20

-----------------------------------------------------------------------------
\* What happens beside the passes leaves the log and the schedulers alone.
LEMMA OutsideStep ==
  ASSUME W!Settings, Series, UNCHANGED <<log, passes>>
  PROVE  Series'
<1>1. log' = log /\ passes' = passes
  OBVIOUS
<1>2. Shape' /\ Ordered' /\ LogInv'
  BY <1>1 DEF Series, Shape, Ordered, Checking, LogInv, PassInv, Sound
<1>3. ShiftInv'
  BY <1>1 DEF Series, ShiftInv, Confirms, W!InOrder
<1>4. SpaceInv'
  BY <1>1 DEF Series, SpaceInv, Stands, Newest, Far
<1> QED BY <1>2, <1>3, <1>4 DEF Series

\* The articles' rows are typed whoever writes them.
LEMMA ArticleStep ==
  ASSUME W!Settings, ArticleInv, NEW a \in W!Articles, NEW k \in ArticleType,
         k.seen = clock, article' = [article EXCEPT ![a] = k], clock' = clock
  PROVE  ArticleInv'
<1>1. article \in [W!Articles -> ArticleType] /\ clock \in Window..SeriesEnd
  BY DEF ArticleInv
<1>2. clock \in 0..SeriesEnd
  BY <1>1 DEF W!Settings
<1>3. /\ article' \in [W!Articles -> ArticleType] /\ article'[a] = k
      /\ \A b \in W!Articles : b # a => article'[b] = article[b]
  BY <1>1
<1>4. \A b \in W!Articles : article'[b].rating # {} => article'[b].seen \in 0..SeriesEnd
  <2>1. ASSUME NEW b \in W!Articles, article'[b].rating # {} PROVE article'[b].seen \in 0..SeriesEnd
    <3>1. CASE b = a
      BY <1>2, <1>3, <3>1
    <3>2. CASE b # a
      BY <1>3, <2>1, <3>2 DEF ArticleInv
    <3> QED BY <3>1, <3>2
  <2> QED BY <2>1
<1> QED BY <1>1, <1>3, <1>4 DEF ArticleInv

\* The provider publishes an article.
LEMMA PublishArticleStep ==
  ASSUME W!Settings, ArticleInv, NEW a \in 1..N, W!Publish(a)
  PROVE  ArticleInv'
<1>1. a \in W!Articles /\ clock \in Nat
  BY DEF W!Settings, W!Articles, ArticleInv
<1>2. PICK rating \in Ratings[a], delay \in Delays[a] :
        article' = [article EXCEPT ![a] = [revision |-> 1, rating |-> rating,
                                           published |-> clock - delay, seen |-> clock]]
  BY DEF W!Publish
<1>3. rating \in SUBSET W!Labels /\ delay \in Nat
  BY <1>1 DEF W!Settings
<1>4. PICK k : k = [revision |-> 1, rating |-> rating, published |-> clock - delay, seen |-> clock]
  OBVIOUS
<1>5. k \in ArticleType /\ k.seen = clock
  BY <1>1, <1>3, <1>4 DEF ArticleType, Marks
<1>6. article' = [article EXCEPT ![a] = k] /\ clock' = clock
  BY <1>2, <1>4 DEF W!Publish
<1> QED BY <1>1, <1>5, <1>6, ArticleStep

\* The provider revises an article.
LEMMA ReviseArticleStep ==
  ASSUME W!Settings, ArticleInv, NEW a \in W!Articles, W!Revise(a)
  PROVE  ArticleInv'
<1>1. clock \in Nat /\ article \in [W!Articles -> ArticleType] /\ article[a].revision = 1
  BY DEF W!Settings, ArticleInv, W!Revise
<1>2. PICK rating \in Ratings[a] :
        article' = [article EXCEPT ![a].revision = @ + 1, ![a].rating = rating, ![a].seen = clock]
  BY DEF W!Revise
<1>3. rating \in SUBSET W!Labels
  BY DEF W!Settings
<1>4. PICK k : k = [article[a] EXCEPT !.revision = @ + 1, !.rating = rating, !.seen = clock]
  OBVIOUS
<1>5. k \in ArticleType /\ k.seen = clock
  <2>1. article[a] \in ArticleType /\ clock \in Marks /\ article[a].revision + 1 = 2
    BY <1>1 DEF Marks
  <2>2. k = [revision |-> 2, rating |-> rating, published |-> article[a].published, seen |-> clock]
    BY <1>4, <2>1 DEF ArticleType
  <2>3. article[a].published \in Int
    BY <2>1 DEF ArticleType
  <2> QED BY <1>3, <2>1, <2>2, <2>3 DEF ArticleType
<1>6. article' = [article EXCEPT ![a] = k] /\ clock' = clock
  BY <1>1, <1>2, <1>4 DEF W!Revise
<1> QED BY <1>5, <1>6, ArticleStep

\* The first state.
LEMMA SeriesInitially ==
  ASSUME W!Settings, W!Init
  PROVE  SeriesInv
<1>1. /\ clock = Window + 1 /\ log = <<>> /\ passes = [w \in Schedulers |-> W!Idle]
      /\ article = [a \in W!Articles |->
           IF a = 0 THEN [revision |-> 1, rating |-> {"negative"}, published |-> 0, seen |-> 0]
                    ELSE W!Unpublished]
  BY DEF W!Init
<1>2. Window \in Nat /\ SeriesEnd \in Nat /\ Window < SeriesEnd /\ MaxChecks \in Nat
  BY DEF W!Settings
<1>3. /\ W!Unpublished \in ArticleType /\ W!Unpublished.rating = {}
      /\ [revision |-> 1, rating |-> {"negative"}, published |-> 0, seen |-> 0] \in ArticleType
  BY DEF W!Unpublished, ArticleType, W!Labels, Marks, W!None
<1>4. ArticleInv
  BY <1>1, <1>2, <1>3 DEF ArticleInv
<1>5. log \in Seq(SnapshotType) /\ Len(log) = 0 /\ DOMAIN log = {}
  BY <1>1
<1>6. \A w \in Schedulers : /\ passes[w] = W!Idle /\ passes[w].pc = "idle" /\ passes[w].item = 0
                            /\ passes[w].row = <<>>
  BY <1>1, IdleHolds
<1>7. Shape
  BY <1>1, <1>2, <1>5, IdleHolds DEF Shape
<1>8. Ordered /\ LogInv
  BY <1>5, <1>6 DEF Ordered, Checking, LogInv, PassInv
<1>9. ShiftInv /\ SpaceInv
  BY <1>5, <1>6 DEF ShiftInv, SpaceInv
<1> QED BY <1>4, <1>7, <1>8, <1>9 DEF SeriesInv

\* Every step preserves the invariant.
LEMMA SeriesInductive ==
  ASSUME W!Settings, SeriesInv, [W!Next]_W!vars
  PROVE  SeriesInv'
<1>1. ArticleInv /\ Series
  BY DEF SeriesInv, Series
<1>2. ASSUME NEW w \in Schedulers, W!Pass(w) PROVE ArticleInv' /\ Series'
  <2>1. UNCHANGED <<clock, article>>
    BY <1>2 DEF W!Pass, W!Read, W!Evaluate, W!Commit, W!Respond, W!Drop, W!Alert, W!Stop
  <2>2. ArticleInv'
    BY <1>1, <2>1 DEF ArticleInv
  <2>3. CASE W!Read(w)
    BY <1>1, <2>2, <2>3, ReadStep
  <2>4. CASE W!Evaluate(w)
    BY <1>1, <2>2, <2>4, EvaluateStep
  <2>5. CASE W!Commit(w)
    BY <1>1, <2>2, <2>5, CommitStep
  <2>6. CASE W!Drop(w)
    BY <1>1, <2>2, <2>6, DropStep
  <2>7. CASE W!Alert(w)
    BY <1>1, <2>2, <2>7, AlertStep
  <2>8. CASE W!Stop(w)
    BY <1>1, <2>2, <2>8, StopStep
  <2>9. ASSUME NEW i \in DOMAIN log, W!Respond(w, i) PROVE Series'
    BY <1>1, <2>9, RespondStep
  <2> QED BY <1>2, <2>2, <2>3, <2>4, <2>5, <2>6, <2>7, <2>8, <2>9 DEF W!Pass
<1>3. ASSUME NEW a \in 1..N, W!Publish(a) PROVE ArticleInv' /\ Series'
  <2>1. UNCHANGED <<log, passes>>
    BY <1>3 DEF W!Publish
  <2> QED BY <1>1, <1>3, <2>1, PublishArticleStep, OutsideStep
<1>4. ASSUME NEW a \in W!Articles, W!Revise(a) PROVE ArticleInv' /\ Series'
  <2>1. UNCHANGED <<log, passes>>
    BY <1>4 DEF W!Revise
  <2> QED BY <1>1, <1>4, <2>1, ReviseArticleStep, OutsideStep
<1>5. ASSUME W!Tick PROVE ArticleInv' /\ Series'
  <2>1. UNCHANGED <<log, passes>> /\ article' = article
    BY <1>5 DEF W!Tick
  <2>2. clock' \in Window..SeriesEnd
    BY <1>1, <1>5 DEF W!Tick, ArticleInv, W!Settings
  <2>3. ArticleInv'
    BY <1>1, <2>1, <2>2 DEF ArticleInv
  <2> QED BY <1>1, <2>1, <2>3, OutsideStep
<1>6. ASSUME UNCHANGED W!vars PROVE ArticleInv' /\ Series'
  <2>1. UNCHANGED <<log, passes>> /\ UNCHANGED <<clock, article>>
    BY <1>6 DEF W!vars
  <2>2. ArticleInv'
    BY <1>1, <2>1 DEF ArticleInv
  <2> QED BY <1>1, <2>1, <2>2, OutsideStep
<1>7. ArticleInv' /\ Series'
  BY <1>2, <1>3, <1>4, <1>5, <1>6 DEF W!Next
<1> QED BY <1>7 DEF SeriesInv, Series

\* The invariant types the series, and confirms and spaces its alerts.
LEMMA SeriesShown ==
  ASSUME W!Settings, SeriesInv
  PROVE  W!ShiftIsConfirmed /\ W!AlertsAreSpaced
<1>1. /\ DOMAIN log = 1..Len(log) /\ Len(log) \in Nat
      /\ \A i \in DOMAIN log : log[i] \in SnapshotType
      /\ \A w \in Schedulers : passes[w] \in PassType
  BY SeriesHeld DEF SeriesInv
<1>2. W!TypeOK
  <2>1. clock \in Window..SeriesEnd /\ \A a \in W!Articles : article[a].revision \in 0..2
    BY DEF SeriesInv, ArticleInv, ArticleType
  <2>2. Len(log) <= MaxChecks
    BY DEF SeriesInv, Shape
  <2>3. ASSUME NEW i \in DOMAIN log
        PROVE  log[i].direction \in {-1, 0, 1} /\ log[i].count \in 0..MaxChecks
    <3>1. log[i].direction \in {-1, 0, 1} /\ log[i].count \in Nat
      BY <1>1 DEF SnapshotType
    <3>2. log[i].count <= i
      BY DEF SeriesInv, LogInv, Sound
    <3>3. MaxChecks \in Nat
      BY DEF W!Settings
    <3> QED BY <1>1, <2>2, <3>1, <3>2, <3>3
  <2>4. ASSUME NEW w \in Schedulers PROVE passes[w].item \in 0..Len(log)
    <3>1. passes[w].pc # "settle" => passes[w].item = 0
      BY DEF SeriesInv, LogInv, PassInv
    <3>2. passes[w].pc = "settle" => passes[w].item \in DOMAIN log
      BY DEF SeriesInv, LogInv, PassInv
    <3> QED BY <1>1, <3>1, <3>2
  <2> QED BY <2>1, <2>2, <2>3, <2>4 DEF W!TypeOK
<1>3. W!ShiftIsConfirmed
  BY <1>2 DEF SeriesInv, ShiftInv, Confirms, W!ShiftIsConfirmed
<1>4. W!AlertsAreSpaced
  <2>1. ASSUME NEW i \in DOMAIN log, NEW j \in DOMAIN log, log[i].decision = "alerted",
               log[j].decision # "none", j > log[i].markedAt, ~log[i].lost
        PROVE  log[j].asOf - log[i].finished >= SeriesCooldown
    BY <2>1 DEF SeriesInv, SpaceInv, Stands, Far
  <2>2. \A i \in DOMAIN log : log[i].lost \in BOOLEAN
    BY <1>1 DEF SnapshotType
  <2> QED BY <2>1, <2>2 DEF W!AlertsAreSpaced
<1> QED BY <1>3, <1>4

\* The invariant holds.
THEOREM SeriesInvariant == SeriesSpec => []SeriesInv
<1> USE SeriesAssumption
<1>1. W!Init => SeriesInv
  BY SeriesInitially
<1>2. SeriesInv /\ [W!Next]_W!vars => SeriesInv'
  BY SeriesInductive
<1> QED BY <1>1, <1>2, PTL DEF SeriesSpec, W!Spec

\* Jev is asked about a shift only when a check committed before had found it too.
THEOREM ShiftsStayConfirmed == SeriesSpec => []ShiftIsConfirmed
<1> USE SeriesAssumption
<1>1. SeriesInv => W!ShiftIsConfirmed
  BY SeriesShown
<1>2. SeriesSpec => []SeriesInv
  BY SeriesInvariant
<1> QED BY <1>1, <1>2, PTL DEF ShiftIsConfirmed

\* A decision keeps the cooldown from the alerts whose marks are not lost.
THEOREM AlertsStaySpaced == SeriesSpec => []AlertsAreSpaced
<1> USE SeriesAssumption
<1>1. SeriesInv => W!AlertsAreSpaced
  BY SeriesShown
<1>2. SeriesSpec => []SeriesInv
  BY SeriesInvariant
<1> QED BY <1>1, <1>2, PTL DEF AlertsAreSpaced
=============================================================================
