------------------------ MODULE AlertAssessment_proofs ------------------------
(***************************************************************************)
(* Proofs about the market alert assessor, for any number of processes,    *)
(* decisions and alerts, any costs, limit, lease and retry bound.          *)
(***************************************************************************)
EXTENDS AlertAssessment, TLAPS, FiniteSetTheorems, WellFoundedInduction

\* Where a process holds a claim, and the processes whose request for a decision
\* may still be billed.
Claiming(w) == work[w].pc \in {"request", "settle"}
Asking(d) == {w \in Workers : work[w].pc = "request" /\ work[w].item = d}

\* The claim of a process is that of the row, whatever the time.
Holds(w, d) == /\ Claiming(w) /\ work[w].item = d
               /\ row[d].status = "assessing" /\ row[d].token = work[w].claim

\* The most the provider may come to have charged for a decision.
Bill(d) == billed[d] + Reserve * Cardinality(Asking(d))

\* A row has a reservation exactly while it is assessed, and the books cover
\* whatever requests for it are still on their way.
RowInv(d) ==
  /\ row[d].status = "absent" => row[d] = Unlisted
  /\ row[d].reserved = IF row[d].status = "assessing" THEN Reserve ELSE 0
  /\ row[d].token <= row[d].attempts
  /\ Bill(d) <= row[d].cost + row[d].reserved

\* What a process holds is no newer than its row, and an answer whose claim is
\* still good covers the bill with what it costs.  A process that has seen its key
\* rejected asks no more.
WorkerInv(w) ==
  /\ work[w].tick <= now
  /\ Claiming(w) => /\ work[w].item \in Decisions
                    /\ work[w].claim <= row[work[w].item].attempts
                    /\ work[w].began <= now
                    /\ ~work[w].circuit
  /\ work[w].pc = "settle" =>
       /\ work[w].answer \in Outcomes
       /\ /\ Holds(w, work[w].item)
          /\ work[w].answer.cost # -1
          => Bill(work[w].item) <= row[work[w].item].cost + work[w].answer.cost
  /\ rejected[w] \in {0, 1}
  /\ rejected[w] = 1 => \/ work[w].circuit
                        \/ work[w].pc = "settle" /\ work[w].answer.kind = "auth"

\* A claim has one holder.
OneHolder ==
  \A v, w \in Workers :
    /\ Claiming(v) /\ Claiming(w)
    /\ work[v].item = work[w].item /\ work[v].claim = work[w].claim
    => v = w

IInv ==
  /\ TypeOK
  /\ \A d \in Decisions : RowInv(d)
  /\ \A w \in Workers : WorkerInv(w)
  /\ OneHolder
  /\ BudgetBalanced /\ WithinLimit /\ AlertIsDecided

-----------------------------------------------------------------------------
(* Sums *)

\* The units of a set are finitely many.
LEMMA UnitsFinite ==
  ASSUME NEW S, IsFiniteSet(S), NEW f, \A x \in S : f[x] \in Nat
  PROVE  /\ IsFiniteSet(Units(f, S))
         /\ Total(f, S) \in Nat
<1> DEFINE U == {{x} \X (1..f[x]) : x \in S}
<1>1. IsFiniteSet(U)
  <2> DEFINE F == [x \in S |-> {x} \X (1..f[x])]
  <2>1. F \in Surjection(S, U)
    BY DEF Surjection
  <2> HIDE DEF F, U
  <2> QED BY <2>1, FS_Surjection
<1>2. ASSUME NEW x \in S PROVE IsFiniteSet({x} \X (1..f[x]))
  <2>1. IsFiniteSet({x})
    BY FS_Singleton
  <2>2. IsFiniteSet(1..f[x])
    <3>1. f[x] \in Int
      OBVIOUS
    <3> QED BY <3>1, FS_Interval
  <2> QED BY <2>1, <2>2, FS_Product
<1>3. \A T \in U : IsFiniteSet(T)
  BY <1>2
<1>4. IsFiniteSet(UNION U)
  BY <1>1, <1>3, FS_UNION
<1> QED BY <1>4, FS_CardinalityType DEF Units, Total

\* A unit of the sum of f over S is one of what f gives an element of S.
LEMMA UnitsOf ==
  ASSUME NEW S, NEW f, NEW u
  PROVE  u \in Units(f, S) <=> \E x \in S : \E i \in 1..f[x] : u = <<x, i>>
BY DEF Units

\* Functions that agree on a set have the same sum over it.
LEMMA TotalSame ==
  ASSUME NEW S, NEW f, NEW g, \A x \in S : f[x] = g[x]
  PROVE  Total(f, S) = Total(g, S)
BY DEF Units, Total

\* A sum of zeros is zero.
LEMMA TotalZero ==
  ASSUME NEW S, NEW f, \A x \in S : f[x] = 0
  PROVE  Total(f, S) = 0
<1>1. \A x \in S : 1..f[x] = {}
  OBVIOUS
<1>2. Units(f, S) = {}
  BY <1>1 DEF Units
<1> QED BY <1>2, FS_EmptySet DEF Total

\* The sum over one member.
LEMMA TotalOne ==
  ASSUME NEW x, NEW f, f[x] \in Nat
  PROVE  Total(f, {x}) = f[x]
<1>1. Units(f, {x}) = {x} \X (1..f[x])
  BY DEF Units
<1>2. IsFiniteSet({x}) /\ Cardinality({x}) = 1
  BY FS_Singleton
<1>3. IsFiniteSet(1..f[x]) /\ Cardinality(1..f[x]) = f[x]
  <2>1. PICK n \in Nat : n = f[x]
    OBVIOUS
  <2>2. 1 \in Int /\ n \in Int
    OBVIOUS
  <2>3. IsFiniteSet(1..n) /\ Cardinality(1..n) = IF 1 > n THEN 0 ELSE n - 1 + 1
    BY <2>2, FS_Interval
  <2>4. Cardinality(1..n) = n
    BY <2>3
  <2> QED BY <2>1, <2>3, <2>4
<1>4. Cardinality({x} \X (1..f[x])) = Cardinality({x}) * Cardinality(1..f[x])
  BY <1>2, <1>3, FS_Product
<1>5. 1 * f[x] = f[x]
  OBVIOUS
<1> QED BY <1>1, <1>2, <1>3, <1>4, <1>5 DEF Total

\* The sum over a set is that over a part and that over the rest.
LEMMA TotalSplit ==
  ASSUME NEW S, IsFiniteSet(S), NEW f, \A x \in S : f[x] \in Nat, NEW P \in SUBSET S
  PROVE  /\ Total(f, S) = Total(f, P) + Total(f, S \ P)
         /\ Total(f, P) \in Nat /\ Total(f, S \ P) \in Nat
<1>1. IsFiniteSet(P) /\ IsFiniteSet(S \ P)
  BY FS_Subset
<1>2. /\ IsFiniteSet(Units(f, P)) /\ Total(f, P) \in Nat
      /\ IsFiniteSet(Units(f, S \ P)) /\ Total(f, S \ P) \in Nat
  BY <1>1, UnitsFinite
<1>3. Units(f, S) = Units(f, P) \cup Units(f, S \ P)
  BY DEF Units
<1>4. Units(f, P) \cap Units(f, S \ P) = {}
  BY DEF Units
<1>5. Cardinality(Units(f, P) \cap Units(f, S \ P)) = 0
  BY <1>4, FS_EmptySet
<1>6. Cardinality(Units(f, P) \cup Units(f, S \ P))
        = Cardinality(Units(f, P)) + Cardinality(Units(f, S \ P))
          - Cardinality(Units(f, P) \cap Units(f, S \ P))
  BY <1>2, FS_Union
<1> QED BY <1>2, <1>3, <1>5, <1>6 DEF Total

\* A sum of smaller amounts is smaller.
LEMMA TotalMonotone ==
  ASSUME NEW S, IsFiniteSet(S), NEW f, NEW g,
         \A x \in S : f[x] \in Nat /\ g[x] \in Nat /\ f[x] <= g[x]
  PROVE  Total(f, S) <= Total(g, S)
<1>1. ASSUME NEW u \in Units(f, S) PROVE u \in Units(g, S)
  <2>1a. PICK x \in S : \E i \in 1..f[x] : u = <<x, i>>
    BY <1>1, UnitsOf
  <2>1. PICK i \in 1..f[x] : u = <<x, i>>
    BY <2>1a
  <2>2. i \in 1..g[x]
    OBVIOUS
  <2> QED BY <2>1, <2>2, UnitsOf
<1>2. IsFiniteSet(Units(g, S))
  BY UnitsFinite
<1> QED BY <1>1, <1>2, FS_Subset DEF Total

\* The sum of sums.
LEMMA TotalPlus ==
  ASSUME NEW S, IsFiniteSet(S), NEW f, NEW g, NEW h,
         \A x \in S : f[x] \in Nat /\ g[x] \in Nat /\ h[x] = f[x] + g[x]
  PROVE  Total(h, S) = Total(f, S) + Total(g, S)
<1> DEFINE G == Units(g, S)
           F == [u \in G |-> <<u[1], f[u[1]] + u[2]>>]
           T == {F[u] : u \in G}
<1>1. /\ IsFiniteSet(Units(f, S)) /\ Total(f, S) \in Nat
      /\ IsFiniteSet(G) /\ Total(g, S) \in Nat
  BY UnitsFinite
<1>2. \A u \in G : \E x \in S : \E i \in 1..g[x] : u = <<x, i>> /\ F[u] = <<x, f[x] + i>>
  BY UnitsOf
<1>3. F \in [G -> T]
  OBVIOUS
<1>4. ASSUME NEW u \in G, NEW v \in G, F[u] = F[v] PROVE u = v
  <2>1a. PICK x \in S : \E i \in 1..g[x] : u = <<x, i>> /\ F[u] = <<x, f[x] + i>>
    BY <1>2
  <2>1. PICK i \in 1..g[x] : u = <<x, i>> /\ F[u] = <<x, f[x] + i>>
    BY <2>1a
  <2>2a. PICK y \in S : \E j \in 1..g[y] : v = <<y, j>> /\ F[v] = <<y, f[y] + j>>
    BY <1>2
  <2>2. PICK j \in 1..g[y] : v = <<y, j>> /\ F[v] = <<y, f[y] + j>>
    BY <2>2a
  <2>3. x = y /\ f[x] + i = f[y] + j
    BY <2>1, <2>2, <1>4
  <2>4. i = j
    BY <2>3
  <2> QED BY <2>1, <2>2, <2>3, <2>4
<1>5. F \in Bijection(G, T)
  <2>1. \A t \in T : \E u \in G : F[u] = t
    OBVIOUS
  <2> HIDE DEF F, T
  <2> QED BY <1>3, <1>4, <2>1 DEF Bijection, Injection, Surjection, IsInjective
<1>6. IsFiniteSet(T) /\ Cardinality(T) = Total(g, S)
  BY <1>1, <1>5, FS_Bijection DEF ExistsBijection, Total
<1>7. Units(f, S) \cap T = {}
  <2> SUFFICES ASSUME NEW t \in T, t \in Units(f, S) PROVE FALSE
    OBVIOUS
  <2>1. PICK u \in G : t = F[u]
    OBVIOUS
  <2>2a. PICK x \in S : \E i \in 1..g[x] : F[u] = <<x, f[x] + i>>
    BY <1>2
  <2>2. PICK i \in 1..g[x] : F[u] = <<x, f[x] + i>>
    BY <2>2a
  <2>3a. PICK y \in S : \E j \in 1..f[y] : t = <<y, j>>
    BY UnitsOf
  <2>3. PICK j \in 1..f[y] : t = <<y, j>>
    BY <2>3a
  <2>4. x = y /\ f[x] + i = j
    BY <2>1, <2>2, <2>3
  <2> QED BY <2>4
<1>8. Units(h, S) = Units(f, S) \cup T
  <2>1. ASSUME NEW u \in Units(h, S) PROVE u \in Units(f, S) \cup T
    <3>1a. PICK x \in S : \E i \in 1..h[x] : u = <<x, i>>
      BY UnitsOf
    <3>1. PICK i \in 1..h[x] : u = <<x, i>>
      BY <3>1a
    <3>2. CASE i <= f[x]
      BY <3>1, <3>2, UnitsOf
    <3>3. CASE i > f[x]
      <4>1. i - f[x] \in 1..g[x]
        BY <3>3
      <4>2. <<x, i - f[x]>> \in G
        BY <4>1, UnitsOf
      <4>3. F[<<x, i - f[x]>>] = <<x, f[x] + (i - f[x])>>
        BY <4>2
      <4>4. f[x] + (i - f[x]) = i
        OBVIOUS
      <4> QED BY <3>1, <4>2, <4>3, <4>4
    <3> QED BY <3>2, <3>3
  <2>2. ASSUME NEW u \in Units(f, S) PROVE u \in Units(h, S)
    <3>1a. PICK x \in S : \E i \in 1..f[x] : u = <<x, i>>
      BY UnitsOf
    <3>1. PICK i \in 1..f[x] : u = <<x, i>>
      BY <3>1a
    <3>2. i \in 1..h[x]
      OBVIOUS
    <3> QED BY <3>1, <3>2, UnitsOf
  <2>3. ASSUME NEW t \in T PROVE t \in Units(h, S)
    <3>1. PICK u \in G : t = F[u]
      OBVIOUS
    <3>2a. PICK x \in S : \E i \in 1..g[x] : F[u] = <<x, f[x] + i>>
      BY <1>2
    <3>2. PICK i \in 1..g[x] : F[u] = <<x, f[x] + i>>
      BY <3>2a
    <3>3. f[x] + i \in 1..h[x]
      OBVIOUS
    <3> QED BY <3>1, <3>2, <3>3, UnitsOf
  <2> QED BY <2>1, <2>2, <2>3
<1>9. Cardinality(Units(f, S) \cap T) = 0
  BY <1>7, FS_EmptySet
<1>10. /\ IsFiniteSet(Units(f, S) \cup T)
       /\ Cardinality(Units(f, S) \cup T)
            = Cardinality(Units(f, S)) + Cardinality(T) - Cardinality(Units(f, S) \cap T)
  BY <1>1, <1>6, FS_Union
<1> HIDE DEF T, F, G
<1> QED BY <1>1, <1>6, <1>8, <1>9, <1>10 DEF Total

\* p gives the classes into which k sorts the members of S.
Classes(S, k, M, p) ==
  /\ \A x \in S : k[x] \in M
  /\ \A m \in M : \A x : x \in p[m] <=> x \in S /\ k[x] = m

\* A sum may be taken class by class.
LEMMA TotalByClass ==
  ASSUME NEW S, IsFiniteSet(S), NEW f, \A x \in S : f[x] \in Nat,
         NEW M, NEW k, NEW p, Classes(S, k, M, p),
         NEW t, \A m \in M : t[m] = Total(f, p[m])
  PROVE  Total(t, M) = Total(f, S)
<1> USE DEF Classes
<1> DEFINE P(m) == p[m]
           b == [m \in M |-> CHOOSE c : c \in Bijection(1..t[m], Units(f, P(m)))]
           G == Units(t, M)
           F == [u \in G |-> b[u[1]][u[2]]]
<1>1. ASSUME NEW m \in M PROVE b[m] \in Bijection(1..t[m], Units(f, P(m)))
  <2>1. IsFiniteSet(P(m)) /\ \A x \in P(m) : f[x] \in Nat
    <3>1. P(m) \subseteq S
      OBVIOUS
    <3> QED BY <3>1, FS_Subset
  <2>2. IsFiniteSet(Units(f, P(m)))
    BY <2>1, UnitsFinite
  <2>3. ExistsBijection(1..Cardinality(Units(f, P(m))), Units(f, P(m)))
    BY <2>2, FS_CardinalityType
  <2>4. t[m] = Cardinality(Units(f, P(m)))
    BY DEF Total
  <2>5. \E c : c \in Bijection(1..t[m], Units(f, P(m)))
    BY <2>3, <2>4 DEF ExistsBijection
  <2> QED BY <2>5
<1> HIDE DEF b
<1>2. \A m \in M :
        /\ b[m] \in [1..t[m] -> Units(f, P(m))]
        /\ \A i, j \in 1..t[m] : b[m][i] = b[m][j] => i = j
        /\ \A u \in Units(f, P(m)) : \E i \in 1..t[m] : b[m][i] = u
  <2>1. ASSUME NEW A, NEW B, NEW g \in Bijection(A, B)
        PROVE  /\ g \in [A -> B] /\ \A i, j \in A : g[i] = g[j] => i = j
               /\ \A u \in B : \E i \in A : g[i] = u
    BY DEF Bijection, Injection, Surjection, IsInjective
  <2>2. ASSUME NEW m \in M
        PROVE  /\ b[m] \in [1..t[m] -> Units(f, P(m))]
               /\ \A i, j \in 1..t[m] : b[m][i] = b[m][j] => i = j
               /\ \A u \in Units(f, P(m)) : \E i \in 1..t[m] : b[m][i] = u
    <3>1. PICK A, B, g : A = 1..t[m] /\ B = Units(f, P(m)) /\ g = b[m]
      OBVIOUS
    <3>2. g \in Bijection(A, B)
      BY <1>1, <3>1
    <3>3. /\ g \in [A -> B] /\ \A i, j \in A : g[i] = g[j] => i = j
          /\ \A u \in B : \E i \in A : g[i] = u
      BY <2>1, <3>2
    <3> QED BY <3>1, <3>3
  <2> QED BY <2>2
<1>3. \A u \in G : \E m \in M : \E i \in 1..t[m] : u = <<m, i>> /\ F[u] = b[m][i]
  BY UnitsOf
<1>4. \A m \in M : \A u \in Units(f, P(m)) : u \in Units(f, S) /\ k[u[1]] = m
  BY DEF Units
<1> HIDE DEF P
<1>5. F \in [G -> Units(f, S)]
  <2>1. ASSUME NEW u \in G PROVE F[u] \in Units(f, S)
    <3>1a. PICK m \in M : \E i \in 1..t[m] : F[u] = b[m][i]
      BY <1>3
    <3>1. PICK i \in 1..t[m] : F[u] = b[m][i]
      BY <3>1a
    <3>2. b[m][i] \in Units(f, P(m))
      BY <1>2
    <3> QED BY <3>1, <3>2, <1>4
  <2> QED BY <2>1
<1>6. ASSUME NEW u \in G, NEW v \in G, F[u] = F[v] PROVE u = v
  <2>1a. PICK m \in M : \E i \in 1..t[m] : u = <<m, i>> /\ F[u] = b[m][i]
    BY <1>3
  <2>1. PICK i \in 1..t[m] : u = <<m, i>> /\ F[u] = b[m][i]
    BY <2>1a
  <2>2a. PICK n \in M : \E j \in 1..t[n] : v = <<n, j>> /\ F[v] = b[n][j]
    BY <1>3
  <2>2. PICK j \in 1..t[n] : v = <<n, j>> /\ F[v] = b[n][j]
    BY <2>2a
  <2>3. b[m][i] \in Units(f, P(m)) /\ b[n][j] \in Units(f, P(n))
    <3>1. \A q \in M : b[q] \in [1..t[q] -> Units(f, P(q))]
      BY <1>2
    <3> QED BY <3>1
  <2>4. m = n
    <3>1. k[b[m][i][1]] = m /\ k[b[n][j][1]] = n
      BY <1>4, <2>3
    <3>2. b[m][i] = b[n][j]
      BY <1>6, <2>1, <2>2
    <3> QED BY <3>1, <3>2
  <2>5. i = j
    BY <1>2, <1>6, <2>1, <2>2, <2>4
  <2> QED BY <2>1, <2>2, <2>4, <2>5
<1>7. ASSUME NEW u \in Units(f, S) PROVE \E v \in G : F[v] = u
  <2>1a. PICK x \in S : \E i \in 1..f[x] : u = <<x, i>>
    BY UnitsOf
  <2>1. PICK i \in 1..f[x] : u = <<x, i>>
    BY <2>1a
  <2> DEFINE m == k[x]
  <2>2. m \in M /\ x \in P(m)
    BY DEF P
  <2>3. u \in Units(f, P(m))
    BY <2>1, <2>2, UnitsOf
  <2>4. PICK j \in 1..t[m] : b[m][j] = u
    BY <1>2, <2>2, <2>3
  <2>5. <<m, j>> \in G
    BY <2>2, UnitsOf
  <2>6. F[<<m, j>>] = b[m][j]
    BY <2>5
  <2> QED BY <2>4, <2>5, <2>6
<1>8. F \in Bijection(G, Units(f, S))
  <2> HIDE DEF F
  <2> QED BY <1>5, <1>6, <1>7 DEF Bijection, Injection, Surjection, IsInjective
<1>9. \E H : H \in Bijection(Units(f, S), G)
  <2>1. IsFiniteSet(Units(f, S))
    BY UnitsFinite
  <2>2. F \in Injection(G, Units(f, S)) /\ F \in Surjection(G, Units(f, S))
    BY <1>8 DEF Bijection
  <2> HIDE DEF F
  <2>3. IsFiniteSet(G)
    BY <2>1, <2>2, FS_Injection
  <2>4. Cardinality(G) = Cardinality(Units(f, S))
    BY <2>1, <2>2, FS_Injection
  <2> QED BY <2>1, <2>3, <2>4, FS_SameCardinalityBij DEF ExistsBijection
<1>10. IsFiniteSet(Units(f, S))
  BY UnitsFinite
<1> QED BY <1>9, <1>10, FS_Bijection DEF ExistsBijection, Total

-----------------------------------------------------------------------------
(* The ledgers *)

\* What the assumption says of each constant.
LEMMA Constants ==
  /\ Reserve \in Nat /\ Reserve > 0 /\ MonthlyLimit \in Nat /\ Lease \in Nat
  /\ RequestTime \in Nat /\ RetryDelay \in Nat /\ MaxAttempts \in Nat /\ MaxAttempts > 0
  /\ MonthLength \in Nat /\ MonthLength > 0 /\ Horizon \in Nat /\ MaxTime \in Nat
  /\ \A c \in Costs : c \in Nat /\ c <= Reserve
  /\ IsFiniteSet(Workers) /\ IsFiniteSet(Decisions)
  /\ 0 \notin Decisions /\ \A d \in Decisions : d \in Nat /\ Model[d] \in Nat
BY AssessmentAssumption

\* A time the clock can show is in a month of the budget.
LEMMA MonthType ==
  ASSUME NEW t \in Nat, t <= MaxTime
  PROVE  Month(t) \in Months
<1> DEFINE q == t \div MonthLength
           r == MaxTime \div MonthLength
<1>1. q \in Int /\ r \in Int
  BY Constants
<1>2. /\ MonthLength * q <= t /\ t < MonthLength * q + MonthLength
      /\ MonthLength * r <= MaxTime /\ MaxTime < MonthLength * r + MonthLength
  <2>1. \A a \in Nat : /\ MonthLength * (a \div MonthLength) <= a
                       /\ a < MonthLength * (a \div MonthLength) + MonthLength
    BY Constants
  <2> QED BY <2>1, Constants
<1> HIDE DEF q, r
<1>3. 0 <= q
  <2>1. SUFFICES ASSUME q <= -1 PROVE FALSE
    BY <1>1
  <2>2. MonthLength * q <= MonthLength * (-1)
    BY <1>1, <2>1, Constants
  <2>3. MonthLength * (-1) = -MonthLength /\ MonthLength * q \in Int
    BY <1>1, Constants
  <2> QED BY <1>2, <2>2, <2>3, Constants
<1>4. q <= r
  <2>1. SUFFICES ASSUME r + 1 <= q PROVE FALSE
    BY <1>1
  <2>2. MonthLength * (r + 1) <= MonthLength * q
    BY <1>1, <2>1, Constants
  <2>3. MonthLength * (r + 1) = MonthLength * r + MonthLength
    BY <1>1, Constants
  <2>4. MonthLength * q \in Int /\ MonthLength * r \in Int
    BY <1>1, Constants
  <2> QED BY <1>2, <2>2, <2>3, <2>4, Constants
<1>5. q \in 0..r
  BY <1>1, <1>3, <1>4
<1> QED BY <1>5 DEF Months, Month, q, r

\* The months are finitely many.
LEMMA MonthsFinite == IsFiniteSet(Months)
<1>1. PICK n \in Int : n = Month(MaxTime)
  <2>1. Month(MaxTime) \in Months
    BY MonthType, Constants
  <2> QED BY <2>1 DEF Months
<1>2. IsFiniteSet(0..n)
  BY FS_Interval
<1> QED BY <1>1, <1>2 DEF Months

Budgets == [Months -> [spent : Nat, held : Nat]]
Amounts ==
  \A d \in Decisions : /\ row[d].cost \in Nat /\ row[d].reserved \in Nat
                       /\ row[d].month \in Months

\* The amounts in the table and the budget are natural numbers, as the sums need.
LEMMA AmountsType ==
  ASSUME TypeOK
  PROVE  Amounts /\ budget \in Budgets
<1>1. {0, Reserve} \subseteq Nat
  BY Constants
<1> QED BY <1>1 DEF TypeOK, Amounts, Budgets

\* Rows whose amounts stay as they are keep the ledgers in agreement.
LEMMA BooksKept ==
  ASSUME BudgetBalanced, WithinLimit, UNCHANGED budget,
         \A d \in Decisions : /\ row'[d].cost = row[d].cost
                              /\ row'[d].reserved = row[d].reserved
                              /\ row'[d].month = row[d].month
  PROVE  BudgetBalanced' /\ WithinLimit'
<1>1. /\ Reserved' = Reserved /\ Costed' = Costed
      /\ \A m : OfMonth(m)' = OfMonth(m)
  BY DEF Reserved, Costed, OfMonth
<1> QED BY <1>1 DEF BudgetBalanced, WithinLimit

\* Taking reservations back and booking what they came to, at most what was
\* reserved, keeps the ledgers in agreement and within the limit.
LEMMA Settlement ==
  ASSUME Amounts, budget \in Budgets, BudgetBalanced, WithinLimit,
         NEW D \in SUBSET Decisions, NEW c \in {-1} \cup 0..Reserve,
         \A d \in D : row[d].reserved = Reserve,
         \A d \in Decisions :
           /\ row'[d].cost = row[d].cost + IF d \in D THEN CostOf(d, c) ELSE 0
           /\ row'[d].reserved = IF d \in D THEN 0 ELSE row[d].reserved
           /\ row'[d].month = row[d].month,
         budget' = SettledBudget(D, c)
  PROVE  budget' \in Budgets /\ BudgetBalanced' /\ WithinLimit'
<1> DEFINE due == [d \in D |-> CostOf(d, c)]
           of(m) == D \cap OfMonth(m)
           spent == [m \in Months |-> budget[m].spent]
           charged == [m \in Months |-> Total(due, of(m))]
<1>1. \A d \in D : due[d] \in Nat /\ due[d] <= Reserved[d] /\ due[d] = CostOf(d, c)
  BY Constants DEF CostOf, Reserved
<1>2. \A d \in Decisions : Reserved[d] \in Nat /\ Costed[d] \in Nat
  BY DEF Reserved, Costed, Amounts
<1>3. \A m : OfMonth(m)' = OfMonth(m)
  BY DEF OfMonth
<1>4. ASSUME NEW m
      PROVE  /\ IsFiniteSet(OfMonth(m)) /\ OfMonth(m) \subseteq Decisions
             /\ of(m) \subseteq OfMonth(m) /\ IsFiniteSet(of(m))
             /\ of(m) \subseteq D /\ IsFiniteSet(D)
  <2>1. OfMonth(m) \subseteq Decisions /\ of(m) \subseteq Decisions
    BY DEF OfMonth
  <2> QED BY <2>1, Constants, FS_Subset
<1> HIDE DEF due
<1>5. ASSUME NEW m \in Months
      PROVE  /\ budget[m].spent \in Nat /\ budget[m].held \in Nat
             /\ budget'[m].spent = budget[m].spent + Total(due, of(m))
             /\ budget'[m].held = budget[m].held - Total(Reserved, of(m))
             /\ budget'[m] = [spent |-> budget'[m].spent, held |-> budget'[m].held]
  BY DEF SettledBudget, Budgets, due
<1>6. ASSUME NEW m \in Months
      PROVE  /\ Total(Reserved', OfMonth(m)') = Total(Reserved, OfMonth(m)) - Total(Reserved, of(m))
             /\ Total(Reserved, of(m)) \in Nat /\ Total(Reserved', OfMonth(m)') \in Nat
  <2>1. /\ Total(Reserved, OfMonth(m)) = Total(Reserved, of(m)) + Total(Reserved, OfMonth(m) \ of(m))
        /\ Total(Reserved, of(m)) \in Nat /\ Total(Reserved, OfMonth(m) \ of(m)) \in Nat
    BY <1>2, <1>4, TotalSplit
  <2>2. \A d \in Decisions : Reserved'[d] = IF d \in D THEN 0 ELSE Reserved[d]
    BY DEF Reserved
  <2>3. \A d \in OfMonth(m) : Reserved'[d] \in Nat
    <3>1. OfMonth(m) \subseteq Decisions
      BY <1>4
    <3>2. \A d \in Decisions : Reserved'[d] \in {0, Reserved[d]}
      BY <2>2
    <3> QED BY <3>1, <3>2, <1>2
  <2>4. Total(Reserved', OfMonth(m)) = Total(Reserved', of(m)) + Total(Reserved', OfMonth(m) \ of(m))
    <3>1. PICK g, S, P : g = Reserved' /\ S = OfMonth(m) /\ P = of(m)
      OBVIOUS
    <3>2. IsFiniteSet(S) /\ P \in SUBSET S /\ \A x \in S : g[x] \in Nat
      BY <1>4, <2>3, <3>1
    <3>3. Total(g, S) = Total(g, P) + Total(g, S \ P)
      BY <3>2, TotalSplit
    <3> QED BY <3>1, <3>3
  <2>5. Total(Reserved', of(m)) = 0
    BY <1>4, <2>2, TotalZero
  <2>6. Total(Reserved', OfMonth(m) \ of(m)) = Total(Reserved, OfMonth(m) \ of(m))
    <3>1. \A d \in OfMonth(m) \ of(m) : Reserved'[d] = Reserved[d]
      <4>1. OfMonth(m) \subseteq Decisions
        BY <1>4
      <4> QED BY <4>1, <2>2
    <3> QED BY <3>1, TotalSame
  <2> QED BY <1>3, <2>1, <2>4, <2>5, <2>6
<1>7. \A m \in Months : budget'[m].held = Total(Reserved', OfMonth(m)')
  BY <1>5, <1>6 DEF BudgetBalanced
<1>8. ASSUME NEW m \in Months
      PROVE  Total(due, of(m)) \in Nat /\ Total(due, of(m)) <= Total(Reserved, of(m))
  <2>1. \A d \in of(m) : due[d] \in Nat /\ Reserved[d] \in Nat /\ due[d] <= Reserved[d]
    BY <1>1, <1>2
  <2> QED BY <1>4, <2>1, TotalMonotone, UnitsFinite
<1>9. budget' \in Budgets
  <2>1. ASSUME NEW m \in Months PROVE budget'[m].spent \in Nat /\ budget'[m].held \in Nat
    <3>1. budget[m].spent \in Nat /\ budget'[m].spent = budget[m].spent + Total(due, of(m))
      BY <1>5
    <3>2. Total(due, of(m)) \in Nat
      BY <1>8
    <3>3. budget'[m].held \in Nat
      BY <1>6, <1>7
    <3> QED BY <3>1, <3>2, <3>3
  <2>2. \A m \in Months : budget'[m] \in [spent : Nat, held : Nat]
    <3>1. \A a, b \in Nat : [spent |-> a, held |-> b] \in [spent : Nat, held : Nat]
      OBVIOUS
    <3> SUFFICES ASSUME NEW m \in Months PROVE budget'[m] \in [spent : Nat, held : Nat]
      OBVIOUS
    <3> DEFINE a == budget'[m].spent
               b == budget'[m].held
    <3>2. a \in Nat /\ b \in Nat /\ budget'[m] = [spent |-> a, held |-> b]
      BY <1>5, <2>1
    <3> HIDE DEF a, b
    <3> QED BY <3>1, <3>2
  <2>3. DOMAIN budget' = Months /\ budget' = [m \in Months |-> budget'[m]]
    BY DEF SettledBudget
  <2> QED BY <2>2, <2>3 DEF Budgets
<1>10. WithinLimit'
  <2> SUFFICES ASSUME NEW m \in Months
               PROVE  budget'[m].spent + budget'[m].held <= MonthlyLimit
    BY DEF WithinLimit
  <2>1. budget[m].spent + budget[m].held <= MonthlyLimit
    BY DEF WithinLimit
  <2> DEFINE a == Total(due, of(m))
             b == Total(Reserved, of(m))
  <2>2. a \in Nat /\ b \in Nat /\ a <= b
    BY <1>6, <1>8
  <2>3. /\ budget[m].spent \in Nat /\ budget[m].held \in Nat
        /\ budget'[m].spent = budget[m].spent + a /\ budget'[m].held = budget[m].held - b
    BY <1>5
  <2> HIDE DEF a, b
  <2> QED BY <2>1, <2>2, <2>3, Constants
<1>11. Total([m \in Months |-> budget'[m].spent], Months)
         = Total(spent, Months) + Total(charged, Months)
  <2>1. IsFiniteSet(Months)
    BY MonthsFinite
  <2>2. \A m \in Months : /\ spent[m] \in Nat /\ charged[m] \in Nat
                          /\ [n \in Months |-> budget'[n].spent][m] = spent[m] + charged[m]
    BY <1>5, <1>8
  <2> HIDE DEF spent, charged
  <2> QED BY <2>1, <2>2, TotalPlus
<1>12. Total(charged, Months) = Total(due, D)
  <2> DEFINE k == [d \in D |-> row[d].month]
             p == [m \in Months |-> of(m)]
             t == charged
  <2>1. \A d \in D : k[d] \in Months
    BY DEF Amounts
  <2>2. Classes(D, k, Months, p)
    <3>1. \A m \in Months : \A d : d \in p[m] <=> d \in D /\ k[d] = m
      BY DEF OfMonth
    <3> QED BY <2>1, <3>1 DEF Classes
  <2>3. \A m \in Months : t[m] = Total(due, p[m])
    OBVIOUS
  <2>4. IsFiniteSet(D) /\ \A d \in D : due[d] \in Nat
    BY <1>1, <1>4
  <2> HIDE DEF k, p, t
  <2>5. Total(t, Months) = Total(due, D)
    BY <2>2, <2>3, <2>4, TotalByClass
  <2> QED BY <2>5 DEF t
<1>13. Total(Costed', Decisions) = Total(Costed, Decisions) + Total(due, D)
  <2>1. \A d \in Decisions : Costed'[d] = Costed[d] + IF d \in D THEN due[d] ELSE 0
    BY <1>1 DEF Costed
  <2>2. \A d \in Decisions : Costed'[d] \in Nat
    BY <1>1, <1>2, <2>1
  <2>3. Total(Costed', Decisions) = Total(Costed', D) + Total(Costed', Decisions \ D)
    BY <2>2, Constants, TotalSplit
  <2>4. /\ Total(Costed, Decisions) = Total(Costed, D) + Total(Costed, Decisions \ D)
        /\ Total(Costed, D) \in Nat /\ Total(Costed, Decisions \ D) \in Nat
    BY <1>2, Constants, TotalSplit
  <2>5. Total(Costed', Decisions \ D) = Total(Costed, Decisions \ D)
    <3>1. \A d \in Decisions \ D : Costed'[d] = Costed[d]
      BY <1>2, <2>1
    <3> QED BY <3>1, TotalSame
  <2>6. \A d \in D : Costed[d] \in Nat /\ due[d] \in Nat /\ Costed'[d] = Costed[d] + due[d]
    BY <1>1, <1>2, <2>1
  <2>7. Total(Costed', D) = Total(Costed, D) + Total(due, D)
    <3>1. IsFiniteSet(D)
      BY <1>4
    <3> QED BY <2>6, <3>1, TotalPlus
  <2>8. Total(due, D) \in Nat
    BY <1>4, <2>6, UnitsFinite
  <2> QED BY <2>3, <2>4, <2>5, <2>7, <2>8
<1>14. BudgetBalanced'
  <2>1. Total(spent, Months) = Total(Costed, Decisions)
    BY DEF BudgetBalanced
  <2>2. Total([m \in Months |-> budget'[m].spent], Months) = Total(Costed', Decisions)
    BY <1>11, <1>12, <1>13, <2>1
  <2> QED BY <1>7, <2>2 DEF BudgetBalanced
<1> QED BY <1>9, <1>10, <1>14

\* So does a reservation for a row that has none, if the limit has room for it.
LEMMA Reservation ==
  ASSUME Amounts, budget \in Budgets, BudgetBalanced, WithinLimit,
         NEW d \in Decisions, NEW m \in Months, row[d].reserved = 0, Fits(m),
         row'[d].reserved = Reserve, row'[d].month = m, row'[d].cost = row[d].cost,
         \A e \in Decisions \ {d} : /\ row'[e].cost = row[e].cost
                                    /\ row'[e].reserved = row[e].reserved
                                    /\ row'[e].month = row[e].month,
         budget' = [budget EXCEPT ![m].held = @ + Reserve]
  PROVE  budget' \in Budgets /\ BudgetBalanced' /\ WithinLimit'
<1>1. \A e \in Decisions : Reserved[e] \in Nat /\ Reserved'[e] \in Nat
  BY Constants DEF Reserved, Amounts
<1>2. ASSUME NEW n \in Months
      PROVE  /\ budget[n].spent \in Nat /\ budget[n].held \in Nat
             /\ budget'[n].spent = budget[n].spent
             /\ budget'[n].held = budget[n].held + IF n = m THEN Reserve ELSE 0
             /\ budget'[n] \in [spent : Nat, held : Nat]
  BY Constants DEF Budgets
<1>3. budget' \in Budgets
  BY <1>2 DEF Budgets
<1>4. ASSUME NEW n \in Months
      PROVE  Total(Reserved', OfMonth(n)')
               = Total(Reserved, OfMonth(n)) + IF n = m THEN Reserve ELSE 0
  <2> DEFINE Rest == OfMonth(n) \ {d}
  <2>1. /\ OfMonth(n) \subseteq Decisions /\ OfMonth(n)' \subseteq Decisions
        /\ IsFiniteSet(OfMonth(n)) /\ IsFiniteSet(OfMonth(n)')
    <3>1. OfMonth(n) \subseteq Decisions /\ OfMonth(n)' \subseteq Decisions
      BY DEF OfMonth
    <3> QED BY <3>1, Constants, FS_Subset
  <2>2. OfMonth(n)' = IF n = m THEN Rest \cup {d} ELSE Rest
    BY DEF OfMonth
  <2>3. Total(Reserved', Rest) = Total(Reserved, Rest)
    <3>1. \A e \in Rest : Reserved'[e] = Reserved[e]
      BY DEF Reserved, OfMonth
    <3> QED BY <3>1, TotalSame
  <2>4. Total(Reserved, OfMonth(n)) = Total(Reserved, Rest) /\ Total(Reserved, Rest) \in Nat
    <3>1. /\ Total(Reserved, OfMonth(n)) = Total(Reserved, Rest) + Total(Reserved, OfMonth(n) \ Rest)
          /\ Total(Reserved, Rest) \in Nat
      BY <1>1, <2>1, TotalSplit
    <3>2. \A e \in OfMonth(n) \ Rest : Reserved[e] = 0
      BY DEF Reserved
    <3>3. Total(Reserved, OfMonth(n) \ Rest) = 0
      BY <3>2, TotalZero
    <3> QED BY <3>1, <3>3
  <2>5. CASE n = m
    <3>1. Rest \subseteq OfMonth(n)' /\ OfMonth(n)' \ Rest = {d}
      BY <2>2, <2>5
    <3>2. \A e \in OfMonth(n)' : Reserved'[e] \in Nat
      BY <1>1, <2>1
    <3>3. Total(Reserved', OfMonth(n)') = Total(Reserved', Rest) + Total(Reserved', OfMonth(n)' \ Rest)
      BY <2>1, <3>1, <3>2, TotalSplit
    <3>4. Reserved'[d] = Reserve
      BY DEF Reserved
    <3>5. Total(Reserved', {d}) = Reserve
      BY <1>1, <3>4, TotalOne
    <3> QED BY <2>3, <2>4, <2>5, <3>1, <3>3, <3>5
  <2>6. CASE n # m
    BY <2>2, <2>3, <2>4, <2>6
  <2> QED BY <2>5, <2>6
<1>5. Costed' = Costed /\ [n \in Months |-> budget'[n].spent] = [n \in Months |-> budget[n].spent]
  BY <1>2 DEF Costed
<1>6. BudgetBalanced'
  BY <1>2, <1>4, <1>5 DEF BudgetBalanced
<1>7. WithinLimit'
  <2> SUFFICES ASSUME NEW n \in Months
               PROVE  budget'[n].spent + budget'[n].held <= MonthlyLimit
    BY DEF WithinLimit
  <2>1. /\ budget[n].spent + budget[n].held <= MonthlyLimit
        /\ budget[m].spent + budget[m].held + Reserve <= MonthlyLimit
    BY DEF WithinLimit, Fits
  <2> QED BY <1>2, <2>1, Constants
<1> QED BY <1>3, <1>6, <1>7

-----------------------------------------------------------------------------
(* Bills, rows and processes *)

RowType ==
  [status : Statuses, attempts : 0..MaxAttempts, token : 0..MaxAttempts,
   leaseEnd : Nat, dueAt : Nat, month : Months, reserved : {0, Reserve},
   cost : Nat, auth : BOOLEAN]
WorkType ==
  [pc : {"idle", "list", "next", "request", "settle"}, tick : Nat,
   queue : SUBSET Decisions, item : Decisions \cup {0}, claim : 0..MaxAttempts,
   began : Nat, finished : Nat, answer : Answers \cup {NoAnswer},
   model : Models, circuit : BOOLEAN]

\* TypeOK in terms of the record types.
LEMMA TypeParts ==
  TypeOK <=> /\ now \in 0..MaxTime /\ row \in [Decisions -> RowType] /\ budget \in Budgets
             /\ alert \in [Alerts -> Decisions \cup {0}] /\ work \in [Workers -> WorkType]
             /\ billed \in [Decisions -> Nat] /\ rejected \in [Workers -> Nat]
BY DEF TypeOK, RowType, WorkType, Budgets

\* The processes asking about a decision can be counted.
LEMMA AskingFinite ==
  ASSUME NEW d
  PROVE  IsFiniteSet(Asking(d)) /\ Cardinality(Asking(d)) \in Nat
<1>1. Asking(d) \subseteq Workers
  BY DEF Asking
<1> QED BY <1>1, Constants, FS_Subset, FS_CardinalityType

\* What a decision has cost or will cost is a number.
LEMMA BillType ==
  ASSUME TypeOK, NEW d \in Decisions
  PROVE  Bill(d) \in Nat
<1>1. billed[d] \in Nat
  BY DEF TypeOK
<1>2. \A n \in Nat : Reserve * n \in Nat
  BY Constants
<1> QED BY <1>1, <1>2, AskingFinite DEF Bill

\* The same of the next state.
LEMMA BillTypeNext ==
  ASSUME TypeOK', NEW d \in Decisions
  PROVE  Bill(d)' \in Nat
<1>1. Asking(d)' \subseteq Workers
  BY DEF Asking
<1>2. Cardinality(Asking(d)') \in Nat
  BY <1>1, Constants, FS_Subset, FS_CardinalityType
<1>3. billed'[d] \in Nat
  BY DEF TypeOK
<1>4. \A n \in Nat : Reserve * n \in Nat
  BY Constants
<1> QED BY <1>2, <1>3, <1>4 DEF Bill

\* A decision for which the same processes ask and nothing is charged.
LEMMA BillSame ==
  ASSUME NEW d, billed'[d] = billed[d], Asking(d)' = Asking(d)
  PROVE  Bill(d)' = Bill(d)
BY DEF Bill

\* The request of one process ends, at a charge.
LEMMA BillPaid ==
  ASSUME TypeOK, NEW d \in Decisions, NEW w \in Asking(d), Asking(d)' = Asking(d) \ {w},
         NEW charge \in 0..Reserve, billed'[d] = billed[d] + charge
  PROVE  Bill(d)' = Bill(d) - Reserve + charge
<1> DEFINE n == Cardinality(Asking(d))
<1>1. n \in Nat /\ Cardinality(Asking(d)') = n - 1
  BY AskingFinite, FS_RemoveElement
<1>2. Reserve * (n - 1) = Reserve * n - Reserve /\ Reserve * n \in Int
  BY <1>1, Constants
<1>3. billed[d] \in Nat /\ charge \in Nat
  BY Constants DEF TypeOK
<1>4. Bill(d)' = billed[d] + charge + Reserve * (n - 1)
  BY <1>1 DEF Bill
<1>5. Bill(d) = billed[d] + Reserve * n
  BY DEF Bill
<1> HIDE DEF n
<1> QED BY <1>2, <1>3, <1>4, <1>5, Constants

\* Another request begins.
LEMMA BillRaised ==
  ASSUME TypeOK, NEW d \in Decisions, NEW w, w \notin Asking(d),
         Asking(d)' = Asking(d) \cup {w}, billed'[d] = billed[d]
  PROVE  Bill(d)' = Bill(d) + Reserve
<1> DEFINE n == Cardinality(Asking(d))
<1>1. n \in Nat /\ Cardinality(Asking(d)') = n + 1
  BY AskingFinite, FS_AddElement
<1>2. Reserve * (n + 1) = Reserve * n + Reserve /\ Reserve * n \in Int
  BY <1>1, Constants
<1>3. billed[d] \in Nat
  BY DEF TypeOK
<1>4. Bill(d)' = billed[d] + Reserve * (n + 1)
  BY <1>1 DEF Bill
<1>5. Bill(d) = billed[d] + Reserve * n
  BY DEF Bill
<1> HIDE DEF n
<1> QED BY <1>2, <1>3, <1>4, <1>5, Constants

\* No claim of the row's former attempts is good after a step unless it was good
\* before, and then the row and the bill stay as they are.
Kept(d) ==
  /\ row[d].attempts <= row'[d].attempts
  /\ row'[d].status = "assessing" /\ row'[d].token <= row[d].attempts =>
       /\ row[d].status = "assessing" /\ row'[d].token = row[d].token
       /\ row'[d].cost = row[d].cost /\ Bill(d)' <= Bill(d)

Same(v) == work'[v] = work[v] /\ rejected'[v] = rejected[v]

\* A process that does not move keeps its invariant.
LEMMA WorkerKept ==
  ASSUME TypeOK, TypeOK', NEW v \in Workers, WorkerInv(v), Same(v), now <= now',
         \A d \in Decisions : Kept(d)
  PROVE  WorkerInv(v)'
<1>0. PICK d : d = work[v].item
  OBVIOUS
<1>1. /\ now \in Int /\ now' \in Int /\ work[v] \in WorkType
      /\ work[v].tick \in Nat /\ work[v].began \in Nat /\ work[v].claim \in Int
      /\ work[v].answer \in Answers \cup {NoAnswer}
  BY TypeParts DEF WorkType, TypeOK
<1>2. work[v].tick <= now /\ work[v].tick <= now'
  BY <1>1 DEF WorkerInv
<1>3. CASE ~Claiming(v)
  BY <1>2, <1>3 DEF WorkerInv, Same, Claiming
<1>4. CASE Claiming(v)
  <2>1. d \in Decisions /\ work[v].claim <= row[d].attempts /\ work[v].began <= now
        /\ ~work[v].circuit
    BY <1>0, <1>4 DEF WorkerInv
  <2>2. Kept(d) /\ row[d].attempts \in Int /\ row'[d].attempts \in Int
        /\ row[d].cost \in Nat
    BY <2>1, TypeParts DEF RowType, TypeOK
  <2>3. work[v].claim <= row'[d].attempts /\ work[v].began <= now'
    BY <1>1, <2>1, <2>2 DEF Kept
  <2>4. Holds(v, d)' => Holds(v, d) /\ row'[d].cost = row[d].cost /\ Bill(d)' <= Bill(d)
    BY <1>4, <2>1, <2>2 DEF Holds, Kept, Same, Claiming
  <2>5. ASSUME work[v].pc = "settle", Holds(v, d)', work[v].answer.cost # -1
        PROVE  Bill(d)' <= row'[d].cost + work[v].answer.cost
    <3>1. Bill(d) <= row[d].cost + work[v].answer.cost
      BY <1>0, <2>4, <2>5 DEF WorkerInv
    <3>2. Bill(d) \in Nat /\ Bill(d)' \in Nat
      BY <2>1, BillType, BillTypeNext
    <3>3. work[v].answer.cost \in Int
      <4>1. work[v].answer \in Outcomes
        BY <2>5 DEF WorkerInv
      <4> QED BY <4>1, Constants DEF Outcomes
    <3> QED BY <2>2, <2>4, <2>5, <3>1, <3>2, <3>3
  <2>6. /\ rejected'[v] \in {0, 1}
        /\ rejected'[v] = 1 => work'[v].pc = "settle" /\ work'[v].answer.kind = "auth"
    BY <2>1 DEF WorkerInv, Same
  <2>7. work'[v].pc = "settle" => work'[v].answer \in Outcomes
    BY DEF WorkerInv, Same
  <2>8. work'[v] = work[v] /\ work'[v].item = d
    BY <1>0 DEF Same
  <2>9. ~work'[v].circuit
    BY <2>1, <2>8
  <2> QED BY <1>2, <2>1, <2>3, <2>5, <2>6, <2>7, <2>8, <2>9 DEF WorkerInv
<1> QED BY <1>3, <1>4

\* A step of one process that takes no claim.
LEMMA StepKeeps ==
  ASSUME IInv, TypeOK', NEW w \in Workers, now <= now',
         \A v \in Workers \ {w} : Same(v),
         WorkerInv(w)', Claiming(w)' => /\ Claiming(w) /\ work'[w].item = work[w].item
                                        /\ work'[w].claim = work[w].claim,
         \A d \in Decisions : Kept(d) /\ RowInv(d)',
         BudgetBalanced', WithinLimit', AlertIsDecided'
  PROVE  IInv'
<1>1. \A v \in Workers : WorkerInv(v)'
  BY WorkerKept DEF IInv
<1>2. OneHolder'
  BY DEF IInv, OneHolder, Claiming, Same
<1> QED BY <1>1, <1>2 DEF IInv

\* A row that stays as it is, while its bill does not grow.
LEMMA RowKept ==
  ASSUME TypeOK, TypeOK', NEW d \in Decisions, RowInv(d), row'[d] = row[d], Bill(d)' <= Bill(d)
  PROVE  Kept(d) /\ RowInv(d)'
<1>1. /\ row[d].attempts \in Int /\ row[d].cost \in Nat /\ row[d].reserved \in Nat
      /\ Bill(d) \in Nat /\ Bill(d)' \in Nat
  BY BillType, BillTypeNext, AmountsType, TypeParts DEF RowType, Amounts
<1> QED BY <1>1 DEF Kept, RowInv

\* A step that changes no row and no budget.
LEMMA WorkOnly ==
  ASSUME IInv, TypeOK', NEW w \in Workers, UNCHANGED <<now, row, budget, alert>>,
         \A v \in Workers \ {w} : Same(v),
         WorkerInv(w)', Claiming(w)' => /\ Claiming(w) /\ work'[w].item = work[w].item
                                        /\ work'[w].claim = work[w].claim,
         \A d \in Decisions : Bill(d)' <= Bill(d)
  PROVE  IInv'
<1>1. now \in Int /\ now <= now'
  BY DEF IInv, TypeOK
<1>2. \A d \in Decisions : Kept(d) /\ RowInv(d)'
  BY RowKept DEF IInv
<1>3. BudgetBalanced' /\ WithinLimit'
  BY BooksKept DEF IInv
<1>4. AlertIsDecided'
  BY DEF IInv, AlertIsDecided
<1> QED BY <1>1, <1>2, <1>3, <1>4, StepKeeps

-----------------------------------------------------------------------------
(* Steps of a process on its own *)

\* A process between two ticks.
LEMMA IdleType ==
  ASSUME NEW m \in Models, NEW b \in BOOLEAN
  PROVE  /\ Idle(m, b) \in WorkType
         /\ Idle(m, b).pc = "idle" /\ Idle(m, b).tick = 0 /\ Idle(m, b).circuit = b
<1>1. 0 \in 0..MaxAttempts /\ 0 \in Nat
  BY Constants
<1> QED BY <1>1 DEF Idle, WorkType

\* The fields of a process's place.
LEMMA WorkParts ==
  ASSUME TypeOK, NEW w \in Workers
  PROVE  /\ work[w] \in WorkType
         /\ work[w].pc \in {"idle", "list", "next", "request", "settle"}
         /\ work[w].tick \in Nat /\ work[w].queue \in SUBSET Decisions
         /\ work[w].item \in Decisions \cup {0} /\ work[w].claim \in 0..MaxAttempts
         /\ work[w].began \in Nat /\ work[w].finished \in Nat
         /\ work[w].answer \in Answers \cup {NoAnswer}
         /\ work[w].model \in Models /\ work[w].circuit \in BOOLEAN
BY TypeParts DEF WorkType

\* The fields of a row.
LEMMA RowParts ==
  ASSUME TypeOK, NEW d \in Decisions
  PROVE  /\ row[d] \in RowType
         /\ row[d].status \in Statuses /\ row[d].attempts \in 0..MaxAttempts
         /\ row[d].token \in 0..MaxAttempts /\ row[d].leaseEnd \in Nat /\ row[d].dueAt \in Nat
         /\ row[d].month \in Months /\ row[d].reserved \in {0, Reserve}
         /\ row[d].cost \in Nat /\ row[d].auth \in BOOLEAN
BY TypeParts DEF RowType

\* When only one process moves, and has no request on its way afterwards, a bill
\* grows by no more than its request accounted for.
LEMMA BillsFall ==
  ASSUME TypeOK, NEW w \in Workers, \A v \in Workers \ {w} : work'[v] = work[v],
         work'[w].pc # "request", NEW d \in Decisions,
         \/ billed'[d] = billed[d]
         \/ /\ w \in Asking(d)
            /\ \E charge \in 0..Reserve : billed'[d] = billed[d] + charge
  PROVE  Bill(d)' <= Bill(d)
<1>1. Asking(d)' = Asking(d) \ {w}
  BY DEF Asking
<1>2. CASE w \in Asking(d)
  <2>1. billed[d] \in Nat
    BY DEF TypeOK
  <2>2. billed[d] = billed[d] + 0 /\ 0 \in 0..Reserve
    BY <2>1, Constants
  <2>3. PICK charge \in 0..Reserve : billed'[d] = billed[d] + charge
    BY <2>2
  <2>4. Bill(d)' = Bill(d) - Reserve + charge /\ Bill(d) \in Nat
    BY <1>1, <1>2, <2>3, BillPaid, BillType
  <2> QED BY <2>4, Constants
<1>3. CASE w \notin Asking(d)
  <2>1. billed'[d] = billed[d] /\ Asking(d)' = Asking(d)
    BY <1>1, <1>3
  <2>2. Bill(d)' = Bill(d) /\ Bill(d) \in Nat
    BY <2>1, BillSame, BillType
  <2> QED BY <2>2
<1> QED BY <1>2, <1>3

\* A process whose key was rejected has its circuit open, or will have it opened by
\* the answer it holds.
LEMMA CircuitOpens ==
  ASSUME IInv, NEW w \in Workers, rejected[w] = 1
  PROVE  IF work[w].pc = "settle" THEN AnsweredCircuit(w) ELSE work[w].circuit
<1>1. WorkerInv(w)
  BY DEF IInv
<1> QED BY <1>1 DEF WorkerInv, AnsweredCircuit, Claiming

\* A process that is left without a claim, and that keeps the circuit.
LEMMA Frees ==
  ASSUME IInv, NEW w \in Workers, UNCHANGED <<now, row, budget, alert, billed, rejected>>,
         work' \in [Workers -> WorkType], \A v \in Workers \ {w} : work'[v] = work[v],
         work'[w].pc \in {"idle", "list", "next"}, work'[w].tick <= now,
         rejected[w] = 1 => work'[w].circuit
  PROVE  IInv'
<1>1. TypeOK'
  BY DEF IInv, TypeOK, WorkType
<1>2. WorkerInv(w)'
  BY DEF IInv, WorkerInv, Claiming
<1>3. ~Claiming(w)' /\ \A v \in Workers \ {w} : Same(v)
  BY DEF Claiming, Same
<1>4. \A d \in Decisions : Bill(d)' <= Bill(d)
  BY BillsFall DEF IInv
<1> QED BY <1>1, <1>2, <1>3, <1>4, WorkOnly

\* ListDue keeps the invariant.
LEMMA ListDueStep ==
  ASSUME IInv, NEW w \in Workers, ListDue(w)
  PROVE  IInv'
<1>0. TypeOK /\ WorkerInv(w) /\ now \in Nat
  BY DEF IInv, TypeOK
<1>1. work[w] \in WorkType /\ work[w].model \in Models /\ work[w].pc = "list"
  BY <1>0, WorkParts DEF ListDue
<1>2. rejected[w] = 1 => work[w].circuit
  BY <1>1, CircuitOpens
<1>3. /\ work' \in [Workers -> WorkType] /\ \A v \in Workers \ {w} : work'[v] = work[v]
      /\ work'[w].pc \in {"idle", "list", "next"} /\ work'[w].tick <= now
      /\ rejected[w] = 1 => work'[w].circuit
  <2>1. CASE work[w].circuit
    <3>1. work' = [work EXCEPT ![w] = Idle(work[w].model, TRUE)]
      BY <2>1 DEF ListDue
    <3> DEFINE r == Idle(work[w].model, TRUE)
    <3>2. r \in WorkType /\ r.pc = "idle" /\ r.tick = 0 /\ r.circuit
      BY <1>1, IdleType
    <3>3. work' \in [Workers -> WorkType] /\ work'[w] = r
          /\ \A v \in Workers \ {w} : work'[v] = work[v]
      BY <1>0, <3>1, <3>2, TypeParts
    <3> HIDE DEF r
    <3> QED BY <1>0, <3>2, <3>3
  <2>2. CASE ~work[w].circuit
    <3>1. PICK Q \in SUBSET Decisions :
             work' = [work EXCEPT ![w] = [work[w] EXCEPT !.pc = "next", !.queue = Q]]
      <4>1. work' = [work EXCEPT ![w].pc = "next",
                       ![w].queue = {d \in Decisions : /\ Model[d] = work[w].model
                                                       /\ Claimable(d, work[w].tick)
                                                       /\ work[w].tick <= Horizon}]
        BY <2>2 DEF ListDue
      <4> QED BY <1>0, <4>1, TypeParts
    <3>2. [work[w] EXCEPT !.pc = "next", !.queue = Q] \in WorkType
      BY <1>1 DEF WorkType
    <3>3. work'[w] = [work[w] EXCEPT !.pc = "next", !.queue = Q]
      BY <1>0, <3>1, TypeParts
    <3>4. work'[w].pc = "next" /\ work'[w].tick = work[w].tick /\ work'[w].circuit = work[w].circuit
      BY <1>1, <3>3 DEF WorkType
    <3> QED BY <1>0, <1>2, <3>1, <3>2, <3>4, TypeParts DEF WorkerInv
  <2> QED BY <2>1, <2>2
<1> QED BY <1>3, Frees DEF ListDue

\* EndTick keeps the invariant.
LEMMA EndTickStep ==
  ASSUME IInv, NEW w \in Workers, EndTick(w)
  PROVE  IInv'
<1>0. TypeOK /\ WorkerInv(w) /\ now \in Nat
  BY DEF IInv, TypeOK
<1>1. /\ work[w] \in WorkType /\ work[w].model \in Models /\ work[w].circuit \in BOOLEAN
      /\ work[w].pc = "next"
  BY <1>0, WorkParts DEF EndTick
<1>2. rejected[w] = 1 => work[w].circuit
  BY <1>1, CircuitOpens
<1>3. work' = [work EXCEPT ![w] = Idle(work[w].model, work[w].circuit)]
  BY DEF EndTick
<1>4. /\ work' \in [Workers -> WorkType] /\ \A v \in Workers \ {w} : work'[v] = work[v]
      /\ work'[w].pc \in {"idle", "list", "next"} /\ work'[w].tick <= now
      /\ rejected[w] = 1 => work'[w].circuit
  BY <1>0, <1>1, <1>2, <1>3, IdleType, TypeParts
<1> QED BY <1>4, Frees DEF EndTick

\* A due row that is not claimed is left as it is.
LEMMA UnclaimedStep ==
  ASSUME IInv, NEW w \in Workers, NEW d \in Decisions, Unclaimed(w, d)
  PROVE  IInv'
<1>0. TypeOK /\ WorkerInv(w) /\ now \in Nat
  BY DEF IInv, TypeOK
<1>1. work[w] \in WorkType /\ work[w].pc = "next" /\ work[w].queue \in SUBSET Decisions
  BY <1>0, WorkParts DEF Unclaimed, Take
<1>2. rejected[w] = 1 => work[w].circuit
  BY <1>1, CircuitOpens
<1>3. /\ work' \in [Workers -> WorkType] /\ \A v \in Workers \ {w} : work'[v] = work[v]
      /\ work'[w] = [work[w] EXCEPT !.queue = work[w].queue \ {d}]
  <2>1. [work[w] EXCEPT !.queue = work[w].queue \ {d}] \in WorkType
    BY <1>1 DEF WorkType
  <2> QED BY <1>0, <2>1, TypeParts DEF Unclaimed
<1>4. work'[w].pc = "next" /\ work'[w].tick = work[w].tick /\ work'[w].circuit = work[w].circuit
  BY <1>1, <1>3 DEF WorkType
<1>5. work[w].tick <= now
  BY <1>0 DEF WorkerInv
<1> QED BY <1>2, <1>3, <1>4, <1>5, Frees DEF Unclaimed

\* TickFails keeps the invariant.
LEMMA TickFailsStep ==
  ASSUME IInv, NEW w \in Workers, TickFails(w)
  PROVE  IInv'
<1>0. TypeOK /\ WorkerInv(w) /\ now \in Nat
  BY DEF IInv, TypeOK
<1>1. /\ work[w] \in WorkType /\ work[w].model \in Models /\ work[w].circuit \in BOOLEAN
  BY <1>0, WorkParts
<1> DEFINE b == IF work[w].pc = "settle" THEN AnsweredCircuit(w) ELSE work[w].circuit
<1>2. b \in BOOLEAN /\ (rejected[w] = 1 => b)
  BY <1>1, CircuitOpens DEF AnsweredCircuit
<1>3. work' = [work EXCEPT ![w] = Idle(work[w].model, b)]
  BY DEF TickFails
<1> HIDE DEF b
<1>4. /\ work' \in [Workers -> WorkType] /\ \A v \in Workers \ {w} : work'[v] = work[v]
      /\ work'[w].pc \in {"idle", "list", "next"} /\ work'[w].tick <= now
      /\ rejected[w] = 1 => work'[w].circuit
  BY <1>0, <1>1, <1>2, <1>3, IdleType, TypeParts
<1> QED BY <1>4, Frees DEF TickFails

\* A restart of a process keeps the invariant.
LEMMA RestartStep ==
  ASSUME IInv, NEW w \in Workers, Restart(w)
  PROVE  IInv'
<1>0. TypeOK /\ WorkerInv(w) /\ now \in Nat
  BY DEF IInv, TypeOK
<1>1. PICK m \in Models : work' = [work EXCEPT ![w] = Idle(m, FALSE)]
  BY DEF Restart
<1>2. /\ work' \in [Workers -> WorkType] /\ \A v \in Workers \ {w} : work'[v] = work[v]
      /\ work'[w].pc = "idle" /\ work'[w].tick = 0
  BY <1>0, <1>1, IdleType, TypeParts
<1>3. \A d \in Decisions :
        \/ billed'[d] = billed[d]
        \/ /\ w \in Asking(d)
           /\ \E charge \in {0, Reserve} : billed'[d] = billed[d] + charge
  BY <1>0, TypeParts DEF Restart, Asking
<1>4. billed' \in [Decisions -> Nat]
  <2>1. CASE work[w].pc = "request"
    <3>1. PICK charge \in {0, Reserve} :
             billed' = [billed EXCEPT ![work[w].item] = @ + charge]
      BY <2>1 DEF Restart
    <3>2. charge \in Nat
      BY Constants
    <3>3. \A n \in Nat : n + charge \in Nat
      BY <3>2
    <3>4. billed \in [Decisions -> Nat]
      BY <1>0, TypeParts
    <3> QED BY <3>1, <3>3, <3>4
  <2>2. CASE work[w].pc # "request"
    BY <1>0, <2>2, TypeParts DEF Restart
  <2> QED BY <2>1, <2>2
<1>5. rejected' = [rejected EXCEPT ![w] = 0] /\ UNCHANGED <<now, row, budget, alert>>
  BY DEF Restart
<1>6. rejected' \in [Workers -> Nat] /\ rejected'[w] = 0
      /\ \A v \in Workers \ {w} : rejected'[v] = rejected[v]
  BY <1>0, <1>5, TypeParts
<1>7. TypeOK'
  BY <1>0, <1>2, <1>4, <1>5, <1>6 DEF TypeOK, WorkType
<1>8. WorkerInv(w)'
  BY <1>0, <1>2, <1>5, <1>6 DEF WorkerInv, Claiming
<1>9. ASSUME NEW d \in Decisions PROVE Bill(d)' <= Bill(d)
  <2>1. {0, Reserve} \subseteq 0..Reserve
    BY Constants
  <2> QED BY <1>0, <1>2, <1>3, <2>1, BillsFall
<1>10. ~Claiming(w)' /\ \A v \in Workers \ {w} : Same(v)
  BY <1>2, <1>6 DEF Claiming, Same
<1> QED BY <1>5, <1>7, <1>8, <1>9, <1>10, WorkOnly

\* The answer arrives: what it cost is known, or anything up to the reservation.
LEMMA RespondStep ==
  ASSUME IInv, NEW w \in Workers, Respond(w)
  PROVE  IInv'
<1>0. TypeOK /\ WorkerInv(w) /\ now \in Nat
  BY DEF IInv, TypeOK
<1>1. PICK answer \in Outcomes :
        /\ work' = [work EXCEPT ![w].pc = "settle", ![w].answer = answer, ![w].began = 0,
                                ![w].finished = work[w].tick + (now - work[w].began)]
        /\ \E charge \in Charges(answer) :
             billed' = [billed EXCEPT ![work[w].item] = @ + charge]
        /\ rejected' = [rejected EXCEPT ![w] = @ + IF answer.kind = "auth" THEN 1 ELSE 0]
  BY DEF Respond
<1>2. PICK charge \in Charges(answer) :
        billed' = [billed EXCEPT ![work[w].item] = @ + charge]
  BY <1>1
<1>3. PICK d : d = work[w].item
  OBVIOUS
<1>4. /\ work[w].pc = "request" /\ d \in Decisions /\ work[w].claim <= row[d].attempts
      /\ work[w].began <= now /\ ~work[w].circuit /\ work[w].tick <= now
      /\ rejected[w] = 0
  BY <1>0, <1>3 DEF WorkerInv, Claiming, Respond
<1>5. /\ work[w].tick \in Nat /\ work[w].began \in Nat /\ work[w] \in WorkType
  BY <1>0, WorkParts
<1>6. /\ charge \in 0..Reserve
      /\ answer.cost # -1 => charge = answer.cost /\ answer.cost \in 0..Reserve
      /\ answer \in Answers
  BY <1>2, Constants DEF Charges, Outcomes, Answers
<1>7. work'[w] = [work[w] EXCEPT !.pc = "settle", !.answer = answer, !.began = 0,
                                 !.finished = work[w].tick + (now - work[w].began)]
  BY <1>0, <1>1, TypeParts
<1>8. /\ work'[w].pc = "settle" /\ work'[w].answer = answer /\ work'[w].began = 0
      /\ work'[w].item = d /\ work'[w].claim = work[w].claim /\ work'[w].tick = work[w].tick
      /\ work'[w].circuit = work[w].circuit
  BY <1>3, <1>5, <1>7 DEF WorkType
<1>9. work[w].tick + (now - work[w].began) \in Nat
  BY <1>0, <1>4, <1>5
<1>10. work' \in [Workers -> WorkType] /\ \A v \in Workers \ {w} : work'[v] = work[v]
  <2>1. work'[w] \in WorkType
    <3>1. PICK t \in Nat : t = work[w].tick + (now - work[w].began)
      BY <1>9
    <3>2. answer \in Answers \cup {NoAnswer} /\ 0 \in Nat
      BY <1>6
    <3>3. [work[w] EXCEPT !.pc = "settle", !.answer = answer, !.began = 0, !.finished = t]
            \in WorkType
      BY <1>5, <3>2 DEF WorkType
    <3> QED BY <1>7, <3>1, <3>3
  <2> QED BY <1>0, <1>1, <2>1, TypeParts
<1>11. /\ billed'[d] = billed[d] + charge /\ billed[d] \in Nat
       /\ billed' \in [Decisions -> Nat] /\ \A e \in Decisions \ {d} : billed'[e] = billed[e]
  BY <1>0, <1>2, <1>3, <1>4, <1>6, TypeParts
<1>12. /\ rejected' \in [Workers -> Nat] /\ rejected'[w] = IF answer.kind = "auth" THEN 1 ELSE 0
       /\ \A v \in Workers \ {w} : rejected'[v] = rejected[v]
  BY <1>0, <1>1, <1>4, TypeParts
<1>13. UNCHANGED <<now, row, budget, alert>>
  BY DEF Respond
<1>14. TypeOK'
  BY <1>0, <1>10, <1>11, <1>12, <1>13 DEF TypeOK, WorkType
<1>15. w \in Asking(d)
  BY <1>3, <1>4 DEF Asking
<1>16. \A e \in Decisions : Bill(e)' <= Bill(e)
  BY <1>0, <1>6, <1>8, <1>10, <1>11, <1>15, BillsFall
<1>17. ASSUME Holds(w, d)', answer.cost # -1
       PROVE  Bill(d)' <= row[d].cost + answer.cost
  <2>1. row[d].status = "assessing"
    BY <1>13, <1>17 DEF Holds
  <2>2. Bill(d) <= row[d].cost + Reserve
    BY <1>4, <2>1 DEF IInv, RowInv
  <2>3. Asking(d)' = Asking(d) \ {w}
    BY <1>8, <1>10 DEF Asking
  <2>4. Bill(d)' = Bill(d) - Reserve + charge /\ Bill(d) \in Nat
    BY <1>0, <1>4, <1>6, <1>11, <1>15, <2>3, BillPaid, BillType
  <2>5. row[d].cost \in Nat
    BY <1>0, <1>4, RowParts
  <2> QED BY <1>6, <1>17, <2>2, <2>4, <2>5, Constants
<1>18. WorkerInv(w)'
  BY <1>4, <1>8, <1>12, <1>13, <1>17, Constants DEF WorkerInv, IInv, TypeOK
<1>19. \A v \in Workers \ {w} : Same(v)
  BY <1>10, <1>12 DEF Same
<1>20. Claiming(w) /\ work'[w].item = work[w].item /\ work'[w].claim = work[w].claim
  BY <1>3, <1>4, <1>8 DEF Claiming
<1> QED BY <1>13, <1>14, <1>16, <1>18, <1>19, <1>20, WorkOnly

-----------------------------------------------------------------------------
(* Steps on the rows *)

\* Rows that were completed or blocked stay.
LEMMA DecidedAlerts ==
  ASSUME IInv, DecidedStep, UNCHANGED alert
  PROVE  AlertIsDecided'
<1> SUFFICES ASSUME NEW a \in Alerts, alert'[a] # 0
             PROVE  row'[alert'[a]].status = "completed"
  BY DEF AlertIsDecided
<1>1. PICK d : d = alert[a]
  OBVIOUS
<1>2. d \in Decisions /\ row[d].status = "completed"
  BY <1>1 DEF IInv, TypeOK, AlertIsDecided
<1> QED BY <1>1, <1>2 DEF DecidedStep

\* What a recovery makes of a row, when a new decision may be prepared at the same
\* time.
Recovers(d) ==
  \/ row'[d] = RecoveredRow[d]
  \/ row[d].status = "absent" /\ row'[d] = [Unlisted EXCEPT !.status = "pending"]

\* What a recovery makes of one row.
LEMMA RecoveredParts ==
  ASSUME TypeOK, NEW d \in Decisions, RowInv(d), Recovers(d)
  PROVE  /\ row'[d] \in RowType /\ row'[d].attempts = row[d].attempts
         /\ row'[d].cost = row[d].cost + IF d \in Abandoned THEN CostOf(d, -1) ELSE 0
         /\ row'[d].reserved = IF d \in Abandoned THEN 0 ELSE row[d].reserved
         /\ row'[d].month = row[d].month
         /\ d \in Abandoned => row[d].status = "assessing" /\ row'[d].status = "failed"
         /\ d \notin Abandoned /\ row[d].status # "absent" => row'[d] = row[d]
         /\ row[d].status = "absent" => row'[d].status \in {"absent", "pending"}
<1>1. row[d] \in RowType /\ row[d].cost \in Nat /\ row[d].reserved \in {0, Reserve}
      /\ now \in Nat /\ row[d].reserved \in Nat
  BY RowParts, Constants DEF TypeOK
<1>2. CASE d \in Abandoned
  <2>1. row[d].status = "assessing"
    BY <1>2 DEF Abandoned
  <2>2. row'[d] = [SettledRow(d, -1) EXCEPT !.status = "failed", !.dueAt = now,
                                            !.token = 0, !.leaseEnd = 0]
    BY <1>2, <2>1 DEF Recovers, RecoveredRow
  <2>3. PICK e \in Nat : e = row[d].cost + CostOf(d, -1)
    BY <1>1 DEF CostOf
  <2>4. SettledRow(d, -1) = [row[d] EXCEPT !.cost = e, !.reserved = 0]
    BY <1>1, <2>3 DEF SettledRow, RowType
  <2>5. PICK r : r = SettledRow(d, -1)
    OBVIOUS
  <2>6. /\ r \in RowType /\ r.cost = e /\ r.reserved = 0 /\ r.month = row[d].month
        /\ r.attempts = row[d].attempts
    BY <1>1, <2>4, <2>5 DEF RowType
  <2>7. row'[d] = [r EXCEPT !.status = "failed", !.dueAt = now, !.token = 0, !.leaseEnd = 0]
    BY <2>2, <2>5
  <2>8. 0 \in Nat /\ 0 \in 0..MaxAttempts /\ "failed" \in Statuses
    BY Constants DEF Statuses
  <2>9. row'[d] \in RowType
    BY <1>1, <2>6, <2>7, <2>8 DEF RowType
  <2>10. /\ row'[d].status = "failed" /\ row'[d].cost = e /\ row'[d].reserved = 0
         /\ row'[d].month = row[d].month /\ row'[d].attempts = row[d].attempts
    BY <2>6, <2>7 DEF RowType
  <2> QED BY <1>2, <2>1, <2>3, <2>9, <2>10
<1>3. CASE d \notin Abandoned
  <2>1. CASE row'[d] = row[d]
    <3>1. row[d].cost = row[d].cost + 0
      BY <1>1
    <3> QED BY <1>1, <1>3, <2>1, <3>1
  <2>2. CASE row[d].status = "absent" /\ row'[d] = [Unlisted EXCEPT !.status = "pending"]
    <3>1. row[d] = Unlisted
      BY <2>2 DEF RowInv
    <3>2. row'[d] = [row[d] EXCEPT !.status = "pending"] /\ "pending" \in Statuses
      BY <2>2, <3>1 DEF Statuses
    <3>3. row'[d] \in RowType
      BY <1>1, <3>2 DEF RowType
    <3>4. /\ row'[d].status = "pending" /\ row'[d].cost = row[d].cost
          /\ row'[d].reserved = row[d].reserved
          /\ row'[d].month = row[d].month /\ row'[d].attempts = row[d].attempts
      BY <1>1, <3>2 DEF RowType
    <3>5. row[d].cost = row[d].cost + 0
      BY <1>1
    <3> QED BY <1>3, <2>2, <3>3, <3>4, <3>5
  <2>3. RecoveredRow[d] = row[d]
    BY <1>3 DEF RecoveredRow
  <2> QED BY <2>1, <2>2, <2>3 DEF Recovers
<1> QED BY <1>2, <1>3

\* A recovery settles what it gives up, and only that.
LEMMA Recovery ==
  ASSUME IInv, budget' = SettledBudget(Abandoned, -1),
         row' = [d \in Decisions |-> row'[d]], \A d \in Decisions : Recovers(d)
  PROVE  /\ row' \in [Decisions -> RowType] /\ budget' \in Budgets
         /\ BudgetBalanced' /\ WithinLimit' /\ DecidedStep
<1>1. TypeOK /\ Amounts /\ budget \in Budgets /\ BudgetBalanced /\ WithinLimit
  BY AmountsType DEF IInv
<1>2. \A d \in Decisions : RowInv(d)
  BY DEF IInv
<1>3. ASSUME NEW d \in Decisions
      PROVE  /\ row'[d] \in RowType
             /\ row'[d].cost = row[d].cost + IF d \in Abandoned THEN CostOf(d, -1) ELSE 0
             /\ row'[d].reserved = IF d \in Abandoned THEN 0 ELSE row[d].reserved
             /\ row'[d].month = row[d].month
             /\ d \in Abandoned => row[d].status = "assessing"
             /\ d \notin Abandoned /\ row[d].status # "absent" => row'[d] = row[d]
  BY <1>1, <1>2, RecoveredParts
<1>4. \A d \in Abandoned : row[d].reserved = Reserve
  BY <1>2 DEF Abandoned, RowInv
<1>5. Abandoned \in SUBSET Decisions
  BY DEF Abandoned
<1>6. budget' \in Budgets /\ BudgetBalanced' /\ WithinLimit'
  BY <1>1, <1>3, <1>4, <1>5, Settlement
<1>7. DecidedStep
  BY <1>3 DEF DecidedStep
<1>8. row' \in [Decisions -> RowType]
  BY <1>3
<1> QED BY <1>6, <1>7, <1>8

\* A recovered row covers its bill with all that was reserved.
LEMMA RecoveredRows ==
  ASSUME IInv, NEW d \in Decisions, Recovers(d), Bill(d)' = Bill(d)
  PROVE  Kept(d) /\ RowInv(d)'
<1>1. /\ TypeOK /\ RowInv(d) /\ row[d].attempts \in 0..MaxAttempts /\ row[d].cost \in Nat
      /\ row[d].token \in 0..MaxAttempts /\ row[d].reserved \in Nat /\ Bill(d) \in Nat
  BY RowParts, BillType, Constants DEF IInv
<1>2. /\ row'[d].attempts = row[d].attempts
      /\ row'[d].cost = row[d].cost + IF d \in Abandoned THEN CostOf(d, -1) ELSE 0
      /\ row'[d].reserved = IF d \in Abandoned THEN 0 ELSE row[d].reserved
      /\ d \in Abandoned => row[d].status = "assessing" /\ row'[d].status = "failed"
      /\ d \notin Abandoned /\ row[d].status # "absent" => row'[d] = row[d]
      /\ row[d].status = "absent" => row'[d].status \in {"absent", "pending"}
  BY <1>1, RecoveredParts
<1>3. CASE d \in Abandoned
  <2>1. row'[d] = [SettledRow(d, -1) EXCEPT !.status = "failed", !.dueAt = now,
                                            !.token = 0, !.leaseEnd = 0]
    BY <1>2, <1>3 DEF Recovers, RecoveredRow
  <2>2. row'[d].token = 0
    <3>1. PICK r : r = SettledRow(d, -1)
      OBVIOUS
    <3>2. row[d] \in RowType
      BY <1>1, RowParts
    <3>3. DOMAIN r = DOMAIN row[d]
      BY <3>1 DEF SettledRow
    <3>4. "token" \in DOMAIN r
      BY <3>2, <3>3 DEF RowType
    <3> QED BY <2>1, <3>1, <3>4
  <2>3. row'[d].cost = row[d].cost + row[d].reserved
    BY <1>2, <1>3 DEF CostOf
  <2> QED BY <1>1, <1>2, <1>3, <2>2, <2>3 DEF Kept, RowInv
<1>4. CASE row[d].status = "absent"
  <2>1. CASE row'[d] = [Unlisted EXCEPT !.status = "pending"]
    <3>1. row'[d].status = "pending" /\ row'[d].token = 0 /\ row'[d].attempts = 0
          /\ row'[d].cost = 0 /\ row'[d].reserved = 0
      BY <2>1 DEF Unlisted
    <3>2. row[d].attempts = 0 /\ row[d].cost = 0 /\ row[d].reserved = 0
      BY <1>1, <1>4 DEF RowInv, Unlisted
    <3>3. Bill(d) <= 0
      BY <1>1, <1>4, <3>2 DEF RowInv
    <3> QED BY <1>1, <1>2, <3>1, <3>2, <3>3 DEF Kept, RowInv
  <2>2. CASE row'[d] = RecoveredRow[d]
    <3>1. row'[d] = row[d]
      BY <1>2, <1>4, <2>2 DEF RecoveredRow
    <3> QED BY <1>1, <1>4, <3>1 DEF Kept, RowInv
  <2> QED BY <2>1, <2>2 DEF Recovers
<1>5. CASE d \notin Abandoned /\ row[d].status # "absent"
  <2>1. row'[d] = row[d]
    BY <1>2, <1>5
  <2> QED BY <1>1, <2>1 DEF Kept, RowInv
<1> QED BY <1>3, <1>4, <1>5

\* The recovery a dispatcher makes keeps the invariant and every decided row.
LEMMA DispatcherStep ==
  ASSUME IInv, DispatcherRecovers
  PROVE  IInv' /\ DecidedStep
<1>1. /\ budget' = SettledBudget(Abandoned, -1)
      /\ row' = [d \in Decisions |-> row'[d]] /\ \A d \in Decisions : Recovers(d)
  BY DEF DispatcherRecovers, RecoveredRow, Recovers
<1>2. /\ row' \in [Decisions -> RowType] /\ budget' \in Budgets
      /\ BudgetBalanced' /\ WithinLimit' /\ DecidedStep
  BY <1>1, Recovery
<1>3. UNCHANGED <<now, alert, work, billed, rejected>>
  BY DEF DispatcherRecovers
<1>4. TypeOK'
  BY <1>2, <1>3 DEF IInv, TypeOK, RowType, Budgets
<1>5. \A d \in Decisions : Bill(d)' = Bill(d)
  BY <1>3, BillSame DEF Asking
<1>6. \A d \in Decisions : Kept(d) /\ RowInv(d)'
  BY <1>1, <1>5, RecoveredRows
<1>7. \A v \in Workers : WorkerInv(v)'
  <2>1. now <= now' /\ \A v \in Workers : Same(v)
    BY <1>3 DEF IInv, TypeOK, Same
  <2> QED BY <1>4, <1>6, <2>1, WorkerKept DEF IInv
<1>8. OneHolder'
  BY <1>3 DEF IInv, OneHolder, Claiming
<1>9. AlertIsDecided'
  BY <1>2, <1>3, DecidedAlerts
<1> QED BY <1>2, <1>4, <1>6, <1>7, <1>8, <1>9 DEF IInv

\* Tick keeps the invariant.
LEMMA TickStep ==
  ASSUME IInv, Tick
  PROVE  IInv'
<1>1. UNCHANGED <<row, budget, alert, work, billed, rejected>> /\ now < MaxTime
      /\ now' = now + 1
  BY DEF Tick
<1>2. TypeOK'
  BY <1>1, Constants DEF IInv, TypeOK
<1>3. now <= now'
  BY <1>1 DEF IInv, TypeOK
<1>4. \A d \in Decisions : Bill(d)' <= Bill(d)
  <2>1. \A d \in Decisions : Bill(d)' = Bill(d) /\ Bill(d) \in Nat
    BY <1>1, BillSame, BillType DEF Asking, IInv
  <2> QED BY <2>1
<1>5. \A d \in Decisions : Kept(d) /\ RowInv(d)'
  BY <1>1, <1>2, <1>4, RowKept DEF IInv
<1>6. \A v \in Workers : WorkerInv(v)'
  BY <1>1, <1>2, <1>3, <1>5, WorkerKept DEF IInv, Same
<1>7. OneHolder' /\ AlertIsDecided'
  BY <1>1 DEF IInv, OneHolder, Claiming, AlertIsDecided
<1>8. BudgetBalanced' /\ WithinLimit'
  BY <1>1, BooksKept DEF IInv
<1> QED BY <1>2, <1>5, <1>6, <1>7, <1>8 DEF IInv

\* StartTick keeps the invariant.
LEMMA StartTickStep ==
  ASSUME IInv, NEW w \in Workers, StartTick(w)
  PROVE  IInv' /\ DecidedStep
<1>0. TypeOK /\ WorkerInv(w) /\ now \in Nat
  BY DEF IInv, TypeOK
<1>1. /\ budget' = SettledBudget(Abandoned, -1)
      /\ row' = [d \in Decisions |-> row'[d]] /\ \A d \in Decisions : Recovers(d)
  <2>1. PICK New \in SUBSET {d \in Decisions : /\ row[d].status = "absent"
                                               /\ Model[d] = work[w].model} :
          row' = [d \in Decisions |-> IF d \in New THEN [Unlisted EXCEPT !.status = "pending"]
                                                   ELSE RecoveredRow[d]]
    BY DEF StartTick
  <2> QED BY <2>1 DEF StartTick, Recovers
<1>2. /\ row' \in [Decisions -> RowType] /\ budget' \in Budgets
      /\ BudgetBalanced' /\ WithinLimit' /\ DecidedStep
  BY <1>1, Recovery
<1>3. UNCHANGED <<now, alert, billed, rejected>> /\ work[w].pc = "idle"
  BY DEF StartTick
<1>4. /\ work' \in [Workers -> WorkType] /\ \A v \in Workers \ {w} : work'[v] = work[v]
      /\ work'[w].pc = "list" /\ work'[w].tick = now
      /\ work[w].circuit => work'[w].circuit
  <2>1. work[w] \in WorkType
    BY <1>0, WorkParts
  <2>2. PICK b \in BOOLEAN : b = Circuit(w)
    BY <1>0, WorkParts DEF Circuit, KeyRejected
  <2>3. work[w].circuit => b
    BY <2>2 DEF Circuit
  <2>4. work'[w] = [work[w] EXCEPT !.pc = "list", !.tick = now, !.circuit = b]
    BY <1>0, <2>2, TypeParts DEF StartTick
  <2>5. work'[w] \in WorkType /\ work'[w].pc = "list" /\ work'[w].tick = now
        /\ work'[w].circuit = b
    BY <1>0, <2>1, <2>4 DEF WorkType
  <2>6. /\ work' = [work EXCEPT ![w] = work'[w]]
    BY <1>0, TypeParts DEF StartTick
  <2> QED BY <1>0, <2>3, <2>5, <2>6, TypeParts
<1>5. TypeOK'
  BY <1>0, <1>2, <1>3, <1>4 DEF TypeOK, RowType, Budgets, WorkType
<1>6. \A d \in Decisions : Bill(d)' = Bill(d)
  <2>1. \A d \in Decisions : Asking(d)' = Asking(d)
    BY <1>3, <1>4 DEF Asking
  <2> QED BY <1>3, <2>1, BillSame
<1>7. \A d \in Decisions : Kept(d) /\ RowInv(d)'
  BY <1>1, <1>6, RecoveredRows
<1>8. AlertIsDecided'
  BY <1>2, <1>3, DecidedAlerts
<1>9. WorkerInv(w)'
  <2>1. rejected[w] = 1 => work[w].circuit
    BY <1>3, CircuitOpens
  <2> QED BY <1>0, <1>3, <1>4, <2>1 DEF WorkerInv, Claiming
<1>10. now <= now' /\ ~Claiming(w)' /\ \A v \in Workers \ {w} : Same(v)
  BY <1>0, <1>3, <1>4 DEF Claiming, Same
<1> QED BY <1>2, <1>5, <1>7, <1>8, <1>9, <1>10, StepKeeps

-----------------------------------------------------------------------------
(* Claims and answers *)

\* A claim leaves the amounts alone and has a token of its own.
LEMMA ClaimParts ==
  ASSUME TypeOK, NEW d \in Decisions, NEW t \in Nat, Claimable(d, t), RowInv(d)
  PROVE  /\ ClaimedRow(d, t) \in RowType
         /\ ClaimedRow(d, t).status = "assessing"
         /\ ClaimedRow(d, t).attempts = row[d].attempts + 1
         /\ ClaimedRow(d, t).token = row[d].attempts + 1
         /\ ClaimedRow(d, t).month = row[d].month
         /\ ClaimedRow(d, t).cost = row[d].cost
         /\ ClaimedRow(d, t).reserved = row[d].reserved
         /\ row[d].status \in {"pending", "failed"} /\ row[d].reserved = 0
<1>1. row[d] \in RowType /\ row[d].attempts \in 0..MaxAttempts /\ row[d].attempts < MaxAttempts
      /\ row[d].status \in {"pending", "failed"}
  BY RowParts DEF Claimable
<1>2. PICK a \in 0..MaxAttempts : a = row[d].attempts + 1
  BY <1>1, Constants
<1>3. PICK e \in Nat : e = t + Lease
  BY Constants
<1>4. ClaimedRow(d, t) = [row[d] EXCEPT !.status = "assessing", !.attempts = a,
                                        !.token = a, !.leaseEnd = e]
  BY <1>1, <1>2, <1>3 DEF ClaimedRow, RowType
<1>5. "assessing" \in Statuses
  BY DEF Statuses
<1>6. row[d].reserved = 0
  BY <1>1 DEF RowInv
<1>7. PICK r \in RowType : r = row[d]
  BY <1>1
<1>8. PICK q : q = [r EXCEPT !.status = "assessing", !.attempts = a, !.token = a, !.leaseEnd = e]
  OBVIOUS
<1>9. /\ q \in RowType /\ q.status = "assessing" /\ q.attempts = a /\ q.token = a
      /\ q.month = r.month /\ q.cost = r.cost /\ q.reserved = r.reserved
  BY <1>2, <1>5, <1>8 DEF RowType
<1> QED BY <1>1, <1>2, <1>4, <1>6, <1>7, <1>8, <1>9

\* The step of a process from one decision of its list to the next.
LEMMA BlockStep ==
  ASSUME IInv, NEW w \in Workers, NEW d \in Decisions, Block(w, d)
  PROVE  IInv' /\ DecidedStep
<1>0. TypeOK /\ WorkerInv(w) /\ now \in Nat /\ RowInv(d)
  BY DEF IInv, TypeOK
<1>1. /\ work[w] \in WorkType /\ work[w].pc = "next" /\ work[w].queue \in SUBSET Decisions
      /\ work[w].tick \in Nat
  BY <1>0, WorkParts DEF Block, Take
<1>2. PICK c : c = ClaimedRow(d, work[w].tick)
  OBVIOUS
<1>3. /\ c \in RowType /\ c.attempts = row[d].attempts + 1 /\ c.month = row[d].month
      /\ c.cost = row[d].cost /\ c.reserved = 0 /\ row[d].reserved = 0
      /\ row[d].status \in {"pending", "failed"}
  BY <1>0, <1>1, <1>2, ClaimParts DEF Block
<1>4. row' = [row EXCEPT ![d] = [c EXCEPT !.status = "blocked", !.token = 0,
                                          !.leaseEnd = 0, !.dueAt = 0]]
  BY <1>2 DEF Block
<1>5. PICK r : r = [c EXCEPT !.status = "blocked", !.token = 0, !.leaseEnd = 0, !.dueAt = 0]
  OBVIOUS
<1>6. /\ r \in RowType /\ r.status = "blocked" /\ r.token = 0 /\ r.attempts = row[d].attempts + 1
      /\ r.month = row[d].month /\ r.cost = row[d].cost /\ r.reserved = 0
  <2>1. 0 \in Nat /\ 0 \in 0..MaxAttempts /\ "blocked" \in Statuses
    BY Constants DEF Statuses
  <2> QED BY <1>3, <1>5, <2>1 DEF RowType
<1>7. /\ row' \in [Decisions -> RowType] /\ row'[d] = r
      /\ \A e \in Decisions \ {d} : row'[e] = row[e]
  BY <1>0, <1>4, <1>5, <1>6, TypeParts
<1>8. UNCHANGED <<now, budget, alert, billed, rejected>>
  BY DEF Block
<1>9. /\ work' \in [Workers -> WorkType] /\ \A v \in Workers \ {w} : work'[v] = work[v]
      /\ work'[w].pc = "next" /\ work'[w].tick = work[w].tick
      /\ work'[w].circuit = work[w].circuit
  <2>1. work'[w] = [work[w] EXCEPT !.queue = work[w].queue \ {d}]
    BY <1>0, TypeParts DEF Block
  <2>2. work'[w] \in WorkType /\ work'[w].pc = "next" /\ work'[w].tick = work[w].tick
        /\ work'[w].circuit = work[w].circuit
    BY <1>1, <2>1 DEF WorkType
  <2> QED BY <1>0, <2>1, <2>2, TypeParts DEF Block
<1>10. TypeOK'
  BY <1>0, <1>7, <1>8, <1>9 DEF TypeOK, RowType, WorkType
<1>11. \A e \in Decisions : Bill(e)' = Bill(e) /\ Bill(e) \in Nat
  <2>1. \A e \in Decisions : Asking(e)' = Asking(e)
    BY <1>1, <1>9 DEF Asking
  <2> QED BY <1>0, <1>8, <2>1, BillSame, BillType
<1>12. \A e \in Decisions : Kept(e) /\ RowInv(e)'
  <2>1. Kept(d) /\ RowInv(d)'
    <3>1. row[d].attempts \in 0..MaxAttempts /\ row[d].cost \in Nat
      BY <1>0, RowParts
    <3>2. Bill(d) <= row[d].cost + row[d].reserved
      BY <1>0 DEF RowInv
    <3> QED BY <1>3, <1>6, <1>7, <1>11, <3>1, <3>2, Constants DEF Kept, RowInv
  <2>2. ASSUME NEW e \in Decisions \ {d} PROVE Kept(e) /\ RowInv(e)'
    <3>1. Bill(e)' <= Bill(e)
      BY <1>11
    <3> QED BY <1>0, <1>7, <1>10, <3>1, RowKept DEF IInv
  <2> QED BY <2>1, <2>2
<1>13. BudgetBalanced' /\ WithinLimit'
  <2>1. \A e \in Decisions : /\ row'[e].cost = row[e].cost
                             /\ row'[e].reserved = row[e].reserved
                             /\ row'[e].month = row[e].month
    BY <1>3, <1>6, <1>7
  <2> QED BY <1>8, <2>1, BooksKept DEF IInv
<1>14. DecidedStep
  BY <1>3, <1>7 DEF DecidedStep
<1>15. AlertIsDecided'
  BY <1>8, <1>14, DecidedAlerts
<1>16. WorkerInv(w)'
  <2>1. rejected[w] = 1 => work[w].circuit
    BY <1>1, CircuitOpens
  <2> QED BY <1>0, <1>8, <1>9, <2>1 DEF WorkerInv, Claiming
<1>17. now <= now' /\ ~Claiming(w)' /\ \A v \in Workers \ {w} : Same(v)
  BY <1>0, <1>8, <1>9 DEF Claiming, Same
<1> QED BY <1>10, <1>12, <1>13, <1>14, <1>15, <1>16, <1>17, StepKeeps

\* The claim is new, so that nobody else holds it, and its reservation covers the
\* request that is on its way.
LEMMA RequestStep ==
  ASSUME IInv, NEW w \in Workers, NEW d \in Decisions, Request(w, d)
  PROVE  IInv' /\ DecidedStep
<1>0. TypeOK /\ WorkerInv(w) /\ now \in Nat /\ now <= MaxTime /\ RowInv(d)
  BY Constants DEF IInv, TypeOK
<1>1. /\ work[w] \in WorkType /\ work[w].pc = "next" /\ work[w].queue \in SUBSET Decisions
      /\ work[w].tick \in Nat /\ work[w].tick <= now /\ ~work[w].circuit
  BY <1>0, WorkParts DEF Request, Take, WorkerInv
<1>2. PICK c : c = ClaimedRow(d, work[w].tick)
  OBVIOUS
<1>3. /\ c \in RowType /\ c.status = "assessing" /\ c.attempts = row[d].attempts + 1
      /\ c.token = row[d].attempts + 1 /\ c.cost = row[d].cost /\ row[d].reserved = 0
      /\ row[d].status \in {"pending", "failed"}
  BY <1>0, <1>1, <1>2, ClaimParts DEF Request
<1>4. PICK m \in Months : m = Month(work[w].tick)
  <2>1. work[w].tick <= MaxTime
    BY <1>0, <1>1, Constants
  <2> QED BY <1>1, <2>1, MonthType
<1>5. PICK r : r = [c EXCEPT !.reserved = Reserve, !.month = m]
  OBVIOUS
<1>6. /\ row' = [row EXCEPT ![d] = r] /\ budget' = [budget EXCEPT ![m].held = @ + Reserve]
      /\ Fits(m) /\ UNCHANGED <<now, alert, billed, rejected>>
  BY <1>2, <1>4, <1>5 DEF Request
<1>7. /\ r \in RowType /\ r.status = "assessing" /\ r.token = row[d].attempts + 1
      /\ r.attempts = row[d].attempts + 1
      /\ r.month = m /\ r.cost = row[d].cost /\ r.reserved = Reserve
  <2>1. Reserve \in {0, Reserve}
    OBVIOUS
  <2> QED BY <1>3, <1>4, <1>5, <2>1 DEF RowType
<1>8. /\ row' \in [Decisions -> RowType] /\ row'[d] = r
      /\ \A e \in Decisions \ {d} : row'[e] = row[e]
  BY <1>0, <1>6, <1>7, TypeParts
<1>9. row[d].attempts \in 0..MaxAttempts /\ row[d].cost \in Nat
      /\ row[d].attempts + 1 \in 0..MaxAttempts
  BY <1>0, <1>3, RowParts DEF RowType
<1>10. PICK k \in 0..MaxAttempts : k = row[d].attempts + 1
  BY <1>9
<1>11. work'[w] = [work[w] EXCEPT !.pc = "request", !.item = d, !.began = now,
                                  !.claim = k, !.queue = work[w].queue \ {d}]
  BY <1>0, <1>10, TypeParts DEF Request
<1>12. /\ work'[w] \in WorkType /\ work'[w].pc = "request" /\ work'[w].item = d
       /\ work'[w].began = now /\ work'[w].claim = k /\ work'[w].tick = work[w].tick
       /\ work'[w].circuit = work[w].circuit
  <2>1. PICK Q \in SUBSET Decisions : Q = work[w].queue \ {d}
    BY <1>1
  <2>2. PICK n \in Nat : n = now
    BY <1>0
  <2>3. PICK q : q = [work[w] EXCEPT !.pc = "request", !.item = d, !.began = n,
                                     !.claim = k, !.queue = Q]
    OBVIOUS
  <2>4. /\ q \in WorkType /\ q.pc = "request" /\ q.item = d /\ q.began = n /\ q.claim = k
        /\ q.tick = work[w].tick /\ q.circuit = work[w].circuit
    BY <1>1, <2>3 DEF WorkType
  <2> QED BY <1>11, <2>1, <2>2, <2>3, <2>4
<1>13. work' \in [Workers -> WorkType] /\ \A v \in Workers \ {w} : work'[v] = work[v]
  BY <1>0, <1>12, TypeParts DEF Request
<1>14. budget' \in Budgets /\ BudgetBalanced' /\ WithinLimit'
  <2>1. Amounts /\ budget \in Budgets /\ BudgetBalanced /\ WithinLimit
    BY AmountsType DEF IInv
  <2>2. \A e \in Decisions \ {d} : /\ row'[e].cost = row[e].cost
                                   /\ row'[e].reserved = row[e].reserved
                                   /\ row'[e].month = row[e].month
    BY <1>8
  <2> QED BY <1>3, <1>6, <1>7, <1>8, <2>1, <2>2, Reservation
<1>15. TypeOK'
  BY <1>0, <1>6, <1>8, <1>13, <1>14 DEF TypeOK, RowType, WorkType, Budgets
<1>16. Bill(d)' = Bill(d) + Reserve /\ Bill(d) \in Nat
  <2>1. w \notin Asking(d) /\ Asking(d)' = Asking(d) \cup {w}
    BY <1>1, <1>12, <1>13 DEF Asking
  <2> QED BY <1>0, <1>6, <2>1, BillRaised, BillType
<1>17. \A e \in Decisions : Kept(e) /\ RowInv(e)'
  <2>1. Kept(d) /\ RowInv(d)'
    <3>1. Bill(d) <= row[d].cost + row[d].reserved
      BY <1>0 DEF RowInv
    <3> QED BY <1>3, <1>7, <1>8, <1>9, <1>16, <3>1, Constants DEF Kept, RowInv
  <2>2. ASSUME NEW e \in Decisions \ {d} PROVE Kept(e) /\ RowInv(e)'
    <3>1. Asking(e)' = Asking(e)
      BY <1>1, <1>12, <1>13 DEF Asking
    <3>2. Bill(e)' <= Bill(e)
      BY <1>0, <1>6, <3>1, BillSame, BillType
    <3> QED BY <1>0, <1>8, <1>15, <3>2, RowKept DEF IInv
  <2> QED BY <2>1, <2>2
<1>18. DecidedStep
  BY <1>3, <1>8 DEF DecidedStep
<1>19. AlertIsDecided'
  BY <1>6, <1>18, DecidedAlerts
<1>20. \A v \in Workers : WorkerInv(v)'
  <2>1. WorkerInv(w)'
    <3>1. rejected[w] = 0
      BY <1>0, <1>1 DEF WorkerInv
    <3>2. rejected'[w] = 0 /\ now' = now /\ row'[d].attempts = k
      BY <1>6, <1>7, <1>8, <1>10, <3>1
    <3> QED BY <1>0, <1>1, <1>12, <3>2 DEF WorkerInv, Claiming
  <2>2. ASSUME NEW v \in Workers \ {w} PROVE WorkerInv(v)'
    <3>1. Same(v) /\ now <= now'
      BY <1>0, <1>6, <1>13 DEF Same
    <3> QED BY <1>0, <1>15, <1>17, <3>1, WorkerKept DEF IInv
  <2> QED BY <2>1, <2>2
<1>21. OneHolder'
  <2>1. ASSUME NEW v \in Workers \ {w}, Claiming(v)', work'[v].item = d PROVE work'[v].claim # k
    <3>1. Claiming(v) /\ work[v].item = d /\ work'[v].claim = work[v].claim
      BY <1>13, <2>1 DEF Claiming
    <3>2. work[v].claim <= row[d].attempts
      BY <3>1 DEF IInv, WorkerInv
    <3>3. work[v].claim \in Int
      BY <1>0, WorkParts
    <3> QED BY <1>9, <1>10, <3>1, <3>2, <3>3
  <2> QED BY <1>12, <1>13, <2>1 DEF IInv, OneHolder, Claiming
<1> QED BY <1>14, <1>15, <1>17, <1>18, <1>19, <1>20, <1>21 DEF IInv

\* What an answer makes of the row it is about.
LEMMA AnswerParts ==
  ASSUME TypeOK, NEW w \in Workers, NEW d \in Decisions, work[w].item = d,
         work[w].answer \in Outcomes, row[d].status = "assessing", row[d].reserved = Reserve
  PROVE  /\ AnsweredRow(w) \in RowType
         /\ AnsweredRow(w).status =
              CASE work[w].answer.kind = "decision" -> "completed"
                [] work[w].answer.kind = "retry" -> "failed"
                [] work[w].answer.kind \in {"fail", "auth"} -> "blocked"
         /\ AnsweredRow(w).attempts = row[d].attempts /\ AnsweredRow(w).token = 0
         /\ AnsweredRow(w).month = row[d].month /\ AnsweredRow(w).reserved = 0
         /\ AnsweredRow(w).cost = row[d].cost + CostOf(d, work[w].answer.cost)
<1>1. /\ row[d] \in RowType /\ row[d].cost \in Nat /\ row[d].dueAt \in Nat
      /\ work[w].finished \in Nat
  BY RowParts, WorkParts
<1>2. PICK a \in Outcomes : a = work[w].answer
  OBVIOUS
<1>3. a.cost = -1 \/ a.cost \in Nat
  BY Constants DEF Outcomes
<1>4. PICK e \in Nat : e = row[d].cost + CostOf(d, a.cost)
  BY <1>1, <1>3, Constants DEF CostOf
<1>5. PICK s \in Statuses : s = CASE a.kind = "decision" -> "completed"
                                  [] a.kind = "retry" -> "failed"
                                  [] a.kind \in {"fail", "auth"} -> "blocked"
  BY DEF Outcomes, Statuses
<1>6. PICK u \in Nat : u = IF a.kind = "retry" THEN work[w].finished + RetryDelay
                           ELSE IF a.kind \in {"fail", "auth"} THEN 0 ELSE row[d].dueAt
  BY <1>1, Constants
<1>7. PICK b \in BOOLEAN : b = (a.kind = "auth")
  OBVIOUS
<1>8. PICK r : r = SettledRow(d, a.cost)
  OBVIOUS
<1>9. r = [row[d] EXCEPT !.cost = e, !.reserved = 0]
  BY <1>1, <1>4, <1>8 DEF SettledRow, RowType
<1>10. /\ r \in RowType /\ r.cost = e /\ r.reserved = 0 /\ r.month = row[d].month
       /\ r.attempts = row[d].attempts /\ r.dueAt = row[d].dueAt
  BY <1>1, <1>9 DEF RowType
<1>11. AnsweredRow(w) = [r EXCEPT !.status = s, !.dueAt = u, !.auth = b,
                                  !.token = 0, !.leaseEnd = 0]
  BY <1>2, <1>5, <1>6, <1>7, <1>8, <1>10 DEF AnsweredRow, RowType
<1>12. 0 \in Nat /\ 0 \in 0..MaxAttempts
  BY Constants
<1>13. PICK q : q = AnsweredRow(w)
  OBVIOUS
<1>14. /\ q \in RowType /\ q.status = s /\ q.token = 0 /\ q.attempts = row[d].attempts
       /\ q.month = row[d].month /\ q.reserved = 0 /\ q.cost = e
  BY <1>10, <1>11, <1>12, <1>13 DEF RowType
<1> QED BY <1>2, <1>4, <1>5, <1>13, <1>14

\* An answer is booked under a claim that is still good, and dropped otherwise.
LEMMA SettleStep ==
  ASSUME IInv, NEW w \in Workers, Settle(w)
  PROVE  IInv' /\ DecidedStep
<1>0. TypeOK /\ WorkerInv(w) /\ now \in Nat
  BY DEF IInv, TypeOK
<1>1. PICK d : d = work[w].item
  OBVIOUS
<1>2. /\ work[w].pc = "settle" /\ d \in Decisions /\ ~work[w].circuit
      /\ work[w].answer \in Outcomes /\ work[w].tick <= now
  BY <1>0, <1>1 DEF WorkerInv, Claiming, Settle
<1>3. /\ work[w] \in WorkType /\ work[w].model \in Models /\ work[w].tick \in Nat
      /\ work[w].queue \in SUBSET Decisions
  BY <1>0, WorkParts
<1>4. UNCHANGED <<now, billed, rejected>>
  BY DEF Settle
<1>5. PICK b \in BOOLEAN : b = AnsweredCircuit(w)
  BY <1>0, WorkParts DEF AnsweredCircuit
<1>6. rejected[w] = 1 => b
  BY <1>2, <1>5, CircuitOpens
<1>7. CASE ~Owned(d, work[w].claim, work[w].finished)
  <2>1. work' = [work EXCEPT ![w] = Idle(work[w].model, b)] /\ UNCHANGED <<row, budget, alert>>
    BY <1>1, <1>5, <1>7 DEF Settle
  <2>2. /\ work' \in [Workers -> WorkType] /\ \A v \in Workers \ {w} : work'[v] = work[v]
        /\ work'[w].pc \in {"idle", "list", "next"} /\ work'[w].tick <= now
        /\ rejected[w] = 1 => work'[w].circuit
    BY <1>0, <1>3, <1>6, <2>1, IdleType, TypeParts
  <2>3. IInv'
    BY <1>4, <2>1, <2>2, Frees
  <2> QED BY <2>1, <2>3 DEF DecidedStep
<1>8. CASE Owned(d, work[w].claim, work[w].finished)
  <2>1. row[d].status = "assessing" /\ row[d].token = work[w].claim /\ Holds(w, d)
    BY <1>1, <1>2, <1>8 DEF Owned, Holds, Claiming
  <2>2. row[d].reserved = Reserve /\ RowInv(d)
    BY <1>2, <2>1 DEF IInv, RowInv
  <2>3. PICK c : c = work[w].answer.cost
    OBVIOUS
  <2>4. c \in {-1} \cup 0..Reserve
    BY <1>2, <2>3, Constants DEF Outcomes
  <2>5. PICK r : r = AnsweredRow(w)
    OBVIOUS
  <2>6. /\ row' = [row EXCEPT ![d] = r] /\ budget' = SettledBudget({d}, c)
        /\ \/ UNCHANGED alert
           \/ /\ work[w].answer.kind = "decision" /\ alert' = [alert EXCEPT ![Alert[d]] = d]
        /\ work' = [work EXCEPT ![w] = [Idle(work[w].model, b) EXCEPT
                                          !.pc = "next", !.tick = work[w].tick,
                                          !.queue = work[w].queue]]
    BY <1>1, <1>5, <1>8, <2>3, <2>5 DEF Settle
  <2>7. /\ r \in RowType /\ r.attempts = row[d].attempts /\ r.token = 0
        /\ r.month = row[d].month /\ r.reserved = 0 /\ r.cost = row[d].cost + CostOf(d, c)
        /\ r.status \in {"completed", "failed", "blocked"}
        /\ work[w].answer.kind = "decision" => r.status = "completed"
    <3>1. work[w].answer.kind \in {"decision", "retry", "fail", "auth"}
      BY <1>2 DEF Outcomes
    <3> QED BY <1>0, <1>1, <1>2, <2>1, <2>2, <2>3, <2>5, <3>1, AnswerParts
  <2>8. /\ row' \in [Decisions -> RowType] /\ row'[d] = r
        /\ \A e \in Decisions \ {d} : row'[e] = row[e]
    BY <1>0, <1>2, <2>6, <2>7, TypeParts
  <2>9. /\ work' \in [Workers -> WorkType] /\ \A v \in Workers \ {w} : work'[v] = work[v]
        /\ work'[w].pc = "next" /\ work'[w].tick = work[w].tick /\ work'[w].circuit = b
    <3>1. PICK i : i = Idle(work[w].model, b)
      OBVIOUS
    <3>2. i \in WorkType /\ i.circuit = b
      BY <1>3, <3>1, IdleType
    <3>3. PICK q : q = [i EXCEPT !.pc = "next", !.tick = work[w].tick, !.queue = work[w].queue]
      OBVIOUS
    <3>4. q \in WorkType /\ q.pc = "next" /\ q.tick = work[w].tick /\ q.circuit = b
      BY <1>3, <3>2, <3>3 DEF WorkType
    <3>5. work' = [work EXCEPT ![w] = q]
      BY <2>6, <3>1, <3>3
    <3> QED BY <1>0, <3>4, <3>5, TypeParts
  <2>10. budget' \in Budgets /\ BudgetBalanced' /\ WithinLimit'
    <3>1. Amounts /\ budget \in Budgets /\ BudgetBalanced /\ WithinLimit
      BY AmountsType DEF IInv
    <3>2. \A e \in Decisions :
            /\ row'[e].cost = row[e].cost + IF e \in {d} THEN CostOf(e, c) ELSE 0
            /\ row'[e].reserved = IF e \in {d} THEN 0 ELSE row[e].reserved
            /\ row'[e].month = row[e].month
      <4>1. \A e \in Decisions : row[e].cost = row[e].cost + 0
        BY <3>1 DEF Amounts
      <4> QED BY <2>7, <2>8, <4>1
    <3>3. {d} \in SUBSET Decisions /\ \A e \in {d} : row[e].reserved = Reserve
      BY <1>2, <2>2
    <3> QED BY <2>4, <2>6, <3>1, <3>2, <3>3, Settlement
  <2>11. alert' \in [Alerts -> Decisions \cup {0}]
    BY <1>0, <1>2, <2>6, TypeParts
  <2>12. TypeOK'
    BY <1>0, <1>4, <2>8, <2>9, <2>10, <2>11 DEF TypeOK, RowType, WorkType, Budgets
  <2>13. \A e \in Decisions : Bill(e)' = Bill(e) /\ Bill(e) \in Nat
    <3>1. \A e \in Decisions : Asking(e)' = Asking(e)
      BY <1>2, <2>9 DEF Asking
    <3> QED BY <1>0, <1>4, <3>1, BillSame, BillType
  <2>14. \A e \in Decisions : Kept(e) /\ RowInv(e)'
    <3>1. Kept(d) /\ RowInv(d)'
      <4>1. row[d].attempts \in 0..MaxAttempts /\ row[d].cost \in Nat
        BY <1>0, <1>2, RowParts
      <4>2. Bill(d) <= row[d].cost + CostOf(d, c)
        <5>1. CASE c = -1
          BY <2>2, <5>1 DEF RowInv, CostOf
        <5>2. CASE c # -1
          BY <1>0, <1>1, <1>2, <2>1, <2>3, <5>2 DEF WorkerInv, CostOf
        <5> QED BY <5>1, <5>2
      <4>3. CostOf(d, c) \in Nat
        BY <2>2, <2>4, Constants DEF CostOf
      <4>4. Bill(d)' <= row'[d].cost + row'[d].reserved
        <5>1. Bill(d)' = Bill(d) /\ Bill(d) \in Nat
          BY <1>2, <2>13
        <5> QED BY <2>7, <2>8, <4>1, <4>2, <4>3, <5>1
      <4>5. row'[d].status \in {"completed", "failed", "blocked"}
        BY <2>7, <2>8
      <4>6. row'[d].attempts = row[d].attempts /\ row'[d].token = 0 /\ row'[d].reserved = 0
        BY <2>7, <2>8
      <4>7. Kept(d)
        BY <4>1, <4>5, <4>6 DEF Kept
      <4> QED BY <4>1, <4>4, <4>5, <4>6, <4>7 DEF RowInv
    <3>2. ASSUME NEW e \in Decisions \ {d} PROVE Kept(e) /\ RowInv(e)'
      <4>1. Bill(e)' <= Bill(e)
        BY <2>13
      <4> QED BY <1>0, <2>8, <2>12, <4>1, RowKept DEF IInv
    <3> QED BY <3>1, <3>2
  <2>15. DecidedStep
    BY <2>1, <2>8 DEF DecidedStep
  <2>16. AlertIsDecided'
    <3>1. CASE UNCHANGED alert
      BY <2>15, <3>1, DecidedAlerts
    <3>2. CASE work[w].answer.kind = "decision" /\ alert' = [alert EXCEPT ![Alert[d]] = d]
      <4> SUFFICES ASSUME NEW a \in Alerts, alert'[a] # 0
                   PROVE  row'[alert'[a]].status = "completed"
        BY DEF AlertIsDecided
      <4>1. CASE a = Alert[d]
        <5>1. alert'[a] = d
          BY <1>0, <3>2, <4>1, TypeParts
        <5> QED BY <2>7, <2>8, <3>2, <5>1
      <4>2. CASE a # Alert[d]
        <5>1. PICK e : e = alert[a]
          OBVIOUS
        <5>2. alert'[a] = e /\ e \in Decisions
          BY <1>0, <3>2, <4>2, <5>1, TypeParts
        <5>3. row[e].status = "completed"
          BY <5>1, <5>2, Constants DEF IInv, AlertIsDecided
        <5> QED BY <2>15, <5>2, <5>3 DEF DecidedStep
      <4> QED BY <4>1, <4>2
    <3> QED BY <2>6, <3>1, <3>2
  <2>17. WorkerInv(w)'
    BY <1>0, <1>2, <1>4, <1>6, <2>9 DEF WorkerInv, Claiming
  <2>18. now <= now' /\ ~Claiming(w)' /\ \A v \in Workers \ {w} : Same(v)
    BY <1>0, <1>4, <2>9 DEF Claiming, Same
  <2>19. IInv'
    BY <2>10, <2>12, <2>14, <2>16, <2>17, <2>18, StepKeeps
  <2> QED BY <2>15, <2>19
<1> QED BY <1>7, <1>8

-----------------------------------------------------------------------------
(* The theorems *)

\* Everything is empty at first.
LEMMA InitInv ==
  ASSUME Init
  PROVE  IInv
<1>1. 0 \in Nat /\ 0 \in 0..MaxTime /\ 0 \in 0..MaxAttempts /\ {0, Reserve} \subseteq Nat
  BY Constants
<1>2. 0 \in Months
  <2>1. Month(0) = 0
    BY Constants DEF Month
  <2>2. Month(0) \in Months
    BY Constants, MonthType
  <2> QED BY <2>1, <2>2
<1>3. Min(Models) \in Models
  <2>1. Models \subseteq Nat /\ Models # {}
    <3>1. PICK d \in Decisions : TRUE
      BY AssessmentAssumption
    <3>2. Model[d] \in Models
      BY DEF Models
    <3> QED BY <3>2, Constants DEF Models
  <2>2. PICK x \in Models : \A y \in Models : ~ (<<y, x>> \in OpToRel(<, Nat))
    BY <2>1, NatLessThanWellFounded, WFMin
  <2>3. \A y \in Models : x <= y
    <3>1. \A y \in Models : ~(y < x)
      BY <2>1, <2>2 DEF OpToRel
    <3> QED BY <2>1, <3>1
  <2> QED BY <2>3 DEF Min
<1>4. TypeOK
  <2>1. Unlisted \in RowType
    BY <1>1, <1>2 DEF Unlisted, RowType, Statuses
  <2>2. Idle(Min(Models), FALSE) \in WorkType
    BY <1>3, IdleType
  <2>3. budget \in Budgets
    BY <1>1 DEF Init, Budgets
  <2> QED BY <1>1, <2>1, <2>2, <2>3, TypeParts DEF Init
<1>5. ASSUME NEW d \in Decisions PROVE RowInv(d)
  <2>1. row[d] = Unlisted /\ billed[d] = 0
    BY DEF Init
  <2>2. Asking(d) = {}
    BY <1>3, IdleType DEF Init, Asking
  <2>3. Bill(d) = 0 + Reserve * 0
    BY <2>1, <2>2, FS_EmptySet DEF Bill
  <2>4. Bill(d) = 0
    BY <2>3, Constants
  <2> QED BY <2>1, <2>4, Constants DEF RowInv, Unlisted
<1>6. \A w \in Workers : work[w].pc = "idle" /\ work[w].tick = 0 /\ rejected[w] = 0
  BY <1>3, IdleType DEF Init
<1>7. \A w \in Workers : WorkerInv(w)
  <2>1. now = 0
    BY DEF Init
  <2> QED BY <1>6, <2>1 DEF WorkerInv, Claiming
<1>8. OneHolder
  BY <1>6 DEF OneHolder, Claiming
<1>9. BudgetBalanced
  <2>1. ASSUME NEW m \in Months PROVE budget[m].held = Total(Reserved, OfMonth(m))
    <3>1. \A d \in OfMonth(m) : Reserved[d] = 0
      BY DEF Init, Reserved, OfMonth, Unlisted
    <3>2. Total(Reserved, OfMonth(m)) = 0
      BY <3>1, TotalZero
    <3> QED BY <3>2 DEF Init
  <2>2. Total([m \in Months |-> budget[m].spent], Months) = 0
    <3> DEFINE f == [m \in Months |-> budget[m].spent]
    <3>1. \A m \in Months : f[m] = 0
      BY DEF Init
    <3> HIDE DEF f
    <3>2. Total(f, Months) = 0
      BY <3>1, TotalZero
    <3> QED BY <3>2 DEF f
  <2>3. Total(Costed, Decisions) = 0
    <3>1. \A d \in Decisions : Costed[d] = 0
      BY DEF Init, Costed, Unlisted
    <3> QED BY <3>1, TotalZero
  <2> QED BY <2>1, <2>2, <2>3 DEF BudgetBalanced
<1>10. WithinLimit /\ AlertIsDecided
  BY Constants DEF Init, WithinLimit, AlertIsDecided
<1> QED BY <1>4, <1>5, <1>7, <1>8, <1>9, <1>10 DEF IInv

\* A step that leaves all variables alone.
LEMMA StutterStep ==
  ASSUME IInv, UNCHANGED vars
  PROVE  IInv' /\ DecidedStep
<1>1. TypeOK' /\ OneHolder' /\ AlertIsDecided' /\ DecidedStep
  BY DEF vars, IInv, TypeOK, OneHolder, Claiming, AlertIsDecided, DecidedStep
<1>2. \A d \in Decisions : Bill(d)' = Bill(d)
  BY BillSame DEF vars, Asking
<1>3. \A d \in Decisions : Bill(d)' <= Bill(d)
  BY <1>2, BillType DEF IInv
<1>4. \A d \in Decisions : Kept(d) /\ RowInv(d)'
  BY <1>1, <1>3, RowKept DEF vars, IInv
<1>5. now <= now' /\ \A v \in Workers : Same(v)
  BY DEF vars, IInv, TypeOK, Same
<1>6. \A v \in Workers : WorkerInv(v)'
  BY <1>1, <1>4, <1>5, WorkerKept DEF IInv
<1>7. BudgetBalanced' /\ WithinLimit'
  BY BooksKept DEF vars, IInv
<1> QED BY <1>1, <1>4, <1>6, <1>7 DEF IInv

\* Every step keeps the invariant.
LEMMA NextInv ==
  ASSUME IInv, [Next]_vars
  PROVE  IInv' /\ DecidedStep
<1>1. ASSUME NEW w \in Workers, Step(w) PROVE IInv' /\ DecidedStep
  <2>1. CASE StartTick(w)
    BY <2>1, StartTickStep
  <2>2. CASE ListDue(w)
    BY <2>2, ListDueStep DEF ListDue, DecidedStep
  <2>3. CASE EndTick(w)
    BY <2>3, EndTickStep DEF EndTick, DecidedStep
  <2>4. CASE Respond(w)
    BY <2>4, RespondStep DEF Respond, DecidedStep
  <2>5. CASE Settle(w)
    BY <2>5, SettleStep
  <2>6. ASSUME NEW d \in Decisions, Unclaimed(w, d) PROVE IInv' /\ DecidedStep
    BY <2>6, UnclaimedStep DEF Unclaimed, DecidedStep
  <2>7. ASSUME NEW d \in Decisions, Block(w, d) PROVE IInv' /\ DecidedStep
    BY <2>7, BlockStep
  <2>8. ASSUME NEW d \in Decisions, Request(w, d) PROVE IInv' /\ DecidedStep
    BY <2>8, RequestStep
  <2> QED BY <1>1, <2>1, <2>2, <2>3, <2>4, <2>5, <2>6, <2>7, <2>8 DEF Step
<1>2. ASSUME NEW w \in Workers, TickFails(w) PROVE IInv' /\ DecidedStep
  BY <1>2, TickFailsStep DEF TickFails, DecidedStep
<1>3. ASSUME NEW w \in Workers, Restart(w) PROVE IInv' /\ DecidedStep
  BY <1>3, RestartStep DEF Restart, DecidedStep
<1>4. CASE DispatcherRecovers
  BY <1>4, DispatcherStep
<1>5. CASE Tick
  BY <1>5, TickStep DEF Tick, DecidedStep
<1>6. CASE UNCHANGED vars
  BY <1>6, StutterStep
<1> QED BY <1>1, <1>2, <1>3, <1>4, <1>5, <1>6 DEF Next

\* The inductive invariant holds throughout.
THEOREM AssessmentInvariant == Spec => []IInv
<1>1. Init => IInv
  BY InitInv
<1>2. IInv /\ [Next]_vars => IInv'
  BY NextInv
<1> QED BY <1>1, <1>2, PTL DEF Spec

\* The ledgers of rows and months agree, no month exceeds its limit by whatever
\* many processes, everything the provider has charged is on the books, and only
\* completed decisions have queued an alert.
THEOREM SoundBooks == Spec => []BooksAreSound
<1>1. IInv => BooksAreSound
  <2> SUFFICES ASSUME IInv PROVE BooksAreSound
    OBVIOUS
  <2>1. ASSUME NEW d \in Decisions PROVE billed[d] <= row[d].cost + row[d].reserved
    <3> DEFINE n == Cardinality(Asking(d))
    <3>1. Reserve * n \in Nat
      <4>1. n \in Nat
        BY AskingFinite
      <4> QED BY <4>1, Constants
    <3>2. billed[d] \in Nat /\ row[d].cost \in Nat /\ row[d].reserved \in Nat
      BY RowParts, Constants DEF IInv, TypeOK
    <3>3. billed[d] + Reserve * n <= row[d].cost + row[d].reserved
      BY DEF IInv, RowInv, Bill
    <3> HIDE DEF n
    <3> QED BY <3>1, <3>2, <3>3
  <2> QED BY <2>1 DEF IInv, BooksAreSound, LedgerCoversBill
<1> QED BY <1>1, AssessmentInvariant, PTL

\* A process asks at most once with a key the provider rejects.
THEOREM RejectedKeys == Spec => []RejectedOnce
<1>1. IInv => RejectedOnce
  BY DEF IInv, WorkerInv, RejectedOnce
<1> QED BY <1>1, AssessmentInvariant, PTL

\* What was completed or blocked is never written again.
THEOREM DecidedRowsStay == Spec => DecidedStays
<1>1. IInv /\ [Next]_vars => [DecidedStep]_vars
  BY NextInv
<1> QED BY <1>1, AssessmentInvariant, PTL DEF Spec, DecidedStays
==============================================================================
