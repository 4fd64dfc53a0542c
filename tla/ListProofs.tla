----------------------------- MODULE ListProofs -----------------------------
(***************************************************************************)
(* What a filtered list is: its elements are the elements at the chosen    *)
(* positions, each once; and that a sum grows with its summands.           *)
(***************************************************************************)
EXTENDS Lists, FiniteSetTheorems, SequenceTheorems, WellFoundedInduction, TLAPS

\* The places of different positions differ, and every place is taken.
LEMMA RankIsBijective ==
    ASSUME NEW S, IsFiniteSet(S), S \subseteq Nat
    PROVE  /\ Cardinality(S) \in Nat
           /\ \A n \in S : Rank(S, n) \in 1..Cardinality(S)
           /\ \A n, m \in S : Rank(S, n) = Rank(S, m) => n = m
           /\ \A k \in 1..Cardinality(S) : \E n \in S : Rank(S, n) = k
<1> DEFINE below(n) == {m \in S : m <= n}
           f == [n \in S |-> Rank(S, n)]
           N == Cardinality(S)
<1>1. N \in Nat
    BY FS_CardinalityType
<1>2. ASSUME NEW n \in S
      PROVE  IsFiniteSet(below(n)) /\ Cardinality(below(n)) \in 1..N
  <2>1. below(n) \in SUBSET S /\ below(n) # {}
      OBVIOUS
  <2>2. IsFiniteSet(below(n)) /\ Cardinality(below(n)) <= N
      BY <2>1, FS_Subset
  <2>3. Cardinality(below(n)) \in Nat /\ Cardinality(below(n)) # 0
      BY <2>1, <2>2, FS_CardinalityType, FS_EmptySet
  <2> QED
      BY <1>1, <2>2, <2>3
<1>3. \A n \in S : Rank(S, n) \in 1..N
    BY <1>2 DEF Rank
<1>4. ASSUME NEW n \in S, NEW m \in S, n < m
      PROVE  Rank(S, n) # Rank(S, m)
  <2>1. below(n) \in SUBSET below(m) /\ below(n) # below(m)
    <3>1. m \in below(m) /\ m \notin below(n)
        BY <1>4
    <3>2. \A x \in below(n) : x \in below(m)
        BY <1>4
    <3> QED
        BY <3>1, <3>2
  <2> HIDE DEF below
  <2>2. Cardinality(below(m)) # Cardinality(below(n))
      BY <1>2, <2>1, FS_Subset
  <2> QED
      BY <2>2 DEF Rank, below
<1>5. \A n, m \in S : Rank(S, n) = Rank(S, m) => n = m
    BY <1>4
<1>6. f \in Injection(S, 1..N)
    BY <1>3, <1>5 DEF Injection, IsInjective
<1>7. IsFiniteSet(1..N) /\ Cardinality(1..N) = N
    BY <1>1, FS_Interval
<1>8. f \in Surjection(S, 1..N)
    BY <1>6, <1>7, FS_Injection
<1>9. \A k \in 1..N : \E n \in S : Rank(S, n) = k
    BY <1>8 DEF Surjection
<1> QED
    BY <1>1, <1>3, <1>5, <1>9

\* A filtered list is a list; each of its elements stands at a position of
\* its own in the list it comes from, and none is left out.
LEMMA SublistOf ==
    ASSUME NEW R, NEW q \in Seq(R), NEW S \in SUBSET DOMAIN q
    PROVE  /\ Sublist(q, S) \in Seq(R)
           /\ Cardinality(S) \in Nat /\ Len(Sublist(q, S)) = Cardinality(S)
           /\ DOMAIN Sublist(q, S) = 1..Cardinality(S)
           /\ \E at \in [1..Cardinality(S) -> S] :
                /\ \A k \in 1..Cardinality(S) : Sublist(q, S)[k] = q[at[k]]
                /\ \A k, n \in 1..Cardinality(S) : at[k] = at[n] => k = n
                /\ \A n \in S : \E k \in 1..Cardinality(S) : at[k] = n
<1> DEFINE N == Cardinality(S)
           at == [k \in 1..N |-> CHOOSE n \in S : Rank(S, n) = k]
<1>1. DOMAIN q = 1..Len(q) /\ Len(q) \in Nat
    OBVIOUS
<1>2. IsFiniteSet(DOMAIN q) /\ DOMAIN q \subseteq Nat
    BY <1>1, FS_Interval
<1>3. IsFiniteSet(S) /\ S \subseteq Nat
    BY <1>2, FS_Subset
<1>4. N \in Nat
    BY <1>3, RankIsBijective
<1>5. \A n \in S : Rank(S, n) \in 1..N
    BY <1>3, RankIsBijective
<1>6. \A n, m \in S : Rank(S, n) = Rank(S, m) => n = m
    BY <1>3, RankIsBijective
<1>7. \A k \in 1..N : \E n \in S : Rank(S, n) = k
    BY <1>3, RankIsBijective
<1> HIDE DEF N
<1>8. \A k \in 1..N : at[k] \in S /\ Rank(S, at[k]) = k
    BY <1>7
<1>9. at \in [1..N -> S]
    BY <1>8
<1>10. \A k, n \in 1..N : at[k] = at[n] => k = n
    BY <1>8
<1>11. \A n \in S : at[Rank(S, n)] = n
    BY <1>5, <1>6, <1>8
<1>12. Sublist(q, S) = [k \in 1..N |-> q[at[k]]]
    BY DEF Sublist, N
<1>13. \A k \in 1..N : q[at[k]] \in R
    BY <1>8, <1>1
<1> HIDE DEF at
<1>14. Sublist(q, S) \in Seq(R)
    BY <1>4, <1>12, <1>13
<1>15. Len(Sublist(q, S)) = N /\ DOMAIN Sublist(q, S) = 1..N
    BY <1>4, <1>12, <1>14
<1>16. \A k \in 1..N : Sublist(q, S)[k] = q[at[k]]
    BY <1>12
<1>17. \A n \in S : \E k \in 1..N : at[k] = n
    BY <1>5, <1>11
<1> QED
    BY <1>4, <1>9, <1>10, <1>14, <1>15, <1>16, <1>17 DEF N

\* Where the elements of a filtered list stood.
Places(q, S, at) ==
    /\ at \in [1..Cardinality(S) -> S]
    /\ \A k \in 1..Cardinality(S) : Sublist(q, S)[k] = q[at[k]]
    /\ \A k, n \in 1..Cardinality(S) : at[k] = at[n] => k = n
    /\ \A n \in S : \E k \in 1..Cardinality(S) : at[k] = n

\* SublistOf with the places under their name.
LEMMA SublistPlaces ==
    ASSUME NEW R, NEW q \in Seq(R), NEW S \in SUBSET DOMAIN q
    PROVE  \E at : Places(q, S, at)
<1>1. \E at \in [1..Cardinality(S) -> S] :
         /\ \A k \in 1..Cardinality(S) : Sublist(q, S)[k] = q[at[k]]
         /\ \A k, n \in 1..Cardinality(S) : at[k] = at[n] => k = n
         /\ \A n \in S : \E k \in 1..Cardinality(S) : at[k] = n
    BY SublistOf
<1> QED
    BY <1>1 DEF Places

-----------------------------------------------------------------------------
(* Sums. What a sum is for every length is shown by looking at the least    *)
(* place where it would not be so.                                          *)

\* A set of numbers that is not empty has a least one.
LEMMA LeastNumber ==
    ASSUME NEW T, T \subseteq Nat, T # {}
    PROVE  \E x \in T : \A y \in T : x <= y
<1>1. PICK x \in T : \A y \in T : ~(<<y, x>> \in OpToRel(<, Nat))
    BY WFMin, NatLessThanWellFounded
<1>2. ASSUME NEW y \in T, y < x PROVE FALSE
  <2>1. <<y, x>> \in Nat \X Nat /\ <<y, x>>[1] = y /\ <<y, x>>[2] = x
    OBVIOUS
  <2>2. <<y, x>> \in OpToRel(<, Nat)
    BY <1>2, <2>1, Zenon DEF OpToRel
  <2> QED
    BY <1>1, <2>2
<1> QED
    BY <1>2

\* The sums of a list's beginnings.
SumsOf(f, n, u) == u = [k \in 0..n |-> IF k = 0 THEN 0 ELSE u[k - 1] + f[k]]

\* There are such sums.
LEMMA SumsExist ==
    ASSUME NEW n \in Nat, NEW f \in [1..n -> Nat]
    PROVE  \E u \in [0..n -> Nat] : SumsOf(f, n, u)
<1> DEFINE P(m) == \E u \in [0..m -> Nat] : SumsOf(f, m, u)
           B == {m \in 0..n : ~P(m)}
<1>1. P(0)
  <2> DEFINE u == [k \in 0..0 |-> 0]
  <2>1. u \in [0..0 -> Nat] /\ SumsOf(f, 0, u)
    BY DEF SumsOf
  <2> QED
    BY <2>1
<1>2. ASSUME NEW m \in 0..n, m + 1 <= n, P(m) PROVE P(m + 1)
  <2>1. PICK u \in [0..m -> Nat] : SumsOf(f, m, u)
    BY <1>2
  <2> DEFINE v == [k \in 0..(m + 1) |-> IF k <= m THEN u[k] ELSE u[m] + f[m + 1]]
  <2>2. f[m + 1] \in Nat /\ u[m] \in Nat
    BY <1>2
  <2>3. v \in [0..(m + 1) -> Nat]
    BY <2>2
  <2>4. ASSUME NEW k \in 0..(m + 1) PROVE v[k] = IF k = 0 THEN 0 ELSE v[k - 1] + f[k]
    <3>1. CASE k = m + 1
      <4>1. v[k] = u[m] + f[k] /\ v[k - 1] = u[m] /\ k # 0
        BY <1>2, <3>1
      <4> QED
        BY <4>1
    <3>2. CASE k # m + 1 /\ k # 0
      <4>1. k \in 0..m /\ k - 1 \in 0..m /\ k <= m /\ k - 1 <= m
        BY <1>2, <3>2
      <4>2. v[k] = u[k] /\ v[k - 1] = u[k - 1]
        BY <4>1
      <4>3. u[k] = u[k - 1] + f[k]
        BY <2>1, <3>2, <4>1 DEF SumsOf
      <4> QED
        BY <3>2, <4>2, <4>3
    <3>3. CASE k = 0
      <4>1. v[k] = u[k] /\ 0 \in 0..m
        BY <1>2, <3>3
      <4>2. u[0] = 0
        BY <2>1, <4>1 DEF SumsOf
      <4> QED
        BY <3>3, <4>1, <4>2
    <3> QED
      BY <3>1, <3>2, <3>3
  <2> HIDE DEF v
  <2>5. v = [k \in 0..(m + 1) |-> IF k = 0 THEN 0 ELSE v[k - 1] + f[k]]
    BY <2>3, <2>4
  <2> QED
    BY <2>3, <2>5 DEF SumsOf
<1>3. B = {}
  <2> SUFFICES ASSUME B # {} PROVE FALSE
    OBVIOUS
  <2>1. PICK x \in B : \A y \in B : x <= y
    <3>1. B \subseteq Nat
      OBVIOUS
    <3> QED
      BY <3>1, LeastNumber
  <2> HIDE DEF P
  <2>2. x # 0 /\ x \in 0..n /\ ~P(x)
    BY <1>1
  <2>3. x - 1 \in 0..n /\ x - 1 \notin B /\ (x - 1) + 1 = x
    BY <2>1, <2>2
  <2>4. P(x - 1)
    BY <2>3
  <2> QED
    BY <1>2, <2>2, <2>3, <2>4
<1> HIDE DEF P
<1>4. P(n)
    BY <1>3
<1> QED
    BY <1>4 DEF P

\* A total is the last of these sums.
LEMMA TotalIs ==
    ASSUME NEW n \in Nat, NEW f \in [1..n -> Nat]
    PROVE  \E u : SumsOf(f, n, u) /\ Total(f, n) = u[n]
<1>1. \E u : SumsOf(f, n, u)
    BY SumsExist
<1> DEFINE w == CHOOSE u : u = [k \in 0..n |-> IF k = 0 THEN 0 ELSE u[k - 1] + f[k]]
<1>2. SumsOf(f, n, w)
    BY <1>1 DEF SumsOf
<1>3. Total(f, n) = w[n]
    BY DEF Total
<1> QED
    BY <1>2, <1>3

\* No summand is lower: neither is the total.
LEMMA TotalGrows ==
    ASSUME NEW n \in Nat, NEW f \in [1..n -> Nat], NEW g \in [1..n -> Nat], \A k \in 1..n : f[k] <= g[k]
    PROVE  Total(f, n) \in Nat /\ Total(g, n) \in Nat /\ Total(f, n) <= Total(g, n)
<1>1. PICK u : SumsOf(f, n, u) /\ Total(f, n) = u[n]
    BY TotalIs
<1>2. PICK v : SumsOf(g, n, v) /\ Total(g, n) = v[n]
    BY TotalIs
<1> DEFINE Q(k) == u[k] \in Nat /\ v[k] \in Nat /\ u[k] <= v[k]
           B == {k \in 0..n : ~Q(k)}
<1>3. u[0] = 0 /\ v[0] = 0 /\ \A k \in 1..n : u[k] = u[k - 1] + f[k] /\ v[k] = v[k - 1] + g[k]
    BY <1>1, <1>2 DEF SumsOf
<1>4. B = {}
  <2> SUFFICES ASSUME B # {} PROVE FALSE
    OBVIOUS
  <2>1. PICK x \in B : \A y \in B : x <= y
    <3>1. B \subseteq Nat
      OBVIOUS
    <3> QED
      BY <3>1, LeastNumber
  <2>2. x \in 1..n /\ ~Q(x)
    BY <1>3
  <2>3. Q(x - 1)
    BY <2>1, <2>2
  <2>4. f[x] \in Nat /\ g[x] \in Nat /\ f[x] <= g[x]
    BY <2>2
  <2>5. u[x] = u[x - 1] + f[x] /\ v[x] = v[x - 1] + g[x]
    BY <1>3, <2>2
  <2>6. Q(x)
    BY <2>3, <2>4, <2>5
  <2> QED
    BY <2>2, <2>6
<1>5. n \in 0..n
    OBVIOUS
<1> QED
    BY <1>1, <1>2, <1>4, <1>5

\* What holds at the beginning and goes on from each place to the next holds
\* at all places.
LEMMA StepByStep ==
    ASSUME NEW n \in Nat, NEW T, 0 \in T, \A k \in 0..n : k \in T /\ k < n => k + 1 \in T
    PROVE  0..n \subseteq T
<1> DEFINE B == {k \in 0..n : k \notin T}
<1> SUFFICES ASSUME B # {} PROVE FALSE
    OBVIOUS
<1>1. PICK x \in B : \A y \in B : x <= y
  <2>1. B \subseteq Nat
    OBVIOUS
  <2> QED
    BY <2>1, LeastNumber
<1>2. x \in 1..n /\ x \notin T
    OBVIOUS
<1>3. x - 1 \in 0..n /\ x - 1 < n /\ x - 1 \in T /\ (x - 1) + 1 = x
    BY <1>1, <1>2
<1> QED
    BY <1>2, <1>3

\* Sums, place by place.
LEMMA SumsAre ==
    ASSUME NEW n \in Nat, NEW f \in [1..n -> Nat], NEW u, SumsOf(f, n, u)
    PROVE  /\ u[0] = 0 /\ \A k \in 0..n : k < n => u[k + 1] = u[k] + f[k + 1]
           /\ \A k \in 0..n : u[k] \in Nat
<1>1. u[0] = 0 /\ \A k \in 1..n : u[k] = u[k - 1] + f[k]
    BY DEF SumsOf
<1>2. \A k \in 0..n : k < n => u[k + 1] = u[k] + f[k + 1]
  <2> SUFFICES ASSUME NEW k \in 0..n, k < n PROVE u[k + 1] = u[k] + f[k + 1]
    OBVIOUS
  <2>1. k + 1 \in 1..n /\ (k + 1) - 1 = k
    OBVIOUS
  <2> QED
    BY <1>1, <2>1
<1> DEFINE T == {k \in 0..n : u[k] \in Nat}
<1>3. 0 \in T
    BY <1>1
<1>4. ASSUME NEW k \in 0..n, k \in T, k < n PROVE k + 1 \in T
  <2>1. k + 1 \in 1..n /\ k + 1 \in 0..n /\ u[k] \in Nat
    BY <1>4
  <2>2. f[k + 1] \in Nat
    BY <2>1
  <2> QED
    BY <1>2, <1>4, <2>1, <2>2
<1> HIDE DEF T
<1>5. 0..n \subseteq T
    BY <1>3, <1>4, StepByStep
<1> QED
    BY <1>1, <1>2, <1>5 DEF T

\* A list that gets one more element.
LEMMA TotalLast ==
    ASSUME NEW n \in Nat, NEW f \in [1..(n + 1) -> Nat], NEW g \in [1..n -> Nat],
           \A k \in 1..n : f[k] = g[k]
    PROVE  Total(g, n) \in Nat /\ Total(f, n + 1) = Total(g, n) + f[n + 1]
<1>1. PICK u : SumsOf(f, n + 1, u) /\ Total(f, n + 1) = u[n + 1]
    BY TotalIs
<1>2. PICK v : SumsOf(g, n, v) /\ Total(g, n) = v[n]
    BY TotalIs
<1>3. u[0] = 0 /\ \A k \in 0..(n + 1) : k < n + 1 => u[k + 1] = u[k] + f[k + 1]
  <2> DEFINE N == n + 1
  <2>1. N \in Nat /\ f \in [1..N -> Nat] /\ SumsOf(f, N, u)
    BY <1>1
  <2> HIDE DEF N
  <2>2. u[0] = 0 /\ \A k \in 0..N : k < N => u[k + 1] = u[k] + f[k + 1]
    BY <2>1, SumsAre
  <2> QED
    BY <2>2 DEF N
<1>4. v[0] = 0 /\ (\A k \in 0..n : k < n => v[k + 1] = v[k] + g[k + 1]) /\ \A k \in 0..n : v[k] \in Nat
    BY <1>2, SumsAre
<1> DEFINE T == {k \in 0..n : u[k] = v[k]}
<1>5. 0 \in T
    BY <1>3, <1>4
<1>6. ASSUME NEW k \in 0..n, k \in T, k < n PROVE k + 1 \in T
  <2>1. k + 1 \in 1..n /\ k + 1 \in 0..n /\ k \in 0..(n + 1) /\ k < n + 1
    BY <1>6
  <2>2. u[k + 1] = u[k] + f[k + 1] /\ v[k + 1] = v[k] + g[k + 1] /\ f[k + 1] = g[k + 1]
    BY <1>3, <1>4, <1>6, <2>1
  <2> QED
    BY <1>6, <2>1, <2>2
<1> HIDE DEF T
<1>7. 0..n \subseteq T
    BY <1>5, <1>6, StepByStep
<1>8. u[n] = v[n]
    BY <1>7 DEF T
<1>9. n \in 0..(n + 1) /\ n < n + 1 /\ n \in 0..n
    OBVIOUS
<1> QED
    BY <1>1, <1>2, <1>3, <1>4, <1>8, <1>9

\* A list of zeros.
LEMMA TotalOfZeros ==
    ASSUME NEW n \in Nat, NEW f \in [1..n -> Nat], \A k \in 1..n : f[k] = 0
    PROVE  Total(f, n) = 0
<1>1. PICK u : SumsOf(f, n, u) /\ Total(f, n) = u[n]
    BY TotalIs
<1>2. u[0] = 0 /\ \A k \in 0..n : k < n => u[k + 1] = u[k] + f[k + 1]
    BY <1>1, SumsAre
<1> DEFINE T == {k \in 0..n : u[k] = 0}
<1>3. 0 \in T
    BY <1>2
<1>4. ASSUME NEW k \in 0..n, k \in T, k < n PROVE k + 1 \in T
    BY <1>2, <1>4
<1> HIDE DEF T
<1>5. 0..n \subseteq T
    BY <1>3, <1>4, StepByStep
<1> QED
    BY <1>1, <1>5 DEF T

\* A list that is moved by one place and loses its last element.
LEMMA TotalShifted ==
    ASSUME NEW n \in Nat \ {0}, NEW f \in [1..n -> Nat], NEW g \in [1..n -> Nat],
           \A k \in 1..n : g[k] = IF k = 1 THEN 0 ELSE f[k - 1]
    PROVE  Total(f, n) \in Nat /\ Total(g, n) \in Nat /\ Total(g, n) <= Total(f, n)
<1>1. PICK u : SumsOf(f, n, u) /\ Total(f, n) = u[n]
    BY TotalIs
<1>2. PICK v : SumsOf(g, n, v) /\ Total(g, n) = v[n]
    BY TotalIs
<1>3. /\ u[0] = 0 /\ \A k \in 0..n : k < n => u[k + 1] = u[k] + f[k + 1]
      /\ \A k \in 0..n : u[k] \in Nat
    BY <1>1, SumsAre
<1>4. /\ v[0] = 0 /\ \A k \in 0..n : k < n => v[k + 1] = v[k] + g[k + 1]
      /\ \A k \in 0..n : v[k] \in Nat
    BY <1>2, SumsAre
<1> DEFINE T == {k \in 0..n : k < n => v[k + 1] = u[k]}
<1>5. 0 \in T
    BY <1>3, <1>4
<1>6. ASSUME NEW k \in 0..n, k \in T, k < n PROVE k + 1 \in T
  <2>1. k + 1 \in 0..n /\ u[k + 1] = u[k] + f[k + 1] /\ v[k + 1] = u[k]
    BY <1>3, <1>6
  <2>2. ASSUME k + 1 < n PROVE v[(k + 1) + 1] = u[k + 1]
    <3>1. v[(k + 1) + 1] = v[k + 1] + g[(k + 1) + 1]
      BY <1>4, <2>1, <2>2
    <3>2. (k + 1) + 1 \in 1..n /\ (k + 1) + 1 # 1 /\ ((k + 1) + 1) - 1 = k + 1
      BY <2>2
    <3>3. g[(k + 1) + 1] = f[k + 1]
      BY <3>2
    <3> QED
      BY <2>1, <3>1, <3>3
  <2> QED
    BY <2>1, <2>2
<1> HIDE DEF T
<1>7. 0..n \subseteq T
    BY <1>5, <1>6, StepByStep
<1>8. n - 1 \in 0..n /\ n - 1 < n /\ (n - 1) + 1 = n /\ n \in 1..n /\ n \in 0..n
    OBVIOUS
<1>9. v[n] = u[n - 1] /\ u[n] = u[n - 1] + f[n] /\ f[n] \in Nat
    BY <1>3, <1>7, <1>8 DEF T
<1> QED
    BY <1>1, <1>2, <1>3, <1>4, <1>8, <1>9

\* The first element grows.
LEMMA TotalAdds ==
    ASSUME NEW n \in Nat \ {0}, NEW f \in [1..n -> Nat], NEW g \in [1..n -> Nat], NEW c \in Nat,
           \A k \in 1..n : g[k] = IF k = 1 THEN f[1] + c ELSE f[k]
    PROVE  Total(f, n) \in Nat /\ Total(g, n) = Total(f, n) + c
<1>1. PICK u : SumsOf(f, n, u) /\ Total(f, n) = u[n]
    BY TotalIs
<1>2. PICK v : SumsOf(g, n, v) /\ Total(g, n) = v[n]
    BY TotalIs
<1>3. /\ u[0] = 0 /\ \A k \in 0..n : k < n => u[k + 1] = u[k] + f[k + 1]
      /\ \A k \in 0..n : u[k] \in Nat
    BY <1>1, SumsAre
<1>4. v[0] = 0 /\ \A k \in 0..n : k < n => v[k + 1] = v[k] + g[k + 1]
    BY <1>2, SumsAre
<1> DEFINE T == {k \in 0..n : k # 0 => v[k] = u[k] + c}
<1>5. 0 \in T
    OBVIOUS
<1>6. ASSUME NEW k \in 0..n, k \in T, k < n PROVE k + 1 \in T
  <2>1. /\ k + 1 \in 1..n /\ k + 1 \in 0..n /\ u[k] \in Nat
        /\ u[k + 1] = u[k] + f[k + 1] /\ v[k + 1] = v[k] + g[k + 1]
    BY <1>3, <1>4, <1>6
  <2>2. f[k + 1] \in Nat
    BY <2>1
  <2>3. CASE k = 0
    <3>1. v[1] = v[0] + g[1] /\ u[1] = u[0] + f[1] /\ g[1] = f[1] + c
      BY <2>1, <2>3
    <3> QED
      BY <1>3, <1>4, <2>1, <2>2, <2>3, <3>1
  <2>4. CASE k # 0
    <3>1. g[k + 1] = f[k + 1] /\ v[k] = u[k] + c
      BY <1>6, <2>1, <2>4
    <3> QED
      BY <2>1, <2>2, <3>1
  <2> QED
    BY <2>3, <2>4
<1> HIDE DEF T
<1>7. 0..n \subseteq T
    BY <1>5, <1>6, StepByStep
<1>8. n \in 0..n /\ n # 0
    OBVIOUS
<1> QED
    BY <1>1, <1>2, <1>3, <1>7, <1>8 DEF T

-----------------------------------------------------------------------------
(* Products and sums over finite sets.                                      *)

\* One product, or sum, from those of smaller sets.
Factor(op, f, t, T) ==
    LET x == CHOOSE x \in T : TRUE
    IN IF op = "times" THEN IF T = {} THEN 1 ELSE f[x] * t[T \ {x}]
                       ELSE IF T = {} THEN 0 ELSE f[x] + t[T \ {x}]

\* A set without one of its elements.
LEMMA OneLess ==
    ASSUME NEW S, IsFiniteSet(S), NEW T \in SUBSET S
    PROVE  /\ Cardinality(T) \in 0..Cardinality(S) /\ Cardinality(S) \in Nat
           /\ T # {} => /\ (CHOOSE x \in T : TRUE) \in T
                        /\ T \ {CHOOSE x \in T : TRUE} \in SUBSET S
                        /\ Cardinality(T \ {CHOOSE x \in T : TRUE}) = Cardinality(T) - 1
           /\ T = {} <=> Cardinality(T) = 0
<1>1. IsFiniteSet(T) /\ Cardinality(T) <= Cardinality(S)
    BY FS_Subset
<1>2. Cardinality(T) \in Nat /\ Cardinality(S) \in Nat
    BY <1>1, FS_CardinalityType
<1>3. T = {} <=> Cardinality(T) = 0
    BY <1>1, FS_EmptySet
<1> DEFINE c == CHOOSE x \in T : TRUE
<1>4. T # {} => c \in T
    OBVIOUS
<1>5. \A x \in T : Cardinality(T \ {x}) = Cardinality(T) - 1
    BY <1>1, FS_RemoveElement
<1> HIDE DEF c
<1>6. T # {} => c \in T /\ T \ {c} \in SUBSET S /\ Cardinality(T \ {c}) = Cardinality(T) - 1
    BY <1>4, <1>5
<1>7. Cardinality(T) \in 0..Cardinality(S)
    BY <1>1, <1>2
<1> QED
    BY <1>2, <1>3, <1>6, <1>7 DEF c

Factors(op, f, S, t) == t = [T \in SUBSET S |-> Factor(op, f, t, T)]

\* There are such products.
LEMMA FactorsExist ==
    ASSUME NEW S, IsFiniteSet(S), NEW f, NEW op
    PROVE  \E t : Factors(op, f, S, t)
<1> DEFINE N == Cardinality(S)
           Upto(t, k) == \A T \in SUBSET S : Cardinality(T) <= k => t[T] = Factor(op, f, t, T)
           B == {k \in 0..N : \E t : Upto(t, k)}
<1>1. \A T \in SUBSET S :
        T # {} => /\ T \ {CHOOSE x \in T : TRUE} \in SUBSET S
                  /\ Cardinality(T \ {CHOOSE x \in T : TRUE}) = Cardinality(T) - 1
    BY OneLess
<1>2. N \in Nat
    BY FS_CardinalityType
<1>c. \A T \in SUBSET S : Cardinality(T) \in 0..N /\ (Cardinality(T) = 0 => T = {})
    BY OneLess
<1> HIDE DEF N
<1>3. 0 \in B
  <2> DEFINE t == [T \in SUBSET S |-> IF op = "times" THEN 1 ELSE 0]
  <2>1. Upto(t, 0)
    <3> SUFFICES ASSUME NEW T \in SUBSET S, Cardinality(T) <= 0 PROVE t[T] = Factor(op, f, t, T)
      OBVIOUS
    <3>1. T = {}
      BY <1>2, <1>c
    <3> QED
      BY <3>1 DEF Factor
  <2> HIDE DEF t, Upto
  <2> QED
    BY <1>2, <2>1
<1>4. ASSUME NEW k \in 0..N, k \in B, k < N PROVE k + 1 \in B
  <2>1. PICK t : Upto(t, k)
    BY <1>4
  <2> DEFINE s == [T \in SUBSET S |-> IF Cardinality(T) <= k THEN t[T] ELSE Factor(op, f, t, T)]
  <2>2. \A T \in SUBSET S : s[T] = Factor(op, f, t, T)
    BY <2>1
  <2>3. \A T \in SUBSET S : Cardinality(T) <= k => s[T] = t[T]
    OBVIOUS
  <2> HIDE DEF s
  <2>4. ASSUME NEW T \in SUBSET S, Cardinality(T) <= k + 1 PROVE s[T] = Factor(op, f, s, T)
    <3> DEFINE c == CHOOSE x \in T : TRUE
    <3>1. CASE T = {}
      BY <2>2, <3>1 DEF Factor
    <3>2. CASE T # {}
      <4>1. T \ {c} \in SUBSET S /\ Cardinality(T \ {c}) = Cardinality(T) - 1 /\ Cardinality(T) \in 0..N
        BY <1>1, <1>c, <3>2
      <4>2. s[T \ {c}] = t[T \ {c}] => Factor(op, f, s, T) = Factor(op, f, t, T)
        BY <3>2 DEF Factor
      <4> HIDE DEF c
      <4>3. Cardinality(T \ {c}) <= k
        BY <1>2, <2>4, <4>1
      <4>4. s[T \ {c}] = t[T \ {c}]
        BY <2>3, <4>1, <4>3
      <4> QED
        BY <2>2, <4>2, <4>4
    <3> QED
      BY <3>1, <3>2
  <2>5. Upto(s, k + 1)
    BY <2>4
  <2> HIDE DEF Upto
  <2> QED
    BY <1>2, <1>4, <2>5
<1>5. N \in B
  <2> HIDE DEF B
  <2>1. 0..N \subseteq B
    BY <1>2, <1>3, <1>4, StepByStep
  <2> QED
    BY <1>2, <2>1
<1>6. PICK t : \A T \in SUBSET S : t[T] = Factor(op, f, t, T)
  <2>1. PICK t : Upto(t, N)
    BY <1>5
  <2>2. \A T \in SUBSET S : Cardinality(T) <= N
    BY <1>2, <1>c
  <2> QED
    BY <2>1, <2>2
<1> DEFINE s == [T \in SUBSET S |-> t[T]]
<1>7. ASSUME NEW T \in SUBSET S PROVE Factor(op, f, s, T) = Factor(op, f, t, T)
  <2>1. T \ {CHOOSE x \in T : TRUE} \in SUBSET S
    OBVIOUS
  <2> QED
    BY <2>1 DEF Factor
<1>8. s = [T \in SUBSET S |-> Factor(op, f, s, T)]
    BY <1>6, <1>7
<1> QED
    BY <1>8 DEF Factors

\* A product is built from those of smaller sets.
LEMMA ProductIs ==
    ASSUME NEW S, IsFiniteSet(S), NEW f
    PROVE  \E t : ProductOf(f, S) = t[S] /\ Factors("times", f, S, t)
<1> DEFINE w == CHOOSE t : t = [T \in SUBSET S |-> IF T = {} THEN 1
                   ELSE LET x == CHOOSE x \in T : TRUE IN f[x] * t[T \ {x}]]
<1>1. ProductOf(f, S) = w[S]
    BY DEF ProductOf
<1>2. w = CHOOSE t : Factors("times", f, S, t)
    BY DEF Factors, Factor
<1> HIDE DEF w
<1>3. \E t : Factors("times", f, S, t)
    BY FactorsExist
<1>4. Factors("times", f, S, w)
    BY <1>2, <1>3
<1> QED
    BY <1>1, <1>4

\* Products of numbers that are not greater are not greater.
LEMMA ProductsOfNumbers ==
    ASSUME NEW a \in Nat, NEW b \in Nat, NEW c \in Nat, NEW d \in Nat, a <= b, c <= d
    PROVE  a * c \in Nat /\ b * d \in Nat /\ a * c <= b * d /\ (b > 0 /\ d > 0 => b * d > 0)
<1>1. a * c <= b * c
    OBVIOUS
<1>2. b * c <= b * d
    OBVIOUS
<1> QED
    BY <1>1, <1>2

\* No factor is lower: neither is the product.
LEMMA ProductGrows ==
    ASSUME NEW S, IsFiniteSet(S), NEW f \in [S -> Nat], NEW g \in [S -> Nat],
           \A x \in S : f[x] <= g[x]
    PROVE  /\ ProductOf(f, S) \in Nat /\ ProductOf(g, S) \in Nat
           /\ ProductOf(f, S) <= ProductOf(g, S)
           /\ (\A x \in S : g[x] > 0) => ProductOf(g, S) > 0
<1>f. PICK t : ProductOf(f, S) = t[S] /\ Factors("times", f, S, t)
    BY ProductIs
<1>g. PICK v : ProductOf(g, S) = v[S] /\ Factors("times", g, S, v)
    BY ProductIs
<1>1. \A T \in SUBSET S : t[T] = Factor("times", f, t, T)
    BY <1>f DEF Factors
<1>2. \A T \in SUBSET S : v[T] = Factor("times", g, v, T)
    BY <1>g DEF Factors
<1> DEFINE N == Cardinality(S)
           pos == \A x \in S : g[x] > 0
           Good(T) == t[T] \in Nat /\ v[T] \in Nat /\ t[T] <= v[T] /\ (pos => v[T] > 0)
           B == {k \in 0..N : \A T \in SUBSET S : Cardinality(T) <= k => Good(T)}
<1>3. \A T \in SUBSET S :
        T # {} => /\ (CHOOSE x \in T : TRUE) \in T
                  /\ T \ {CHOOSE x \in T : TRUE} \in SUBSET S
                  /\ Cardinality(T \ {CHOOSE x \in T : TRUE}) = Cardinality(T) - 1
    BY OneLess
<1>c. \A T \in SUBSET S : Cardinality(T) \in 0..N /\ (Cardinality(T) = 0 => T = {})
    BY OneLess
<1>4. N \in Nat
    BY FS_CardinalityType
<1> HIDE DEF N, pos
<1>5. ASSUME NEW T \in SUBSET S, T = {} PROVE Good(T)
  <2>1. t[T] = 1 /\ v[T] = 1
    BY <1>1, <1>2, <1>5 DEF Factor
  <2> QED
    BY <2>1
<1>6. 0 \in B
  <2>1. \A T \in SUBSET S : Cardinality(T) <= 0 => T = {}
    BY <1>4, <1>c
  <2> HIDE DEF Good
  <2> QED
    BY <1>4, <1>5, <2>1
<1>7. ASSUME NEW k \in 0..N, k \in B, k < N PROVE k + 1 \in B
  <2>1. ASSUME NEW T \in SUBSET S, Cardinality(T) <= k + 1, T # {} PROVE Good(T)
    <3> DEFINE c == CHOOSE x \in T : TRUE
               U == T \ {c}
    <3>1. c \in S /\ U \in SUBSET S /\ Cardinality(U) = Cardinality(T) - 1 /\ Cardinality(T) \in 0..N
      BY <1>3, <1>c, <2>1
    <3>2. t[T] = f[c] * t[U] /\ v[T] = g[c] * v[U]
      BY <1>1, <1>2, <2>1 DEF Factor
    <3> HIDE DEF c, U
    <3>3. Cardinality(U) <= k
      BY <1>4, <2>1, <3>1
    <3>4. Good(U)
      BY <1>7, <3>1, <3>3
    <3>5. f[c] \in Nat /\ g[c] \in Nat /\ f[c] <= g[c] /\ (pos => g[c] > 0)
      BY <3>1 DEF pos
    <3> QED
      BY <3>2, <3>4, <3>5, ProductsOfNumbers
  <2> HIDE DEF Good
  <2>2. \A T \in SUBSET S : Cardinality(T) <= k + 1 => Good(T)
    BY <1>5, <2>1
  <2> QED
    BY <1>4, <1>7, <2>2
<1>8. N \in B
  <2> HIDE DEF B
  <2>1. 0..N \subseteq B
    BY <1>4, <1>6, <1>7, StepByStep
  <2> QED
    BY <1>4, <2>1
<1>9. Good(S)
  <2>1. S \in SUBSET S /\ N \in 0..N /\ N <= N /\ Cardinality(S) = N
    BY <1>4 DEF N
  <2> HIDE DEF Good
  <2> QED
    BY <1>8, <2>1
<1> QED
    BY <1>f, <1>g, <1>9 DEF pos

\* A sum is built from those of smaller sets.
LEMMA SumIs ==
    ASSUME NEW S, IsFiniteSet(S), NEW f
    PROVE  \E t : SumOver(f, S) = t[S] /\ Factors("plus", f, S, t)
<1> DEFINE w == CHOOSE t : t = [T \in SUBSET S |-> IF T = {} THEN 0
                   ELSE LET x == CHOOSE x \in T : TRUE IN f[x] + t[T \ {x}]]
<1>1. SumOver(f, S) = w[S]
    BY DEF SumOver
<1>2. w = CHOOSE t : Factors("plus", f, S, t)
    BY DEF Factors, Factor
<1> HIDE DEF w
<1>3. \E t : Factors("plus", f, S, t)
    BY FactorsExist
<1>4. Factors("plus", f, S, w)
    BY <1>2, <1>3
<1> QED
    BY <1>1, <1>4

\* What holds of a set when it holds of its proper subsets holds of all
\* subsets of a finite set.
LEMMA SetBySubsets ==
    ASSUME NEW S, IsFiniteSet(S), NEW G,
           \A T \in SUBSET S : (\A U \in SUBSET T : U # T => U \in G) => T \in G
    PROVE  SUBSET S \subseteq G
<1> DEFINE N == Cardinality(S)
           B == {k \in 0..N : \A T \in SUBSET S : Cardinality(T) <= k => T \in G}
<1>1. N \in Nat
    BY FS_CardinalityType
<1>2. \A T \in SUBSET S : IsFiniteSet(T) /\ Cardinality(T) \in 0..N /\ (Cardinality(T) = 0 => T = {})
    BY OneLess, FS_Subset
<1>3. ASSUME NEW T \in SUBSET S, NEW U \in SUBSET T, U # T
      PROVE  U \in SUBSET S /\ Cardinality(U) < Cardinality(T)
  <2>1. IsFiniteSet(T) /\ Cardinality(T) \in Nat /\ U \in SUBSET S
    BY <1>1, <1>2
  <2>2. Cardinality(U) <= Cardinality(T) /\ Cardinality(U) # Cardinality(T)
    BY <1>3, <2>1, FS_Subset
  <2>3. Cardinality(U) \in Nat
    BY <1>1, <1>2, <2>1
  <2> QED
    BY <2>1, <2>2, <2>3
<1> HIDE DEF N
<1>4. 0 \in B
  <2>1. ASSUME NEW T \in SUBSET S, Cardinality(T) <= 0 PROVE T \in G
    <3>1. T = {}
      BY <1>1, <1>2, <2>1
    <3> QED
      BY <3>1
  <2> QED
    BY <1>1, <2>1
<1>5. ASSUME NEW k \in 0..N, k \in B, k < N PROVE k + 1 \in B
  <2>1. ASSUME NEW T \in SUBSET S, Cardinality(T) <= k + 1 PROVE T \in G
    <3>1. ASSUME NEW U \in SUBSET T, U # T PROVE U \in G
      <4>1. U \in SUBSET S /\ Cardinality(U) < Cardinality(T)
        BY <1>3, <3>1
      <4>2. Cardinality(U) \in 0..N /\ Cardinality(T) \in 0..N
        BY <1>2, <4>1
      <4>3. Cardinality(U) <= k
        BY <1>1, <2>1, <4>1, <4>2
      <4> QED
        BY <1>5, <4>1, <4>3
    <3> QED
      BY <3>1
  <2> QED
    BY <1>1, <1>5, <2>1
<1>6. N \in B
  <2> HIDE DEF B
  <2>1. 0..N \subseteq B
    BY <1>1, <1>4, <1>5, StepByStep
  <2> QED
    BY <1>1, <2>1
<1>7. \A T \in SUBSET S : Cardinality(T) <= N
    BY <1>1, <1>2
<1> QED
    BY <1>6, <1>7

\* The sum of a set from that of the set without the element chosen first.
LEMMA SumUnfolds ==
    ASSUME NEW S, IsFiniteSet(S), NEW f
    PROVE  /\ S = {} => SumOver(f, S) = 0
           /\ S # {} => LET x == CHOOSE x \in S : TRUE
                        IN x \in S /\ SumOver(f, S) = f[x] + SumOver(f, S \ {x})
<1>1. PICK t : SumOver(f, S) = t[S] /\ Factors("plus", f, S, t)
    BY SumIs
<1>2. \A T \in SUBSET S : t[T] = Factor("plus", f, t, T)
    BY <1>1 DEF Factors
<1>3. S = {} => SumOver(f, S) = 0
    BY <1>1, <1>2 DEF Factor
<1> DEFINE x == CHOOSE x \in S : TRUE
           R == S \ {x}
<1>4. S # {} => x \in S /\ SumOver(f, S) = f[x] + t[R]
    BY <1>1, <1>2 DEF Factor
<1> HIDE DEF x
<1>5. IsFiniteSet(R)
    BY FS_Subset
<1>6. PICK u : SumOver(f, R) = u[R] /\ Factors("plus", f, R, u)
    BY <1>5, SumIs
<1>7. \A T \in SUBSET R : u[T] = Factor("plus", f, u, T)
    BY <1>6 DEF Factors
<1>8. \A T \in SUBSET R : t[T] = Factor("plus", f, t, T)
    BY <1>2
<1> HIDE DEF R
<1> DEFINE G == {T \in SUBSET R : t[T] = u[T]}
<1>9. ASSUME NEW T \in SUBSET R, \A U \in SUBSET T : U # T => U \in G PROVE T \in G
  <2> DEFINE c == CHOOSE c \in T : TRUE
  <2>1. CASE T = {}
    BY <1>7, <1>8, <2>1 DEF Factor
  <2>2. CASE T # {}
    <3>1. c \in T
      BY <2>2
    <3>2. T \ {c} \in SUBSET T /\ T \ {c} # T
      BY <3>1
    <3>3. t[T \ {c}] = u[T \ {c}]
      BY <1>9, <3>2
    <3>4. t[T] = f[c] + t[T \ {c}] /\ u[T] = f[c] + u[T \ {c}]
      BY <1>7, <1>8, <2>2 DEF Factor
    <3> QED
      BY <3>3, <3>4
  <2> QED
    BY <2>1, <2>2
<1>10. SUBSET R \subseteq G
  <2> HIDE DEF G
  <2> QED
    BY <1>5, <1>9, SetBySubsets
<1>11. t[R] = u[R]
    BY <1>10
<1> QED
    BY <1>3, <1>4, <1>6, <1>11 DEF x, R

\* Sums of numbers are numbers, and any element may be taken first.
LEMMA SumTakesOne ==
    ASSUME NEW S, IsFiniteSet(S), NEW f, \A x \in S : f[x] \in Nat
    PROVE  /\ SumOver(f, S) \in Nat
           /\ \A x \in S : SumOver(f, S) = f[x] + SumOver(f, S \ {x}) /\ SumOver(f, S \ {x}) \in Nat
<1>1. \A T \in SUBSET S : IsFiniteSet(T)
    BY FS_Subset
<1> DEFINE G == {T \in SUBSET S : SumOver(f, T) \in Nat}
<1>2. ASSUME NEW T \in SUBSET S, \A U \in SUBSET T : U # T => U \in G PROVE T \in G
  <2> DEFINE c == CHOOSE c \in T : TRUE
  <2>1. CASE T = {}
    BY <2>1, <1>1, SumUnfolds
  <2>2. CASE T # {}
    <3>1. c \in T /\ SumOver(f, T) = f[c] + SumOver(f, T \ {c})
      BY <1>1, <2>2, SumUnfolds
    <3> HIDE DEF c
    <3>2. T \ {c} \in SUBSET T /\ T \ {c} # T
      BY <3>1
    <3>3. SumOver(f, T \ {c}) \in Nat
      BY <1>2, <3>2
    <3> QED
      BY <3>1, <3>3
  <2> QED
    BY <2>1, <2>2
<1>3. SUBSET S \subseteq G
  <2> HIDE DEF G
  <2> QED
    BY <1>2, SetBySubsets
<1>4. \A T \in SUBSET S : SumOver(f, T) \in Nat
    BY <1>3
<1> HIDE DEF G
<1> DEFINE H == {T \in SUBSET S : \A x \in T : SumOver(f, T) = f[x] + SumOver(f, T \ {x})}
<1>5. ASSUME NEW T \in SUBSET S, \A U \in SUBSET T : U # T => U \in H, NEW x \in T
      PROVE  SumOver(f, T) = f[x] + SumOver(f, T \ {x})
  <2> DEFINE c == CHOOSE c \in T : TRUE
  <2>1. c \in T /\ SumOver(f, T) = f[c] + SumOver(f, T \ {c})
    BY <1>1, SumUnfolds
  <2> HIDE DEF c
  <2>2. CASE x = c
    BY <2>1, <2>2
  <2>3. CASE x # c
    <3> DEFINE V == (T \ {c}) \ {x}
    <3>1. T \ {c} \in SUBSET T /\ T \ {c} # T /\ x \in T \ {c}
      BY <2>1, <2>3
    <3>2. T \ {x} \in SUBSET T /\ T \ {x} # T /\ c \in T \ {x} /\ (T \ {x}) \ {c} = V
      BY <2>1, <2>3
    <3>3. T \ {c} \in H /\ T \ {x} \in H
      BY <1>5, <3>1, <3>2
    <3>4. SumOver(f, T \ {c}) = f[x] + SumOver(f, V)
      BY <3>1, <3>3
    <3>5. SumOver(f, T \ {x}) = f[c] + SumOver(f, V)
      BY <3>2, <3>3
    <3>6. SumOver(f, V) \in Nat /\ f[x] \in Nat /\ f[c] \in Nat
      BY <1>4, <2>1
    <3> HIDE DEF V
    <3> QED
      BY <2>1, <3>4, <3>5, <3>6
  <2> QED
    BY <2>2, <2>3
<1>6. SUBSET S \subseteq H
  <2>1. \A T \in SUBSET S : (\A U \in SUBSET T : U # T => U \in H) => T \in H
    BY <1>5
  <2> HIDE DEF H
  <2> QED
    BY <2>1, SetBySubsets
<1>7. S \in H
    BY <1>6
<1> QED
    BY <1>4, <1>7

\* The sum of two sets without common elements, and that of a greater set.
LEMMA SumOfBoth ==
    ASSUME NEW A, NEW B, IsFiniteSet(A), IsFiniteSet(B), A \cap B = {}, NEW f, \A x \in A \cup B : f[x] \in Nat
    PROVE  /\ SumOver(f, A \cup B) = SumOver(f, A) + SumOver(f, B)
           /\ SumOver(f, A) \in Nat /\ SumOver(f, B) \in Nat /\ SumOver(f, A) <= SumOver(f, A \cup B)
<1>1. SumOver(f, A) \in Nat /\ SumOver(f, B) \in Nat
    BY SumTakesOne
<1> DEFINE G == {T \in SUBSET B : SumOver(f, A \cup T) = SumOver(f, A) + SumOver(f, T)}
<1>2. ASSUME NEW T \in SUBSET B, \A U \in SUBSET T : U # T => U \in G PROVE T \in G
  <2>1. CASE T = {}
    <3>1. SumOver(f, T) = 0 /\ A \cup T = A
      BY <2>1, FS_EmptySet, SumUnfolds
    <3> QED
      BY <1>1, <3>1
  <2>2. CASE T # {}
    <3>1. PICK x \in T : TRUE
      BY <2>2
    <3> DEFINE V == T \ {x}
               W == A \cup T
    <3>2. V \in G /\ W \ {x} = A \cup V /\ x \in W
      BY <1>2, <3>1
    <3>3. IsFiniteSet(T) /\ IsFiniteSet(W)
      BY FS_Subset, FS_Union
    <3>4. SumOver(f, W) = f[x] + SumOver(f, W \ {x})
      <4> HIDE DEF W
      <4>1. \A y \in W : f[y] \in Nat
        BY DEF W
      <4> QED
        BY <3>2, <3>3, <4>1, SumTakesOne
    <3>5. SumOver(f, T) = f[x] + SumOver(f, V) /\ SumOver(f, V) \in Nat
      BY <3>1, <3>3, SumTakesOne
    <3>6. SumOver(f, A \cup V) = SumOver(f, A) + SumOver(f, V)
      BY <3>2
    <3>7. f[x] \in Nat
      BY <3>1
    <3>8. SumOver(f, W) = f[x] + (SumOver(f, A) + SumOver(f, V))
      BY <3>2, <3>4, <3>6
    <3> HIDE DEF V
    <3>9. SumOver(f, W) = SumOver(f, A) + SumOver(f, T)
      <4> HIDE DEF W
      <4> QED
        BY <1>1, <3>5, <3>7, <3>8
    <3> QED
      BY <3>9
  <2> QED
    BY <2>1, <2>2
<1>3. SUBSET B \subseteq G
  <2> HIDE DEF G
  <2> QED
    BY <1>2, SetBySubsets
<1>4. B \in G
    BY <1>3
<1> QED
    BY <1>1, <1>4

LEMMA SumOfMore ==
    ASSUME NEW A, NEW B, IsFiniteSet(B), A \subseteq B, NEW f, \A x \in B : f[x] \in Nat
    PROVE  SumOver(f, A) \in Nat /\ SumOver(f, B) \in Nat /\ SumOver(f, A) <= SumOver(f, B)
<1> DEFINE C == B \ A
<1>1. IsFiniteSet(A) /\ IsFiniteSet(C) /\ A \cap C = {} /\ A \cup C = B
    BY FS_Subset
<1> HIDE DEF C
<1>2. SumOver(f, A) \in Nat /\ SumOver(f, C) \in Nat /\ SumOver(f, A) <= SumOver(f, A \cup C)
    BY <1>1, SumOfBoth
<1>3. SumOver(f, B) \in Nat
    BY SumTakesOne
<1> QED
    BY <1>1, <1>2, <1>3

\* The elements that have the key k, and those that have one of the keys L.
WithKey(S, key, k) == {i \in S : key[i] = k}
WithKeys(S, key, L) == {i \in S : key[i] \in L}
Keys(S, key) == {key[i] : i \in S}

\* Finitely many elements have finitely many keys.
LEMMA KeysAreFinite ==
    ASSUME NEW S, IsFiniteSet(S), NEW key
    PROVE  IsFiniteSet(Keys(S, key))
<1> DEFINE G == {T \in SUBSET S : IsFiniteSet(Keys(T, key))}
<1>1. ASSUME NEW T \in SUBSET S, \A U \in SUBSET T : U # T => U \in G PROVE T \in G
  <2>1. CASE T = {}
    <3>1. Keys(T, key) = {}
      BY <2>1 DEF Keys
    <3> QED
      BY <3>1, FS_EmptySet
  <2>2. CASE T # {}
    <3>1. PICK x \in T : TRUE
      BY <2>2
    <3>2. T \ {x} \in G
      BY <1>1, <3>1
    <3>3. Keys(T, key) = Keys(T \ {x}, key) \cup {key[x]}
      BY <3>1 DEF Keys
    <3>4. IsFiniteSet({key[x]})
      BY FS_Singleton
    <3>5. IsFiniteSet(Keys(T \ {x}, key) \cup {key[x]})
      BY <3>2, <3>4, FS_Union
    <3> QED
      BY <3>3, <3>5
  <2> QED
    BY <2>1, <2>2
<1>2. SUBSET S \subseteq G
  <2> HIDE DEF G
  <2> QED
    BY <1>1, SetBySubsets
<1> QED
    BY <1>2

\* What the groups of a key add up to is what their elements add up to.
LEMMA SumByKey ==
    ASSUME NEW S, IsFiniteSet(S), NEW f, \A i \in S : f[i] \in Nat,
           NEW key, NEW L, IsFiniteSet(L), NEW b,
           \A k \in L : b[k] = SumOver(f, WithKey(S, key, k))
    PROVE  SumOver(b, L) = SumOver(f, WithKeys(S, key, L))
<1> DEFINE Of(T) == WithKeys(S, key, T)
           One(k) == WithKey(S, key, k)
<1>1. \A T : IsFiniteSet(Of(T)) /\ IsFiniteSet(One(T))
    BY FS_Subset DEF WithKey, WithKeys
<1>2. \A T : (\A i \in Of(T) : f[i] \in Nat) /\ (\A i \in One(T) : f[i] \in Nat)
    BY DEF WithKey, WithKeys
<1>3. \A k \in L : b[k] = SumOver(f, One(k))
    OBVIOUS
<1>4. \A T, k : k \in T => Of(T) = One(k) \cup Of(T \ {k}) /\ One(k) \cap Of(T \ {k}) = {}
    BY DEF WithKey, WithKeys
<1>5. Of({}) = {}
    BY DEF WithKeys
<1> HIDE DEF Of, One
<1>6. \A k \in L : b[k] \in Nat
    BY <1>1, <1>2, <1>3, SumTakesOne
<1> DEFINE G == {T \in SUBSET L : SumOver(b, T) = SumOver(f, Of(T))}
<1>7. ASSUME NEW T \in SUBSET L, \A U \in SUBSET T : U # T => U \in G PROVE T \in G
  <2>1. CASE T = {}
    <3>1. SumOver(b, {}) = 0 /\ SumOver(f, {}) = 0
      BY FS_EmptySet, SumUnfolds
    <3> QED
      BY <1>5, <2>1, <3>1
  <2>2. CASE T # {}
    <3>1. PICK k \in T : TRUE
      BY <2>2
    <3> DEFINE V == T \ {k}
    <3>2. V \in G
      BY <1>7, <3>1
    <3>3. IsFiniteSet(T)
      BY FS_Subset
    <3>4. SumOver(b, T) = b[k] + SumOver(b, V)
      BY <1>6, <3>1, <3>3, SumTakesOne
    <3>5. Of(T) = One(k) \cup Of(V) /\ One(k) \cap Of(V) = {}
      BY <1>4, <3>1
    <3> HIDE DEF V
    <3>6. \A i \in One(k) \cup Of(V) : f[i] \in Nat
      BY <1>2
    <3>7. SumOver(f, One(k) \cup Of(V)) = SumOver(f, One(k)) + SumOver(f, Of(V))
      BY <1>1, <3>5, <3>6, SumOfBoth
    <3> QED
      BY <1>3, <3>1, <3>2, <3>4, <3>5, <3>7
  <2> QED
    BY <2>1, <2>2
<1>8. SUBSET L \subseteq G
  <2> HIDE DEF G
  <2> QED
    BY <1>7, SetBySubsets
<1>9. L \in G
    BY <1>8
<1> QED
    BY <1>9 DEF Of
=============================================================================
