----------------------------- MODULE Sums_proofs -----------------------------
(***************************************************************************)
(* Induction, and what it shows of recursion along an interval: what SumTo *)
(* computes, for every function and every length, what Nth and Ascending   *)
(* make of any finite set of naturals, and Joined of any rows.             *)
(***************************************************************************)
EXTENDS Rows, FiniteSetTheorems, TLAPS

\* Induction over the naturals, for a set. Were some number not in T, there
\* would be a shortest interval 0 .. m that ends in one.
LEMMA SetInduction ==
  ASSUME NEW T \in SUBSET Nat, 0 \in T, \A n \in T : n + 1 \in T
  PROVE  T = Nat
<1> SUFFICES ASSUME T # Nat PROVE FALSE
  OBVIOUS
<1> DEFINE I == {0 .. m : m \in Nat \ T}
           R == StrictSubsetOrdering(Nat)
           F == FiniteSubsetsOf(Nat)
<1>1. I \subseteq F /\ I # {}
  <2>1. \A m \in Nat : 0 .. m \subseteq Nat /\ IsFiniteSet(0 .. m)
    BY FS_Interval
  <2> QED
    BY <2>1 DEF FiniteSubsetsOf
<1>2. IsWellFoundedOn(R, F)
  BY FS_StrictSubsetOrderingWellFounded
<1> HIDE DEF I, R, F
<1>3. PICK x \in I : \A y \in I : <<y, x>> \notin R
  BY <1>1, <1>2, WFMin
<1>4. PICK m \in Nat \ T : x = 0 .. m
  BY DEF I
<1>5. m # 0 /\ m - 1 \in Nat
  BY <1>4
<1>6. m - 1 \in T
  <2> SUFFICES ASSUME m - 1 \notin T PROVE FALSE
    OBVIOUS
  <2>1. 0 .. (m - 1) \in I
    BY <1>5 DEF I
  <2>2. 0 .. (m - 1) \subseteq 0 .. m /\ 0 .. (m - 1) # 0 .. m /\ 0 .. m \subseteq Nat
    BY <1>5
  <2>3. <<0 .. (m - 1), 0 .. m>> \in R
    BY <2>2 DEF R, StrictSubsetOrdering
  <2> QED
    BY <1>3, <1>4, <2>1, <2>3
<1> QED
  BY <1>4, <1>5, <1>6

\* Every set of naturals has a least element.
LEMMA LeastNat ==
  ASSUME NEW S \in SUBSET Nat, S # {}
  PROVE  \E x \in S : \A y \in S : x <= y
<1> SUFFICES ASSUME \A x \in S : \E y \in S : y < x PROVE FALSE
  OBVIOUS
<1> DEFINE T == {n \in Nat : \A y \in S : y > n}
<1>1. 0 \in T
  OBVIOUS
<1>2. ASSUME NEW n \in T PROVE n + 1 \in T
  <2>1. \A y \in S : y >= n + 1
    OBVIOUS
  <2>2. n + 1 \notin S
    BY <2>1
  <2> QED
    BY <2>1, <2>2
<1> HIDE DEF T
<1>3. T \in SUBSET Nat
  BY DEF T
<1>4. T = Nat
  BY <1>1, <1>2, <1>3, SetInduction
<1>5. \A n \in Nat : \A y \in S : y > n
  BY <1>4 DEF T
<1>6. PICK x \in S : TRUE
  OBVIOUS
<1>7. x \in Nat /\ x > x
  BY <1>5
<1> QED
  BY <1>7

\* What is stepped along 0 .. n, each value from the one before, stays where the
\* steps do.
Stepped(g, first, advance, V, n) ==
  /\ g \in [0 .. n -> V] /\ g[0] = first
  /\ \A k \in 1 .. n : g[k] = advance[<<k, g[k - 1]>>]
THEOREM BoundedRecursion ==
  ASSUME NEW n \in Nat, NEW V, NEW first \in V, NEW advance,
         \A k \in 1 .. n : \A v \in V : advance[<<k, v>>] \in V
  PROVE  \E g : Stepped(g, first, advance, V, n)
<1> DEFINE T == {m \in Nat : m <= n => \E g : Stepped(g, first, advance, V, m)}
<1>1. 0 \in T
  <2>1. Stepped([k \in 0 .. 0 |-> first], first, advance, V, 0)
    BY DEF Stepped
  <2> QED
    BY <2>1
<1>2. ASSUME NEW m \in T PROVE m + 1 \in T
  <2>1. m \in Nat /\ m + 1 \in Nat
    OBVIOUS
  <2> SUFFICES ASSUME m + 1 <= n PROVE \E g : Stepped(g, first, advance, V, m + 1)
    BY <2>1
  <2>2. PICK g : Stepped(g, first, advance, V, m)
    BY <2>1
  <2> DEFINE h == [k \in 0 .. m + 1 |-> IF k \in 0 .. m THEN g[k] ELSE advance[<<m + 1, g[m]>>]]
  <2>3. g \in [0 .. m -> V] /\ g[m] \in V /\ m + 1 \in 1 .. n
    BY <2>1, <2>2 DEF Stepped
  <2>4. advance[<<m + 1, g[m]>>] \in V
    BY <2>3
  <2>5. h \in [0 .. m + 1 -> V] /\ h[0] = first
    BY <2>1, <2>2, <2>3, <2>4 DEF Stepped
  <2>6. \A k \in 0 .. m : h[k] = g[k]
    BY <2>1
  <2>7. h[m + 1] = advance[<<m + 1, g[m]>>]
    BY <2>1
  <2> HIDE DEF h
  <2>8. ASSUME NEW k \in 1 .. m + 1 PROVE h[k] = advance[<<k, h[k - 1]>>]
    <3>1. CASE k \in 1 .. m
      <4>1. k \in 0 .. m /\ k - 1 \in 0 .. m
        BY <2>1, <3>1
      <4>2. g[k] = advance[<<k, g[k - 1]>>]
        BY <2>2, <3>1 DEF Stepped
      <4> QED
        BY <2>6, <4>1, <4>2
    <3>2. CASE k = m + 1
      <4>1. k - 1 = m /\ m \in 0 .. m
        BY <2>1, <3>2
      <4> QED
        BY <2>6, <2>7, <3>2, <4>1
    <3> QED
      BY <2>1, <3>1, <3>2
  <2> QED
    BY <2>5, <2>8 DEF Stepped
<1> HIDE DEF T
<1>3. T \in SUBSET Nat
  BY DEF T
<1>4. T = Nat
  BY <1>1, <1>2, <1>3, SetInduction
<1> QED
  BY <1>4 DEF T

\* A finite stretch of the running sum of f.
Running(f, g, m) ==
  g = [k \in 0 .. m |-> IF k = 0 THEN 0 ELSE g[k - 1] + f[k - 1]]

LEMMA RunningExists ==
  ASSUME NEW f PROVE \A m \in Nat : \E g : Running(f, g, m)
<1> DEFINE T == {m \in Nat : \E g : Running(f, g, m)}
<1>1. 0 \in T
  <2>1. Running(f, [k \in 0 .. 0 |-> 0], 0)
    BY DEF Running
  <2> QED
    BY <2>1
<1>2. ASSUME NEW n \in T PROVE n + 1 \in T
  <2>1. PICK g : g = [k \in 0 .. n |-> IF k = 0 THEN 0 ELSE g[k - 1] + f[k - 1]]
    BY DEF Running
  <2> DEFINE h == [k \in 0 .. n + 1 |-> IF k \in 0 .. n THEN g[k] ELSE g[n] + f[n]]
  <2>2. n \in Nat /\ n + 1 \in Nat
    OBVIOUS
  <2>3. ASSUME NEW k \in 0 .. n + 1
        PROVE  h[k] = IF k = 0 THEN 0 ELSE h[k - 1] + f[k - 1]
    <3>1. CASE k = 0
      <4>1. 0 \in 0 .. n /\ 0 \in 0 .. n + 1
        BY <2>2
      <4>2. h[0] = g[0] /\ g[0] = 0
        BY <2>1, <4>1
      <4> QED
        BY <3>1, <4>2
    <3>2. CASE k \in 1 .. n
      <4>1. k \in 0 .. n /\ k - 1 \in 0 .. n /\ k - 1 \in 0 .. n + 1 /\ k # 0
        BY <2>2, <3>2
      <4>2. h[k] = g[k] /\ h[k - 1] = g[k - 1]
        BY <4>1
      <4>3. g[k] = g[k - 1] + f[k - 1]
        BY <2>1, <4>1
      <4> QED
        BY <4>1, <4>2, <4>3
    <3>3. CASE k = n + 1
      <4>1. n \in 0 .. n /\ n \in 0 .. n + 1 /\ n + 1 \notin 0 .. n /\ n + 1 \in 0 .. n + 1
        BY <2>2
      <4>2. h[n + 1] = g[n] + f[n] /\ h[n] = g[n]
        BY <4>1
      <4>3. k - 1 = n /\ k # 0
        BY <2>2, <3>3
      <4> QED
        BY <3>3, <4>2, <4>3
    <3> QED
      BY <2>2, <3>1, <3>2, <3>3
  <2> HIDE DEF h
  <2>4. h = [k \in 0 .. n + 1 |-> h[k]]
    BY DEF h
  <2>5. Running(f, h, n + 1)
    BY <2>3, <2>4 DEF Running
  <2> QED
    BY <2>2, <2>5
<1> HIDE DEF T
<1>3. T \in SUBSET Nat
  BY DEF T
<1>4. T = Nat
  BY <1>1, <1>2, <1>3, SetInduction
<1> QED
  BY <1>4 DEF T

LEMMA RunningUnique ==
  ASSUME NEW f, NEW m \in Nat, NEW n \in Nat, NEW g, NEW h,
         Running(f, g, m), Running(f, h, n)
  PROVE  \A k \in Nat : k <= m /\ k <= n => g[k] = h[k]
<1> DEFINE T == {k \in Nat : k <= m /\ k <= n => g[k] = h[k]}
<1>1. 0 \in T
  BY DEF Running
<1>2. ASSUME NEW k \in T PROVE k + 1 \in T
  <2>1. k \in Nat /\ (k + 1) - 1 = k /\ k + 1 # 0 /\ k + 1 \in Nat
    OBVIOUS
  <2>2. SUFFICES ASSUME k + 1 <= m, k + 1 <= n PROVE g[k + 1] = h[k + 1]
    BY <2>1
  <2>3. k + 1 \in 0 .. m /\ k + 1 \in 0 .. n /\ g[k] = h[k]
    BY <2>1, <2>2
  <2>4. g[k + 1] = g[k] + f[k]
    BY <2>1, <2>3 DEF Running
  <2>5. h[k + 1] = h[k] + f[k]
    BY <2>1, <2>3 DEF Running
  <2> QED
    BY <2>3, <2>4, <2>5
<1> HIDE DEF T
<1>3. T \in SUBSET Nat
  BY DEF T
<1>4. T = Nat
  BY <1>1, <1>2, <1>3, SetInduction
<1> QED
  BY <1>4 DEF T

\* The recursion of SumTo has a solution, and so computes what it says.
THEOREM SumToDef ==
  ASSUME NEW f
  PROVE  /\ SumTo(f, 0) = 0
         /\ \A n \in Nat : SumTo(f, n + 1) = SumTo(f, n) + f[n]
<1> DEFINE G(m) == CHOOSE g : Running(f, g, m)
           t == [k \in Nat |-> G(k)[k]]
           s[k \in Nat] == IF k = 0 THEN 0 ELSE s[k - 1] + f[k - 1]
<1>1. \A m \in Nat : Running(f, G(m), m)
  BY RunningExists
<1> HIDE DEF G
<1>2. ASSUME NEW k \in Nat PROVE t[k] = IF k = 0 THEN 0 ELSE t[k - 1] + f[k - 1]
  <2>1. t[k] = G(k)[k] /\ k \in 0 .. k /\ Running(f, G(k), k)
    BY <1>1
  <2>2. G(k)[k] = IF k = 0 THEN 0 ELSE G(k)[k - 1] + f[k - 1]
    BY <2>1 DEF Running
  <2>3. CASE k = 0
    BY <2>1, <2>2, <2>3
  <2>4. CASE k # 0
    <3>1. k - 1 \in Nat /\ k - 1 <= k /\ k - 1 <= k - 1
      BY <2>4
    <3>2. Running(f, G(k - 1), k - 1)
      BY <1>1, <3>1
    <3>3. G(k)[k - 1] = G(k - 1)[k - 1]
      BY <2>1, <3>1, <3>2, RunningUnique
    <3>4. t[k - 1] = G(k - 1)[k - 1]
      BY <3>1
    <3> QED
      BY <2>1, <2>2, <2>4, <3>3, <3>4
  <2> QED
    BY <2>3, <2>4
<1> HIDE DEF t
<1>3. t = [k \in Nat |-> IF k = 0 THEN 0 ELSE t[k - 1] + f[k - 1]]
  <2>1. t = [k \in Nat |-> t[k]]
    BY DEF t
  <2> QED
    BY <1>2, <2>1
<1>4. s = [k \in Nat |-> IF k = 0 THEN 0 ELSE s[k - 1] + f[k - 1]]
  BY <1>3
<1>5. \A n : SumTo(f, n) = s[n]
  BY DEF SumTo
<1> HIDE DEF s
<1>6. s[0] = 0
  BY <1>4
<1>7. ASSUME NEW n \in Nat PROVE s[n + 1] = s[n] + f[n]
  <2>1. n + 1 \in Nat /\ n + 1 # 0 /\ (n + 1) - 1 = n
    OBVIOUS
  <2> QED
    BY <1>4, <2>1
<1> QED
  BY <1>5, <1>6, <1>7

\* A sum of naturals is a natural, and no smaller than a termwise smaller one.
THEOREM SumNat ==
  ASSUME NEW f, NEW n \in Nat, \A k \in 0 .. n - 1 : f[k] \in Nat
  PROVE  SumTo(f, n) \in Nat
<1> DEFINE T == {m \in Nat : m <= n => SumTo(f, m) \in Nat}
<1>1. 0 \in T
  BY SumToDef
<1>2. ASSUME NEW m \in T PROVE m + 1 \in T
  <2>1. SUFFICES ASSUME m + 1 <= n PROVE SumTo(f, m + 1) \in Nat
    OBVIOUS
  <2>2. m \in Nat /\ m <= n /\ m \in 0 .. n - 1
    BY <2>1
  <2>3. SumTo(f, m) \in Nat /\ f[m] \in Nat
    BY <2>2
  <2>4. SumTo(f, m + 1) = SumTo(f, m) + f[m]
    BY <2>2, SumToDef
  <2> QED
    BY <2>3, <2>4
<1> HIDE DEF T
<1>3. T \in SUBSET Nat
  BY DEF T
<1>4. T = Nat
  BY <1>1, <1>2, <1>3, SetInduction
<1> QED
  BY <1>4 DEF T

THEOREM SumMono ==
  ASSUME NEW f, NEW g, NEW n \in Nat,
         \A k \in 0 .. n - 1 : f[k] \in Nat /\ g[k] \in Nat /\ f[k] <= g[k]
  PROVE  SumTo(f, n) <= SumTo(g, n)
<1> DEFINE T == {m \in Nat : m <= n => SumTo(f, m) <= SumTo(g, m)}
<1>1. 0 \in T
  BY SumToDef
<1>2. ASSUME NEW m \in T PROVE m + 1 \in T
  <2>1. SUFFICES ASSUME m + 1 <= n PROVE SumTo(f, m + 1) <= SumTo(g, m + 1)
    OBVIOUS
  <2>2. m \in Nat /\ m <= n /\ m \in 0 .. n - 1 /\ \A k \in 0 .. m - 1 : k \in 0 .. n - 1
    BY <2>1
  <2>3. SumTo(f, m) \in Nat /\ SumTo(g, m) \in Nat
    BY <2>2, SumNat
  <2>4. f[m] \in Nat /\ g[m] \in Nat /\ f[m] <= g[m]
    BY <2>2
  <2>5. SumTo(f, m + 1) = SumTo(f, m) + f[m] /\ SumTo(g, m + 1) = SumTo(g, m) + g[m]
    BY <2>2, SumToDef
  <2>6. SumTo(f, m) <= SumTo(g, m)
    BY <2>2
  <2> QED
    BY <2>3, <2>4, <2>5, <2>6
<1> HIDE DEF T
<1>3. T \in SUBSET Nat
  BY DEF T
<1>4. T = Nat
  BY <1>1, <1>2, <1>3, SetInduction
<1> QED
  BY <1>4 DEF T

\* Only the terms count.
THEOREM SumSame ==
  ASSUME NEW f, NEW g, NEW n \in Nat, \A k \in 0 .. n - 1 : f[k] = g[k]
  PROVE  SumTo(f, n) = SumTo(g, n)
<1> DEFINE T == {m \in Nat : m <= n => SumTo(f, m) = SumTo(g, m)}
<1>1. 0 \in T
  BY SumToDef
<1>2. ASSUME NEW m \in T PROVE m + 1 \in T
  <2>1. SUFFICES ASSUME m + 1 <= n PROVE SumTo(f, m + 1) = SumTo(g, m + 1)
    OBVIOUS
  <2>2. m \in Nat /\ m <= n /\ m \in 0 .. n - 1
    BY <2>1
  <2>3. SumTo(f, m + 1) = SumTo(f, m) + f[m] /\ SumTo(g, m + 1) = SumTo(g, m) + g[m]
    BY <2>2, SumToDef
  <2> QED
    BY <2>2, <2>3
<1> HIDE DEF T
<1>3. T \in SUBSET Nat
  BY DEF T
<1>4. T = Nat
  BY <1>1, <1>2, <1>3, SetInduction
<1> QED
  BY <1>4 DEF T

\* A sum of zeros is zero.
THEOREM SumZero ==
  ASSUME NEW f, NEW n \in Nat, \A k \in 0 .. n - 1 : f[k] = 0
  PROVE  SumTo(f, n) = 0
<1> DEFINE z == [k \in Nat |-> 0]
           T == {m \in Nat : SumTo(z, m) = 0}
<1>1. 0 \in T
  BY SumToDef
<1>2. ASSUME NEW m \in T PROVE m + 1 \in T
  <2>1. SumTo(z, m + 1) = SumTo(z, m) + z[m]
    BY SumToDef
  <2> QED
    BY <2>1
<1>3. SumTo(f, n) = SumTo(z, n)
  BY SumSame
<1> HIDE DEF T
<1>4. T \in SUBSET Nat
  BY DEF T
<1>5. T = Nat
  BY <1>1, <1>2, <1>4, SetInduction
<1> QED
  BY <1>3, <1>5 DEF T

\* Raising one term by d raises the sum by d.
THEOREM SumUpdate ==
  ASSUME NEW f, NEW g, NEW n \in Nat, NEW p \in 0 .. n - 1, NEW d \in Nat,
         \A k \in 0 .. n - 1 : f[k] \in Nat,
         g[p] = f[p] + d, \A k \in 0 .. n - 1 : k # p => g[k] = f[k]
  PROVE  SumTo(g, n) = SumTo(f, n) + d
<1> DEFINE T == {m \in Nat : m <= n => SumTo(g, m) = SumTo(f, m) + (IF p < m THEN d ELSE 0)}
<1>1. 0 \in T
  BY SumToDef
<1>2. ASSUME NEW m \in T PROVE m + 1 \in T
  <2>1. SUFFICES ASSUME m + 1 <= n
                 PROVE  SumTo(g, m + 1) = SumTo(f, m + 1) + (IF p < m + 1 THEN d ELSE 0)
    OBVIOUS
  <2>2. m \in Nat /\ m <= n /\ m \in 0 .. n - 1 /\ \A k \in 0 .. m - 1 : k \in 0 .. n - 1
    BY <2>1
  <2>3. SumTo(f, m) \in Nat /\ f[m] \in Nat
    BY <2>2, SumNat
  <2>4. SumTo(f, m + 1) = SumTo(f, m) + f[m] /\ SumTo(g, m + 1) = SumTo(g, m) + g[m]
    BY <2>2, SumToDef
  <2>5. SumTo(g, m) = SumTo(f, m) + (IF p < m THEN d ELSE 0)
    BY <2>2
  <2>6. g[m] = f[m] + (IF p = m THEN d ELSE 0)
    BY <2>2, <2>3
  <2> QED
    BY <2>2, <2>3, <2>4, <2>5, <2>6
<1> HIDE DEF T
<1>3. T \in SUBSET Nat
  BY DEF T
<1>4. T = Nat
  BY <1>1, <1>2, <1>3, SetInduction
<1>5. p < n /\ n <= n
  OBVIOUS
<1> QED
  BY <1>4, <1>5 DEF T
(***************************************************************************)
(* The members of a set in order                                           *)
(***************************************************************************)
UpTo(S, x) == {a \in S : a <= x}
Rank(S, x) == Cardinality(UpTo(S, x))

\* A member's rank is a number of the set's members, and the greater has the higher.
LEMMA RankIs ==
  ASSUME NEW S \in SUBSET Nat, IsFiniteSet(S)
  PROVE  /\ \A x \in S : Rank(S, x) \in 1 .. Cardinality(S)
         /\ \A x, y \in S : x < y => Rank(S, x) < Rank(S, y)
<1>1. \A x \in S : UpTo(S, x) \in SUBSET S /\ x \in UpTo(S, x)
  BY DEF UpTo
<1>2. \A x \in S : IsFiniteSet(UpTo(S, x)) /\ Rank(S, x) \in Nat /\ Rank(S, x) <= Cardinality(S)
  BY <1>1, FS_Subset, FS_CardinalityType DEF Rank
<1>3. Cardinality(S) \in Nat
  BY FS_CardinalityType
<1>4. ASSUME NEW x \in S PROVE Rank(S, x) # 0
  <2>1. UpTo(S, x) # {}
    BY <1>1
  <2> QED
    BY <1>2, <2>1, FS_EmptySet DEF Rank
<1>5. ASSUME NEW x \in S, NEW y \in S, x < y PROVE Rank(S, x) < Rank(S, y)
  <2>1. UpTo(S, x) \in SUBSET UpTo(S, y) /\ y \in UpTo(S, y) /\ y \notin UpTo(S, x)
    <3>1. y <= y /\ ~(y <= x) /\ \A a \in S : a <= x => a <= y
      BY <1>5
    <3> QED
      BY <3>1 DEF UpTo
  <2>2. IsFiniteSet(UpTo(S, y)) /\ UpTo(S, x) # UpTo(S, y)
    BY <1>2, <2>1
  <2>3. Cardinality(UpTo(S, x)) <= Cardinality(UpTo(S, y))
        /\ (Cardinality(UpTo(S, x)) = Cardinality(UpTo(S, y)) => UpTo(S, x) = UpTo(S, y))
    BY <2>1, <2>2, FS_Subset
  <2> QED
    BY <1>2, <2>2, <2>3 DEF Rank
<1> QED
  BY <1>2, <1>3, <1>4, <1>5

\* Ranks are different, so that there is a member to every one.
LEMMA RankExists ==
  ASSUME NEW S \in SUBSET Nat, IsFiniteSet(S), NEW k \in 1 .. Cardinality(S)
  PROVE  \E x \in S : Rank(S, x) = k
<1> DEFINE K == 1 .. Cardinality(S)
           f == [x \in S |-> Rank(S, x)]
<1>1. Cardinality(S) \in Nat
  BY FS_CardinalityType
<1>2. IsFiniteSet(K) /\ Cardinality(K) = Cardinality(S)
  <2>1. IsFiniteSet(1 .. Cardinality(S))
        /\ Cardinality(1 .. Cardinality(S)) = IF 1 > Cardinality(S) THEN 0 ELSE Cardinality(S) - 1 + 1
    BY <1>1, FS_Interval
  <2> QED
    BY <1>1, <2>1
<1>3. f \in [S -> K]
  BY RankIs
<1>4. \A x, y \in S : f[x] = f[y] => x = y
  <2> TAKE x \in S, y \in S
  <2>1. x \in Nat /\ y \in Nat
    OBVIOUS
  <2>2. Rank(S, x) \in Nat /\ Rank(S, y) \in Nat
    BY <1>1, RankIs
  <2>3. x < y => Rank(S, x) < Rank(S, y)
    BY RankIs
  <2>4. y < x => Rank(S, y) < Rank(S, x)
    BY RankIs
  <2> QED
    BY <2>1, <2>2, <2>3, <2>4
<1>5. f \in Injection(S, K)
  <2> HIDE DEF f, K
  <2> QED
    BY <1>3, <1>4 DEF Injection, IsInjective
<1>6. f \in Surjection(S, K)
  <2> HIDE DEF f, K
  <2> QED
    BY <1>2, <1>5, FS_Injection
<1>7. PICK x \in S : f[x] = k
  <2> HIDE DEF f
  <2> QED
    BY <1>6 DEF Surjection
<1> QED
  BY <1>7

\* The member of a rank is the one that has it.
THEOREM NthOfRank ==
  ASSUME NEW S \in SUBSET Nat, IsFiniteSet(S)
  PROVE  /\ \A k \in 1 .. Cardinality(S) : Nth(S, k) \in S /\ Rank(S, Nth(S, k)) = k
         /\ \A x \in S : Rank(S, x) \in 1 .. Cardinality(S) /\ Nth(S, Rank(S, x)) = x
<1>1. \A k \in 1 .. Cardinality(S) : Nth(S, k) \in S /\ Rank(S, Nth(S, k)) = k
  BY RankExists DEF Nth, Rank, UpTo
<1>2. Cardinality(S) \in Nat /\ \A x \in S : Rank(S, x) \in Nat
  BY RankIs, FS_CardinalityType
<1>3. ASSUME NEW x \in S PROVE Rank(S, x) \in 1 .. Cardinality(S) /\ Nth(S, Rank(S, x)) = x
  <2>1. PICK k \in 1 .. Cardinality(S) : Rank(S, x) = k
    BY RankIs
  <2>2. PICK y \in S : y = Nth(S, k) /\ Rank(S, y) = k
    BY <1>1
  <2>3. ~(x < y) /\ ~(y < x)
    BY <1>2, <2>1, <2>2, RankIs
  <2>4. x = y
    BY <2>3
  <2> QED
    BY <2>1, <2>2, <2>4
<1> QED
  BY <1>1, <1>3

\* Nth tells the members in order, each once.
THEOREM NthIs ==
  ASSUME NEW S \in SUBSET Nat, IsFiniteSet(S)
  PROVE  /\ \A k \in 1 .. Cardinality(S) : Nth(S, k) \in S
         /\ \A k, m \in 1 .. Cardinality(S) : k < m => Nth(S, k) < Nth(S, m)
         /\ \A x \in S : \E k \in 1 .. Cardinality(S) : Nth(S, k) = x
<1>1. \A k \in 1 .. Cardinality(S) : Nth(S, k) \in S /\ Rank(S, Nth(S, k)) = k
  BY NthOfRank
<1>2. \A x, y \in S : x < y \/ x = y \/ y < x
  OBVIOUS
<1>3. Cardinality(S) \in Nat
  BY FS_CardinalityType
<1>4. ASSUME NEW k \in 1 .. Cardinality(S), NEW m \in 1 .. Cardinality(S), k < m
      PROVE  Nth(S, k) < Nth(S, m)
  <2>1. Nth(S, k) = Nth(S, m) => k = m
    BY <1>1
  <2>2. Nth(S, m) < Nth(S, k) => m < k
    BY <1>1, RankIs
  <2>3. k \in Nat /\ m \in Nat /\ k # m /\ ~(m < k)
    BY <1>3, <1>4
  <2> QED
    BY <1>1, <1>2, <2>1, <2>2, <2>3
<1>5. \A x \in S : \E k \in 1 .. Cardinality(S) : Nth(S, k) = x
  BY NthOfRank
<1> QED
  BY <1>1, <1>4, <1>5

\* Ascending is the sequence of the members, from the least to the greatest.
THEOREM AscendingIs ==
  ASSUME NEW S \in SUBSET Nat, IsFiniteSet(S)
  PROVE  /\ Len(Ascending(S)) = Cardinality(S) /\ DOMAIN Ascending(S) = 1 .. Cardinality(S)
         /\ Ascending(S) \in Seq(S)
         /\ \A k, m \in DOMAIN Ascending(S) : k < m => Ascending(S)[k] < Ascending(S)[m]
         /\ \A x \in S : \E k \in DOMAIN Ascending(S) : Ascending(S)[k] = x
<1> DEFINE n == Cardinality(S)
           s == [k \in 1 .. n |-> Nth(S, k)]
<1>1. n \in Nat
  BY FS_CardinalityType
<1>2. Ascending(S) = s
  BY DEF Ascending
<1>3. \A k \in 1 .. n : Nth(S, k) \in S
  BY NthIs
<1>4. s \in [1 .. n -> S]
  BY <1>3
<1>5. s \in Seq(S) /\ Len(s) = n /\ DOMAIN s = 1 .. n
  BY <1>1, <1>4
<1>6. \A k \in 1 .. n : Ascending(S)[k] = Nth(S, k)
  BY <1>2
<1>7. /\ \A k, m \in 1 .. n : k < m => Nth(S, k) < Nth(S, m)
      /\ \A x \in S : \E k \in 1 .. n : Nth(S, k) = x
  BY NthIs
<1> HIDE DEF s
<1> QED
  BY <1>2, <1>5, <1>6, <1>7

(***************************************************************************)
(* Rows joined                                                             *)
(***************************************************************************)
\* A running sum of naturals does not fall.
THEOREM SumRises ==
  ASSUME NEW f, NEW n \in Nat, \A k \in 0 .. n - 1 : f[k] \in Nat
  PROVE  /\ \A k \in 0 .. n : SumTo(f, k) \in Nat
         /\ \A k, m \in 0 .. n : k <= m => SumTo(f, k) <= SumTo(f, m)
<1>1. ASSUME NEW k \in 0 .. n PROVE SumTo(f, k) \in Nat
  BY SumNat
<1>2. ASSUME NEW k \in 0 .. n
      PROVE  \A m \in 0 .. n : k <= m => SumTo(f, k) <= SumTo(f, m)
  <2> DEFINE T == {m \in Nat : m <= n /\ k <= m => SumTo(f, k) <= SumTo(f, m)}
  <2>1. 0 \in T
    <3>1. k <= 0 => k = 0
      OBVIOUS
    <3>2. SumTo(f, 0) <= SumTo(f, 0)
      BY <1>1
    <3> QED
      BY <3>1, <3>2
  <2>2. ASSUME NEW m \in T PROVE m + 1 \in T
    <3>1. SUFFICES ASSUME m + 1 <= n, k <= m + 1 PROVE SumTo(f, k) <= SumTo(f, m + 1)
      OBVIOUS
    <3>2. m \in Nat /\ m \in 0 .. n - 1 /\ m \in 0 .. n /\ m + 1 \in 0 .. n
      BY <3>1
    <3>3. SumTo(f, k) \in Nat /\ SumTo(f, m) \in Nat /\ SumTo(f, m + 1) \in Nat /\ f[m] \in Nat
      BY <1>1, <3>2
    <3>4. SumTo(f, m + 1) = SumTo(f, m) + f[m]
      BY <3>2, SumToDef
    <3>5. CASE k = m + 1
      BY <3>3, <3>5
    <3>6. CASE k # m + 1
      <4>1. k <= m /\ m <= n
        BY <3>1, <3>2, <3>6
      <4>2. SumTo(f, k) <= SumTo(f, m)
        BY <4>1
      <4> QED
        BY <3>3, <3>4, <4>2
    <3> QED
      BY <3>5, <3>6
  <2> HIDE DEF T
  <2>3. T \in SUBSET Nat
    BY DEF T
  <2>4. T = Nat
    BY <2>1, <2>2, <2>3, SetInduction
  <2> QED
    BY <2>4 DEF T
<1> QED
  BY <1>1, <1>2

\* Every place of a running sum lies in one term.
LEMMA TermExists ==
  ASSUME NEW f, NEW n \in Nat, \A k \in 0 .. n - 1 : f[k] \in Nat, NEW i \in 1 .. SumTo(f, n)
  PROVE  \E k \in 0 .. n - 1 : SumTo(f, k) < i /\ i <= SumTo(f, k + 1)
<1> DEFINE T == {m \in Nat : m <= n /\ i <= SumTo(f, m) =>
                   \E k \in 0 .. n - 1 : SumTo(f, k) < i /\ i <= SumTo(f, k + 1)}
<1>1. 0 \in T
  BY SumToDef
<1>2. ASSUME NEW m \in T PROVE m + 1 \in T
  <2>1. SUFFICES ASSUME m + 1 <= n, i <= SumTo(f, m + 1)
                 PROVE  \E k \in 0 .. n - 1 : SumTo(f, k) < i /\ i <= SumTo(f, k + 1)
    OBVIOUS
  <2>2. m \in Nat /\ m <= n /\ m \in 0 .. n - 1 /\ m \in 0 .. n
    BY <2>1
  <2>3. SumTo(f, m) \in Nat /\ i \in Nat
    BY <2>2, SumRises
  <2>4. i <= SumTo(f, m) \/ SumTo(f, m) < i
    BY <2>3
  <2> QED
    BY <2>1, <2>2, <2>4
<1> HIDE DEF T
<1>3. T \in SUBSET Nat
  BY DEF T
<1>4. T = Nat
  BY <1>1, <1>2, <1>3, SetInduction
<1>5. n \in T /\ n <= n /\ i <= SumTo(f, n)
  <2>1. SumTo(f, n) \in Nat
    BY SumNat
  <2> QED
    BY <1>4, <2>1
<1> QED
  BY <1>5 DEF T

\* Rows of members of V, and a sequence that has each of them where those before it
\* end, given their lengths f, and nothing else.
AllRows(rows, n, V) == \A k \in 0 .. n - 1 : rows[k] \in Seq(V)
HasRows(J, rows, n, V, f) ==
  /\ J \in Seq(V) /\ Len(J) = SumTo(f, n)
  /\ \A k \in 0 .. n : SumTo(f, k) \in Nat
  /\ \A k \in 0 .. n - 1 :
       /\ SumTo(f, k + 1) = SumTo(f, k) + Len(rows[k])
       /\ SumTo(f, k + 1) <= SumTo(f, n)
       /\ \A i \in 1 .. Len(rows[k]) : J[SumTo(f, k) + i] = rows[k][i]

\* Joined is such a sequence.
THEOREM JoinedIs ==
  ASSUME NEW V, NEW n \in Nat, NEW rows, AllRows(rows, n, V)
  PROVE  HasRows(Joined(rows, n), rows, n, V, RowLengths(rows, n))
<1> DEFINE f == RowLengths(rows, n)
           at(k, i) == k \in 0 .. n - 1 /\ SumTo(f, k) < i /\ i <= SumTo(f, k + 1)
           R(i) == CHOOSE k \in 0 .. n - 1 : SumTo(f, k) < i /\ i <= SumTo(f, k + 1)
           j == [i \in 1 .. SumTo(f, n) |-> rows[R(i)][i - SumTo(f, R(i))]]
<1>1. Joined(rows, n) = j
  BY DEF Joined
<1>0. \A k \in 0 .. n - 1 : rows[k] \in Seq(V)
  BY DEF AllRows
<1>2. \A k \in 0 .. n - 1 : f[k] = Len(rows[k]) /\ Len(rows[k]) \in Nat
  BY <1>0 DEF RowLengths
<1> HIDE DEF f
<1>3. /\ \A k \in 0 .. n : SumTo(f, k) \in Nat
      /\ \A k, m \in 0 .. n : k <= m => SumTo(f, k) <= SumTo(f, m)
  BY <1>2, SumRises
<1>4. \A k \in 0 .. n - 1 : SumTo(f, k + 1) = SumTo(f, k) + Len(rows[k])
  <2> TAKE k \in 0 .. n - 1
  <2>1. k \in Nat /\ f[k] = Len(rows[k])
    BY <1>2
  <2>2. SumTo(f, k + 1) = SumTo(f, k) + f[k]
    BY <2>1, SumToDef
  <2> QED
    BY <2>1, <2>2
<1>5. \A k \in 0 .. n - 1 : k + 1 \in 0 .. n /\ n \in 0 .. n /\ k + 1 <= n /\ k \in 0 .. n
  OBVIOUS
<1>6. \A i \in 1 .. SumTo(f, n) : at(R(i), i)
  <2> TAKE i \in 1 .. SumTo(f, n)
  <2>1. \E k \in 0 .. n - 1 : SumTo(f, k) < i /\ i <= SumTo(f, k + 1)
    BY <1>2, TermExists
  <2> QED
    BY <2>1
<1>7. ASSUME NEW i \in Nat, NEW k, NEW m, at(k, i), at(m, i) PROVE k = m
  <2>1. k \in 0 .. n - 1 /\ m \in 0 .. n - 1 /\ k \in 0 .. n /\ m \in 0 .. n
        /\ k + 1 \in 0 .. n /\ m + 1 \in 0 .. n
    BY <1>5, <1>7
  <2>2. SumTo(f, k) \in Nat /\ SumTo(f, m) \in Nat /\ SumTo(f, k + 1) \in Nat /\ SumTo(f, m + 1) \in Nat
    BY <1>3, <2>1
  <2>3. ~(k + 1 <= m)
    <3>1. k + 1 <= m => SumTo(f, k + 1) <= SumTo(f, m)
      BY <1>3, <2>1
    <3> QED
      BY <1>7, <2>2, <3>1
  <2>4. ~(m + 1 <= k)
    <3>1. m + 1 <= k => SumTo(f, m + 1) <= SumTo(f, k)
      BY <1>3, <2>1
    <3> QED
      BY <1>7, <2>2, <3>1
  <2> QED
    BY <2>1, <2>3, <2>4
<1>8. ASSUME NEW k \in 0 .. n - 1, NEW i \in 1 .. Len(rows[k])
      PROVE  /\ SumTo(f, k) + i \in 1 .. SumTo(f, n)
             /\ R(SumTo(f, k) + i) = k
  <2>1. SumTo(f, k) \in Nat /\ SumTo(f, k + 1) \in Nat /\ SumTo(f, n) \in Nat
        /\ SumTo(f, k + 1) <= SumTo(f, n) /\ Len(rows[k]) \in Nat
    BY <1>2, <1>3, <1>5
  <2>2. SumTo(f, k + 1) = SumTo(f, k) + Len(rows[k])
    BY <1>4
  <2>3. SumTo(f, k) + i \in 1 .. SumTo(f, n) /\ SumTo(f, k) + i \in Nat
        /\ SumTo(f, k) < SumTo(f, k) + i /\ SumTo(f, k) + i <= SumTo(f, k + 1)
    BY <2>1, <2>2
  <2>4. at(k, SumTo(f, k) + i) /\ at(R(SumTo(f, k) + i), SumTo(f, k) + i)
    BY <1>6, <2>3
  <2> HIDE DEF at, R
  <2> QED
    BY <1>7, <2>3, <2>4
<1>9. ASSUME NEW i \in 1 .. SumTo(f, n)
      PROVE  rows[R(i)][i - SumTo(f, R(i))] \in V
  <2>1. PICK k \in 0 .. n - 1 : k = R(i) /\ SumTo(f, k) < i /\ i <= SumTo(f, k + 1)
    BY <1>6
  <2>2. rows[k] \in Seq(V) /\ Len(rows[k]) \in Nat /\ SumTo(f, k) \in Nat
        /\ SumTo(f, k + 1) = SumTo(f, k) + Len(rows[k])
    BY <1>0, <1>2, <1>3, <1>4, <1>5
  <2>3. i - SumTo(f, k) \in 1 .. Len(rows[k])
    <3> HIDE DEF R
    <3> QED
      BY <2>1, <2>2
  <2>4. rows[k][i - SumTo(f, k)] \in V
    BY <2>2, <2>3
  <2> HIDE DEF R
  <2> QED
    BY <2>1, <2>4
<1>10. SumTo(f, n) \in Nat
  BY <1>3, <1>5
<1> HIDE DEF R
<1>11. j \in [1 .. SumTo(f, n) -> V]
  BY <1>9
<1>12. j \in Seq(V) /\ Len(j) = SumTo(f, n) /\ DOMAIN j = 1 .. SumTo(f, n)
  BY <1>10, <1>11
<1>13. ASSUME NEW k \in 0 .. n - 1, NEW i \in 1 .. Len(rows[k])
       PROVE  j[SumTo(f, k) + i] = rows[k][i]
  <2>1. SumTo(f, k) + i \in 1 .. SumTo(f, n) /\ R(SumTo(f, k) + i) = k
    BY <1>8
  <2>2. j[SumTo(f, k) + i] = rows[k][(SumTo(f, k) + i) - SumTo(f, k)]
    BY <2>1
  <2>3. SumTo(f, k) \in Nat /\ i \in Nat
    BY <1>3, <1>5
  <2>4. (SumTo(f, k) + i) - SumTo(f, k) = i
    BY <2>3
  <2> QED
    BY <2>2, <2>4
<1> HIDE DEF j
<1>14. \A k \in 0 .. n - 1 : SumTo(f, k + 1) <= SumTo(f, n)
  BY <1>3, <1>5
<1>15. HasRows(j, rows, n, V, f)
  BY <1>3, <1>4, <1>12, <1>13, <1>14 DEF HasRows
<1> QED
  BY <1>1, <1>15 DEF f
=============================================================================
