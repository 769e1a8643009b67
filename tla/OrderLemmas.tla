---------------------------- MODULE OrderLemmas ----------------------------
(***************************************************************************)
(* Least and largest elements, and sums.  The induction theorems of the    *)
(* library take a predicate as a parameter; these facts are what the       *)
(* proofs about pages, positions and counts use instead.                   *)
(***************************************************************************)
EXTENDS Sums, FiniteSets, FiniteSetTheorems, TLAPS

\* A set of natural numbers that is not empty has a least element: of the finite sets of
\* those below one of its elements, one has no strict subset among the others.
LEMMA LeastNatural ==
    ASSUME NEW T, T \subseteq Nat, T # {}
    PROVE  \E m \in T : \A n \in T : m <= n
<1> DEFINE Below(m) == {n \in T : n < m}
           Belows == {Below(m) : m \in T}
<1>1. ASSUME NEW m \in T PROVE Below(m) \in FiniteSubsetsOf(Nat)
  <2>1. Below(m) \in SUBSET Nat /\ m \in Nat
    OBVIOUS
  <2>2. \A n \in Below(m) : n <= m
    BY <2>1
  <2> HIDE DEF Below
  <2> QED
    BY <2>1, <2>2, FS_BoundedSetOfNaturals DEF FiniteSubsetsOf
<1>2. Belows \subseteq FiniteSubsetsOf(Nat) /\ Belows # {}
  <2>1. Belows \subseteq FiniteSubsetsOf(Nat)
    BY <1>1
  <2>2. Belows # {}
    OBVIOUS
  <2> QED
    BY <2>1, <2>2
<1>3. PICK X \in Belows : \A Y \in Belows : <<Y, X>> \notin StrictSubsetOrdering(Nat)
  <2> HIDE DEF Belows
  <2> QED
    BY <1>2, WFMin, FS_StrictSubsetOrderingWellFounded
<1>4. PICK m \in T : X = Below(m)
  OBVIOUS
<1>5. ASSUME NEW n \in T, n < m PROVE FALSE
  <2>1. n \in Nat /\ m \in Nat
    OBVIOUS
  <2>2. \A k \in Below(n) : k \in T /\ k \in Nat /\ k < m
    BY <2>1, <1>5
  <2>3. Below(n) \subseteq Below(m)
    BY <2>2
  <2>4. n \in Below(m) /\ n \notin Below(n)
    BY <2>1, <1>5
  <2>5. Below(n) \in SUBSET Nat /\ Below(m) \in SUBSET Nat /\ Below(n) \in Belows
    OBVIOUS
  <2> HIDE DEF Below, Belows
  <2> QED
    BY <2>3, <2>4, <2>5, <1>3, <1>4 DEF StrictSubsetOrdering
<1> QED
  BY <1>5

\* A finite set of natural numbers that is not empty has a largest element: the one with
\* the fewest above it.
LEMMA LargestOfFinite ==
    ASSUME NEW T, T \subseteq Nat, T # {}, IsFiniteSet(T)
    PROVE  \E m \in T : \A n \in T : n <= m
<1> DEFINE Above(m) == {n \in T : n > m}
           Counts == {Cardinality(Above(m)) : m \in T}
<1>1. ASSUME NEW m PROVE IsFiniteSet(Above(m)) /\ Cardinality(Above(m)) \in Nat
  <2>1. Above(m) \in SUBSET T
    OBVIOUS
  <2> HIDE DEF Above
  <2> QED
    BY <2>1, FS_Subset, FS_CardinalityType
<1>2. Counts \subseteq Nat /\ Counts # {}
  <2> HIDE DEF Above
  <2>1. Counts \subseteq Nat
    BY <1>1
  <2>2. Counts # {}
    OBVIOUS
  <2> QED
    BY <2>1, <2>2
<1>3. PICK c \in Counts : \A d \in Counts : c <= d
  <2> HIDE DEF Counts
  <2> QED
    BY <1>2, LeastNatural
<1>4. PICK m \in T : c = Cardinality(Above(m))
  OBVIOUS
<1>5. ASSUME NEW n \in T, n > m PROVE FALSE
  <2>1. n \in Nat /\ m \in Nat
    OBVIOUS
  <2>2. \A k \in Above(n) : k \in T /\ k \in Nat /\ k > m
    BY <2>1, <1>5
  <2>3. Above(n) \in SUBSET Above(m)
    BY <2>2
  <2>4. n \in Above(m) /\ n \notin Above(n)
    BY <2>1, <1>5
  <2>5. Cardinality(Above(n)) \in Counts
    OBVIOUS
  <2>6. /\ Cardinality(Above(n)) \in Nat /\ Cardinality(Above(m)) \in Nat
        /\ IsFiniteSet(Above(m))
    BY <1>1
  <2> HIDE DEF Above, Counts
  <2>7. /\ Cardinality(Above(n)) <= Cardinality(Above(m))
        /\ Cardinality(Above(m)) # Cardinality(Above(n))
    BY <2>3, <2>4, <2>6, FS_Subset
  <2> QED
    BY <2>5, <2>6, <2>7, <1>3, <1>4
<1> QED
  BY <1>5

\* The elements of a finite set of positive numbers have the ranks 1, 2 and so on up to
\* their number, where the rank of i counts those up to i.
LEMMA Ranked ==
    ASSUME NEW T, T \subseteq Nat \ {0}, IsFiniteSet(T), NEW k \in 1..Cardinality(T)
    PROVE  \E i \in T : Cardinality(T \cap 1..i) = k
<1> DEFINE UpTo(i) == T \cap 1..i
           Far == {i \in T : Cardinality(UpTo(i)) >= k}
<1>1. ASSUME NEW i PROVE IsFiniteSet(UpTo(i)) /\ Cardinality(UpTo(i)) \in Nat
  <2>1. UpTo(i) \in SUBSET T
    OBVIOUS
  <2> HIDE DEF UpTo
  <2> QED
    BY <2>1, FS_Subset, FS_CardinalityType
<1>2. Far # {}
  <2>1. T # {} /\ T \subseteq Nat
    BY FS_EmptySet
  <2>2. PICK m \in T : \A n \in T : n <= m
    BY <2>1, LargestOfFinite
  <2>3. UpTo(m) = T
    <3>1. \A n \in T : n \in 1..m
      BY <2>1, <2>2
    <3> QED
      BY <3>1
  <2>4. Cardinality(UpTo(m)) >= k
    <3> HIDE DEF UpTo
    <3> QED
      BY <2>3, FS_CardinalityType
  <2> QED
    BY <2>4
<1>3. PICK i \in Far : \A n \in Far : i <= n
  <2>1. Far \subseteq Nat
    OBVIOUS
  <2> HIDE DEF Far
  <2> QED
    BY <1>2, <2>1, LeastNatural
<1>4. i \in T /\ i \in Nat /\ i >= 1
  OBVIOUS
<1> DEFINE Before == UpTo(i) \ {i}
<1>5. /\ IsFiniteSet(Before)
      /\ Cardinality(Before) = Cardinality(UpTo(i)) - 1
  <2>1. i \in UpTo(i)
    BY <1>4
  <2> HIDE DEF UpTo
  <2> QED
    BY <1>1, <2>1, FS_RemoveElement
<1>6. ASSUME Cardinality(UpTo(i)) > k PROVE FALSE
  <2>1. Before # {} /\ Before \subseteq Nat
    <3>1. Before \subseteq Nat
      OBVIOUS
    <3> HIDE DEF Before
    <3>2. Cardinality(UpTo(i)) \in Nat
      BY <1>1
    <3> HIDE DEF UpTo
    <3> QED
      BY <1>5, <1>6, <3>1, <3>2, FS_EmptySet
  <2>2. PICK j \in Before : \A n \in Before : n <= j
    <3> HIDE DEF Before
    <3> QED
      BY <1>5, <2>1, LargestOfFinite
  <2>3. j \in T /\ j \in Nat /\ j < i
    BY <1>4
  <2>4. UpTo(j) = Before
    BY <1>4, <2>2, <2>3
  <2>5. j \in Far
    <3>1. Cardinality(UpTo(j)) >= k
      <4> HIDE DEF UpTo, Before
      <4> QED
        BY <1>1, <1>5, <1>6, <2>4
    <3> QED
      BY <2>3, <3>1
  <2> QED
    BY <1>3, <1>4, <2>3, <2>5
<1>7. Cardinality(UpTo(i)) >= k /\ Cardinality(UpTo(i)) \in Nat
  <2>1. Cardinality(UpTo(i)) \in Nat
    BY <1>1
  <2> QED
    BY <1>3, <2>1
<1> QED
  BY <1>4, <1>6, <1>7
----------------------------------------------------------------------------
(* Sums.  The partial sums of a sequence are a function of their own; that *)
(* there is exactly one such function takes two inductions, and what a     *)
(* change of the sequence does to its sum is then seen by changing that    *)
(* function.                                                               *)
PartialSums(f, n, s) ==
    /\ f \in [0..n -> Int]
    /\ f[0] = 0
    /\ \A k \in 1..n : f[k] = f[k - 1] + s[k]

\* Two functions of partial sums agree.
LEMMA PartialSumsUnique ==
    ASSUME NEW n \in Nat, NEW s, NEW f, NEW g, PartialSums(f, n, s), PartialSums(g, n, s)
    PROVE  f = g
<1> DEFINE Bad == {k \in 0..n : f[k] # g[k]}
<1>1. ASSUME Bad # {} PROVE FALSE
  <2>1. Bad \subseteq Nat
    OBVIOUS
  <2>2. PICK m \in Bad : \A k \in Bad : m <= k
    <3> HIDE DEF Bad
    <3> QED
      BY <1>1, <2>1, LeastNatural
  <2>3. m \in 0..n /\ f[m] # g[m]
    BY <2>2
  <2>4. m # 0
    BY <2>3 DEF PartialSums
  <2>5. m - 1 \in 0..n /\ m - 1 \notin Bad /\ m \in 1..n
    BY <2>2, <2>3, <2>4
  <2>6. f[m - 1] = g[m - 1]
    BY <2>5
  <2> QED
    BY <2>3, <2>5, <2>6 DEF PartialSums
<1>2. \A k \in 0..n : f[k] = g[k]
  BY <1>1
<1>3. f \in [0..n -> Int] /\ g \in [0..n -> Int]
  BY DEF PartialSums
<1> QED
  BY <1>2, <1>3

\* There is one.
LEMMA PartialSumsExist ==
    ASSUME NEW n \in Nat, NEW s \in [1..n -> Int]
    PROVE  \E f : PartialSums(f, n, s)
<1> DEFINE Bad == {k \in 0..n : ~\E f : PartialSums(f, k, s)}
<1>1. ASSUME Bad # {} PROVE FALSE
  <2>1. Bad \subseteq Nat
    OBVIOUS
  <2>2. PICK m \in Bad : \A k \in Bad : m <= k
    <3> HIDE DEF Bad
    <3> QED
      BY <1>1, <2>1, LeastNatural
  <2>3. m \in 0..n /\ ~\E f : PartialSums(f, m, s)
    BY <2>2
  <2>4. m # 0
    <3>1. PartialSums([k \in 0..0 |-> 0], 0, s)
      BY DEF PartialSums
    <3> QED
      BY <2>3, <3>1
  <2>5. m - 1 \in 0..n /\ m - 1 \notin Bad /\ m \in 1..n
    BY <2>2, <2>3, <2>4
  <2>6. PICK f : PartialSums(f, m - 1, s)
    BY <2>5
  <2> DEFINE g == [k \in 0..m |-> IF k = m THEN f[m - 1] + s[m] ELSE f[k]]
  <2>7. /\ f \in [0..(m - 1) -> Int] /\ f[0] = 0
        /\ \A k \in 1..(m - 1) : f[k] = f[k - 1] + s[k]
    BY <2>6 DEF PartialSums
  <2>8. s[m] \in Int /\ f[m - 1] \in Int
    BY <2>5, <2>7
  <2>9. g \in [0..m -> Int]
    BY <2>5, <2>7, <2>8
  <2>10. g[0] = 0
    BY <2>5, <2>7
  <2>11. \A k \in 1..m : g[k] = g[k - 1] + s[k]
    BY <2>5, <2>7
  <2>12. PartialSums(g, m, s)
    <3> HIDE DEF g
    <3> QED
      BY <2>9, <2>10, <2>11 DEF PartialSums
  <2> QED
    BY <2>3, <2>12
<1>2. n \notin Bad
  <2> HIDE DEF Bad
  <2> QED
    BY <1>1
<1>3. n \in 0..n
  OBVIOUS
<1> QED
  BY <1>2, <1>3

\* The sum is the last of the partial sums.
LEMMA SumIs ==
    ASSUME NEW n \in Nat, NEW s \in [1..n -> Int]
    PROVE  /\ Sum(s) \in Int
           /\ \E f : PartialSums(f, n, s) /\ Sum(s) = f[n]
           /\ \A f : PartialSums(f, n, s) => Sum(s) = f[n]
<1>1. PICK f : PartialSums(f, n, s)
  BY PartialSumsExist
<1>2. Len(s) = n
  OBVIOUS
<1> DEFINE Rec(h) == h = [m \in 0..n |-> IF m = 0 THEN 0 ELSE h[m - 1] + s[m]]
<1>3. Rec(f)
  BY <1>1 DEF PartialSums
<1>4. PICK g : g = CHOOSE h : Rec(h)
  OBVIOUS
<1>5. Rec(g)
  BY <1>3, <1>4
<1>6. \A m \in 0..n : g[m] \in Int
  <2> DEFINE Bad == {m \in 0..n : g[m] \notin Int}
  <2>1. ASSUME Bad # {} PROVE FALSE
    <3>1. Bad \subseteq Nat
      OBVIOUS
    <3>2. PICK m \in Bad : \A k \in Bad : m <= k
      <4> HIDE DEF Bad, Rec
      <4> QED
        BY <2>1, <3>1, LeastNatural
    <3>3. m \in 0..n /\ g[m] \notin Int
      BY <3>2
    <3>4. g[m] = IF m = 0 THEN 0 ELSE g[m - 1] + s[m]
      BY <1>5, <3>3
    <3>5. m # 0
      BY <3>3, <3>4
    <3>6. m - 1 \in 0..n /\ m - 1 \notin Bad /\ m \in 1..n
      BY <3>2, <3>3, <3>5
    <3>7. g[m - 1] \in Int /\ s[m] \in Int
      BY <3>6
    <3> QED
      BY <3>3, <3>4, <3>5, <3>7
  <2> QED
    BY <2>1
<1>7. PartialSums(g, n, s)
  <2>1. DOMAIN g = 0..n /\ \A m \in 0..n : g[m] = IF m = 0 THEN 0 ELSE g[m - 1] + s[m]
    BY <1>5
  <2>2. g = [m \in 0..n |-> g[m]]
    BY <1>5
  <2> HIDE DEF Rec
  <2>3. g \in [0..n -> Int]
    BY <1>6, <2>2
  <2> QED
    BY <2>1, <2>3 DEF PartialSums
<1>8. Sum(s) = g[n]
  BY <1>2, <1>4, Zenon DEF Sum
<1>9. g[n] \in Int
  BY <1>6
<1> QED
  BY <1>7, <1>8, <1>9, PartialSumsUnique

\* The empty sum, and one more element at the end.
LEMMA SumEmpty == Sum(<<>>) = 0
<1>1. <<>> \in [1..0 -> Int]
  OBVIOUS
<1>2. PICK f : PartialSums(f, 0, <<>>) /\ Sum(<<>>) = f[0]
  BY <1>1, SumIs
<1> QED
  BY <1>2 DEF PartialSums

LEMMA SumExtend ==
    ASSUME NEW n \in Nat, NEW s \in [1..n -> Int], NEW t \in [1..(n + 1) -> Int],
           \A k \in 1..n : t[k] = s[k]
    PROVE  Sum(t) = Sum(s) + t[n + 1]
<1>1. PICK f : PartialSums(f, n, s) /\ Sum(s) = f[n]
  BY SumIs
<1> DEFINE g == [k \in 0..(n + 1) |-> IF k = n + 1 THEN f[n] + t[n + 1] ELSE f[k]]
<1>2. /\ f \in [0..n -> Int] /\ f[0] = 0 /\ \A k \in 1..n : f[k] = f[k - 1] + s[k]
  BY <1>1 DEF PartialSums
<1>3. t[n + 1] \in Int /\ f[n] \in Int
  BY <1>2
<1>4. g \in [0..(n + 1) -> Int]
  BY <1>2, <1>3
<1>5. g[0] = 0 /\ g[n + 1] = f[n] + t[n + 1]
  BY <1>2
<1>6. \A k \in 1..(n + 1) : g[k] = g[k - 1] + t[k]
  BY <1>2
<1>7. PartialSums(g, n + 1, t)
  <2> HIDE DEF g
  <2> QED
    BY <1>4, <1>5, <1>6 DEF PartialSums
<1>8. Sum(t) = g[n + 1]
  <2> HIDE DEF g
  <2>1. n + 1 \in Nat
    OBVIOUS
  <2> QED
    BY <1>7, <2>1, SumIs
<1> QED
  BY <1>1, <1>5, <1>8

\* One element less at the front.
LEMMA SumShift ==
    ASSUME NEW n \in Nat, NEW s \in [1..(n + 1) -> Int], NEW t \in [1..n -> Int],
           \A k \in 1..n : t[k] = s[k + 1]
    PROVE  Sum(s) = s[1] + Sum(t)
<1>0. n + 1 \in Nat /\ s[1] \in Int
  OBVIOUS
<1>1. PICK f : PartialSums(f, n + 1, s) /\ Sum(s) = f[n + 1]
  BY <1>0, SumIs
<1> DEFINE g == [k \in 0..n |-> f[k + 1] - s[1]]
<1>2. /\ f \in [0..(n + 1) -> Int] /\ f[0] = 0
      /\ \A k \in 1..(n + 1) : f[k] = f[k - 1] + s[k]
  BY <1>1 DEF PartialSums
<1>3. f[1] = s[1] /\ f[n + 1] \in Int
  <2>1. 1 \in 1..(n + 1) /\ f[1] = f[1 - 1] + s[1] /\ 1 - 1 = 0
    BY <1>2
  <2> QED
    BY <1>0, <1>2, <2>1
<1>4. g \in [0..n -> Int]
  BY <1>0, <1>2
<1>5. g[0] = 0 /\ g[n] = f[n + 1] - s[1]
  BY <1>0, <1>3
<1>6. \A k \in 1..n : g[k] = g[k - 1] + t[k]
  <2>1. TAKE k \in 1..n
  <2>2. k + 1 \in 1..(n + 1) /\ (k + 1) - 1 = k /\ (k - 1) + 1 = k /\ k - 1 \in 0..n
    OBVIOUS
  <2>3. f[k + 1] = f[k] + s[k + 1]
    BY <1>2, <2>2
  <2>4. f[k] \in Int /\ s[k + 1] \in Int
    BY <1>2, <2>2
  <2>5. g[k] = f[k + 1] - s[1] /\ g[k - 1] = f[k] - s[1]
    BY <2>2
  <2> QED
    BY <1>0, <2>3, <2>4, <2>5
<1>7. Sum(t) = g[n]
  <2> HIDE DEF g
  <2> QED
    BY <1>4, <1>5, <1>6, SumIs DEF PartialSums
<1> QED
  BY <1>0, <1>1, <1>3, <1>5, <1>7

\* One element is replaced.
LEMMA SumChange ==
    ASSUME NEW n \in Nat, NEW s \in [1..n -> Int], NEW t \in [1..n -> Int],
           NEW i \in 1..n, \A k \in 1..n : k # i => t[k] = s[k]
    PROVE  Sum(t) = Sum(s) - s[i] + t[i]
<1>1. PICK f : PartialSums(f, n, s) /\ Sum(s) = f[n]
  BY SumIs
<1> DEFINE g == [k \in 0..n |-> IF k < i THEN f[k] ELSE f[k] - s[i] + t[i]]
<1>2. /\ f \in [0..n -> Int] /\ f[0] = 0 /\ \A k \in 1..n : f[k] = f[k - 1] + s[k]
  BY <1>1 DEF PartialSums
<1>3. s[i] \in Int /\ t[i] \in Int
  OBVIOUS
<1>4. g \in [0..n -> Int]
  BY <1>2, <1>3
<1>5. g[0] = 0 /\ g[n] = f[n] - s[i] + t[i]
  BY <1>2
<1>6. \A k \in 1..n : g[k] = g[k - 1] + t[k]
  <2>1. TAKE k \in 1..n
  <2>2. f[k] = f[k - 1] + s[k] /\ f[k] \in Int /\ f[k - 1] \in Int /\ s[k] \in Int /\ t[k] \in Int
    BY <1>2
  <2>3. CASE k < i
    BY <2>2, <2>3
  <2>4. CASE k = i
    BY <2>2, <2>4
  <2>5. CASE k > i
    BY <1>3, <2>2, <2>5
  <2> QED
    BY <2>3, <2>4, <2>5
<1>7. Sum(t) = g[n]
  <2> HIDE DEF g
  <2> QED
    BY <1>4, <1>5, <1>6, SumIs DEF PartialSums
<1> QED
  BY <1>1, <1>5, <1>7

\* Two sequences one after the other.
LEMMA SumJoin ==
    ASSUME NEW m \in Nat, NEW n \in Nat,
           NEW s \in [1..m -> Int], NEW t \in [1..n -> Int], NEW u \in [1..(m + n) -> Int],
           \A k \in 1..m : u[k] = s[k],
           \A k \in 1..n : u[m + k] = t[k]
    PROVE  Sum(u) = Sum(s) + Sum(t)
<1>1. PICK f : PartialSums(f, m, s) /\ Sum(s) = f[m]
  BY SumIs
<1>2. PICK g : PartialSums(g, n, t) /\ Sum(t) = g[n]
  BY SumIs
<1> DEFINE h == [k \in 0..(m + n) |-> IF k <= m THEN f[k] ELSE f[m] + g[k - m]]
<1>3. /\ f \in [0..m -> Int] /\ f[0] = 0 /\ \A k \in 1..m : f[k] = f[k - 1] + s[k]
      /\ g \in [0..n -> Int] /\ g[0] = 0 /\ \A k \in 1..n : g[k] = g[k - 1] + t[k]
      /\ f[m] \in Int
  BY <1>1, <1>2 DEF PartialSums
<1>4. h \in [0..(m + n) -> Int]
  BY <1>3
<1>5. h[0] = 0 /\ h[m + n] = f[m] + g[n]
  <2>1. CASE n = 0
    BY <1>3, <2>1
  <2>2. CASE n # 0
    BY <1>3, <2>2
  <2> QED
    BY <2>1, <2>2
<1>6. \A k \in 1..(m + n) : h[k] = h[k - 1] + u[k]
  <2>1. TAKE k \in 1..(m + n)
  <2>2. CASE k <= m
    BY <1>3, <2>2
  <2>3. CASE k > m
    <3>1. k - m \in 1..n /\ m + (k - m) = k
      BY <2>3
    <3>2. u[k] = t[k - m]
      BY <3>1
    <3>3. g[k - m] = g[k - m - 1] + t[k - m]
      BY <1>3, <3>1
    <3>4. g[k - m - 1] \in Int /\ t[k - m] \in Int /\ k - 1 - m = k - m - 1
      BY <1>3, <3>1
    <3>5. h[k] = f[m] + g[k - m]
      BY <2>3
    <3>6. h[k - 1] = f[m] + g[k - m - 1]
      <4>1. CASE k - 1 = m
        BY <1>3, <4>1
      <4>2. CASE k - 1 # m
        BY <2>3, <3>4, <4>2
      <4> QED
        BY <4>1, <4>2
    <3>7. f[m] \in Int
      BY <1>3
    <3> HIDE DEF h
    <3> QED
      BY <3>2, <3>3, <3>4, <3>5, <3>6, <3>7, SMTT(30)
  <2> QED
    BY <2>2, <2>3
<1>7. Sum(u) = h[m + n]
  <2> HIDE DEF h
  <2>1. m + n \in Nat
    OBVIOUS
  <2> QED
    BY <1>4, <1>5, <1>6, <2>1, SumIs DEF PartialSums
<1> QED
  BY <1>1, <1>2, <1>5, <1>7

\* Of natural numbers: the sum is at least each of them, and 0 if they all are.
LEMMA SumOfNaturals ==
    ASSUME NEW n \in Nat, NEW s \in [1..n -> Nat]
    PROVE  /\ Sum(s) \in Nat
           /\ \A i \in 1..n : s[i] <= Sum(s)
           /\ (\A i \in 1..n : s[i] = 0) => Sum(s) = 0
<1>0. s \in [1..n -> Int]
  OBVIOUS
<1>1. PICK f : PartialSums(f, n, s) /\ Sum(s) = f[n]
  BY <1>0, SumIs
<1>2. /\ f \in [0..n -> Int] /\ f[0] = 0 /\ \A k \in 1..n : f[k] = f[k - 1] + s[k]
  BY <1>1 DEF PartialSums
<1> DEFINE Fine(k) == f[k] >= 0 /\ \A i \in 1..k : s[i] <= f[k]
           Bad == {k \in 0..n : ~Fine(k)}
<1>3. ASSUME Bad # {} PROVE FALSE
  <2>1. Bad \subseteq Nat
    OBVIOUS
  <2>2. PICK m \in Bad : \A k \in Bad : m <= k
    <3> HIDE DEF Bad
    <3> QED
      BY <1>3, <2>1, LeastNatural
  <2>3. m \in 0..n /\ ~Fine(m)
    BY <2>2
  <2>4. m # 0
    BY <1>2, <2>3
  <2>5. m - 1 \in 0..n /\ m - 1 \notin Bad /\ m \in 1..n
    BY <2>2, <2>3, <2>4
  <2>6. Fine(m - 1)
    BY <2>5
  <2>7. f[m] = f[m - 1] + s[m] /\ s[m] \in Nat /\ f[m - 1] \in Int
    BY <1>2, <2>5
  <2>8. f[m] >= 0 /\ s[m] <= f[m] /\ f[m - 1] <= f[m]
    BY <2>6, <2>7
  <2>9. \A i \in 1..m : s[i] <= f[m]
    <3>1. TAKE i \in 1..m
    <3>2. CASE i = m
      BY <2>8, <3>2
    <3>3. CASE i # m
      <4>1. i \in 1..(m - 1) /\ i \in 1..n
        BY <2>5, <3>3
      <4>2. s[i] <= f[m - 1] /\ s[i] \in Nat
        BY <2>6, <4>1
      <4>3. f[m] \in Int
        BY <1>2, <2>5
      <4> QED
        BY <2>7, <2>8, <4>2, <4>3
    <3> QED
      BY <3>2, <3>3
  <2> QED
    BY <2>3, <2>8, <2>9
<1>4. Fine(n)
  <2>1. n \in 0..n /\ n \notin Bad
    BY <1>3
  <2> QED
    BY <2>1
<1>5. f[n] \in Nat
  BY <1>2, <1>4
<1>6. ASSUME \A i \in 1..n : s[i] = 0 PROVE Sum(s) = 0
  <2> DEFINE z == [k \in 0..n |-> 0]
  <2>1. PartialSums(z, n, s)
    BY <1>6 DEF PartialSums
  <2>2. z[n] = 0
    OBVIOUS
  <2> HIDE DEF z
  <2> QED
    BY <1>0, <2>1, <2>2, SumIs
<1> QED
  BY <1>1, <1>4, <1>5, <1>6

\* Sequences weighed by a function.
LEMMA WeighType ==
    ASSUME NEW S, NEW g \in [S -> Int], NEW s \in Seq(S)
    PROVE  /\ Len(s) \in Nat /\ DOMAIN s = 1..Len(s)
           /\ [i \in DOMAIN s |-> g[s[i]]] \in [1..Len(s) -> Int]
           /\ Weigh(g, s) \in Int
<1>1. Len(s) \in Nat /\ DOMAIN s = 1..Len(s) /\ \A i \in 1..Len(s) : s[i] \in S
  OBVIOUS
<1>2. [i \in DOMAIN s |-> g[s[i]]] \in [1..Len(s) -> Int]
  BY <1>1
<1> QED
  BY <1>1, <1>2, SumIs DEF Weigh

LEMMA WeighEmpty ==
    ASSUME NEW g
    PROVE  Weigh(g, <<>>) = 0
<1>1. [i \in DOMAIN <<>> |-> g[<<>>[i]]] = <<>>
  OBVIOUS
<1> QED
  BY <1>1, SumEmpty DEF Weigh

LEMMA WeighAppend ==
    ASSUME NEW S, NEW g \in [S -> Int], NEW s \in Seq(S), NEW x \in S
    PROVE  Weigh(g, Append(s, x)) = Weigh(g, s) + g[x]
<1> DEFINE t == Append(s, x)
           a == [i \in DOMAIN s |-> g[s[i]]]
           b == [i \in DOMAIN t |-> g[t[i]]]
<1>1. /\ t \in Seq(S) /\ Len(t) = Len(s) + 1 /\ t[Len(s) + 1] = x
      /\ \A i \in 1..Len(s) : t[i] = s[i]
  OBVIOUS
<1>2. Len(s) \in Nat /\ DOMAIN s = 1..Len(s) /\ a \in [1..Len(s) -> Int]
  BY WeighType
<1>3. DOMAIN t = 1..(Len(s) + 1) /\ b \in [1..(Len(s) + 1) -> Int]
  <2> HIDE DEF t
  <2> QED
    BY <1>1, WeighType
<1>4. \A i \in 1..Len(s) : b[i] = a[i]
  <2> HIDE DEF t
  <2> QED
    BY <1>1, <1>2, <1>3
<1>5. b[Len(s) + 1] = g[x]
  <2> HIDE DEF t
  <2> QED
    BY <1>1, <1>2, <1>3
<1>6. Sum(b) = Sum(a) + b[Len(s) + 1]
  <2> HIDE DEF t, a, b
  <2> QED
    BY <1>2, <1>3, <1>4, SumExtend
<1> QED
  BY <1>5, <1>6 DEF Weigh

LEMMA WeighTail ==
    ASSUME NEW S, NEW g \in [S -> Int], NEW s \in Seq(S), s # <<>>
    PROVE  /\ Head(s) \in S /\ Tail(s) \in Seq(S)
           /\ Weigh(g, s) = g[Head(s)] + Weigh(g, Tail(s))
<1> DEFINE t == Tail(s)
           n == Len(s) - 1
           a == [i \in DOMAIN s |-> g[s[i]]]
           b == [i \in DOMAIN t |-> g[t[i]]]
<1>1. /\ t \in Seq(S) /\ Len(t) = n /\ n \in Nat /\ Len(s) = n + 1
      /\ \A i \in 1..n : t[i] = s[i + 1]
      /\ Head(s) = s[1] /\ s[1] \in S
  OBVIOUS
<1>2. DOMAIN s = 1..(n + 1) /\ a \in [1..(n + 1) -> Int]
  BY <1>1, WeighType
<1>3. DOMAIN t = 1..n /\ b \in [1..n -> Int]
  <2> HIDE DEF t, n
  <2> QED
    BY <1>1, WeighType
<1>4. \A i \in 1..n : b[i] = a[i + 1]
  <2> HIDE DEF t, n
  <2> QED
    BY <1>1, <1>2, <1>3
<1>5. a[1] = g[Head(s)]
  <2> HIDE DEF t, n
  <2> QED
    BY <1>1, <1>2
<1>6. Sum(a) = a[1] + Sum(b)
  <2> HIDE DEF t, a, b, n
  <2> QED
    BY <1>1, <1>2, <1>3, <1>4, SumShift
<1> QED
  BY <1>1, <1>5, <1>6 DEF Weigh

LEMMA WeighExcept ==
    ASSUME NEW S, NEW g \in [S -> Int], NEW s \in Seq(S), NEW i \in DOMAIN s, NEW x \in S
    PROVE  Weigh(g, [s EXCEPT ![i] = x]) = Weigh(g, s) - g[s[i]] + g[x]
<1> DEFINE t == [s EXCEPT ![i] = x]
           a == [k \in DOMAIN s |-> g[s[k]]]
           b == [k \in DOMAIN t |-> g[t[k]]]
<1>1. Len(s) \in Nat /\ DOMAIN s = 1..Len(s) /\ a \in [1..Len(s) -> Int]
  BY WeighType
<1>2. DOMAIN t = 1..Len(s) /\ t[i] = x /\ \A k \in 1..Len(s) : k # i => t[k] = s[k]
  BY <1>1
<1>3. \A k \in 1..Len(s) : t[k] \in S
  BY <1>1, <1>2
<1>4. b \in [1..Len(s) -> Int]
  <2> HIDE DEF t
  <2> QED
    BY <1>2, <1>3
<1>5. a[i] = g[s[i]] /\ b[i] = g[x] /\ \A k \in 1..Len(s) : k # i => b[k] = a[k]
  <2> HIDE DEF t
  <2> QED
    BY <1>1, <1>2
<1>6. Sum(b) = Sum(a) - a[i] + b[i]
  <2> HIDE DEF t, a, b
  <2> QED
    BY <1>1, <1>4, <1>5, SumChange
<1> QED
  BY <1>5, <1>6 DEF Weigh

LEMMA WeighJoin ==
    ASSUME NEW S, NEW g \in [S -> Int], NEW s \in Seq(S), NEW t \in Seq(S)
    PROVE  Weigh(g, s \o t) = Weigh(g, s) + Weigh(g, t)
<1> DEFINE u == s \o t
           a == [k \in DOMAIN s |-> g[s[k]]]
           b == [k \in DOMAIN t |-> g[t[k]]]
           c == [k \in DOMAIN u |-> g[u[k]]]
<1>1. /\ u \in Seq(S) /\ Len(u) = Len(s) + Len(t)
      /\ \A k \in 1..Len(s) : u[k] = s[k]
      /\ \A k \in 1..Len(t) : u[Len(s) + k] = t[k]
  OBVIOUS
<1>2. /\ Len(s) \in Nat /\ DOMAIN s = 1..Len(s) /\ a \in [1..Len(s) -> Int]
      /\ Len(t) \in Nat /\ DOMAIN t = 1..Len(t) /\ b \in [1..Len(t) -> Int]
  BY WeighType
<1>3. DOMAIN u = 1..(Len(s) + Len(t)) /\ c \in [1..(Len(s) + Len(t)) -> Int]
  <2> HIDE DEF u
  <2> QED
    BY <1>1, WeighType
<1>4. /\ \A k \in 1..Len(s) : c[k] = a[k]
      /\ \A k \in 1..Len(t) : c[Len(s) + k] = b[k]
  <2> HIDE DEF u
  <2>1. \A k \in 1..Len(s) : k \in 1..(Len(s) + Len(t))
    BY <1>2
  <2>2. \A k \in 1..Len(t) : Len(s) + k \in 1..(Len(s) + Len(t))
    BY <1>2
  <2> QED
    BY <1>1, <1>2, <1>3, <2>1, <2>2
<1>5. Sum(c) = Sum(a) + Sum(b)
  <2> HIDE DEF u, a, b, c
  <2> QED
    BY <1>2, <1>3, <1>4, SumJoin
<1> QED
  BY <1>5 DEF Weigh

\* A sequence cut in two.
LEMMA WeighCut ==
    ASSUME NEW S, NEW g \in [S -> Int], NEW s \in Seq(S), NEW n \in 0..Len(s)
    PROVE  /\ SubSeq(s, 1, n) \in Seq(S) /\ Len(SubSeq(s, 1, n)) = n
           /\ SubSeq(s, n + 1, Len(s)) \in Seq(S) /\ Len(SubSeq(s, n + 1, Len(s))) = Len(s) - n
           /\ Weigh(g, s) = Weigh(g, SubSeq(s, 1, n)) + Weigh(g, SubSeq(s, n + 1, Len(s)))
<1> DEFINE front == SubSeq(s, 1, n)
           back == SubSeq(s, n + 1, Len(s))
<1>1. Len(s) \in Nat /\ n \in Nat
  OBVIOUS
<1>2. /\ front \in Seq(S) /\ Len(front) = n /\ \A k \in 1..n : front[k] = s[k]
  OBVIOUS
<1>3. /\ back \in Seq(S) /\ Len(back) = Len(s) - n
      /\ \A k \in 1..(Len(s) - n) : back[k] = s[n + k]
  <2>1. CASE n = Len(s)
    BY <2>1
  <2>2. CASE n # Len(s)
    BY <1>1, <2>2
  <2> QED
    BY <2>1, <2>2
<1> DEFINE r == Len(s) - n
           a == [k \in DOMAIN front |-> g[front[k]]]
           b == [k \in DOMAIN back |-> g[back[k]]]
           c == [k \in DOMAIN s |-> g[s[k]]]
<1>4. r \in Nat /\ Len(s) = n + r
  BY <1>1
<1>5. DOMAIN front = 1..n /\ a \in [1..n -> Int]
  <2> HIDE DEF front, back, r
  <2> QED
    BY <1>2, WeighType
<1>6. DOMAIN back = 1..r /\ b \in [1..r -> Int]
  <2> HIDE DEF front, back
  <2> QED
    BY <1>3, WeighType
<1>7. DOMAIN s = 1..(n + r) /\ c \in [1..(n + r) -> Int]
  <2> HIDE DEF front, back, r
  <2> QED
    BY <1>4, WeighType
<1>8. \A k \in 1..n : c[k] = a[k]
  <2> HIDE DEF front, back, r
  <2> QED
    BY <1>1, <1>2, <1>4, <1>5, <1>7
<1>9. \A k \in 1..r : c[n + k] = b[k]
  <2>1. \A k \in 1..r : back[k] = s[n + k]
    BY <1>3
  <2> HIDE DEF front, back, r
  <2>2. \A k \in 1..r : n + k \in 1..(n + r)
    BY <1>1, <1>4
  <2> QED
    BY <1>6, <1>7, <2>1, <2>2
<1>10. Sum(c) = Sum(a) + Sum(b)
  <2> HIDE DEF front, back, a, b, c, r
  <2> QED
    BY <1>1, <1>4, <1>5, <1>6, <1>7, <1>8, <1>9, SumJoin
<1> QED
  BY <1>2, <1>3, <1>10 DEF Weigh

\* With weights that are natural numbers.
LEMMA WeighNaturals ==
    ASSUME NEW S, NEW g \in [S -> Int], NEW s \in Seq(S), \A i \in DOMAIN s : g[s[i]] >= 0
    PROVE  /\ Weigh(g, s) \in Nat
           /\ \A i \in DOMAIN s : g[s[i]] <= Weigh(g, s)
           /\ (\A i \in DOMAIN s : g[s[i]] = 0) => Weigh(g, s) = 0
<1> DEFINE a == [k \in DOMAIN s |-> g[s[k]]]
<1>1. Len(s) \in Nat /\ DOMAIN s = 1..Len(s) /\ a \in [1..Len(s) -> Int]
  BY WeighType
<1>2. a \in [1..Len(s) -> Nat]
  BY <1>1
<1>3. /\ Sum(a) \in Nat
      /\ \A i \in 1..Len(s) : a[i] <= Sum(a)
      /\ (\A i \in 1..Len(s) : a[i] = 0) => Sum(a) = 0
  <2> HIDE DEF a
  <2> QED
    BY <1>1, <1>2, SumOfNaturals
<1> QED
  BY <1>1, <1>3 DEF Weigh

\* The order of a sequence does not matter to its sum.
Reorders(f, n) ==
    /\ f \in [1..n -> 1..n]
    /\ \A i, j \in 1..n : f[i] = f[j] => i = j
    /\ \A j \in 1..n : \E i \in 1..n : f[i] = j
LEMMA ReorderFewer ==
    ASSUME NEW m \in Nat, NEW f, Reorders(f, m + 1), NEW a \in 1..(m + 1), f[a] = m + 1
    PROVE  Reorders([i \in 1..m |-> IF i = a THEN f[m + 1] ELSE f[i]], m)
<1> DEFINE g == [i \in 1..m |-> IF i = a THEN f[m + 1] ELSE f[i]]
<1>1. /\ \A i \in 1..(m + 1) : f[i] \in 1..(m + 1)
      /\ \A i, j \in 1..(m + 1) : f[i] = f[j] => i = j
      /\ \A j \in 1..(m + 1) : \E i \in 1..(m + 1) : f[i] = j
      /\ m + 1 \in 1..(m + 1) /\ 1..m \subseteq 1..(m + 1)
  <2>1. m + 1 \in 1..(m + 1) /\ 1..m \subseteq 1..(m + 1)
    OBVIOUS
  <2>2. f \in [1..(m + 1) -> 1..(m + 1)]
    BY DEF Reorders
  <2> QED
    BY <2>1, <2>2 DEF Reorders
<1>2. ASSUME NEW i \in 1..m PROVE g[i] \in 1..m /\ g[i] = IF i = a THEN f[m + 1] ELSE f[i]
  <2>1. CASE i = a
    <3>1. f[m + 1] # m + 1 /\ f[m + 1] \in 1..(m + 1)
      BY <1>1, <2>1
    <3> QED
      BY <2>1, <3>1
  <2>2. CASE i # a
    <3>1. f[i] # m + 1 /\ f[i] \in 1..(m + 1)
      BY <1>1, <2>2
    <3> QED
      BY <2>2, <3>1
  <2> QED
    BY <2>1, <2>2
<1>3. ASSUME NEW i \in 1..m, NEW j \in 1..m, g[i] = g[j] PROVE i = j
  <2>1. m + 1 # i /\ m + 1 # j
    OBVIOUS
  <2> QED
    BY <1>1, <1>2, <1>3, <2>1
<1>4. ASSUME NEW j \in 1..m PROVE \E i \in 1..m : g[i] = j
  <2>1. PICK i \in 1..(m + 1) : f[i] = j
    BY <1>1
  <2>2. i # a
    BY <2>1
  <2>3. CASE i = m + 1
    <3>1. a \in 1..m
      BY <2>2, <2>3
    <3> QED
      BY <1>2, <2>1, <2>3, <3>1
  <2>4. CASE i # m + 1
    <3>1. i \in 1..m
      BY <2>4
    <3> QED
      BY <1>2, <2>1, <2>2, <3>1
  <2> QED
    BY <2>3, <2>4
<1>5. g \in [1..m -> 1..m]
  BY <1>2
<1> QED
  BY <1>3, <1>4, <1>5 DEF Reorders

LEMMA SumReordered ==
    ASSUME NEW n \in Nat, NEW s \in [1..n -> Int], NEW t \in [1..n -> Int], NEW f,
           Reorders(f, n), \A i \in 1..n : t[i] = s[f[i]]
    PROVE  Sum(t) = Sum(s)
<1> DEFINE Fails(k) == \E r, u \in [1..k -> Int] : \E h :
                          Reorders(h, k) /\ (\A i \in 1..k : u[i] = r[h[i]]) /\ Sum(u) # Sum(r)
           Bad == {k \in Nat : Fails(k)}
<1>0. \A k \in Nat : k \notin Bad => ~Fails(k)
  OBVIOUS
<1>1. ASSUME Bad # {} PROVE FALSE
  <2>0. Bad \subseteq Nat /\ \A k \in Bad : Fails(k)
    OBVIOUS
  <2> HIDE DEF Bad
  <2>1. PICK k \in Bad : \A l \in Bad : k <= l
    BY <1>1, <2>0, LeastNatural
  <2>20. PICK r \in [1..k -> Int], u \in [1..k -> Int] : \E h :
            Reorders(h, k) /\ (\A i \in 1..k : u[i] = r[h[i]]) /\ Sum(u) # Sum(r)
    BY <2>0, <2>1
  <2>2. PICK h :
            Reorders(h, k) /\ (\A i \in 1..k : u[i] = r[h[i]]) /\ Sum(u) # Sum(r)
    BY <2>20
  <2>3. k \in Nat
    BY <2>0, <2>1
  <2>4. k # 0
    <3>1. ASSUME k = 0 PROVE u = r
      BY <3>1
    <3> QED
      BY <2>2, <3>1
  <2>5. PICK m \in Nat : k = m + 1
    <3>1. k - 1 \in Nat /\ k = (k - 1) + 1
      BY <2>3, <2>4
    <3> QED
      BY <3>1
  <2>6. k \in 1..k /\ ~Fails(m) /\ 1..m \subseteq 1..k
    <3>1. ~(k <= m)
      BY <2>5
    <3>2. ~Fails(m)
      BY <1>0, <2>1, <3>1
    <3>3. k \in 1..k /\ 1..m \subseteq 1..k
      BY <2>5
    <3> QED
      BY <3>2, <3>3
  <2>7. PICK a \in 1..k : h[a] = k
    BY <2>2, <2>6 DEF Reorders
  <2> DEFINE v == [i \in 1..k |-> IF i = a THEN u[k] ELSE u[i]]
             x == [i \in 1..k |-> IF i = k THEN r[k] ELSE v[i]]
             x0 == [i \in 1..m |-> x[i]]
             r0 == [i \in 1..m |-> r[i]]
             g == [i \in 1..m |-> IF i = a THEN h[m + 1] ELSE h[i]]
  <2>8. /\ v \in [1..k -> Int] /\ x \in [1..k -> Int]
        /\ x0 \in [1..m -> Int] /\ r0 \in [1..m -> Int]
    BY <2>2, <2>6
  <2>9. Sum(x) = Sum(u)
    <3>1. Sum(v) = Sum(u) - u[a] + v[a]
      BY <2>3, <2>8, SumChange
    <3>2. Sum(x) = Sum(v) - v[k] + x[k]
      BY <2>3, <2>6, <2>8, SumChange
    <3>3. u[a] = r[k] /\ v[a] = u[k] /\ v[k] = u[k] /\ x[k] = r[k]
      BY <2>2, <2>6, <2>7
    <3>4. Sum(u) \in Int /\ u[k] \in Int /\ r[k] \in Int
      BY <2>3, <2>6, SumIs
    <3> QED
      BY <3>1, <3>2, <3>3, <3>4
  <2>10. Reorders(g, m)
    <3>1. Reorders(h, m + 1) /\ a \in 1..(m + 1) /\ h[a] = m + 1
      BY <2>2, <2>5, <2>7
    <3> QED
      BY <3>1, ReorderFewer
  <2>11. ASSUME NEW i \in 1..m PROVE x0[i] = r0[g[i]]
    <3>1. g[i] \in 1..m
      BY <2>10 DEF Reorders
    <3>2. i # k /\ x0[i] = IF i = a THEN u[k] ELSE u[i]
      BY <2>5, <2>6
    <3>3. u[i] = r[h[i]] /\ u[k] = r[h[k]]
      BY <2>2, <2>6
    <3> QED
      BY <2>5, <3>1, <3>2, <3>3
  <2>12. Sum(x0) = Sum(r0)
    BY <2>6, <2>8, <2>10, <2>11
  <2>13. Sum(x) = Sum(x0) + x[k] /\ Sum(r) = Sum(r0) + r[k]
    <3>1. x \in [1..(m + 1) -> Int] /\ r \in [1..(m + 1) -> Int]
      BY <2>5, <2>8
    <3>2. \A i \in 1..m : x[i] = x0[i] /\ r[i] = r0[i]
      OBVIOUS
    <3> HIDE DEF x, x0, r0
    <3>3. Sum(x) = Sum(x0) + x[m + 1]
      BY <2>8, <3>1, <3>2, SumExtend
    <3>4. Sum(r) = Sum(r0) + r[m + 1]
      BY <2>8, <3>1, <3>2, SumExtend
    <3> QED
      BY <2>5, <3>3, <3>4
  <2> QED
    BY <2>2, <2>6, <2>9, <2>12, <2>13
<1>2. n \notin Bad
  BY <1>1
<1> QED
  BY <1>2
=============================================================================
