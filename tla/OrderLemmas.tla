----------------------------- MODULE OrderLemmas -----------------------------
(***************************************************************************)
(* What the proofs share: least and greatest elements of sets of numbers,  *)
(* for definitions that choose one, the number of members of a set,        *)
(* recursive definitions, and the lexicographic order.                     *)
(***************************************************************************)
EXTENDS Integers, FiniteSets, WellFoundedInduction, FiniteSetTheorems, SequenceTheorems, TLAPS

\* Every set of natural numbers that is not empty has a least element.
LEMMA LeastExists ==
  ASSUME NEW T \in SUBSET Nat, T # {}
  PROVE  \E m \in T : \A k \in T : m <= k
<1> DEFINE R == OpToRel(<, Nat)
<1>1. R = {ss \in Nat \X Nat : ss[1] < ss[2]}
  BY DEF OpToRel
<1>2. IsWellFoundedOn(R, Nat)
  BY NatLessThanWellFounded
<1> HIDE DEF R
<1>3. PICK m \in T : \A k \in T : ~(<<k, m>> \in R)
  BY <1>2, WFMin
<1>4. ASSUME NEW k \in T PROVE m <= k
  <2>1. k \in Nat /\ m \in Nat /\ <<k, m>> \in Nat \X Nat
    OBVIOUS
  <2>2. ~(k < m)
    BY <1>1, <1>3, <2>1
  <2> QED
    BY <2>1, <2>2
<1> QED
  BY <1>4

\* And a greatest one, if it is bounded.
LEMMA GreatestExists ==
  ASSUME NEW T \in SUBSET Nat, T # {}, NEW n \in Nat, \A k \in T : k <= n
  PROVE  \E m \in T : \A k \in T : k <= m
<1> DEFINE D == {n - k : k \in T}
<1>1. D \in SUBSET Nat /\ D # {}
  <2>1. ASSUME NEW k \in T PROVE n - k \in Nat
    <3>1. k \in Nat /\ k <= n
      OBVIOUS
    <3> QED
      BY <3>1
  <2> QED
    BY <2>1
<1>2. PICK d \in D : \A e \in D : d <= e
  BY <1>1, LeastExists
<1>3. PICK m \in T : d = n - m
  BY <1>2
<1>4. ASSUME NEW k \in T PROVE k <= m
  <2>1. n - m <= n - k
    BY <1>2, <1>3
  <2>2. k \in Nat /\ m \in Nat
    OBVIOUS
  <2> QED
    BY <2>1, <2>2
<1> QED
  BY <1>4

\* A finite set of natural numbers is bounded: it has a greatest element, too.
LEMMA FiniteGreatest ==
  ASSUME NEW T \in SUBSET Nat, IsFiniteSet(T), T # {}
  PROVE  \E m \in T : \A k \in T : k <= m
<1> DEFINE R == StrictSubsetOrdering(T)
           Over(t) == {k \in T : k > t}
           F == {Over(t) : t \in T}
<1>1. IsWellFoundedOn(R, FiniteSubsetsOf(T))
  BY FS_StrictSubsetOrderingWellFounded
<1>2. F \in SUBSET FiniteSubsetsOf(T) /\ F # {}
  <2>1. ASSUME NEW t \in T PROVE Over(t) \in FiniteSubsetsOf(T)
    <3>1. Over(t) \in SUBSET T
      OBVIOUS
    <3>2. IsFiniteSet(Over(t))
      BY <3>1, FS_Subset
    <3> QED
      BY <3>1, <3>2 DEF FiniteSubsetsOf
  <2> QED
    BY <2>1
<1>3. PICK U \in F : \A V \in F : ~(<<V, U>> \in R)
  <2> HIDE DEF R, F
  <2> QED
    BY <1>1, <1>2, WFMin
<1>4. PICK m \in T : U = Over(m)
  BY <1>3
<1>5. ASSUME NEW k \in T, ~(k <= m) PROVE FALSE
  <2>1. k \in Nat /\ m \in Nat /\ k > m
    BY <1>5
  <2>2. Over(k) \in F /\ Over(k) \subseteq U /\ k \in U /\ k \notin Over(k)
    <3>1. Over(k) \in F
      OBVIOUS
    <3>2. \A j \in T : j \in Nat /\ (j > k => j > m)
      BY <2>1
    <3>3. ~(k > k)
      BY <2>1
    <3> QED
      BY <1>4, <2>1, <3>1, <3>2, <3>3
  <2>3. <<Over(k), U>> \in R
    BY <1>2, <1>3, <2>2 DEF StrictSubsetOrdering, FiniteSubsetsOf
  <2> QED
    BY <1>3, <2>2, <2>3
<1> QED
  BY <1>5

\* A set with one more element has a greater cardinality.
LEMMA CardinalityGrows ==
  ASSUME NEW S, NEW T, IsFiniteSet(T), S \subseteq T, NEW x \in T, x \notin S
  PROVE  /\ Cardinality(S) \in Nat /\ Cardinality(T) \in Nat
         /\ Cardinality(S) < Cardinality(T)
<1>1. IsFiniteSet(S) /\ Cardinality(S) <= Cardinality(T) /\ Cardinality(S) # Cardinality(T)
  BY FS_Subset
<1>2. Cardinality(S) \in Nat /\ Cardinality(T) \in Nat
  BY <1>1, FS_CardinalityType
<1> QED
  BY <1>1, <1>2

\* A function that takes no value twice on a finite set has as many values as the set.
LEMMA CardinalityImage ==
  ASSUME NEW f, NEW S, IsFiniteSet(S), \A x, y \in S : f[x] = f[y] => x = y
  PROVE  /\ IsFiniteSet({f[x] : x \in S})
         /\ Cardinality({f[x] : x \in S}) = Cardinality(S)
<1> DEFINE T == {f[x] : x \in S}
           g == [x \in S |-> f[x]]
<1>1. g \in [S -> T] /\ DOMAIN g = S /\ \A x \in S : g[x] = f[x]
  OBVIOUS
<1>2. \A y \in T : \E x \in S : f[x] = y
  OBVIOUS
<1> HIDE DEF g, T
<1>3. g \in Injection(S, T) /\ g \in Surjection(S, T)
  BY <1>1, <1>2 DEF Injection, Surjection, IsInjective
<1>4. IsFiniteSet(T) /\ Cardinality(T) = Cardinality(S)
  BY <1>3, FS_Surjection
<1> QED
  BY <1>4 DEF T

\* There are k numbers from 1 to k.
LEMMA CardinalityUpTo ==
  ASSUME NEW k \in Nat
  PROVE  IsFiniteSet(1..k) /\ Cardinality(1..k) = k
<1>1. 1 \in Int /\ k \in Int
  OBVIOUS
<1>2. IsFiniteSet(1..k) /\ Cardinality(1..k) = IF 1 > k THEN 0 ELSE k - 1 + 1
  BY ONLY <1>1, FS_Interval
<1> QED
  BY <1>2

\* f is what a recursive definition over the natural numbers defines: its first value is
\* v, and h gives each later one from the one before.
Recursion(f, V, v, h) ==
  f \in [Nat -> V] /\ f[0] = v /\ \A n \in Nat : f[n + 1] = h[n][f[n]]

\* A recursive definition over the natural numbers has a solution: there is a function
\* of that kind.
LEMMA PrimitiveRecursion ==
  ASSUME NEW V, NEW v \in V, NEW h \in [Nat -> [V -> V]]
  PROVE  \E f : Recursion(f, V, v, h)
<1> DEFINE Upto(g, n) == /\ g \in [0..n -> V] /\ g[0] = v
                         /\ \A i \in 0..n : i < n => g[i + 1] = h[i][g[i]]
<1>1. ASSUME NEW n \in Nat, NEW g, Upto(g, n), NEW m \in Nat, NEW e, Upto(e, m), NEW k \in Nat, k <= n, k <= m
      PROVE  g[k] = e[k]
  <2> DEFINE T == {i \in Nat : i <= n /\ i <= m /\ g[i] # e[i]}
  <2>1. SUFFICES ASSUME T # {} PROVE FALSE
    BY <1>1
  <2>2. PICK i \in T : \A j \in T : i <= j
    <3> T \in SUBSET Nat
      OBVIOUS
    <3> HIDE DEF T
    <3> QED
      BY <2>1, LeastExists
  <2>3. i # 0
    BY <1>1, <2>2
  <2>4. i - 1 \in Nat /\ g[i - 1] = e[i - 1]
    BY <2>2, <2>3
  <2>5. g[i] = h[i - 1][g[i - 1]] /\ e[i] = h[i - 1][e[i - 1]]
    <3>1. i - 1 \in 0..n /\ i - 1 \in 0..m /\ i - 1 < n /\ i - 1 < m /\ (i - 1) + 1 = i
      BY <2>2, <2>3
    <3> QED
      BY <1>1, <3>1
  <2> QED
    BY <2>2, <2>4, <2>5
<1>2. ASSUME NEW n \in Nat
      PROVE  \E g : Upto(g, n)
  <2> DEFINE T == {i \in Nat : ~ \E g : Upto(g, i)}
  <2>1. SUFFICES ASSUME T # {} PROVE FALSE
    BY <1>2
  <2>2. PICK i \in T : \A j \in T : i <= j
    <3> T \in SUBSET Nat
      OBVIOUS
    <3> HIDE DEF T
    <3> QED
      BY <2>1, LeastExists
  <2>3. i # 0
    <3>1. Upto([k \in 0..0 |-> v], 0)
      OBVIOUS
    <3> QED
      BY <2>2, <3>1
  <2>4. i - 1 \in Nat /\ \E g : Upto(g, i - 1)
    <3>1. i - 1 \in Nat /\ ~(i <= i - 1)
      BY <2>2, <2>3
    <3>2. i - 1 \notin T
      BY <2>2, <3>1
    <3> HIDE DEF Upto
    <3> QED
      BY <3>1, <3>2
  <2>5. PICK g : Upto(g, i - 1)
    BY <2>4
  <2> DEFINE e == [k \in 0..i |-> IF k < i THEN g[k] ELSE h[i - 1][g[i - 1]]]
  <2>6. i - 1 \in 0..(i - 1) /\ g[i - 1] \in V /\ h[i - 1][g[i - 1]] \in V
    BY <2>4, <2>5
  <2>7. e \in [0..i -> V]
    <3>1. ASSUME NEW k \in 0..i, k < i PROVE g[k] \in V
      BY <2>2, <2>5, <3>1
    <3> QED
      BY <2>6, <3>1
  <2>8. e[0] = v
    BY <2>2, <2>3, <2>5
  <2>9. ASSUME NEW k \in 0..i, k < i
        PROVE  e[k + 1] = h[k][e[k]]
    <3>1. k \in Nat /\ k + 1 \in 0..i /\ i \in Nat
      BY <2>2, <2>9
    <3>2. CASE k + 1 < i
      <4>1. k \in 0..(i - 1) /\ k < i - 1
        BY <3>1, <3>2
      <4>2. g[k + 1] = h[k][g[k]]
        BY <2>5, <4>1
      <4> QED
        BY <2>9, <3>1, <3>2, <4>2
    <3>3. CASE k + 1 = i
      <4>1. k = i - 1
        BY <3>1, <3>3
      <4> QED
        BY <2>9, <3>1, <3>3, <4>1
    <3> QED
      BY <2>9, <3>1, <3>2, <3>3
  <2>10. Upto(e, i)
    <3> HIDE DEF e
    <3> QED
      BY <2>7, <2>8, <2>9
  <2> QED
    BY <2>2, <2>10
<1> DEFINE G(n) == CHOOSE g : Upto(g, n)
           f == [n \in Nat |-> G(n)[n]]
<1>3. ASSUME NEW n \in Nat PROVE Upto(G(n), n)
  BY <1>2
<1> HIDE DEF G
<1>4. f \in [Nat -> V]
  <2>1. ASSUME NEW n \in Nat PROVE G(n)[n] \in V
    <3>1. n \in 0..n
      OBVIOUS
    <3> QED
      BY <1>3, <3>1
  <2> QED
    BY <2>1
<1>5. f[0] = v
  BY <1>3
<1>6. ASSUME NEW n \in Nat PROVE f[n + 1] = h[n][f[n]]
  <2>1. n + 1 \in Nat /\ n \in 0..(n + 1) /\ n < n + 1 /\ n <= n /\ n <= n + 1
    OBVIOUS
  <2>2. G(n + 1)[n + 1] = h[n][G(n + 1)[n]]
    BY <1>3, <2>1
  <2>3. G(n + 1)[n] = G(n)[n]
    <3>1. Upto(G(n + 1), n + 1) /\ Upto(G(n), n)
      BY <1>3, <2>1
    <3> HIDE DEF Upto
    <3> QED
      BY <1>1, <2>1, <3>1
  <2> QED
    BY <2>1, <2>2, <2>3
<1> QED
  BY <1>4, <1>5, <1>6 DEF Recursion

(***************************************************************************)
(* The lexicographic order of sequences of numbers.                        *)
(***************************************************************************)
\* The first difference decides, or else the shorter one comes first.
LexLess(a, b) ==
  \/ \E i \in DOMAIN a : /\ i <= Len(b) /\ a[i] < b[i]
                         /\ \A j \in 1..(i - 1) : a[j] = b[j]
  \/ Len(a) < Len(b) /\ \A i \in DOMAIN a : a[i] = b[i]

\* No sequence is before itself,
LEMMA LexLessIrreflexive ==
  ASSUME NEW a \in Seq(Nat)
  PROVE  ~LexLess(a, a)
BY DEF LexLess

\* of two different ones one is before the other,
LEMMA LexLessTotal ==
  ASSUME NEW a \in Seq(Nat), NEW b \in Seq(Nat), a # b
  PROVE  LexLess(a, b) \/ LexLess(b, a)
<1> DEFINE D == {i \in DOMAIN a : i <= Len(b) /\ a[i] # b[i]}
<1>1. /\ DOMAIN a = 1..Len(a) /\ DOMAIN b = 1..Len(b) /\ Len(a) \in Nat /\ Len(b) \in Nat
      /\ \A i \in DOMAIN a : a[i] \in Nat
      /\ \A i \in DOMAIN b : b[i] \in Nat
  OBVIOUS
<1>2. CASE D = {}
  <2>1. Len(a) # Len(b)
    <3>1. SUFFICES ASSUME Len(a) = Len(b) PROVE FALSE
      OBVIOUS
    <3>2. \A i \in 1..Len(a) : a[i] = b[i]
      BY <1>1, <1>2, <3>1
    <3> QED
      BY <3>1, <3>2, SeqEqual
  <2>2. CASE Len(a) < Len(b)
    BY <1>1, <1>2, <2>2 DEF LexLess
  <2>3. CASE Len(b) < Len(a)
    <3>1. ASSUME NEW i \in DOMAIN b PROVE b[i] = a[i]
      <4>1. i \in DOMAIN a /\ i <= Len(b)
        BY <1>1, <2>3
      <4> QED
        BY <1>2, <4>1
    <3> QED
      BY <2>3, <3>1 DEF LexLess
  <2>4. Len(a) < Len(b) \/ Len(b) < Len(a)
    <3>1. \A m, n \in Nat : m # n => m < n \/ n < m
      OBVIOUS
    <3>2. Len(a) \in Nat /\ Len(b) \in Nat
      OBVIOUS
    <3> QED
      BY ONLY <2>1, <3>1, <3>2
  <2> QED
    BY <2>2, <2>3, <2>4
<1>3. CASE D # {}
  <2>1. PICK i \in D : \A j \in D : i <= j
    <3> D \in SUBSET Nat
      BY <1>1
    <3> HIDE DEF D
    <3> QED
      BY <1>3, LeastExists
  <2>2. i \in DOMAIN a /\ i \in DOMAIN b /\ i <= Len(a) /\ i <= Len(b) /\ a[i] # b[i]
    BY <1>1, <2>1
  <2>3. ASSUME NEW j \in 1..(i - 1) PROVE a[j] = b[j]
    <3>1. j \in DOMAIN a /\ j <= Len(b) /\ ~(i <= j)
      BY <1>1, <2>2
    <3> QED
      BY <2>1, <3>1
  <2>4. a[i] < b[i] \/ b[i] < a[i]
    BY <1>1, <2>2
  <2> QED
    BY <2>2, <2>3, <2>4 DEF LexLess
<1> QED
  BY <1>2, <1>3

\* and the order is transitive.
LEMMA LexLessTransitive ==
  ASSUME NEW a \in Seq(Nat), NEW b \in Seq(Nat), NEW c \in Seq(Nat), LexLess(a, b), LexLess(b, c)
  PROVE  LexLess(a, c)
<1>1. /\ DOMAIN a = 1..Len(a) /\ DOMAIN b = 1..Len(b) /\ DOMAIN c = 1..Len(c)
      /\ Len(a) \in Nat /\ Len(b) \in Nat /\ Len(c) \in Nat
      /\ \A i \in DOMAIN a : a[i] \in Nat
      /\ \A i \in DOMAIN b : b[i] \in Nat
      /\ \A i \in DOMAIN c : c[i] \in Nat
  OBVIOUS
<1> DEFINE Apart(x, y, i) == /\ i \in DOMAIN x /\ i <= Len(y) /\ x[i] < y[i]
                             /\ \A j \in 1..(i - 1) : x[j] = y[j]
           Begins(x, y) == Len(x) < Len(y) /\ \A i \in DOMAIN x : x[i] = y[i]
<1>2. CASE Begins(a, b) /\ Begins(b, c)
  <2>1. Begins(a, c)
    BY <1>1, <1>2
  <2> QED
    BY <2>1 DEF LexLess
<1>3. ASSUME NEW i, Apart(a, b, i), Begins(b, c)
      PROVE  Apart(a, c, i)
  <2>1. i \in 1..Len(a) /\ i \in 1..Len(b) /\ i <= Len(c)
    BY <1>1, <1>3
  <2>2. ASSUME NEW j \in 1..i PROVE b[j] = c[j]
    <3>1. j \in DOMAIN b
      BY <1>1, <2>1
    <3> QED
      BY <1>3, <3>1
  <2>3. b[i] = c[i] /\ \A j \in 1..(i - 1) : b[j] = c[j]
    BY <2>1, <2>2
  <2> QED
    BY <1>1, <1>3, <2>1, <2>3
<1>4. ASSUME NEW i, Begins(a, b), Apart(b, c, i)
      PROVE  Apart(a, c, i) \/ Begins(a, c)
  <2>1. CASE i <= Len(a)
    <3>1. i \in 1..Len(a) /\ i <= Len(c)
      BY <1>1, <1>4, <2>1
    <3>2. ASSUME NEW j \in 1..i PROVE a[j] = b[j]
      <4>1. j \in DOMAIN a
        BY <1>1, <3>1
      <4> QED
        BY <1>4, <4>1
    <3>3. a[i] = b[i] /\ \A j \in 1..(i - 1) : a[j] = b[j]
      BY <3>1, <3>2
    <3>4. Apart(a, c, i)
      BY <1>1, <1>4, <3>1, <3>3
    <3> QED
      BY <3>4
  <2>2. CASE ~(i <= Len(a))
    <3>1. i \in 1..Len(b) /\ Len(a) < i /\ i <= Len(c)
      BY <1>1, <1>4, <2>2
    <3>2. ASSUME NEW j \in DOMAIN a PROVE a[j] = c[j]
      <4>1. j \in 1..(i - 1)
        BY <1>1, <3>1
      <4> QED
        BY <1>4, <4>1
    <3>3. Len(a) < Len(c)
      BY <1>1, <3>1
    <3> QED
      BY <3>2, <3>3
  <2> QED
    BY <2>1, <2>2
<1>5. ASSUME NEW i, NEW k, Apart(a, b, i), Apart(b, c, k)
      PROVE  Apart(a, c, i) \/ Apart(a, c, k)
  <2>0. i \in 1..Len(a) /\ i \in 1..Len(b) /\ k \in 1..Len(b) /\ k \in 1..Len(c)
    BY <1>1, <1>5
  <2>1. CASE i <= k
    <3>1. i <= Len(c)
      BY <1>1, <2>0, <2>1
    <3>2. \A j \in 1..(i - 1) : j \in 1..(k - 1)
      BY <2>0, <2>1
    <3>3. \A j \in 1..(i - 1) : a[j] = c[j]
      BY <1>5, <3>2
    <3>4. a[i] < c[i]
      <4>1. CASE i = k
        BY <1>1, <1>5, <2>0, <4>1
      <4>2. CASE i < k
        <5>1. i \in 1..(k - 1)
          BY <2>0, <4>2
        <5> QED
          BY <1>5, <5>1
      <4> QED
        BY <2>0, <2>1, <4>1, <4>2
    <3> QED
      BY <1>5, <3>1, <3>3, <3>4
  <2>2. CASE k < i
    <3>1. k \in DOMAIN a /\ k <= Len(c)
      BY <1>1, <2>0, <2>2
    <3>2. \A j \in 1..(k - 1) : j \in 1..(i - 1)
      BY <2>0, <2>2
    <3>3. \A j \in 1..(k - 1) : a[j] = c[j]
      BY <1>5, <3>2
    <3>4. k \in 1..(i - 1)
      BY <2>0, <2>2
    <3>5. a[k] < c[k]
      BY <1>5, <3>4
    <3> QED
      BY <3>1, <3>3, <3>5
  <2> QED
    BY <2>0, <2>1, <2>2
<1>6. ASSUME NEW x, NEW y, LexLess(x, y)
      PROVE  (\E i : Apart(x, y, i)) \/ Begins(x, y)
  BY <1>6 DEF LexLess
<1>7. ASSUME NEW x, NEW y, (\E i : Apart(x, y, i)) \/ Begins(x, y)
      PROVE  LexLess(x, y)
  BY <1>7 DEF LexLess
<1> HIDE DEF Apart, Begins
<1>8. ((\E i : Apart(a, b, i)) \/ Begins(a, b)) /\ ((\E i : Apart(b, c, i)) \/ Begins(b, c))
  BY <1>6
<1>9. CASE Begins(a, b) /\ Begins(b, c)
  BY <1>2, <1>9
<1>10. CASE (\E i : Apart(a, b, i)) /\ Begins(b, c)
  BY <1>3, <1>7, <1>10
<1>11. CASE Begins(a, b) /\ \E i : Apart(b, c, i)
  BY <1>4, <1>7, <1>11
<1>12. CASE (\E i : Apart(a, b, i)) /\ \E i : Apart(b, c, i)
  BY <1>5, <1>7, <1>12
<1> QED
  BY <1>8, <1>9, <1>10, <1>11, <1>12
=============================================================================
