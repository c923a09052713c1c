-------------------------- MODULE CollectorProofs ---------------------------
(***************************************************************************)
(* Proofs about the collector: whatever the batches, the documents handed  *)
(* over are the ones asked for, in the order asked for.                    *)
(***************************************************************************)
EXTENDS TopNCollector, OrderLemmas

(***************************************************************************)
(* Sets of numbers in order.                                               *)
(***************************************************************************)
\* The place of x in S, counted from 0.
NumberRank(S, x) == Cardinality({y \in S : y < x})

\* Every member of a finite set has a place below the number of members,
LEMMA NumberRankBounds ==
  ASSUME NEW S \in SUBSET Nat, IsFiniteSet(S), NEW x \in S
  PROVE  NumberRank(S, x) \in Nat /\ NumberRank(S, x) < Cardinality(S) /\ Cardinality(S) \in Nat
<1>1. x \notin {y \in S : y < x}
  <2>1. x \in Nat
    OBVIOUS
  <2> QED
    BY <2>1
<1> QED
  BY <1>1, CardinalityGrows DEF NumberRank

\* the greater one the later place,
LEMMA NumberRankMonotonic ==
  ASSUME NEW S \in SUBSET Nat, IsFiniteSet(S), NEW x \in S, NEW z \in S, x < z
  PROVE  NumberRank(S, x) < NumberRank(S, z)
<1> DEFINE X == {y \in S : y < x}
           Z == {y \in S : y < z}
<1>0. x \in Nat /\ z \in Nat /\ \A y \in S : y \in Nat
  OBVIOUS
<1>1. X \subseteq Z /\ x \in Z
  <2>1. ASSUME NEW y \in S, y < x PROVE y < z
    BY <1>0, <2>1
  <2> QED
    BY <2>1
<1>2. x \notin X
  BY <1>0
<1>3. Z \in SUBSET S
  OBVIOUS
<1>4. IsFiniteSet(Z)
  BY <1>3, FS_Subset
<1> QED
  BY <1>1, <1>2, <1>4, CardinalityGrows DEF NumberRank

\* no two of them the same one,
LEMMA NumberRankInjective ==
  ASSUME NEW S \in SUBSET Nat, IsFiniteSet(S), NEW x \in S, NEW z \in S, NumberRank(S, x) = NumberRank(S, z)
  PROVE  x = z
<1>1. SUFFICES ASSUME x # z PROVE FALSE
  OBVIOUS
<1>2. x < z \/ z < x
  <2>1. x \in Nat /\ z \in Nat
    OBVIOUS
  <2> QED
    BY <1>1, <2>1
<1>3. NumberRank(S, x) \in Nat /\ NumberRank(S, z) \in Nat
  BY NumberRankBounds
<1>4. NumberRank(S, x) < NumberRank(S, z) \/ NumberRank(S, z) < NumberRank(S, x)
  BY <1>2, NumberRankMonotonic
<1> QED
  BY <1>3, <1>4

\* and every place is taken.
LEMMA NumberRankOnto ==
  ASSUME NEW S \in SUBSET Nat, IsFiniteSet(S), NEW k \in 1..Cardinality(S)
  PROVE  \E x \in S : NumberRank(S, x) = k - 1
<1> DEFINE n == Cardinality(S)
           f == [x \in S |-> NumberRank(S, x) + 1]
           T == {f[x] : x \in S}
<1>1. n \in Nat
  BY FS_CardinalityType
<1>2. ASSUME NEW x \in S PROVE NumberRank(S, x) + 1 \in 1..n
  <2>1. NumberRank(S, x) \in Nat /\ NumberRank(S, x) < n
    BY NumberRankBounds
  <2> QED
    BY <1>1, <2>1
<1>3. T \subseteq 1..n
  BY <1>2
<1>4. ASSUME NEW x \in S, NEW y \in S, f[x] = f[y] PROVE x = y
  <2>1. NumberRank(S, x) \in Nat /\ NumberRank(S, y) \in Nat /\ NumberRank(S, x) + 1 = NumberRank(S, y) + 1
    BY <1>4, NumberRankBounds
  <2> QED
    BY <2>1, NumberRankInjective
<1>5. IsFiniteSet(T) /\ Cardinality(T) = n
  <2> HIDE DEF f
  <2> QED
    BY <1>4, CardinalityImage
<1>6. IsFiniteSet(1..n) /\ Cardinality(1..n) = n
  BY <1>1, CardinalityUpTo
<1>7. T = 1..n
  <2> HIDE DEF T
  <2> QED
    BY <1>3, <1>5, <1>6, FS_Subset
<1>8. PICK x \in S : f[x] = k
  BY <1>7
<1>9. NumberRank(S, x) \in Nat /\ NumberRank(S, x) + 1 = k
  BY <1>8, NumberRankBounds
<1> QED
  BY <1>9

\* s holds the members of S, the least first and each of them once.
AscendingOf(s, S) ==
  /\ s \in Seq(S) /\ Len(s) = Cardinality(S)
  /\ \A i, j \in 1..Len(s) : i < j => s[i] < s[j]
  /\ \A x \in S : \E i \in 1..Len(s) : s[i] = x

\* And the greatest first.
DescendingOf(s, S) ==
  /\ s \in Seq(S) /\ Len(s) = Cardinality(S)
  /\ \A i, j \in 1..Len(s) : i < j => s[i] > s[j]
  /\ \A x \in S : \E i \in 1..Len(s) : s[i] = x

\* Ascending puts the members of a set in order,
LEMMA AscendingOrders ==
  ASSUME NEW S \in SUBSET Nat, IsFiniteSet(S)
  PROVE  AscendingOf(Ascending(S), S)
<1> DEFINE n == Cardinality(S)
           a == Ascending(S)
<1>1. n \in Nat
  BY FS_CardinalityType
<1>2. a = [k \in 1..n |-> CHOOSE x \in S : NumberRank(S, x) = k - 1]
  BY DEF Ascending, NumberRank
<1> HIDE DEF n, a
<1>3. ASSUME NEW k \in 1..n PROVE a[k] \in S /\ NumberRank(S, a[k]) = k - 1
  <2>1. \E x \in S : NumberRank(S, x) = k - 1
    BY <1>3, NumberRankOnto DEF n
  <2> QED
    BY <1>2, <2>1
<1>4. a \in Seq(S) /\ Len(a) = n
  BY <1>1, <1>2, <1>3
<1>5. ASSUME NEW i \in 1..n, NEW j \in 1..n, i < j PROVE a[i] < a[j]
  <2>1. a[i] \in S /\ a[j] \in S /\ NumberRank(S, a[i]) = i - 1 /\ NumberRank(S, a[j]) = j - 1
    BY <1>3
  <2>2. a[i] \in Nat /\ a[j] \in Nat /\ i \in Int /\ j \in Int
    <3>1. i \in Int /\ j \in Int
      BY <1>1
    <3> QED
      BY <2>1, <3>1
  <2>3. a[i] # a[j]
    BY <1>5, <2>1, <2>2
  <2>4. ~(a[j] < a[i])
    <3>1. SUFFICES ASSUME a[j] < a[i] PROVE FALSE
      OBVIOUS
    <3>2. NumberRank(S, a[j]) < NumberRank(S, a[i])
      BY <2>1, <3>1, NumberRankMonotonic
    <3> QED
      BY <1>5, <2>1, <2>2, <3>2
  <2> QED
    BY <2>2, <2>3, <2>4
<1>6. ASSUME NEW x \in S PROVE \E i \in 1..n : a[i] = x
  <2> DEFINE i == NumberRank(S, x) + 1
  <2>1. NumberRank(S, x) \in Nat /\ NumberRank(S, x) < n
    BY NumberRankBounds DEF n
  <2>2. i \in 1..n /\ i - 1 = NumberRank(S, x)
    BY <1>1, <2>1
  <2>3. a[i] \in S /\ NumberRank(S, a[i]) = NumberRank(S, x)
    <3> HIDE DEF i
    <3> QED
      BY <1>3, <2>2
  <2>4. a[i] = x
    <3> HIDE DEF i
    <3>1. \A y, z \in S : NumberRank(S, y) = NumberRank(S, z) => y = z
      BY NumberRankInjective
    <3> QED
      BY <2>3, <3>1
  <2> QED
    BY <2>2, <2>4
<1> QED
  BY <1>4, <1>5, <1>6 DEF AscendingOf, n, a

\* and Descending in reverse order.
LEMMA DescendingOrders ==
  ASSUME NEW S \in SUBSET Nat, IsFiniteSet(S)
  PROVE  DescendingOf(Descending(S), S)
<1> DEFINE a == Ascending(S)
           n == Len(a)
           d == Descending(S)
<1>1. AscendingOf(a, S)
  BY AscendingOrders
<1>2. n \in Nat /\ a \in Seq(S) /\ n = Cardinality(S)
  BY <1>1 DEF AscendingOf
<1>3. d = [i \in 1..n |-> a[(n - i) + 1]]
  BY DEF Descending, Reverse
<1>4. \A i \in 1..n : (n - i) + 1 \in 1..n
  BY <1>2
<1> HIDE DEF a, n, d
<1>5. \A i \in 1..n : d[i] = a[(n - i) + 1] /\ d[i] \in S
  BY <1>2, <1>3, <1>4 DEF n
<1>6. d \in Seq(S) /\ Len(d) = n
  <2>1. d \in [1..n -> S]
    BY <1>3, <1>5
  <2> QED
    BY <1>2, <2>1
<1>7. ASSUME NEW i \in 1..n, NEW j \in 1..n, i < j PROVE d[i] > d[j]
  <2>1. (n - i) + 1 \in 1..n /\ (n - j) + 1 \in 1..n /\ (n - j) + 1 < (n - i) + 1
    BY <1>2, <1>7
  <2>2. a[(n - j) + 1] < a[(n - i) + 1]
    BY <1>1, <2>1 DEF AscendingOf, n
  <2>3. d[i] \in Nat /\ d[j] \in Nat
    BY <1>5
  <2> QED
    BY <1>5, <2>2, <2>3
<1>8. ASSUME NEW x \in S PROVE \E i \in 1..n : d[i] = x
  <2>1. PICK k \in 1..n : a[k] = x
    BY <1>1 DEF AscendingOf, n
  <2>2. (n - k) + 1 \in 1..n /\ (n - ((n - k) + 1)) + 1 = k
    BY <1>2
  <2> QED
    BY <1>5, <2>1, <2>2
<1> QED
  BY <1>2, <1>6, <1>7, <1>8 DEF DescendingOf, d, a, n

\* p holds the members of s in the places, each place once and in order.
Picks(p, s, places) ==
  /\ Len(p) = Cardinality(places)
  /\ \A k \in 1..Len(p) : \E i \in places : p[k] = s[i]
  /\ \A i \in places : \E k \in 1..Len(p) : p[k] = s[i]
  /\ \A j, k \in 1..Len(p) : j < k => \E i, l \in places : i < l /\ p[j] = s[i] /\ p[k] = s[l]

\* That is what Picked gives.
LEMMA PickedMembers ==
  ASSUME NEW V, NEW s \in Seq(V), NEW places \in SUBSET (1..Len(s))
  PROVE  /\ IsFiniteSet(places)
         /\ Picked(s, places) \in Seq(V) /\ Picks(Picked(s, places), s, places)
<1> DEFINE a == Ascending(places)
           p == Picked(s, places)
           n == Cardinality(places)
<1>1. Len(s) \in Nat /\ \A i \in 1..Len(s) : s[i] \in V
  OBVIOUS
<1>2. IsFiniteSet(places)
  <2>1. IsFiniteSet(1..Len(s))
    BY <1>1, CardinalityUpTo
  <2> QED
    BY <2>1, FS_Subset
<1>3. places \in SUBSET Nat
  BY <1>1
<1>4. AscendingOf(a, places)
  BY <1>2, <1>3, AscendingOrders
<1>5. p = [k \in 1..n |-> s[a[k]]] /\ n \in Nat
  BY <1>2, FS_CardinalityType DEF Picked
<1> HIDE DEF a, p, n
<1>6. Len(a) = n /\ \A k \in 1..n : a[k] \in places /\ p[k] = s[a[k]] /\ s[a[k]] \in V
  <2>1. Len(a) = n /\ a \in Seq(places)
    BY <1>4 DEF AscendingOf, n
  <2>2. \A k \in 1..n : a[k] \in places
    BY <1>5, <2>1
  <2> QED
    BY <1>1, <1>5, <2>1, <2>2
<1>7. p \in Seq(V) /\ Len(p) = n
  <2>1. p \in [1..n -> V]
    BY <1>5, <1>6
  <2> QED
    BY <1>5, <2>1
<1>8. ASSUME NEW i \in places PROVE \E k \in 1..n : p[k] = s[i]
  <2>1. PICK k \in 1..n : a[k] = i
    BY <1>4, <1>6 DEF AscendingOf
  <2> QED
    BY <1>6, <2>1
<1>9. ASSUME NEW j \in 1..n, NEW k \in 1..n, j < k
      PROVE  \E i, l \in places : i < l /\ p[j] = s[i] /\ p[k] = s[l]
  <2>1. a[j] < a[k]
    BY <1>4, <1>6, <1>9 DEF AscendingOf
  <2> QED
    BY <1>6, <2>1
<1>10. /\ IsFiniteSet(places) /\ p \in Seq(V) /\ Len(p) = n
       /\ \A k \in 1..Len(p) : \E i \in places : p[k] = s[i]
       /\ \A i \in places : \E k \in 1..Len(p) : p[k] = s[i]
       /\ \A j, k \in 1..Len(p) : j < k => \E i, l \in places : i < l /\ p[j] = s[i] /\ p[k] = s[l]
  <2>1. \A k \in 1..n : \E i \in places : p[k] = s[i]
    BY <1>6
  <2>2. \A i \in places : \E k \in 1..n : p[k] = s[i]
    BY <1>8
  <2>3. \A j, k \in 1..n : j < k => \E i, l \in places : i < l /\ p[j] = s[i] /\ p[k] = s[l]
    BY <1>9
  <2> QED
    BY ONLY <1>2, <1>7, <2>1, <2>2, <2>3, Zenon
<1> QED
  BY <1>10 DEF p, n, Picks

(***************************************************************************)
(* The order of the sort conditions.                                       *)
(***************************************************************************)
\* Strings are compared as the database compares keys.
LEMMA StringGreaterIs ==
  ASSUME NEW s \in Seq(Nat), NEW t \in Seq(Nat)
  PROVE  StringGreater(s, t) <=> LexLess(t, s)
<1>1. /\ DOMAIN s = 1..Len(s) /\ DOMAIN t = 1..Len(t) /\ Len(s) \in Nat /\ Len(t) \in Nat
      /\ \A i \in 1..Len(s) : s[i] \in Nat
      /\ \A i \in 1..Len(t) : t[i] \in Nat
  OBVIOUS
<1>2. ASSUME NEW i \in 1..Len(s), i <= Len(t), s[i] > t[i], \A j \in 1..(i - 1) : s[j] = t[j]
      PROVE  LexLess(t, s)
  <2>1. i \in DOMAIN t /\ i <= Len(s) /\ t[i] < s[i] /\ \A j \in 1..(i - 1) : t[j] = s[j]
    BY <1>1, <1>2
  <2> QED
    BY <2>1 DEF LexLess
<1>3. ASSUME NEW i \in DOMAIN t, i <= Len(s), t[i] < s[i], \A j \in 1..(i - 1) : t[j] = s[j]
      PROVE  StringGreater(s, t)
  <2>1. i \in 1..Len(s) /\ i <= Len(t) /\ s[i] > t[i] /\ \A j \in 1..(i - 1) : s[j] = t[j]
    BY <1>1, <1>3
  <2> QED
    BY <2>1 DEF StringGreater
<1>4. (Len(s) > Len(t) /\ \A i \in 1..Len(t) : s[i] = t[i]) <=> (Len(t) < Len(s) /\ \A i \in DOMAIN t : t[i] = s[i])
  BY <1>1
<1> QED
  BY <1>2, <1>3, <1>4 DEF StringGreater, LexLess

\* The comparison of two values of one field is a strict weak order.
LEMMA InnerGreaterOrders ==
  ASSUME NEW c \in Condition, NEW d1 \in Nat, NEW d2 \in Nat, NEW d3 \in Nat,
         NEW f1 \in Field, NEW f2 \in Field, NEW f3 \in Field
  PROVE  /\ InnerGreater(c, d1, f1, d2, f2) \in BOOLEAN
         /\ ~(InnerGreater(c, d1, f1, d2, f2) /\ InnerGreater(c, d2, f2, d1, f1))
         /\ ~InnerGreater(c, d1, f1, d2, f2) /\ ~InnerGreater(c, d2, f2, d3, f3)
              => ~InnerGreater(c, d1, f1, d3, f3)
<1>1. /\ c.type \in {"num", "str"}
      /\ f1.num \in Nat /\ f2.num \in Nat /\ f3.num \in Nat
      /\ f1.str \in Seq(Nat) /\ f2.str \in Seq(Nat) /\ f3.str \in Seq(Nat)
  BY DEF Condition, Field
<1> DEFINE G(s, t) == StringGreater(s, t)
<1>2. /\ ~(G(f1.str, f2.str) /\ G(f2.str, f1.str))
      /\ ~G(f1.str, f2.str) /\ ~G(f2.str, f3.str) => ~G(f1.str, f3.str)
  <2>1. ~(LexLess(f2.str, f1.str) /\ LexLess(f1.str, f2.str))
    BY <1>1, LexLessTransitive, LexLessIrreflexive
  <2>2. ~LexLess(f2.str, f1.str) /\ ~LexLess(f3.str, f2.str) => ~LexLess(f3.str, f1.str)
    <3>1. SUFFICES ASSUME ~LexLess(f2.str, f1.str), ~LexLess(f3.str, f2.str), LexLess(f3.str, f1.str) PROVE FALSE
      OBVIOUS
    <3>2. f1.str = f2.str \/ LexLess(f1.str, f2.str)
      BY <1>1, <3>1, LexLessTotal
    <3>3. LexLess(f3.str, f2.str)
      BY <1>1, <3>1, <3>2, LexLessTransitive
    <3> QED
      BY <3>1, <3>3
  <2> QED
    BY <1>1, <2>1, <2>2, StringGreaterIs
<1>3. \A s, t : G(s, t) \in BOOLEAN
  BY DEF StringGreater
<1> HIDE DEF G
<1> DEFINE W(d, f, e, g) ==
      IF f.type # c.type THEN IF g.type # c.type THEN d > e ELSE FALSE
      ELSE IF g.type # c.type THEN TRUE
      ELSE IF c.type = "num" THEN f.num > g.num ELSE G(f.str, g.str)
<1>4. \A d, e : \A f, g : InnerGreater(c, d, f, e, g) = W(d, f, e, g)
  BY DEF InnerGreater, G
<1>5. W(d1, f1, d2, f2) \in BOOLEAN
  <2>1. (d1 > d2) \in BOOLEAN /\ (f1.num > f2.num) \in BOOLEAN
    BY <1>1
  <2> QED
    BY <1>3, <2>1, Zenon
<1>6. ~(W(d1, f1, d2, f2) /\ W(d2, f2, d1, f1))
  BY <1>1, <1>2
<1>7. ~W(d1, f1, d2, f2) /\ ~W(d2, f2, d3, f3) => ~W(d1, f1, d3, f3)
  BY <1>1, <1>2
<1> HIDE DEF W
<1> QED
  BY <1>4, <1>5, <1>6, <1>7

\* Greater as the sorter asks for it: a comparison that holds neither way round a third
\* document, and where it holds both ways the documents count as one.
LEMMA GreaterOrders ==
  ASSUME NEW c \in Condition, NEW d1 \in Nat, NEW d2 \in Nat, NEW d3 \in Nat,
         NEW f1 \in Field, NEW f2 \in Field, NEW f3 \in Field
  PROVE  /\ Greater(c, d1, f1, d2, f2) \in BOOLEAN
         /\ ~Greater(c, d1, f1, d2, f2) /\ ~Greater(c, d2, f2, d3, f3) => ~Greater(c, d1, f1, d3, f3)
         /\ /\ Greater(c, d1, f1, d2, f2) /\ Greater(c, d2, f2, d1, f1)
            /\ ~Greater(c, d2, f2, d3, f3)
            => ~Greater(c, d1, f1, d3, f3)
         /\ /\ Greater(c, d2, f2, d3, f3) /\ Greater(c, d3, f3, d2, f2)
            /\ ~Greater(c, d1, f1, d2, f2)
            => ~Greater(c, d1, f1, d3, f3)
         /\ /\ Greater(c, d1, f1, d2, f2) /\ Greater(c, d2, f2, d1, f1)
            /\ Greater(c, d2, f2, d3, f3) /\ Greater(c, d3, f3, d2, f2)
            => Greater(c, d1, f1, d3, f3) /\ Greater(c, d3, f3, d1, f1)
         /\ Greater(c, d1, f1, d1, f1) => ~c.desc
<1> DEFINE W(d, f, e, g) == InnerGreater(c, d, f, e, g)
<1>1. \A d, e \in Nat : \A f, g \in Field : W(d, f, e, g) \in BOOLEAN /\ ~(W(d, f, e, g) /\ W(e, g, d, f))
  BY InnerGreaterOrders
<1>2. \A d, e, x \in Nat : \A f, g, h \in Field :
        ~W(d, f, e, g) /\ ~W(e, g, x, h) => ~W(d, f, x, h)
  BY InnerGreaterOrders
<1>3. \A d, e : \A f, g : Greater(c, d, f, e, g) <=> (W(d, f, e, g) = c.desc)
  BY DEF Greater
<1>4. c.desc \in BOOLEAN
  BY DEF Condition
<1>0. Greater(c, d1, f1, d2, f2) \in BOOLEAN
  BY DEF Greater
<1> HIDE DEF W
<1>5. CASE c.desc
  <2>1. \A d, e \in Nat : \A f, g \in Field : Greater(c, d, f, e, g) <=> W(d, f, e, g)
    BY <1>1, <1>3, <1>4, <1>5
  <2> QED
    BY <1>0, <1>1, <1>2, <1>5, <2>1
<1>6. CASE ~c.desc
  <2>1. \A d, e \in Nat : \A f, g \in Field : Greater(c, d, f, e, g) <=> ~W(d, f, e, g)
    BY <1>1, <1>3, <1>4, <1>6
  <2> QED
    BY <1>0, <1>1, <1>2, <1>6, <2>1
<1> QED
  BY <1>5, <1>6

\* The least member of a set of places, which is what the sorter chooses.
LEMMA LeastChosen ==
  ASSUME NEW T \in SUBSET Nat, NEW m \in T, \A k \in T : m <= k
  PROVE  (CHOOSE k \in T : \A j \in T : k <= j) = m
<1> DEFINE c == CHOOSE k \in T : \A j \in T : k <= j
<1>1. c \in T /\ \A j \in T : c <= j
  OBVIOUS
<1> HIDE DEF c
<1>2. c \in Nat /\ m \in Nat /\ c <= m /\ m <= c
  BY <1>1
<1>3. c = m
  BY <1>2
<1> QED
  BY <1>3 DEF c

\* The k-th comparison of two documents, and whether it holds both ways.
Holds(conds, k, d1, F1, d2, F2) == Greater(conds[k], d1, F1[conds[k].field], d2, F2[conds[k].field])
Tied(conds, k, d1, F1, d2, F2) == Holds(conds, k, d1, F1, d2, F2) /\ Holds(conds, k, d2, F2, d1, F1)

\* The first comparison that does not hold both ways decides, or else the ids.
LEMMA SorterValue ==
  ASSUME NEW conds \in Seq(Condition), NEW d1, NEW F1, NEW d2, NEW F2
  PROVE  /\ (\A k \in 1..Len(conds) : Tied(conds, k, d1, F1, d2, F2)) =>
              (Sorter(conds, d1, F1, d2, F2) <=> d1 > d2)
         /\ \A m \in 1..Len(conds) :
              ~Tied(conds, m, d1, F1, d2, F2) /\ (\A k \in 1..(m - 1) : Tied(conds, k, d1, F1, d2, F2)) =>
                (Sorter(conds, d1, F1, d2, F2) <=> Holds(conds, m, d1, F1, d2, F2))
         /\ \/ \A k \in 1..Len(conds) : Tied(conds, k, d1, F1, d2, F2)
            \/ \E m \in 1..Len(conds) :
                 ~Tied(conds, m, d1, F1, d2, F2) /\ \A k \in 1..(m - 1) : Tied(conds, k, d1, F1, d2, F2)
<1> DEFINE T == {k \in DOMAIN conds : ~Tied(conds, k, d1, F1, d2, F2)}
           C == CHOOSE k \in T : \A j \in T : k <= j
<1>1. Len(conds) \in Nat /\ DOMAIN conds = 1..Len(conds) /\ T \in SUBSET Nat
  OBVIOUS
<1>2. Sorter(conds, d1, F1, d2, F2) = IF T = {} THEN d1 > d2 ELSE Holds(conds, C, d1, F1, d2, F2)
  BY DEF Sorter, Tied, Holds
<1>3. ASSUME NEW m \in 1..Len(conds), ~Tied(conds, m, d1, F1, d2, F2),
             \A k \in 1..(m - 1) : Tied(conds, k, d1, F1, d2, F2)
      PROVE  C = m /\ T # {}
  <2>1. m \in T
    BY <1>1, <1>3
  <2>2. ASSUME NEW k \in T PROVE m <= k
    <3>1. k \in 1..Len(conds) /\ k \in Nat /\ m \in Nat /\ ~Tied(conds, k, d1, F1, d2, F2)
      BY <1>1
    <3>2. k \notin 1..(m - 1)
      BY <1>3, <3>1
    <3> QED
      BY <3>1, <3>2
  <2> HIDE DEF T
  <2> QED
    BY <1>1, <2>1, <2>2, LeastChosen
<1>4. ASSUME T # {}
      PROVE  \E m \in 1..Len(conds) :
               ~Tied(conds, m, d1, F1, d2, F2) /\ \A k \in 1..(m - 1) : Tied(conds, k, d1, F1, d2, F2)
  <2>1. PICK m \in T : \A j \in T : m <= j
    <3> HIDE DEF T
    <3> QED
      BY <1>1, <1>4, LeastExists
  <2>2. m \in 1..Len(conds) /\ ~Tied(conds, m, d1, F1, d2, F2)
    BY <1>1, <2>1
  <2>3. ASSUME NEW k \in 1..(m - 1) PROVE Tied(conds, k, d1, F1, d2, F2)
    <3>1. k \in DOMAIN conds /\ ~(m <= k)
      BY <1>1, <2>2
    <3> QED
      BY <2>1, <3>1
  <2> QED
    BY <2>2, <2>3
<1>5. T = {} <=> \A k \in 1..Len(conds) : Tied(conds, k, d1, F1, d2, F2)
  BY <1>1
<1> HIDE DEF T, C
<1>6. ASSUME NEW m \in 1..Len(conds), ~Tied(conds, m, d1, F1, d2, F2),
             \A k \in 1..(m - 1) : Tied(conds, k, d1, F1, d2, F2)
      PROVE  Sorter(conds, d1, F1, d2, F2) <=> Holds(conds, m, d1, F1, d2, F2)
  <2>1. C = m /\ T # {}
    BY <1>3, <1>6
  <2> QED
    BY <1>2, <2>1
<1>7. ASSUME T = {} PROVE Sorter(conds, d1, F1, d2, F2) <=> d1 > d2
  BY <1>2, <1>7
<1> QED
  BY <1>4, <1>5, <1>6, <1>7

\* The sorter is a strict order in which being not before is transitive: a priority
\* queue on it is well defined, equal documents apart.
LEMMA SorterOrders ==
  ASSUME NEW conds \in Seq(Condition), NEW d1 \in Nat, NEW d2 \in Nat, NEW d3 \in Nat,
         NEW F1 \in [FieldIDs -> Field], NEW F2 \in [FieldIDs -> Field], NEW F3 \in [FieldIDs -> Field]
  PROVE  /\ ~Sorter(conds, d1, F1, d1, F1)
         /\ ~Sorter(conds, d1, F1, d2, F2) /\ ~Sorter(conds, d2, F2, d3, F3) => ~Sorter(conds, d1, F1, d3, F3)
<1> DEFINE n == Len(conds)
           G12(k) == Holds(conds, k, d1, F1, d2, F2)
           G23(k) == Holds(conds, k, d2, F2, d3, F3)
           G13(k) == Holds(conds, k, d1, F1, d3, F3)
           T12(k) == Tied(conds, k, d1, F1, d2, F2)
           T23(k) == Tied(conds, k, d2, F2, d3, F3)
           T13(k) == Tied(conds, k, d1, F1, d3, F3)
<1>1. n \in Nat
  OBVIOUS
<1>2. ASSUME NEW k \in 1..n
      PROVE  /\ ~G12(k) /\ ~G23(k) => ~G13(k)
             /\ T12(k) /\ ~G23(k) => ~G13(k)
             /\ T23(k) /\ ~G12(k) => ~G13(k)
             /\ T12(k) /\ T23(k) => T13(k)
             /\ T13(k) => G13(k)
             /\ T12(k) => G12(k)
             /\ T23(k) => G23(k)
             /\ ~Tied(conds, k, d1, F1, d1, F1) => ~Holds(conds, k, d1, F1, d1, F1)
  <2>1. conds[k] \in Condition
    BY <1>1, <1>2
  <2>2. conds[k].field \in FieldIDs
    BY <2>1 DEF Condition
  <2>3. F1[conds[k].field] \in Field /\ F2[conds[k].field] \in Field /\ F3[conds[k].field] \in Field
    BY <2>2
  <2> DEFINE c == conds[k]
             f1 == F1[conds[k].field]
             f2 == F2[conds[k].field]
             f3 == F3[conds[k].field]
  <2> HIDE DEF c, f1, f2, f3
  <2>4. c \in Condition /\ f1 \in Field /\ f2 \in Field /\ f3 \in Field
    BY <2>1, <2>3 DEF c, f1, f2, f3
  <2>5. /\ G12(k) = Greater(c, d1, f1, d2, f2)
        /\ G23(k) = Greater(c, d2, f2, d3, f3)
        /\ G13(k) = Greater(c, d1, f1, d3, f3)
        /\ T12(k) = (Greater(c, d1, f1, d2, f2) /\ Greater(c, d2, f2, d1, f1))
        /\ T23(k) = (Greater(c, d2, f2, d3, f3) /\ Greater(c, d3, f3, d2, f2))
        /\ T13(k) = (Greater(c, d1, f1, d3, f3) /\ Greater(c, d3, f3, d1, f1))
    BY DEF Holds, Tied, c, f1, f2, f3
  <2>6. ~Tied(conds, k, d1, F1, d1, F1) => ~Holds(conds, k, d1, F1, d1, F1)
    BY DEF Tied
  <2> HIDE DEF G12, G23, G13, T12, T23, T13
  <2>7. /\ ~Greater(c, d1, f1, d2, f2) /\ ~Greater(c, d2, f2, d3, f3) => ~Greater(c, d1, f1, d3, f3)
        /\ /\ Greater(c, d1, f1, d2, f2) /\ Greater(c, d2, f2, d1, f1)
           /\ ~Greater(c, d2, f2, d3, f3)
           => ~Greater(c, d1, f1, d3, f3)
        /\ /\ Greater(c, d2, f2, d3, f3) /\ Greater(c, d3, f3, d2, f2)
           /\ ~Greater(c, d1, f1, d2, f2)
           => ~Greater(c, d1, f1, d3, f3)
        /\ /\ Greater(c, d1, f1, d2, f2) /\ Greater(c, d2, f2, d1, f1)
           /\ Greater(c, d2, f2, d3, f3) /\ Greater(c, d3, f3, d2, f2)
           => Greater(c, d1, f1, d3, f3) /\ Greater(c, d3, f3, d1, f1)
    BY <2>4, GreaterOrders
  <2> QED
    BY <2>5, <2>6, <2>7
<1>3. ~Sorter(conds, d1, F1, d1, F1)
  <2>1. CASE \A k \in 1..n : Tied(conds, k, d1, F1, d1, F1)
    BY <2>1, SorterValue
  <2>2. CASE \E m \in 1..n : ~Tied(conds, m, d1, F1, d1, F1) /\ \A k \in 1..(m - 1) : Tied(conds, k, d1, F1, d1, F1)
    <3>1. PICK m \in 1..n : ~Tied(conds, m, d1, F1, d1, F1) /\ \A k \in 1..(m - 1) : Tied(conds, k, d1, F1, d1, F1)
      BY <2>2
    <3>2. Sorter(conds, d1, F1, d1, F1) <=> Holds(conds, m, d1, F1, d1, F1)
      BY <3>1, SorterValue
    <3> QED
      BY <1>2, <3>1, <3>2
  <2> QED
    BY <2>1, <2>2, SorterValue
<1> DEFINE S12 == Sorter(conds, d1, F1, d2, F2)
           S23 == Sorter(conds, d2, F2, d3, F3)
           S13 == Sorter(conds, d1, F1, d3, F3)
<1>4. /\ (\A k \in 1..n : T12(k)) => (S12 <=> d1 > d2)
      /\ \A m \in 1..n : ~T12(m) /\ (\A k \in 1..(m - 1) : T12(k)) => (S12 <=> G12(m))
      /\ (\A k \in 1..n : T12(k)) \/ \E m \in 1..n : ~T12(m) /\ \A k \in 1..(m - 1) : T12(k)
  BY SorterValue
<1>5. /\ (\A k \in 1..n : T23(k)) => (S23 <=> d2 > d3)
      /\ \A m \in 1..n : ~T23(m) /\ (\A k \in 1..(m - 1) : T23(k)) => (S23 <=> G23(m))
      /\ (\A k \in 1..n : T23(k)) \/ \E m \in 1..n : ~T23(m) /\ \A k \in 1..(m - 1) : T23(k)
  BY SorterValue
<1>6. /\ (\A k \in 1..n : T13(k)) => (S13 <=> d1 > d3)
      /\ \A m \in 1..n : ~T13(m) /\ (\A k \in 1..(m - 1) : T13(k)) => (S13 <=> G13(m))
  BY SorterValue
<1> HIDE DEF n, G12, G23, G13, T12, T23, T13, S12, S23, S13
<1>7. ASSUME ~S12, ~S23 PROVE ~S13
  <2>1. ASSUME NEW m \in 1..n, ~G13(m), \A k \in 1..(m - 1) : T12(k) /\ T23(k)
        PROVE  ~S13
    <3>1. \A k \in 1..(m - 1) : k \in 1..n
      BY <1>1
    <3>2. \A k \in 1..(m - 1) : T13(k)
      BY <1>2, <2>1, <3>1
    <3>3. ~T13(m)
      BY <1>2, <2>1
    <3> QED
      BY <1>6, <2>1, <3>2, <3>3
  <2>2. CASE (\A k \in 1..n : T12(k)) /\ (\A k \in 1..n : T23(k))
    <3>1. ~(d1 > d2) /\ ~(d2 > d3)
      BY <1>4, <1>5, <1>7, <2>2
    <3>2. \A k \in 1..n : T13(k)
      BY <1>2, <2>2
    <3> QED
      BY <1>6, <3>1, <3>2
  <2>3. ASSUME NEW m \in 1..n, ~T12(m), \A k \in 1..(m - 1) : T12(k), \A k \in 1..n : T23(k)
        PROVE  ~S13
    <3>1. ~G12(m) /\ T23(m)
      BY <1>4, <1>7, <2>3
    <3>2. \A k \in 1..(m - 1) : k \in 1..n
      BY <1>1
    <3> QED
      BY <1>2, <2>1, <2>3, <3>1, <3>2
  <2>4. ASSUME NEW m \in 1..n, ~T23(m), \A k \in 1..(m - 1) : T23(k), \A k \in 1..n : T12(k)
        PROVE  ~S13
    <3>1. ~G23(m) /\ T12(m)
      BY <1>5, <1>7, <2>4
    <3>2. \A k \in 1..(m - 1) : k \in 1..n
      BY <1>1
    <3> QED
      BY <1>2, <2>1, <2>4, <3>1, <3>2
  <2>5. ASSUME NEW m \in 1..n, ~T12(m), \A k \in 1..(m - 1) : T12(k),
               NEW l \in 1..n, ~T23(l), \A k \in 1..(l - 1) : T23(k)
        PROVE  ~S13
    <3>1. ~G12(m) /\ ~G23(l)
      BY <1>4, <1>5, <1>7, <2>5
    <3>2. CASE m = l
      BY <1>2, <2>1, <2>5, <3>1, <3>2
    <3>3. CASE m < l
      <4>1. T23(m) /\ \A k \in 1..(m - 1) : k \in 1..(l - 1)
        BY <1>1, <2>5, <3>3
      <4> QED
        BY <1>2, <2>1, <2>5, <3>1, <4>1
    <3>4. CASE l < m
      <4>1. T12(l) /\ \A k \in 1..(l - 1) : k \in 1..(m - 1)
        BY <1>1, <2>5, <3>4
      <4> QED
        BY <1>2, <2>1, <2>5, <3>1, <4>1
    <3> QED
      BY <1>1, <3>2, <3>3, <3>4
  <2> QED
    BY <1>4, <1>5, <2>2, <2>3, <2>4, <2>5
<1> QED
  BY <1>3, <1>7 DEF S12, S23, S13

\* The two ways to compare strings are one.
LEMMA StringLessIs ==
  ASSUME NEW s \in Seq(Nat), NEW t \in Seq(Nat)
  PROVE  StringGreater(s, t) <=> StringLess(t, s)
<1>1. /\ Len(s) \in Nat /\ Len(t) \in Nat
      /\ \A i \in 1..Len(s) : s[i] \in Nat
      /\ \A i \in 1..Len(t) : t[i] \in Nat
  OBVIOUS
<1>2. ASSUME NEW i \in 1..Len(s), i <= Len(t), s[i] > t[i], \A j \in 1..(i - 1) : s[j] = t[j]
      PROVE  StringLess(t, s)
  <2>1. i - 1 \in 0..Len(t) /\ i - 1 < Len(s) /\ (i - 1) + 1 = i
    BY <1>1, <1>2
  <2>2. t[(i - 1) + 1] < s[(i - 1) + 1] /\ \A j \in 1..(i - 1) : t[j] = s[j]
    BY <1>1, <1>2, <2>1
  <2> QED
    BY <2>1, <2>2 DEF StringLess
<1>3. ASSUME Len(s) > Len(t), \A i \in 1..Len(t) : s[i] = t[i] PROVE StringLess(t, s)
  <2>1. Len(t) \in 0..Len(t) /\ Len(t) < Len(s) /\ \A i \in 1..Len(t) : t[i] = s[i]
    BY <1>1, <1>3
  <2> QED
    BY <2>1 DEF StringLess
<1>4. ASSUME NEW n \in 0..Len(t), n < Len(s), \A i \in 1..n : t[i] = s[i], n = Len(t) \/ t[n + 1] < s[n + 1]
      PROVE  StringGreater(s, t)
  <2>1. CASE n = Len(t)
    BY <1>1, <1>4, <2>1 DEF StringGreater
  <2>2. CASE n # Len(t) /\ t[n + 1] < s[n + 1]
    <3>1. n + 1 \in 1..Len(s) /\ n + 1 <= Len(t) /\ (n + 1) - 1 = n
      BY <1>1, <1>4, <2>2
    <3>2. s[n + 1] > t[n + 1] /\ \A j \in 1..((n + 1) - 1) : s[j] = t[j]
      BY <1>1, <1>4, <2>2, <3>1
    <3> QED
      BY <3>1, <3>2 DEF StringGreater
  <2> QED
    BY <1>4, <2>1, <2>2
<1> QED
  BY <1>2, <1>3, <1>4 DEF StringGreater, StringLess

\* One comparison of two documents: it holds both ways where the next condition is
\* asked, and else it decides as the condition demands.
LEMMA ComparisonIs ==
  ASSUME NEW c \in Condition, NEW d1 \in Nat, NEW d2 \in Nat, d1 # d2, NEW f1 \in Field, NEW f2 \in Field
  PROVE  /\ Greater(c, d1, f1, d2, f2) /\ Greater(c, d2, f2, d1, f1) <=> AsksNext(c, f1, f2)
         /\ ~AsksNext(c, f1, f2) => (Greater(c, d1, f1, d2, f2) <=> Decides(c, d1, f1, d2, f2))
         /\ AsksNext(c, f1, f2) => ~Decides(c, d1, f1, d2, f2)
<1> DEFINE I12 == InnerGreater(c, d1, f1, d2, f2)
           I21 == InnerGreater(c, d2, f2, d1, f1)
<1>1. /\ c.type \in {"num", "str"} /\ c.desc \in BOOLEAN
      /\ f1.num \in Nat /\ f2.num \in Nat /\ f1.str \in Seq(Nat) /\ f2.str \in Seq(Nat)
  BY DEF Condition, Field
<1>2. I12 \in BOOLEAN /\ I21 \in BOOLEAN /\ ~(I12 /\ I21)
  BY InnerGreaterOrders
<1>3. (Greater(c, d1, f1, d2, f2) <=> (I12 = c.desc)) /\ (Greater(c, d2, f2, d1, f1) <=> (I21 = c.desc))
  BY DEF Greater
<1>4. CASE Lacks(c, f1) /\ Lacks(c, f2)
  <2>1. (I12 <=> d1 > d2) /\ (I21 <=> d2 > d1) /\ (d1 > d2 <=> ~(d2 > d1)) /\ (d1 < d2 <=> d2 > d1)
    BY <1>4 DEF InnerGreater, Lacks
  <2>2. ~Below(c, f1, f2) /\ ~Below(c, f2, f1) /\ ~AsksNext(c, f1, f2)
    BY <1>4 DEF Below, AsksNext
  <2>3. Decides(c, d1, f1, d2, f2) <=> IF c.desc THEN d1 > d2 ELSE d1 < d2
    BY <1>4, <2>2 DEF Decides, PutsFirst
  <2> HIDE DEF I12, I21
  <2> QED
    BY <1>1, <1>2, <1>3, <2>1, <2>2, <2>3
<1>5. CASE ~(Lacks(c, f1) /\ Lacks(c, f2))
  <2>1. (I12 <=> Below(c, f2, f1)) /\ (I21 <=> Below(c, f1, f2))
    <3>1. CASE Lacks(c, f1)
      BY <1>5, <3>1 DEF InnerGreater, Lacks, Below
    <3>2. CASE Lacks(c, f2)
      BY <1>5, <3>2 DEF InnerGreater, Lacks, Below
    <3>3. CASE ~Lacks(c, f1) /\ ~Lacks(c, f2) /\ c.type = "num"
      BY <1>1, <3>3 DEF InnerGreater, Lacks, Below
    <3>4. CASE ~Lacks(c, f1) /\ ~Lacks(c, f2) /\ c.type # "num"
      <4>1. (StringGreater(f1.str, f2.str) <=> StringLess(f2.str, f1.str)) /\ (StringGreater(f2.str, f1.str) <=> StringLess(f1.str, f2.str))
        BY <1>1, StringLessIs
      <4> QED
        BY <3>4, <4>1 DEF InnerGreater, Lacks, Below
    <3> QED
      BY <3>1, <3>2, <3>3, <3>4
  <2>2. Decides(c, d1, f1, d2, f2) <=> IF c.desc THEN Below(c, f2, f1) ELSE Below(c, f1, f2)
    BY <1>5 DEF Decides, PutsFirst
  <2>3. AsksNext(c, f1, f2) <=> ~c.desc /\ ~Below(c, f1, f2) /\ ~Below(c, f2, f1)
    <3>1. Lacks(c, f1) => Below(c, f1, f2)
      BY <1>5 DEF Below
    <3>2. Lacks(c, f2) => Below(c, f2, f1)
      BY <1>5 DEF Below
    <3> QED
      BY <3>1, <3>2 DEF AsksNext, Equal
  <2> HIDE DEF I12, I21
  <2>4. CASE c.desc
    BY <1>1, <1>2, <1>3, <2>1, <2>2, <2>3, <2>4
  <2>5. CASE ~c.desc
    BY <1>1, <1>2, <1>3, <2>1, <2>2, <2>3, <2>5
  <2> QED
    BY <2>4, <2>5
<1> QED
  BY <1>4, <1>5

\* Sorter is the order of the sort conditions as far as it is honoured.
LEMMA SorterIs ==
  ASSUME NEW conds \in Seq(Condition), NEW d1 \in Nat, NEW d2 \in Nat, d1 # d2,
         NEW F1 \in [FieldIDs -> Field], NEW F2 \in [FieldIDs -> Field]
  PROVE  Sorter(conds, d1, F1, d2, F2) <=> HonouredOrder(conds, d1, F1, d2, F2)
<1> DEFINE n == Len(conds)
           T(k) == Tied(conds, k, d1, F1, d2, F2)
           G(k) == Holds(conds, k, d1, F1, d2, F2)
           A(k) == AsksNext(conds[k], F1[conds[k].field], F2[conds[k].field])
           D(k) == Decides(conds[k], d1, F1[conds[k].field], d2, F2[conds[k].field])
           S == Sorter(conds, d1, F1, d2, F2)
<1>1. n \in Nat /\ DOMAIN conds = 1..n
  OBVIOUS
<1>2. ASSUME NEW k \in 1..n PROVE (T(k) <=> A(k)) /\ (~A(k) => (G(k) <=> D(k))) /\ (A(k) => ~D(k))
  <2>1. conds[k] \in Condition
    BY <1>1
  <2>2. F1[conds[k].field] \in Field /\ F2[conds[k].field] \in Field
    BY <2>1 DEF Condition
  <2> DEFINE c == conds[k]
             f1 == F1[conds[k].field]
             f2 == F2[conds[k].field]
  <2>3. c \in Condition /\ f1 \in Field /\ f2 \in Field
    BY <2>1, <2>2
  <2>4. /\ T(k) <=> Greater(c, d1, f1, d2, f2) /\ Greater(c, d2, f2, d1, f1)
        /\ G(k) <=> Greater(c, d1, f1, d2, f2)
        /\ A(k) <=> AsksNext(c, f1, f2)
        /\ D(k) <=> Decides(c, d1, f1, d2, f2)
    BY DEF Tied, Holds
  <2> HIDE DEF c, f1, f2, T, G, A, D
  <2> QED
    BY <2>3, <2>4, ComparisonIs
<1>3. /\ (\A k \in 1..n : T(k)) => (S <=> d1 > d2)
      /\ \A m \in 1..n : ~T(m) /\ (\A k \in 1..(m - 1) : T(k)) => (S <=> G(m))
      /\ (\A k \in 1..n : T(k)) \/ \E m \in 1..n : ~T(m) /\ \A k \in 1..(m - 1) : T(k)
  BY SorterValue
<1>4. HonouredOrder(conds, d1, F1, d2, F2) <=>
        \/ \E k \in 1..n : D(k) /\ \A j \in 1..(k - 1) : A(j)
        \/ d1 > d2 /\ \A k \in 1..n : A(k)
  BY <1>1 DEF HonouredOrder
<1> HIDE DEF T, G, A, D, S
<1>5. CASE \A k \in 1..n : T(k)
  <2>1. \A k \in 1..n : A(k) /\ ~D(k)
    BY <1>2, <1>5
  <2> QED
    BY <1>3, <1>4, <1>5, <2>1 DEF S
<1>6. ASSUME NEW m \in 1..n, ~T(m), \A k \in 1..(m - 1) : T(k)
      PROVE  Sorter(conds, d1, F1, d2, F2) <=> HonouredOrder(conds, d1, F1, d2, F2)
  <2>1. \A k \in 1..(m - 1) : k \in 1..n
    BY <1>1
  <2>2. ~A(m) /\ (G(m) <=> D(m)) /\ \A k \in 1..(m - 1) : A(k) /\ ~D(k)
    BY <1>2, <1>6, <2>1
  <2>3. ASSUME NEW k \in 1..n, D(k), \A j \in 1..(k - 1) : A(j) PROVE k = m
    <3>1. ~(m < k)
      BY <1>1, <2>2, <2>3
    <3>2. ~(k < m)
      BY <1>1, <2>2, <2>3
    <3> QED
      BY <1>1, <3>1, <3>2
  <2>4. (\E k \in 1..n : D(k) /\ \A j \in 1..(k - 1) : A(j)) <=> D(m)
    BY <2>2, <2>3
  <2> QED
    BY <1>3, <1>4, <1>6, <2>2, <2>4 DEF S
<1> QED
  BY <1>3, <1>5, <1>6

(***************************************************************************)
(* The inductive invariant.                                                *)
(***************************************************************************)
\* How many of the documents given have left the buffer, and those of them that match.
Purged == collected - Len(buffer)
Handled == {seen[i][1] : i \in {j \in 1..Purged : Passes(seen[j][1])}}

\* Those still to be pushed, and those that have been.
HitDocs == {hits[k][1] : k \in 1..Len(hits)}
Queued == Handled \ HitDocs

Given == Docs \X FieldIDs

ViewOK == DOMAIN view = Docs /\ \A d \in Docs : view[d].fields \in [FieldIDs -> Field]

CollectorTypeOK ==
  /\ OptsOK
  /\ pc \in {"start", "weigh", "collect", "purge", "push", "score", "drop", "finish", "return", "done", "crashed"}
  /\ then \in {"collect", "finish"}
  /\ pc # "start" => ViewOK
  /\ source \in SUBSET Docs
  /\ seen \in Seq(Given) /\ buffer \in Seq(Given) /\ hits \in Seq(Given)
  /\ collected \in Nat /\ failed \in BOOLEAN

\* The buffer is the end of what was given, up to the limit.
FedInOrder ==
  /\ Len(seen) <= Cardinality(source)
  /\ \A i \in 1..Len(seen) : seen[i][1] = Descending(source)[i]
  /\ collected = IF Len(seen) <= TotalLimit THEN Len(seen) ELSE TotalLimit + 1
  /\ Len(buffer) <= collected
  /\ \A k \in 1..Len(buffer) : buffer[k] = seen[Purged + k]

HitsOK ==
  /\ \A k \in 1..Len(hits) : \E i \in 1..Purged : hits[k] = seen[i] /\ Passes(seen[i][1])
  /\ \A j, k \in 1..Len(hits) : j < k => hits[j][1] # hits[k][1]

\* Where DoQuery and InnerPurge are.
PhaseOK ==
  /\ pc \in {"start", "weigh"} =>
       /\ seen = <<>> /\ buffer = <<>> /\ hits = <<>> /\ topN = <<>> /\ scored = <<>>
       /\ scoredDocs = 0 /\ collected = 0 /\ total = 0 /\ offset = opts.offset
  /\ pc \in {"start", "weigh", "collect"} => then = "collect"
  /\ pc \in {"finish", "return"} => then = "finish"
  /\ pc \in {"start", "weigh", "collect", "purge", "finish", "return"} => hits = <<>>
  /\ pc \in {"push", "score", "drop", "finish", "return"} => buffer = <<>>
  /\ pc \in {"score", "drop"} => opts.scoring

\* Why the loop ended.
StopOK ==
  then = "finish" => \/ failed \/ Len(seen) = Cardinality(source)
                     \/ ~opts.sorted /\ Len(topN) >= top_n /\ ~opts.wantTotal

\* q holds the n best of S, the best first; equal documents may be in any order.
Best(q, S, n) ==
  /\ q \in Seq(S)
  /\ Len(q) = IF Cardinality(S) < n THEN Cardinality(S) ELSE n
  /\ \A i, j \in 1..Len(q) : i < j => q[i] # q[j] /\ ~Before(q[j], q[i])
  /\ \A d \in S : (\A i \in 1..Len(q) : q[i] # d) => \A i \in 1..Len(q) : ~Before(d, q[i])

\* The priority queue holds the best of the documents pushed so far.
QueueOK == Best(topN, Queued, top_n)

TopNInv ==
  /\ CollectorTypeOK /\ FedInOrder /\ HitsOK /\ PhaseOK
  /\ ~failed => total = Cardinality(Handled)
  /\ ~opts.scoring => StopOK /\ offset = opts.offset /\ (~failed => QueueOK)

\* The documents that match, of those the collector examines.
Matching == {d \in Examined : Passes(d)}

\* The part about the control and the documents given.
Fed == CollectorTypeOK /\ FedInOrder /\ HitsOK /\ PhaseOK

\* What follows at once.
LEMMA FedFacts ==
  ASSUME Fed
  PROVE  /\ Len(seen) \in Nat /\ Len(buffer) \in Nat /\ Len(hits) \in Nat
         /\ Purged \in Nat /\ Purged + Len(buffer) = collected /\ collected <= Len(seen)
         /\ \A i \in 1..Len(seen) : seen[i] \in Given /\ seen[i][1] \in Docs /\ seen[i][2] \in FieldIDs
         /\ \A k \in 1..Len(buffer) : buffer[k] \in Given /\ buffer[k] = seen[Purged + k]
         /\ IsFiniteSet(source) /\ Cardinality(source) \in Nat /\ source \in SUBSET Nat
         /\ DescendingOf(Descending(source), source)
         /\ top_n \in Nat
<1>1. Len(seen) \in Nat /\ Len(buffer) \in Nat /\ Len(hits) \in Nat
  BY DEF Fed, CollectorTypeOK
<1>2. TotalLimit \in Nat /\ Docs \in SUBSET Nat /\ IsFiniteSet(Docs)
  BY CollectorAssumption
<1>3. Purged \in Nat /\ Purged + Len(buffer) = collected /\ collected <= Len(seen)
  BY <1>1, <1>2 DEF Fed, CollectorTypeOK, FedInOrder, Purged
<1>4. \A i \in 1..Len(seen) : seen[i] \in Given /\ seen[i][1] \in Docs /\ seen[i][2] \in FieldIDs
  BY DEF Fed, CollectorTypeOK, Given
<1>5. \A k \in 1..Len(buffer) : buffer[k] \in Given /\ buffer[k] = seen[Purged + k]
  BY DEF Fed, CollectorTypeOK, FedInOrder
<1>6. source \in SUBSET Docs
  BY DEF Fed, CollectorTypeOK
<1>7. IsFiniteSet(source) /\ Cardinality(source) \in Nat /\ source \in SUBSET Nat
  BY <1>2, <1>6, FS_Subset, FS_CardinalityType
<1>8. DescendingOf(Descending(source), source)
  BY <1>7, DescendingOrders
<1>9. top_n \in Nat
  BY DEF Fed, CollectorTypeOK, OptsOK, top_n
<1> QED
  BY <1>1, <1>3, <1>4, <1>5, <1>7, <1>8, <1>9

\* The documents given differ.
LEMMA SeenDiffer ==
  ASSUME Fed, NEW i \in 1..Len(seen), NEW j \in 1..Len(seen), i < j
  PROVE  seen[i][1] > seen[j][1]
<1>1. Len(seen) \in Nat /\ Cardinality(source) \in Nat /\ DescendingOf(Descending(source), source)
  BY FedFacts
<1>2. /\ Len(seen) <= Cardinality(source)
      /\ seen[i][1] = Descending(source)[i] /\ seen[j][1] = Descending(source)[j]
  BY DEF Fed, FedInOrder
<1>3. i \in 1..Len(Descending(source)) /\ j \in 1..Len(Descending(source))
  BY <1>1, <1>2 DEF DescendingOf
<1> QED
  BY <1>1, <1>2, <1>3 DEF DescendingOf

\* An empty collector is given a selection: nothing of it has been seen.
LEMMA FedPrepare ==
  ASSUME Fed, Prepare
  PROVE  Fed'
<1> USE DEF Prepare, collectorVars
<1>0. /\ pc \in {"start", "weigh"} /\ seen = <<>> /\ buffer = <<>> /\ hits = <<>> /\ collected = 0
      /\ topN = <<>> /\ scored = <<>> /\ scoredDocs = 0 /\ total = 0 /\ offset = opts.offset /\ then = "collect"
  BY DEF Fed, PhaseOK
<1>1. CollectorTypeOK'
  BY DEF Fed, CollectorTypeOK, OptsOK, ViewOK
<1>2. Cardinality(source') \in Nat
  <2>1. source' \in SUBSET Docs /\ IsFiniteSet(Docs)
    BY CollectorAssumption
  <2> QED
    BY <2>1, FS_Subset, FS_CardinalityType
<1>3. FedInOrder'
  BY <1>0, <1>2, CollectorAssumption DEF FedInOrder, Purged
<1>4. HitsOK'
  BY <1>0 DEF HitsOK
<1>5. PhaseOK'
  BY <1>0 DEF PhaseOK
<1> QED
  BY <1>1, <1>3, <1>4, <1>5 DEF Fed

\* A collected document enters the buffer and what is seen together; what was purged stays.
LEMMA FedCollect ==
  ASSUME Fed, CollectNextOf
  PROVE  Fed' /\ Purged' = Purged /\ \A i \in 1..Purged : seen'[i] = seen[i]
<1> DEFINE D == Descending(source)
           id == D[Len(seen) + 1]
<1>1. PICK field \in FieldIDs : Collect(id, field)
  BY DEF CollectNextOf
<1>2. Len(seen) < Cardinality(source)
  BY DEF CollectNextOf
<1>3. /\ Len(seen) \in Nat /\ Len(buffer) \in Nat /\ Len(hits) \in Nat
      /\ Purged \in Nat /\ Purged + Len(buffer) = collected /\ collected <= Len(seen)
      /\ Cardinality(source) \in Nat /\ DescendingOf(D, source)
  BY FedFacts
<1>4. id \in Docs
  <2>1. Len(seen) + 1 \in 1..Len(D) /\ D \in Seq(source) /\ source \in SUBSET Docs
    BY <1>2, <1>3 DEF Fed, CollectorTypeOK, DescendingOf
  <2>2. id \in source
    BY <2>1
  <2> QED
    BY <2>1, <2>2
<1> HIDE DEF id
<1> DEFINE x == <<id, field>>
<1>5. x \in Given /\ x[1] = id
  BY <1>4 DEF Given
<1> HIDE DEF x
<1>6. /\ pc = "collect" /\ UNCHANGED <<opts, view, source, hits, topN, scored, scoredDocs, offset, total, failed>>
      /\ then' = "collect" /\ seen' = Append(seen, x)
      /\ pc' \in {"collect", "purge"}
      /\ \/ collected > TotalLimit /\ buffer' = buffer /\ collected' = collected
         \/ collected <= TotalLimit /\ buffer' = Append(buffer, x) /\ collected' = collected + 1
  BY <1>1, <1>3, CollectorAssumption DEF Collect, x, Fed, CollectorTypeOK
<1>7. /\ seen \in Seq(Given) /\ buffer \in Seq(Given)
      /\ Len(seen') = Len(seen) + 1 /\ seen'[Len(seen) + 1] = x
      /\ \A i \in 1..Len(seen) : seen'[i] = seen[i]
  BY <1>5, <1>6 DEF Fed, CollectorTypeOK
<1>8. CollectorTypeOK'
  <2>1. seen' \in Seq(Given) /\ buffer' \in Seq(Given) /\ collected' \in Nat
    <3>1. Append(seen, x) \in Seq(Given) /\ Append(buffer, x) \in Seq(Given)
      BY <1>5, <1>7
    <3>2. collected \in Nat /\ collected + 1 \in Nat
      BY DEF Fed, CollectorTypeOK
    <3> QED
      BY <1>6, <1>7, <3>1, <3>2
  <2> QED
    BY <1>6, <2>1 DEF Fed, CollectorTypeOK, OptsOK, ViewOK
<1>9. Purged' = Purged
  BY <1>3, <1>6 DEF Purged, Fed, CollectorTypeOK
<1>10. FedInOrder'
  <2>1. Len(seen') <= Cardinality(source')
    BY <1>2, <1>3, <1>6, <1>7
  <2>2. ASSUME NEW i \in 1..Len(seen') PROVE seen'[i][1] = Descending(source')[i]
    <3>1. CASE i = Len(seen) + 1
      BY <1>5, <1>6, <1>7, <3>1 DEF id
    <3>2. CASE i # Len(seen) + 1
      <4>1. i \in 1..Len(seen)
        BY <1>3, <1>7, <3>2
      <4> QED
        BY <1>6, <1>7, <4>1 DEF Fed, FedInOrder
    <3> QED
      BY <3>1, <3>2
  <2>3. collected' = (IF Len(seen') <= TotalLimit THEN Len(seen') ELSE TotalLimit + 1) /\ Len(buffer') <= collected'
    <3>1. collected = (IF Len(seen) <= TotalLimit THEN Len(seen) ELSE TotalLimit + 1) /\ Len(buffer) <= collected
      BY DEF Fed, FedInOrder
    <3>2. Len(buffer') \in {Len(buffer), Len(buffer) + 1} /\ (collected' = collected => Len(buffer') = Len(buffer))
      BY <1>3, <1>6, <1>7 DEF Fed, CollectorTypeOK
    <3> QED
      BY <1>3, <1>6, <1>7, <3>1, <3>2, CollectorAssumption
  <2>4. ASSUME NEW k \in 1..Len(buffer') PROVE buffer'[k] = seen'[Purged' + k]
    <3>1. CASE k \in 1..Len(buffer)
      <4>1. buffer'[k] = buffer[k]
        BY <1>6, <1>7, <3>1
      <4>2. Purged + k \in 1..Len(seen)
        BY <1>3, <3>1
      <4>3. buffer[k] = seen[Purged + k]
        BY <3>1 DEF Fed, FedInOrder
      <4> QED
        BY <1>7, <1>9, <4>1, <4>2, <4>3
    <3>2. CASE k \notin 1..Len(buffer)
      <4>1. /\ collected <= TotalLimit /\ buffer' = Append(buffer, x) /\ k = Len(buffer) + 1
        BY <1>3, <1>6, <1>7, <3>2
      <4>2. collected = Len(seen)
        BY <1>3, <4>1, CollectorAssumption DEF Fed, FedInOrder
      <4>3. Purged + k = Len(seen) + 1
        BY <1>3, <4>1, <4>2
      <4>4. buffer'[k] = x
        BY <1>5, <1>7, <4>1
      <4> QED
        BY <1>7, <1>9, <4>3, <4>4
    <3> QED
      BY <3>1, <3>2
  <2> QED
    BY <2>1, <2>2, <2>3, <2>4 DEF FedInOrder
<1>11. hits' = <<>> /\ HitsOK' /\ PhaseOK'
  BY <1>6 DEF HitsOK, PhaseOK, Fed
<1>12. \A i \in 1..Purged : seen'[i] = seen[i]
  BY <1>3, <1>7
<1> QED
  BY <1>8, <1>9, <1>10, <1>11, <1>12 DEF Fed

\* A step that leaves the documents given, the buffer and the hits alone.
LEMMA FedSame ==
  ASSUME Fed, UNCHANGED <<opts, view, source, seen, buffer, hits, collected>>,
         failed' \in BOOLEAN, pc' \in {"collect", "purge", "push", "score", "finish", "return", "done", "crashed"},
         pc # "start", then' \in {"collect", "finish"},
         pc' = "collect" => then' = "collect", pc' \in {"finish", "return"} => then' = "finish",
         pc' \in {"collect", "purge", "finish", "return"} => hits = <<>>,
         pc' \in {"push", "score", "drop", "finish", "return"} => buffer = <<>>,
         pc' \in {"score", "drop"} => opts.scoring
  PROVE  Fed' /\ Purged' = Purged /\ seen' = seen
<1>1. CollectorTypeOK'
  BY DEF Fed, CollectorTypeOK, OptsOK, ViewOK
<1>2. Purged' = Purged
  BY DEF Purged
<1>3. FedInOrder'
  BY <1>2 DEF Fed, FedInOrder
<1>4. HitsOK'
  BY <1>2 DEF Fed, HitsOK, Passes
<1>5. PhaseOK'
  BY DEF PhaseOK
<1> QED
  BY <1>1, <1>2, <1>3, <1>4, <1>5 DEF Fed

\* Leaving the loop of DoQuery gives the collector nothing more.
LEMMA FedStop ==
  ASSUME Fed, StopCollecting(Len(seen) = Cardinality(source))
  PROVE  Fed' /\ Purged' = Purged /\ seen' = seen
<1>1. /\ pc = "collect" /\ pc' = "purge" /\ then' = "finish"
      /\ UNCHANGED <<opts, view, source, seen, buffer, hits, collected, failed>>
  BY DEF StopCollecting, collectorVars
<1>2. hits = <<>> /\ failed \in BOOLEAN
  BY <1>1 DEF Fed, PhaseOK, CollectorTypeOK
<1> QED
  BY <1>1, <1>2, FedSame

\* The buffer is taken as a whole, and some of it become hits.
LEMMA FedPurge ==
  ASSUME Fed, pc = "purge", UNCHANGED <<opts, view, source, seen, then, collected>>, buffer' = <<>>,
         hits' \in Seq(Given), failed' \in BOOLEAN,
         \A k \in 1..Len(hits') : \E i \in 1..Len(buffer) : hits'[k] = buffer[i] /\ Passes(buffer[i][1]),
         \A j, k \in 1..Len(hits') : j < k => \E i, l \in 1..Len(buffer) : i < l /\ hits'[j] = buffer[i] /\ hits'[k] = buffer[l],
         pc' \in {"push", "score", "drop"} \/ (pc' = then /\ hits' = <<>>),
         pc' \in {"score", "drop"} => opts.scoring
  PROVE  Fed' /\ Purged' = collected
<1>1. /\ Len(seen) \in Nat /\ Len(buffer) \in Nat /\ Len(hits) \in Nat
      /\ Purged \in Nat /\ Purged + Len(buffer) = collected /\ collected <= Len(seen)
      /\ \A k \in 1..Len(buffer) : buffer[k] \in Given /\ buffer[k] = seen[Purged + k]
      /\ \A i \in 1..Len(seen) : seen[i][1] \in Docs
  BY FedFacts
<1>2. then \in {"collect", "finish"} /\ collected \in Nat
  BY DEF Fed, CollectorTypeOK
<1>3. CollectorTypeOK'
  <2>1. pc' \in {"collect", "finish", "push", "score", "drop"} /\ buffer' \in Seq(Given)
    BY <1>2
  <2> QED
    BY <2>1 DEF Fed, CollectorTypeOK, OptsOK, ViewOK
<1>4. Purged' = collected
  BY <1>2 DEF Purged
<1>5. FedInOrder'
  BY <1>2 DEF Fed, FedInOrder
<1>6. HitsOK'
  <2>1. \A d : Passes(d)' <=> Passes(d)
    BY DEF Passes
  <2>2. ASSUME NEW k \in 1..Len(hits') PROVE \E i \in 1..collected : hits'[k] = seen[i] /\ Passes(seen[i][1])
    <3>1. PICK i \in 1..Len(buffer) : hits'[k] = buffer[i] /\ Passes(buffer[i][1])
      OBVIOUS
    <3>2. Purged + i \in 1..collected /\ buffer[i] = seen[Purged + i]
      BY <1>1
    <3> QED
      BY ONLY <3>1, <3>2
  <2>3. ASSUME NEW j \in 1..Len(hits'), NEW k \in 1..Len(hits'), j < k PROVE hits'[j][1] # hits'[k][1]
    <3>1. PICK i \in 1..Len(buffer), l \in 1..Len(buffer) : i < l /\ hits'[j] = buffer[i] /\ hits'[k] = buffer[l]
      BY <2>3
    <3>2. Purged + i \in 1..Len(seen) /\ Purged + l \in 1..Len(seen) /\ Purged + i < Purged + l
      <4>1. i \in Nat /\ l \in Nat /\ 1 <= i /\ i < l /\ l <= Len(buffer)
        BY <1>1, <3>1
      <4>2. collected \in Nat
        BY <1>2
      <4> QED
        BY ONLY <1>1, <4>1, <4>2
    <3>3. seen[Purged + i][1] > seen[Purged + l][1]
      BY <3>2, SeenDiffer
    <3>4. seen[Purged + i][1] \in Nat /\ seen[Purged + l][1] \in Nat
      BY <1>1, <3>2, CollectorAssumption
    <3>5. hits'[j] = seen[Purged + i] /\ hits'[k] = seen[Purged + l]
      BY <1>1, <3>1
    <3> QED
      BY <3>3, <3>4, <3>5
  <2>4. ASSUME NEW k \in 1..Len(hits') PROVE \E i \in 1..Purged' : hits'[k] = seen'[i] /\ Passes(seen[i][1])'
    <3>1. PICK i \in 1..collected : hits'[k] = seen[i] /\ Passes(seen[i][1])
      BY <2>2
    <3>2. Passes(seen[i][1])'
      BY <3>1 DEF Passes
    <3> QED
      BY <1>4, <3>1, <3>2
  <2> QED
    BY <2>3, <2>4 DEF HitsOK
<1>7. PhaseOK'
  BY <1>2 DEF PhaseOK, Fed
<1> QED
  BY <1>3, <1>4, <1>5, <1>6, <1>7 DEF Fed

\* A purge without filters or sorter empties the buffer at once.
LEMMA FedPurgeUnread ==
  ASSUME Fed, PurgeUnread
  PROVE  Fed' /\ Purged' = collected
<1>1. /\ pc = "purge" /\ pc' = then /\ buffer' = <<>>
      /\ UNCHANGED <<opts, view, source, seen, then, hits, collected, failed>>
  BY DEF PurgeUnread
<1>2. hits = <<>> /\ failed \in BOOLEAN /\ then \in {"collect", "finish"}
  BY <1>1 DEF Fed, PhaseOK, CollectorTypeOK
<1>3. hits' = <<>> /\ hits' \in Seq(Given) /\ Len(hits') = 0 /\ 1..Len(hits') = {}
  BY <1>1, <1>2
<1>4. failed' \in BOOLEAN /\ pc' \notin {"score", "drop"}
  BY <1>1, <1>2
<1> QED
  BY <1>1, <1>3, <1>4, FedPurge

\* Reading the buffer: unless a read fails, every document of it that passes is a hit.
LEMMA FedPurgeRead ==
  ASSUME Fed, PurgeRead
  PROVE  /\ Fed' /\ Purged' = collected
         /\ \E places \in SUBSET (1..Len(buffer)) :
              /\ hits' = Picked(buffer, places)
              /\ ~failed' => places = {k \in 1..Len(buffer) : Passes(buffer[k][1])}
<1>1. Len(buffer) \in Nat /\ buffer \in Seq(Given) /\ DOMAIN buffer = 1..Len(buffer)
  BY FedFacts DEF Fed, CollectorTypeOK
<1>2. PICK bad \in {Len(buffer) + 1} \cup (IF opts.faults THEN DOMAIN buffer ELSE {}) :
        /\ hits' = Picked(buffer, {k \in 1..(bad - 1) : Passes(buffer[k][1])})
        /\ failed' = (failed \/ bad <= Len(buffer))
  BY DEF PurgeRead
<1> DEFINE places == {k \in 1..(bad - 1) : Passes(buffer[k][1])}
<1>3. bad \in 1..(Len(buffer) + 1)
  BY <1>1, <1>2
<1>4. places \in SUBSET (1..Len(buffer))
  BY <1>1, <1>3
<1>5. hits' = Picked(buffer, places) /\ \A i \in places : Passes(buffer[i][1])
  BY <1>2
<1>6. ~failed' => places = {k \in 1..Len(buffer) : Passes(buffer[k][1])}
  <2>1. SUFFICES ASSUME ~failed' PROVE bad - 1 = Len(buffer)
    OBVIOUS
  <2>2. ~(bad <= Len(buffer))
    BY <1>2, <2>1
  <2> QED
    BY <1>1, <1>3, <2>2
<1> HIDE DEF places
<1>7. /\ hits' \in Seq(Given)
      /\ \A k \in 1..Len(hits') : \E i \in places : hits'[k] = buffer[i]
      /\ \A j, k \in 1..Len(hits') : j < k => \E i, l \in places : i < l /\ hits'[j] = buffer[i] /\ hits'[k] = buffer[l]
  <2>1. Picked(buffer, places) \in Seq(Given) /\ Picks(Picked(buffer, places), buffer, places)
    BY <1>1, <1>4, PickedMembers
  <2>2. hits' \in Seq(Given) /\ Picks(hits', buffer, places)
    BY <1>5, <2>1
  <2> QED
    BY <2>2 DEF Picks
<1>8. /\ \A k \in 1..Len(hits') : \E i \in 1..Len(buffer) : hits'[k] = buffer[i] /\ Passes(buffer[i][1])
      /\ \A j, k \in 1..Len(hits') : j < k => \E i, l \in 1..Len(buffer) : i < l /\ hits'[j] = buffer[i] /\ hits'[k] = buffer[l]
  <2>1. \A i \in places : i \in 1..Len(buffer)
    BY <1>4
  <2>2. ASSUME NEW k \in 1..Len(hits')
        PROVE  \E i \in 1..Len(buffer) : hits'[k] = buffer[i] /\ Passes(buffer[i][1])
    <3>1. PICK i \in places : hits'[k] = buffer[i]
      BY <1>7
    <3> QED
      BY <1>5, <2>1, <3>1
  <2>3. ASSUME NEW j \in 1..Len(hits'), NEW k \in 1..Len(hits'), j < k
        PROVE  \E i, l \in 1..Len(buffer) : i < l /\ hits'[j] = buffer[i] /\ hits'[k] = buffer[l]
    <3>1. PICK i \in places, l \in places : i < l /\ hits'[j] = buffer[i] /\ hits'[k] = buffer[l]
      BY <1>7, <2>3
    <3> QED
      BY <2>1, <3>1
  <2> QED
    BY <2>2, <2>3
<1>9. /\ pc = "purge" /\ pc' \in {"push", "score", "drop"} /\ buffer' = <<>>
      /\ UNCHANGED <<opts, view, source, seen, then, collected>>
      /\ pc' \in {"score", "drop"} => opts.scoring
  BY DEF PurgeRead
<1>10. failed' \in BOOLEAN
  BY <1>2
<1>11. Fed' /\ Purged' = collected
  BY <1>7, <1>8, <1>9, <1>10, FedPurge
<1> QED
  BY <1>4, <1>5, <1>6, <1>11

\* One hit is used.
LEMMA FedTail ==
  ASSUME Fed, hits # <<>>, hits' = Tail(hits), pc' = pc, pc \in {"push", "score"},
         UNCHANGED <<opts, view, source, seen, then, buffer, collected, failed>>
  PROVE  /\ Fed' /\ Purged' = Purged
         /\ HitDocs' = HitDocs \ {hits[1][1]} /\ hits[1][1] \in HitDocs /\ hits[1] \in Given
<1>1. Len(hits) \in Nat /\ hits \in Seq(Given) /\ Len(hits) >= 1
  BY DEF Fed, CollectorTypeOK
<1>2. /\ Len(hits') = Len(hits) - 1 /\ hits' \in Seq(Given)
      /\ \A k \in 1..Len(hits') : k + 1 \in 1..Len(hits) /\ hits'[k] = hits[k + 1]
  BY <1>1
<1>3. CollectorTypeOK'
  BY <1>2 DEF Fed, CollectorTypeOK, OptsOK, ViewOK
<1>4. Purged' = Purged
  BY DEF Purged
<1>5. FedInOrder'
  BY <1>4 DEF Fed, FedInOrder
<1>6. HitsOK'
  <2>1. ASSUME NEW k \in 1..Len(hits') PROVE \E i \in 1..Purged' : hits'[k] = seen'[i] /\ Passes(seen[i][1])'
    <3>1. PICK i \in 1..Purged : hits[k + 1] = seen[i] /\ Passes(seen[i][1])
      BY <1>2 DEF Fed, HitsOK
    <3>2. Passes(seen[i][1])'
      BY <3>1 DEF Passes
    <3> QED
      BY <1>2, <1>4, <3>1, <3>2
  <2>2. ASSUME NEW j \in 1..Len(hits'), NEW k \in 1..Len(hits'), j < k PROVE hits'[j][1] # hits'[k][1]
    <3>1. j + 1 \in 1..Len(hits) /\ k + 1 \in 1..Len(hits) /\ j + 1 < k + 1
      BY <1>1, <1>2, <2>2
    <3> QED
      BY <1>2, <3>1 DEF Fed, HitsOK
  <2> QED
    BY <2>1, <2>2 DEF HitsOK
<1>7. PhaseOK'
  BY DEF PhaseOK, Fed
<1>8. HitDocs' = HitDocs \ {hits[1][1]}
  <2>1. ASSUME NEW k \in 1..Len(hits'), hits'[k][1] = hits[1][1] PROVE FALSE
    <3>1. 1 \in 1..Len(hits) /\ k + 1 \in 1..Len(hits) /\ 1 < k + 1
      BY <1>1, <1>2, <2>1
    <3> QED
      BY <1>2, <2>1, <3>1 DEF Fed, HitsOK
  <2>2. ASSUME NEW k \in 1..Len(hits), hits[k][1] # hits[1][1]
        PROVE  \E l \in 1..Len(hits') : hits'[l][1] = hits[k][1]
    <3>1. k - 1 \in 1..Len(hits') /\ (k - 1) + 1 = k
      BY <1>1, <1>2, <2>2
    <3> QED
      BY <1>2, <3>1
  <2>3. \A k \in 1..Len(hits') : \E l \in 1..Len(hits) : hits'[k][1] = hits[l][1]
    BY <1>2
  <2>4. HitDocs' \subseteq HitDocs \ {hits[1][1]}
    BY <2>1, <2>3 DEF HitDocs
  <2>5. HitDocs \ {hits[1][1]} \subseteq HitDocs'
    <3>1. SUFFICES ASSUME NEW k \in 1..Len(hits), hits[k][1] # hits[1][1] PROVE hits[k][1] \in HitDocs'
      BY DEF HitDocs
    <3> QED
      BY <2>2, <3>1 DEF HitDocs
  <2> QED
    BY <2>4, <2>5
<1>9. hits[1][1] \in HitDocs /\ hits[1] \in Given
  BY <1>1 DEF HitDocs
<1> QED
  BY <1>3, <1>4, <1>5, <1>6, <1>7, <1>8, <1>9 DEF Fed

\* The end of a purge.
LEMMA FedEnds ==
  ASSUME Fed, PurgeEnds
  PROVE  Fed' /\ Purged' = Purged
<1>1. /\ pc \in {"push", "score", "drop"} /\ hits' = <<>> /\ pc' = then
      /\ UNCHANGED <<opts, view, source, seen, then, buffer, collected, failed>>
  BY DEF PurgeEnds
<1>2. then \in {"collect", "finish"} /\ buffer = <<>>
  BY <1>1 DEF Fed, CollectorTypeOK, PhaseOK
<1>3. hits' \in Seq(Given) /\ 1..Len(hits') = {}
  BY <1>1
<1>4. CollectorTypeOK'
  BY <1>1, <1>2, <1>3 DEF Fed, CollectorTypeOK, OptsOK, ViewOK
<1>5. Purged' = Purged
  BY <1>1 DEF Purged
<1>6. FedInOrder'
  BY <1>1, <1>5 DEF Fed, FedInOrder
<1>7. HitsOK'
  BY <1>3 DEF HitsOK
<1>8. PhaseOK'
  BY <1>1, <1>2 DEF PhaseOK
<1> QED
  BY <1>4, <1>5, <1>6, <1>7, <1>8 DEF Fed

(***************************************************************************)
(* The documents that match.                                               *)
(***************************************************************************)
LEMMA HandledFacts ==
  ASSUME Fed
  PROVE  /\ Handled \in SUBSET Docs /\ IsFiniteSet(Handled) /\ Cardinality(Handled) \in Nat
         /\ HitDocs \subseteq Handled
         /\ Queued \in SUBSET Docs /\ IsFiniteSet(Queued) /\ Cardinality(Queued) \in Nat
         /\ \A d \in Handled : Passes(d) /\ \E i \in 1..Purged : i \in 1..Len(seen) /\ seen[i][1] = d
<1>1. /\ Purged \in Nat /\ Len(seen) \in Nat /\ collected \in Nat /\ Purged <= collected /\ collected <= Len(seen)
      /\ \A i \in 1..Len(seen) : seen[i][1] \in Docs
  <2>1. collected \in Nat
    BY DEF Fed, CollectorTypeOK
  <2> QED
    BY <2>1, FedFacts
<1>2. \A i \in 1..Purged : i \in 1..Len(seen)
  BY ONLY <1>1
<1>3. \A d \in Handled : Passes(d) /\ \E i \in 1..Purged : i \in 1..Len(seen) /\ seen[i][1] = d
  BY <1>2 DEF Handled
<1>4. Handled \in SUBSET Docs
  BY <1>1, <1>3
<1>5. HitDocs \subseteq Handled
  <2>1. SUFFICES ASSUME NEW k \in 1..Len(hits) PROVE hits[k][1] \in Handled
    BY DEF HitDocs
  <2>2. PICK i \in 1..Purged : hits[k] = seen[i] /\ Passes(seen[i][1])
    BY DEF Fed, HitsOK
  <2> QED
    BY <2>2 DEF Handled
<1>6. Queued \in SUBSET Docs
  BY <1>4 DEF Queued
<1>7. IsFiniteSet(Docs)
  BY CollectorAssumption
<1> QED
  BY <1>3, <1>4, <1>5, <1>6, <1>7, FS_Subset, FS_CardinalityType

\* Where nothing is purged, the documents handled stay the same.
LEMMA HandledSame ==
  ASSUME Fed, UNCHANGED <<opts, view>>, Purged' = Purged, \A i \in 1..Purged : seen'[i] = seen[i]
  PROVE  Handled' = Handled
BY DEF Handled, Passes

\* What a purge adds: the documents of the buffer that pass.
Passing == {k \in 1..Len(buffer) : Passes(buffer[k][1])}
Added == {buffer[k][1] : k \in Passing}

\* A purge handles those of the buffer that pass, all of them behind the ones handled before.
LEMMA HandledPurge ==
  ASSUME Fed, UNCHANGED <<opts, view, seen>>, Purged' = collected
  PROVE  /\ Handled' = Handled \cup Added /\ Added \in SUBSET Docs
         /\ \A d \in Handled, e \in Added : d > e
         /\ Handled \cap Added = {}
         /\ IsFiniteSet(Added) /\ Cardinality(Added) = Cardinality(Passing) /\ Cardinality(Passing) \in Nat
         /\ Cardinality(Handled') = Cardinality(Handled) + Cardinality(Passing)
<1>1. /\ Purged \in Nat /\ Len(seen) \in Nat /\ Len(buffer) \in Nat /\ collected \in Nat
      /\ Purged + Len(buffer) = collected /\ collected <= Len(seen)
  <2>1. collected \in Nat
    BY DEF Fed, CollectorTypeOK
  <2> QED
    BY <2>1, FedFacts
<1>2. /\ \A k \in 1..Len(buffer) : buffer[k] = seen[Purged + k]
      /\ \A i \in 1..Len(seen) : seen[i][1] \in Docs
  BY FedFacts
<1>3. \A k \in 1..Len(buffer) : Purged + k \in 1..Len(seen) /\ Purged + k \in 1..collected
  BY ONLY <1>1
<1>4. \A i \in 1..collected : i \in 1..Purged \/ (i - Purged \in 1..Len(buffer) /\ Purged + (i - Purged) = i)
  BY ONLY <1>1
<1>5. Added \in SUBSET Docs
  BY <1>2, <1>3 DEF Added, Passing
<1>6. Handled' = {seen[i][1] : i \in {j \in 1..collected : Passes(seen[j][1])}}
  BY DEF Handled, Passes
<1>7. Handled' = Handled \cup Added
  <2>1. ASSUME NEW i \in 1..collected, Passes(seen[i][1]) PROVE seen[i][1] \in Handled \cup Added
    <3>1. CASE i \in 1..Purged
      BY <2>1, <3>1 DEF Handled
    <3>2. CASE i - Purged \in 1..Len(buffer) /\ Purged + (i - Purged) = i
      <4>1. buffer[i - Purged] = seen[i]
        BY <1>2, <3>2
      <4> QED
        BY <2>1, <3>2, <4>1 DEF Added, Passing
    <3> QED
      BY <1>4, <3>1, <3>2
  <2>2. ASSUME NEW i \in 1..Purged, Passes(seen[i][1]) PROVE seen[i][1] \in Handled'
    <3>1. i \in 1..collected
      BY <1>1
    <3> QED
      BY <1>6, <2>2, <3>1
  <2>3. ASSUME NEW k \in 1..Len(buffer), Passes(buffer[k][1]) PROVE buffer[k][1] \in Handled'
    BY <1>2, <1>3, <1>6, <2>3
  <2>4. Handled' \subseteq Handled \cup Added
    BY <1>6, <2>1
  <2>5. Handled \subseteq Handled'
    BY <2>2 DEF Handled
  <2>6. Added \subseteq Handled'
    BY <2>3 DEF Added, Passing
  <2> QED
    BY <2>4, <2>5, <2>6
<1>8. ASSUME NEW d \in Handled, NEW e \in Added PROVE d > e /\ d # e
  <2>1. PICK i \in 1..Purged : i \in 1..Len(seen) /\ seen[i][1] = d
    BY HandledFacts
  <2>2. PICK k \in 1..Len(buffer) : buffer[k][1] = e
    BY DEF Added, Passing
  <2>3. Purged + k \in 1..Len(seen) /\ seen[Purged + k][1] = e
    BY <1>2, <1>3, <2>2
  <2>4. i < Purged + k
    BY <1>1
  <2>5. d > e
    BY <2>1, <2>3, <2>4, SeenDiffer
  <2>6. d \in Nat /\ e \in Nat
    BY <1>2, <2>1, <2>3, CollectorAssumption
  <2> QED
    BY <2>5, <2>6
<1>9. /\ IsFiniteSet(Added) /\ Cardinality(Added) = Cardinality(Passing)
      /\ IsFiniteSet(Passing) /\ Cardinality(Passing) \in Nat
  <2>1. Passing \in SUBSET (1..Len(buffer)) /\ IsFiniteSet(1..Len(buffer))
    BY <1>1, CardinalityUpTo DEF Passing
  <2>2. IsFiniteSet(Passing)
    BY <2>1, FS_Subset
  <2> DEFINE f == [k \in 1..Len(buffer) |-> buffer[k][1]]
  <2>3. ASSUME NEW j \in Passing, NEW k \in Passing, f[j] = f[k] PROVE j = k
    <3>1. j \in 1..Len(buffer) /\ k \in 1..Len(buffer) /\ buffer[j][1] = buffer[k][1]
      BY <2>1, <2>3
    <3>2. Purged + j \in 1..Len(seen) /\ Purged + k \in 1..Len(seen) /\ seen[Purged + j][1] = seen[Purged + k][1]
      BY <1>2, <1>3, <3>1
    <3>3. seen[Purged + j][1] \in Nat
      BY <1>2, <3>2, CollectorAssumption
    <3>4. ~(Purged + j < Purged + k) /\ ~(Purged + k < Purged + j)
      BY <3>2, <3>3, SeenDiffer
    <3> QED
      BY <1>1, <3>1, <3>4
  <2>4. Added = {f[k] : k \in Passing}
    BY <2>1 DEF Added
  <2> HIDE DEF f
  <2>5. IsFiniteSet(Added) /\ Cardinality(Added) = Cardinality(Passing)
    BY <2>2, <2>3, <2>4, CardinalityImage
  <2> QED
    BY <2>2, <2>5, FS_CardinalityType
<1>10. Handled \cap Added = {}
  BY <1>8
<1>11. Cardinality(Handled') = Cardinality(Handled) + Cardinality(Passing)
  <2>1. IsFiniteSet(Handled)
    BY HandledFacts
  <2>2. Cardinality(Handled \cup Added) = Cardinality(Handled) + Cardinality(Added)
    <3>1. Cardinality(Handled \cup Added) = Cardinality(Handled) + Cardinality(Added) - Cardinality({})
      BY <1>9, <1>10, <2>1, FS_Union
    <3>2. Cardinality({}) = 0 /\ Cardinality(Handled) \in Nat /\ Cardinality(Added) \in Nat
      BY <1>9, <2>1, FS_EmptySet, FS_CardinalityType
    <3> QED
      BY <3>1, <3>2
  <2> QED
    BY <1>7, <1>9, <2>2
<1> QED
  BY <1>5, <1>7, <1>8, <1>9, <1>10, <1>11

(***************************************************************************)
(* The priority queue.                                                     *)
(***************************************************************************)
LEMMA BeforeOrders ==
  ASSUME OptsOK, ViewOK
  PROVE  /\ \A d \in Docs : ~Before(d, d)
         /\ \A d, e, x \in Docs : ~Before(d, e) /\ ~Before(e, x) => ~Before(d, x)
         /\ ~opts.sorted => \A d, e \in Docs : Before(d, e) <=> d > e
<1>1. /\ opts.conds \in Seq(Condition) /\ Docs \in SUBSET Nat
      /\ \A d \in Docs : view[d].fields \in [FieldIDs -> Field]
  BY CollectorAssumption DEF OptsOK, ViewOK
<1>2. \A d \in Docs : ~Before(d, d)
  <2>1. SUFFICES ASSUME NEW d \in Docs PROVE ~Before(d, d)
    OBVIOUS
  <2>2. d \in Nat /\ view[d].fields \in [FieldIDs -> Field]
    BY <1>1
  <2>3. ~Sorter(opts.conds, d, view[d].fields, d, view[d].fields)
    BY <1>1, <2>2, SorterOrders
  <2> QED
    BY <2>3 DEF Before
<1>3. ASSUME NEW d \in Docs, NEW e \in Docs, NEW x \in Docs, ~Before(d, e), ~Before(e, x)
      PROVE  ~Before(d, x)
  <2> DEFINE Fd == view[d].fields
             Fe == view[e].fields
             Fx == view[x].fields
  <2>1. /\ d \in Nat /\ e \in Nat /\ x \in Nat
        /\ Fd \in [FieldIDs -> Field] /\ Fe \in [FieldIDs -> Field] /\ Fx \in [FieldIDs -> Field]
    BY <1>1
  <2>2. ~Sorter(opts.conds, d, Fd, e, Fe) /\ ~Sorter(opts.conds, e, Fe, x, Fx)
    BY <1>3 DEF Before
  <2> HIDE DEF Fd, Fe, Fx
  <2>3. ~Sorter(opts.conds, d, Fd, x, Fx)
    BY <1>1, <2>1, <2>2, SorterOrders
  <2> QED
    BY <2>3 DEF Before, Fd, Fx
<1>4. ASSUME ~opts.sorted, NEW d \in Docs, NEW e \in Docs PROVE Before(d, e) <=> d > e
  <2>1. opts.conds = <<>>
    BY <1>4 DEF OptsOK
  <2>2. Len(opts.conds) = 0 /\ 1..Len(opts.conds) = {}
    BY <2>1
  <2>3. Sorter(opts.conds, d, view[d].fields, e, view[e].fields) <=> d > e
    BY <1>1, <2>2, SorterValue
  <2> QED
    BY <2>3 DEF Before
<1> QED
  BY <1>2, <1>3, <1>4

\* The queue's comparison is the order of the sort conditions.
LEMMA BeforeIs ==
  ASSUME OptsOK, ViewOK
  PROVE  \A d, e \in Docs : Before(d, e) <=> Precedes(d, e)
<1>1. /\ opts.conds \in Seq(Condition) /\ Docs \in SUBSET Nat
      /\ \A d \in Docs : view[d].fields \in [FieldIDs -> Field]
  BY CollectorAssumption DEF OptsOK, ViewOK
<1>2. SUFFICES ASSUME NEW d \in Docs, NEW e \in Docs PROVE Before(d, e) <=> Precedes(d, e)
  OBVIOUS
<1>3. CASE d # e
  <2> DEFINE Fd == view[d].fields
             Fe == view[e].fields
  <2>1. d \in Nat /\ e \in Nat /\ Fd \in [FieldIDs -> Field] /\ Fe \in [FieldIDs -> Field]
    BY <1>1
  <2> HIDE DEF Fd, Fe
  <2>2. Sorter(opts.conds, d, Fd, e, Fe) <=> HonouredOrder(opts.conds, d, Fd, e, Fe)
    BY <1>1, <1>3, <2>1, SorterIs
  <2> QED
    BY <2>2 DEF Before, Precedes, Fd, Fe
<1>4. CASE d = e
  <2>1. ~Before(d, d)
    BY BeforeOrders
  <2>2. ~Precedes(d, d)
    <3>0. d \in Nat /\ \A k \in DOMAIN opts.conds : opts.conds[k] \in Condition /\ view[d].fields[opts.conds[k].field] \in Field
      <4>1. d \in Nat /\ view[d].fields \in [FieldIDs -> Field]
        BY <1>1
      <4>2. \A k \in DOMAIN opts.conds : opts.conds[k] \in Condition
        BY <1>1
      <4>3. \A k \in DOMAIN opts.conds : opts.conds[k].field \in FieldIDs
        BY <4>2 DEF Condition
      <4> QED
        BY <4>1, <4>2, <4>3
    <3>1. ASSUME NEW c \in Condition, NEW f \in Field PROVE ~Decides(c, d, f, d, f)
      <4>1. f.num \in Nat /\ f.str \in Seq(Nat)
        BY DEF Field
      <4>2. ~StringLess(f.str, f.str)
        BY <4>1, StringLessIs, StringGreaterIs, LexLessIrreflexive
      <4> QED
        BY <3>0, <4>1, <4>2 DEF Decides, PutsFirst, Below
    <3>2. ~(d > d)
      BY <3>0
    <3> QED
      BY <3>0, <3>1, <3>2 DEF Precedes, HonouredOrder
  <2> QED
    BY <1>4, <2>1, <2>2
<1> QED
  BY <1>3, <1>4

\* s with x behind its first j members.
InsertedAt(q, s, x, j) ==
  /\ Len(q) = Len(s) + 1
  /\ \A i \in 1..j : q[i] = s[i]
  /\ q[j + 1] = x
  /\ \A i \in (j + 2)..(Len(s) + 1) : q[i] = s[i - 1]

\* A sequence cut in two with a member put between.
LEMMA InsertedIs ==
  ASSUME NEW V, NEW s \in Seq(V), NEW x \in V, NEW j \in 0..Len(s)
  PROVE  /\ SubSeq(s, 1, j) \o <<x>> \o SubSeq(s, j + 1, Len(s)) \in Seq(V)
         /\ InsertedAt(SubSeq(s, 1, j) \o <<x>> \o SubSeq(s, j + 1, Len(s)), s, x, j)
<1> DEFINE a == SubSeq(s, 1, j)
           b == SubSeq(s, j + 1, Len(s))
           n == Len(s)
<1>1. n \in Nat /\ j \in Nat /\ j <= n
  OBVIOUS
<1>2. a \in Seq(V) /\ Len(a) = j /\ \A i \in 1..j : a[i] = s[i]
  BY <1>1
<1>3. b \in Seq(V) /\ Len(b) = n - j /\ \A i \in 1..(n - j) : b[i] = s[j + i]
  <2>1. \A i \in 1..(n - j) : (j + 1) + i - 1 = j + i /\ j + i \in 1..n
    BY <1>1
  <2> QED
    BY <1>1, <2>1
<1> HIDE DEF a, b, n
<1> DEFINE c == a \o <<x>>
<1>4. c \in Seq(V) /\ Len(c) = j + 1 /\ c[j + 1] = x /\ \A i \in 1..j : c[i] = s[i]
  BY <1>1, <1>2
<1> HIDE DEF c
<1> DEFINE q == c \o b
<1>5. q \in Seq(V) /\ Len(q) = n + 1
  <2>1. Len(q) = Len(c) + Len(b) /\ q \in Seq(V)
    BY <1>3, <1>4, ConcatProperties
  <2>2. (j + 1) + (n - j) = n + 1
    BY <1>1
  <2> QED
    BY ONLY <1>3, <1>4, <2>1, <2>2
<1>6. \A i \in 1..(j + 1) : q[i] = c[i]
  BY <1>1, <1>3, <1>4
<1>7. ASSUME NEW i \in (j + 2)..(n + 1) PROVE q[i] = s[i - 1]
  <2>1. i - (j + 1) \in 1..(n - j) /\ j + (i - (j + 1)) = i - 1
    BY <1>1
  <2>2. q[i] = b[i - (j + 1)]
    BY <1>1, <1>3, <1>4
  <2> QED
    BY <1>3, <2>1, <2>2
<1>8. InsertedAt(q, s, x, j)
  <2>1. j + 1 \in 1..(j + 1) /\ \A i \in 1..j : i \in 1..(j + 1)
    BY <1>1
  <2> HIDE DEF q
  <2> QED
    BY <1>4, <1>5, <1>6, <1>7, <2>1 DEF InsertedAt, n
<1> QED
  BY <1>5, <1>8 DEF c, a, b, n

\* The members of s in the places in I, as many as places if s has no repetitions.
MembersAt(s, I) == {s[i] : i \in I}

\* Where no member occurs twice, there are as many members as places.
LEMMA CardinalityPlaces ==
  ASSUME NEW s, NEW n \in Nat, \A i, k \in 1..n : i < k => s[i] # s[k], NEW I \in SUBSET (1..n)
  PROVE  /\ IsFiniteSet(MembersAt(s, I)) /\ Cardinality(MembersAt(s, I)) = Cardinality(I)
         /\ IsFiniteSet(I) /\ Cardinality(I) \in Nat
<1>1. IsFiniteSet(1..n)
  BY CardinalityUpTo
<1>2. IsFiniteSet(I)
  BY <1>1, FS_Subset
<1>3. \A i, k \in I : i < k \/ k < i \/ i = k
  OBVIOUS
<1>4. \A i, k \in I : s[i] = s[k] => i = k
  BY <1>3
<1>5. IsFiniteSet({s[i] : i \in I}) /\ Cardinality({s[i] : i \in I}) = Cardinality(I)
  BY ONLY <1>2, <1>4, CardinalityImage
<1> QED
  BY <1>2, <1>5, FS_CardinalityType DEF MembersAt

\* Only a full queue leaves out a document.
LEMMA BestFull ==
  ASSUME NEW S, IsFiniteSet(S), NEW n \in Nat, NEW s, Best(s, S, n),
         NEW d \in S, \A k \in 1..Len(s) : s[k] # d
  PROVE  Len(s) = n
<1>1. /\ s \in Seq(S) /\ Len(s) \in Nat /\ \A i \in 1..Len(s) : s[i] \in S
      /\ Len(s) = IF Cardinality(S) < n THEN Cardinality(S) ELSE n
      /\ \A i, k \in 1..Len(s) : i < k => s[i] # s[k]
  BY DEF Best
<1>2. Cardinality(S) \in Nat
  BY FS_CardinalityType
<1>3. Len(s) # Cardinality(S)
  <2>1. SUFFICES ASSUME Len(s) = Cardinality(S) PROVE FALSE
    OBVIOUS
  <2> DEFINE P == 1..Len(s)
             I == MembersAt(s, P)
  <2>2. I \subseteq S /\ d \notin I
    BY <1>1 DEF MembersAt
  <2>3. IsFiniteSet(P) /\ Cardinality(P) = Len(s) /\ P \in SUBSET (1..Len(s))
    BY <1>1, CardinalityUpTo
  <2>4. Len(s) \in Nat /\ \A k, l \in 1..Len(s) : k < l => s[k] # s[l]
    BY <1>1
  <2> HIDE DEF P
  <2>5. Cardinality(I) = Cardinality(P)
    BY ONLY <2>3, <2>4, CardinalityPlaces
  <2> HIDE DEF I
  <2>6. Cardinality(I) < Cardinality(S)
    BY <2>2, CardinalityGrows
  <2> QED
    BY <1>2, <2>1, <2>3, <2>5, <2>6
<1> QED
  BY <1>1, <1>2, <1>3

\* A document is pushed into the queue of the best, and the worst falls out at its end:
\* it still holds the best.
LEMMA BestInserted ==
  ASSUME OptsOK, ViewOK, NEW S \in SUBSET Docs, IsFiniteSet(S), NEW n \in Nat, NEW s, Best(s, S, n),
         NEW x \in Docs, x \notin S, NEW j \in 0..Len(s), NEW q \in Seq(Docs), InsertedAt(q, s, x, j),
         \A i \in 1..j : ~Before(x, s[i]), \A i \in (j + 1)..Len(s) : ~Before(s[i], x)
  PROVE  Best(SubSeq(q, 1, IF Len(q) > n THEN n ELSE Len(q)), S \cup {x}, n)
<1> DEFINE T == S \cup {x}
           m == IF Len(q) > n THEN n ELSE Len(q)
           r == SubSeq(q, 1, m)
<1>1. /\ s \in Seq(S) /\ Len(s) \in Nat /\ \A i \in 1..Len(s) : s[i] \in S
      /\ Len(s) = IF Cardinality(S) < n THEN Cardinality(S) ELSE n
      /\ \A i, k \in 1..Len(s) : i < k => s[i] # s[k] /\ ~Before(s[k], s[i])
      /\ \A d \in S : (\A i \in 1..Len(s) : s[i] # d) => \A i \in 1..Len(s) : ~Before(d, s[i])
  BY DEF Best
<1>2. IsFiniteSet(T) /\ Cardinality(S) \in Nat /\ Cardinality(T) = Cardinality(S) + 1
  BY FS_AddElement, FS_CardinalityType
<1>3. j \in Nat /\ j <= Len(s) /\ Len(q) = Len(s) + 1
  BY <1>1 DEF InsertedAt
<1>4. m \in Nat /\ m <= Len(q) /\ m = IF Cardinality(T) < n THEN Cardinality(T) ELSE n
  BY <1>1, <1>2, <1>3
<1>5. ASSUME NEW i \in 1..Len(q)
      PROVE  \/ i \in 1..j /\ i \in 1..Len(s) /\ q[i] = s[i]
             \/ i = j + 1 /\ q[i] = x
             \/ i \in (j + 2)..(Len(s) + 1) /\ i - 1 \in 1..Len(s) /\ i - 1 \in (j + 1)..Len(s) /\ q[i] = s[i - 1]
  BY <1>1, <1>3 DEF InsertedAt
<1>6. \A i \in 1..Len(q) : q[i] \in T
  BY <1>1, <1>5
<1>7. r \in Seq(T) /\ Len(r) = m /\ \A i \in 1..m : r[i] = q[i]
  <2>1. q \in Seq(T)
    BY <1>6
  <2>2. 1 \in 1..(Len(q) + 1) /\ m \in (1 - 1)..Len(q) /\ Len(q) \in Nat
    BY <1>1, <1>3, <1>4
  <2>3. (m - 1) + 1 = m /\ (IF 1 <= m THEN (m - 1) + 1 ELSE 0) = m /\ \A i \in 1..m : 1 + i - 1 = i
    BY <1>4
  <2> HIDE DEF m
  <2>4. /\ r \in Seq(T) /\ Len(r) = (IF 1 <= m THEN (m - 1) + 1 ELSE 0)
        /\ \A i \in 1..((m - 1) + 1) : r[i] = q[1 + i - 1]
    BY ONLY <2>1, <2>2, SubSeqProperties
  <2> HIDE DEF r
  <2> QED
    BY ONLY <2>3, <2>4
<1>8. ASSUME NEW i \in 1..Len(q), NEW k \in 1..Len(q), i < k
      PROVE  q[i] # q[k] /\ ~Before(q[k], q[i])
  <2>0. i \in Int /\ k \in Int
    OBVIOUS
  <2>1. CASE i \in 1..j /\ i \in 1..Len(s) /\ q[i] = s[i]
    <3>1. CASE k \in 1..j /\ k \in 1..Len(s) /\ q[k] = s[k]
      BY <1>1, <1>8, <2>1, <3>1
    <3>2. CASE k = j + 1 /\ q[k] = x
      BY <1>1, <2>1, <3>2
    <3>3. CASE k \in (j + 2)..(Len(s) + 1) /\ k - 1 \in 1..Len(s) /\ q[k] = s[k - 1]
      <4>1. i < k - 1
        BY <1>3, <2>0, <2>1, <3>3
      <4> QED
        BY <1>1, <2>1, <3>3, <4>1
    <3> QED
      BY <1>5, <3>1, <3>2, <3>3
  <2>2. CASE i = j + 1 /\ q[i] = x
    <3>1. k \in (j + 2)..(Len(s) + 1) /\ k - 1 \in 1..Len(s) /\ k - 1 \in (j + 1)..Len(s) /\ q[k] = s[k - 1]
      <4>1. k \notin 1..j /\ k # j + 1
        BY <1>3, <1>8, <2>0, <2>2
      <4> QED
        BY <1>5, <4>1
    <3> QED
      BY <1>1, <2>2, <3>1
  <2>3. CASE i \in (j + 2)..(Len(s) + 1) /\ i - 1 \in 1..Len(s) /\ q[i] = s[i - 1]
    <3>1. k \in (j + 2)..(Len(s) + 1) /\ k - 1 \in 1..Len(s) /\ q[k] = s[k - 1]
      <4>1. k \notin 1..j /\ k # j + 1
        BY <1>3, <1>8, <2>0, <2>3
      <4> QED
        BY <1>5, <4>1
    <3>2. i - 1 < k - 1
      BY <1>8, <2>0
    <3> QED
      BY <1>1, <2>3, <3>1, <3>2
  <2> QED
    BY <1>5, <2>1, <2>2, <2>3
<1>9. ASSUME NEW d \in T, \A i \in 1..m : q[i] # d, NEW i \in 1..m
      PROVE  ~Before(d, q[i])
  <2>0. i \in 1..Len(q) /\ d \in Docs /\ q[i] \in Docs
    BY <1>4, <1>6
  <2>1. ASSUME NEW k \in 1..Len(q), q[k] = d PROVE ~Before(d, q[i])
    <3>1. k \notin 1..m
      BY <1>9, <2>1
    <3>2. i < k
      BY <1>3, <1>4, <3>1
    <3> QED
      BY <1>8, <2>0, <2>1, <3>2
  <2>2. ASSUME \A k \in 1..Len(q) : q[k] # d PROVE ~Before(d, q[i])
    <3>1. d \in S /\ \A k \in 1..Len(s) : s[k] # d
      <4>1. q[j + 1] = x /\ j + 1 \in 1..Len(q)
        BY <1>1, <1>3 DEF InsertedAt
      <4>2. ASSUME NEW k \in 1..Len(s) PROVE s[k] # d
        <5>1. CASE k <= j
          <6>1. k \in 1..j /\ k \in 1..Len(q)
            BY <1>1, <1>3, <5>1
          <6> QED
            BY <2>2, <6>1 DEF InsertedAt
        <5>2. CASE k > j
          <6>1. k + 1 \in (j + 2)..(Len(s) + 1) /\ k + 1 \in 1..Len(q) /\ (k + 1) - 1 = k
            BY <1>1, <1>3, <5>2
          <6> QED
            BY <2>2, <6>1 DEF InsertedAt
        <5> QED
          BY <1>1, <1>3, <5>1, <5>2
      <4> QED
        BY <2>2, <4>1, <4>2
    <3>2. Len(s) = n /\ n < Len(q) /\ m = n
      <4>1. Len(s) = n
        BY <3>1, BestFull
      <4> QED
        BY <1>1, <1>3, <4>1
    <3>3. CASE q[i] # x
      <4>1. \E k \in 1..Len(s) : q[i] = s[k]
        BY <1>5, <2>0, <3>3
      <4> QED
        BY <1>1, <3>1, <4>1
    <3>4. CASE q[i] = x
      <4>1. Len(q) \in 1..Len(q) /\ i < Len(q)
        BY <1>1, <1>3, <3>2
      <4>2. q[Len(q)] # x /\ ~Before(q[Len(q)], x)
        BY <1>8, <2>0, <3>4, <4>1
      <4>3. \E k \in 1..Len(s) : q[Len(q)] = s[k]
        BY <1>5, <4>1, <4>2
      <4>4. ~Before(d, q[Len(q)]) /\ q[Len(q)] \in Docs
        BY <1>1, <3>1, <4>3
      <4> QED
        BY <2>0, <3>4, <4>2, <4>4, BeforeOrders
    <3> QED
      BY <3>3, <3>4
  <2> QED
    BY <2>1, <2>2
<1> HIDE DEF m, r
<1>10. Best(r, T, n)
  <2>1. \A i \in 1..m : i \in 1..Len(q)
    BY <1>3, <1>4
  <2>2. \A i, k \in 1..m : i < k => r[i] # r[k] /\ ~Before(r[k], r[i])
    BY <1>7, <1>8, <2>1
  <2>3. \A d \in T : (\A i \in 1..m : r[i] # d) => \A i \in 1..m : ~Before(d, r[i])
    BY <1>7, <1>9
  <2> QED
    BY <1>4, <1>7, <2>2, <2>3 DEF Best
<1> QED
  BY <1>10 DEF r, m

\* The unread purge: the first documents of the buffer fill the queue up, and they are
\* the best as all documents given later are smaller.
LEMMA BestUnread ==
  ASSUME Fed, PurgeUnread, Best(topN, Handled, top_n)
  PROVE  Best(topN', Handled \cup Added, top_n)
<1> DEFINE n == top_n
           room == n - Len(topN)
           m == IF Len(buffer) < room THEN Len(buffer) ELSE room
           P == 1..Len(topN)
           K == 1..m
           R == MembersAt(topN, P)
           ids == [k \in 1..Len(buffer) |-> buffer[k][1]]
           N == MembersAt(ids, K)
           T == Handled \cup Added
           q == Descending(R \cup N)
<1>1. /\ OptsOK /\ ~opts.sorted /\ ~opts.filtered /\ pc = "purge" /\ ViewOK
      /\ UNCHANGED <<opts, view, source, seen, then, collected>> /\ buffer' = <<>>
  BY DEF PurgeUnread, Fed, CollectorTypeOK
<1>2. /\ Len(seen) \in Nat /\ Len(buffer) \in Nat /\ Purged \in Nat /\ n \in Nat /\ collected \in Nat
      /\ Purged + Len(buffer) = collected /\ collected <= Len(seen)
  <2>1. collected \in Nat
    BY DEF Fed, CollectorTypeOK
  <2> QED
    BY <2>1, FedFacts
<1>3. /\ \A k \in 1..Len(buffer) : buffer[k] = seen[Purged + k]
      /\ \A i \in 1..Len(seen) : seen[i][1] \in Docs
      /\ DOMAIN buffer = 1..Len(buffer)
  BY FedFacts DEF Fed, CollectorTypeOK
<1>4. Handled \in SUBSET Docs /\ IsFiniteSet(Handled) /\ Cardinality(Handled) \in Nat
  BY HandledFacts
<1>5. Purged' = collected /\ UNCHANGED <<opts, view, seen>>
  BY <1>1, FedPurgeUnread
<1>6. /\ Added \in SUBSET Docs /\ \A d \in Handled, e \in Added : d > e
      /\ IsFiniteSet(Added) /\ Handled \cap Added = {}
      /\ Cardinality(Added) = Cardinality(Passing)
  BY <1>5, HandledPurge
<1>7. Passing = 1..Len(buffer)
  BY <1>1 DEF Passing, Passes
<1>8. Added = {ids[k] : k \in 1..Len(buffer)} /\ Cardinality(Added) = Len(buffer)
  BY <1>2, <1>6, <1>7, CardinalityUpTo DEF Added
<1>9. /\ topN \in Seq(Handled) /\ Len(topN) \in Nat /\ DOMAIN topN = 1..Len(topN)
      /\ \A i \in 1..Len(topN) : topN[i] \in Handled
      /\ Len(topN) = IF Cardinality(Handled) < n THEN Cardinality(Handled) ELSE n
      /\ \A i, k \in 1..Len(topN) : i < k => topN[i] # topN[k]
      /\ \A d \in Handled : (\A i \in 1..Len(topN) : topN[i] # d) => \A i \in 1..Len(topN) : ~Before(d, topN[i])
  BY DEF Best
<1>10. room \in Nat /\ m \in Nat /\ m <= Len(buffer) /\ m <= room
  BY <1>2, <1>4, <1>9
<1>11. topN' = q
  <2>1. \A j \in DOMAIN buffer : j <= room <=> j \in K
    BY <1>2, <1>3, <1>10
  <2>2. {buffer[k][1] : k \in {j \in DOMAIN buffer : j <= room}} = N
    <3>1. {j \in DOMAIN buffer : j <= room} = K
      BY <1>2, <1>3, <1>10
    <3>2. \A k \in K : ids[k] = buffer[k][1]
      BY <1>2, <1>10
    <3> HIDE DEF K, ids
    <3> QED
      BY <3>1, <3>2 DEF MembersAt
  <2>3. {topN[k] : k \in DOMAIN topN} = R
    BY <1>9 DEF MembersAt
  <2>4. topN' = Descending({topN[k] : k \in DOMAIN topN} \cup {buffer[k][1] : k \in {j \in DOMAIN buffer : j <= top_n - Len(topN)}})
    BY DEF PurgeUnread
  <2> QED
    BY <2>2, <2>3, <2>4
<1>12. ASSUME NEW i \in 1..Len(buffer), NEW k \in 1..Len(buffer), i < k
       PROVE  ids[i] > ids[k] /\ ids[i] # ids[k]
  <2>1. Purged + i \in 1..Len(seen) /\ Purged + k \in 1..Len(seen) /\ Purged + i < Purged + k
    <3>1. i \in Nat /\ k \in Nat /\ 1 <= i /\ i < k /\ k <= Len(buffer)
      BY <1>12
    <3> QED
      BY ONLY <1>2, <3>1
  <2>2. seen[Purged + i][1] > seen[Purged + k][1]
    BY <2>1, SeenDiffer
  <2>3. seen[Purged + i][1] \in Nat /\ seen[Purged + k][1] \in Nat
    BY <1>3, <2>1, CollectorAssumption
  <2>4. ids[i] = seen[Purged + i][1] /\ ids[k] = seen[Purged + k][1]
    BY <1>3
  <2> HIDE DEF ids
  <2> QED
    BY <2>2, <2>3, <2>4
<1> HIDE DEF ids
<1>13. /\ IsFiniteSet(R) /\ Cardinality(R) = Len(topN) /\ R \subseteq Handled
       /\ \A d : d \in R <=> \E i \in 1..Len(topN) : topN[i] = d
  <2>1. P \in SUBSET (1..Len(topN)) /\ Cardinality(P) = Len(topN)
    BY <1>9, CardinalityUpTo
  <2>2. \A d : d \in R <=> \E i \in 1..Len(topN) : topN[i] = d
    BY DEF MembersAt
  <2>3. R \subseteq Handled
    BY <1>9, <2>2
  <2> HIDE DEF P
  <2>4. IsFiniteSet(R) /\ Cardinality(R) = Cardinality(P)
    BY <1>9, <2>1, CardinalityPlaces
  <2> QED
    BY <2>1, <2>2, <2>3, <2>4
<1>14. /\ IsFiniteSet(N) /\ Cardinality(N) = m /\ N \subseteq Added
       /\ \A d : d \in N <=> \E i \in 1..m : ids[i] = d
  <2>1. K \in SUBSET (1..Len(buffer)) /\ Cardinality(K) = m
    BY <1>2, <1>10, CardinalityUpTo
  <2>2. \A d : d \in N <=> \E i \in 1..m : ids[i] = d
    BY DEF MembersAt
  <2>3. N \subseteq Added
    BY <1>8, <2>1, <2>2
  <2> HIDE DEF K
  <2>4. IsFiniteSet(N) /\ Cardinality(N) = Cardinality(K)
    BY <1>2, <1>12, <2>1, CardinalityPlaces
  <2> QED
    BY <2>1, <2>2, <2>3, <2>4
<1> HIDE DEF R, N, m, P, K
<1>15. IsFiniteSet(R \cup N) /\ Cardinality(R \cup N) = Len(topN) + m /\ R \cup N \in SUBSET Nat
  <2>1. R \cap N = {}
    BY <1>6, <1>13, <1>14
  <2>2. IsFiniteSet(R \cup N) /\ Cardinality(R \cup N) = Cardinality(R) + Cardinality(N) - Cardinality({})
    BY <1>13, <1>14, <2>1, FS_Union
  <2>3. R \cup N \in SUBSET Nat
    BY <1>4, <1>6, <1>13, <1>14, CollectorAssumption
  <2> QED
    BY <1>9, <1>10, <1>13, <1>14, <2>2, <2>3, FS_EmptySet
<1>16. DescendingOf(q, R \cup N)
  BY <1>15, DescendingOrders
<1> HIDE DEF q
<1>17. /\ q \in Seq(R \cup N) /\ Len(q) = Len(topN) + m /\ \A i \in 1..Len(q) : q[i] \in R \cup N
       /\ \A i, k \in 1..Len(q) : i < k => q[i] > q[k]
       /\ \A d \in R \cup N : \E i \in 1..Len(q) : q[i] = d
  <2>1. /\ q \in Seq(R \cup N) /\ Len(q) = Cardinality(R \cup N)
        /\ \A i, k \in 1..Len(q) : i < k => q[i] > q[k]
        /\ \A d \in R \cup N : \E i \in 1..Len(q) : q[i] = d
    BY <1>16 DEF DescendingOf
  <2>2. \A i \in 1..Len(q) : q[i] \in R \cup N
    BY <2>1
  <2> QED
    BY <1>15, <2>1, <2>2
<1>18. R \cup N \subseteq T /\ T \in SUBSET Docs /\ T \in SUBSET Nat
  BY <1>4, <1>6, <1>13, <1>14, CollectorAssumption
<1>19. q \in Seq(T)
  BY <1>17, <1>18
<1>20. Len(q) = IF Cardinality(T) < n THEN Cardinality(T) ELSE n
  <2>1. Cardinality(T) = Cardinality(Handled) + Len(buffer)
    <3>1. Cardinality(T) = Cardinality(Handled) + Cardinality(Added) - Cardinality({})
      BY <1>4, <1>6, FS_Union
    <3> QED
      BY <1>2, <1>4, <1>8, <3>1, FS_EmptySet
  <2> HIDE DEF T, n
  <2> QED
    BY ONLY <1>2, <1>4, <1>9, <1>10, <1>17, <2>1 DEF m, room
<1>21. \A d, e \in T : Before(d, e) <=> d > e
  BY <1>1, <1>18, BeforeOrders
<1>22. ASSUME NEW i \in 1..Len(q), NEW k \in 1..Len(q), i < k
       PROVE  q[i] # q[k] /\ ~Before(q[k], q[i])
  <2>1. q[i] \in T /\ q[k] \in T /\ q[i] \in Nat /\ q[k] \in Nat /\ q[i] > q[k]
    BY <1>17, <1>18, <1>22
  <2>2. q[i] # q[k] /\ ~(q[k] > q[i])
    BY ONLY <2>1
  <2> QED
    BY <1>21, <2>1, <2>2
<1>23. ASSUME NEW d \in T, \A i \in 1..Len(q) : q[i] # d, NEW k \in 1..Len(q)
       PROVE  ~Before(d, q[k])
  <2>0. d \notin R /\ d \notin N /\ q[k] \in R \cup N
    BY <1>17, <1>23
  <2>1. SUFFICES ASSUME NEW e \in R \cup N PROVE ~Before(d, e)
    BY <2>0
  <2>2. d \in Nat /\ e \in Nat /\ e \in T
    BY <1>18
  <2>3. CASE d \in Handled
    <3>1. \A i \in 1..Len(topN) : topN[i] # d
      BY <1>13, <2>0
    <3>2. Len(topN) = n
      BY <1>2, <1>4, <2>3, <3>1, BestFull
    <3>3. m = 0
      BY <1>2, <1>10, <3>2
    <3>4. e \in R
      BY <1>14, <2>1, <3>3
    <3> QED
      BY <1>9, <1>13, <2>3, <3>1, <3>4
  <2>4. CASE d \in Added
    <3>1. e > d
      <4>1. CASE e \in R
        BY <1>6, <1>13, <2>4, <4>1
      <4>2. CASE e \in N
        <5>1. PICK i \in 1..m : ids[i] = e
          BY <1>14, <4>2
        <5>2. PICK l \in 1..Len(buffer) : ids[l] = d
          BY <1>8, <2>4
        <5>3. l \notin 1..m
          BY <1>14, <2>0, <5>2
        <5>4. i \in 1..Len(buffer) /\ i < l
          BY <1>2, <1>10, <5>3
        <5> QED
          BY <1>12, <5>1, <5>2, <5>4
      <4> QED
        BY <4>1, <4>2
    <3>2. ~(d > e)
      BY <2>2, <3>1
    <3> QED
      BY <1>21, <2>2, <3>2
  <2> QED
    BY <2>3, <2>4
<1> HIDE DEF T, n
<1>24. Best(q, T, n)
  BY <1>19, <1>20, <1>22, <1>23 DEF Best
<1> QED
  BY <1>11, <1>24 DEF T, n

(***************************************************************************)
(* Every step keeps the invariant.                                         *)
(***************************************************************************)
LEMMA TopNPrepare ==
  ASSUME TopNInv, Prepare
  PROVE  TopNInv'
<1>1. Fed'
  BY FedPrepare DEF Fed, TopNInv
<1>2. /\ seen' = <<>> /\ buffer' = <<>> /\ hits' = <<>> /\ topN' = <<>> /\ collected' = 0 /\ total' = 0
      /\ offset' = opts'.offset /\ then' = "collect" /\ opts' = opts
  BY DEF Prepare, collectorVars, TopNInv, PhaseOK
<1>3. Purged' = 0
  <2>1. Len(buffer') = 0
    BY <1>2
  <2>2. collected' = 0
    BY <1>2
  <2>3. collected' - Len(buffer') = 0
    BY ONLY <2>1, <2>2
  <2> QED
    BY <2>3 DEF Purged
<1>4. Handled' = {} /\ HitDocs' = {} /\ Queued' = {}
  <2>1. 1..Purged' = {} /\ 1..Len(hits') = {}
    BY <1>2, <1>3
  <2> QED
    BY <2>1 DEF Handled, HitDocs, Queued
<1>5. Cardinality({}) = 0
  BY FS_EmptySet
<1>6. QueueOK'
  <2>1. top_n' \in Nat
    BY <1>1 DEF Fed, CollectorTypeOK, OptsOK, top_n
  <2> QED
    BY <1>2, <1>4, <1>5, <2>1 DEF QueueOK, Best
<1> QED
  BY <1>1, <1>2, <1>4, <1>5, <1>6 DEF TopNInv, Fed, StopOK

\* Steps that change neither the documents handled nor the queue.
LEMMA TopNSame ==
  ASSUME TopNInv, Fed', UNCHANGED <<opts, view, source, topN, total, hits, failed>>, Purged' = Purged,
         \A i \in 1..Purged : seen'[i] = seen[i],
         ~opts.scoring => offset' = offset,
         ~opts.scoring => StopOK'
  PROVE  TopNInv'
<1>0. Fed
  BY DEF Fed, TopNInv
<1>1. Handled' = Handled
  BY <1>0, HandledSame
<1>2. HitDocs' = HitDocs
  BY DEF HitDocs
<1>3. Queued' = Queued
  BY <1>1, <1>2 DEF Queued
<1>4. QueueOK => QueueOK'
  BY <1>3 DEF QueueOK, Best, Before, top_n
<1> QED
  BY <1>1, <1>4 DEF TopNInv, Fed

\* Collecting a document leaves the queue alone.
LEMMA TopNCollect ==
  ASSUME TopNInv, CollectNextOf
  PROVE  TopNInv'
<1>0. Fed
  BY DEF Fed, TopNInv
<1>1. Fed' /\ Purged' = Purged /\ \A i \in 1..Purged : seen'[i] = seen[i]
  BY <1>0, FedCollect
<1>2. UNCHANGED <<opts, view, source, topN, total, hits, failed, offset>> /\ then' = "collect"
  BY DEF CollectNextOf, Collect
<1> QED
  BY <1>1, <1>2, TopNSame DEF StopOK

\* So does leaving the loop.
LEMMA TopNStop ==
  ASSUME TopNInv, StopCollecting(Len(seen) = Cardinality(source))
  PROVE  TopNInv'
<1>0. Fed
  BY DEF Fed, TopNInv
<1>1. Fed' /\ Purged' = Purged /\ seen' = seen
  BY <1>0, FedStop
<1>2. /\ UNCHANGED <<opts, view, source, seen, topN, total, hits, failed, offset>>
      /\ Len(seen) = Cardinality(source) \/ Enough
  BY DEF StopCollecting, collectorVars
<1>3. StopOK'
  BY <1>2 DEF StopOK, Enough, top_n
<1> QED
  BY <1>1, <1>2, <1>3, TopNSame

\* A queue that was full stays full.
LEMMA StopKept ==
  ASSUME Fed, Fed', StopOK, UNCHANGED <<opts, source, seen, then>>, failed => failed',
         failed' \/ (QueueOK /\ QueueOK'), Queued \subseteq Queued'
  PROVE  StopOK'
<1>1. SUFFICES ASSUME then = "finish", ~failed', ~failed, QueueOK, QueueOK', Len(topN) >= top_n PROVE Len(topN') >= top_n
  BY DEF StopOK, top_n
<1>2. /\ IsFiniteSet(Queued) /\ Cardinality(Queued) \in Nat /\ top_n \in Nat
      /\ IsFiniteSet(Queued') /\ Cardinality(Queued') \in Nat
  <2>1. IsFiniteSet(Queued) /\ Cardinality(Queued) \in Nat
    BY HandledFacts
  <2>2. IsFiniteSet(Queued') /\ Cardinality(Queued') \in Nat
    <3>1. Queued' \in SUBSET Docs
      <4>1. Purged' \in Nat /\ Purged' <= Len(seen') /\ Len(seen') \in Nat /\ \A i \in 1..Len(seen') : seen'[i][1] \in Docs
        <5>1. TotalLimit \in Nat
          BY CollectorAssumption
        <5>2. Len(seen') \in Nat /\ Len(buffer') \in Nat /\ collected' \in Nat
          BY DEF Fed, CollectorTypeOK
        <5>3. Purged' \in Nat /\ Purged' <= Len(seen')
          BY <5>1, <5>2 DEF Fed, FedInOrder, Purged
        <5>4. \A i \in 1..Len(seen') : seen'[i][1] \in Docs
          BY DEF Fed, CollectorTypeOK, Given
        <5> QED
          BY <5>2, <5>3, <5>4
      <4>2. \A i \in 1..Purged' : i \in 1..Len(seen')
        BY <4>1
      <4> QED
        BY <4>1, <4>2 DEF Queued, Handled
    <3>2. IsFiniteSet(Docs)
      BY CollectorAssumption
    <3> QED
      BY <3>1, <3>2, FS_Subset, FS_CardinalityType
  <2>3. top_n \in Nat
    BY FedFacts
  <2> QED
    BY <2>1, <2>2, <2>3
<1>3. Cardinality(Queued) <= Cardinality(Queued')
  BY <1>2, FS_Subset
<1>4. Len(topN) = (IF Cardinality(Queued) < top_n THEN Cardinality(Queued) ELSE top_n)
  BY <1>1 DEF QueueOK, Best
<1>5. Len(topN') = (IF Cardinality(Queued') < top_n THEN Cardinality(Queued') ELSE top_n)
  BY <1>1 DEF QueueOK, Best, top_n
<1> QED
  BY <1>1, <1>2, <1>3, <1>4, <1>5

\* Between purges no hit is left: everything handled is in the queue.
LEMMA NoHits ==
  ASSUME hits = <<>>
  PROVE  HitDocs = {} /\ Queued = Handled
<1>1. 1..Len(hits) = {}
  OBVIOUS
<1> QED
  BY <1>1 DEF HitDocs, Queued

\* Without a sorter the ids come in order, so a purge appends to the queue until it is full.
LEMMA TopNPurgeUnread ==
  ASSUME TopNInv, PurgeUnread
  PROVE  TopNInv'
<1>0. Fed /\ hits = <<>>
  BY DEF Fed, TopNInv, PurgeUnread, PhaseOK
<1>1. /\ UNCHANGED <<opts, view, source, seen, then, hits, collected, failed, offset>>
      /\ total' = total + Len(buffer) /\ ~opts.scoring /\ ~opts.filtered
  BY DEF PurgeUnread
<1>2. Fed' /\ Purged' = collected
  BY <1>0, FedPurgeUnread
<1>3. /\ Handled' = Handled \cup Added
      /\ Cardinality(Handled') = Cardinality(Handled) + Cardinality(Passing)
  BY <1>0, <1>1, <1>2, HandledPurge
<1>4. HitDocs = {} /\ Queued = Handled
  BY <1>0, NoHits
<1>5. HitDocs' = {} /\ Queued' = Handled'
  BY <1>1, <1>4 DEF HitDocs, Queued
<1>6. Cardinality(Passing) = Len(buffer)
  <2>1. Passing = 1..Len(buffer) /\ Len(buffer) \in Nat
    BY <1>0, <1>1, FedFacts DEF Passing, Passes
  <2> QED
    BY <2>1, CardinalityUpTo
<1>7. ~failed' => total' = Cardinality(Handled')
  BY <1>1, <1>3, <1>6 DEF TopNInv
<1>8. ASSUME ~failed PROVE QueueOK /\ QueueOK'
  <2>1. QueueOK
    BY <1>1, <1>8 DEF TopNInv
  <2>2. Best(topN, Handled, top_n)
    BY <1>4, <2>1 DEF QueueOK
  <2>3. Best(topN', Handled \cup Added, top_n)
    BY <1>0, <2>2, BestUnread
  <2>4. top_n' = top_n
    BY <1>1 DEF top_n
  <2>5. Best(topN', Queued', top_n')
    BY <1>3, <1>5, <2>3, <2>4
  <2>6. QueueOK'
    BY <1>1, <2>5 DEF QueueOK, Best, Before
  <2> QED
    BY <2>1, <2>6
<1>9. StopOK'
  <2>1. Queued \subseteq Queued' /\ (failed => failed') /\ (failed' \/ (QueueOK /\ QueueOK'))
    BY <1>1, <1>3, <1>4, <1>5, <1>8
  <2> QED
    BY <1>0, <1>1, <1>2, <2>1, StopKept DEF TopNInv
<1> QED
  BY <1>1, <1>2, <1>7, <1>8, <1>9 DEF TopNInv, Fed

\* The hits of a purge wait to be pushed: they are handled and not yet queued.
LEMMA TopNPurgeRead ==
  ASSUME TopNInv, PurgeRead
  PROVE  TopNInv'
<1>0. Fed /\ hits = <<>>
  BY DEF Fed, TopNInv, PurgeRead, PhaseOK
<1>1. /\ UNCHANGED <<opts, view, source, seen, then, collected>>
      /\ total' = total + Len(hits') /\ (failed => failed')
      /\ ~opts.scoring => UNCHANGED <<topN, offset>>
  <2>1. UNCHANGED <<opts, view, source, seen, then, collected>> /\ total' = total + Len(hits')
    BY DEF PurgeRead
  <2>2. failed => failed'
    BY DEF PurgeRead
  <2>3. ~opts.scoring => UNCHANGED <<topN, offset>>
    BY DEF PurgeRead
  <2> QED
    BY <2>1, <2>2, <2>3
<1>2. /\ Fed' /\ Purged' = collected
      /\ \E places \in SUBSET (1..Len(buffer)) :
           /\ hits' = Picked(buffer, places)
           /\ ~failed' => places = {k \in 1..Len(buffer) : Passes(buffer[k][1])}
  BY <1>0, FedPurgeRead
<1>3. /\ Handled' = Handled \cup Added /\ Handled \cap Added = {}
      /\ Cardinality(Handled') = Cardinality(Handled) + Cardinality(Passing)
  BY <1>0, <1>1, <1>2, HandledPurge
<1>4. HitDocs = {} /\ Queued = Handled
  BY <1>0, NoHits
<1>5. ASSUME ~failed' PROVE Len(hits') = Cardinality(Passing) /\ HitDocs' = Added
  <2>1. hits' = Picked(buffer, Passing) /\ Passing \in SUBSET (1..Len(buffer))
    BY <1>2, <1>5 DEF Passing
  <2>2. buffer \in Seq(Given)
    BY <1>0 DEF Fed, CollectorTypeOK
  <2>3. Picks(Picked(buffer, Passing), buffer, Passing)
    BY <2>1, <2>2, PickedMembers
  <2>4. Picks(hits', buffer, Passing)
    BY <2>1, <2>3
  <2>5. HitDocs' \subseteq Added
    <3>1. SUFFICES ASSUME NEW k \in 1..Len(hits') PROVE hits'[k][1] \in Added
      BY DEF HitDocs
    <3>2. PICK i \in Passing : hits'[k] = buffer[i]
      BY <2>4 DEF Picks
    <3> QED
      BY <3>2 DEF Added
  <2>6. Added \subseteq HitDocs'
    <3>1. SUFFICES ASSUME NEW i \in Passing PROVE buffer[i][1] \in HitDocs'
      BY DEF Added
    <3>2. PICK k \in 1..Len(hits') : hits'[k] = buffer[i]
      BY <2>4 DEF Picks
    <3> QED
      BY <3>2 DEF HitDocs
  <2> QED
    BY <2>4, <2>5, <2>6 DEF Picks
<1>6. ~failed' => total' = Cardinality(Handled')
  BY <1>1, <1>3, <1>5 DEF TopNInv
<1>7. ~failed' => Queued' = Queued
  BY <1>3, <1>4, <1>5 DEF Queued
<1>8. ASSUME ~failed', ~opts.scoring PROVE QueueOK /\ QueueOK'
  <2>1. QueueOK
    BY <1>1, <1>8 DEF TopNInv
  <2>2. QueueOK'
    BY <1>1, <1>7, <1>8, <2>1 DEF QueueOK, Best, Before, top_n
  <2> QED
    BY <2>1, <2>2
<1>9. ~opts.scoring => StopOK'
  BY <1>1 DEF TopNInv, StopOK, top_n
<1> QED
  BY <1>1, <1>2, <1>6, <1>8, <1>9 DEF TopNInv, Fed

\* A hit is inserted in order, and the last of a queue that grew too long is removed.
LEMMA TopNPushHit ==
  ASSUME TopNInv, PushHit
  PROVE  TopNInv'
<1>0. Fed
  BY DEF Fed, TopNInv
<1>1. /\ UNCHANGED <<opts, view, source, seen, then, buffer, collected, failed, total, offset>>
      /\ hits # <<>> /\ hits' = Tail(hits) /\ pc' = pc /\ pc = "push"
  BY DEF PushHit
<1> DEFINE x == hits[1][1]
<1>2. /\ Fed' /\ Purged' = Purged
      /\ HitDocs' = HitDocs \ {x} /\ x \in HitDocs
  BY <1>0, <1>1, FedTail
<1> HIDE DEF x
<1>3. Handled' = Handled
  BY <1>0, <1>1, <1>2, HandledSame
<1>4. /\ HitDocs \subseteq Handled /\ Handled \in SUBSET Docs
      /\ Queued \in SUBSET Docs /\ IsFiniteSet(Queued)
  BY <1>0, HandledFacts
<1>5. Queued' = Queued \cup {x} /\ x \notin Queued /\ x \in Docs
  BY <1>2, <1>3, <1>4 DEF Queued
<1>6. ASSUME ~failed, ~opts.scoring PROVE QueueOK /\ QueueOK'
  <2>1. QueueOK
    BY <1>6 DEF TopNInv
  <2> DEFINE At(i) == SubSeq(topN, 1, i) \o <<x>> \o SubSeq(topN, i + 1, Len(topN))
             Cut(q) == SubSeq(q, 1, IF Len(q) > top_n THEN top_n ELSE Len(q))
  <2>2. PICK j \in 0..Len(topN) :
          /\ topN' = Cut(At(j))
          /\ \A i \in 1..j : ~Before(x, topN[i])
          /\ \A i \in (j + 1)..Len(topN) : ~Before(topN[i], x)
    BY Zenon DEF PushHit, Inserted, x
  <2> DEFINE q == At(j)
  <2>3. topN' = Cut(q)
    BY <2>2
  <2>4. topN \in Seq(Docs)
    BY <1>4, <2>1 DEF QueueOK, Best
  <2>5. q \in Seq(Docs) /\ InsertedAt(q, topN, x, j)
    BY <1>5, <2>2, <2>4, InsertedIs
  <2> HIDE DEF q
  <2>6. OptsOK /\ ViewOK /\ top_n \in Nat
    BY <1>0, <1>1, FedFacts DEF Fed, CollectorTypeOK
  <2>7. Best(topN, Queued, top_n)
    BY <2>1 DEF QueueOK
  <2>8. Best(SubSeq(q, 1, IF Len(q) > top_n THEN top_n ELSE Len(q)), Queued \cup {x}, top_n)
    BY <1>4, <1>5, <2>2, <2>5, <2>6, <2>7, BestInserted
  <2>9. Best(topN', Queued', top_n)
    BY <1>5, <2>3, <2>8
  <2>10. QueueOK'
    BY <1>1, <2>9 DEF QueueOK, Best, Before, top_n
  <2> QED
    BY <2>1, <2>10
<1>7. ~opts.scoring => StopOK'
  <2>1. SUFFICES ASSUME ~opts.scoring PROVE StopOK'
    OBVIOUS
  <2>2. failed' \/ (QueueOK /\ QueueOK')
    BY <1>1, <1>6, <2>1
  <2>3. Queued \subseteq Queued' /\ (failed => failed') /\ StopOK
    BY <1>1, <1>5, <2>1 DEF TopNInv
  <2> QED
    BY <1>0, <1>1, <1>2, <2>2, <2>3, StopKept
<1> QED
  BY <1>1, <1>2, <1>3, <1>6, <1>7 DEF TopNInv, Fed

\* Steps of a query with scores: only the hits and the total count here.
LEMMA TopNScoring ==
  ASSUME TopNInv, Fed', opts.scoring, UNCHANGED <<opts, view, source, seen, total, failed>>, Purged' = Purged
  PROVE  TopNInv'
<1>0. Fed
  BY DEF Fed, TopNInv
<1>1. Handled' = Handled
  BY <1>0, HandledSame
<1> QED
  BY <1>1 DEF TopNInv, Fed

\* A query with scores does not use this queue.
LEMMA TopNScoreHit ==
  ASSUME TopNInv, ScoreHit
  PROVE  TopNInv'
<1>0. Fed /\ pc = "score" /\ opts.scoring /\ buffer = <<>>
  BY DEF Fed, TopNInv, ScoreHit, PhaseOK
<1>1. /\ UNCHANGED <<opts, view, source, seen, then, buffer, collected, total, failed>>
      /\ hits # <<>>
      /\ (pc' = "crashed" /\ hits' = hits) \/ (pc' = pc /\ hits' = Tail(hits))
  <2>1. UNCHANGED <<opts, view, source, seen, then, buffer, collected, total, failed>> /\ hits # <<>>
    BY DEF ScoreHit
  <2>2. (pc' = "crashed" /\ hits' = hits) \/ (pc' = pc /\ hits' = Tail(hits))
    BY Zenon DEF ScoreHit
  <2> QED
    BY <2>1, <2>2
<1>2. Fed' /\ Purged' = Purged
  <2>1. CASE pc' = "crashed" /\ hits' = hits
    <3>1. failed' \in BOOLEAN /\ then' \in {"collect", "finish"}
      BY <1>0, <1>1 DEF Fed, CollectorTypeOK
    <3> QED
      BY <1>0, <1>1, <2>1, <3>1, FedSame
  <2>2. CASE pc' = pc /\ hits' = Tail(hits)
    BY <1>0, <1>1, <2>2, FedTail
  <2> QED
    BY <1>1, <2>1, <2>2
<1> QED
  BY <1>0, <1>1, <1>2, TopNScoring

\* A purge ends when no hit waits, or drops those beyond the number of documents to score.
LEMMA TopNPurgeEnds ==
  ASSUME TopNInv, PurgeEnds
  PROVE  TopNInv'
<1>0. Fed
  BY DEF Fed, TopNInv
<1>1. /\ UNCHANGED <<opts, view, source, seen, then, buffer, topN, collected, offset, total, failed>>
      /\ hits' = <<>> /\ (hits = <<>> \/ pc = "drop")
  BY DEF PurgeEnds
<1>2. Fed' /\ Purged' = Purged
  BY <1>0, FedEnds
<1>3. CASE opts.scoring
  BY <1>1, <1>2, <1>3, TopNScoring
<1>4. CASE ~opts.scoring
  <2>1. hits = <<>>
    BY <1>0, <1>1, <1>4 DEF Fed, PhaseOK
  <2>2. StopOK'
    BY <1>1, <1>4 DEF TopNInv, StopOK, top_n
  <2> QED
    BY <1>1, <1>2, <2>1, <2>2, TopNSame
<1> QED
  BY <1>3, <1>4

\* Steps that change nothing but where the query is, and the scores.
LEMMA TopNReturn ==
  ASSUME TopNInv, FinishScores \/ HandOver
  PROVE  TopNInv'
<1>0. Fed
  BY DEF Fed, TopNInv
<1>1. /\ UNCHANGED <<opts, view, source, seen, then, buffer, hits, collected, total, failed>>
      /\ ~opts.scoring => UNCHANGED <<topN, offset>>
      /\ (pc = "finish" /\ pc' = "return") \/ (pc = "return" /\ pc' = "done")
  BY Zenon DEF FinishScores, HandOver, collectorVars
<1>2. hits = <<>> /\ buffer = <<>> /\ then = "finish" /\ failed \in BOOLEAN
  BY <1>0, <1>1 DEF Fed, PhaseOK, CollectorTypeOK
<1>3. Fed' /\ Purged' = Purged /\ seen' = seen
  BY <1>0, <1>1, <1>2, FedSame
<1>4. CASE opts.scoring
  BY <1>1, <1>3, <1>4, TopNScoring
<1>5. CASE ~opts.scoring
  <2>1. UNCHANGED <<topN, offset>>
    BY <1>1, <1>5
  <2>2. StopOK'
    BY <1>1, <1>5, <2>1 DEF TopNInv, StopOK, top_n
  <2> QED
    BY <1>1, <1>3, <2>1, <2>2, TopNSame
<1> QED
  BY <1>4, <1>5

vars == <<opts, view, source, pc, then, collectorVars>>

\* A step that changes nothing keeps the invariant,
LEMMA TopNStutter ==
  ASSUME TopNInv, UNCHANGED vars
  PROVE  TopNInv'
<1>0. Fed
  BY DEF Fed, TopNInv
<1>1. UNCHANGED <<opts, view, source, pc, then, seen, buffer, hits, topN, scored, collected, scoredDocs, offset, total, failed>>
  BY DEF vars, collectorVars
<1>2. Purged' = Purged
  BY <1>1 DEF Purged
<1>3. CollectorTypeOK' /\ FedInOrder' /\ PhaseOK'
  <2>1. CollectorTypeOK'
    BY <1>0, <1>1 DEF Fed, CollectorTypeOK, OptsOK, ViewOK
  <2>2. FedInOrder'
    BY <1>0, <1>1, <1>2 DEF Fed, FedInOrder
  <2>3. PhaseOK'
    BY <1>0, <1>1 DEF Fed, PhaseOK
  <2> QED
    BY <2>1, <2>2, <2>3
<1>4. HitsOK'
  BY <1>0, <1>1, <1>2 DEF Fed, HitsOK, Passes
<1>5. Fed'
  BY <1>3, <1>4 DEF Fed
<1>6. ~opts.scoring => StopOK'
  BY <1>1 DEF TopNInv, StopOK, top_n
<1>7. \A i \in 1..Purged : seen'[i] = seen[i]
  BY <1>1
<1> QED
  BY <1>1, <1>2, <1>5, <1>6, <1>7, TopNSame

\* which holds of a new collector,
LEMMA TopNInit ==
  ASSUME OptsOK, CollectorInit, pc = "start", then = "collect"
  PROVE  TopNInv
<1>1. /\ seen = <<>> /\ buffer = <<>> /\ hits = <<>> /\ topN = <<>> /\ scored = <<>> /\ source = {}
      /\ collected = 0 /\ scoredDocs = 0 /\ total = 0 /\ offset = opts.offset /\ ~failed
      /\ failed \in BOOLEAN
  BY DEF CollectorInit
<1>2. Len(seen) = 0 /\ Len(buffer) = 0 /\ 1..Len(hits) = {} /\ 1..Len(seen) = {} /\ 1..Len(buffer) = {}
  BY <1>1
<1>3. Cardinality({}) = 0
  BY FS_EmptySet
<1>4. Purged = 0
  <2>0. collected = 0 /\ Len(buffer) = 0
    BY <1>1, <1>2
  <2>1. collected - Len(buffer) = 0
    BY ONLY <2>0
  <2> QED
    BY <2>1 DEF Purged
<1>5. 1..Purged = {} /\ Handled = {} /\ Queued = {}
  <2>1. 1..Purged = {}
    BY <1>4
  <2> QED
    BY <2>1 DEF Handled, Queued
<1>6. CollectorTypeOK
  BY <1>1 DEF CollectorTypeOK
<1>7. FedInOrder
  BY <1>1, <1>2, <1>3, CollectorAssumption DEF FedInOrder
<1>8. HitsOK /\ PhaseOK /\ StopOK
  BY <1>1, <1>2 DEF HitsOK, PhaseOK, StopOK
<1>9. QueueOK
  <2>1. top_n \in Nat
    BY DEF OptsOK, top_n
  <2> QED
    BY <1>1, <1>3, <1>5, <2>1 DEF QueueOK, Best
<1> QED
  BY <1>1, <1>3, <1>5, <1>6, <1>7, <1>8, <1>9 DEF TopNInv

(***************************************************************************)
(* What the invariant says at the end.                                     *)
(***************************************************************************)
\* In a descending sequence, the place of a member tells how many are greater.
LEMMA DescendingRank ==
  ASSUME NEW S \in SUBSET Nat, IsFiniteSet(S), NEW s, DescendingOf(s, S), NEW i \in 1..Len(s)
  PROVE  Cardinality({e \in S : e > s[i]}) = i - 1
<1> DEFINE P == 1..(i - 1)
           G == {e \in S : e > s[i]}
<1>1. /\ Len(s) \in Nat /\ \A k \in 1..Len(s) : s[k] \in S /\ s[k] \in Nat
      /\ \A k, l \in 1..Len(s) : k < l => s[k] > s[l]
      /\ \A x \in S : \E k \in 1..Len(s) : s[k] = x
  <2>1. /\ s \in Seq(S)
        /\ \A k, l \in 1..Len(s) : k < l => s[k] > s[l]
        /\ \A x \in S : \E k \in 1..Len(s) : s[k] = x
    BY DEF DescendingOf
  <2>2. Len(s) \in Nat /\ \A k \in 1..Len(s) : s[k] \in S
    BY <2>1
  <2> QED
    BY <2>1, <2>2
<1>2. i - 1 \in Nat /\ P \in SUBSET (1..Len(s)) /\ \A k \in P : k < i
  BY <1>1
<1>3. Cardinality(P) = i - 1
  BY <1>2, CardinalityUpTo
<1>4. \A k, l \in 1..Len(s) : k < l => s[k] # s[l]
  BY <1>1
<1>5. \A k \in P : s[k] \in G
  BY <1>1, <1>2
<1>6. ASSUME NEW e \in G PROVE \E k \in P : s[k] = e
  <2>1. PICK k \in 1..Len(s) : s[k] = e
    BY <1>1
  <2>2. s[k] > s[i] /\ s[k] \in Nat /\ s[i] \in Nat
    BY <1>1, <2>1
  <2>3. ~(i < k) /\ k # i
    BY <1>1, <2>2
  <2>4. k \in P
    BY <1>1, <2>3
  <2> QED
    BY <2>1, <2>4
<1> HIDE DEF P, G
<1>7. MembersAt(s, P) = G
  BY <1>5, <1>6 DEF MembersAt
<1>8. Cardinality(MembersAt(s, P)) = Cardinality(P)
  BY <1>1, <1>2, <1>4, CardinalityPlaces
<1> QED
  BY <1>3, <1>7, <1>8 DEF G

\* The documents examined are the first of those the query selects.
LEMMA ExaminedPlaces ==
  ASSUME Fed
  PROVE  /\ \A i \in 1..Cardinality(source) : Descending(source)[i] \in Examined <=> i <= TotalLimit + 1
         /\ \A d \in Examined : \E i \in 1..Cardinality(source) : Descending(source)[i] = d
         /\ Examined \in SUBSET Docs /\ IsFiniteSet(Examined)
<1> DEFINE D == Descending(source)
<1>1. /\ IsFiniteSet(source) /\ Cardinality(source) \in Nat /\ source \in SUBSET Nat
      /\ DescendingOf(D, source)
  BY FedFacts
<1>2. source \in SUBSET Docs /\ IsFiniteSet(Docs) /\ TotalLimit \in Nat
  BY CollectorAssumption DEF Fed, CollectorTypeOK
<1>3. Len(D) = Cardinality(source) /\ \A i \in 1..Len(D) : D[i] \in source
  BY <1>1 DEF DescendingOf
<1>4. ASSUME NEW i \in 1..Cardinality(source) PROVE D[i] \in Examined <=> i <= TotalLimit + 1
  <2>1. i \in 1..Len(D) /\ D[i] \in source
    BY <1>3
  <2> HIDE DEF D
  <2>2. Cardinality({e \in source : e > D[i]}) = i - 1
    BY <1>1, <2>1, DescendingRank
  <2>3. D[i] \in Examined <=> Cardinality({e \in source : e > D[i]}) <= TotalLimit
    BY <2>1 DEF Examined
  <2>4. i - 1 <= TotalLimit <=> i <= TotalLimit + 1
    BY <1>1, <1>2
  <2> QED
    BY <2>2, <2>3, <2>4
<1>5. ASSUME NEW d \in Examined PROVE \E i \in 1..Cardinality(source) : D[i] = d
  <2>1. d \in source
    BY DEF Examined
  <2> QED
    BY <1>1, <1>3, <2>1 DEF DescendingOf
<1>6. Examined \in SUBSET Docs
  BY <1>2 DEF Examined
<1> QED
  BY <1>2, <1>4, <1>5, <1>6, FS_Subset

\* At the end of the loop what was handled is what matches, unless the queue was full
\* and no total was wanted: then what was not handled is worse than what was.
LEMMA HandledMatching ==
  ASSUME Fed, buffer = <<>>
  PROVE  /\ Handled \subseteq Matching /\ Matching \in SUBSET Docs /\ IsFiniteSet(Matching)
         /\ Len(seen) = Cardinality(source) => Handled = Matching
         /\ \A d \in Matching \ Handled, e \in Handled : e > d
<1>1. /\ Len(seen) \in Nat /\ Purged \in Nat /\ Cardinality(source) \in Nat /\ collected \in Nat
      /\ Purged = collected /\ collected <= Len(seen) /\ Len(seen) <= Cardinality(source)
      /\ collected = IF Len(seen) <= TotalLimit THEN Len(seen) ELSE TotalLimit + 1
      /\ TotalLimit \in Nat
  <2>1. collected \in Nat
    BY DEF Fed, CollectorTypeOK
  <2>2. Len(seen) <= Cardinality(source)
    BY DEF Fed, FedInOrder
  <2>3. collected = IF Len(seen) <= TotalLimit THEN Len(seen) ELSE TotalLimit + 1
    BY DEF Fed, FedInOrder
  <2>4. Len(buffer) = 0
    OBVIOUS
  <2>5. TotalLimit \in Nat
    BY CollectorAssumption
  <2>6. Len(seen) \in Nat /\ Purged \in Nat /\ Cardinality(source) \in Nat /\ collected <= Len(seen) /\ Purged + Len(buffer) = collected
    BY FedFacts
  <2>7. Purged = collected
    BY ONLY <2>1, <2>4, <2>6
  <2> QED
    BY <2>1, <2>2, <2>3, <2>5, <2>6, <2>7
<1>2. \A i \in 1..Len(seen) : seen[i][1] = Descending(source)[i]
  BY DEF Fed, FedInOrder
<1>3. \A i \in 1..Purged : i \in 1..Len(seen) /\ i \in 1..Cardinality(source) /\ i <= TotalLimit + 1
  BY ONLY <1>1
<1>4. ASSUME NEW d \in Handled PROVE d \in Matching
  <2>1. PICK i \in 1..Purged : seen[i][1] = d
    BY HandledFacts
  <2>2. d \in Examined
    BY <1>2, <1>3, <2>1, ExaminedPlaces
  <2> QED
    BY <2>2, HandledFacts DEF Matching
<1>5. ASSUME NEW d \in Matching, d \notin Handled
      PROVE  \E i \in 1..Cardinality(source) : Descending(source)[i] = d /\ i > collected /\ i <= TotalLimit + 1
  <2>1. d \in Examined /\ Passes(d)
    BY DEF Matching
  <2>2. PICK i \in 1..Cardinality(source) : Descending(source)[i] = d
    BY <2>1, ExaminedPlaces
  <2>3. i <= TotalLimit + 1
    BY <2>1, <2>2, ExaminedPlaces
  <2>4. i > collected
    <3>1. SUFFICES ASSUME ~(i > collected) PROVE FALSE
      OBVIOUS
    <3>2. i \in 1..Purged
      BY <1>1, <3>1
    <3>3. seen[i][1] = d
      BY <1>2, <1>3, <2>2, <3>2
    <3> QED
      BY <1>5, <2>1, <3>2, <3>3 DEF Handled
  <2> QED
    BY <2>2, <2>3, <2>4
<1>6. ASSUME Len(seen) = Cardinality(source) PROVE Handled = Matching
  <2>1. ASSUME NEW d \in Matching, d \notin Handled PROVE FALSE
    <3>1. PICK i \in 1..Cardinality(source) : i > collected /\ i <= TotalLimit + 1
      BY <1>5, <2>1
    <3> QED
      BY <1>1, <1>6, <3>1
  <2> QED
    BY <1>4, <2>1
<1>7. ASSUME NEW d \in Matching \ Handled, NEW e \in Handled PROVE e > d
  <2>1. PICK i \in 1..Cardinality(source) : Descending(source)[i] = d /\ i > collected
    BY <1>5
  <2>2. PICK j \in 1..Purged : seen[j][1] = e
    BY HandledFacts
  <2>3. j \in 1..Cardinality(source) /\ Descending(source)[j] = e /\ j < i
    BY <1>1, <1>2, <1>3, <2>1, <2>2
  <2>4. DescendingOf(Descending(source), source)
    BY FedFacts
  <2> QED
    BY <2>1, <2>3, <2>4 DEF DescendingOf
<1>8. Matching \in SUBSET Docs /\ IsFiniteSet(Matching)
  <2>1. Matching \subseteq Examined
    BY DEF Matching
  <2> QED
    BY <2>1, ExaminedPlaces, FS_Subset
<1> QED
  BY <1>4, <1>6, <1>7, <1>8

\* So the queue holds the best of what matches.
LEMMA BestMatching ==
  ASSUME TopNInv, pc = "return", ~failed, ~opts.scoring
  PROVE  /\ Best(topN, Matching, top_n)
         /\ opts.wantTotal => total = Cardinality(Matching)
<1>0. Fed /\ buffer = <<>> /\ hits = <<>> /\ then = "finish"
  BY DEF Fed, TopNInv, PhaseOK
<1>1. Queued = Handled
  BY <1>0, NoHits
<1>2. Best(topN, Handled, top_n) /\ total = Cardinality(Handled) /\ StopOK
  BY <1>1 DEF TopNInv, QueueOK
<1>3. /\ Handled \subseteq Matching /\ Matching \in SUBSET Docs /\ IsFiniteSet(Matching)
      /\ Len(seen) = Cardinality(source) => Handled = Matching
      /\ \A d \in Matching \ Handled, e \in Handled : e > d
  BY <1>0, HandledMatching
<1>4. CASE Len(seen) = Cardinality(source)
  BY <1>2, <1>3, <1>4
<1>5. CASE ~opts.sorted /\ Len(topN) >= top_n /\ ~opts.wantTotal
  <2>1. /\ topN \in Seq(Handled) /\ \A i \in 1..Len(topN) : topN[i] \in Handled
        /\ Len(topN) = IF Cardinality(Handled) < top_n THEN Cardinality(Handled) ELSE top_n
        /\ \A i, j \in 1..Len(topN) : i < j => topN[i] # topN[j] /\ ~Before(topN[j], topN[i])
        /\ \A d \in Handled : (\A i \in 1..Len(topN) : topN[i] # d) => \A i \in 1..Len(topN) : ~Before(d, topN[i])
    BY <1>2 DEF Best
  <2>2. Len(topN) = IF Cardinality(Matching) < top_n THEN Cardinality(Matching) ELSE top_n
    <3>1. Cardinality(Handled) <= Cardinality(Matching) /\ Cardinality(Handled) \in Nat /\ Cardinality(Matching) \in Nat
      BY <1>3, FS_Subset, FS_CardinalityType
    <3>2. top_n \in Nat
      BY <1>0, FedFacts
    <3> QED
      BY <1>5, <2>1, <3>1, <3>2
  <2>3. \A d, e \in Docs : Before(d, e) <=> d > e
    BY <1>0, <1>5, BeforeOrders DEF Fed, CollectorTypeOK
  <2>4. ASSUME NEW d \in Matching \ Handled, NEW i \in 1..Len(topN) PROVE ~Before(d, topN[i])
    <3>1. topN[i] > d /\ topN[i] \in Docs /\ d \in Docs
      BY <1>3, <2>1
    <3>0. d \in Nat /\ topN[i] \in Nat
      BY <3>1, CollectorAssumption
    <3>2. ~(d > topN[i])
      BY ONLY <3>0, <3>1
    <3> QED
      BY <2>3, <3>1, <3>2
  <2>5. topN \in Seq(Matching)
    BY <1>3, <2>1
  <2>6. \A d \in Matching : (\A i \in 1..Len(topN) : topN[i] # d) => \A i \in 1..Len(topN) : ~Before(d, topN[i])
    BY <2>1, <2>4
  <2> QED
    BY <1>5, <2>1, <2>2, <2>5, <2>6 DEF Best
<1> QED
  BY <1>0, <1>2, <1>4, <1>5 DEF StopOK

\* Before a place of what is handed over there are places.
LEMMA PartOfMatchDocs ==
  ASSUME topN \in Seq(Docs), offset \in Nat, NEW k \in DOMAIN MatchDocs, NEW j \in 1..(k - 1)
  PROVE  j \in DOMAIN MatchDocs
<1>1. Len(topN) \in Nat
  OBVIOUS
<1>2. MatchDocs \in Seq(Docs)
  <2>1. offset + 1 \in Int /\ Len(topN) \in Int /\ \A i \in (offset + 1)..Len(topN) : topN[i] \in Docs
    BY <1>1
  <2>2. SubSeq(topN, offset + 1, Len(topN)) \in Seq(Docs)
    BY <2>1, SubSeqProperties
  <2> QED
    BY <2>2 DEF MatchDocs
<1>3. DOMAIN MatchDocs = 1..Len(MatchDocs) /\ Len(MatchDocs) \in Nat
  BY <1>2
<1> QED
  BY <1>3

\* The queue without its first offset members is the slice that was asked for.
LEMMA BestSlice ==
  ASSUME OptsOK, ViewOK, NEW M \in SUBSET Docs, IsFiniteSet(M), Best(topN, M, top_n), offset = opts.offset
  PROVE  LET rest == Cardinality(M) - opts.offset
         IN /\ Len(MatchDocs) = IF rest < 0 THEN 0 ELSE IF rest < opts.limit THEN rest ELSE opts.limit
            /\ \A k \in DOMAIN MatchDocs :
                 /\ MatchDocs[k] \in M
                 /\ Cardinality({d \in M : Before(d, MatchDocs[k])}) < opts.offset + k
                 /\ Cardinality({d \in M : ~Before(MatchDocs[k], d)}) >= opts.offset + k
                 /\ \A j \in 1..(k - 1) : MatchDocs[j] # MatchDocs[k] /\ ~Before(MatchDocs[k], MatchDocs[j])
<1> DEFINE n == Len(topN)
           o == opts.offset
           docs == MatchDocs
           rest == Cardinality(M) - opts.offset
<1>1. /\ topN \in Seq(M) /\ n \in Nat /\ \A i \in 1..n : topN[i] \in M
      /\ n = IF Cardinality(M) < top_n THEN Cardinality(M) ELSE top_n
      /\ \A i, j \in 1..n : i < j => topN[i] # topN[j] /\ ~Before(topN[j], topN[i])
      /\ \A d \in M : (\A i \in 1..n : topN[i] # d) => \A i \in 1..n : ~Before(d, topN[i])
  BY DEF Best
<1>2. o \in Nat /\ opts.limit \in Nat /\ top_n = o + opts.limit /\ Cardinality(M) \in Nat
  BY FS_CardinalityType DEF OptsOK, top_n
<1>3. /\ docs \in Seq(M) /\ Len(docs) = (IF o + 1 <= n THEN n - (o + 1) + 1 ELSE 0)
      /\ \A k \in 1..(n - (o + 1) + 1) : docs[k] = topN[o + 1 + k - 1]
  <2>1. o + 1 \in Int /\ n \in Int /\ \A i \in (o + 1)..n : topN[i] \in M
    BY <1>1, <1>2
  <2>2. docs = SubSeq(topN, o + 1, n)
    BY DEF MatchDocs
  <2> HIDE DEF docs, o, n
  <2> QED
    BY <2>1, <2>2, SubSeqProperties
<1> HIDE DEF docs
<1>4. Len(docs) = IF rest < 0 THEN 0 ELSE IF rest < opts.limit THEN rest ELSE opts.limit
  <2> DEFINE c == Cardinality(M)
             l == opts.limit
  <2>1. n \in Nat /\ o \in Nat /\ l \in Nat /\ c \in Nat /\ n = IF c < o + l THEN c ELSE o + l
    BY <1>1, <1>2
  <2>2. Len(docs) = IF o + 1 <= n THEN n - (o + 1) + 1 ELSE 0
    BY <1>3
  <2> HIDE DEF c, l, n, o
  <2>3. Len(docs) = IF c - o < 0 THEN 0 ELSE IF c - o < l THEN c - o ELSE l
    BY ONLY <2>1, <2>2
  <2> QED
    BY <2>3 DEF c, l, o
<1>5. DOMAIN docs = 1..Len(docs) /\ Len(docs) \in Nat
  BY <1>3
<1>6. ASSUME NEW k \in DOMAIN docs PROVE o + k \in 1..n /\ k \in Nat /\ docs[k] = topN[o + k] /\ docs[k] \in M
  <2>1. k \in 1..Len(docs) /\ Len(docs) = (IF o + 1 <= n THEN n - (o + 1) + 1 ELSE 0)
    BY <1>3, <1>5
  <2>2. k \in Nat /\ k \in 1..(n - (o + 1) + 1) /\ o + 1 + k - 1 = o + k /\ o + k \in 1..n
    <3>1. n \in Nat /\ o \in Nat
      BY <1>1, <1>2
    <3> HIDE DEF n, o
    <3> QED
      BY ONLY <2>1, <3>1
  <2> HIDE DEF n
  <2> QED
    BY <1>1, <1>3, <2>2
<1>7. /\ \A d \in Docs : ~Before(d, d)
  BY BeforeOrders
<1>8. ASSUME NEW i \in 1..n
      PROVE  /\ Cardinality({d \in M : Before(d, topN[i])}) < i
             /\ Cardinality({d \in M : ~Before(topN[i], d)}) >= i
  <2> DEFINE P == 1..(i - 1)
             Q == 1..i
             X == {d \in M : Before(d, topN[i])}
             Y == {d \in M : ~Before(topN[i], d)}
  <2>1. /\ i \in Nat /\ i - 1 \in Nat /\ P \in SUBSET (1..n) /\ Q \in SUBSET (1..n)
        /\ Cardinality(P) = i - 1 /\ Cardinality(Q) = i
    <3>1. i \in Nat /\ i - 1 \in Nat /\ P \in SUBSET (1..n) /\ Q \in SUBSET (1..n)
      BY <1>1
    <3> QED
      BY <3>1, CardinalityUpTo
  <2>2. topN[i] \in M /\ ~Before(topN[i], topN[i])
    BY <1>1, <1>7
  <2>3. ASSUME NEW d \in X PROVE \E j \in P : topN[j] = d
    <3>1. PICK j \in 1..n : topN[j] = d
      BY <1>1
    <3>2. ~(i < j) /\ i # j
      BY <1>1, <2>2, <3>1
    <3>3. j \in P
      BY <1>1, <3>2
    <3> QED
      BY <3>1, <3>3
  <2>4. ASSUME NEW j \in Q PROVE topN[j] \in Y
    <3>1. j \in 1..n /\ (j < i \/ j = i)
      BY <1>1
    <3> QED
      BY <1>1, <2>2, <3>1
  <2> HIDE DEF P, Q, X, Y
  <2>5. X \subseteq MembersAt(topN, P) /\ MembersAt(topN, Q) \subseteq Y
    BY <2>3, <2>4 DEF MembersAt
  <2>6. \A k, l \in 1..n : k < l => topN[k] # topN[l]
    BY <1>1
  <2>7. /\ IsFiniteSet(MembersAt(topN, P)) /\ Cardinality(MembersAt(topN, P)) = i - 1
        /\ Cardinality(MembersAt(topN, Q)) = i
    BY <1>1, <2>1, <2>6, CardinalityPlaces
  <2>8. Y \subseteq M
    BY DEF Y
  <2>9. IsFiniteSet(Y) /\ Cardinality(Y) \in Nat
    BY <2>8, FS_Subset, FS_CardinalityType
  <2>10. Cardinality(X) <= i - 1 /\ Cardinality(X) \in Nat
    BY <2>5, <2>7, FS_Subset, FS_CardinalityType
  <2>11. i <= Cardinality(Y)
    BY <2>5, <2>7, <2>9, FS_Subset
  <2>12. Cardinality(X) < i /\ Cardinality(Y) >= i
    BY <2>1, <2>9, <2>10, <2>11
  <2> QED
    BY <2>12 DEF X, Y
<1>9. ASSUME NEW k \in DOMAIN docs
      PROVE  /\ docs[k] \in M
             /\ Cardinality({d \in M : Before(d, docs[k])}) < opts.offset + k
             /\ Cardinality({d \in M : ~Before(docs[k], d)}) >= opts.offset + k
             /\ \A j \in 1..(k - 1) : docs[j] # docs[k] /\ ~Before(docs[k], docs[j])
  <2>1. o + k \in 1..n /\ k \in Nat /\ docs[k] = topN[o + k] /\ docs[k] \in M
    BY <1>6
  <2>2. Cardinality({d \in M : Before(d, docs[k])}) < o + k /\ Cardinality({d \in M : ~Before(docs[k], d)}) >= o + k
    <3> HIDE DEF o, n
    <3> QED
      BY <1>8, <2>1
  <2>3. ASSUME NEW j \in 1..(k - 1) PROVE docs[j] # docs[k] /\ ~Before(docs[k], docs[j])
    <3>1. j \in DOMAIN docs /\ j < k
      BY <1>5, <2>1
    <3>2. o + j \in 1..n /\ docs[j] = topN[o + j] /\ o + j < o + k
      BY <1>2, <1>6, <2>1, <3>1
    <3> QED
      BY <1>1, <2>1, <3>2
  <2> QED
    BY <2>1, <2>2, <2>3
<1> QED
  BY <1>4, <1>9 DEF docs

\* says at the end of a query that its slice is right,
LEMMA TopNHolds ==
  ASSUME TopNInv
  PROVE  TopNCorrect
<1>1. SUFFICES ASSUME pc = "return", ~failed, ~opts.scoring PROVE TopNCorrect
  BY DEF TopNCorrect
<1>2. Fed /\ OptsOK /\ ViewOK /\ offset = opts.offset /\ buffer = <<>>
  BY <1>1 DEF TopNInv, Fed, CollectorTypeOK, PhaseOK
<1>3. Best(topN, Matching, top_n) /\ (opts.wantTotal => total = Cardinality(Matching))
  BY <1>1, BestMatching
<1>4. Matching \in SUBSET Docs /\ IsFiniteSet(Matching)
  BY <1>2, HandledMatching
<1> DEFINE M == Matching
           rest == Cardinality(M) - opts.offset
<1>5. /\ Len(MatchDocs) = IF rest < 0 THEN 0 ELSE IF rest < opts.limit THEN rest ELSE opts.limit
      /\ \A k \in DOMAIN MatchDocs :
           /\ MatchDocs[k] \in M
           /\ Cardinality({d \in M : Before(d, MatchDocs[k])}) < opts.offset + k
           /\ Cardinality({d \in M : ~Before(MatchDocs[k], d)}) >= opts.offset + k
           /\ \A j \in 1..(k - 1) : MatchDocs[j] # MatchDocs[k] /\ ~Before(MatchDocs[k], MatchDocs[j])
  BY <1>2, <1>3, <1>4, BestSlice
<1>6. {d \in Examined : Passes(d)} = M
  BY DEF Matching
<1> HIDE DEF M
<1>7. ASSUME NEW k \in DOMAIN MatchDocs
      PROVE  /\ {d \in M : Before(d, MatchDocs[k])} = {d \in M : Precedes(d, MatchDocs[k])}
             /\ {d \in M : ~Before(MatchDocs[k], d)} = {d \in M : ~Precedes(MatchDocs[k], d)}
             /\ \A j \in 1..(k - 1) : Before(MatchDocs[k], MatchDocs[j]) <=> Precedes(MatchDocs[k], MatchDocs[j])
  <2>1. M \in SUBSET Docs /\ MatchDocs[k] \in M
    BY <1>4, <1>5 DEF M
  <2>2. \A d \in M : (Before(d, MatchDocs[k]) <=> Precedes(d, MatchDocs[k])) /\ (Before(MatchDocs[k], d) <=> Precedes(MatchDocs[k], d))
    BY <1>2, <2>1, BeforeIs
  <2>3. ASSUME NEW j \in 1..(k - 1) PROVE MatchDocs[j] \in M
    <3>1. topN \in Seq(Docs) /\ offset \in Nat
      BY <1>2, <1>3, <1>4 DEF Best, OptsOK
    <3>2. j \in DOMAIN MatchDocs
      BY <3>1, PartOfMatchDocs
    <3> QED
      BY <1>5, <3>2 DEF M
  <2> QED
    BY <2>2, <2>3
<1> QED
  BY <1>3, <1>5, <1>6, <1>7 DEF TopNCorrect, M

\* and is kept by every step.
LEMMA TopNNext ==
  ASSUME TopNInv, [CollectorNext]_vars
  PROVE  TopNInv'
<1>1. CASE Prepare
  BY <1>1, TopNPrepare
<1>2. CASE CollectNextOf
  BY <1>2, TopNCollect
<1>3. CASE StopCollecting(Len(seen) = Cardinality(source))
  BY <1>3, TopNStop
<1>4. CASE PurgeUnread
  BY <1>4, TopNPurgeUnread
<1>5. CASE PurgeRead
  BY <1>5, TopNPurgeRead
<1>6. CASE PushHit
  BY <1>6, TopNPushHit
<1>7. CASE ScoreHit
  BY <1>7, TopNScoreHit
<1>8. CASE PurgeEnds
  BY <1>8, TopNPurgeEnds
<1>9. CASE FinishScores \/ HandOver
  BY <1>9, TopNReturn
<1>10. CASE UNCHANGED vars
  BY <1>10, TopNStutter
<1> QED
  BY <1>1, <1>2, <1>3, <1>4, <1>5, <1>6, <1>7, <1>8, <1>9, <1>10 DEF CollectorNext, CollectorStep

\* The buffer holds the end of what was given and the queue the best of the documents
\* taken from it, whatever the sizes of the batches and whichever reads fail.
THEOREM CollectorInvariant == CollectorSpec => []TopNInv
<1>1. OptsOK /\ CollectorInit /\ pc = "start" /\ then = "collect" => TopNInv
  BY TopNInit
<1>2. TopNInv /\ [CollectorNext]_vars => TopNInv'
  BY TopNNext
<1> QED
  BY <1>1, <1>2, PTL DEF CollectorSpec, vars

\* DoQuery hands over exactly the slice [offset, offset + limit) of the documents that
\* match, in the order of the sort conditions, for every number of documents, every
\* batch size and every limit.
THEOREM TopNsCorrect == CollectorSpec => []TopNCorrect
<1>1. TopNInv => TopNCorrect
  BY TopNHolds
<1> QED
  BY <1>1, CollectorInvariant, PTL

(***************************************************************************)
(* Queries with scores.                                                    *)
(***************************************************************************)
\* The score of each document.
Scores == [d \in Docs |-> Score(d, MatchField(d))]

\* The score n of a document d that was taken from the buffer.
ScoredAs(d, n) == \E i \in 1..Purged : seen[i][1] = d /\ n = Score(seen[i][1], seen[i][2])

\* The queue of scores holds every document pushed so far, the best first.
ScoresOK ==
  /\ scored \in Seq(Docs \X Nat)
  /\ \A k \in 1..Len(scored) : scored[k][1] \in Queued /\ ScoredAs(scored[k][1], scored[k][2])
  /\ \A d \in Queued : \E k \in 1..Len(scored) : scored[k][1] = d
  /\ \A i, j \in 1..Len(scored) : i < j => scored[i][1] # scored[j][1] /\ scored[i][2] >= scored[j][2]

\* docs has the scores f in places o to o + l of the documents of M,
Slice(docs, M, f, o, l) ==
  /\ DOMAIN docs = 1..Len(docs) /\ Len(docs) \in Nat
  /\ Len(docs) = IF Cardinality(M) - o < 0 THEN 0 ELSE IF Cardinality(M) - o < l THEN Cardinality(M) - o ELSE l
  /\ \A k \in DOMAIN docs :
       /\ docs[k] \in M
       /\ Cardinality({d \in M : f[d] > f[docs[k]]}) < o + l
       /\ Cardinality({d \in M : f[d] >= f[docs[k]]}) > o
       /\ \A j \in 1..(k - 1) : docs[j] # docs[k]

\* and comes in the order of the sorter.
Ordered(docs) == \A k \in DOMAIN docs : \A j \in 1..(k - 1) : ~Before(docs[k], docs[j])

\* While the number of documents to score is not exceeded.
AllScored == opts.scoring /\ ~opts.faults /\ Cardinality(Matching) <= max_score_doc_num

ScoresKept ==
  /\ topN = <<>> /\ offset = opts.offset /\ scoredDocs = Cardinality(Handled)
  /\ ScoresOK
  /\ pc # "drop" /\ (pc = "push" => hits = <<>>)

ScoredRest ==
  /\ pc \in {"start", "weigh"} => ~failed
  /\ AllScored =>
       /\ ~failed
       /\ then = "finish" => Len(seen) = Cardinality(source) \/ top_n = 0
       /\ pc \notin {"return", "done"} => ScoresKept
       /\ pc = "return" => Slice(MatchDocs, Matching, Scores, opts.offset, opts.limit) /\ Ordered(MatchDocs)

ScoredInv == TopNInv /\ ScoredRest

\* A sequence has finitely many members.
LEMMA ImageFinite ==
  ASSUME NEW n \in Nat, NEW s
  PROVE  IsFiniteSet({s[i] : i \in 1..n})
<1> DEFINE T == {s[i] : i \in 1..n}
           g == [i \in 1..n |-> s[i]]
<1>1. IsFiniteSet(1..n)
  BY CardinalityUpTo
<1>2. g \in Surjection(1..n, T)
  BY DEF Surjection
<1> HIDE DEF g
<1>3. IsFiniteSet(T)
  BY <1>1, <1>2, FS_Surjection
<1> QED
  BY <1>3

\* A score is a number.
LEMMA ScoreType ==
  ASSUME ViewOK, NEW d \in Docs, NEW field \in FieldIDs
  PROVE  Score(d, field) \in Nat
<1> DEFINE str == view[d].fields[field].str
           terms == {str[i] : i \in DOMAIN str}
           n == Cardinality(terms)
           w == Weight * TermsSize
           a == IF Finds(str, Pattern) THEN Weight ELSE 0
           b == IF terms # {} THEN w \div n ELSE 0
<1>1. str \in Seq(Nat)
  BY DEF ViewOK, Field
<1> HIDE DEF str
<1>2. Len(str) \in Nat /\ DOMAIN str = 1..Len(str)
  BY <1>1
<1>3. IsFiniteSet(terms)
  BY <1>2, ImageFinite
<1>4. w \in Nat /\ a \in Nat
  BY CollectorAssumption DEF Weight
<1>5. terms # {} => n \in Nat /\ n # 0
  BY <1>3, FS_CardinalityType, FS_EmptySet
<1> HIDE DEF w, n, a, terms
<1>6. b \in Nat
  BY <1>4, <1>5
<1> HIDE DEF b
<1>7. a + b \in Nat
  BY <1>4, <1>6
<1>8. Score(d, field) = a + b \/ Score(d, field) = 0
  BY Zenon DEF Score, a, b, w, n, terms, str
<1> QED
  BY <1>7, <1>8

\* The field a document was found in is the one it was given with.
LEMMA MatchFieldIs ==
  ASSUME Fed, NEW i \in 1..Len(seen)
  PROVE  MatchField(seen[i][1]) = seen[i][2]
<1> DEFINE d == seen[i][1]
           k == CHOOSE j \in DOMAIN seen : seen[j][1] = d
<1>1. DOMAIN seen = 1..Len(seen) /\ Len(seen) \in Nat
  BY DEF Fed, CollectorTypeOK
<1>2. k \in 1..Len(seen) /\ seen[k][1] = d
  BY <1>1
<1> HIDE DEF k
<1>3. seen[k][1] \in Nat /\ d \in Nat
  BY <1>2, FedFacts, CollectorAssumption
<1>4. ~(k < i)
  BY <1>2, <1>3, SeenDiffer
<1>5. ~(i < k)
  BY <1>2, <1>3, SeenDiffer
<1>6. k = i
  BY <1>1, <1>2, <1>4, <1>5
<1>7. MatchField(d) = seen[k][2]
  BY DEF MatchField, k
<1> QED
  BY <1>6, <1>7

\* Whatever is in the buffer and passes is among the documents that match.
LEMMA AddedMatching ==
  ASSUME Fed
  PROVE  /\ Handled \cup Added \subseteq Matching
         /\ Matching \in SUBSET Docs /\ IsFiniteSet(Matching) /\ Cardinality(Matching) \in Nat
<1>1. /\ Len(seen) \in Nat /\ Purged \in Nat /\ Cardinality(source) \in Nat /\ collected \in Nat /\ Len(buffer) \in Nat
      /\ Purged + Len(buffer) = collected /\ collected <= Len(seen) /\ Len(seen) <= Cardinality(source)
      /\ collected <= TotalLimit + 1 /\ TotalLimit \in Nat
  <2>1. collected \in Nat
    BY DEF Fed, CollectorTypeOK
  <2>2. Len(seen) <= Cardinality(source) /\ collected = IF Len(seen) <= TotalLimit THEN Len(seen) ELSE TotalLimit + 1
    BY DEF Fed, FedInOrder
  <2>3. TotalLimit \in Nat
    BY CollectorAssumption
  <2>4. Len(seen) \in Nat /\ Purged \in Nat /\ Cardinality(source) \in Nat /\ collected <= Len(seen) /\ Len(buffer) \in Nat
        /\ Purged + Len(buffer) = collected
    BY FedFacts
  <2> QED
    BY <2>1, <2>2, <2>3, <2>4
<1>2. \A i \in 1..collected : i \in 1..Len(seen) /\ i \in 1..Cardinality(source) /\ i <= TotalLimit + 1
  BY ONLY <1>1
<1>3. \A i \in 1..Purged : i \in 1..collected
  BY ONLY <1>1
<1>4. \A k \in 1..Len(buffer) : Purged + k \in 1..collected
  BY ONLY <1>1
<1>5. ASSUME NEW i \in 1..collected, Passes(seen[i][1]) PROVE seen[i][1] \in Matching
  <2>1. seen[i][1] = Descending(source)[i]
    BY <1>2 DEF Fed, FedInOrder
  <2>2. seen[i][1] \in Examined
    BY <1>2, <2>1, ExaminedPlaces
  <2> QED
    BY <1>5, <2>2 DEF Matching
<1>6. ASSUME NEW d \in Handled PROVE d \in Matching
  <2>1. PICK i \in 1..Purged : seen[i][1] = d /\ Passes(seen[i][1])
    BY DEF Handled
  <2> QED
    BY <1>3, <1>5, <2>1
<1>7. ASSUME NEW d \in Added PROVE d \in Matching
  <2>1. PICK k \in 1..Len(buffer) : buffer[k][1] = d /\ Passes(buffer[k][1])
    BY DEF Added, Passing
  <2>2. buffer[k] = seen[Purged + k]
    BY FedFacts
  <2> QED
    BY <1>4, <1>5, <2>1, <2>2
<1>8. Matching \in SUBSET Docs /\ IsFiniteSet(Matching)
  <2>1. Matching \subseteq Examined
    BY DEF Matching
  <2> QED
    BY <2>1, ExaminedPlaces, FS_Subset
<1> QED
  BY <1>6, <1>7, <1>8, FS_CardinalityType

\* What matches is fixed by the arguments, the snapshot and the selection.
LEMMA MatchingSame ==
  ASSUME UNCHANGED <<opts, view, source>>
  PROVE  Matching' = Matching /\ AllScored' = AllScored /\ top_n' = top_n
<1>1. Matching' = Matching
  BY DEF Matching, Examined, Passes
<1>2. top_n' = top_n /\ max_score_doc_num' = max_score_doc_num
  BY DEF top_n, max_score_doc_num
<1> QED
  BY <1>1, <1>2 DEF AllScored

\* The queue of scores stays right while no document is pushed into it.
LEMMA ScoresStay ==
  ASSUME ScoresOK, view' = view, scored' = scored, Queued' = Queued, Purged' \in Nat, Purged \in Nat,
         Purged <= Purged', \A i \in 1..Purged : seen'[i] = seen[i]
  PROVE  ScoresOK'
<1>1. \A k \in 1..Len(scored) : scored[k][1] \in Queued /\ ScoredAs(scored[k][1], scored[k][2])
  BY DEF ScoresOK
<1>2. ASSUME NEW k \in 1..Len(scored') PROVE scored'[k][1] \in Queued' /\ ScoredAs(scored[k][1], scored[k][2])'
  <2> DEFINE d == scored[k][1]
             n == scored[k][2]
  <2>1. PICK i \in 1..Purged : seen[i][1] = d /\ n = Score(seen[i][1], seen[i][2])
    BY <1>1, <1>2 DEF ScoredAs
  <2>2. i \in 1..Purged' /\ seen'[i] = seen[i]
    OBVIOUS
  <2>3. Score(seen[i][1], seen[i][2])' = Score(seen[i][1], seen[i][2])
    BY <2>2 DEF Score
  <2>4. scored[k][1]' = d /\ scored[k][2]' = n
    OBVIOUS
  <2>5. ScoredAs(scored[k][1], scored[k][2])'
    BY <2>1, <2>2, <2>3, <2>4 DEF ScoredAs
  <2> QED
    BY <1>1, <1>2, <2>5
<1>3. /\ scored' \in Seq(Docs \X Nat)
      /\ \A d \in Queued' : \E k \in 1..Len(scored') : scored'[k][1] = d
      /\ \A i, j \in 1..Len(scored') : i < j => scored'[i][1] # scored'[j][1] /\ scored'[i][2] >= scored'[j][2]
  BY DEF ScoresOK
<1> QED
  BY <1>2, <1>3 DEF ScoresOK

\* Steps that change neither the documents handled nor the scores.
LEMMA ScoredSame ==
  ASSUME ScoredInv, TopNInv', UNCHANGED <<opts, view, source, scored, topN, offset, scoredDocs, failed>>,
         Handled' = Handled, Queued' = Queued, Purged' = Purged, \A i \in 1..Purged : seen'[i] = seen[i],
         pc \notin {"start", "weigh", "return", "done"}, pc' \notin {"start", "weigh", "return", "drop"},
         AllScored /\ pc' = "push" => hits' = <<>>,
         AllScored /\ then' = "finish" => Len(seen') = Cardinality(source) \/ top_n = 0
  PROVE  ScoredInv'
<1>1. AllScored' = AllScored /\ top_n' = top_n
  BY MatchingSame
<1>2. SUFFICES ASSUME AllScored PROVE ScoresKept'
  BY <1>1 DEF ScoredInv, ScoredRest
<1>3. ScoresKept
  BY <1>2 DEF ScoredInv, ScoredRest
<1>4. Purged \in Nat
  BY FedFacts DEF ScoredInv, TopNInv, Fed
<1>5. ScoresOK'
  BY <1>3, <1>4, ScoresStay DEF ScoresKept
<1> QED
  BY <1>2, <1>3, <1>5 DEF ScoresKept

\* Collecting a document leaves the scores alone.
LEMMA ScoredCollect ==
  ASSUME ScoredInv, CollectNextOf
  PROVE  ScoredInv'
<1>0. TopNInv /\ Fed
  BY DEF ScoredInv, TopNInv, Fed
<1>1. TopNInv' /\ Purged' = Purged /\ \A i \in 1..Purged : seen'[i] = seen[i]
  BY <1>0, TopNCollect, FedCollect
<1>2. /\ UNCHANGED <<opts, view, source, hits, scored, topN, offset, scoredDocs, failed>>
      /\ then' = "collect" /\ pc = "collect" /\ pc' \in {"collect", "purge"}
  BY DEF CollectNextOf, Collect
<1>3. Handled' = Handled
  BY <1>0, <1>1, <1>2, HandledSame
<1>4. Queued' = Queued
  BY <1>2, <1>3 DEF Queued, HitDocs
<1> QED
  BY <1>1, <1>2, <1>3, <1>4, ScoredSame

\* So does leaving the loop.
LEMMA ScoredStop ==
  ASSUME ScoredInv, StopCollecting(Len(seen) = Cardinality(source))
  PROVE  ScoredInv'
<1>0. TopNInv /\ Fed
  BY DEF ScoredInv, TopNInv, Fed
<1>1. TopNInv' /\ Purged' = Purged /\ seen' = seen
  BY <1>0, TopNStop, FedStop
<1>2. /\ UNCHANGED <<opts, view, source, hits, scored, topN, offset, scoredDocs, failed>>
      /\ Len(seen) = Cardinality(source) \/ Enough
      /\ pc = "collect" /\ pc' = "purge"
  BY DEF StopCollecting, collectorVars
<1>3. Handled' = Handled
  BY <1>0, <1>1, <1>2, HandledSame
<1>4. Queued' = Queued
  BY <1>2, <1>3 DEF Queued, HitDocs
<1>5. ASSUME AllScored, Enough PROVE top_n = 0
  <2>1. ~failed /\ topN = <<>>
    BY <1>2, <1>5 DEF ScoredInv, ScoredRest, ScoresKept
  <2>2. Len(topN) = 0 /\ Len(topN) >= top_n
    BY <1>5, <2>1 DEF Enough
  <2>3. top_n \in Nat
    BY <1>0, FedFacts
  <2> QED
    BY <2>2, <2>3
<1> QED
  BY <1>1, <1>2, <1>3, <1>4, <1>5, ScoredSame

\* A query with scores reads the documents of every purge.
LEMMA ScoredPurgeUnread ==
  ASSUME ScoredInv, PurgeUnread
  PROVE  ScoredInv'
<1>1. TopNInv'
  BY TopNPurgeUnread DEF ScoredInv
<1>2. ~opts.scoring /\ opts' = opts /\ pc = "purge" /\ pc' = then
  BY DEF PurgeUnread
<1>3. ~AllScored'
  BY <1>2 DEF AllScored
<1>4. pc' \notin {"start", "weigh"}
  BY <1>2 DEF ScoredInv, TopNInv, CollectorTypeOK
<1> QED
  BY <1>1, <1>3, <1>4 DEF ScoredInv, ScoredRest

\* Its hits go to the queue of scores, not to the other one.
LEMMA ScoredPushHit ==
  ASSUME ScoredInv, PushHit
  PROVE  ScoredInv'
<1>1. TopNInv'
  BY TopNPushHit DEF ScoredInv
<1>2. UNCHANGED <<opts, view, source>> /\ pc = "push" /\ pc' = pc /\ hits # <<>>
  BY DEF PushHit
<1>3. ~AllScored
  BY <1>2 DEF ScoredInv, ScoredRest, ScoresKept
<1>4. ~AllScored'
  BY <1>2, <1>3, MatchingSame
<1> QED
  BY <1>1, <1>2, <1>4 DEF ScoredInv, ScoredRest

\* A purge ends with all its hits scored.
LEMMA ScoredPurgeEnds ==
  ASSUME ScoredInv, PurgeEnds
  PROVE  ScoredInv'
<1>0. TopNInv /\ Fed
  BY DEF ScoredInv, TopNInv, Fed
<1>1. TopNInv' /\ Purged' = Purged
  BY <1>0, TopNPurgeEnds, FedEnds
<1>2. /\ UNCHANGED <<opts, view, source, seen, then, topN, scored, scoredDocs, offset, failed>>
      /\ pc' = then /\ hits' = <<>> /\ pc \in {"push", "score", "drop"} /\ (pc = "drop" \/ hits = <<>>)
  BY DEF PurgeEnds
<1>3. then \in {"collect", "finish"}
  BY <1>0 DEF TopNInv, CollectorTypeOK
<1>4. CASE pc = "drop"
  <2>1. ~AllScored
    BY <1>4 DEF ScoredInv, ScoredRest, ScoresKept
  <2>2. ~AllScored'
    BY <1>2, <2>1, MatchingSame
  <2> QED
    BY <1>1, <1>2, <1>3, <2>2 DEF ScoredInv, ScoredRest
<1>5. CASE pc # "drop"
  <2>1. Handled' = Handled
    BY <1>0, <1>1, <1>2, HandledSame
  <2>2. Queued' = Queued
    BY <1>2, <1>5, <2>1 DEF Queued, HitDocs
  <2>3. AllScored /\ then' = "finish" => Len(seen') = Cardinality(source) \/ top_n = 0
    BY <1>2 DEF ScoredInv, ScoredRest
  <2> QED
    BY <1>1, <1>2, <1>3, <2>1, <2>2, <2>3, ScoredSame
<1> QED
  BY <1>4, <1>5

\* Handing the result over ends the query.
LEMMA ScoredHandOver ==
  ASSUME ScoredInv, HandOver
  PROVE  ScoredInv'
<1>1. TopNInv'
  BY TopNReturn DEF ScoredInv
<1>2. UNCHANGED <<opts, view, source, then, seen, failed>> /\ pc' = "done"
  BY DEF HandOver, collectorVars
<1> QED
  BY <1>1, <1>2, MatchingSame DEF ScoredInv, ScoredRest

\* With nothing given yet, no score is missing.
LEMMA ScoresEmpty ==
  ASSUME Purged = 0, hits = <<>>, topN = <<>>, scored = <<>>, scoredDocs = 0, offset = opts.offset,
         pc \notin {"drop", "return", "done"}
  PROVE  ScoresKept
<1>1. 1..Purged = {} /\ 1..Len(scored) = {} /\ scored \in Seq(Docs \X Nat)
  OBVIOUS
<1>2. Handled = {} /\ Queued = {}
  BY <1>1 DEF Handled, Queued
<1>3. Cardinality(Handled) = 0
  BY <1>2, FS_EmptySet
<1> QED
  BY <1>1, <1>2, <1>3 DEF ScoresKept, ScoresOK

\* Before the first document nothing is scored.
LEMMA ScoredPrepare ==
  ASSUME ScoredInv, Prepare
  PROVE  ScoredInv'
<1>1. TopNInv'
  BY TopNPrepare DEF ScoredInv
<1>2. /\ hits' = <<>> /\ topN' = <<>> /\ scored' = <<>> /\ scoredDocs' = 0 /\ offset' = opts'.offset
      /\ collected' = 0 /\ buffer' = <<>> /\ then' = "collect" /\ ~failed'
      /\ pc' \in {"weigh", "collect", "done"}
  BY DEF Prepare, collectorVars, ScoredInv, ScoredRest, TopNInv, PhaseOK
<1>3. 1..Purged' = {}
  <2>1. Len(buffer') = 0 /\ collected' = 0
    BY <1>2
  <2>2. collected' - Len(buffer') = 0
    BY ONLY <2>1
  <2> QED
    BY <2>2 DEF Purged
<1>4. Handled' = {} /\ Queued' = {}
  BY <1>3 DEF Handled, Queued
<1>5. Cardinality(Handled') = 0
  BY <1>4, FS_EmptySet
<1>6. 1..Len(scored') = {} /\ scored' \in Seq(Docs \X Nat)
  BY <1>2
<1>7. ScoresKept'
  BY <1>2, <1>4, <1>5, <1>6 DEF ScoresKept, ScoresOK
<1> QED
  BY <1>1, <1>2, <1>7 DEF ScoredInv, ScoredRest

\* A new collector has no scores.
LEMMA ScoredInit ==
  ASSUME OptsOK, CollectorInit, pc = "start", then = "collect"
  PROVE  ScoredInv
<1>1. TopNInv
  BY TopNInit
<1>2. /\ buffer = <<>> /\ hits = <<>> /\ topN = <<>> /\ scored = <<>>
      /\ collected = 0 /\ scoredDocs = 0 /\ offset = opts.offset /\ ~failed
  BY DEF CollectorInit
<1>3. Purged = 0
  <2>1. Len(buffer) = 0 /\ collected = 0
    BY <1>2
  <2>2. collected - Len(buffer) = 0
    BY ONLY <2>1
  <2> QED
    BY <2>2 DEF Purged
<1>4. ScoresKept
  BY <1>2, <1>3, ScoresEmpty
<1> QED
  BY <1>1, <1>2, <1>4 DEF ScoredInv, ScoredRest

\* The hits of a purge are handled and not yet scored.
LEMMA ScoredPurgeRead ==
  ASSUME ScoredInv, PurgeRead
  PROVE  ScoredInv'
<1>0. TopNInv /\ Fed /\ hits = <<>> /\ buffer \in Seq(Given)
  BY DEF ScoredInv, Fed, TopNInv, PurgeRead, PhaseOK, CollectorTypeOK
<1>1. TopNInv' /\ Purged' = collected
  BY <1>0, TopNPurgeRead, FedPurgeRead
<1>2. UNCHANGED <<opts, view, source, seen, then, collected>> /\ pc = "purge" /\ pc' \in {"push", "score", "drop"}
  BY DEF PurgeRead
<1>3. AllScored' = AllScored /\ top_n' = top_n
  BY <1>2, MatchingSame
<1>4. SUFFICES ASSUME AllScored PROVE ScoresKept' /\ ~failed'
  BY <1>1, <1>2, <1>3 DEF ScoredInv, ScoredRest
<1>5. ScoresKept /\ ~failed /\ opts.scoring /\ ~opts.faults
  BY <1>2, <1>4 DEF ScoredInv, ScoredRest, AllScored
<1>6. ~failed'
  <2>1. Len(buffer) \in Nat
    BY <1>0
  <2>2. PICK bad \in {Len(buffer) + 1} \cup (IF opts.faults THEN DOMAIN buffer ELSE {}) :
          failed' = (failed \/ bad <= Len(buffer))
    BY Zenon DEF PurgeRead
  <2>3. bad = Len(buffer) + 1
    BY <1>5, <2>2
  <2>4. ~(bad <= Len(buffer))
    BY ONLY <2>1, <2>3
  <2> QED
    BY <1>5, <2>2, <2>4, Zenon
<1>7. hits' = Picked(buffer, Passing) /\ Passing \in SUBSET (1..Len(buffer))
  <2>1. hits' = Picked(buffer, {k \in 1..Len(buffer) : Passes(buffer[k][1])})
    BY <1>0, <1>6, FedPurgeRead
  <2> QED
    BY <2>1 DEF Passing
<1>8. Picks(hits', buffer, Passing)
  BY <1>0, <1>7, PickedMembers
<1>9. /\ Handled' = Handled \cup Added /\ Handled \cap Added = {}
      /\ Cardinality(Handled') = Cardinality(Handled) + Cardinality(Passing) /\ Cardinality(Passing) \in Nat
  BY <1>0, <1>1, <1>2, HandledPurge
<1>10. Len(hits') = Cardinality(Passing) /\ HitDocs' = Added
  <2>1. ASSUME NEW k \in 1..Len(hits') PROVE hits'[k][1] \in Added
    <3>1. PICK i \in Passing : hits'[k] = buffer[i]
      BY <1>8 DEF Picks
    <3> QED
      BY <3>1 DEF Added
  <2>2. ASSUME NEW i \in Passing PROVE buffer[i][1] \in HitDocs'
    <3>1. PICK k \in 1..Len(hits') : hits'[k] = buffer[i]
      BY <1>8 DEF Picks
    <3> QED
      BY <3>1 DEF HitDocs
  <2>3. HitDocs' \subseteq Added
    BY <2>1 DEF HitDocs
  <2>4. Added \subseteq HitDocs'
    BY <2>2 DEF Added
  <2> QED
    BY <1>8, <2>3, <2>4 DEF Picks
<1>11. Queued = Handled
  BY <1>0, NoHits
<1>12. Queued' = Queued
  BY <1>9, <1>10, <1>11 DEF Queued
<1>13. ScoresOK /\ topN = <<>> /\ offset = opts.offset /\ scoredDocs = Cardinality(Handled)
  BY <1>5 DEF ScoresKept
<1>14. CASE hits' = <<>>
  <2>1. pc' = "push" /\ UNCHANGED <<topN, scored, offset, scoredDocs>>
    BY <1>14 DEF PurgeRead
  <2>2. Len(hits') = 0 /\ Cardinality(Handled) \in Nat
    BY <1>0, <1>14, HandledFacts
  <2>3. scoredDocs' = Cardinality(Handled')
    BY <1>9, <1>10, <1>13, <2>1, <2>2
  <2>4. ScoresOK'
    <3>1. Purged \in Nat /\ collected \in Nat /\ Purged <= collected
      BY <1>0, FedFacts DEF TopNInv, CollectorTypeOK
    <3> QED
      BY <1>1, <1>2, <1>12, <1>13, <2>1, <3>1, ScoresStay
  <2> QED
    BY <1>2, <1>6, <1>13, <1>14, <2>1, <2>3, <2>4 DEF ScoresKept
<1>15. CASE hits' # <<>>
  <2>1. Len(hits') \in Nat /\ Len(hits') # 0
    BY <1>1, <1>15 DEF TopNInv, CollectorTypeOK
  <2>2. /\ Cardinality(Handled) \in Nat /\ Cardinality(Handled') <= Cardinality(Matching) /\ Cardinality(Matching) \in Nat
    <3>1. Handled' \subseteq Matching /\ IsFiniteSet(Matching) /\ Cardinality(Matching) \in Nat
      BY <1>0, <1>9, AddedMatching
    <3> QED
      BY <1>0, <3>1, HandledFacts, FS_Subset
  <2>3. Cardinality(Matching) <= max_score_doc_num /\ max_score_doc_num \in Nat
    BY <1>0, <1>4, FedFacts DEF AllScored, max_score_doc_num, TopNInv, CollectorTypeOK, OptsOK
  <2>4. scoredDocs < max_score_doc_num
    BY <1>9, <1>10, <1>13, <2>1, <2>2, <2>3
  <2>5. pc' = "score" /\ UNCHANGED <<topN, scored, offset>> /\ scoredDocs' = scoredDocs + Len(hits')
    BY <1>5, <1>15, <2>4 DEF PurgeRead
  <2>6. scoredDocs' = Cardinality(Handled')
    BY <1>9, <1>10, <1>13, <2>5
  <2>7. ScoresOK'
    <3>1. Purged \in Nat /\ collected \in Nat /\ Purged <= collected
      BY <1>0, FedFacts DEF TopNInv, CollectorTypeOK
    <3> QED
      BY <1>1, <1>2, <1>12, <1>13, <2>5, <3>1, ScoresStay
  <2> QED
    BY <1>2, <1>6, <1>13, <2>5, <2>6, <2>7 DEF ScoresKept
<1> QED
  BY <1>14, <1>15

\* A score is put behind the better ones and before the worse.
LEMMA ScoreInserted ==
  ASSUME NEW s \in Seq(Docs \X Nat), NEW x \in Docs \X Nat, NEW j \in 0..Len(s), NEW q, InsertedAt(q, s, x, j),
         \A k \in 1..Len(s) : s[k][1] # x[1],
         \A i, k \in 1..Len(s) : i < k => s[i][1] # s[k][1] /\ s[i][2] >= s[k][2],
         \A i \in 1..j : ~(x[2] > s[i][2]), \A i \in (j + 1)..Len(s) : ~(s[i][2] > x[2])
  PROVE  /\ \A k \in 1..Len(q) : q[k] = x \/ \E i \in 1..Len(s) : q[k] = s[i]
         /\ \E k \in 1..Len(q) : q[k] = x
         /\ \A i \in 1..Len(s) : \E k \in 1..Len(q) : q[k] = s[i]
         /\ \A i, k \in 1..Len(q) : i < k => q[i][1] # q[k][1] /\ q[i][2] >= q[k][2]
<1> DEFINE n == Len(s)
<1>1. n \in Nat /\ j \in Nat /\ j <= n /\ x[2] \in Nat /\ \A i \in 1..n : s[i][2] \in Nat
  OBVIOUS
<1>2. /\ Len(q) = n + 1 /\ q[j + 1] = x
      /\ \A i \in 1..j : q[i] = s[i]
      /\ \A i \in (j + 2)..(n + 1) : q[i] = s[i - 1]
  BY DEF InsertedAt
<1>3. /\ \A i \in 1..n : s[i][1] # x[1]
      /\ \A i, k \in 1..n : i < k => s[i][1] # s[k][1] /\ s[i][2] >= s[k][2]
      /\ \A i \in 1..j : ~(x[2] > s[i][2])
      /\ \A i \in (j + 1)..n : ~(s[i][2] > x[2])
  OBVIOUS
<1> HIDE DEF n
<1>4. \A k \in 1..Len(q) : k \in 1..j \/ k = j + 1 \/ (k \in (j + 2)..(n + 1) /\ k - 1 \in (j + 1)..n)
  BY ONLY <1>1, <1>2
<1>5. /\ \A k \in 1..j : k \in 1..n
      /\ \A k \in (j + 1)..n : k \in 1..n
  BY ONLY <1>1
<1>6. ASSUME NEW k \in 1..Len(q) PROVE q[k] = x \/ \E i \in 1..n : q[k] = s[i]
  BY <1>2, <1>4, <1>5
<1>7. \E k \in 1..Len(q) : q[k] = x
  <2>1. j + 1 \in 1..Len(q)
    BY ONLY <1>1, <1>2
  <2> QED
    BY <1>2, <2>1
<1>8. ASSUME NEW i \in 1..n PROVE \E k \in 1..Len(q) : q[k] = s[i]
  <2>1. CASE i <= j
    <3>1. i \in 1..j /\ i \in 1..Len(q)
      BY ONLY <1>1, <1>2, <1>8, <2>1
    <3> QED
      BY <1>2, <3>1
  <2>2. CASE ~(i <= j)
    <3>1. i + 1 \in (j + 2)..(n + 1) /\ i + 1 \in 1..Len(q) /\ (i + 1) - 1 = i
      BY ONLY <1>1, <1>2, <1>8, <2>2
    <3>2. q[i + 1] = s[i]
      BY <1>2, <3>1
    <3> QED
      BY <3>1, <3>2
  <2> QED
    BY <2>1, <2>2
<1>9. ASSUME NEW i \in 1..Len(q), NEW k \in 1..Len(q), i < k PROVE q[i][1] # q[k][1] /\ q[i][2] >= q[k][2]
  <2>1. CASE i \in 1..j /\ k \in 1..j
    <3>1. q[i] = s[i] /\ q[k] = s[k] /\ i \in 1..n /\ k \in 1..n
      BY <1>2, <1>5, <2>1
    <3> QED
      BY <1>3, <1>9, <3>1
  <2>2. CASE i \in 1..j /\ k = j + 1
    <3>1. q[i] = s[i] /\ q[k] = x /\ i \in 1..n
      BY <1>2, <1>5, <2>2
    <3>2. s[i][1] # x[1] /\ ~(x[2] > s[i][2]) /\ s[i][2] \in Nat
      BY <1>1, <1>3, <2>2, <3>1
    <3>3. s[i][2] >= x[2]
      BY ONLY <1>1, <3>2
    <3> QED
      BY <3>1, <3>2, <3>3
  <2>3. CASE i \in 1..j /\ k \in (j + 2)..(n + 1)
    <3>1. i \in 1..n /\ k - 1 \in 1..n /\ i < k - 1
      BY ONLY <1>1, <2>3
    <3>2. q[i] = s[i] /\ q[k] = s[k - 1]
      BY <1>2, <2>3
    <3> QED
      BY <1>3, <3>1, <3>2
  <2>4. CASE i = j + 1 /\ k \in (j + 2)..(n + 1)
    <3>1. k - 1 \in (j + 1)..n /\ k - 1 \in 1..n
      BY ONLY <1>1, <2>4
    <3>2. q[i] = x /\ q[k] = s[k - 1]
      BY <1>2, <2>4
    <3>3. s[k - 1][1] # x[1] /\ ~(s[k - 1][2] > x[2]) /\ s[k - 1][2] \in Nat
      BY <1>1, <1>3, <3>1
    <3>4. x[2] >= s[k - 1][2]
      BY ONLY <1>1, <3>3
    <3> QED
      BY <3>2, <3>3, <3>4
  <2>5. CASE i \in (j + 2)..(n + 1) /\ k \in (j + 2)..(n + 1)
    <3>1. i - 1 \in 1..n /\ k - 1 \in 1..n /\ i - 1 < k - 1
      BY ONLY <1>1, <1>9, <2>5
    <3>2. q[i] = s[i - 1] /\ q[k] = s[k - 1]
      BY <1>2, <2>5
    <3> QED
      BY <1>3, <3>1, <3>2
  <2>6. \/ i \in 1..j /\ k \in 1..j
        \/ i \in 1..j /\ k = j + 1
        \/ i \in 1..j /\ k \in (j + 2)..(n + 1)
        \/ i = j + 1 /\ k \in (j + 2)..(n + 1)
        \/ i \in (j + 2)..(n + 1) /\ k \in (j + 2)..(n + 1)
    BY ONLY <1>1, <1>2, <1>9
  <2> QED
    BY <2>1, <2>2, <2>3, <2>4, <2>5, <2>6
<1> QED
  BY <1>6, <1>7, <1>8, <1>9 DEF n

\* A hit enters the queue with its score, behind those of a greater one.
LEMMA ScoredScoreHit ==
  ASSUME ScoredInv, ScoreHit
  PROVE  ScoredInv'
<1> DEFINE d == hits[1][1]
           f == hits[1][2]
           n == Score(d, f)
           x == <<d, n>>
<1>0. TopNInv /\ Fed /\ pc = "score"
  BY DEF ScoredInv, TopNInv, Fed, ScoreHit
<1>1. TopNInv'
  BY <1>0, TopNScoreHit
<1>2. UNCHANGED <<opts, view, source, seen, then, buffer, topN, collected, scoredDocs, offset, total, failed>> /\ hits # <<>>
  BY DEF ScoreHit
<1>3. Purged' = Purged
  BY <1>2 DEF Purged
<1>4. Handled' = Handled
  BY <1>0, <1>2, <1>3, HandledSame
<1>5. AllScored /\ then' = "finish" => Len(seen') = Cardinality(source) \/ top_n = 0
  BY <1>0, <1>2 DEF ScoredInv, ScoredRest
<1>6. \/ pc' = "crashed" /\ UNCHANGED <<hits, scored>>
      \/ pc' = pc /\ hits' = Tail(hits) /\ (scored' \in Inserted(scored, x, PostScorer) \/ opts.faults)
  BY Zenon DEF ScoreHit, x, d, f, n
<1>7. CASE pc' = "crashed" /\ UNCHANGED <<hits, scored>>
  <2>1. Queued' = Queued
    BY <1>4, <1>7 DEF Queued, HitDocs
  <2> QED
    BY <1>0, <1>1, <1>2, <1>3, <1>4, <1>5, <1>7, <2>1, ScoredSame
<1>8. CASE pc' = pc /\ hits' = Tail(hits) /\ (scored' \in Inserted(scored, x, PostScorer) \/ opts.faults)
  <2>1. HitDocs' = HitDocs \ {d} /\ d \in HitDocs /\ hits[1] \in Given
    BY <1>0, <1>2, <1>8, FedTail
  <2>2. HitDocs \subseteq Handled /\ Handled \in SUBSET Docs /\ Queued \in SUBSET Docs
    BY <1>0, HandledFacts
  <2>3. Queued' = Queued \cup {d} /\ d \notin Queued /\ d \in Docs /\ f \in FieldIDs
    <3>1. d \in Docs /\ f \in FieldIDs
      BY <2>1 DEF Given
    <3> HIDE DEF d, f
    <3> QED
      BY <1>4, <2>1, <2>2, <3>1 DEF Queued
  <2>4. AllScored' = AllScored /\ top_n' = top_n
    BY <1>2, MatchingSame
  <2>5. SUFFICES ASSUME AllScored PROVE ScoresKept'
    BY <1>0, <1>1, <1>2, <1>5, <1>8, <2>4 DEF ScoredInv, ScoredRest
  <2>6. ScoresKept /\ ~opts.faults
    BY <1>0, <2>5 DEF ScoredInv, ScoredRest, AllScored
  <2>7. n \in Nat
    <3>1. ViewOK
      BY <1>0 DEF Fed, CollectorTypeOK
    <3> HIDE DEF d, f
    <3> QED
      BY <2>3, <3>1, ScoreType
  <2>8. x \in Docs \X Nat /\ x[1] = d /\ x[2] = n
    BY <2>3, <2>7
  <2>9. PICK i0 \in 1..Purged : hits[1] = seen[i0] /\ seen[i0][1] = d /\ seen[i0][2] = f
    <3>1. 1 \in 1..Len(hits)
      BY <1>0, <1>2 DEF Fed, CollectorTypeOK
    <3> QED
      BY <1>0, <3>1 DEF Fed, HitsOK
  <2>10. \E i \in 1..Purged' : seen'[i][1] = d /\ n = Score(seen[i][1], seen[i][2])'
    <3>1. i0 \in 1..Purged' /\ seen' = seen
      BY <1>2, <1>3
    <3>2. Score(seen[i0][1], seen[i0][2])' = Score(seen[i0][1], seen[i0][2])
      BY <1>2 DEF Score
    <3>3. n = Score(seen[i0][1], seen[i0][2])
      BY <2>9
    <3> HIDE DEF d, n
    <3> QED
      BY <2>9, <3>1, <3>2, <3>3 DEF ScoredAs
  <2> HIDE DEF x, n, d, f
  <2> DEFINE At(i) == SubSeq(scored, 1, i) \o <<x>> \o SubSeq(scored, i + 1, Len(scored))
  <2>11. PICK j \in 0..Len(scored) :
          /\ scored' = At(j)
          /\ \A i \in 1..j : ~PostScorer(x, scored[i])
          /\ \A i \in (j + 1)..Len(scored) : ~PostScorer(scored[i], x)
    BY <1>8, <2>6, Zenon DEF Inserted
  <2>12. /\ scored \in Seq(Docs \X Nat)
         /\ \A k \in 1..Len(scored) : scored[k][1] \in Queued /\ ScoredAs(scored[k][1], scored[k][2])
         /\ \A e \in Queued : \E k \in 1..Len(scored) : scored[k][1] = e
         /\ \A i, k \in 1..Len(scored) : i < k => scored[i][1] # scored[k][1] /\ scored[i][2] >= scored[k][2]
    BY <2>6 DEF ScoresKept, ScoresOK
  <2>13. scored' \in Seq(Docs \X Nat) /\ InsertedAt(scored', scored, x, j)
    BY <2>8, <2>11, <2>12, InsertedIs
  <2> DEFINE q == scored'
  <2>14. /\ \A k \in 1..Len(q) : q[k] = x \/ \E i \in 1..Len(scored) : q[k] = scored[i]
         /\ \E k \in 1..Len(q) : q[k] = x
         /\ \A i \in 1..Len(scored) : \E k \in 1..Len(q) : q[k] = scored[i]
         /\ \A i, k \in 1..Len(q) : i < k => q[i][1] # q[k][1] /\ q[i][2] >= q[k][2]
    <3>1. /\ \A i \in 1..j : ~(x[2] > scored[i][2])
          /\ \A i \in (j + 1)..Len(scored) : ~(scored[i][2] > x[2])
      BY <2>11 DEF PostScorer
    <3>2. \A k \in 1..Len(scored) : scored[k][1] # x[1]
      BY <2>3, <2>8, <2>12
    <3>3. j \in 0..Len(scored)
      OBVIOUS
    <3> HIDE DEF q
    <3>4. InsertedAt(q, scored, x, j)
      BY <2>13 DEF q
    <3> QED
      BY <2>8, <2>12, <3>1, <3>2, <3>3, <3>4, ScoreInserted
  <2>15. ASSUME NEW k \in 1..Len(scored')
         PROVE  /\ scored'[k][1] \in Queued'
                /\ \E m \in 1..Purged' : seen'[m][1] = scored'[k][1] /\ scored'[k][2] = Score(seen[m][1], seen[m][2])'
    <3>1. CASE scored'[k] = x
      BY <2>3, <2>8, <2>10, <3>1
    <3>2. CASE \E i \in 1..Len(scored) : scored'[k] = scored[i]
      <4>1. PICK i \in 1..Len(scored) : scored'[k] = scored[i]
        BY <3>2
      <4>2. scored[i][1] \in Queued /\ ScoredAs(scored[i][1], scored[i][2])
        BY <2>12
      <4>3. PICK m \in 1..Purged : seen[m][1] = scored[i][1] /\ scored[i][2] = Score(seen[m][1], seen[m][2])
        BY <4>2 DEF ScoredAs
      <4>4. Score(seen[m][1], seen[m][2])' = Score(seen[m][1], seen[m][2])
        BY <1>2 DEF Score
      <4> QED
        BY <1>2, <1>3, <2>3, <4>1, <4>2, <4>3, <4>4
    <3> QED
      BY <2>14, <2>15, <3>1, <3>2
  <2>16. ASSUME NEW e \in Queued' PROVE \E k \in 1..Len(scored') : scored'[k][1] = e
    <3>1. CASE e = d
      BY <2>8, <2>14, <3>1
    <3>2. CASE e \in Queued
      <4>1. PICK i \in 1..Len(scored) : scored[i][1] = e
        BY <2>12, <3>2
      <4>2. PICK k \in 1..Len(scored') : scored'[k] = scored[i]
        BY <2>14
      <4> QED
        BY <4>1, <4>2
    <3> QED
      BY <2>3, <3>1, <3>2
  <2>17. ScoresOK'
    BY <2>13, <2>14, <2>15, <2>16 DEF ScoresOK, ScoredAs
  <2> QED
    BY <1>0, <1>2, <1>4, <1>8, <2>6, <2>17 DEF ScoresKept
<1> QED
  BY <1>6, <1>7, <1>8

\* A step that changes nothing keeps the invariant.
LEMMA ScoredStutter ==
  ASSUME ScoredInv, UNCHANGED vars
  PROVE  ScoredInv'
<1>0. TopNInv /\ Fed
  BY DEF ScoredInv, TopNInv, Fed
<1>1. UNCHANGED <<opts, view, source, pc, then, seen, buffer, hits, topN, scored, collected, scoredDocs, offset, total, failed>>
  BY DEF vars, collectorVars
<1>2. TopNInv'
  BY <1>0, TopNStutter
<1>3. AllScored' = AllScored /\ top_n' = top_n /\ Matching' = Matching
  BY <1>1, MatchingSame
<1>4. Purged' = Purged
  BY <1>1 DEF Purged
<1>5. Handled' = Handled
  BY <1>0, <1>1, <1>4, HandledSame
<1>6. Queued' = Queued
  BY <1>1, <1>5 DEF Queued, HitDocs
<1>7. ScoresKept => ScoresKept'
  <2>1. SUFFICES ASSUME ScoresKept PROVE ScoresKept'
    OBVIOUS
  <2>2. Purged \in Nat
    BY <1>0, FedFacts
  <2>3. ScoresOK'
    BY <1>1, <1>4, <1>6, <2>1, <2>2, ScoresStay DEF ScoresKept
  <2> QED
    BY <1>1, <1>5, <2>1, <2>3 DEF ScoresKept
<1>8. MatchDocs' = MatchDocs /\ Scores' = Scores
  BY <1>1 DEF MatchDocs, Scores, Score, MatchField
<1>9. Ordered(MatchDocs) => Ordered(MatchDocs)'
  BY <1>1, <1>8 DEF Ordered, Before
<1> QED
  BY <1>1, <1>2, <1>3, <1>7, <1>8, <1>9 DEF ScoredInv, ScoredRest

\* q lists the documents of M with their scores f, the best first.
Lists(q, M, f) ==
  /\ q \in Seq(Docs \X Nat)
  /\ \A k \in 1..Len(q) : q[k][1] \in M /\ q[k][2] = f[q[k][1]]
  /\ \A d \in M : \E k \in 1..Len(q) : q[k][1] = d
  /\ \A i, j \in 1..Len(q) : i < j => q[i][1] # q[j][1] /\ q[i][2] >= q[j][2]

Ids(q) == [k \in 1..Len(q) |-> q[k][1]]

\* The place of a document in the list bounds how many are better, and how many are as good.
LEMMA ListRank ==
  ASSUME NEW M \in SUBSET Docs, IsFiniteSet(M), NEW f, NEW q, Lists(q, M, f), NEW k \in 1..Len(q)
  PROVE  /\ Cardinality({d \in M : f[d] > f[q[k][1]]}) \in Nat
         /\ Cardinality({d \in M : f[d] > f[q[k][1]]}) < k
         /\ Cardinality({d \in M : f[d] >= f[q[k][1]]}) \in Nat
         /\ Cardinality({d \in M : f[d] >= f[q[k][1]]}) >= k
         /\ Cardinality(M) = Len(q)
<1> DEFINE n == Len(q)
           ids == Ids(q)
           Better == {d \in M : f[d] > f[q[k][1]]}
           AsGood == {d \in M : f[d] >= f[q[k][1]]}
           Ahead == 1..(k - 1)
           UpToK == 1..k
           All == 1..n
<1>1. /\ q \in Seq(Docs \X Nat) /\ n \in Nat
      /\ \A i \in 1..n : q[i][1] \in M /\ q[i][2] = f[q[i][1]] /\ q[i][2] \in Nat
      /\ \A d \in M : \E i \in 1..n : q[i][1] = d
      /\ \A i, j \in 1..n : i < j => q[i][1] # q[j][1] /\ q[i][2] >= q[j][2]
  BY DEF Lists
<1>2. /\ \A i \in 1..n : ids[i] = q[i][1]
      /\ \A i, j \in 1..n : i < j => ids[i] # ids[j]
  BY <1>1 DEF Ids
<1>3. k \in 1..n /\ k - 1 \in Nat /\ k \in Nat
  BY <1>1
<1> HIDE DEF n, ids
<1>4. Ahead \in SUBSET (1..n) /\ UpToK \in SUBSET (1..n) /\ All \in SUBSET (1..n)
  BY ONLY <1>1, <1>3
<1>5. Cardinality(Ahead) = k - 1 /\ Cardinality(UpToK) = k /\ Cardinality(All) = n
  BY <1>1, <1>3, CardinalityUpTo
<1>6. ASSUME NEW d \in Better PROVE d \in MembersAt(ids, Ahead)
  <2>1. PICK i \in 1..n : q[i][1] = d
    BY <1>1
  <2>2. q[i][2] > q[k][2] /\ q[i][2] \in Nat /\ q[k][2] \in Nat
    BY <1>1, <1>3, <2>1
  <2>3. ~(k < i) /\ i # k
    BY <1>1, <1>3, <2>2
  <2>4. i \in Ahead
    BY ONLY <1>1, <1>3, <2>3
  <2> QED
    BY <1>2, <2>1, <2>4 DEF MembersAt
<1>7. ASSUME NEW i \in UpToK PROVE ids[i] \in AsGood
  <2>1. i \in 1..n
    BY <1>4
  <2>2. i = k \/ i < k
    BY ONLY <1>3, <1>7
  <2>3. q[i][2] >= q[k][2]
    BY <1>1, <1>3, <2>1, <2>2
  <2> QED
    <3>1. f[ids[i]] >= f[q[k][1]] /\ ids[i] \in M
      BY <1>1, <1>2, <1>3, <2>1, <2>3
    <3> QED
      BY <3>1
<1> HIDE DEF Ahead, UpToK, All
<1>8. /\ IsFiniteSet(MembersAt(ids, Ahead)) /\ Cardinality(MembersAt(ids, Ahead)) = k - 1
      /\ IsFiniteSet(MembersAt(ids, UpToK)) /\ Cardinality(MembersAt(ids, UpToK)) = k
      /\ Cardinality(MembersAt(ids, All)) = n
  <2>0. n \in Nat /\ \A i, j \in 1..n : i < j => ids[i] # ids[j]
    BY <1>1, <1>2
  <2>1. IsFiniteSet(MembersAt(ids, Ahead)) /\ Cardinality(MembersAt(ids, Ahead)) = Cardinality(Ahead)
    BY ONLY <2>0, <1>4, CardinalityPlaces
  <2>2. IsFiniteSet(MembersAt(ids, UpToK)) /\ Cardinality(MembersAt(ids, UpToK)) = Cardinality(UpToK)
    BY ONLY <2>0, <1>4, CardinalityPlaces
  <2>3. IsFiniteSet(MembersAt(ids, All)) /\ Cardinality(MembersAt(ids, All)) = Cardinality(All)
    BY ONLY <2>0, <1>4, CardinalityPlaces
  <2> QED
    BY <1>5, <2>1, <2>2, <2>3
<1>9. Better \subseteq MembersAt(ids, Ahead)
  BY <1>6
<1>10. MembersAt(ids, UpToK) \subseteq AsGood
  BY <1>7 DEF MembersAt
<1>11. AsGood \subseteq M
  OBVIOUS
<1> HIDE DEF Better, AsGood
<1>12. Cardinality(Better) \in Nat /\ Cardinality(Better) <= k - 1
  BY <1>8, <1>9, FS_Subset, FS_CardinalityType
<1>13. IsFiniteSet(AsGood)
  BY <1>11, FS_Subset
<1>14. Cardinality(AsGood) \in Nat /\ Cardinality(AsGood) >= k
  BY <1>8, <1>10, <1>13, FS_Subset, FS_CardinalityType
<1>15. MembersAt(ids, All) = M
  <2>0. \A i \in 1..n : ids[i] \in M
    BY <1>1, <1>2
  <2>1. MembersAt(ids, All) \subseteq M
    BY <2>0 DEF MembersAt, All
  <2>2. ASSUME NEW d \in M PROVE d \in MembersAt(ids, All)
    <3>1. PICK i \in 1..n : q[i][1] = d
      BY <1>1
    <3> QED
      BY <1>2, <3>1 DEF MembersAt, All
  <2>3. M \subseteq MembersAt(ids, All)
    BY <2>2
  <2> QED
    BY <2>1, <2>3
<1>16. Cardinality(Better) < k
  BY <1>3, <1>12
<1> QED
  BY <1>8, <1>12, <1>14, <1>15, <1>16 DEF Better, AsGood, n

\* The places of the documents that HandleScorePriorityQueue keeps, and their number.
Places(n, o, l) == {j \in 1..n : j > (IF o < n THEN o ELSE n) /\ j <= (IF o < n THEN o ELSE n) + l}

\* The places of a slice, and how many there are.
LEMMA PlacesCount ==
  ASSUME NEW n \in Nat, NEW o \in Nat, NEW l \in Nat
  PROVE  /\ Places(n, o, l) \in SUBSET (1..n)
         /\ Cardinality(Places(n, o, l)) = IF n - o < 0 THEN 0 ELSE IF n - o < l THEN n - o ELSE l
         /\ \A j \in Places(n, o, l) : o < j /\ j <= o + l
<1> DEFINE m == IF n - o < l THEN n ELSE o + l
<1>1. CASE o < n
  <2>1. m \in Nat /\ o + 1 \in Int /\ m \in Int
    OBVIOUS
  <2>2. Places(n, o, l) = (o + 1)..m
    BY <1>1 DEF Places
  <2>3. Cardinality((o + 1)..m) = IF o + 1 > m THEN 0 ELSE m - (o + 1) + 1
    <3> HIDE DEF m
    <3> QED
      BY <2>1, FS_Interval
  <2>4. (IF o + 1 > m THEN 0 ELSE m - (o + 1) + 1) = IF n - o < 0 THEN 0 ELSE IF n - o < l THEN n - o ELSE l
    BY <1>1
  <2>5. \A j \in Places(n, o, l) : o < j /\ j <= o + l
    BY <1>1 DEF Places
  <2> QED
    BY <2>2, <2>3, <2>4, <2>5 DEF Places
<1>2. CASE ~(o < n)
  <2>1. Places(n, o, l) = {}
    BY <1>2 DEF Places
  <2>2. Cardinality({}) = 0
    BY FS_EmptySet
  <2>3. 0 = IF n - o < 0 THEN 0 ELSE IF n - o < l THEN n - o ELSE l
    BY <1>2
  <2> QED
    BY <2>1, <2>2, <2>3
<1> QED
  BY <1>1, <1>2

Kept(q, o, l) == MembersAt(Ids(q), Places(Len(q), o, l))
KeptOnce(s, q, o, l) ==
  /\ s \in [1..Cardinality(Kept(q, o, l)) -> Kept(q, o, l)]
  /\ \A i, j \in DOMAIN s : i < j => s[i] # s[j]

\* What is left of offset skips nothing in s.
Unskipped(s, n, o) == SubSeq(s, o - (IF o < n THEN o ELSE n) + 1, Len(s)) = s

\* What HandleScorePriorityQueue keeps of the list is the slice that was asked for.
LEMMA ScoresSlice ==
  ASSUME NEW M \in SUBSET Docs, IsFiniteSet(M), NEW f, NEW q, Lists(q, M, f), NEW o \in Nat, NEW l \in Nat,
         NEW s, KeptOnce(s, q, o, l)
  PROVE  s \in Seq(M) /\ Unskipped(s, Len(q), o) /\ Slice(s, M, f, o, l)
<1> DEFINE n == Len(q)
           ids == Ids(q)
           P == Places(n, o, l)
           kept == Kept(q, o, l)
           c == Cardinality(kept)
<1>1. n \in Nat /\ \A i \in 1..n : q[i][1] \in M
  BY DEF Lists
<1>2. /\ \A i \in 1..n : ids[i] = q[i][1]
      /\ \A i, j \in 1..n : i < j => ids[i] # ids[j]
  BY DEF Lists, Ids
<1>3. P \in SUBSET (1..n) /\ \A j \in P : o < j /\ j <= o + l
  BY <1>1, PlacesCount
<1>4. Cardinality(P) = IF n - o < 0 THEN 0 ELSE IF n - o < l THEN n - o ELSE l
  BY <1>1, PlacesCount
<1>5. kept = MembersAt(ids, P) /\ s \in [1..c -> kept] /\ \A i, j \in DOMAIN s : i < j => s[i] # s[j]
  BY DEF Kept, KeptOnce
<1> HIDE DEF n, ids, P, kept
<1>6. Cardinality(MembersAt(ids, P)) = Cardinality(P)
  BY ONLY <1>1, <1>2, <1>3, CardinalityPlaces
<1>7. c = Cardinality(P) /\ c \in Nat
  BY <1>1, <1>4, <1>5, <1>6
<1>8. s \in Seq(kept) /\ Len(s) = c /\ DOMAIN s = 1..c /\ \A k \in 1..c : s[k] \in kept
  <2> HIDE DEF c
  <2>1. s \in [1..c -> kept]
    BY <1>5
  <2>2. s \in Seq(kept)
    BY <1>7, <2>1
  <2>3. DOMAIN s = 1..c /\ \A k \in 1..c : s[k] \in kept
    BY <2>1
  <2>4. Len(s) = c
    BY <1>7, <2>2, <2>3
  <2> QED
    BY <2>2, <2>3, <2>4
<1>9. ASSUME NEW k \in 1..c PROVE \E p \in 1..n : s[k] = q[p][1] /\ o < p /\ p <= o + l
  <2>0. s[k] \in MembersAt(ids, P)
    BY <1>5, <1>8
  <2>1. PICK p \in P : s[k] = ids[p]
    BY <2>0 DEF MembersAt
  <2> QED
    BY <1>2, <1>3, <2>1
<1>10. Cardinality(M) = n
  <2>1. CASE n = 0
    <3>1. M = {}
      BY <1>1, <2>1 DEF Lists, n
    <3> QED
      BY <2>1, <3>1, FS_EmptySet
  <2>2. CASE n # 0
    <3>1. 1 \in 1..Len(q)
      BY <1>1, <2>2 DEF n
    <3> QED
      BY <3>1, ListRank DEF n
  <2> QED
    BY <2>1, <2>2
<1>11. ASSUME NEW k \in 1..c
       PROVE  /\ s[k] \in M
              /\ Cardinality({d \in M : f[d] > f[s[k]]}) < o + l
              /\ Cardinality({d \in M : f[d] >= f[s[k]]}) > o
              /\ \A j \in 1..(k - 1) : s[j] # s[k]
  <2>1. PICK p \in 1..n : s[k] = q[p][1] /\ o < p /\ p <= o + l
    BY <1>9
  <2> DEFINE a == Cardinality({d \in M : f[d] > f[q[p][1]]})
             b == Cardinality({d \in M : f[d] >= f[q[p][1]]})
  <2>2. a \in Nat /\ a < p /\ b \in Nat /\ b >= p
    BY ListRank DEF n
  <2> HIDE DEF a, b
  <2>3. a < o + l /\ b > o
    BY ONLY <1>1, <2>1, <2>2, o \in Nat, l \in Nat
  <2>4. \A j \in 1..(k - 1) : j \in 1..c /\ j < k
    BY ONLY <1>7, <1>11
  <2>5. \A j \in 1..(k - 1) : s[j] # s[k]
    BY <1>5, <1>8, <2>4
  <2> QED
    BY <1>1, <2>1, <2>3, <2>5 DEF a, b
<1>12. s \in Seq(M)
  <2>1. s \in [1..c -> M]
    BY <1>5, <1>8, <1>11
  <2> HIDE DEF c
  <2> QED
    BY <1>7, <2>1
<1>13. Slice(s, M, f, o, l)
  <2>1. Len(s) = IF Cardinality(M) - o < 0 THEN 0 ELSE IF Cardinality(M) - o < l THEN Cardinality(M) - o ELSE l
    BY ONLY <1>4, <1>7, <1>8, <1>10
  <2>2. DOMAIN s = 1..c
    BY <1>8
  <2> HIDE DEF c
  <2>3. DOMAIN s = 1..Len(s) /\ Len(s) \in Nat
    BY <1>12
  <2> QED
    BY <1>11, <2>1, <2>2, <2>3, Zenon DEF Slice
<1>14. SubSeq(s, o - (IF o < n THEN o ELSE n) + 1, Len(s)) = s
  <2>1. CASE o < n
    <3>1. o - (IF o < n THEN o ELSE n) + 1 = 1
      BY <1>1, <2>1
    <3>2. SubSeq(s, 1, Len(s)) = s
      BY <1>12
    <3> QED
      BY <3>1, <3>2
  <2>2. CASE ~(o < n)
    <3>1. Len(s) = 0
      BY <1>1, <1>4, <1>7, <1>8, <2>2
    <3>2. s = <<>>
      BY <1>12, <3>1
    <3>3. o - (IF o < n THEN o ELSE n) + 1 \in Nat /\ o - (IF o < n THEN o ELSE n) + 1 > 0
      BY <1>1, <2>2
    <3> QED
      BY <3>1, <3>2, <3>3
  <2> QED
    BY <2>1, <2>2
<1> QED
  BY <1>12, <1>13, <1>14 DEF Unskipped, n

\* When everything is scored, the queue lists the matching documents by score.
LEMMA ListsAtEnd ==
  ASSUME Fed, ScoresOK, hits = <<>>, Handled = Matching
  PROVE  Lists(scored, Matching, Scores)
<1>1. Queued = Matching
  BY NoHits
<1>2. Matching \in SUBSET Docs
  BY AddedMatching
<1>3. \A i \in 1..Purged : i \in 1..Len(seen)
  <2>1. /\ Purged \in Nat /\ Len(seen) \in Nat /\ Len(buffer) \in Nat /\ collected \in Nat
        /\ Purged + Len(buffer) = collected /\ collected <= Len(seen)
    BY FedFacts DEF Fed, CollectorTypeOK
  <2> QED
    BY ONLY <2>1
<1>4. ASSUME NEW k \in 1..Len(scored) PROVE scored[k][1] \in Matching /\ scored[k][2] = Scores[scored[k][1]]
  <2>1. scored[k][1] \in Matching /\ ScoredAs(scored[k][1], scored[k][2])
    BY <1>1 DEF ScoresOK
  <2>2. PICK i \in 1..Purged : seen[i][1] = scored[k][1] /\ scored[k][2] = Score(seen[i][1], seen[i][2])
    BY <2>1 DEF ScoredAs
  <2>3. MatchField(seen[i][1]) = seen[i][2]
    BY <1>3, MatchFieldIs
  <2>4. Scores[scored[k][1]] = Score(scored[k][1], MatchField(scored[k][1]))
    BY <1>2, <2>1 DEF Scores
  <2> QED
    BY <2>1, <2>2, <2>3, <2>4
<1> QED
  BY <1>1, <1>4 DEF ScoresOK, Lists

\* Finish skips the first offset members of the queue and moves the next limit ones to the result.
LEMMA ScoredFinish ==
  ASSUME ScoredInv, FinishScores
  PROVE  ScoredInv'
<1> DEFINE o == opts.offset
           l == opts.limit
           M == Matching
           n == Len(scored)
           skip == IF offset < n THEN offset ELSE n
<1>0. TopNInv /\ Fed /\ pc = "finish" /\ hits = <<>> /\ buffer = <<>> /\ then = "finish" /\ OptsOK
  BY DEF ScoredInv, TopNInv, Fed, FinishScores, PhaseOK, CollectorTypeOK
<1>1. TopNInv'
  BY <1>0, TopNReturn
<1>2. UNCHANGED <<opts, view, source, seen, then, failed>> /\ pc' = "return"
  BY DEF FinishScores
<1>3. Matching' = Matching /\ AllScored' = AllScored /\ top_n' = top_n
  BY <1>2, MatchingSame
<1>4. Scores' = Scores
  BY <1>2 DEF Scores, Score, MatchField
<1>5. SUFFICES ASSUME AllScored PROVE Slice(MatchDocs', M, Scores, o, l) /\ Ordered(MatchDocs)'
  BY <1>0, <1>1, <1>2, <1>3, <1>4 DEF ScoredInv, ScoredRest
<1>6. /\ ScoresOK /\ topN = <<>> /\ offset = o /\ opts.scoring
      /\ Len(seen) = Cardinality(source) \/ top_n = 0
  BY <1>0, <1>5 DEF ScoredInv, ScoredRest, ScoresKept, AllScored
<1>7. o \in Nat /\ l \in Nat /\ n \in Nat /\ scored \in Seq(Docs \X Nat)
  BY <1>0, <1>6 DEF OptsOK, ScoresOK
<1>8. M \in SUBSET Docs /\ IsFiniteSet(M) /\ Cardinality(M) \in Nat
  BY <1>0, AddedMatching
<1> DEFINE kept == {scored[k][1] : k \in {j \in DOMAIN scored : j > skip /\ j <= skip + l}}
<1>9. \/ scored = <<>> /\ topN' = <<>> /\ offset' = o
      \/ \E s \in [1..Cardinality(kept) -> kept] :
           /\ \A i, j \in DOMAIN s : i < j => s[i] # s[j] /\ ~Before(s[j], s[i])
           /\ topN' = topN \o s /\ offset' = offset - skip
  <2>1. CASE scored = <<>>
    BY <1>6, <2>1 DEF FinishScores
  <2>2. CASE scored # <<>>
    <3>1. HandleScorePriorityQueue
      BY <1>6, <2>2 DEF FinishScores
    <3> QED
      BY <3>1, Zenon DEF HandleScorePriorityQueue
  <2> QED
    BY <2>1, <2>2
<1>10. kept = MembersAt(Ids(scored), Places(n, o, l))
  <2>1. DOMAIN scored = 1..n /\ skip = IF o < n THEN o ELSE n
    BY <1>6, <1>7
  <2>2. {j \in DOMAIN scored : j > skip /\ j <= skip + l} = Places(n, o, l)
    BY <2>1 DEF Places
  <2>3. \A j \in Places(n, o, l) : Ids(scored)[j] = scored[j][1]
    BY DEF Places, Ids
  <2> QED
    BY <2>2, <2>3 DEF MembersAt
<1> HIDE DEF kept
<1>11. Len(seen) = Cardinality(source) => Lists(scored, M, Scores)
  BY <1>0, <1>6, HandledMatching, ListsAtEnd
<1>12. top_n = 0 => o = 0 /\ l = 0
  BY <1>7 DEF top_n
<1>13. ASSUME MatchDocs' = <<>>, scored = <<>> \/ top_n = 0 PROVE Slice(MatchDocs', M, Scores, o, l) /\ Ordered(MatchDocs)'
  <2>1. Len(MatchDocs') = 0 /\ DOMAIN MatchDocs' = {} /\ 1..0 = {}
    BY <1>13
  <2>2. Cardinality(M) = 0 \/ (l = 0 /\ o = 0)
    <3>1. CASE Len(seen) = Cardinality(source) /\ scored = <<>>
      <4>1. M = {}
        BY <1>11, <3>1 DEF Lists
      <4> QED
        BY <4>1, FS_EmptySet
    <3> QED
      BY <1>6, <1>12, <1>13, <3>1
  <2>3. 0 = IF Cardinality(M) - o < 0 THEN 0 ELSE IF Cardinality(M) - o < l THEN Cardinality(M) - o ELSE l
    BY <1>7, <1>8, <2>2
  <2> QED
    BY <2>1, <2>3 DEF Slice, Ordered
<1>14. CASE scored = <<>> /\ topN' = <<>> /\ offset' = o
  <2>1. MatchDocs' = <<>>
    BY <1>7, <1>14 DEF MatchDocs
  <2> QED
    BY <1>13, <1>14, <2>1
<1>15. ASSUME NEW s \in [1..Cardinality(kept) -> kept],
              \A i, j \in DOMAIN s : i < j => s[i] # s[j] /\ ~Before(s[j], s[i]),
              topN' = topN \o s, offset' = offset - skip
       PROVE  Slice(MatchDocs', M, Scores, o, l) /\ Ordered(MatchDocs)'
  <2>1. CASE Len(seen) = Cardinality(source)
    <3>1. Lists(scored, M, Scores)
      BY <1>11, <2>1
    <3>2. /\ s \in Seq(M) /\ SubSeq(s, o - skip + 1, Len(s)) = s
          /\ Slice(s, M, Scores, o, l)
      <4>1. \A i, j \in DOMAIN s : i < j => s[i] # s[j]
        BY <1>15
      <4>2. skip = IF o < n THEN o ELSE n
        BY <1>6
      <4>3. kept = Kept(scored, o, l) /\ o \in Nat /\ l \in Nat
        BY <1>7, <1>10 DEF Kept
      <4>4. M \in SUBSET Docs /\ IsFiniteSet(M) /\ KeptOnce(s, scored, o, l)
        BY <1>8, <1>15, <4>1, <4>3 DEF KeptOnce
      <4> HIDE DEF M, o, l, skip
      <4>5. s \in Seq(M) /\ Slice(s, M, Scores, o, l) /\ Unskipped(s, Len(scored), o)
        BY ONLY <3>1, <4>3, <4>4, ScoresSlice
      <4> QED
        BY <4>2, <4>5 DEF Unskipped
    <3>3. topN' = s
      BY <1>6, <1>15, <3>2, ConcatEmptySeq
    <3>4. MatchDocs' = s
      BY <1>6, <1>15, <3>2, <3>3 DEF MatchDocs
    <3>5. Ordered(MatchDocs)'
      <4>1. DOMAIN s = 1..Len(s) /\ Len(s) \in Nat
        BY <3>2
      <4>2. ASSUME NEW k \in DOMAIN s, NEW j \in 1..(k - 1) PROVE ~Before(s[k], s[j])
        <5>1. j \in DOMAIN s /\ j < k
          BY <4>1
        <5> QED
          BY <1>15, <5>1
      <4>3. MatchDocs' = s /\ opts' = opts /\ view' = view
        BY <1>2, <3>4
      <4>4. \A k \in DOMAIN MatchDocs' : \A j \in 1..(k - 1) : ~Before(MatchDocs[k], MatchDocs[j])'
        <5>1. SUFFICES ASSUME NEW k \in DOMAIN s, NEW j \in 1..(k - 1) PROVE ~Before(MatchDocs[k], MatchDocs[j])'
          BY <4>3
        <5>2. MatchDocs'[k] = s[k] /\ MatchDocs'[j] = s[j]
          BY <4>3
        <5>3. ~Before(s[k], s[j])
          BY <4>2
        <5> QED
          BY <4>3, <5>2, <5>3 DEF Before
      <4> QED
        BY <4>4 DEF Ordered
    <3> QED
      BY <3>2, <3>4, <3>5
  <2>2. CASE top_n = 0
    <3>1. Places(n, o, l) = {}
      BY <1>7, <1>12, <2>2 DEF Places
    <3>2. kept = {}
      BY <1>10, <3>1 DEF MembersAt
    <3>3. Cardinality(kept) = 0
      BY <3>2, FS_EmptySet
    <3>4. s = <<>>
      BY <3>2, <3>3
    <3>5. topN' = <<>>
      BY <1>6, <1>15, <3>4
    <3>6. offset' \in Int
      BY <1>6, <1>7, <1>15
    <3>7. offset' + 1 \in Int /\ offset' + 1 > 0
      BY <1>6, <1>7, <1>12, <1>15, <2>2
    <3>8. MatchDocs' = <<>>
      BY <3>5, <3>7 DEF MatchDocs
    <3> QED
      BY <1>13, <2>2, <3>8
  <2> QED
    BY <1>6, <2>1, <2>2
<1> QED
  BY <1>9, <1>14, <1>15

\* At the end of a query the invariant says that the slice is right,
LEMMA ScoredHolds ==
  ASSUME ScoredInv
  PROVE  ScoredCorrect
<1> DEFINE M == Matching
<1>1. SUFFICES ASSUME pc = "return", ~failed, opts.scoring, ~opts.faults, Cardinality(M) <= max_score_doc_num
               PROVE  ScoredCorrect
  BY DEF ScoredCorrect, Matching
<1>2. Slice(MatchDocs, M, Scores, opts.offset, opts.limit) /\ Ordered(MatchDocs)
  BY <1>1 DEF ScoredInv, ScoredRest, AllScored
<1>3. M \in SUBSET Docs
  BY AddedMatching DEF ScoredInv, TopNInv, Fed
<1>4. \A d \in M : Scores[d] = Score(d, MatchField(d))
  BY <1>3 DEF Scores
<1>5. {d \in Examined : Passes(d)} = M
  BY DEF Matching
<1> HIDE DEF M
<1>6. ASSUME NEW k \in DOMAIN MatchDocs
      PROVE  /\ MatchDocs[k] \in M
             /\ {d \in M : Score(d, MatchField(d)) > Score(MatchDocs[k], MatchField(MatchDocs[k]))} = {d \in M : Scores[d] > Scores[MatchDocs[k]]}
             /\ {d \in M : Score(d, MatchField(d)) >= Score(MatchDocs[k], MatchField(MatchDocs[k]))} = {d \in M : Scores[d] >= Scores[MatchDocs[k]]}
  <2>1. MatchDocs[k] \in M
    BY <1>2 DEF Slice
  <2> QED
    BY <1>4, <2>1
<1>7. ASSUME NEW k \in DOMAIN MatchDocs, NEW j \in 1..(k - 1)
      PROVE  Before(MatchDocs[k], MatchDocs[j]) <=> Precedes(MatchDocs[k], MatchDocs[j])
  <2>1. MatchDocs[k] \in Docs /\ MatchDocs[j] \in Docs
    <3>1. DOMAIN MatchDocs = 1..Len(MatchDocs) /\ Len(MatchDocs) \in Nat
      BY <1>2 DEF Slice
    <3>2. j \in DOMAIN MatchDocs
      BY <3>1
    <3> QED
      BY <1>3, <1>6, <3>2
  <2>2. OptsOK /\ ViewOK
    BY <1>1 DEF ScoredInv, TopNInv, Fed, CollectorTypeOK
  <2> QED
    BY <2>1, <2>2, BeforeIs
<1> QED
  BY <1>2, <1>5, <1>6, <1>7 DEF ScoredCorrect, Slice, Ordered

\* and every step keeps it.
LEMMA ScoredNext ==
  ASSUME ScoredInv, [CollectorNext]_vars
  PROVE  ScoredInv'
<1>1. CASE Prepare
  BY <1>1, ScoredPrepare
<1>2. CASE CollectNextOf
  BY <1>2, ScoredCollect
<1>3. CASE StopCollecting(Len(seen) = Cardinality(source))
  BY <1>3, ScoredStop
<1>4. CASE PurgeUnread
  BY <1>4, ScoredPurgeUnread
<1>5. CASE PurgeRead
  BY <1>5, ScoredPurgeRead
<1>6. CASE PushHit
  BY <1>6, ScoredPushHit
<1>7. CASE ScoreHit
  BY <1>7, ScoredScoreHit
<1>8. CASE PurgeEnds
  BY <1>8, ScoredPurgeEnds
<1>9. CASE FinishScores
  BY <1>9, ScoredFinish
<1>10. CASE HandOver
  BY <1>10, ScoredHandOver
<1>11. CASE UNCHANGED vars
  BY <1>11, ScoredStutter
<1> QED
  BY <1>1, <1>2, <1>3, <1>4, <1>5, <1>6, <1>7, <1>8, <1>9, <1>10, <1>11 DEF CollectorNext, CollectorStep

\* With score strategies, DoQuery hands over documents whose scores are in places offset
\* to offset + limit of those that match, each once and in the sorter's order, while
\* no more match than are scored and every read succeeds.
THEOREM ScoredsCorrect == CollectorSpec => []ScoredCorrect
<1>1. OptsOK /\ CollectorInit /\ pc = "start" /\ then = "collect" => ScoredInv
  BY ScoredInit
<1>2. ScoredInv /\ [CollectorNext]_vars => ScoredInv'
  BY ScoredNext
<1>3. ScoredInv => ScoredCorrect
  BY ScoredHolds
<1> QED
  BY <1>1, <1>2, <1>3, PTL DEF CollectorSpec, vars
=============================================================================
