-------------------------- MODULE HeapMergeProofs ---------------------------
(***************************************************************************)
(* Proofs about OptimizeDocListMerge: the heap stays a heap, and what it   *)
(* writes is what Merged says of the operands, for any number of lists of  *)
(* any length.                                                             *)
(***************************************************************************)
EXTENDS HeapMerge, OrderLemmas

(***************************************************************************)
(* Cursors and their order.                                                *)
(***************************************************************************)
\* The operands L, the cursors on them and what a cursor c reads.
Operands(L) == L \in Seq(Seq(Entry)) /\ L # <<>> /\ \A l \in 1..Len(L) : InOrder(L[l])
Cursors(L) == [list : 1..Len(L), pos : Nat \ {0}]
IdAt(L, c) == IF c.pos > Len(L[c.list]) THEN 0 ELSE L[c.list][c.pos][1]
Gt(L, a, b) == IdAt(L, a) > IdAt(L, b) \/ (IdAt(L, a) = IdAt(L, b) /\ a.list > b.list)

\* These are DOCID and HeapItemGreater of the lists being merged.
LEMMA GreaterIs ==
  ASSUME NEW a, NEW b
  PROVE  DOCID(a) = IdAt(lists, a) /\ (HeapItemGreater(a, b) <=> Gt(lists, a, b))
BY DEF DOCID, HeapItemGreater, IdAt, Gt

\* An operand is a sequence of ids in descending order, each with a state.
LEMMA OperandFacts ==
  ASSUME NEW L, Operands(L), NEW l \in 1..Len(L)
  PROVE  /\ Len(L) \in Nat /\ Len(L) >= 1 /\ DOMAIN L = 1..Len(L)
         /\ L[l] \in Seq(Entry) /\ Len(L[l]) \in Nat /\ DOMAIN L[l] = 1..Len(L[l])
         /\ \A k \in 1..Len(L[l]) : /\ L[l][k][1] \in DocID /\ L[l][k][1] \in Nat /\ L[l][k][1] # 0
                                    /\ L[l][k][2] \in {"OK", "Delete"}
         /\ \A j, k \in 1..Len(L[l]) : j < k => L[l][j][1] > L[l][k][1]
<1>1. L \in Seq(Seq(Entry)) /\ L # <<>> /\ InOrder(L[l])
  BY DEF Operands
<1>2. L[l] \in Seq(Entry)
  BY <1>1
<1>3. \A k \in 1..Len(L[l]) : L[l][k] \in Entry
  BY <1>2
<1>4. \A j, k \in 1..Len(L[l]) : j < k => L[l][j][1] > L[l][k][1]
  BY <1>1, <1>2 DEF InOrder
<1>5. \A k \in 1..Len(L[l]) : /\ L[l][k][1] \in DocID /\ L[l][k][1] \in Nat /\ L[l][k][1] # 0
                              /\ L[l][k][2] \in {"OK", "Delete"}
  BY <1>3, DocListsAssumption DEF Entry
<1> QED
  BY <1>1, <1>2, <1>4, <1>5

\* A cursor reads an id, or 0 behind the list.
LEMMA IdFacts ==
  ASSUME NEW L, Operands(L), NEW c \in Cursors(L)
  PROVE  /\ c.list \in 1..Len(L) /\ c.pos \in Nat /\ c.pos >= 1 /\ IdAt(L, c) \in Nat
         /\ IdAt(L, c) # 0 <=> c.pos <= Len(L[c.list])
         /\ IdAt(L, c) # 0 => IdAt(L, c) = L[c.list][c.pos][1] /\ IdAt(L, c) \in DocID
         /\ \A k \in 1..Len(L[c.list]) : k >= c.pos => L[c.list][k][1] <= IdAt(L, c)
<1>1. c.list \in 1..Len(L) /\ c.pos \in Nat /\ c.pos >= 1
  BY DEF Cursors
<1>2. /\ Len(L[c.list]) \in Nat
      /\ \A k \in 1..Len(L[c.list]) : L[c.list][k][1] \in DocID /\ L[c.list][k][1] \in Nat /\ L[c.list][k][1] # 0
      /\ \A j, k \in 1..Len(L[c.list]) : j < k => L[c.list][j][1] > L[c.list][k][1]
  BY <1>1, OperandFacts
<1>3. CASE c.pos > Len(L[c.list])
  <2>1. IdAt(L, c) = 0
    BY <1>3 DEF IdAt
  <2> QED
    BY <1>1, <1>2, <1>3, <2>1
<1>4. CASE c.pos \in 1..Len(L[c.list])
  <2>1. IdAt(L, c) = L[c.list][c.pos][1]
    BY <1>1, <1>2, <1>4 DEF IdAt
  <2>2. ASSUME NEW k \in 1..Len(L[c.list]), k >= c.pos PROVE L[c.list][k][1] <= IdAt(L, c)
    <3>1. CASE k = c.pos
      BY <1>2, <2>1, <3>1
    <3>2. CASE c.pos < k
      BY <1>2, <1>4, <2>1, <3>2
    <3> QED
      BY <1>1, <2>2, <3>1, <3>2
  <2> QED
    BY <1>1, <1>2, <1>4, <2>1, <2>2
<1> QED
  BY <1>1, <1>2, <1>3, <1>4

\* The order is total on cursors of different lists.
LEMMA GtOrders ==
  ASSUME NEW L, Operands(L), NEW a \in Cursors(L), NEW b \in Cursors(L), NEW c \in Cursors(L)
  PROVE  /\ ~Gt(L, a, a)
         /\ Gt(L, a, b) => ~Gt(L, b, a)
         /\ ~Gt(L, a, b) /\ ~Gt(L, b, c) => ~Gt(L, a, c)
<1>1. /\ IdAt(L, a) \in Nat /\ IdAt(L, b) \in Nat /\ IdAt(L, c) \in Nat
      /\ a.list \in Nat /\ b.list \in Nat /\ c.list \in Nat
  BY IdFacts
<1> QED
  BY <1>1 DEF Gt

(***************************************************************************)
(* The heap.                                                               *)
(***************************************************************************)
\* h has one cursor on every list.
HeapOf(L, h) ==
  /\ h \in Seq(Cursors(L)) /\ Len(h) = Len(L)
  /\ \A i, j \in 1..Len(h) : h[i].list = h[j].list => i = j
  /\ \A l \in 1..Len(L) : \E i \in 1..Len(h) : h[i].list = l

\* The first m cursors are in heap order,
Sorted(L, h, m) == \A i \in 2..m : ~Gt(L, h[i], h[i \div 2])

\* or only the one at s may be greater than its parent,
UpAt(L, h, m, s) ==
  /\ m \in 1..Len(h) /\ s \in 1..m
  /\ \A i \in 2..m : i # s => ~Gt(L, h[i], h[i \div 2])
  /\ \A i \in 2..m : i \div 2 = s /\ s # 1 => ~Gt(L, h[i], h[s \div 2])

\* or only the one at s may be less than a child.
DownAt(L, h, s) ==
  /\ s \in 1..Len(h)
  /\ \A i \in 2..Len(h) : i \div 2 # s => ~Gt(L, h[i], h[i \div 2])
  /\ \A i \in 2..Len(h) : i \div 2 = s /\ s # 1 => ~Gt(L, h[i], h[s \div 2])

\* There is at least one cursor.
LEMMA HeapFacts ==
  ASSUME NEW L, Operands(L), NEW h, HeapOf(L, h)
  PROVE  /\ Len(h) \in Nat /\ Len(h) >= 1 /\ Len(h) = Len(L) /\ h \in Seq(Cursors(L)) /\ DOMAIN h = 1..Len(h)
         /\ \A i \in 1..Len(h) : h[i] \in Cursors(L)
<1>1. h \in Seq(Cursors(L)) /\ Len(h) = Len(L)
  BY DEF HeapOf
<1>2. L \in Seq(Seq(Entry)) /\ L # <<>>
  BY DEF Operands
<1> QED
  BY <1>1, <1>2

\* A parent is before its child.
LEMMA ParentFacts ==
  ASSUME NEW m \in Nat, NEW i \in 2..m
  PROVE  /\ i \in Nat /\ i \div 2 \in 1..m /\ i \div 2 < i /\ i \in 1..m
         /\ i = 2 * (i \div 2) \/ i = 2 * (i \div 2) + 1
OBVIOUS

\* g is h with the cursors at i and j exchanged.
Exchanged(g, h, i, j) ==
  /\ Len(g) = Len(h) /\ g[i] = h[j] /\ g[j] = h[i]
  /\ \A k \in 1..Len(h) : k # i /\ k # j => g[k] = h[k]
  /\ \A k \in 1..Len(h) : \E m \in 1..Len(h) : g[k] = h[m]

\* Two cursors change places: there is still one on every list.
LEMMA SwapFacts ==
  ASSUME NEW L, Operands(L), NEW h, HeapOf(L, h), NEW i \in 1..Len(h), NEW j \in 1..Len(h), i # j,
         NEW g, g = Swapped(h, i, j)
  PROVE  HeapOf(L, g) /\ Exchanged(g, h, i, j)
<1>1. /\ Len(h) \in Nat /\ Len(h) = Len(L) /\ DOMAIN h = 1..Len(h) /\ h \in Seq(Cursors(L))
      /\ \A k \in 1..Len(h) : h[k] \in Cursors(L)
  BY HeapFacts
<1>2. g = [h EXCEPT ![i] = h[j], ![j] = h[i]]
  BY DEF Swapped
<1>3. g \in Seq(Cursors(L)) /\ Len(g) = Len(h)
  BY <1>1, <1>2
<1>4. g[i] = h[j] /\ g[j] = h[i] /\ \A k \in 1..Len(h) : k # i /\ k # j => g[k] = h[k]
  BY <1>1, <1>2
<1>5. \A k \in 1..Len(h) : \E m \in 1..Len(h) : g[k] = h[m]
  BY <1>4
<1>6. \A k, m \in 1..Len(h) : h[k].list = h[m].list => k = m
  BY DEF HeapOf
<1>7. ASSUME NEW k \in 1..Len(g), NEW m \in 1..Len(g), g[k].list = g[m].list PROVE k = m
  <2> DEFINE From(x) == IF x = i THEN j ELSE IF x = j THEN i ELSE x
  <2>1. /\ From(k) \in 1..Len(h) /\ g[k] = h[From(k)]
        /\ From(m) \in 1..Len(h) /\ g[m] = h[From(m)]
    BY <1>3, <1>4
  <2>2. From(k) = From(m)
    BY <1>6, <1>7, <2>1
  <2> QED
    BY <2>2
<1>8. ASSUME NEW l \in 1..Len(L) PROVE \E k \in 1..Len(g) : g[k].list = l
  <2>1. PICK k \in 1..Len(h) : h[k].list = l
    BY DEF HeapOf
  <2>2. CASE k = i
    BY <1>3, <1>4, <2>1, <2>2
  <2>3. CASE k = j
    BY <1>3, <1>4, <2>1, <2>3
  <2>4. CASE k # i /\ k # j
    BY <1>3, <1>4, <2>1, <2>4
  <2> QED
    BY <2>2, <2>3, <2>4
<1>9. HeapOf(L, g)
  BY <1>1, <1>3, <1>7, <1>8 DEF HeapOf
<1> QED
  BY <1>3, <1>4, <1>5, <1>9 DEF Exchanged

\* HeapShiftUp: a cursor greater than its parent changes places with it,
LEMMA UpSwaps ==
  ASSUME NEW L, Operands(L), NEW h, HeapOf(L, h), NEW m, NEW s, UpAt(L, h, m, s),
         s # 1, Gt(L, h[s], h[s \div 2]), NEW g, g = Swapped(h, s, s \div 2)
  PROVE  HeapOf(L, g) /\ UpAt(L, g, m, s \div 2) /\ Exchanged(g, h, s, s \div 2)
<1> DEFINE p == s \div 2
<1>0. /\ Len(h) \in Nat /\ m \in Nat /\ m \in 1..Len(h) /\ s \in 2..m /\ s \in Nat
      /\ \A i \in 1..m : i \in 1..Len(h) /\ h[i] \in Cursors(L)
  BY HeapFacts DEF UpAt
<1>1. p \in 1..m /\ p < s /\ p \in Nat
  BY <1>0, ParentFacts
<1>2. /\ HeapOf(L, g) /\ Exchanged(g, h, s, p) /\ Len(g) = Len(h) /\ g[s] = h[p] /\ g[p] = h[s]
      /\ \A k \in 1..m : k # s /\ k # p => g[k] = h[k]
  <2>1. s \in 1..Len(h) /\ p \in 1..Len(h) /\ s # p
    BY <1>0, <1>1
  <2>2. /\ HeapOf(L, g) /\ Exchanged(g, h, s, p) /\ Len(g) = Len(h) /\ g[s] = h[p] /\ g[p] = h[s]
        /\ \A k \in 1..Len(h) : k # s /\ k # p => g[k] = h[k]
    <3>1. g = Swapped(h, s, p)
      OBVIOUS
    <3> HIDE DEF p
    <3>2. HeapOf(L, g) /\ Exchanged(g, h, s, p)
      BY <2>1, <3>1, SwapFacts
    <3> QED
      BY <3>2 DEF Exchanged
  <2> QED
    BY <1>0, <2>2
<1>3. /\ \A i \in 2..m : i # s => ~Gt(L, h[i], h[i \div 2])
      /\ \A i \in 2..m : i \div 2 = s => ~Gt(L, h[i], h[p])
  BY DEF UpAt
<1>4. ~Gt(L, h[p], h[s])
  BY <1>0, <1>1, GtOrders
<1> HIDE DEF p
<1>5. ASSUME NEW i \in 2..m, i # p PROVE ~Gt(L, g[i], g[i \div 2])
  <2>0. i \in Nat /\ i \div 2 \in 1..m /\ i \div 2 < i /\ i \in 1..m /\ i \div 2 \in Nat
    BY <1>0, ParentFacts
  <2>1. CASE i = s
    BY <1>2, <1>4, <2>1 DEF p
  <2>2. CASE i # s /\ i \div 2 = s
    BY <1>2, <1>3, <1>5, <2>0, <2>2
  <2>3. CASE i # s /\ i \div 2 = p
    <3>1. ~Gt(L, h[i], h[p])
      BY <1>3, <2>3
    <3>2. ~Gt(L, h[i], h[s])
      BY <1>0, <1>1, <1>4, <2>0, <3>1, GtOrders
    <3> QED
      BY <1>2, <1>5, <2>0, <2>3, <3>2
  <2>4. CASE i # s /\ i \div 2 # s /\ i \div 2 # p
    BY <1>2, <1>3, <1>5, <2>0, <2>4
  <2> QED
    BY <2>1, <2>2, <2>3, <2>4
<1>6. ASSUME NEW i \in 2..m, i \div 2 = p, p # 1 PROVE ~Gt(L, g[i], g[p \div 2])
  <2>0. i \in 1..m /\ p \in 2..m /\ i # p
    BY <1>0, <1>1, <1>6, ParentFacts
  <2>1. p \div 2 \in 1..m /\ p \div 2 < p /\ p \div 2 \in Nat
    BY <1>0, <2>0, ParentFacts
  <2>2. g[p \div 2] = h[p \div 2]
    BY <1>1, <1>2, <2>1
  <2>3. ~Gt(L, h[p], h[p \div 2])
    BY <1>1, <1>3, <2>0
  <2>4. CASE i = s
    BY <1>2, <2>2, <2>3, <2>4
  <2>5. CASE i # s
    <3>1. ~Gt(L, h[i], h[p])
      BY <1>3, <1>6, <2>5
    <3>2. ~Gt(L, h[i], h[p \div 2])
      BY <1>0, <1>1, <2>0, <2>1, <2>3, <3>1, GtOrders
    <3> QED
      BY <1>2, <2>0, <2>2, <2>5, <3>2
  <2> QED
    BY <2>4, <2>5
<1>7. UpAt(L, g, m, p)
  BY <1>0, <1>1, <1>2, <1>5, <1>6 DEF UpAt
<1> QED
  BY <1>2, <1>7 DEF p

\* until it is none.
LEMMA UpEnds ==
  ASSUME NEW L, NEW h, NEW m, NEW s, UpAt(L, h, m, s), s = 1 \/ ~Gt(L, h[s], h[s \div 2])
  PROVE  Sorted(L, h, m)
BY DEF UpAt, Sorted

\* HeapShiftDown looks at the greater child,
LEMMA GreaterChildIs ==
  ASSUME Operands(lists), NEW h, HeapOf(lists, h), NEW s \in 1..Len(h), 2 * s <= Len(h)
  PROVE  /\ GreaterChild(h, s) \in 2..Len(h) /\ GreaterChild(h, s) \div 2 = s
         /\ \A i \in 2..Len(h) : i \div 2 = s => ~Gt(lists, h[i], h[GreaterChild(h, s)])
<1>0. /\ Len(h) \in Nat /\ s \in Nat /\ s >= 1
      /\ \A i \in 1..Len(h) : h[i] \in Cursors(lists)
  BY HeapFacts
<1> DEFINE l == 2 * s
<1>1. GreaterChild(h, s) = IF l < Len(h) /\ ~Gt(lists, h[l], h[l + 1]) THEN l + 1 ELSE l
  BY GreaterIs DEF GreaterChild
<1>2. /\ l \in Nat /\ l \in 2..Len(h) /\ l \div 2 = s /\ (l + 1) \div 2 = s
      /\ l < Len(h) => l + 1 \in 2..Len(h)
  BY <1>0
<1>3. ASSUME NEW i \in 2..Len(h), i \div 2 = s PROVE i = l \/ (i = l + 1 /\ l < Len(h))
  BY <1>0, <1>3
<1> HIDE DEF l
<1>4. ASSUME NEW i \in 2..Len(h), i \div 2 = s PROVE ~Gt(lists, h[i], h[GreaterChild(h, s)])
  <2>0. \A j \in 2..Len(h) : h[j] \in Cursors(lists)
    BY <1>0
  <2>1. CASE i = l
    BY <1>1, <1>2, <2>0, <2>1, GtOrders
  <2>2. CASE i = l + 1 /\ l < Len(h)
    BY <1>1, <1>2, <2>0, <2>2, GtOrders
  <2> QED
    BY <1>3, <1>4, <2>1, <2>2
<1> QED
  BY <1>1, <1>2, <1>4

\* changes places with it if it is greater,
LEMMA DownSwaps ==
  ASSUME NEW L, Operands(L), NEW h, HeapOf(L, h), NEW s, DownAt(L, h, s), NEW c \in 2..Len(h), c \div 2 = s,
         \A i \in 2..Len(h) : i \div 2 = s => ~Gt(L, h[i], h[c]),
         Gt(L, h[c], h[s]), NEW g, g = Swapped(h, s, c)
  PROVE  HeapOf(L, g) /\ DownAt(L, g, c) /\ Exchanged(g, h, s, c)
<1>0. /\ Len(h) \in Nat /\ s \in Nat /\ s \in 1..Len(h) /\ c \in 1..Len(h) /\ s < c /\ c \in Nat
      /\ \A i \in 1..Len(h) : h[i] \in Cursors(L)
  BY HeapFacts, ParentFacts DEF DownAt
<1>1. /\ HeapOf(L, g) /\ Exchanged(g, h, s, c) /\ Len(g) = Len(h) /\ g[s] = h[c] /\ g[c] = h[s]
      /\ \A k \in 1..Len(h) : k # s /\ k # c => g[k] = h[k]
  <2>1. s # c
    BY <1>0
  <2> QED
    <3>1. HeapOf(L, g) /\ Exchanged(g, h, s, c)
      BY <1>0, <2>1, SwapFacts
    <3> QED
      BY <3>1 DEF Exchanged
<1>2. /\ \A i \in 2..Len(h) : i \div 2 # s => ~Gt(L, h[i], h[i \div 2])
      /\ \A i \in 2..Len(h) : i \div 2 = s /\ s # 1 => ~Gt(L, h[i], h[s \div 2])
  BY DEF DownAt
<1>3. ~Gt(L, h[s], h[c])
  BY <1>0, GtOrders
<1>4. ASSUME NEW i \in 2..Len(h), i \div 2 # c PROVE ~Gt(L, g[i], g[i \div 2])
  <2>0. i \in Nat /\ i \div 2 \in 1..Len(h) /\ i \div 2 < i /\ i \in 1..Len(h) /\ i \div 2 \in Nat
    BY <1>0, ParentFacts
  <2>1. CASE i = s
    <3>1. ~Gt(L, h[c], h[s \div 2])
      BY <1>0, <1>2, <2>0, <2>1
    <3>2. g[s \div 2] = h[s \div 2]
      BY <1>0, <1>1, <2>0, <2>1
    <3> QED
      BY <1>1, <2>1, <3>1, <3>2
  <2>2. CASE i = c
    BY <1>1, <1>3, <2>2
  <2>3. CASE i # c /\ i \div 2 = s
    <3>1. g[i] = h[i]
      BY <1>1, <2>0, <2>3
    <3> QED
      BY <1>1, <2>3, <3>1
  <2>4. CASE i # s /\ i # c /\ i \div 2 # s
    <3>1. g[i] = h[i] /\ g[i \div 2] = h[i \div 2]
      BY <1>1, <1>4, <2>0, <2>4
    <3> QED
      BY <1>2, <2>4, <3>1
  <2> QED
    BY <2>1, <2>2, <2>3, <2>4
<1>5. ASSUME NEW i \in 2..Len(h), i \div 2 = c PROVE ~Gt(L, g[i], g[c \div 2])
  <2>0. i \in 1..Len(h) /\ c < i /\ i # c /\ i # s
    BY <1>0, <1>5, ParentFacts
  <2>1. ~Gt(L, h[i], h[c])
    <3>1. i \div 2 # s
      BY <1>0, <1>5
    <3> QED
      BY <1>2, <1>5, <3>1
  <2>2. g[i] = h[i] /\ g[c \div 2] = h[c]
    BY <1>1, <2>0
  <2> QED
    BY <2>1, <2>2
<1>6. DownAt(L, g, c)
  BY <1>0, <1>1, <1>4, <1>5 DEF DownAt
<1> QED
  BY <1>1, <1>6

\* until there is no greater one.
LEMMA DownEnds ==
  ASSUME NEW L, Operands(L), NEW h, HeapOf(L, h), NEW s, DownAt(L, h, s),
         \/ 2 * s > Len(h)
         \/ \E c \in 2..Len(h) : /\ \A i \in 2..Len(h) : i \div 2 = s => ~Gt(L, h[i], h[c])
                                 /\ ~Gt(L, h[c], h[s])
  PROVE  Sorted(L, h, Len(h))
<1>0. /\ Len(h) \in Nat /\ s \in Nat /\ s \in 1..Len(h)
      /\ \A i \in 1..Len(h) : h[i] \in Cursors(L)
  BY HeapFacts DEF DownAt
<1>1. ASSUME NEW i \in 2..Len(h) PROVE ~Gt(L, h[i], h[i \div 2])
  <2>1. CASE i \div 2 # s
    BY <2>1 DEF DownAt
  <2>2. CASE i \div 2 = s
    <3>1. ~(2 * s > Len(h))
      BY <1>0, <2>2
    <3>2. PICK c \in 2..Len(h) : /\ \A j \in 2..Len(h) : j \div 2 = s => ~Gt(L, h[j], h[c])
                                 /\ ~Gt(L, h[c], h[s])
      BY <3>1
    <3>3. i \in 1..Len(h) /\ c \in 1..Len(h)
      BY <1>0
    <3> QED
      BY <1>0, <2>2, <3>2, <3>3, GtOrders
  <2> QED
    BY <2>1, <2>2
<1> QED
  BY <1>1 DEF Sorted

\* The top of a heap is its greatest cursor.
LEMMA TopGreatest ==
  ASSUME NEW L, Operands(L), NEW h, HeapOf(L, h), Sorted(L, h, Len(h)), NEW i \in 1..Len(h)
  PROVE  ~Gt(L, h[i], h[1])
<1>0. Len(h) \in Nat /\ Len(h) >= 1 /\ \A j \in 1..Len(h) : h[j] \in Cursors(L)
  BY HeapFacts
<1> DEFINE T == {j \in 1..Len(h) : Gt(L, h[j], h[1])}
<1>1. SUFFICES ASSUME T # {} PROVE FALSE
  OBVIOUS
<1>2. T \in SUBSET Nat
  OBVIOUS
<1>3. PICK m \in T : \A k \in T : m <= k
  BY <1>1, <1>2, LeastExists
<1>4. m # 1
  BY <1>0, GtOrders
<1>5. m \in 2..Len(h) /\ m \div 2 \in 1..Len(h) /\ m \div 2 < m /\ m \div 2 \in Nat /\ m \in 1..Len(h) /\ m \in Nat
  BY <1>0, <1>4, ParentFacts
<1>6. ~Gt(L, h[m], h[m \div 2])
  BY <1>5 DEF Sorted
<1>7. ~Gt(L, h[m \div 2], h[1])
  BY <1>3, <1>5
<1>8. 1 \in 1..Len(h)
  BY <1>0
<1>9. ~Gt(L, h[m], h[1])
  BY <1>0, <1>5, <1>6, <1>7, <1>8, GtOrders
<1> QED
  BY <1>9

(***************************************************************************)
(* How far the cursors are.                                                *)
(***************************************************************************)
\* Cursor c is behind the entries from id z on, and behind no other; z = 0 at the start.
Behind(L, c, z) == \A k \in 1..Len(L[c.list]) : k < c.pos <=> z # 0 /\ L[c.list][k][1] >= z

\* Cursor c may also be on id z itself.
Around(L, c, z) ==
  \A k \in 1..Len(L[c.list]) : IF k < c.pos THEN L[c.list][k][1] >= z ELSE L[c.list][k][1] <= z

\* When the top is to be written, every greater id has been.
LEMMA TopIsNext ==
  ASSUME NEW L, Operands(L), NEW h, HeapOf(L, h), Sorted(L, h, Len(h)), NEW z \in Nat,
         \A i \in 1..Len(h) : Behind(L, h[i], z),
         NEW l \in 1..Len(L), NEW k \in 1..Len(L[l]), L[l][k][1] > IdAt(L, h[1])
  PROVE  z # 0 /\ L[l][k][1] >= z
<1>1. PICK i \in 1..Len(h) : h[i].list = l
  BY DEF HeapOf
<1>2. h[i] \in Cursors(L) /\ h[1] \in Cursors(L)
  BY HeapFacts
<1>3. /\ IdAt(L, h[i]) \in Nat /\ IdAt(L, h[1]) \in Nat
      /\ k >= h[i].pos => L[l][k][1] <= IdAt(L, h[i])
      /\ h[i].pos \in Nat
  BY <1>1, <1>2, IdFacts
<1>4. IdAt(L, h[i]) <= IdAt(L, h[1])
  BY <1>3, TopGreatest DEF Gt
<1>5. L[l][k][1] \in Nat /\ k \in Nat
  BY OperandFacts
<1>6. k < h[i].pos
  BY <1>3, <1>4, <1>5
<1> QED
  BY <1>1, <1>6 DEF Behind

\* It has not been written, and no newer operand has it.
LEMMA TopIsNewest ==
  ASSUME NEW L, Operands(L), NEW h, HeapOf(L, h), Sorted(L, h, Len(h)), NEW z \in Nat,
         \A i \in 1..Len(h) : Behind(L, h[i], z), IdAt(L, h[1]) # 0
  PROVE  /\ IdAt(L, h[1]) \in DocID /\ (z # 0 => IdAt(L, h[1]) < z)
         /\ h[1].list \in 1..Len(L) /\ h[1].pos \in 1..Len(L[h[1].list])
         /\ L[h[1].list][h[1].pos][1] = IdAt(L, h[1])
         /\ \A l \in 1..Len(L) : \A k \in 1..Len(L[l]) : L[l][k][1] = IdAt(L, h[1]) => l <= h[1].list
<1> DEFINE D == IdAt(L, h[1])
           t == h[1]
<1>0. Len(h) \in Nat /\ 1 \in 1..Len(h) /\ \A i \in 1..Len(h) : h[i] \in Cursors(L)
  BY HeapFacts
<1>1. /\ t.list \in 1..Len(L) /\ t.pos \in Nat /\ t.pos >= 1 /\ t.pos <= Len(L[t.list])
      /\ D = L[t.list][t.pos][1] /\ D \in DocID /\ D \in Nat
  BY <1>0, IdFacts
<1>2. Len(L[t.list]) \in Nat
  BY <1>1, OperandFacts
<1>3. t.pos \in 1..Len(L[t.list])
  BY <1>1, <1>2
<1>4. z # 0 => D < z
  <2>1. Behind(L, t, z)
    BY <1>0
  <2>2. ~(t.pos < t.pos)
    BY <1>1
  <2> QED
    BY <1>1, <1>3, <2>1, <2>2 DEF Behind
<1>5. ASSUME NEW l \in 1..Len(L), NEW k \in 1..Len(L[l]), L[l][k][1] = D PROVE l <= t.list
  <2>1. PICK i \in 1..Len(h) : h[i].list = l
    BY DEF HeapOf
  <2>2. Behind(L, h[i], z)
    OBVIOUS
  <2>3. ~(k < h[i].pos)
    BY <1>1, <1>4, <1>5, <2>1, <2>2 DEF Behind
  <2>4. h[i].pos \in Nat /\ k \in Nat /\ IdAt(L, h[i]) \in Nat /\ (k >= h[i].pos => L[l][k][1] <= IdAt(L, h[i]))
    BY <1>0, <2>1, IdFacts, OperandFacts
  <2>5. D <= IdAt(L, h[i])
    BY <1>5, <2>3, <2>4
  <2>6. ~Gt(L, h[i], t)
    BY TopGreatest
  <2>7. ~(h[i].list > t.list)
    BY <1>1, <2>4, <2>5, <2>6 DEF Gt
  <2> QED
    BY <1>1, <2>1, <2>7
<1> QED
  BY <1>1, <1>3, <1>4, <1>5

(***************************************************************************)
(* What the operands say of an id.                                         *)
(***************************************************************************)
Newest(L) == [d \in DocID |-> NewestState([i \in DOMAIN L |-> AsDocList(L[i])], d)]

\* A list in order gives an id the state of its one entry for it.
LEMMA AsDocListIs ==
  ASSUME NEW s \in Seq(Entry), InOrder(s), NEW d \in DocID
  PROVE  /\ \A k \in 1..Len(s) : s[k][1] = d => AsDocList(s)[d] = s[k][2]
         /\ (\A k \in 1..Len(s) : s[k][1] # d) => AsDocList(s)[d] = "None"
<1>0. /\ Len(s) \in Nat /\ DOMAIN s = 1..Len(s)
      /\ \A k \in 1..Len(s) : s[k][1] \in Nat
      /\ \A j, k \in 1..Len(s) : j < k => s[j][1] > s[k][1]
  <2>1. Len(s) \in Nat /\ DOMAIN s = 1..Len(s) /\ \A k \in 1..Len(s) : s[k] \in Entry
    OBVIOUS
  <2>2. \A k \in 1..Len(s) : s[k][1] \in Nat
    BY <2>1, DocListsAssumption DEF Entry
  <2> QED
    BY <2>1, <2>2 DEF InOrder
<1>1. AsDocList(s)[d] = IF \E k \in 1..Len(s) : s[k][1] = d
                        THEN s[CHOOSE k \in 1..Len(s) : s[k][1] = d][2] ELSE "None"
  BY <1>0 DEF AsDocList
<1>2. ASSUME NEW k \in 1..Len(s), s[k][1] = d PROVE AsDocList(s)[d] = s[k][2]
  <2> DEFINE c == CHOOSE j \in 1..Len(s) : s[j][1] = d
  <2>1. c \in 1..Len(s) /\ s[c][1] = d
    BY <1>2
  <2> HIDE DEF c
  <2>2. c = k
    <3>1. c \in Nat /\ k \in Nat
      BY <1>0, <2>1
    <3>2. ~(c < k) /\ ~(k < c)
      BY <1>0, <1>2, <2>1
    <3> QED
      BY <3>1, <3>2
  <2> QED
    BY <1>1, <1>2, <2>2 DEF c
<1> QED
  BY <1>1, <1>2

\* Every operand is a doc list,
LEMMA OperandLists ==
  ASSUME NEW L, Operands(L), NEW l \in 1..Len(L), NEW d \in DocID
  PROVE  /\ \A k \in 1..Len(L[l]) : L[l][k][1] = d => AsDocList(L[l])[d] = L[l][k][2] /\ AsDocList(L[l])[d] # "None"
         /\ (\A k \in 1..Len(L[l]) : L[l][k][1] # d) => AsDocList(L[l])[d] = "None"
<1>1. L[l] \in Seq(Entry) /\ DOMAIN L = 1..Len(L) /\ \A k \in 1..Len(L[l]) : L[l][k][2] \in {"OK", "Delete"}
  BY OperandFacts
<1>2. InOrder(L[l])
  BY DEF Operands
<1> QED
  BY <1>1, <1>2, AsDocListIs

\* an id has the state of the newest one that mentions it,
LEMMA NewestIs ==
  ASSUME NEW L, Operands(L), NEW d \in DocID, NEW l \in 1..Len(L), NEW k \in 1..Len(L[l]), L[l][k][1] = d,
         \A i \in 1..Len(L) : \A j \in 1..Len(L[i]) : L[i][j][1] = d => i <= l
  PROVE  Newest(L)[d] = L[l][k][2]
<1> DEFINE A == [i \in DOMAIN L |-> AsDocList(L[i])]
           H == {i \in DOMAIN A : A[i][d] # "None"}
           c == CHOOSE i \in H : \A j \in H : j <= i
<1>0. DOMAIN L = 1..Len(L) /\ Len(L) \in Nat
  BY OperandFacts
<1>1. DOMAIN A = 1..Len(L) /\ \A i \in 1..Len(L) : A[i] = AsDocList(L[i])
  BY <1>0
<1>2. l \in H
  BY <1>1, OperandLists
<1>3. ASSUME NEW i \in H PROVE i <= l
  <2>1. i \in 1..Len(L) /\ AsDocList(L[i])[d] # "None"
    BY <1>1
  <2>2. (\A j \in 1..Len(L[i]) : L[i][j][1] # d) => AsDocList(L[i])[d] = "None"
    BY <2>1, OperandLists
  <2>3. \E j \in 1..Len(L[i]) : L[i][j][1] = d
    BY <2>1, <2>2
  <2> QED
    BY <2>1, <2>3
<1>4. c = l
  <2>1. c \in H /\ \A j \in H : j <= c
    BY <1>2, <1>3
  <2>2. c \in Nat /\ l \in Nat
    BY <1>0, <1>1, <2>1
  <2> HIDE DEF c, H
  <2> QED
    BY <1>2, <1>3, <2>1, <2>2
<1>5. NewestState(A, d) = A[c][d]
  BY <1>2 DEF NewestState
<1>6. A[l][d] = L[l][k][2]
  BY <1>1, OperandLists
<1> QED
  BY <1>4, <1>5, <1>6 DEF Newest

\* and one that none mentions has none.
LEMMA NewestOf ==
  ASSUME NEW L, Operands(L), NEW d \in DocID, \A i \in 1..Len(L) : \A j \in 1..Len(L[i]) : L[i][j][1] # d
  PROVE  Newest(L)[d] = "None"
<1> DEFINE A == [i \in DOMAIN L |-> AsDocList(L[i])]
<1>0. DOMAIN L = 1..Len(L) /\ Len(L) \in Nat
  BY DEF Operands
<1>1. ASSUME NEW i \in DOMAIN A PROVE A[i][d] = "None"
  <2>1. i \in 1..Len(L) /\ A[i] = AsDocList(L[i])
    BY <1>0
  <2>2. AsDocList(L[i])[d] = "None"
    BY <2>1, OperandLists
  <2> QED
    BY <2>1, <2>2
<1>2. NewestState(A, d) = "None"
  BY <1>1 DEF NewestState
<1> QED
  BY <1>2 DEF Newest

(***************************************************************************)
(* What has been written.                                                  *)
(***************************************************************************)
\* The ids from z on that are in state s; z = 0 at the start.
Handled(f, z, s) == {d \in DocID : z # 0 /\ d >= z /\ f[d] = s}

\* Of the ids from z on, o has those that Kept keeps; ok and del count them as far as
\* the code does.
Written(f, z, p, o, ok, del) ==
  /\ o \in Seq(Entry) /\ InOrder(o)
  /\ \A k \in 1..Len(o) : z # 0 /\ o[k][1] >= z /\ Kept(f, o[k][1], p) /\ o[k][2] = f[o[k][1]]
  /\ \A d \in DocID : z # 0 /\ d >= z /\ Kept(f, d, p) => \E k \in 1..Len(o) : o[k][1] = d
  /\ ok = IF Cardinality(Handled(f, z, "OK")) < MaxDocs THEN Cardinality(Handled(f, z, "OK")) ELSE MaxDocs
  /\ del = IF p THEN 0 ELSE Cardinality(Handled(f, z, "Delete"))

AllBehind(L, h, z) == \A i \in 1..Len(h) : Behind(L, h[i], z)
AllAround(L, h, z) == \A i \in 1..Len(h) : Around(L, h[i], z)

\* The limits of a merge that goes on.
WithinLimits(p, ok, del) == (p => ok < MaxDocs) /\ (~p => del <= MaxDeletes)

\* Everything to be kept is among the ids from z on.
Through(f, z, p) == \A d \in DocID : Kept(f, d, p) => z # 0 /\ d >= z

HeapInv ==
  /\ Operands(lists) /\ purge \in BOOLEAN
  /\ pc \in {"decode", "build", "up", "emit", "skip", "down", "done"}
  /\ built \in Nat /\ sift \in Nat /\ last \in Nat
  /\ pc # "decode" => HeapOf(lists, heap)
  /\ pc = "decode" => built = 0
  /\ pc = "build" => built <= Len(heap) /\ Sorted(lists, heap, built)
  /\ pc = "up" => UpAt(lists, heap, built + 1, sift)
  /\ pc \in {"emit", "skip"} => Sorted(lists, heap, Len(heap))
  /\ pc = "down" => DownAt(lists, heap, sift)
  /\ pc \in {"decode", "build", "up"} => last = 0
  /\ pc \in {"build", "up", "emit"} => AllBehind(lists, heap, last)
  /\ pc \in {"skip", "down"} => last # 0 /\ AllAround(lists, heap, last)
  /\ pc = "skip" => IdAt(lists, heap[1]) = last
  /\ Written(Newest(lists), last, purge, out, oks, deletes)
  /\ pc # "done" => WithinLimits(purge, oks, deletes)
  /\ pc = "done" => Through(Newest(lists), last, purge)

\* Handling the next id adds at most it.
LEMMA HandledNext ==
  ASSUME NEW f, NEW z \in Nat, NEW e \in DocID, z # 0 => e < z, NEW s \in {"OK", "Delete"},
         \A d \in DocID : d > e /\ f[d] # "None" => z # 0 /\ d >= z
  PROVE  /\ Above(f, e, s) = Cardinality(Handled(f, z, s)) /\ Cardinality(Handled(f, z, s)) \in Nat
         /\ Cardinality(Handled(f, e, s)) = IF f[e] = s THEN Cardinality(Handled(f, z, s)) + 1
                                            ELSE Cardinality(Handled(f, z, s))
<1> DEFINE A == Handled(f, z, s)
           N == Handled(f, e, s)
<1>0. IsFiniteSet(DocID) /\ DocID \in SUBSET Nat /\ e \in Nat /\ e # 0 /\ \A d \in DocID : d \in Nat
  BY DocListsAssumption
<1>1. IsFiniteSet(A) /\ Cardinality(A) \in Nat
  <2>1. A \in SUBSET DocID
    BY DEF Handled
  <2> QED
    BY <1>0, <2>1, FS_Subset, FS_CardinalityType
<1>2. {d \in DocID : d > e /\ f[d] = s} = A
  <2>1. ASSUME NEW d \in DocID, d > e, f[d] = s PROVE d \in A
    BY <2>1 DEF Handled
  <2>2. ASSUME NEW d \in A PROVE d \in DocID /\ d > e /\ f[d] = s
    <3>1. d \in DocID /\ z # 0 /\ d >= z /\ f[d] = s
      BY DEF Handled
    <3> QED
      BY <1>0, <3>1
  <2> QED
    BY <2>1, <2>2
<1>3. e \notin A
  BY <1>0 DEF Handled
<1>4. CASE f[e] = s
  <2>1. N = A \cup {e}
    <3>1. ASSUME NEW d \in N PROVE d \in A \cup {e}
      <4>1. d \in DocID /\ d >= e /\ f[d] = s
        BY DEF Handled
      <4>2. d = e \/ d > e
        BY <1>0, <4>1
      <4> QED
        BY <1>2, <4>1, <4>2
    <3>2. ASSUME NEW d \in A PROVE d \in N
      <4>1. d \in DocID /\ d > e /\ f[d] = s
        BY <1>2
      <4> QED
        BY <1>0, <4>1 DEF Handled
    <3>3. e \in N
      BY <1>0, <1>4 DEF Handled
    <3> QED
      BY <3>1, <3>2, <3>3
  <2>2. Cardinality(A \cup {e}) = Cardinality(A) + 1
    BY <1>1, <1>3, FS_AddElement
  <2> QED
    BY <1>1, <1>2, <1>4, <2>1, <2>2 DEF Above
<1>5. CASE f[e] # s
  <2>1. N = A
    <3>1. ASSUME NEW d \in N PROVE d \in A
      <4>1. d \in DocID /\ d >= e /\ f[d] = s
        BY DEF Handled
      <4>2. d > e
        BY <1>0, <1>5, <4>1
      <4> QED
        BY <1>2, <4>1, <4>2
    <3>2. ASSUME NEW d \in A PROVE d \in N
      <4>1. d \in DocID /\ d > e /\ f[d] = s
        BY <1>2
      <4> QED
        BY <1>0, <4>1 DEF Handled
    <3> QED
      BY <3>1, <3>2
  <2> QED
    BY <1>1, <1>2, <1>5, <2>1 DEF Above
<1> QED
  BY <1>4, <1>5

\* A smaller id has all those handled above it.
LEMMA HandledAbove ==
  ASSUME NEW f, NEW e \in DocID, NEW d \in DocID, d < e, NEW s
  PROVE  Above(f, d, s) \in Nat /\ Above(f, d, s) >= Cardinality(Handled(f, e, s))
<1> DEFINE A == {x \in DocID : x > d /\ f[x] = s}
           N == Handled(f, e, s)
<1>0. IsFiniteSet(DocID) /\ \A x \in DocID : x \in Nat
  BY DocListsAssumption
<1>1. IsFiniteSet(A)
  BY <1>0, FS_Subset
<1>2. N \subseteq A
  <2>1. ASSUME NEW x \in N PROVE x \in A
    <3>1. x \in DocID /\ x >= e /\ f[x] = s
      BY DEF Handled
    <3> QED
      BY <1>0, <3>1
  <2> QED
    BY <2>1
<1>3. Cardinality(N) <= Cardinality(A) /\ Cardinality(A) \in Nat /\ Cardinality(N) \in Nat
  BY <1>1, <1>2, FS_Subset, FS_CardinalityType
<1> QED
  BY <1>3 DEF Above

\* Emit: whether an entry in this state is written,
Adds(state, p, ok) == IF state = "Delete" THEN ~p ELSE p \/ ok < MaxDocs

\* what it leaves of the output and the counters,
Emitted(e, state, p, o, ok, del, q, ok2, del2) ==
  /\ q = IF Adds(state, p, ok) THEN Append(o, <<e, state>>) ELSE o
  /\ ok2 = IF Adds(state, p, ok) /\ state # "Delete" THEN ok + 1 ELSE ok
  /\ del2 = IF Adds(state, p, ok) /\ state = "Delete" THEN del + 1 ELSE del

\* and whether a limit ends the merge.
Stops(state, p, ok, del) ==
  IF state = "Delete" THEN ~p /\ del + 1 > MaxDeletes ELSE p /\ ok + 1 >= MaxDocs

\* What Emit adds is what Kept keeps,
LEMMA EmitKeeps ==
  ASSUME NEW f, NEW z \in Nat, NEW p \in BOOLEAN, NEW o, NEW ok, NEW del, Written(f, z, p, o, ok, del),
         WithinLimits(p, ok, del), NEW e \in DocID, z # 0 => e < z, f[e] \in {"OK", "Delete"},
         \A d \in DocID : d > e /\ f[d] # "None" => z # 0 /\ d >= z
  PROVE  /\ Kept(f, e, p) <=> IF f[e] = "Delete" THEN ~p ELSE p \/ ok < MaxDocs
         /\ ok \in Nat /\ del \in Nat
         /\ Cardinality(Handled(f, e, "OK")) \in Nat /\ Cardinality(Handled(f, e, "Delete")) \in Nat
         /\ f[e] = "OK" => /\ Cardinality(Handled(f, e, "Delete")) = Cardinality(Handled(f, z, "Delete"))
                           /\ IF ok < MaxDocs THEN Cardinality(Handled(f, e, "OK")) = ok + 1
                              ELSE Cardinality(Handled(f, e, "OK")) > MaxDocs
         /\ f[e] = "Delete" => /\ Cardinality(Handled(f, e, "OK")) = Cardinality(Handled(f, z, "OK"))
                               /\ ~p => Cardinality(Handled(f, e, "Delete")) = del + 1
<1> DEFINE x == Cardinality(Handled(f, z, "OK"))
           y == Cardinality(Handled(f, z, "Delete"))
           u == Cardinality(Handled(f, e, "OK"))
           v == Cardinality(Handled(f, e, "Delete"))
<1>1. /\ Above(f, e, "OK") = x /\ x \in Nat /\ Above(f, e, "Delete") = y /\ y \in Nat
      /\ u = (IF f[e] = "OK" THEN x + 1 ELSE x) /\ v = (IF f[e] = "Delete" THEN y + 1 ELSE y)
  <2>1. "OK" \in {"OK", "Delete"} /\ "Delete" \in {"OK", "Delete"}
    OBVIOUS
  <2>2. Above(f, e, "OK") = x /\ x \in Nat /\ u = IF f[e] = "OK" THEN x + 1 ELSE x
    BY <2>1, HandledNext
  <2>3. Above(f, e, "Delete") = y /\ y \in Nat /\ v = IF f[e] = "Delete" THEN y + 1 ELSE y
    BY <2>1, HandledNext
  <2> QED
    BY <2>2, <2>3
<1>2. ok = (IF x < MaxDocs THEN x ELSE MaxDocs) /\ del = IF p THEN 0 ELSE y
  BY DEF Written
<1>3. MaxDocs \in Nat /\ MaxDeletes \in Nat
  BY DocListsAssumption
<1>4. (p => ok < MaxDocs) /\ (~p => del <= MaxDeletes)
  BY DEF WithinLimits
<1> HIDE DEF x, y, u, v
<1>5. CASE f[e] = "OK"
  <2>1. Kept(f, e, p) <=> (x < MaxDocs /\ (p \/ y <= MaxDeletes))
    BY <1>1, <1>5 DEF Kept
  <2>2. u = x + 1 /\ v = y
    BY <1>1, <1>5
  <2>3. Kept(f, e, p) <=> (p \/ ok < MaxDocs)
    BY <1>1, <1>2, <1>3, <1>4, <2>1
  <2>4. IF ok < MaxDocs THEN u = ok + 1 ELSE u > MaxDocs
    BY <1>1, <1>2, <1>3, <2>2
  <2>5. ok \in Nat /\ del \in Nat /\ u \in Nat /\ v \in Nat
    BY <1>1, <1>2, <1>3, <2>2
  <2> QED
    BY <1>5, <2>2, <2>3, <2>4, <2>5 DEF u, v, y
<1>6. CASE f[e] = "Delete"
  <2>1. Kept(f, e, p) <=> (~p /\ y <= MaxDeletes)
    BY <1>1, <1>6 DEF Kept
  <2>2. u = x /\ v = y + 1
    BY <1>1, <1>6
  <2>3. Kept(f, e, p) <=> ~p
    BY <1>1, <1>2, <1>3, <1>4, <2>1
  <2>4. ~p => v = del + 1
    BY <1>1, <1>2, <2>2
  <2>5. ok \in Nat /\ del \in Nat /\ u \in Nat /\ v \in Nat
    BY <1>1, <1>2, <1>3, <2>2
  <2> QED
    BY <1>6, <2>2, <2>3, <2>4, <2>5 DEF u, v, x
<1> QED
  BY <1>5, <1>6

\* so the entries written stay those that Kept keeps, in order,
LEMMA EmitWrites ==
  ASSUME NEW f, NEW z \in Nat, NEW p \in BOOLEAN, NEW o, NEW ok, NEW del, Written(f, z, p, o, ok, del),
         WithinLimits(p, ok, del), NEW e \in DocID, z # 0 => e < z, f[e] \in {"OK", "Delete"},
         \A d \in DocID : d > e /\ f[d] # "None" => z # 0 /\ d >= z,
         NEW q, NEW ok2, NEW del2, Emitted(e, f[e], p, o, ok, del, q, ok2, del2)
  PROVE  Written(f, e, p, q, ok2, del2)
<1> DEFINE n == Len(o)
           add == Adds(f[e], p, ok)
<1>1. /\ o \in Seq(Entry) /\ InOrder(o) /\ n \in Nat /\ DOMAIN o = 1..n
      /\ \A k \in 1..n : z # 0 /\ o[k][1] >= z /\ Kept(f, o[k][1], p) /\ o[k][2] = f[o[k][1]]
      /\ \A d \in DocID : z # 0 /\ d >= z /\ Kept(f, d, p) => \E k \in 1..n : o[k][1] = d
  BY DEF Written
<1>2. \A d \in DocID : d \in Nat /\ d # 0
  BY DocListsAssumption
<1>3. \A k \in 1..n : o[k] \in Entry /\ o[k][1] \in DocID /\ o[k][1] \in Nat
  BY <1>1, <1>2 DEF Entry
<1>4. \A j, k \in 1..n : j < k => o[j][1] > o[k][1]
  BY <1>1 DEF InOrder
<1>5. Kept(f, e, p) <=> add
  <2>1. Kept(f, e, p) <=> IF f[e] = "Delete" THEN ~p ELSE p \/ ok < MaxDocs
    BY EmitKeeps
  <2> QED
    BY <2>1 DEF Adds
<1>6. <<e, f[e]>> \in Entry
  BY DEF Entry
<1>7. \A k \in 1..n : o[k][1] > e
  BY <1>1, <1>2, <1>3
<1>8. \A d \in DocID : Kept(f, d, p) => f[d] # "None"
  BY DEF Kept
<1>9. ASSUME NEW d \in DocID, d > e, Kept(f, d, p) PROVE \E k \in 1..n : o[k][1] = d
  BY <1>1, <1>8, <1>9
<1>10. /\ q \in Seq(Entry) /\ InOrder(q)
       /\ \A k \in 1..Len(q) : q[k][1] >= e /\ Kept(f, q[k][1], p) /\ q[k][2] = f[q[k][1]]
       /\ \A d \in DocID : d >= e /\ Kept(f, d, p) => \E k \in 1..Len(q) : q[k][1] = d
  <2>1. CASE add
    <3>1. q = Append(o, <<e, f[e]>>)
      BY <2>1 DEF Emitted
    <3>2. q \in Seq(Entry) /\ Len(q) = n + 1 /\ q[n + 1] = <<e, f[e]>> /\ \A k \in 1..n : q[k] = o[k]
      BY <1>1, <1>6, <3>1
    <3>3. \A k \in 1..Len(q) : k \in 1..n \/ k = n + 1
      BY <1>1, <3>2
    <3>4. DOMAIN q = 1..Len(q)
      BY <3>2
    <3>5. ASSUME NEW j \in 1..Len(q), NEW k \in 1..Len(q), j < k PROVE q[j][1] > q[k][1]
      <4>1. j \in 1..n
        BY <1>1, <3>2, <3>5
      <4>2. CASE k \in 1..n
        BY <1>4, <3>2, <3>5, <4>1, <4>2
      <4>3. CASE k = n + 1
        BY <1>7, <3>2, <4>1, <4>3
      <4> QED
        BY <3>3, <4>2, <4>3
    <3>6. ASSUME NEW k \in 1..Len(q) PROVE q[k][1] >= e /\ Kept(f, q[k][1], p) /\ q[k][2] = f[q[k][1]]
      <4>1. CASE k \in 1..n
        <5>1. q[k] = o[k] /\ o[k][1] > e /\ o[k][1] \in Nat /\ e \in Nat
          BY <1>2, <1>3, <1>7, <3>2, <4>1
        <5> QED
          BY <1>1, <4>1, <5>1
      <4>2. CASE k = n + 1
        BY <1>2, <1>5, <2>1, <3>2, <4>2
      <4> QED
        BY <3>3, <4>1, <4>2
    <3>7. ASSUME NEW d \in DocID, d >= e, Kept(f, d, p) PROVE \E k \in 1..Len(q) : q[k][1] = d
      <4>1. CASE d = e
        <5>1. n + 1 \in 1..Len(q)
          BY <1>1, <3>2
        <5> QED
          BY <3>2, <4>1, <5>1
      <4>2. CASE d > e
        <5>1. PICK k \in 1..n : o[k][1] = d
          BY <1>9, <3>7, <4>2
        <5>2. k \in 1..Len(q)
          BY <1>1, <3>2
        <5> QED
          BY <3>2, <5>1, <5>2
      <4> QED
        BY <1>2, <3>7, <4>1, <4>2
    <3> QED
      BY <3>2, <3>4, <3>5, <3>6, <3>7 DEF InOrder
  <2>2. CASE ~add
    <3>1. q = o
      BY <2>2 DEF Emitted
    <3>2. ASSUME NEW k \in 1..n PROVE o[k][1] >= e
      BY <1>2, <1>3, <1>7
    <3>3. ASSUME NEW d \in DocID, d >= e, Kept(f, d, p) PROVE \E k \in 1..n : o[k][1] = d
      <4>1. d # e
        BY <1>5, <2>2, <3>3
      <4>2. d > e
        BY <1>2, <3>3, <4>1
      <4> QED
        BY <1>9, <3>3, <4>2
    <3> QED
      BY <1>1, <3>1, <3>2, <3>3
  <2> QED
    BY <2>1, <2>2
<1> DEFINE x == Cardinality(Handled(f, e, "OK"))
           y == Cardinality(Handled(f, e, "Delete"))
<1>11. ok2 = (IF x < MaxDocs THEN x ELSE MaxDocs) /\ del2 = IF p THEN 0 ELSE y
  <2>1. MaxDocs \in Nat /\ MaxDeletes \in Nat
    BY DocListsAssumption
  <2>2. /\ ok = IF Cardinality(Handled(f, z, "OK")) < MaxDocs THEN Cardinality(Handled(f, z, "OK")) ELSE MaxDocs
        /\ del = IF p THEN 0 ELSE Cardinality(Handled(f, z, "Delete"))
    BY DEF Written
  <2>3. p => ok < MaxDocs
    BY DEF WithinLimits
  <2>4. ok \in Nat /\ del \in Nat /\ x \in Nat /\ y \in Nat
    BY EmitKeeps
  <2>5. CASE f[e] = "OK"
    <3>1. y = Cardinality(Handled(f, z, "Delete")) /\ IF ok < MaxDocs THEN x = ok + 1 ELSE x > MaxDocs
      BY <2>5, EmitKeeps
    <3>2. del2 = del /\ ok2 = IF ok < MaxDocs THEN ok + 1 ELSE ok
      BY <2>3, <2>5 DEF Emitted, Adds
    <3>3. ok <= MaxDocs
      BY <2>1, <2>2, <2>4
    <3> HIDE DEF x, y
    <3>4. ok2 = IF x < MaxDocs THEN x ELSE MaxDocs
      BY <2>1, <2>4, <3>1, <3>2, <3>3
    <3> QED
      BY <2>2, <3>1, <3>2, <3>4
  <2>6. CASE f[e] = "Delete"
    <3>1. x = Cardinality(Handled(f, z, "OK")) /\ (~p => y = del + 1)
      BY <2>6, EmitKeeps
    <3>2. ok2 = ok /\ del2 = IF p THEN del ELSE del + 1
      BY <2>6 DEF Emitted, Adds
    <3> HIDE DEF x, y
    <3> QED
      BY <2>2, <3>1, <3>2
  <2> QED
    BY <2>5, <2>6
<1>12. e # 0
  BY <1>2
<1> QED
  BY <1>10, <1>11, <1>12 DEF Written

\* and a limit ends the merge only when nothing that is left would be kept.
LEMMA EmitStops ==
  ASSUME NEW f, NEW z \in Nat, NEW p \in BOOLEAN, NEW o, NEW ok, NEW del, Written(f, z, p, o, ok, del),
         WithinLimits(p, ok, del), NEW e \in DocID, z # 0 => e < z, f[e] \in {"OK", "Delete"},
         \A d \in DocID : d > e /\ f[d] # "None" => z # 0 /\ d >= z,
         Stops(f[e], p, ok, del)
  PROVE  Through(f, e, p)
<1>0. /\ \A d \in DocID : d \in Nat /\ d # 0
      /\ MaxDocs \in Nat /\ MaxDeletes \in Nat
  BY DocListsAssumption
<1>1. /\ ok \in Nat /\ del \in Nat
      /\ Cardinality(Handled(f, e, "OK")) \in Nat /\ Cardinality(Handled(f, e, "Delete")) \in Nat
  BY EmitKeeps
<1>2. CASE f[e] = "OK"
  <2>1. p /\ ok < MaxDocs /\ ok + 1 >= MaxDocs
    BY <1>2 DEF WithinLimits, Stops
  <2>2. IF ok < MaxDocs THEN Cardinality(Handled(f, e, "OK")) = ok + 1
        ELSE Cardinality(Handled(f, e, "OK")) > MaxDocs
    BY <1>2, EmitKeeps
  <2>3. ASSUME NEW d \in DocID, d < e, Kept(f, d, p) PROVE FALSE
    <3>1. Above(f, d, "OK") \in Nat /\ Above(f, d, "OK") >= Cardinality(Handled(f, e, "OK"))
      BY <2>3, HandledAbove
    <3>2. Above(f, d, "OK") >= MaxDocs
      BY <1>0, <1>1, <2>1, <2>2, <3>1
    <3> QED
      BY <1>0, <2>1, <2>3, <3>1, <3>2 DEF Kept
  <2> QED
    BY <1>0, <2>3 DEF Through
<1>3. CASE f[e] = "Delete"
  <2>1. ~p /\ del + 1 > MaxDeletes
    BY <1>3 DEF Stops
  <2>2. /\ Cardinality(Handled(f, e, "OK")) = Cardinality(Handled(f, z, "OK"))
        /\ ~p => Cardinality(Handled(f, e, "Delete")) = del + 1
    BY <1>3, EmitKeeps
  <2>3. ASSUME NEW d \in DocID, d < e, Kept(f, d, p) PROVE FALSE
    <3>1. Above(f, d, "Delete") \in Nat /\ Above(f, d, "Delete") >= Cardinality(Handled(f, e, "Delete"))
      BY <2>3, HandledAbove
    <3>2. Above(f, d, "Delete") > MaxDeletes
      BY <1>0, <1>1, <2>1, <2>2, <3>1
    <3> QED
      BY <1>0, <2>1, <2>3, <3>1, <3>2 DEF Kept
  <2> QED
    BY <1>0, <2>3 DEF Through
<1> QED
  BY <1>2, <1>3

\* What is written then is the merged list.
LEMMA WrittenMerged ==
  ASSUME NEW f, NEW z \in Nat, NEW p \in BOOLEAN, NEW o, NEW ok, NEW del, Written(f, z, p, o, ok, del),
         Through(f, z, p)
  PROVE  AsDocList(o) = [d \in DocID |-> IF Kept(f, d, p) THEN f[d] ELSE "None"]
<1>1. /\ o \in Seq(Entry) /\ InOrder(o)
      /\ \A k \in 1..Len(o) : z # 0 /\ o[k][1] >= z /\ Kept(f, o[k][1], p) /\ o[k][2] = f[o[k][1]]
      /\ \A d \in DocID : z # 0 /\ d >= z /\ Kept(f, d, p) => \E k \in 1..Len(o) : o[k][1] = d
  BY DEF Written
<1>2. ASSUME NEW d \in DocID PROVE AsDocList(o)[d] = IF Kept(f, d, p) THEN f[d] ELSE "None"
  <2>1. CASE Kept(f, d, p)
    <3>1. PICK k \in 1..Len(o) : o[k][1] = d
      BY <1>1, <2>1 DEF Through
    <3>2. AsDocList(o)[d] = o[k][2]
      BY <1>1, <3>1, AsDocListIs
    <3> QED
      BY <1>1, <2>1, <3>1, <3>2
  <2>2. CASE ~Kept(f, d, p)
    <3>1. \A k \in 1..Len(o) : o[k][1] # d
      BY <1>1, <2>2
    <3>2. AsDocList(o)[d] = "None"
      BY <1>1, <3>1, AsDocListIs
    <3> QED
      BY <2>2, <3>2
  <2> QED
    BY <2>1, <2>2
<1> QED
  BY <1>2 DEF AsDocList

(***************************************************************************)
(* The steps, on the cursors.                                              *)
(***************************************************************************)
\* Cursors that change places are as far as before.
LEMMA ExchangedKeeps ==
  ASSUME NEW L, NEW g, NEW h, NEW i, NEW j, Exchanged(g, h, i, j), NEW z
  PROVE  (AllBehind(L, h, z) => AllBehind(L, g, z)) /\ (AllAround(L, h, z) => AllAround(L, g, z))
BY DEF Exchanged, AllBehind, AllAround

\* At the start there is a cursor on the first entry of every list.
LEMMA StartCursors ==
  ASSUME NEW L, Operands(L), NEW h, h = [i \in DOMAIN L |-> [list |-> i, pos |-> 1]]
  PROVE  HeapOf(L, h) /\ Sorted(L, h, 0) /\ AllBehind(L, h, 0) /\ Len(h) \in Nat
<1>1. Len(L) \in Nat /\ DOMAIN L = 1..Len(L)
  BY DEF Operands
<1>2. h \in Seq(Cursors(L)) /\ Len(h) = Len(L)
  BY <1>1 DEF Cursors
<1>3. \A i \in 1..Len(L) : h[i].list = i /\ h[i].pos = 1
  BY <1>1
<1>4. HeapOf(L, h)
  BY <1>2, <1>3 DEF HeapOf
<1>5. AllBehind(L, h, 0)
  <2>1. ASSUME NEW i \in 1..Len(h), NEW k \in 1..Len(L[h[i].list]) PROVE ~(k < h[i].pos)
    <3>1. Len(L[h[i].list]) \in Nat
      BY <1>2, <1>3, OperandFacts
    <3> QED
      BY <1>2, <1>3, <3>1
  <2> QED
    BY <2>1 DEF AllBehind, Behind
<1> QED
  BY <1>1, <1>2, <1>4, <1>5 DEF Sorted

\* The next cursor is sifted up from the place behind the heap.
LEMMA NextCursor ==
  ASSUME NEW L, Operands(L), NEW h, HeapOf(L, h), NEW m \in Nat, m < Len(h), Sorted(L, h, m)
  PROVE  UpAt(L, h, m + 1, m + 1)
<1>0. Len(h) \in Nat
  BY HeapFacts
<1>1. m + 1 \in 1..Len(h) /\ m + 1 \in 1..(m + 1)
  BY <1>0
<1>2. ASSUME NEW i \in 2..(m + 1), i # m + 1 PROVE ~Gt(L, h[i], h[i \div 2])
  <2>1. i \in 2..m
    BY <1>2
  <2> QED
    BY <2>1 DEF Sorted
<1>3. ASSUME NEW i \in 2..(m + 1), i \div 2 = m + 1 PROVE FALSE
  BY <1>3
<1> QED
  BY <1>1, <1>2, <1>3 DEF UpAt

\* Skip moves the top, which is on the id written, to its next entry.
LEMMA TopMoves ==
  ASSUME NEW L, Operands(L), NEW h, HeapOf(L, h), Sorted(L, h, Len(h)), NEW z \in Nat, z # 0, AllAround(L, h, z),
         IdAt(L, h[1]) = z, NEW g, g = [h EXCEPT ![1].pos = @ + 1]
  PROVE  HeapOf(L, g) /\ DownAt(L, g, 1) /\ AllAround(L, g, z)
<1>0. /\ Len(h) \in Nat /\ 1 \in 1..Len(h) /\ Len(h) = Len(L) /\ h \in Seq(Cursors(L)) /\ DOMAIN h = 1..Len(h)
      /\ \A i \in 1..Len(h) : h[i] \in Cursors(L)
  BY HeapFacts
<1>1. h[1].list \in 1..Len(L) /\ h[1].pos \in Nat \ {0} /\ h[1] = [list |-> h[1].list, pos |-> h[1].pos]
  BY <1>0 DEF Cursors
<1> DEFINE t == [list |-> h[1].list, pos |-> h[1].pos + 1]
<1>2. t \in Cursors(L) /\ t.list = h[1].list /\ t.pos = h[1].pos + 1
  BY <1>1 DEF Cursors
<1>3. g = [h EXCEPT ![1] = t]
  <2>1. h[1] \in [list : 1..Len(L), pos : Nat \ {0}]
    BY <1>0 DEF Cursors
  <2>2. [h[1] EXCEPT !.pos = @ + 1] = t
    BY <2>1
  <2>3. g = [h EXCEPT ![1] = [h[1] EXCEPT !.pos = @ + 1]]
    BY <1>0
  <2> QED
    BY <2>2, <2>3
<1> HIDE DEF t
<1>4. /\ g \in Seq(Cursors(L)) /\ Len(g) = Len(h) /\ g[1] = t
      /\ \A i \in 1..Len(h) : i # 1 => g[i] = h[i]
  BY <1>0, <1>2, <1>3
<1>5. \A i \in 1..Len(h) : g[i].list = h[i].list
  BY <1>2, <1>4
<1>6. HeapOf(L, g)
  <2>1. /\ \A i, j \in 1..Len(h) : h[i].list = h[j].list => i = j
        /\ \A l \in 1..Len(L) : \E i \in 1..Len(h) : h[i].list = l
    BY DEF HeapOf
  <2> QED
    BY <1>0, <1>4, <1>5, <2>1 DEF HeapOf
<1>7. DownAt(L, g, 1)
  <2>1. ASSUME NEW i \in 2..Len(g), i \div 2 # 1 PROVE ~Gt(L, g[i], g[i \div 2])
    <3>1. i \in 1..Len(h) /\ i # 1 /\ i \div 2 \in 1..Len(h) /\ i \in 2..Len(h)
      BY <1>0, <1>4, ParentFacts
    <3>2. g[i] = h[i] /\ g[i \div 2] = h[i \div 2]
      BY <1>4, <2>1, <3>1
    <3> QED
      BY <3>1, <3>2 DEF Sorted
  <2> QED
    BY <1>0, <1>4, <2>1 DEF DownAt
<1>8. ASSUME NEW i \in 1..Len(h) PROVE Around(L, g[i], z)
  <2>1. CASE i # 1
    BY <1>4, <2>1 DEF AllAround
  <2>2. CASE i = 1
    <3> DEFINE l == h[1].list
    <3>1. /\ Len(L[l]) \in Nat
          /\ \A k \in 1..Len(L[l]) : L[l][k][1] \in Nat
      BY <1>1, OperandFacts
    <3>2. L[l][h[1].pos][1] = z
      BY <1>0, IdFacts
    <3>3. \A k \in 1..Len(L[l]) : IF k < h[1].pos THEN L[l][k][1] >= z ELSE L[l][k][1] <= z
      BY <1>0 DEF AllAround, Around
    <3>4. g[i].list = l /\ g[i].pos = h[1].pos + 1
      BY <1>2, <1>4, <2>2
    <3> HIDE DEF l
    <3>5. ASSUME NEW k \in 1..Len(L[l])
          PROVE  IF k < h[1].pos + 1 THEN L[l][k][1] >= z ELSE L[l][k][1] <= z
      <4>1. CASE k = h[1].pos
        BY <1>1, <3>2, <4>1
      <4>2. CASE k < h[1].pos
        BY <1>1, <3>3, <4>2
      <4>3. CASE k > h[1].pos
        <5>1. ~(k < h[1].pos) /\ ~(k < h[1].pos + 1)
          BY <1>1, <3>1, <4>3
        <5> QED
          BY <3>3, <5>1
      <4>4. k \in Nat /\ h[1].pos \in Nat
        BY <1>1, <3>1
      <4> QED
        BY <4>1, <4>2, <4>3, <4>4
    <3> QED
      BY <3>4, <3>5 DEF Around
  <2> QED
    BY <2>1, <2>2
<1> QED
  BY <1>4, <1>6, <1>7, <1>8 DEF AllAround

\* When the top has left the id written, every cursor has.
LEMMA AllLeft ==
  ASSUME NEW L, Operands(L), NEW h, HeapOf(L, h), Sorted(L, h, Len(h)), NEW z \in Nat, z # 0, AllAround(L, h, z),
         IdAt(L, h[1]) # z
  PROVE  AllBehind(L, h, z)
<1>0. Len(h) \in Nat /\ 1 \in 1..Len(h) /\ \A i \in 1..Len(h) : h[i] \in Cursors(L)
  BY HeapFacts
<1>1. ASSUME NEW i \in 1..Len(h) PROVE IdAt(L, h[i]) \in Nat /\ IdAt(L, h[i]) <= z
  <2>1. /\ h[i].list \in 1..Len(L) /\ h[i].pos \in Nat /\ h[i].pos >= 1 /\ IdAt(L, h[i]) \in Nat
        /\ IdAt(L, h[i]) # 0 => IdAt(L, h[i]) = L[h[i].list][h[i].pos][1] /\ h[i].pos <= Len(L[h[i].list])
    BY <1>0, IdFacts
  <2>2. Len(L[h[i].list]) \in Nat
    BY <2>1, OperandFacts
  <2>3. CASE IdAt(L, h[i]) = 0
    BY <2>3
  <2>4. CASE IdAt(L, h[i]) # 0
    <3>1. h[i].pos \in 1..Len(L[h[i].list]) /\ ~(h[i].pos < h[i].pos)
      BY <2>1, <2>2, <2>4
    <3> QED
      BY <2>1, <2>4, <3>1 DEF AllAround, Around
  <2> QED
    BY <2>3, <2>4
<1>2. IdAt(L, h[1]) < z
  BY <1>0, <1>1
<1>3. ASSUME NEW i \in 1..Len(h), NEW k \in 1..Len(L[h[i].list])
      PROVE  k < h[i].pos <=> L[h[i].list][k][1] >= z
  <2>1. h[i].list \in 1..Len(L) /\ h[i].pos \in Nat /\ (k >= h[i].pos => L[h[i].list][k][1] <= IdAt(L, h[i]))
    BY <1>0, IdFacts
  <2>2. k \in Nat /\ L[h[i].list][k][1] \in Nat
    BY <2>1, OperandFacts
  <2>3. ~Gt(L, h[i], h[1])
    BY TopGreatest
  <2>4. IdAt(L, h[i]) < z
    BY <1>0, <1>1, <1>2, <2>3 DEF Gt
  <2>5. k < h[i].pos => L[h[i].list][k][1] >= z
    BY DEF AllAround, Around
  <2> QED
    BY <1>1, <2>1, <2>2, <2>4, <2>5
<1> QED
  BY <1>3 DEF AllBehind, Behind

\* A cursor behind the ids from z on is around the next id e.
LEMMA BehindAround ==
  ASSUME NEW L, Operands(L), NEW h, HeapOf(L, h), Sorted(L, h, Len(h)), NEW z \in Nat, AllBehind(L, h, z),
         IdAt(L, h[1]) # 0
  PROVE  AllAround(L, h, IdAt(L, h[1]))
<1> DEFINE e == IdAt(L, h[1])
<1>0. Len(h) \in Nat /\ 1 \in 1..Len(h) /\ \A i \in 1..Len(h) : h[i] \in Cursors(L)
  BY HeapFacts
<1>1. e \in Nat /\ (z # 0 => e < z)
  <2>1. \A i \in 1..Len(h) : Behind(L, h[i], z)
    BY DEF AllBehind
  <2> QED
    BY <1>0, <2>1, IdFacts, TopIsNewest
<1> HIDE DEF e
<1>2. ASSUME NEW i \in 1..Len(h), NEW k \in 1..Len(L[h[i].list])
      PROVE  IF k < h[i].pos THEN L[h[i].list][k][1] >= e ELSE L[h[i].list][k][1] <= e
  <2>1. /\ h[i].list \in 1..Len(L) /\ h[i].pos \in Nat /\ IdAt(L, h[i]) \in Nat
        /\ k >= h[i].pos => L[h[i].list][k][1] <= IdAt(L, h[i])
    BY <1>0, IdFacts
  <2>2. k \in Nat /\ L[h[i].list][k][1] \in Nat
    BY <2>1, OperandFacts
  <2>3. ~Gt(L, h[i], h[1])
    BY TopGreatest
  <2>4. IdAt(L, h[i]) <= e
    BY <1>1, <2>1, <2>3 DEF Gt, e
  <2>5. k < h[i].pos => z # 0 /\ L[h[i].list][k][1] >= z
    BY DEF AllBehind, Behind
  <2> QED
    BY <1>1, <2>1, <2>2, <2>4, <2>5
<1> QED
  BY <1>2 DEF AllAround, Around, e

\* The top is the next id of all operands, in the state of the newest.
LEMMA NextToWrite ==
  ASSUME NEW L, Operands(L), NEW h, HeapOf(L, h), Sorted(L, h, Len(h)), NEW z \in Nat, AllBehind(L, h, z)
  PROVE  /\ \A d \in DocID : d > IdAt(L, h[1]) /\ Newest(L)[d] # "None" => z # 0 /\ d >= z
         /\ IdAt(L, h[1]) # 0 =>
              /\ IdAt(L, h[1]) \in DocID /\ (z # 0 => IdAt(L, h[1]) < z)
              /\ Newest(L)[IdAt(L, h[1])] = L[h[1].list][h[1].pos][2]
              /\ L[h[1].list][h[1].pos][2] \in {"OK", "Delete"}
<1>1. \A i \in 1..Len(h) : Behind(L, h[i], z)
  BY DEF AllBehind
<1>2. ASSUME NEW d \in DocID, d > IdAt(L, h[1]), Newest(L)[d] # "None" PROVE z # 0 /\ d >= z
  <2>1. PICK l \in 1..Len(L) : \E k \in 1..Len(L[l]) : L[l][k][1] = d
    BY <1>2, NewestOf
  <2>2. PICK k \in 1..Len(L[l]) : L[l][k][1] = d
    BY <2>1
  <2>3. L[l][k][1] > IdAt(L, h[1])
    BY <1>2, <2>2
  <2>4. z # 0 /\ L[l][k][1] >= z
    BY <1>1, <2>3, TopIsNext
  <2> QED
    BY <2>2, <2>4
<1>3. ASSUME IdAt(L, h[1]) # 0
      PROVE  /\ IdAt(L, h[1]) \in DocID /\ (z # 0 => IdAt(L, h[1]) < z)
             /\ Newest(L)[IdAt(L, h[1])] = L[h[1].list][h[1].pos][2]
             /\ L[h[1].list][h[1].pos][2] \in {"OK", "Delete"}
  <2>1. /\ IdAt(L, h[1]) \in DocID /\ (z # 0 => IdAt(L, h[1]) < z)
        /\ h[1].list \in 1..Len(L) /\ h[1].pos \in 1..Len(L[h[1].list])
        /\ L[h[1].list][h[1].pos][1] = IdAt(L, h[1])
        /\ \A l \in 1..Len(L) : \A k \in 1..Len(L[l]) : L[l][k][1] = IdAt(L, h[1]) => l <= h[1].list
    BY <1>1, <1>3, TopIsNewest
  <2>2. L[h[1].list][h[1].pos][2] \in {"OK", "Delete"}
    BY <2>1, OperandFacts
  <2>3. Newest(L)[IdAt(L, h[1])] = L[h[1].list][h[1].pos][2]
    BY <2>1, NewestIs
  <2> QED
    BY <2>1, <2>2, <2>3
<1> QED
  BY <1>2, <1>3

\* A merge that no limit ends is still within them.
LEMMA EmitWithin ==
  ASSUME NEW p \in BOOLEAN, NEW ok \in Nat, NEW del \in Nat, WithinLimits(p, ok, del), NEW state \in {"OK", "Delete"},
         ~Stops(state, p, ok, del), NEW e, NEW o, NEW q, NEW ok2, NEW del2, Emitted(e, state, p, o, ok, del, q, ok2, del2)
  PROVE  WithinLimits(p, ok2, del2)
<1>1. MaxDocs \in Nat /\ MaxDeletes \in Nat
  BY DocListsAssumption
<1>2. CASE state = "OK"
  <2>1. p => ok + 1 < MaxDocs
    BY <1>1, <1>2 DEF Stops
  <2>2. (ok2 = ok \/ ok2 = ok + 1) /\ del2 = del
    BY <1>2 DEF Emitted
  <2> QED
    BY <1>1, <2>1, <2>2 DEF WithinLimits
<1>3. CASE state = "Delete"
  <2>1. ~p => del + 1 <= MaxDeletes
    BY <1>1, <1>3 DEF Stops
  <2>2. (del2 = del \/ del2 = del + 1) /\ ok2 = ok
    BY <1>3 DEF Emitted
  <2> QED
    BY <1>1, <2>1, <2>2 DEF WithinLimits
<1> QED
  BY <1>2, <1>3

(***************************************************************************)
(* The invariant.                                                          *)
(***************************************************************************)
\* It holds when nothing has been read,
LEMMA InitInv == Init => HeapInv
<1> SUFFICES ASSUME Init PROVE HeapInv
  OBVIOUS
<1>1. MaxDocs \in Nat \ {0} /\ MaxDeletes \in Nat /\ \A d \in DocID : d \in Nat /\ d # 0
  BY DocListsAssumption
<1>2. /\ purge \in BOOLEAN /\ pc = "decode" /\ built = 0 /\ sift = 0 /\ last = 0
      /\ oks = 0 /\ deletes = 0 /\ out = <<>>
  BY DEF Init, Fresh
<1>3. Operands(lists)
  BY DEF Init, Operands
<1>4. Cardinality(Handled(Newest(lists), 0, "OK")) = 0 /\ Cardinality(Handled(Newest(lists), 0, "Delete")) = 0
  <2>1. Handled(Newest(lists), 0, "OK") = {} /\ Handled(Newest(lists), 0, "Delete") = {}
    BY DEF Handled
  <2> QED
    BY <2>1, FS_EmptySet
<1>5. <<>> \in Seq(Entry) /\ InOrder(<<>>) /\ Len(<<>>) = 0
  BY DEF InOrder
<1>6. Written(Newest(lists), 0, purge, <<>>, 0, 0)
  <2> DEFINE f == Newest(lists)
  <2> HIDE DEF f
  <2> SUFFICES Written(f, 0, purge, <<>>, 0, 0)
    BY DEF f
  <2>1. Cardinality(Handled(f, 0, "OK")) = 0 /\ Cardinality(Handled(f, 0, "Delete")) = 0
    BY <1>4 DEF f
  <2> QED
    BY <1>1, <1>5, <2>1 DEF Written
<1>7. WithinLimits(purge, 0, 0)
  BY <1>1 DEF WithinLimits
<1> QED
  BY <1>2, <1>3, <1>6, <1>7 DEF HeapInv

\* DoMerge sets the cursors,
LEMMA DoMergeInv == HeapInv /\ DoMerge => HeapInv'
<1> SUFFICES ASSUME HeapInv, DoMerge PROVE HeapInv'
  OBVIOUS
<1>1. /\ Operands(lists) /\ purge \in BOOLEAN /\ built = 0 /\ sift \in Nat /\ last = 0
      /\ Written(Newest(lists), last, purge, out, oks, deletes) /\ WithinLimits(purge, oks, deletes)
  BY DEF HeapInv, DoMerge
<1>2. /\ heap' = [i \in DOMAIN lists |-> [list |-> i, pos |-> 1]] /\ pc' = "build"
      /\ lists' = lists /\ purge' = purge /\ built' = built /\ sift' = sift /\ last' = last
      /\ oks' = oks /\ deletes' = deletes /\ out' = out
  BY DEF DoMerge
<1>3. HeapOf(lists, heap') /\ Sorted(lists, heap', 0) /\ AllBehind(lists, heap', 0) /\ Len(heap') \in Nat
  BY <1>1, <1>2, StartCursors
<1> QED
  BY <1>1, <1>2, <1>3 DEF HeapInv

\* Build takes the next,
LEMMA BuildInv == HeapInv /\ Build => HeapInv'
<1> SUFFICES ASSUME HeapInv, Build PROVE HeapInv'
  OBVIOUS
<1>1. /\ Operands(lists) /\ purge \in BOOLEAN /\ built \in Nat /\ sift \in Nat /\ last = 0 /\ HeapOf(lists, heap)
      /\ built <= Len(heap) /\ Sorted(lists, heap, built) /\ AllBehind(lists, heap, last)
      /\ Written(Newest(lists), last, purge, out, oks, deletes) /\ WithinLimits(purge, oks, deletes)
  BY DEF HeapInv, Build
<1>2. /\ IF built < Len(heap) THEN sift' = built + 1 /\ pc' = "up" ELSE pc' = "emit" /\ sift' = sift
      /\ lists' = lists /\ purge' = purge /\ heap' = heap /\ built' = built /\ last' = last
      /\ oks' = oks /\ deletes' = deletes /\ out' = out
  BY DEF Build
<1>3. Len(heap) \in Nat
  BY <1>1, HeapFacts
<1>4. CASE built < Len(heap)
  <2>1. UpAt(lists, heap, built + 1, built + 1)
    BY <1>1, <1>4, NextCursor
  <2> QED
    BY <1>1, <1>2, <1>4, <2>1 DEF HeapInv
<1>5. CASE ~(built < Len(heap))
  <2>1. built = Len(heap)
    BY <1>1, <1>3, <1>5
  <2> QED
    BY <1>1, <1>2, <1>5, <2>1 DEF HeapInv
<1> QED
  BY <1>4, <1>5

\* HeapShiftUp brings it to its place,
LEMMA HeapShiftUpInv == HeapInv /\ HeapShiftUp => HeapInv'
<1> SUFFICES ASSUME HeapInv, HeapShiftUp PROVE HeapInv'
  OBVIOUS
<1>1. /\ Operands(lists) /\ purge \in BOOLEAN /\ built \in Nat /\ sift \in Nat /\ last = 0 /\ HeapOf(lists, heap)
      /\ UpAt(lists, heap, built + 1, sift) /\ AllBehind(lists, heap, last) /\ pc = "up"
      /\ Written(Newest(lists), last, purge, out, oks, deletes) /\ WithinLimits(purge, oks, deletes)
  BY DEF HeapInv, HeapShiftUp
<1> DEFINE c == sift # 1 /\ Gt(lists, heap[sift], heap[sift \div 2])
<1>2. /\ IF c THEN heap' = Swapped(heap, sift, sift \div 2) /\ sift' = sift \div 2 /\ pc' = pc /\ built' = built
         ELSE pc' = "build" /\ built' = built + 1 /\ heap' = heap /\ sift' = sift
      /\ lists' = lists /\ purge' = purge /\ last' = last
      /\ oks' = oks /\ deletes' = deletes /\ out' = out
  BY GreaterIs DEF HeapShiftUp
<1>3. CASE c
  <2>1. HeapOf(lists, heap') /\ UpAt(lists, heap', built + 1, sift \div 2) /\ Exchanged(heap', heap, sift, sift \div 2)
    BY <1>1, <1>2, <1>3, UpSwaps
  <2>2. AllBehind(lists, heap', last)
    BY <1>1, <2>1, ExchangedKeeps
  <2>3. sift \div 2 \in Nat
    BY <1>1
  <2> QED
    BY <1>1, <1>2, <1>3, <2>1, <2>2, <2>3 DEF HeapInv
<1>4. CASE ~c
  <2>1. Sorted(lists, heap, built + 1)
    BY <1>1, <1>4, UpEnds
  <2>2. built + 1 <= Len(heap) /\ built + 1 \in Nat
    <3>1. Len(heap) \in Nat /\ built + 1 \in 1..Len(heap)
      BY <1>1, HeapFacts DEF UpAt
    <3> QED
      BY <3>1
  <2> QED
    BY <1>1, <1>2, <1>4, <2>1, <2>2 DEF HeapInv
<1> QED
  BY <1>3, <1>4

\* Emit writes the next id as Kept says, and stops only if nothing is left to keep,
LEMMA EmitInv == HeapInv /\ Emit => HeapInv'
<1> SUFFICES ASSUME HeapInv, Emit PROVE HeapInv'
  OBVIOUS
<1> DEFINE f == Newest(lists)
           e == IdAt(lists, heap[1])
           state == lists[heap[1].list][heap[1].pos][2]
<1>1. /\ Operands(lists) /\ purge \in BOOLEAN /\ built \in Nat /\ sift \in Nat /\ last \in Nat /\ HeapOf(lists, heap)
      /\ Sorted(lists, heap, Len(heap)) /\ AllBehind(lists, heap, last)
      /\ Written(f, last, purge, out, oks, deletes) /\ WithinLimits(purge, oks, deletes)
  BY DEF HeapInv, Emit
<1>2. /\ e # 0 /\ last' = e
      /\ Emitted(e, state, purge, out, oks, deletes, out', oks', deletes')
      /\ pc' = IF Stops(state, purge, oks, deletes) THEN "done" ELSE "skip"
      /\ lists' = lists /\ purge' = purge /\ heap' = heap /\ built' = built /\ sift' = sift
  BY GreaterIs DEF Emit, DocState, Stops, Emitted, Adds
<1>3. /\ e \in DocID /\ (last # 0 => e < last) /\ f[e] = state /\ state \in {"OK", "Delete"}
      /\ \A d \in DocID : d > e /\ f[d] # "None" => last # 0 /\ d >= last
  BY <1>1, <1>2, NextToWrite
<1>4. AllAround(lists, heap, e)
  BY <1>1, <1>2, BehindAround
<1>5. e \in Nat
  BY <1>3, DocListsAssumption
<1> HIDE DEF f, e, state
<1>6. oks \in Nat /\ deletes \in Nat
  BY <1>1, <1>3, EmitKeeps
<1>7. Written(f, e, purge, out', oks', deletes')
  <2>1. Emitted(e, f[e], purge, out, oks, deletes, out', oks', deletes') /\ f[e] \in {"OK", "Delete"}
    BY <1>2, <1>3
  <2> QED
    BY <1>1, <1>3, <2>1, EmitWrites
<1>8. CASE Stops(state, purge, oks, deletes)
  <2>1. Stops(f[e], purge, oks, deletes)
    BY <1>3, <1>8
  <2>2. Through(f, e, purge)
    BY <1>1, <1>3, <2>1, EmitStops
  <2>3. pc' = "done"
    BY <1>2, <1>8
  <2>4. Written(Newest(lists'), last', purge', out', oks', deletes') /\ Through(Newest(lists'), last', purge')
    BY <1>2, <1>7, <2>2 DEF f
  <2> QED
    BY <1>1, <1>2, <1>5, <2>3, <2>4 DEF HeapInv
<1>9. CASE ~Stops(state, purge, oks, deletes)
  <2>1. WithinLimits(purge', oks', deletes')
    <3>1. WithinLimits(purge, oks', deletes')
      BY <1>1, <1>2, <1>3, <1>6, <1>9, EmitWithin
    <3> QED
      BY <1>2, <3>1
  <2>2. pc' = "skip"
    BY <1>2, <1>9
  <2>3. Written(Newest(lists'), last', purge', out', oks', deletes')
    BY <1>2, <1>7 DEF f
  <2>4. IdAt(lists', heap'[1]) = last'
    BY <1>2 DEF e
  <2> QED
    BY <1>1, <1>2, <1>4, <1>5, <2>1, <2>2, <2>3, <2>4 DEF HeapInv
<1> QED
  BY <1>8, <1>9

\* Skip moves the top,
LEMMA SkipInv == HeapInv /\ Skip => HeapInv'
<1> SUFFICES ASSUME HeapInv, Skip PROVE HeapInv'
  OBVIOUS
<1>1. /\ Operands(lists) /\ purge \in BOOLEAN /\ built \in Nat /\ last \in Nat /\ last # 0 /\ HeapOf(lists, heap)
      /\ Sorted(lists, heap, Len(heap)) /\ AllAround(lists, heap, last) /\ IdAt(lists, heap[1]) = last
      /\ Written(Newest(lists), last, purge, out, oks, deletes) /\ WithinLimits(purge, oks, deletes)
  BY DEF HeapInv, Skip
<1>2. /\ heap' = [heap EXCEPT ![1].pos = @ + 1] /\ sift' = 1 /\ pc' = "down"
      /\ lists' = lists /\ purge' = purge /\ built' = built /\ last' = last
      /\ oks' = oks /\ deletes' = deletes /\ out' = out
  BY DEF Skip
<1>3. HeapOf(lists, heap') /\ DownAt(lists, heap', 1) /\ AllAround(lists, heap', last)
  BY <1>1, <1>2, TopMoves
<1> QED
  BY <1>1, <1>2, <1>3 DEF HeapInv

\* HeapShiftDown brings it to its place,
LEMMA HeapShiftDownInv == HeapInv /\ HeapShiftDown => HeapInv'
<1> SUFFICES ASSUME HeapInv, HeapShiftDown PROVE HeapInv'
  OBVIOUS
<1> DEFINE g == GreaterChild(heap, sift)
           c == 2 * sift <= Len(heap) /\ Gt(lists, heap[g], heap[sift])
<1>1. /\ Operands(lists) /\ purge \in BOOLEAN /\ built \in Nat /\ sift \in Nat /\ last \in Nat /\ last # 0
      /\ HeapOf(lists, heap) /\ DownAt(lists, heap, sift) /\ AllAround(lists, heap, last) /\ pc = "down"
      /\ Written(Newest(lists), last, purge, out, oks, deletes) /\ WithinLimits(purge, oks, deletes)
  BY DEF HeapInv, HeapShiftDown
<1>2. /\ IF c THEN heap' = Swapped(heap, sift, g) /\ sift' = g /\ pc' = pc
         ELSE /\ pc' = IF IdAt(lists, heap[1]) = last THEN "skip" ELSE "emit"
              /\ heap' = heap /\ sift' = sift
      /\ lists' = lists /\ purge' = purge /\ built' = built /\ last' = last
      /\ oks' = oks /\ deletes' = deletes /\ out' = out
  BY GreaterIs DEF HeapShiftDown
<1>3. sift \in 1..Len(heap) /\ Len(heap) \in Nat
  BY <1>1, HeapFacts DEF DownAt
<1>4. ASSUME 2 * sift <= Len(heap)
      PROVE  /\ g \in 2..Len(heap) /\ g \div 2 = sift
             /\ \A i \in 2..Len(heap) : i \div 2 = sift => ~Gt(lists, heap[i], heap[g])
  BY <1>1, <1>3, <1>4, GreaterChildIs
<1> HIDE DEF g
<1>5. CASE c
  <2>1. HeapOf(lists, heap') /\ DownAt(lists, heap', g) /\ Exchanged(heap', heap, sift, g)
    BY <1>1, <1>2, <1>4, <1>5, DownSwaps
  <2>2. AllAround(lists, heap', last)
    BY <1>1, <2>1, ExchangedKeeps
  <2>3. g \in Nat
    BY <1>3, <1>4, <1>5
  <2> QED
    BY <1>1, <1>2, <1>5, <2>1, <2>2, <2>3 DEF HeapInv
<1>6. CASE ~c
  <2>1. 2 * sift > Len(heap) \/ (2 * sift <= Len(heap) /\ ~Gt(lists, heap[g], heap[sift]))
    BY <1>3, <1>6
  <2>2. Sorted(lists, heap, Len(heap))
    <3>1. CASE 2 * sift > Len(heap)
      BY <1>1, <3>1, DownEnds
    <3>2. CASE 2 * sift <= Len(heap) /\ ~Gt(lists, heap[g], heap[sift])
      <4>1. \E x \in 2..Len(heap) : /\ \A i \in 2..Len(heap) : i \div 2 = sift => ~Gt(lists, heap[i], heap[x])
                                    /\ ~Gt(lists, heap[x], heap[sift])
        BY <1>4, <3>2
      <4> QED
        BY <1>1, <4>1, DownEnds
    <3> QED
      BY <2>1, <3>1, <3>2
  <2>3. CASE IdAt(lists, heap[1]) = last
    BY <1>1, <1>2, <1>6, <2>2, <2>3 DEF HeapInv
  <2>4. CASE IdAt(lists, heap[1]) # last
    <3>1. AllBehind(lists, heap, last)
      BY <1>1, <2>2, <2>4, AllLeft
    <3> QED
      BY <1>1, <1>2, <1>6, <2>2, <2>4, <3>1 DEF HeapInv
  <2> QED
    BY <2>3, <2>4
<1> QED
  BY <1>5, <1>6

\* and Finish finds every list read to its end.
LEMMA FinishInv == HeapInv /\ Finish => HeapInv'
<1> SUFFICES ASSUME HeapInv, Finish PROVE HeapInv'
  OBVIOUS
<1>1. /\ Operands(lists) /\ purge \in BOOLEAN /\ built \in Nat /\ sift \in Nat /\ last \in Nat /\ HeapOf(lists, heap)
      /\ Sorted(lists, heap, Len(heap)) /\ AllBehind(lists, heap, last)
      /\ Written(Newest(lists), last, purge, out, oks, deletes)
  BY DEF HeapInv, Finish
<1>2. /\ IdAt(lists, heap[1]) = 0 /\ pc' = "done"
      /\ lists' = lists /\ purge' = purge /\ heap' = heap /\ built' = built /\ sift' = sift /\ last' = last
      /\ oks' = oks /\ deletes' = deletes /\ out' = out
  BY GreaterIs DEF Finish
<1>3. \A d \in DocID : d > IdAt(lists, heap[1]) /\ Newest(lists)[d] # "None" => last # 0 /\ d >= last
  BY <1>1, NextToWrite
<1>4. \A d \in DocID : d \in Nat /\ d > 0
  BY DocListsAssumption
<1>5. ASSUME NEW d \in DocID, Kept(Newest(lists), d, purge) PROVE Newest(lists)[d] # "None"
  BY <1>5 DEF Kept
<1>6. Through(Newest(lists), last, purge)
  BY <1>2, <1>3, <1>4, <1>5 DEF Through
<1> QED
  BY <1>1, <1>2, <1>6 DEF HeapInv

\* The heap is one, every cursor is where it should be, and the entries written are
\* those that Merged keeps of the ids read so far: for any number of lists of any
\* length, in every state of OptimizeDocListMerge.
THEOREM HeapInvariant == Spec => []HeapInv
<1>1. Init => HeapInv
  BY InitInv
<1>2. HeapInv /\ [Next]_vars => HeapInv'
  <2>1. HeapInv /\ UNCHANGED vars => HeapInv'
    BY DEF vars, HeapInv
  <2> QED
    BY <2>1, DoMergeInv, BuildInv, HeapShiftUpInv, EmitInv, SkipInv, HeapShiftDownInv, FinishInv DEF Next
<1> QED
  BY <1>1, <1>2, PTL DEF Spec

\* OptimizeDocListMerge writes what Merged says of the operands, ids descending,
\* whether it read every list to the end or a limit ended it.
THEOREM MergesCorrect == Spec => []ComputesMerged
<1>1. HeapInv => ComputesMerged
  <2> SUFFICES ASSUME HeapInv, pc = "done"
               PROVE  /\ InOrder(out)
                      /\ AsDocList(out) = Merged([i \in DOMAIN lists |-> AsDocList(lists[i])], purge)
    BY DEF ComputesMerged
  <2>1. /\ Written(Newest(lists), last, purge, out, oks, deletes) /\ Through(Newest(lists), last, purge)
        /\ last \in Nat /\ purge \in BOOLEAN
    BY DEF HeapInv
  <2>2. AsDocList(out) = [d \in DocID |-> IF Kept(Newest(lists), d, purge) THEN Newest(lists)[d] ELSE "None"]
    BY <2>1, WrittenMerged
  <2>3. Merged([i \in DOMAIN lists |-> AsDocList(lists[i])], purge)
          = [d \in DocID |-> IF Kept(Newest(lists), d, purge) THEN Newest(lists)[d] ELSE "None"]
    BY DEF Merged, Newest
  <2> QED
    BY <2>1, <2>2, <2>3 DEF Written
<1> QED
  BY <1>1, HeapInvariant, PTL
=============================================================================
