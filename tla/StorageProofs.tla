---------------------------- MODULE StorageProofs ----------------------------
(***************************************************************************)
(* Proofs about the parts of the storage layer: the doc lists of an inverted- *)
(* index key under compaction, the mock database, the merging iterator.    *)
(***************************************************************************)
EXTENDS DocListMerge, MockDatabase, MergingIterator, OrderLemmas, SequenceTheorems

-----------------------------------------------------------------------------
(***************************************************************************)
(* Proofs about DocListMerge for every set of document ids, every list     *)
(* limit and every order of writes and compactions.                        *)
(***************************************************************************)

(***************************************************************************)
(* The newest state of an id in a sequence of lists.                       *)
(***************************************************************************)

\* It is the state in the last list that has the id.
LEMMA NewestAt ==
  ASSUME NEW lists \in Seq(DocList), NEW d \in DocID, NEW i \in DOMAIN lists,
         lists[i][d] # "None",
         \A j \in DOMAIN lists : j > i => lists[j][d] = "None"
  PROVE  NewestState(lists, d) = lists[i][d]
<1> DEFINE S == {x \in DOMAIN lists : lists[x][d] # "None"}
           m == CHOOSE x \in S : \A y \in S : y <= x
<1>1. i \in S /\ \A y \in S : y \in Nat /\ ~(y > i)
  OBVIOUS
<1>2. i \in Nat /\ \A y \in S : y <= i
  BY <1>1
<1>3. \E x \in S : \A y \in S : y <= x
  BY <1>1, <1>2
<1>4. m \in S /\ \A y \in S : y <= m
  BY <1>3
<1>5. m = i
  BY <1>1, <1>2, <1>4
<1>6. NewestState(lists, d) = lists[m][d]
  BY <1>1 DEF NewestState
<1> QED
  BY <1>5, <1>6

\* And "None" if no list has it.
LEMMA NewestNone ==
  ASSUME NEW lists, NEW d, \A i \in DOMAIN lists : lists[i][d] = "None"
  PROVE  NewestState(lists, d) = "None"
BY DEF NewestState

\* Either none has it or there is a last one.
LEMMA NewestCases ==
  ASSUME NEW lists \in Seq(DocList), NEW d \in DocID
  PROVE  \/ \A i \in DOMAIN lists : lists[i][d] = "None"
         \/ \E i \in DOMAIN lists : /\ lists[i][d] # "None"
                                    /\ \A j \in DOMAIN lists : j > i => lists[j][d] = "None"
<1> DEFINE S == {x \in DOMAIN lists : lists[x][d] # "None"}
<1> SUFFICES ASSUME S # {}
             PROVE  \E i \in DOMAIN lists : /\ lists[i][d] # "None"
                                            /\ \A j \in DOMAIN lists : j > i => lists[j][d] = "None"
  OBVIOUS
<1>1. S \in SUBSET Nat /\ Len(lists) \in Nat /\ \A x \in S : x <= Len(lists)
  OBVIOUS
<1>2. \E m \in S : \A k \in S : k <= m
  <2> HIDE DEF S
  <2> QED
    BY <1>1, GreatestExists
<1>3. PICK m \in S : \A k \in S : k <= m
  BY <1>2
<1>4. ASSUME NEW j \in DOMAIN lists, j > m PROVE lists[j][d] = "None"
  <2>1. m \in Nat /\ j \in Nat
    BY <1>1
  <2>2. ~(j <= m)
    BY <1>4, <2>1
  <2> QED
    BY <1>3, <2>2
<1> QED
  BY <1>3, <1>4

\* Lists behind others have the last word.
LEMMA NewestConcat ==
  ASSUME NEW a \in Seq(DocList), NEW b \in Seq(DocList), NEW d \in DocID
  PROVE  /\ a \o b \in Seq(DocList)
         /\ NewestState(a \o b, d)
              = IF NewestState(b, d) # "None" THEN NewestState(b, d) ELSE NewestState(a, d)
<1>0. /\ a \o b \in Seq(DocList) /\ Len(a \o b) = Len(a) + Len(b)
      /\ Len(a) \in Nat /\ Len(b) \in Nat
      /\ DOMAIN a = 1..Len(a) /\ DOMAIN b = 1..Len(b) /\ DOMAIN (a \o b) = 1..(Len(a) + Len(b))
      /\ \A i \in 1..Len(a) : (a \o b)[i] = a[i]
      /\ \A i \in 1..Len(b) : (a \o b)[Len(a) + i] = b[i]
      /\ \A i \in 1..(Len(a) + Len(b)) : i > Len(a) => i - Len(a) \in 1..Len(b) /\ (a \o b)[i] = b[i - Len(a)]
  OBVIOUS
<1>1. CASE \E i \in DOMAIN b : b[i][d] # "None" /\ \A j \in DOMAIN b : j > i => b[j][d] = "None"
  <2>1. PICK i \in DOMAIN b : b[i][d] # "None" /\ \A j \in DOMAIN b : j > i => b[j][d] = "None"
    BY <1>1
  <2>2. NewestState(b, d) = b[i][d]
    BY <2>1, NewestAt
  <2>3. Len(a) + i \in DOMAIN (a \o b) /\ (a \o b)[Len(a) + i][d] = b[i][d]
    BY <1>0
  <2>4. ASSUME NEW j \in DOMAIN (a \o b), j > Len(a) + i PROVE (a \o b)[j][d] = "None"
    <3>1. j - Len(a) \in DOMAIN b /\ j - Len(a) > i /\ (a \o b)[j] = b[j - Len(a)]
      BY <1>0, <2>4
    <3> QED
      BY <2>1, <3>1
  <2>5. NewestState(a \o b, d) = (a \o b)[Len(a) + i][d]
    BY <1>0, <2>1, <2>3, <2>4, NewestAt
  <2> QED
    BY <1>0, <2>1, <2>2, <2>3, <2>5
<1>2. CASE \A i \in DOMAIN b : b[i][d] = "None"
  <2>1. NewestState(b, d) = "None"
    BY <1>2, NewestNone
  <2>2. ASSUME NEW j \in DOMAIN (a \o b), j > Len(a) PROVE (a \o b)[j][d] = "None"
    BY <1>0, <1>2, <2>2
  <2>3. CASE \A i \in DOMAIN a : a[i][d] = "None"
    <3>1. \A j \in DOMAIN (a \o b) : (a \o b)[j][d] = "None"
      BY <1>0, <2>2, <2>3
    <3> QED
      BY <1>0, <2>1, <2>3, <3>1, NewestNone
  <2>4. CASE \E i \in DOMAIN a : a[i][d] # "None" /\ \A j \in DOMAIN a : j > i => a[j][d] = "None"
    <3>1. PICK i \in DOMAIN a : a[i][d] # "None" /\ \A j \in DOMAIN a : j > i => a[j][d] = "None"
      BY <2>4
    <3>2. i \in DOMAIN (a \o b) /\ (a \o b)[i] = a[i]
      BY <1>0
    <3>3. ASSUME NEW j \in DOMAIN (a \o b), j > i PROVE (a \o b)[j][d] = "None"
      <4>1. CASE j > Len(a)
        BY <2>2, <4>1
      <4>2. CASE ~(j > Len(a))
        <5>1. j \in DOMAIN a /\ (a \o b)[j] = a[j]
          BY <1>0, <4>2
        <5> QED
          BY <3>1, <3>3, <5>1
      <4> QED
        BY <4>1, <4>2
    <3>4. NewestState(a \o b, d) = a[i][d] /\ NewestState(a, d) = a[i][d]
      BY <1>0, <3>1, <3>2, <3>3, NewestAt
    <3> QED
      BY <1>0, <2>1, <3>4
  <2> QED
    BY <2>3, <2>4, NewestCases
<1> QED
  BY <1>1, <1>2, NewestCases

\* One list alone.
LEMMA NewestOne ==
  ASSUME NEW l \in DocList, NEW d \in DocID
  PROVE  <<l>> \in Seq(DocList) /\ NewestState(<<l>>, d) = l[d]
<1>1. <<l>> \in Seq(DocList) /\ DOMAIN <<l>> = 1..1 /\ <<l>>[1] = l
  OBVIOUS
<1>2. CASE l[d] = "None"
  <2>1. \A i \in DOMAIN <<l>> : <<l>>[i][d] = "None"
    BY <1>1, <1>2
  <2> QED
    BY <1>1, <1>2, <2>1, NewestNone
<1>3. CASE l[d] # "None"
  <2>1. 1 \in DOMAIN <<l>> /\ \A j \in DOMAIN <<l>> : ~(j > 1)
    BY <1>1
  <2> QED
    BY <1>1, <1>3, <2>1, NewestAt
<1> QED
  BY <1>2, <1>3

\* The newest state is a state.
LEMMA NewestType ==
  ASSUME NEW lists \in Seq(DocList), NEW d \in DocID
  PROVE  NewestState(lists, d) \in State
<1>1. CASE \A i \in DOMAIN lists : lists[i][d] = "None"
  BY <1>1, NewestNone DEF State
<1>2. CASE \E i \in DOMAIN lists : lists[i][d] # "None" /\ \A j \in DOMAIN lists : j > i => lists[j][d] = "None"
  <2>1. PICK i \in DOMAIN lists : lists[i][d] # "None" /\ \A j \in DOMAIN lists : j > i => lists[j][d] = "None"
    BY <1>2
  <2>2. lists[i] \in DocList
    OBVIOUS
  <2> QED
    BY <2>1, <2>2, NewestAt DEF DocList
<1> QED
  BY <1>1, <1>2, NewestCases

-----------------------------------------------------------------------------
(***************************************************************************)
(* What a merge keeps.                                                     *)
(***************************************************************************)

\* The limit on deletes in a partial merge is out of reach.
FewDeletes == Cardinality(DocID) <= MaxDeletes + 1

\* A merged list is a list.
LEMMA MergedType ==
  ASSUME NEW lists \in Seq(DocList), NEW purge \in BOOLEAN
  PROVE  Merged(lists, purge) \in DocList
<1> DEFINE f == [e \in DocID |-> NewestState(lists, e)]
<1>1. Merged(lists, purge) = [e \in DocID |-> IF Kept(f, e, purge) THEN f[e] ELSE "None"]
  BY DEF Merged
<1>2. \A e \in DocID : f[e] \in State
  BY NewestType
<1> HIDE DEF f
<1> QED
  BY <1>1, <1>2 DEF DocList, State

\* A merged list has an id in its newest state or not at all; a full merge has no
\* deletes.
LEMMA MergedStates ==
  ASSUME NEW lists \in Seq(DocList), NEW purge \in BOOLEAN, NEW d \in DocID
  PROVE  /\ Merged(lists, purge)[d] \in {"None", NewestState(lists, d)}
         /\ purge => Merged(lists, purge)[d] # "Delete"
<1> DEFINE f == [e \in DocID |-> NewestState(lists, e)]
<1>1. Merged(lists, purge) = [e \in DocID |-> IF Kept(f, e, purge) THEN f[e] ELSE "None"]
  BY DEF Merged
<1>2. \A e \in DocID : f[e] \in State /\ f[e] = NewestState(lists, e)
  BY NewestType
<1> HIDE DEF f
<1>3. purge /\ f[d] = "Delete" => ~Kept(f, d, purge)
  BY DEF Kept
<1> QED
  BY <1>1, <1>2, <1>3

\* How many ids are above one: fewer than there are.
LEMMA AboveCount ==
  ASSUME NEW f, NEW d \in DocID, NEW s, NEW T, IsFiniteSet(T), d \in T,
         \A e \in DocID : f[e] = s => e \in T
  PROVE  Above(f, d, s) \in Nat /\ Cardinality(T) \in Nat /\ Above(f, d, s) < Cardinality(T)
<1> DEFINE A == {e \in DocID : e > d /\ f[e] = s}
<1>1. A \subseteq T
  OBVIOUS
<1>2. d \notin A
  <2>1. d \in Nat
    BY DocListsAssumption
  <2>2. ~(d > d)
    BY <2>1
  <2> QED
    BY <2>2
<1>3. Above(f, d, s) = Cardinality(A)
  BY DEF Above
<1> HIDE DEF A
<1> QED
  BY <1>1, <1>2, <1>3, CardinalityGrows

\* A partial merge keeps the deletes, below the limit.
LEMMA MergedKeepsDeletes ==
  ASSUME FewDeletes, NEW lists \in Seq(DocList), NEW d \in DocID, NewestState(lists, d) = "Delete"
  PROVE  Merged(lists, FALSE)[d] = "Delete"
<1> DEFINE f == [e \in DocID |-> NewestState(lists, e)]
<1>1. Merged(lists, FALSE) = [e \in DocID |-> IF Kept(f, e, FALSE) THEN f[e] ELSE "None"]
  BY DEF Merged
<1>2. f[d] = "Delete"
  OBVIOUS
<1> HIDE DEF f
<1>3. Above(f, d, "Delete") \in Nat /\ Cardinality(DocID) \in Nat /\ Above(f, d, "Delete") < Cardinality(DocID)
  BY DocListsAssumption, AboveCount
<1>4. Above(f, d, "Delete") <= MaxDeletes
  BY <1>3, DocListsAssumption DEF FewDeletes
<1>5. Kept(f, d, FALSE)
  BY <1>2, <1>4 DEF Kept
<1> QED
  BY <1>1, <1>2, <1>5

\* Either merge keeps the ids that are OK, if all of them are among at most MaxDocs.
LEMMA MergedKeepsDocs ==
  ASSUME FewDeletes, NEW lists \in Seq(DocList), NEW purge \in BOOLEAN,
         NEW T, IsFiniteSet(T), Cardinality(T) <= MaxDocs,
         \A e \in DocID : NewestState(lists, e) = "OK" => e \in T,
         NEW d \in DocID, NewestState(lists, d) = "OK"
  PROVE  Merged(lists, purge)[d] = "OK"
<1> DEFINE f == [e \in DocID |-> NewestState(lists, e)]
<1>1. Merged(lists, purge) = [e \in DocID |-> IF Kept(f, e, purge) THEN f[e] ELSE "None"]
  BY DEF Merged
<1>2. f[d] = "OK" /\ \A e \in DocID : f[e] = "OK" => e \in T
  OBVIOUS
<1> HIDE DEF f
<1>3. Above(f, d, "Delete") \in Nat /\ Cardinality(DocID) \in Nat /\ Above(f, d, "Delete") < Cardinality(DocID)
  BY DocListsAssumption, AboveCount
<1>4. Above(f, d, "Delete") <= MaxDeletes
  BY <1>3, DocListsAssumption DEF FewDeletes
<1>5. Above(f, d, "OK") \in Nat /\ Cardinality(T) \in Nat /\ Above(f, d, "OK") < Cardinality(T)
  BY <1>2, AboveCount
<1>6. Above(f, d, "OK") < MaxDocs
  BY <1>5, DocListsAssumption
<1>7. Kept(f, d, purge)
  BY <1>2, <1>4, <1>6 DEF Kept
<1> QED
  BY <1>1, <1>2, <1>7

-----------------------------------------------------------------------------
(***************************************************************************)
(* The inductive invariant: about all that is under the key, whatever has  *)
(* been folded together.                                                   *)
(***************************************************************************)
History == <<base>> \o ops

HistoryTypes ==
  /\ base \in DocList
  /\ ops \in Seq(DocList)
  /\ truth \in DocList
  /\ ever \in SUBSET DocID

\* Only ids that were written as OK are OK anywhere.
OnlyWritten ==
  \A d \in DocID :
    /\ base[d] = "OK" => d \in ever
    /\ \A i \in DOMAIN ops : ops[i][d] = "OK" => d \in ever

NewestSound == \A d \in DocID : NewestState(History, d) = "OK" => truth[d] = "OK"

NewestComplete ==
  Cardinality(ever) <= MaxDocs => \A d \in DocID : truth[d] = "OK" => NewestState(History, d) = "OK"

HistoryInv == HistoryTypes /\ OnlyWritten /\ NewestSound /\ NewestComplete

\* An id whose newest state is OK is OK in some list.
LEMMA OkSomewhere ==
  ASSUME NEW lists \in Seq(DocList), NEW d \in DocID, NewestState(lists, d) = "OK"
  PROVE  \E i \in DOMAIN lists : lists[i][d] = "OK"
<1>1. ~ \A i \in DOMAIN lists : lists[i][d] = "None"
  BY NewestNone
<1>2. PICK i \in DOMAIN lists : lists[i][d] # "None" /\ \A j \in DOMAIN lists : j > i => lists[j][d] = "None"
  BY <1>1, NewestCases
<1> QED
  BY <1>2, NewestAt

\* The newest state under the key: an operand's, else the value's.
LEMMA NewestHistory ==
  ASSUME NEW b \in DocList, NEW o \in Seq(DocList), NEW d \in DocID
  PROVE  /\ <<b>> \o o \in Seq(DocList)
         /\ NewestState(<<b>> \o o, d) = IF NewestState(o, d) # "None" THEN NewestState(o, d) ELSE b[d]
BY NewestOne, NewestConcat

\* A part of a sequence.
LEMMA PartOfSequence ==
  ASSUME NEW S, NEW s \in Seq(S), NEW a \in Nat, NEW b \in Nat, 1 <= a, b <= Len(s)
  PROVE  /\ SubSeq(s, a, b) \in Seq(S)
         /\ \A x \in DOMAIN SubSeq(s, a, b) : \E y \in DOMAIN s : SubSeq(s, a, b)[x] = s[y]
<1>1. a \in Int /\ b \in Int /\ Len(s) \in Nat /\ DOMAIN s = 1..Len(s)
  OBVIOUS
<1>2. \A x \in a..b : s[x] \in S
  BY <1>1, ElementOfSeq
<1>3. /\ SubSeq(s, a, b) \in Seq(S)
      /\ Len(SubSeq(s, a, b)) = IF a <= b THEN b - a + 1 ELSE 0
      /\ \A x \in 1..(b - a + 1) : SubSeq(s, a, b)[x] = s[a + x - 1]
  BY <1>1, <1>2, SubSeqProperties
<1>4. DOMAIN SubSeq(s, a, b) = 1..Len(SubSeq(s, a, b))
  BY <1>3
<1>5. ASSUME NEW x \in DOMAIN SubSeq(s, a, b) PROVE x \in 1..(b - a + 1) /\ a + x - 1 \in DOMAIN s
  BY <1>1, <1>3, <1>4
<1> QED
  BY <1>3, <1>5

\* Every element of p is an element of q.
Within(p, q) == \A x \in DOMAIN p : \E y \in DOMAIN q : p[x] = q[y]

\* Elements of a part are elements of the whole.
LEMMA WithinTransitive ==
  ASSUME NEW p, NEW q, NEW r, Within(p, q), Within(q, r)
  PROVE  Within(p, r)
<1> SUFFICES ASSUME NEW x \in DOMAIN p PROVE \E y \in DOMAIN r : p[x] = r[y]
  BY DEF Within
<1>1. PICK y \in DOMAIN q : p[x] = q[y]
  BY DEF Within
<1>2. PICK z \in DOMAIN r : q[y] = r[z]
  BY DEF Within
<1> QED
  BY <1>1, <1>2

\* The elements of two sequences are elements of their concatenation.
LEMMA PartsOfConcat ==
  ASSUME NEW p \in Seq(DocList), NEW q \in Seq(DocList)
  PROVE  p \o q \in Seq(DocList) /\ Within(p, p \o q) /\ Within(q, p \o q)
<1>1. /\ p \o q \in Seq(DocList) /\ DOMAIN p = 1..Len(p) /\ DOMAIN q = 1..Len(q)
      /\ Len(p) \in Nat /\ Len(q) \in Nat /\ DOMAIN (p \o q) = 1..(Len(p) + Len(q))
  OBVIOUS
<1>2. ASSUME NEW x \in DOMAIN p PROVE \E y \in DOMAIN (p \o q) : p[x] = (p \o q)[y]
  <2>1. x \in DOMAIN (p \o q) /\ (p \o q)[x] = p[x]
    BY <1>1
  <2> QED
    BY <2>1
<1>3. ASSUME NEW x \in DOMAIN q PROVE \E y \in DOMAIN (p \o q) : q[x] = (p \o q)[y]
  <2>1. Len(p) + x \in DOMAIN (p \o q) /\ (p \o q)[Len(p) + x] = q[x]
    BY <1>1
  <2> QED
    BY <2>1
<1> QED
  BY <1>1, <1>2, <1>3 DEF Within

\* A write.
LEMMA MergeInv ==
  ASSUME HistoryInv, NEW l \in Operands, Merge(l)
  PROVE  HistoryInv'
<1>0. /\ base \in DocList /\ ops \in Seq(DocList) /\ truth \in DocList /\ ever \in SUBSET DocID
      /\ l \in DocList
  BY MergeAssumption DEF HistoryInv, HistoryTypes
<1>1. /\ ops' = ops \o <<l>> /\ base' = base
      /\ truth' = [d \in DocID |-> IF l[d] = "None" THEN truth[d] ELSE l[d]]
      /\ ever' = ever \cup {d \in DocID : l[d] = "OK"}
  BY <1>0 DEF Merge
<1>2. ops' \in Seq(DocList) /\ truth' \in DocList /\ ever' \in SUBSET DocID /\ ever \subseteq ever'
  BY <1>0, <1>1 DEF DocList
<1>3. HistoryTypes'
  BY <1>0, <1>1, <1>2 DEF HistoryTypes
<1>4. OnlyWritten'
  <2> SUFFICES ASSUME NEW d \in DocID, NEW i \in DOMAIN ops', ops'[i][d] = "OK"
               PROVE  d \in ever'
    BY <1>1, <1>2 DEF HistoryInv, OnlyWritten
  <2>1. CASE i \in DOMAIN ops
    <3>1. ops'[i] = ops[i]
      BY <1>0, <1>1, <2>1
    <3> QED
      BY <1>2, <2>1, <3>1 DEF HistoryInv, OnlyWritten
  <2>2. CASE i \notin DOMAIN ops
    <3>1. ops'[i] = l
      BY <1>0, <1>1, <2>2
    <3> QED
      BY <1>1, <3>1
  <2> QED
    BY <2>1, <2>2
<1>5. ASSUME NEW d \in DocID
      PROVE  NewestState(History', d) = IF l[d] = "None" THEN NewestState(History, d) ELSE l[d]
  <2>1. NewestState(History, d) = IF NewestState(ops, d) # "None" THEN NewestState(ops, d) ELSE base[d]
    BY <1>0, NewestHistory DEF History
  <2>2. NewestState(ops', d) = IF l[d] # "None" THEN l[d] ELSE NewestState(ops, d)
    <3>1. <<l>> \in Seq(DocList) /\ NewestState(<<l>>, d) = l[d]
      BY <1>0, NewestOne
    <3>2. NewestState(ops \o <<l>>, d)
            = IF NewestState(<<l>>, d) # "None" THEN NewestState(<<l>>, d) ELSE NewestState(ops, d)
      BY <1>0, <3>1, NewestConcat
    <3> QED
      BY <1>1, <3>1, <3>2
  <2>3. NewestState(History', d) = IF NewestState(ops', d) # "None" THEN NewestState(ops', d) ELSE base[d]
    BY <1>0, <1>1, <1>2, NewestHistory DEF History
  <2> QED
    BY <2>1, <2>2, <2>3
<1>6. NewestSound'
  BY <1>1, <1>5 DEF HistoryInv, NewestSound
<1>7. NewestComplete'
  <2> SUFFICES ASSUME Cardinality(ever') <= MaxDocs, NEW d \in DocID, truth'[d] = "OK"
               PROVE  NewestState(History', d) = "OK"
    BY DEF NewestComplete
  <2>1. IsFiniteSet(ever') /\ IsFiniteSet(ever) /\ Cardinality(ever) <= Cardinality(ever')
    BY <1>2, DocListsAssumption, FS_Subset
  <2>2. Cardinality(ever) \in Nat /\ Cardinality(ever') \in Nat /\ MaxDocs \in Nat
    BY <2>1, FS_CardinalityType, DocListsAssumption
  <2>3. Cardinality(ever) <= MaxDocs
    BY <2>1, <2>2
  <2> QED
    BY <1>1, <1>5, <2>3 DEF HistoryInv, NewestComplete
<1> QED
  BY <1>3, <1>4, <1>6, <1>7 DEF HistoryInv

\* A compaction of operands i .. j: their newest states, or nothing where the list is
\* full, which an older state can only show if it was OK anyway.
LEMMA PartialMergeMultiInv ==
  ASSUME FewDeletes, HistoryInv, NEW i \in DOMAIN ops, NEW j \in DOMAIN ops, PartialMergeMulti(i, j)
  PROVE  HistoryInv'
<1> DEFINE A == SubSeq(ops, 1, i - 1)
           R == SubSeq(ops, i, Len(ops))
           B == SubSeq(ops, i, j)
           C == SubSeq(ops, j + 1, Len(ops))
           m == Merged(B, FALSE)
<1>0. /\ base \in DocList /\ ops \in Seq(DocList) /\ truth \in DocList /\ ever \in SUBSET DocID
      /\ IsFiniteSet(ever)
  BY DocListsAssumption, FS_Subset DEF HistoryInv, HistoryTypes
<1>1. /\ ops' = (A \o <<m>>) \o C /\ UNCHANGED <<base, truth, ever>>
      /\ i < j /\ i \in 1..Len(ops) /\ j \in 1..Len(ops) /\ Len(ops) \in Nat
  BY <1>0 DEF PartialMergeMulti
<1>2. A \in Seq(DocList) /\ B \in Seq(DocList) /\ C \in Seq(DocList) /\ ops = (A \o B) \o C
  <2>1. A \in Seq(DocList) /\ B \in Seq(DocList) /\ C \in Seq(DocList)
    BY <1>0, <1>1, PartOfSequence
  <2>2. A \o B = SubSeq(ops, 1, j)
    <3>1. 1 \in 1..(Len(ops) + 1) /\ i - 1 \in (1 - 1)..Len(ops) /\ j \in (i - 1)..Len(ops) /\ i - 1 + 1 = i
      BY <1>1
    <3>2. SubSeq(ops, 1, i - 1) \o SubSeq(ops, i - 1 + 1, j) = SubSeq(ops, 1, j)
      BY <1>0, <3>1, ConcatAdjacentSubSeq
    <3> QED
      BY <3>1, <3>2
  <2>3. SubSeq(ops, 1, j) \o C = SubSeq(ops, 1, Len(ops))
    <3>1. 1 \in 1..(Len(ops) + 1) /\ j \in (1 - 1)..Len(ops) /\ Len(ops) \in j..Len(ops)
      BY <1>1
    <3> QED
      BY <1>0, <3>1, ConcatAdjacentSubSeq
  <2>4. SubSeq(ops, 1, Len(ops)) = ops
    BY <1>0, SubSeqFull
  <2> QED
    BY <2>1, <2>2, <2>3, <2>4
<1> HIDE DEF A, B, C
<1>3. Within(A, ops) /\ Within(B, ops) /\ Within(C, ops)
  <2>1. A \o B \in Seq(DocList) /\ Within(A, A \o B) /\ Within(B, A \o B)
    BY <1>2, PartsOfConcat
  <2>2. Within(A \o B, (A \o B) \o C) /\ Within(C, (A \o B) \o C)
    BY <1>2, <2>1, PartsOfConcat
  <2>3. Within(A \o B, ops) /\ Within(C, ops)
    BY <1>2, <2>2
  <2> QED
    BY <2>1, <2>3, WithinTransitive
<1>4. m \in DocList /\ \A d \in DocID : m[d] \in {"None", NewestState(B, d)}
  BY <1>2, MergedType, MergedStates
<1>5. \A d \in DocID : NewestState(B, d) = "Delete" => m[d] = "Delete"
  BY <1>2, MergedKeepsDeletes
<1>6. ASSUME NEW d \in DocID, NewestState(B, d) = "OK" PROVE d \in ever
  <2>1. PICK x \in DOMAIN B : B[x][d] = "OK"
    BY <1>2, <1>6, OkSomewhere
  <2> QED
    BY <1>3, <2>1 DEF HistoryInv, OnlyWritten, Within
<1>7. Cardinality(ever) <= MaxDocs => \A d \in DocID : m[d] = NewestState(B, d)
  <2> SUFFICES ASSUME Cardinality(ever) <= MaxDocs, NEW d \in DocID PROVE m[d] = NewestState(B, d)
    OBVIOUS
  <2>1. NewestState(B, d) = "OK" => m[d] = "OK"
    BY <1>0, <1>2, <1>6, MergedKeepsDocs
  <2>2. NewestState(B, d) \in State
    BY <1>2, NewestType
  <2> QED
    BY <1>4, <1>5, <2>1, <2>2 DEF State
<1> HIDE DEF m
<1>8. <<m>> \in Seq(DocList) /\ \A d \in DocID : NewestState(<<m>>, d) = m[d]
  BY <1>4, NewestOne
<1>9. ops' \in Seq(DocList)
  BY <1>1, <1>2, <1>8
<1>10. HistoryTypes'
  BY <1>0, <1>1, <1>9 DEF HistoryTypes
<1>11. OnlyWritten'
  <2> SUFFICES ASSUME NEW d \in DocID, NEW x \in DOMAIN ops', ops'[x][d] = "OK"
               PROVE  d \in ever
    BY <1>1 DEF HistoryInv, OnlyWritten
  <2>1. \/ \E y \in DOMAIN A : ops'[x] = A[y]
        \/ ops'[x] = m
        \/ \E y \in DOMAIN C : ops'[x] = C[y]
    BY <1>1, <1>2, <1>8
  <2>2. CASE \E y \in DOMAIN A : ops'[x] = A[y]
    BY <1>3, <2>2 DEF HistoryInv, OnlyWritten, Within
  <2>3. CASE ops'[x] = m
    BY <1>4, <1>6, <2>3
  <2>4. CASE \E y \in DOMAIN C : ops'[x] = C[y]
    BY <1>3, <2>4 DEF HistoryInv, OnlyWritten, Within
  <2> QED
    BY <2>1, <2>2, <2>3, <2>4
<1>12. ASSUME NEW d \in DocID
       PROVE  /\ NewestState(ops, d) = IF NewestState(C, d) # "None" THEN NewestState(C, d)
                                       ELSE IF NewestState(B, d) # "None" THEN NewestState(B, d)
                                       ELSE NewestState(A, d)
              /\ NewestState(ops', d) = IF NewestState(C, d) # "None" THEN NewestState(C, d)
                                        ELSE IF m[d] # "None" THEN m[d]
                                        ELSE NewestState(A, d)
              /\ NewestState(History, d) = IF NewestState(ops, d) # "None" THEN NewestState(ops, d) ELSE base[d]
              /\ NewestState(History', d) = IF NewestState(ops', d) # "None" THEN NewestState(ops', d) ELSE base[d]
  <2>1. /\ A \o B \in Seq(DocList)
        /\ NewestState(A \o B, d) = IF NewestState(B, d) # "None" THEN NewestState(B, d) ELSE NewestState(A, d)
    BY <1>2, NewestConcat
  <2>2. NewestState((A \o B) \o C, d) = IF NewestState(C, d) # "None" THEN NewestState(C, d) ELSE NewestState(A \o B, d)
    BY <1>2, <2>1, NewestConcat
  <2>3. /\ A \o <<m>> \in Seq(DocList)
        /\ NewestState(A \o <<m>>, d)
             = IF NewestState(<<m>>, d) # "None" THEN NewestState(<<m>>, d) ELSE NewestState(A, d)
    BY <1>2, <1>8, NewestConcat
  <2>4. NewestState((A \o <<m>>) \o C, d)
          = IF NewestState(C, d) # "None" THEN NewestState(C, d) ELSE NewestState(A \o <<m>>, d)
    BY <1>2, <2>3, NewestConcat
  <2>5. NewestState(ops, d) = NewestState((A \o B) \o C, d) /\ NewestState(ops', d) = NewestState((A \o <<m>>) \o C, d)
    BY <1>1, <1>2
  <2>6. NewestState(History, d) = IF NewestState(ops, d) # "None" THEN NewestState(ops, d) ELSE base[d]
    BY <1>0, NewestHistory DEF History
  <2>7. NewestState(History', d) = IF NewestState(ops', d) # "None" THEN NewestState(ops', d) ELSE base[d]
    BY <1>0, <1>1, <1>9, NewestHistory DEF History
  <2> QED
    BY <1>8, <2>1, <2>2, <2>3, <2>4, <2>5, <2>6, <2>7
<1>13. NewestSound'
  <2> SUFFICES ASSUME NEW d \in DocID, NewestState(History', d) = "OK"
               PROVE  NewestState(History, d) = "OK"
    BY <1>1 DEF HistoryInv, NewestSound
  <2>1. NewestState(B, d) \in {"None", "OK", "Delete"}
    BY <1>2, NewestType DEF State
  <2>2. CASE NewestState(B, d) = m[d]
    BY <1>12, <2>2
  <2>3. CASE NewestState(B, d) # m[d]
    <3>1. m[d] = "None" /\ NewestState(B, d) = "OK"
      BY <1>4, <1>5, <2>1, <2>3
    <3> QED
      BY <1>12, <3>1
  <2> QED
    BY <2>2, <2>3
<1>14. NewestComplete'
  BY <1>1, <1>7, <1>12 DEF HistoryInv, NewestComplete
<1> QED
  BY <1>10, <1>11, <1>13, <1>14 DEF HistoryInv

\* A compaction of the oldest operands into the value: deletes are dropped, there is
\* nothing older that they could hide.
LEMMA FullMergeV2Inv ==
  ASSUME FewDeletes, HistoryInv, NEW n \in DOMAIN ops, FullMergeV2(n)
  PROVE  HistoryInv'
<1> DEFINE A == SubSeq(ops, 1, n)
           C == SubSeq(ops, n + 1, Len(ops))
           L == <<base>> \o A
           m == Merged(L, TRUE)
<1>0. /\ base \in DocList /\ ops \in Seq(DocList) /\ truth \in DocList /\ ever \in SUBSET DocID
      /\ IsFiniteSet(ever)
  BY DocListsAssumption, FS_Subset DEF HistoryInv, HistoryTypes
<1>1. /\ base' = m /\ ops' = C /\ UNCHANGED <<truth, ever>>
      /\ n \in 1..Len(ops) /\ Len(ops) \in Nat
  BY <1>0 DEF FullMergeV2
<1>2. /\ 1 \in Nat /\ 1 <= 1 /\ n \in Nat /\ n <= Len(ops) /\ n + 1 \in Nat /\ 1 <= n + 1
      /\ Len(ops) \in Nat /\ Len(ops) <= Len(ops)
  BY <1>1
<1>3. A \in Seq(DocList) /\ C \in Seq(DocList) /\ ops = A \o C
  <2>1. A \in Seq(DocList) /\ C \in Seq(DocList)
    BY <1>0, <1>2, PartOfSequence
  <2>2. A \o C = SubSeq(ops, 1, Len(ops))
    <3>1. 1 \in 1..(Len(ops) + 1) /\ n \in (1 - 1)..Len(ops) /\ Len(ops) \in n..Len(ops)
      BY <1>1
    <3> QED
      BY <1>0, <3>1, ConcatAdjacentSubSeq
  <2> QED
    BY <1>0, <2>1, <2>2, SubSeqFull
<1> HIDE DEF A, C
<1>4. Within(A, ops) /\ Within(C, ops)
  <2>1. Within(A, A \o C) /\ Within(C, A \o C)
    BY <1>3, PartsOfConcat
  <2> QED
    BY <1>3, <2>1
<1>5. L \in Seq(DocList)
  BY <1>0, <1>3
<1>6. \A d \in DocID : NewestState(L, d) = IF NewestState(A, d) # "None" THEN NewestState(A, d) ELSE base[d]
  BY <1>0, <1>3, NewestHistory
<1> HIDE DEF L
<1>7. /\ m \in DocList
      /\ \A d \in DocID : m[d] \in {"None", NewestState(L, d)} /\ m[d] # "Delete"
  BY <1>5, MergedType, MergedStates
<1>8. ASSUME NEW d \in DocID, NewestState(L, d) = "OK" PROVE d \in ever
  <2>1. CASE base[d] = "OK"
    BY <2>1 DEF HistoryInv, OnlyWritten
  <2>2. CASE NewestState(A, d) = "OK"
    <3>1. PICK x \in DOMAIN A : A[x][d] = "OK"
      BY <1>3, <2>2, OkSomewhere
    <3> QED
      BY <1>4, <3>1 DEF HistoryInv, OnlyWritten, Within
  <2> QED
    BY <1>6, <1>8, <2>1, <2>2
<1>9. Cardinality(ever) <= MaxDocs => \A d \in DocID : NewestState(L, d) = "OK" => m[d] = "OK"
  BY <1>0, <1>5, <1>8, MergedKeepsDocs
<1> HIDE DEF m
<1>10. HistoryTypes'
  BY <1>0, <1>1, <1>3, <1>7 DEF HistoryTypes
<1>11. OnlyWritten'
  <2>1. \A d \in DocID : m[d] = "OK" => d \in ever
    BY <1>7, <1>8
  <2>2. ASSUME NEW d \in DocID, NEW x \in DOMAIN C, C[x][d] = "OK" PROVE d \in ever
    BY <1>4, <2>2 DEF HistoryInv, OnlyWritten, Within
  <2> QED
    BY <1>1, <2>1, <2>2 DEF OnlyWritten
<1>12. ASSUME NEW d \in DocID
       PROVE  /\ NewestState(History, d) = IF NewestState(C, d) # "None" THEN NewestState(C, d) ELSE NewestState(L, d)
              /\ NewestState(History', d) = IF NewestState(C, d) # "None" THEN NewestState(C, d) ELSE m[d]
  <2>1. NewestState(A \o C, d) = IF NewestState(C, d) # "None" THEN NewestState(C, d) ELSE NewestState(A, d)
    BY <1>3, NewestConcat
  <2>2. NewestState(History, d) = IF NewestState(ops, d) # "None" THEN NewestState(ops, d) ELSE base[d]
    BY <1>0, NewestHistory DEF History
  <2>3. NewestState(History', d) = IF NewestState(C, d) # "None" THEN NewestState(C, d) ELSE m[d]
    BY <1>1, <1>3, <1>7, NewestHistory DEF History
  <2> QED
    BY <1>3, <1>6, <2>1, <2>2, <2>3
<1>13. NewestSound'
  BY <1>1, <1>7, <1>12 DEF HistoryInv, NewestSound
<1>14. NewestComplete'
  BY <1>1, <1>9, <1>12 DEF HistoryInv, NewestComplete
<1> QED
  BY <1>10, <1>11, <1>13, <1>14 DEF HistoryInv

-----------------------------------------------------------------------------
(***************************************************************************)
(* The theorems.                                                           *)
(***************************************************************************)

\* Whatever compactions have folded together, the newest state under the key is right.
THEOREM HistoryInvariant ==
  ASSUME FewDeletes
  PROVE  HistorySpec => []HistoryInv
<1>0. EmptyList \in DocList /\ \A d \in DocID : EmptyList[d] = "None"
  BY DEF EmptyList, DocList, State
<1>1. ASSUME NEW d \in DocID PROVE NewestState(<<EmptyList>> \o <<>>, d) = "None"
  <2>1. <<>> \in Seq(DocList) /\ DOMAIN <<>> = {}
    OBVIOUS
  <2>2. NewestState(<<>>, d) = "None"
    BY <2>1, NewestNone
  <2> QED
    BY <1>0, <2>1, <2>2, NewestHistory
<1>2. HistoryInit => HistoryInv
  <2> SUFFICES ASSUME HistoryInit PROVE HistoryInv
    OBVIOUS
  <2>1. HistoryTypes
    BY <1>0 DEF HistoryInit, HistoryTypes
  <2>2. OnlyWritten
    BY <1>0 DEF HistoryInit, OnlyWritten
  <2>3. NewestSound /\ NewestComplete
    BY <1>0, <1>1 DEF HistoryInit, NewestSound, NewestComplete, History
  <2> QED
    BY <2>1, <2>2, <2>3 DEF HistoryInv
<1>3. HistoryInv /\ [HistoryNext]_historyVars => HistoryInv'
  <2> SUFFICES ASSUME HistoryInv, [HistoryNext]_historyVars PROVE HistoryInv'
    OBVIOUS
  <2>1. CASE UNCHANGED historyVars
    BY <2>1 DEF historyVars, HistoryInv, HistoryTypes, OnlyWritten, NewestSound, NewestComplete, History
  <2>2. CASE \E l \in Operands : Merge(l)
    BY <2>2, MergeInv
  <2>3. CASE \E i, j \in DOMAIN ops : PartialMergeMulti(i, j)
    BY <2>3, PartialMergeMultiInv
  <2>4. CASE \E n \in DOMAIN ops : FullMergeV2(n)
    BY <2>4, FullMergeV2Inv
  <2>5. CASE DeleteRange
    <3>1. HistoryTypes' /\ OnlyWritten'
      BY <1>0, <2>5 DEF DeleteRange, HistoryTypes, OnlyWritten
    <3>2. NewestSound' /\ NewestComplete'
      BY <1>0, <1>1, <2>5 DEF DeleteRange, NewestSound, NewestComplete, History
    <3> QED
      BY <3>1, <3>2 DEF HistoryInv
  <2> QED
    BY <2>1, <2>2, <2>3, <2>4, <2>5 DEF HistoryNext
<1> QED
  BY <1>2, <1>3, PTL DEF HistorySpec

\* No compaction order lets a deleted document come back: PartialMergeMulti keeps
\* deletes and FullMergeV2 drops them only under everything older.
THEOREM HistorySound ==
  ASSUME FewDeletes
  PROVE  HistorySpec => []Sound
<1>1. HistoryInv => Sound
  <2> SUFFICES ASSUME HistoryInv, NEW d \in DocID, Get[d] = "OK" PROVE truth[d] = "OK"
    BY DEF Sound
  <2>1. History \in Seq(DocList)
    BY NewestHistory DEF HistoryInv, HistoryTypes, History
  <2>2. Get[d] \in {"None", NewestState(History, d)}
    BY <2>1, MergedStates DEF Get, History
  <2> QED
    BY <2>2 DEF HistoryInv, NewestSound
<1> QED
  BY <1>1, HistoryInvariant, PTL

\* No compaction order loses a document, as long as at most MaxDocs were ever listed.
THEOREM HistoryComplete ==
  ASSUME FewDeletes
  PROVE  HistorySpec => []Complete
<1>1. HistoryInv => Complete
  <2> SUFFICES ASSUME HistoryInv, Cardinality(ever) <= MaxDocs, NEW d \in DocID, truth[d] = "OK"
               PROVE  Get[d] = "OK"
    BY DEF Complete
  <2>0. base \in DocList /\ ops \in Seq(DocList) /\ ever \in SUBSET DocID
    BY DEF HistoryInv, HistoryTypes
  <2>1. History \in Seq(DocList)
    BY <2>0, NewestHistory DEF History
  <2>2. IsFiniteSet(ever)
    BY <2>0, DocListsAssumption, FS_Subset
  <2>3. NewestState(History, d) = "OK"
    BY DEF HistoryInv, NewestComplete
  <2>4. ASSUME NEW e \in DocID, NewestState(History, e) = "OK" PROVE e \in ever
    <3>1. CASE base[e] = "OK"
      BY <3>1 DEF HistoryInv, OnlyWritten
    <3>2. CASE NewestState(ops, e) = "OK"
      <4>1. PICK x \in DOMAIN ops : ops[x][e] = "OK"
        BY <2>0, <3>2, OkSomewhere
      <4> QED
        BY <4>1 DEF HistoryInv, OnlyWritten
    <3> QED
      BY <2>0, <2>4, <3>1, <3>2, NewestHistory DEF History
  <2> QED
    BY <2>1, <2>2, <2>3, <2>4, MergedKeepsDocs DEF Get, History
<1> QED
  BY <1>1, HistoryInvariant, PTL

-----------------------------------------------------------------------------
(***************************************************************************)
(* The mock database for any keys, documents and number of calls.  What a  *)
(* flush would make of the mock is at every moment what RocksDB holds: a   *)
(* batch that keeps one entry per key loses nothing of the calls it got,   *)
(* until one of the calls is made whose effect the mock does not keep.     *)
(***************************************************************************)

(***************************************************************************)
(* The inductive invariant: what a flush of the batch would make of the    *)
(* mock is what RocksDB holds.                                             *)
(***************************************************************************)
IsMap(f) == f = [k \in DOMAIN f |-> f[k]] /\ DOMAIN f \subseteq MockKeys

MockTypes ==
  /\ IsMap(stored) /\ IsMap(inverted)
  /\ \A k \in DOMAIN inverted : inverted[k] \in [DocID -> {"None", "OK"}]
  /\ batch = [puts |-> batch.puts, lists |-> batch.lists, ranges |-> batch.ranges]
  /\ IsMap(batch.puts) /\ IsMap(batch.lists)
  /\ \A k \in DOMAIN batch.puts : batch.puts[k].type \in {"kUpdate", "kDelete"}
  /\ \A k \in DOMAIN batch.puts : batch.puts[k] = [type |-> batch.puts[k].type, value |-> batch.puts[k].value]
  /\ \A k \in DOMAIN batch.lists : batch.lists[k].type = "kMerge" /\ batch.lists[k].value \in DocList
  /\ rocks = [stored |-> rocks.stored, lists |-> rocks.lists]
  /\ IsMap(rocks.stored) /\ IsMap(rocks.lists)

\* The value a key would have after a flush.
HasValue(k) ==
  /\ ~InRanges(k)
  /\ IF k \in DOMAIN batch.puts THEN batch.puts[k].type = "kUpdate" ELSE k \in DOMAIN stored
ValueOf(k) == IF k \in DOMAIN batch.puts THEN batch.puts[k].value ELSE stored[k]

StoredAgrees ==
  /\ \A k \in MockKeys : k \in DOMAIN rocks.stored <=> HasValue(k)
  /\ \A k \in DOMAIN rocks.stored : rocks.stored[k] = ValueOf(k)

\* Whether document d would be in the list of key k after a flush.
InFlushed(k, d) ==
  /\ ~InRanges(k)
  /\ \/ k \in DOMAIN batch.lists /\ batch.lists[k].value[d] = "OK"
     \/ /\ k \in DOMAIN batch.lists => batch.lists[k].value[d] = "None"
        /\ k \in DOMAIN inverted /\ inverted[k][d] = "OK"

ListsAgree == \A k \in MockKeys : Listed(k) = {d \in DocID : InFlushed(k, d)}

Agreement == MockTypes /\ StoredAgrees /\ ListsAgree

MockInv == departed \in BOOLEAN /\ crashed \in BOOLEAN /\ (departed \/ crashed \/ Agreement)

-----------------------------------------------------------------------------
(***************************************************************************)
(* Maps.                                                                   *)
(***************************************************************************)
\* Without drops entries.
LEMMA WithoutIs ==
  ASSUME NEW f, IsMap(f), NEW ks
  PROVE  /\ IsMap(Without(f, ks)) /\ DOMAIN Without(f, ks) = DOMAIN f \ ks
         /\ \A x \in DOMAIN f \ ks : Without(f, ks)[x] = f[x]
  BY DEF Without, IsMap

\* Maps with the same entries are equal.
LEMMA SameMap ==
  ASSUME NEW f, IsMap(f), NEW g, IsMap(g), DOMAIN f = DOMAIN g, \A k \in DOMAIN f : f[k] = g[k]
  PROVE  f = g
  BY DEF IsMap

\* The empty map.
LEMMA EmptyMap ==
  /\ IsMap(<<>>) /\ DOMAIN <<>> = {}
  /\ \A f : IsMap(f) => (f = <<>> <=> DOMAIN f = {})
<1>1. DOMAIN <<>> = {} /\ <<>> = [k \in {} |-> 0] /\ [k \in DOMAIN <<>> |-> <<>>[k]] = <<>>
  OBVIOUS
<1>2. IsMap(<<>>)
  BY <1>1 DEF IsMap
<1>3. ASSUME NEW f, IsMap(f), DOMAIN f = {} PROVE f = <<>>
  BY <1>1, <1>2, <1>3, SameMap
<1> QED
  BY <1>1, <1>2, <1>3

-----------------------------------------------------------------------------
(***************************************************************************)
(* The steps.                                                              *)
(***************************************************************************)
\* An entry for one key of the stored column, a put or a delete.
LEMMA PutInv ==
  ASSUME Agreement, NEW k \in MockKeys, NEW v, NEW type \in {"kUpdate", "kDelete"},
         type = "kUpdate" => ~InRanges(k),
         batch' = [batch EXCEPT !.puts = With(@, k, [type |-> type, value |-> v])],
         rocks' = [rocks EXCEPT !.stored = IF type = "kUpdate" THEN With(@, k, v) ELSE Without(@, {k})],
         UNCHANGED <<stored, inverted>>
  PROVE  Agreement'
<1> DEFINE p == With(batch.puts, k, [type |-> type, value |-> v])
           s == IF type = "kUpdate" THEN With(rocks.stored, k, v) ELSE Without(rocks.stored, {k})
<1>1. /\ IsMap(stored) /\ IsMap(inverted) /\ IsMap(batch.puts) /\ IsMap(batch.lists)
      /\ IsMap(rocks.stored) /\ IsMap(rocks.lists)
      /\ batch = [puts |-> batch.puts, lists |-> batch.lists, ranges |-> batch.ranges]
      /\ rocks = [stored |-> rocks.stored, lists |-> rocks.lists]
  BY DEF Agreement, MockTypes
<1>2. /\ batch'.puts = p /\ batch'.lists = batch.lists /\ batch'.ranges = batch.ranges
      /\ batch' = [puts |-> p, lists |-> batch.lists, ranges |-> batch.ranges]
  BY <1>1
<1>3. /\ rocks'.stored = s /\ rocks'.lists = rocks.lists
      /\ rocks' = [stored |-> s, lists |-> rocks.lists]
  BY <1>1
<1>4. /\ IsMap(p) /\ DOMAIN p = DOMAIN batch.puts \cup {k}
      /\ p[k] = [type |-> type, value |-> v] /\ \A x \in DOMAIN batch.puts : x # k => p[x] = batch.puts[x]
  <2>1. IsMap(batch.puts) /\ k \in MockKeys
    BY <1>1
  <2> QED
    BY ONLY <2>1 DEF With, IsMap
<1>5. /\ IsMap(s) /\ \A x : x # k => (x \in DOMAIN s <=> x \in DOMAIN rocks.stored)
      /\ \A x \in DOMAIN rocks.stored : x # k => s[x] = rocks.stored[x]
      /\ k \in DOMAIN s <=> type = "kUpdate"
      /\ type = "kUpdate" => s[k] = v
  <2>0. IsMap(rocks.stored) /\ k \in MockKeys
    BY <1>1
  <2>1. CASE type = "kUpdate"
    <3> DEFINE w == With(rocks.stored, k, v)
    <3>1. /\ IsMap(w) /\ DOMAIN w = DOMAIN rocks.stored \cup {k} /\ w[k] = v
          /\ \A x \in DOMAIN rocks.stored : x # k => w[x] = rocks.stored[x]
      BY ONLY <2>0 DEF With, IsMap
    <3>2. s = w
      BY <2>1
    <3> HIDE DEF s, w
    <3> QED
      BY ONLY <2>1, <3>1, <3>2
  <2>2. CASE type # "kUpdate"
    <3> DEFINE w == Without(rocks.stored, {k})
    <3>1. /\ IsMap(w) /\ DOMAIN w = DOMAIN rocks.stored \ {k}
          /\ \A x \in DOMAIN rocks.stored \ {k} : w[x] = rocks.stored[x]
      BY ONLY <2>0, WithoutIs
    <3>2. s = w
      BY <2>2
    <3> HIDE DEF s, w
    <3> QED
      BY ONLY <2>2, <3>1, <3>2
  <2> QED
    BY <2>1, <2>2
<1> HIDE DEF p, s
<1>6. MockTypes'
  <2>1. ASSUME NEW x \in DOMAIN p PROVE p[x].type \in {"kUpdate", "kDelete"} /\ p[x] = [type |-> p[x].type, value |-> p[x].value]
    <3>1. CASE x = k
      BY <1>4, <3>1
    <3>2. CASE x # k
      BY <1>4, <3>2 DEF Agreement, MockTypes
    <3> QED
      BY <3>1, <3>2
  <2>2. \A f : IsMap(f)' <=> IsMap(f)
    BY DEF IsMap
  <2> QED
    BY <1>1, <1>2, <1>3, <1>4, <1>5, <2>1, <2>2 DEF Agreement, MockTypes
<1>8. \A x : InRanges(x)' <=> InRanges(x)
  BY <1>2 DEF InRanges, InMockRange
<1>9. StoredAgrees'
  <2>1. \A x : x # k => (HasValue(x)' <=> HasValue(x)) /\ (x \in DOMAIN batch.puts \/ ValueOf(x)' = ValueOf(x))
    BY <1>2, <1>4, <1>8 DEF HasValue, ValueOf
  <2>2. \A x \in DOMAIN batch.puts : x # k => ValueOf(x)' = ValueOf(x)
    BY <1>2, <1>4 DEF ValueOf
  <2>3. (HasValue(k)' <=> type = "kUpdate") /\ ValueOf(k)' = v
    BY <1>2, <1>4, <1>8 DEF HasValue, ValueOf
  <2>4. /\ \A x \in MockKeys : x \in DOMAIN rocks.stored <=> HasValue(x)
        /\ \A x \in DOMAIN rocks.stored : rocks.stored[x] = ValueOf(x)
    BY DEF Agreement, StoredAgrees
  <2> QED
    BY <1>3, <1>5, <2>1, <2>2, <2>3, <2>4 DEF StoredAgrees
<1>10. ListsAgree'
  <2>1. \A x, d : InFlushed(x, d)' <=> InFlushed(x, d)
    BY <1>2, <1>8 DEF InFlushed
  <2>2. \A x : Listed(x)' = Listed(x)
    BY <1>3 DEF Listed
  <2> QED
    BY <2>1, <2>2 DEF Agreement, ListsAgree
<1> QED
  BY <1>6, <1>9, <1>10 DEF Agreement

\* A posting, added or deleted.
LEMMA MergeKeepsFlush ==
  ASSUME Agreement, NEW k \in MockKeys, NEW d \in DocID, NEW s \in {"OK", "Delete"}, MockMerge(k, d, s), ~departed'
  PROVE  Agreement'
<1> DEFINE l == [EmptyList EXCEPT ![d] = s]
           old == IF k \in DOMAIN batch.lists THEN batch.lists[k].value ELSE EmptyList
           new == MergedInBatch(old, l)
           b == With(batch.lists, k, [type |-> "kMerge", value |-> new])
           ids == IF s = "OK" THEN Listed(k) \cup {d} ELSE Listed(k) \ {d}
           r == With(rocks.lists, k, ids)
<1>1. /\ IsMap(stored) /\ IsMap(inverted) /\ IsMap(batch.puts) /\ IsMap(batch.lists)
      /\ IsMap(rocks.stored) /\ IsMap(rocks.lists)
      /\ batch = [puts |-> batch.puts, lists |-> batch.lists, ranges |-> batch.ranges]
      /\ rocks = [stored |-> rocks.stored, lists |-> rocks.lists]
  BY DEF Agreement, MockTypes
<1>2. /\ ~InRanges(k) /\ UNCHANGED <<stored, inverted>>
      /\ batch' = [batch EXCEPT !.lists = b] /\ rocks' = [rocks EXCEPT !.lists = r]
  BY DEF MockMerge
<1>3. old \in DocList
  BY DEF Agreement, MockTypes, DocList, State, EmptyList
<1>4. new \in DocList /\ new[d] = s /\ \A e \in DocID : e # d => new[e] = old[e]
  BY <1>3 DEF MergedInBatch, EmptyList, DocList, State
<1>5. /\ batch'.puts = batch.puts /\ batch'.lists = b /\ batch'.ranges = batch.ranges
      /\ batch' = [puts |-> batch.puts, lists |-> b, ranges |-> batch.ranges]
  <2> HIDE DEF b
  <2> QED
    BY <1>1, <1>2
<1>6. /\ rocks'.stored = rocks.stored /\ rocks'.lists = r
      /\ rocks' = [stored |-> rocks.stored, lists |-> r]
  <2> HIDE DEF r
  <2> QED
    BY <1>1, <1>2
<1> HIDE DEF new, ids
<1>7. /\ IsMap(b) /\ DOMAIN b = DOMAIN batch.lists \cup {k}
      /\ b[k] = [type |-> "kMerge", value |-> new] /\ \A x \in DOMAIN batch.lists : x # k => b[x] = batch.lists[x]
  <2>1. IsMap(batch.lists) /\ k \in MockKeys
    BY <1>1
  <2> QED
    BY ONLY <2>1 DEF With, IsMap
<1>8. /\ IsMap(r) /\ DOMAIN r = DOMAIN rocks.lists \cup {k}
      /\ r[k] = ids /\ \A x \in DOMAIN rocks.lists : x # k => r[x] = rocks.lists[x]
  <2>1. IsMap(rocks.lists) /\ k \in MockKeys
    BY <1>1
  <2> QED
    BY ONLY <2>1 DEF With, IsMap
<1> HIDE DEF b, r
<1>9. MockTypes'
  BY <1>1, <1>2, <1>4, <1>5, <1>6, <1>7, <1>8 DEF Agreement, MockTypes, IsMap
<1>11. \A x : InRanges(x)' <=> InRanges(x)
  BY <1>5 DEF InRanges, InMockRange
<1>12. StoredAgrees'
  BY <1>2, <1>5, <1>6, <1>11 DEF Agreement, StoredAgrees, HasValue, ValueOf
<1>13. Listed(k) = {e \in DocID : InFlushed(k, e)}
  BY DEF Agreement, ListsAgree
<1>16. ListsAgree'
  <2>1. ASSUME NEW x \in MockKeys, x # k PROVE Listed(x)' = {e \in DocID : InFlushed(x, e)'}
    <3>1. Listed(x)' = Listed(x)
      BY <1>6, <1>8, <2>1 DEF Listed
    <3>2. \A e \in DocID : InFlushed(x, e)' <=> InFlushed(x, e)
      <4>1. (x \in DOMAIN b <=> x \in DOMAIN batch.lists) /\ (x \in DOMAIN b => b[x] = batch.lists[x])
        BY <1>7, <2>1
      <4>2. inverted' = inverted /\ batch'.lists = b
        BY <1>2, <1>5
      <4> QED
        BY ONLY <1>11, <4>1, <4>2 DEF InFlushed
    <3> QED
      BY <3>1, <3>2 DEF Agreement, ListsAgree
  <2>2. Listed(k)' = ids
    BY <1>6, <1>8 DEF Listed
  <2>3. ASSUME NEW e \in DocID PROVE InFlushed(k, e)' <=> e \in ids
    <3>1. InFlushed(k, e)' <=> new[e] = "OK" \/ (new[e] = "None" /\ k \in DOMAIN inverted /\ inverted[k][e] = "OK")
      BY <1>2, <1>5, <1>7, <1>11 DEF InFlushed
    <3>2. CASE e = d
      BY <1>4, <3>1, <3>2 DEF ids
    <3>3. CASE e # d
      <4>1. InFlushed(k, e) <=> old[e] = "OK" \/ (old[e] = "None" /\ k \in DOMAIN inverted /\ inverted[k][e] = "OK")
        BY <1>2 DEF InFlushed, EmptyList
      <4>2. e \in ids <=> e \in Listed(k)
        BY <3>3 DEF ids
      <4> QED
        BY <1>4, <1>13, <3>1, <3>3, <4>1, <4>2
    <3> QED
      BY <3>2, <3>3
  <2>4. ids \subseteq DocID
    BY <1>13 DEF ids
  <2> QED
    BY <2>1, <2>2, <2>3, <2>4 DEF ListsAgree
<1> QED
  BY <1>9, <1>12, <1>16 DEF Agreement

\* A range to delete.
LEMMA DeleteRangeInv ==
  ASSUME Agreement, NEW r, MockDeleteRange(r)
  PROVE  Agreement'
<1> DEFINE G == InMockRange(r)
           rs == Without(rocks.stored, G)
           rl == Without(rocks.lists, G)
<1>1. /\ IsMap(stored) /\ IsMap(inverted) /\ IsMap(batch.puts) /\ IsMap(batch.lists)
      /\ IsMap(rocks.stored) /\ IsMap(rocks.lists)
      /\ batch = [puts |-> batch.puts, lists |-> batch.lists, ranges |-> batch.ranges]
      /\ rocks = [stored |-> rocks.stored, lists |-> rocks.lists]
  BY DEF Agreement, MockTypes
<1>2. /\ batch' = [batch EXCEPT !.ranges = @ \cup {r}] /\ UNCHANGED <<stored, inverted>>
      /\ rocks' = [stored |-> rs, lists |-> rl]
  BY DEF MockDeleteRange
<1>3. /\ batch'.puts = batch.puts /\ batch'.lists = batch.lists /\ batch'.ranges = batch.ranges \cup {r}
      /\ batch' = [puts |-> batch.puts, lists |-> batch.lists, ranges |-> batch.ranges \cup {r}]
  BY <1>1, <1>2
<1>4. /\ IsMap(rs) /\ DOMAIN rs = DOMAIN rocks.stored \ G
      /\ \A x \in DOMAIN rs : rs[x] = rocks.stored[x]
      /\ IsMap(rl) /\ DOMAIN rl = DOMAIN rocks.lists \ G
      /\ \A x \in DOMAIN rl : rl[x] = rocks.lists[x]
  <2> HIDE DEF G
  <2>1. IsMap(rocks.stored) /\ IsMap(rocks.lists)
    BY <1>1
  <2>2. IsMap(rs) /\ DOMAIN rs = DOMAIN rocks.stored \ G /\ \A x \in DOMAIN rocks.stored \ G : rs[x] = rocks.stored[x]
    BY ONLY <2>1, WithoutIs
  <2>3. IsMap(rl) /\ DOMAIN rl = DOMAIN rocks.lists \ G /\ \A x \in DOMAIN rocks.lists \ G : rl[x] = rocks.lists[x]
    BY ONLY <2>1, WithoutIs
  <2> HIDE DEF rs, rl
  <2> QED
    BY ONLY <2>2, <2>3
<1> HIDE DEF rs, rl
<1>5. rocks'.stored = rs /\ rocks'.lists = rl
  BY <1>2
<1>6. MockTypes'
  <2>1. \A f : IsMap(f)' <=> IsMap(f)
    BY DEF IsMap
  <2> QED
    BY <1>1, <1>2, <1>3, <1>4, <1>5, <2>1 DEF Agreement, MockTypes
<1>8. \A x : InRanges(x)' <=> InRanges(x) \/ x \in G
  BY <1>3 DEF InRanges, InMockRange
<1>9. StoredAgrees'
  BY <1>2, <1>3, <1>4, <1>5, <1>8 DEF Agreement, StoredAgrees, HasValue, ValueOf
<1>10. ListsAgree'
  <2>1. \A x, d : InFlushed(x, d)' <=> InFlushed(x, d) /\ x \notin G
    BY <1>2, <1>3, <1>8 DEF InFlushed
  <2>2. \A x : Listed(x)' = IF x \in G THEN {} ELSE Listed(x)
    BY <1>4, <1>5 DEF Listed
  <2> QED
    BY <2>1, <2>2 DEF Agreement, ListsAgree
<1> QED
  BY <1>6, <1>9, <1>10 DEF Agreement

\* Nothing else matters to the agreement.
LEMMA AgreementFrame ==
  ASSUME Agreement, UNCHANGED <<stored, inverted, batch, rocks>>
  PROVE  Agreement'
<1>1. MockTypes'
  BY DEF Agreement, MockTypes, IsMap
<1>2. StoredAgrees'
  BY DEF Agreement, StoredAgrees, HasValue, ValueOf, InRanges, InMockRange
<1>3. ListsAgree'
  BY DEF Agreement, ListsAgree, InFlushed, InRanges, InMockRange, Listed
<1> QED
  BY <1>1, <1>2, <1>3 DEF Agreement

\* A batch of puts alone is the same batch when it is opened again.
LEMMA ReopenInv ==
  ASSUME Agreement, DeSeriableData, ~departed'
  PROVE  Agreement'
<1> DEFINE ps == Reopened(batch.puts, 0)
           ls == Reopened(batch.lists, EmptyList)
<1>1. /\ IsMap(stored) /\ IsMap(inverted) /\ IsMap(batch.puts) /\ IsMap(batch.lists)
      /\ IsMap(rocks.stored) /\ IsMap(rocks.lists)
      /\ batch = [puts |-> batch.puts, lists |-> batch.lists, ranges |-> batch.ranges]
      /\ \A k \in DOMAIN batch.puts :
           /\ batch.puts[k].type \in {"kUpdate", "kDelete"}
           /\ batch.puts[k] = [type |-> batch.puts[k].type, value |-> batch.puts[k].value]
  BY DEF Agreement, MockTypes
<1>2. /\ batch' = [puts |-> ps, lists |-> ls, ranges |-> {}]
      /\ UNCHANGED <<stored, inverted, rocks>>
      /\ batch.lists = <<>> /\ batch.ranges = {} /\ \A k \in DOMAIN batch.puts : batch.puts[k].type # "kDelete"
  BY DEF DeSeriableData
<1>3. ps = batch.puts
  <2>0. /\ \A k \in DOMAIN batch.puts : ps[k] = [type |-> "kUpdate", value |-> batch.puts[k].value]
        /\ DOMAIN ps = DOMAIN batch.puts /\ ps = [k \in DOMAIN ps |-> ps[k]]
    BY <1>2 DEF Reopened
  <2>1. \A k \in DOMAIN batch.puts : ps[k] = batch.puts[k]
    BY <1>1, <1>2, <2>0
  <2>2. DOMAIN ps = DOMAIN batch.puts /\ IsMap(ps)
    BY <1>1, <2>0 DEF IsMap
  <2> HIDE DEF ps
  <2> QED
    BY ONLY <1>1, <2>1, <2>2, SameMap
<1>4. ls = batch.lists
  <2>1. DOMAIN batch.lists = {} /\ DOMAIN ls = {} /\ IsMap(ls)
    BY <1>2, EmptyMap DEF IsMap, Reopened
  <2> HIDE DEF ls
  <2> QED
    BY ONLY <1>1, <2>1, SameMap
<1> HIDE DEF ps, ls
<1>5. batch' = batch
  BY <1>1, <1>2, <1>3, <1>4
<1> QED
  BY <1>2, <1>5, AgreementFrame

\* A flush makes the mock what it would have become, and leaves an empty batch.
LEMMA FlushInv ==
  ASSUME Agreement, MockFlush, ~departed'
  PROVE  Agreement'
<1> DEFINE gone == UNION {InMockRange(r) : r \in batch.ranges}
           st == Without(AppliedPuts, gone)
           iv == Without(AppliedLists, gone)
<1>1. /\ IsMap(stored) /\ IsMap(inverted) /\ IsMap(batch.puts) /\ IsMap(batch.lists)
      /\ IsMap(rocks.stored) /\ IsMap(rocks.lists)
      /\ \A k \in DOMAIN inverted : inverted[k] \in [DocID -> {"None", "OK"}]
      /\ \A k \in DOMAIN batch.puts : batch.puts[k].type \in {"kUpdate", "kDelete"}
      /\ \A k \in DOMAIN batch.lists : batch.lists[k].type = "kMerge" /\ batch.lists[k].value \in DocList
      /\ rocks = [stored |-> rocks.stored, lists |-> rocks.lists]
  BY DEF Agreement, MockTypes
<1>2. stored' = st /\ inverted' = iv /\ batch' = NoEntries /\ rocks' = rocks /\ DeletesKept = {}
  BY DEF MockFlush
<1>3. \A k : k \in gone <=> InRanges(k)
  BY DEF InRanges
<1>4. /\ IsMap(AppliedPuts)
      /\ \A k : k \in DOMAIN AppliedPuts <=>
                  IF k \in DOMAIN batch.puts THEN batch.puts[k].type = "kUpdate" ELSE k \in DOMAIN stored
      /\ \A k \in DOMAIN AppliedPuts : AppliedPuts[k] = ValueOf(k)
  BY <1>1 DEF AppliedPuts, IsMap, ValueOf
<1> HIDE DEF gone
<1>5. /\ IsMap(st) /\ \A k : k \in DOMAIN st <=> HasValue(k)
      /\ \A k \in DOMAIN st : st[k] = ValueOf(k)
  <2>1. /\ IsMap(st) /\ DOMAIN st = DOMAIN AppliedPuts \ gone
        /\ \A x \in DOMAIN AppliedPuts \ gone : st[x] = AppliedPuts[x]
    BY ONLY <1>4, WithoutIs
  <2> HIDE DEF st
  <2> QED
    BY <1>3, <1>4, <2>1 DEF HasValue
<1>6. /\ IsMap(AppliedLists)
      /\ \A k : k \in DOMAIN AppliedLists <=> k \in DOMAIN inverted \cup DOMAIN batch.lists
  BY <1>1 DEF AppliedLists, IsMap
<1>7. ASSUME NEW k \in DOMAIN AppliedLists
      PROVE  ~InRanges(k) =>
               /\ AppliedLists[k] \in [DocID -> {"None", "OK"}]
               /\ \A d \in DocID : AppliedLists[k][d] = "OK" <=> InFlushed(k, d)
  <2>1. CASE k \notin DOMAIN batch.lists
    <3>1. AppliedLists[k] = inverted[k] /\ k \in DOMAIN inverted
      BY <1>7, <2>1 DEF AppliedLists
    <3> QED
      BY <1>1, <2>1, <3>1 DEF InFlushed
  <2>2. CASE k \in DOMAIN batch.lists /\ k \in DOMAIN inverted
    <3> DEFINE l == batch.lists[k].value
               old == inverted[k]
    <3>1. AppliedLists[k] = MergedInMock(old, l)
      BY <1>1, <1>7, <2>2 DEF AppliedLists
    <3>2. old \in [DocID -> {"None", "OK"}] /\ l \in [DocID -> {"None", "OK", "Delete"}]
      BY <1>1, <2>2 DEF DocList, State
    <3>3. /\ AppliedLists[k] \in [DocID -> {"None", "OK"}]
          /\ \A d \in DocID : AppliedLists[k][d] = "OK" <=> l[d] = "OK" \/ (l[d] = "None" /\ old[d] = "OK")
      BY <3>1 DEF MergedInMock
    <3> QED
      BY <2>2, <3>3 DEF InFlushed
  <2>3. CASE k \in DOMAIN batch.lists /\ k \notin DOMAIN inverted
    <3>1. AppliedLists[k] = batch.lists[k].value
      BY <1>7, <2>3 DEF AppliedLists
    <3>2. batch.lists[k].value \in [DocID -> {"None", "OK", "Delete"}]
      BY <1>1, <2>3 DEF DocList, State
    <3>3. ~InRanges(k) => \A d \in DocID : batch.lists[k].value[d] # "Delete"
      BY <1>2, <2>3 DEF DeletesKept
    <3>4. ~InRanges(k) => batch.lists[k].value \in [DocID -> {"None", "OK"}]
      BY ONLY <3>2, <3>3
    <3> QED
      BY <2>3, <3>1, <3>4 DEF InFlushed
  <2> QED
    BY <1>6, <1>7, <2>1, <2>2, <2>3
<1>8. /\ IsMap(iv) /\ DOMAIN iv = DOMAIN AppliedLists \ gone
      /\ \A x \in DOMAIN AppliedLists \ gone : iv[x] = AppliedLists[x]
  BY ONLY <1>6, WithoutIs
<1> HIDE DEF st, iv
<1>9. /\ batch'.puts = <<>> /\ batch'.lists = <<>> /\ batch'.ranges = {}
      /\ batch' = [puts |-> <<>>, lists |-> <<>>, ranges |-> {}]
      /\ DOMAIN batch'.puts = {} /\ DOMAIN batch'.lists = {}
  BY <1>2, EmptyMap DEF NoEntries
<1>10. MockTypes'
  <2>1. \A f : IsMap(f)' <=> IsMap(f)
    BY DEF IsMap
  <2>2. \A k \in DOMAIN iv : iv[k] \in [DocID -> {"None", "OK"}]
    BY <1>3, <1>7, <1>8
  <2>3. IsMap(<<>>)
    BY EmptyMap
  <2> QED
    BY <1>1, <1>2, <1>5, <1>8, <1>9, <2>1, <2>2, <2>3 DEF MockTypes
<1>12. \A k : ~InRanges(k)'
  BY <1>9 DEF InRanges
<1>13. StoredAgrees'
  <2>1. \A k : (HasValue(k)' <=> k \in DOMAIN st) /\ ValueOf(k)' = st[k]
    BY <1>2, <1>9, <1>12 DEF HasValue, ValueOf
  <2>2. /\ \A k \in MockKeys : k \in DOMAIN rocks.stored <=> HasValue(k)
        /\ \A k \in DOMAIN rocks.stored : rocks.stored[k] = ValueOf(k) /\ k \in MockKeys
    BY <1>1 DEF Agreement, StoredAgrees, IsMap
  <2> QED
    BY <1>2, <1>5, <2>1, <2>2 DEF StoredAgrees
<1>14. ListsAgree'
  <2>1. ASSUME NEW k \in MockKeys, NEW d \in DocID PROVE InFlushed(k, d)' <=> InFlushed(k, d)
    <3>1. InFlushed(k, d)' <=> k \in DOMAIN iv /\ iv[k][d] = "OK"
      BY <1>2, <1>9, <1>12 DEF InFlushed
    <3>2. CASE k \in DOMAIN iv
      BY <1>3, <1>7, <1>8, <3>1, <3>2
    <3>3. CASE k \notin DOMAIN iv
      BY <1>3, <1>6, <1>8, <3>1, <3>3 DEF InFlushed
    <3> QED
      BY <3>2, <3>3
  <2>2. \A k : Listed(k)' = Listed(k)
    BY <1>2 DEF Listed
  <2> QED
    BY <2>1, <2>2 DEF Agreement, ListsAgree
<1> QED
  BY <1>10, <1>13, <1>14 DEF Agreement

\* Every step keeps the invariant.
LEMMA MockNextInv ==
  ASSUME MockInv, [MockNext]_mockVars
  PROVE  MockInv'
<1>1. CASE UNCHANGED mockVars
  BY <1>1, AgreementFrame DEF mockVars, MockInv
<1>2. CASE MockNext
  <2> DEFINE Keeps == departed' \in BOOLEAN /\ crashed' \in BOOLEAN /\ (departed => departed') /\ (~departed' => Agreement')
  <2>1. departed \in BOOLEAN /\ crashed \in BOOLEAN /\ ~crashed /\ (~departed => Agreement)
    BY <1>2 DEF MockInv, MockNext, MockPut, MockDelete, MockMerge, MockDeleteRange, DeSeriableData, MockFlush, Call
  <2>2. ASSUME NEW k \in MockKeys, NEW v, MockPut(k, v) PROVE Keeps
    <3>1. /\ departed' = (departed \/ InRanges(k)) /\ UNCHANGED <<stored, inverted, crashed>>
          /\ batch' = [batch EXCEPT !.puts = With(@, k, [type |-> "kUpdate", value |-> v])]
          /\ rocks' = [rocks EXCEPT !.stored = IF "kUpdate" = "kUpdate" THEN With(@, k, v) ELSE Without(@, {k})]
      BY <2>2 DEF MockPut
    <3>2. ASSUME Agreement, ~InRanges(k) PROVE Agreement'
      BY <3>1, <3>2, PutInv
    <3> QED
      BY <2>1, <3>1, <3>2
  <2>3. ASSUME NEW k \in MockKeys, MockDelete(k) PROVE Keeps
    <3>1. /\ UNCHANGED <<stored, inverted, departed, crashed>>
          /\ batch' = [batch EXCEPT !.puts = With(@, k, [type |-> "kDelete", value |-> 0])]
          /\ rocks' = [rocks EXCEPT !.stored = IF "kDelete" = "kUpdate" THEN With(@, k, 0) ELSE Without(@, {k})]
      BY <2>3 DEF MockDelete
    <3>2. ASSUME Agreement PROVE Agreement'
      BY <3>1, <3>2, PutInv
    <3> QED
      BY <2>1, <3>1, <3>2
  <2>4. ASSUME NEW k \in MockKeys, NEW d \in DocID, NEW s \in {"OK", "Delete"}, MockMerge(k, d, s) PROVE Keeps
    <3>1. departed' = (departed \/ InRanges(k)) /\ UNCHANGED crashed
      BY <2>4 DEF MockMerge
    <3> QED
      BY <2>1, <2>4, <3>1, MergeKeepsFlush
  <2>5. ASSUME NEW r, MockDeleteRange(r) PROVE Keeps
    <3>1. UNCHANGED <<departed, crashed>>
      BY <2>5 DEF MockDeleteRange
    <3> QED
      BY <2>1, <2>5, <3>1, DeleteRangeInv
  <2>6. ASSUME DeSeriableData PROVE Keeps
    <3>1. departed' \in BOOLEAN /\ (departed => departed') /\ UNCHANGED crashed
      BY <2>1, <2>6 DEF DeSeriableData
    <3> QED
      BY <2>1, <2>6, <3>1, ReopenInv
  <2>7. ASSUME MockFlush PROVE Keeps
    <3>1. departed' \in BOOLEAN /\ (departed => departed') /\ crashed' \in BOOLEAN
      BY <2>1, <2>7 DEF MockFlush
    <3> QED
      BY <2>1, <2>7, <3>1, FlushInv
  <2>8. Keeps
    <3> HIDE DEF Keeps
    <3> QED
      BY <1>2, <2>2, <2>3, <2>4, <2>5, <2>6, <2>7 DEF MockNext
  <2> QED
    BY <2>8 DEF MockInv
<1> QED
  BY <1>1, <1>2

\* At first both databases are empty.
LEMMA MockInitInv ==
  ASSUME MockInit
  PROVE  MockInv
<1>1. /\ stored = <<>> /\ inverted = <<>> /\ batch = [puts |-> <<>>, lists |-> <<>>, ranges |-> {}]
      /\ rocks = [stored |-> <<>>, lists |-> <<>>] /\ departed = FALSE /\ crashed = FALSE
  BY DEF MockInit, NoEntries
<1>2. IsMap(<<>>) /\ DOMAIN <<>> = {}
  BY EmptyMap
<1>3. MockTypes
  BY <1>1, <1>2 DEF MockTypes
<1>4. StoredAgrees
  BY <1>1, <1>2 DEF StoredAgrees, HasValue
<1>5. ListsAgree
  BY <1>1, <1>2 DEF ListsAgree, Listed, InFlushed
<1> QED
  BY <1>1, <1>3, <1>4, <1>5 DEF MockInv, Agreement

\* What a flush would make of the mock is what RocksDB holds, at every moment.
THEOREM MockInvariant == MockSpec => []MockInv
<1>1. MockInit => MockInv
  BY MockInitInv
<1>2. MockInv /\ [MockNext]_mockVars => MockInv'
  BY MockNextInv
<1> QED
  BY <1>1, <1>2, PTL DEF MockSpec

\* After a flush the mock answers Get, Seek and the readers of doc lists as RocksDB
\* would, for any keys and documents and any calls on write buffers but those whose
\* effect the mock does not keep.
THEOREM MockCorrect == MockSpec => []MockAgrees
<1>1. ASSUME MockInv, batch = NoEntries, ~departed, ~crashed
      PROVE  /\ stored = rocks.stored
             /\ \A k \in MockKeys : (IF k \in DOMAIN inverted THEN Ids(inverted[k]) ELSE {}) = Listed(k)
  <2>1. Agreement
    BY <1>1 DEF MockInv
  <2>2. /\ batch.puts = <<>> /\ batch.lists = <<>> /\ batch.ranges = {}
        /\ DOMAIN batch.puts = {} /\ DOMAIN batch.lists = {} /\ \A k : ~InRanges(k)
    BY <1>1, EmptyMap DEF NoEntries, InRanges
  <2>3. \A k : (HasValue(k) <=> k \in DOMAIN stored) /\ ValueOf(k) = stored[k]
    BY <2>2 DEF HasValue, ValueOf
  <2>4. IsMap(stored) /\ IsMap(rocks.stored)
    BY <2>1 DEF Agreement, MockTypes
  <2>5. DOMAIN stored = DOMAIN rocks.stored /\ \A k \in DOMAIN stored : stored[k] = rocks.stored[k]
    BY <2>1, <2>3, <2>4 DEF Agreement, StoredAgrees, IsMap
  <2>6. stored = rocks.stored
    BY ONLY <2>4, <2>5, SameMap
  <2>7. ASSUME NEW k \in MockKeys
        PROVE  (IF k \in DOMAIN inverted THEN Ids(inverted[k]) ELSE {}) = Listed(k)
    <3>1. Listed(k) = {d \in DocID : InFlushed(k, d)}
      BY <2>1 DEF Agreement, ListsAgree
    <3>2. \A d \in DocID : InFlushed(k, d) <=> k \in DOMAIN inverted /\ inverted[k][d] = "OK"
      BY <2>2 DEF InFlushed
    <3>3. k \in DOMAIN inverted => inverted[k] \in [DocID -> {"None", "OK"}]
      BY <2>1 DEF Agreement, MockTypes
    <3> QED
      BY <3>1, <3>2, <3>3 DEF Ids
  <2> QED
    BY <2>6, <2>7
<1>2. MockInv => MockAgrees
  BY <1>1 DEF MockAgrees
<1> QED
  BY <1>2, MockInvariant, PTL

-----------------------------------------------------------------------------
(***************************************************************************)
(* The merging iterator for any number of children and any keys.  Once     *)
(* current_ stands on a key every child is at that key or next to it on    *)
(* the side the iterator moves to, whichever way it came there; so a step  *)
(* that turns around and one that does not both find the nearest key.      *)
(***************************************************************************)

(***************************************************************************)
(* The inductive invariant.                                                *)
(***************************************************************************)
MergingTypes ==
  /\ keysOf \in [Children -> SUBSET ChildKeys]
  /\ at \in [Children -> Nat]
  /\ cursor \in Children \cup {0}
  /\ direction \in {"forward", "reverse"}

\* Every child stands on its first key from k on, or on the first behind it.
Ahead(pos, k) == \A i \in Children : pos[i] \in {SeekChild(i, k), NextOfChild(i, k)}

\* On its last key up to k, or on the last before it.
Behind(pos, k) == \A i \in Children : pos[i] \in {SeekChildForPrev(i, k), PrevOfChild(i, k)}

MergingInv ==
  /\ MergingTypes
  /\ Valid => /\ at[cursor] \in keysOf[cursor]
              /\ direction = "forward" => Ahead(at, at[cursor])
              /\ direction = "reverse" => Behind(at, at[cursor])

-----------------------------------------------------------------------------
(***************************************************************************)
(* What the operations of a child and the two searches return.             *)
(***************************************************************************)
\* LeastOf is the least element, or 0 if there is none.
LEMMA LeastOfIs ==
  ASSUME NEW S \in SUBSET (Nat \ {0})
  PROVE  /\ LeastOf(S) \in Nat
         /\ LeastOf(S) = 0 <=> S = {}
         /\ S # {} => LeastOf(S) \in S
         /\ \A y \in S : LeastOf(S) <= y
<1>1. CASE S = {}
  BY <1>1 DEF LeastOf
<1>2. CASE S # {}
  <2>1. PICK m \in S : \A y \in S : m <= y
    BY <1>2, LeastExists
  <2>2. Min(S) \in S /\ \A y \in S : Min(S) <= y
    BY <2>1 DEF Min
  <2> QED
    BY <1>2, <2>2 DEF LeastOf
<1> QED
  BY <1>1, <1>2

\* GreatestOf is the greatest element of a finite set, or 0 if there is none.
LEMMA GreatestOfIs ==
  ASSUME NEW S \in SUBSET Nat, IsFiniteSet(S)
  PROVE  /\ GreatestOf(S) \in Nat
         /\ S = {} => GreatestOf(S) = 0
         /\ S # {} => GreatestOf(S) \in S
         /\ \A y \in S : y <= GreatestOf(S)
<1>1. CASE S = {}
  BY <1>1 DEF GreatestOf
<1>2. CASE S # {}
  <2>1. PICK m \in S : \A y \in S : y <= m
    BY <1>2, FiniteGreatest
  <2>2. Max(S) \in S /\ \A y \in S : Max(S) >= y
    BY <2>1 DEF Max
  <2> QED
    BY <1>2, <2>2 DEF GreatestOf
<1> QED
  BY <1>1, <1>2

\* The two ways forward of a child, by the keys they pass.
LEMMA SeekIs ==
  ASSUME MergingTypes, NEW i \in Children, NEW k \in Nat, NEW v \in Nat
  PROVE  v = SeekChild(i, k) <=>
           \/ v = 0 /\ \A x \in keysOf[i] : x < k
           \/ v \in keysOf[i] /\ v >= k /\ \A x \in keysOf[i] : x >= k => v <= x
<1> DEFINE S == {x \in keysOf[i] : x >= k}
<1>1. keysOf[i] \subseteq Nat \ {0}
  BY ChildAssumption DEF MergingTypes
<1>2. S \in SUBSET (Nat \ {0}) /\ SeekChild(i, k) = LeastOf(S)
  BY <1>1 DEF SeekChild
<1>3. /\ LeastOf(S) \in Nat
      /\ LeastOf(S) = 0 <=> S = {}
      /\ S # {} => LeastOf(S) \in S
      /\ \A y \in S : LeastOf(S) <= y
  <2> HIDE DEF S
  <2> QED
    BY <1>2, LeastOfIs
<1> QED
  BY <1>1, <1>2, <1>3

\* And behind a key.
LEMMA NextIs ==
  ASSUME MergingTypes, NEW i \in Children, NEW k \in Nat, NEW v \in Nat
  PROVE  v = NextOfChild(i, k) <=>
           \/ v = 0 /\ \A x \in keysOf[i] : x <= k
           \/ v \in keysOf[i] /\ v > k /\ \A x \in keysOf[i] : x > k => v <= x
<1> DEFINE S == {x \in keysOf[i] : x > k}
<1>1. keysOf[i] \subseteq Nat \ {0}
  BY ChildAssumption DEF MergingTypes
<1>2. S \in SUBSET (Nat \ {0}) /\ NextOfChild(i, k) = LeastOf(S)
  BY <1>1 DEF NextOfChild
<1>3. /\ LeastOf(S) \in Nat
      /\ LeastOf(S) = 0 <=> S = {}
      /\ S # {} => LeastOf(S) \in S
      /\ \A y \in S : LeastOf(S) <= y
  <2> HIDE DEF S
  <2> QED
    BY <1>2, LeastOfIs
<1> QED
  BY <1>1, <1>2, <1>3

\* The two ways back.
LEMMA SeekForPrevIs ==
  ASSUME MergingTypes, IsFiniteSet(ChildKeys), NEW i \in Children, NEW k \in Nat, NEW v \in Nat
  PROVE  v = SeekChildForPrev(i, k) <=>
           \/ v = 0 /\ \A x \in keysOf[i] : x > k
           \/ v \in keysOf[i] /\ v <= k /\ \A x \in keysOf[i] : x <= k => x <= v
<1> DEFINE S == {x \in keysOf[i] : x <= k}
<1>1. keysOf[i] \subseteq Nat \ {0} /\ keysOf[i] \subseteq ChildKeys
  BY ChildAssumption DEF MergingTypes
<1>2. S \in SUBSET Nat /\ SeekChildForPrev(i, k) = GreatestOf(S) /\ S \subseteq ChildKeys
  BY <1>1 DEF SeekChildForPrev
<1>3. /\ GreatestOf(S) \in Nat
      /\ S = {} => GreatestOf(S) = 0
      /\ S # {} => GreatestOf(S) \in S
      /\ \A y \in S : y <= GreatestOf(S)
  <2> HIDE DEF S
  <2>1. IsFiniteSet(S)
    BY <1>2, FS_Subset
  <2> QED
    BY <1>2, <2>1, GreatestOfIs
<1> QED
  BY <1>1, <1>2, <1>3

\* And before a key.
LEMMA PrevIs ==
  ASSUME MergingTypes, IsFiniteSet(ChildKeys), NEW i \in Children, NEW k \in Nat, NEW v \in Nat
  PROVE  v = PrevOfChild(i, k) <=>
           \/ v = 0 /\ \A x \in keysOf[i] : x >= k
           \/ v \in keysOf[i] /\ v < k /\ \A x \in keysOf[i] : x < k => x <= v
<1> DEFINE S == {x \in keysOf[i] : x < k}
<1>1. keysOf[i] \subseteq Nat \ {0} /\ keysOf[i] \subseteq ChildKeys
  BY ChildAssumption DEF MergingTypes
<1>2. S \in SUBSET Nat /\ PrevOfChild(i, k) = GreatestOf(S) /\ S \subseteq ChildKeys
  BY <1>1 DEF PrevOfChild
<1>3. /\ GreatestOf(S) \in Nat
      /\ S = {} => GreatestOf(S) = 0
      /\ S # {} => GreatestOf(S) \in S
      /\ \A y \in S : y <= GreatestOf(S)
  <2> HIDE DEF S
  <2>1. IsFiniteSet(S)
    BY <1>2, FS_Subset
  <2> QED
    BY <1>2, <2>1, GreatestOfIs
<1> QED
  BY <1>1, <1>2, <1>3

\* FindSmallest is a child on the smallest key, or none when all are invalid.
LEMMA FindSmallestIs ==
  ASSUME NEW pos \in [Children -> Nat]
  PROVE  /\ FindSmallest(pos) \in Children \cup {0}
         /\ FindSmallest(pos) = 0 => \A i \in Children : pos[i] = 0
         /\ FindSmallest(pos) # 0 =>
              /\ FindSmallest(pos) \in Children /\ pos[FindSmallest(pos)] # 0
              /\ \A i \in Children : pos[i] # 0 => pos[FindSmallest(pos)] <= pos[i]
<1> DEFINE S == {pos[i] : i \in Children} \ {0}
           key == LeastOf(S)
           C == {i \in Children : pos[i] = key}
<1>1. S \in SUBSET (Nat \ {0})
  OBVIOUS
<1>2. /\ key \in Nat
      /\ key = 0 <=> S = {}
      /\ S # {} => key \in S
      /\ \A y \in S : key <= y
  <2> HIDE DEF S
  <2> QED
    BY <1>1, LeastOfIs
<1>3. FindSmallest(pos) = IF key = 0 THEN 0 ELSE Min(C)
  BY DEF FindSmallest
<1>4. CASE key = 0
  BY <1>2, <1>3, <1>4
<1>5. CASE key # 0
  <2>1. C # {} /\ C \in SUBSET Nat
    BY <1>2, <1>5, ChildAssumption
  <2>2. Min(C) \in C
    <3> HIDE DEF C
    <3>1. PICK m \in C : \A y \in C : m <= y
      BY <2>1, LeastExists
    <3> QED
      BY <3>1 DEF Min
  <2>3. FindSmallest(pos) \in Children /\ pos[FindSmallest(pos)] = key /\ FindSmallest(pos) # 0
    BY <1>3, <1>5, <2>2, ChildAssumption
  <2>4. \A i \in Children : pos[i] # 0 => pos[i] \in S
    OBVIOUS
  <2> QED
    BY <1>2, <1>5, <2>3, <2>4
<1> QED
  BY <1>4, <1>5

\* FindLargest is a child on the largest key.
LEMMA FindLargestIs ==
  ASSUME IsFiniteSet(Children), NEW pos \in [Children -> Nat]
  PROVE  /\ FindLargest(pos) \in Children \cup {0}
         /\ FindLargest(pos) = 0 => \A i \in Children : pos[i] = 0
         /\ FindLargest(pos) # 0 =>
              /\ FindLargest(pos) \in Children /\ pos[FindLargest(pos)] # 0
              /\ \A i \in Children : pos[i] <= pos[FindLargest(pos)]
<1> DEFINE S == {pos[i] : i \in Children}
           key == GreatestOf(S)
           C == {i \in Children : pos[i] = key}
<1>1. S \in SUBSET Nat /\ IsFiniteSet(S)
  <2>1. pos \in Surjection(Children, S)
    BY DEF Surjection
  <2> QED
    BY <2>1, FS_Surjection
<1>2. /\ key \in Nat
      /\ S = {} => key = 0
      /\ S # {} => key \in S
      /\ \A y \in S : y <= key
  <2> HIDE DEF S
  <2> QED
    BY <1>1, GreatestOfIs
<1>3. FindLargest(pos) = IF key = 0 THEN 0 ELSE Max(C)
  BY DEF FindLargest
<1>4. \A i \in Children : pos[i] \in S /\ pos[i] \in Nat /\ pos[i] <= key
  BY <1>2
<1>5. CASE key = 0
  BY <1>3, <1>4, <1>5
<1>6. CASE key # 0
  <2>1. C # {} /\ C \in SUBSET Nat /\ C \subseteq Children
    BY <1>2, <1>6, ChildAssumption
  <2>2. Max(C) \in C
    <3> HIDE DEF C
    <3>1. IsFiniteSet(C)
      BY <2>1, FS_Subset
    <3>2. PICK m \in C : \A y \in C : m >= y
      BY <2>1, <3>1, FiniteGreatest
    <3> QED
      BY <3>2 DEF Max
  <2>3. FindLargest(pos) \in Children /\ pos[FindLargest(pos)] = key /\ FindLargest(pos) # 0
    BY <1>3, <1>6, <2>2, ChildAssumption
  <2> QED
    BY <1>4, <1>6, <2>3
<1> QED
  BY <1>5, <1>6

-----------------------------------------------------------------------------
(***************************************************************************)
(* Where the children stand after a step, seen from the new key.           *)
(***************************************************************************)
\* What it is to be ahead, in terms of keys.
LEMMA AheadIs ==
  ASSUME MergingTypes, NEW pos \in [Children -> Nat], NEW k \in Nat, Ahead(pos, k),
         NEW i \in Children
  PROVE  \/ pos[i] = 0 /\ \A x \in keysOf[i] : x <= k
         \/ pos[i] \in keysOf[i] /\ pos[i] >= k /\ \A x \in keysOf[i] : x > k => pos[i] <= x
<1>0. keysOf[i] \subseteq Nat \ {0} /\ pos[i] \in Nat
  BY ChildAssumption DEF MergingTypes
<1>1. CASE pos[i] = SeekChild(i, k)
  <2>1. \/ pos[i] = 0 /\ \A x \in keysOf[i] : x < k
        \/ pos[i] \in keysOf[i] /\ pos[i] >= k /\ \A x \in keysOf[i] : x >= k => pos[i] <= x
    BY <1>0, <1>1, SeekIs
  <2> QED
    BY <1>0, <2>1
<1>2. CASE pos[i] = NextOfChild(i, k)
  <2>1. \/ pos[i] = 0 /\ \A x \in keysOf[i] : x <= k
        \/ pos[i] \in keysOf[i] /\ pos[i] > k /\ \A x \in keysOf[i] : x > k => pos[i] <= x
    BY <1>0, <1>2, NextIs
  <2> QED
    BY <1>0, <2>1
<1> QED
  BY <1>1, <1>2 DEF Ahead

\* And behind.
LEMMA BehindIs ==
  ASSUME MergingTypes, IsFiniteSet(ChildKeys), NEW pos \in [Children -> Nat], NEW k \in Nat, Behind(pos, k),
         NEW i \in Children
  PROVE  \/ pos[i] = 0 /\ \A x \in keysOf[i] : x >= k
         \/ pos[i] \in keysOf[i] /\ pos[i] <= k /\ \A x \in keysOf[i] : x < k => x <= pos[i]
<1>0. keysOf[i] \subseteq Nat \ {0} /\ pos[i] \in Nat
  BY ChildAssumption DEF MergingTypes
<1>1. CASE pos[i] = SeekChildForPrev(i, k)
  <2>1. \/ pos[i] = 0 /\ \A x \in keysOf[i] : x > k
        \/ pos[i] \in keysOf[i] /\ pos[i] <= k /\ \A x \in keysOf[i] : x <= k => x <= pos[i]
    BY <1>0, <1>1, SeekForPrevIs
  <2> QED
    BY <1>0, <2>1
<1>2. CASE pos[i] = PrevOfChild(i, k)
  <2>1. \/ pos[i] = 0 /\ \A x \in keysOf[i] : x >= k
        \/ pos[i] \in keysOf[i] /\ pos[i] < k /\ \A x \in keysOf[i] : x < k => x <= pos[i]
    BY <1>0, <1>2, PrevIs
  <2> QED
    BY <1>0, <2>1
<1> QED
  BY <1>1, <1>2 DEF Behind

\* Children ahead of some key are ahead of the smallest of their own.
LEMMA AheadOfSmallest ==
  ASSUME MergingTypes, NEW pos \in [Children -> Nat], NEW k \in Nat, Ahead(pos, k),
         FindSmallest(pos) # 0
  PROVE  /\ pos[FindSmallest(pos)] \in keysOf[FindSmallest(pos)]
         /\ Ahead(pos, pos[FindSmallest(pos)])
<1> DEFINE c == FindSmallest(pos)
           K == pos[c]
<1>1. /\ c \in Children /\ K # 0 /\ K \in Nat
      /\ \A i \in Children : pos[i] # 0 => K <= pos[i]
  BY FindSmallestIs
<1>2. \A i \in Children : keysOf[i] \subseteq Nat \ {0} /\ pos[i] \in Nat
  BY ChildAssumption DEF MergingTypes
<1> HIDE DEF c, K
<1>3. ASSUME NEW i \in Children
      PROVE  \/ pos[i] = 0 /\ \A x \in keysOf[i] : x <= k
             \/ pos[i] \in keysOf[i] /\ pos[i] >= k /\ \A x \in keysOf[i] : x > k => pos[i] <= x
  BY AheadIs
<1>4. K \in keysOf[c] /\ K >= k
  BY <1>1, <1>3 DEF K
<1>5. ASSUME NEW i \in Children
      PROVE  pos[i] \in {SeekChild(i, K), NextOfChild(i, K)}
  <2>1. CASE pos[i] = K
    <3>1. pos[i] \in keysOf[i] /\ pos[i] >= K /\ \A x \in keysOf[i] : x >= K => pos[i] <= x
      BY <1>1, <1>2, <1>3, <2>1
    <3> QED
      BY <1>1, <1>2, <3>1, SeekIs
  <2>2. CASE pos[i] # K
    <3>1. \A x \in keysOf[i] : x > K => x > k
      BY <1>1, <1>2, <1>4
    <3>2. \/ pos[i] = 0 /\ \A x \in keysOf[i] : x <= K
          \/ pos[i] \in keysOf[i] /\ pos[i] > K /\ \A x \in keysOf[i] : x > K => pos[i] <= x
      BY <1>1, <1>2, <1>3, <1>4, <2>2, <3>1
    <3> QED
      BY <1>1, <1>2, <3>2, NextIs
  <2> QED
    BY <2>1, <2>2
<1> QED
  BY <1>4, <1>5 DEF Ahead, c, K

\* Children behind some key are behind the largest of their own.
LEMMA BehindLargest ==
  ASSUME MergingTypes, IsFiniteSet(ChildKeys), IsFiniteSet(Children),
         NEW pos \in [Children -> Nat], NEW k \in Nat, Behind(pos, k), FindLargest(pos) # 0
  PROVE  /\ pos[FindLargest(pos)] \in keysOf[FindLargest(pos)]
         /\ Behind(pos, pos[FindLargest(pos)])
<1> DEFINE c == FindLargest(pos)
           K == pos[c]
<1>1. /\ c \in Children /\ K # 0 /\ K \in Nat
      /\ \A i \in Children : pos[i] <= K
  BY FindLargestIs
<1>2. \A i \in Children : keysOf[i] \subseteq Nat \ {0} /\ pos[i] \in Nat
  BY ChildAssumption DEF MergingTypes
<1> HIDE DEF c, K
<1>3. ASSUME NEW i \in Children
      PROVE  \/ pos[i] = 0 /\ \A x \in keysOf[i] : x >= k
             \/ pos[i] \in keysOf[i] /\ pos[i] <= k /\ \A x \in keysOf[i] : x < k => x <= pos[i]
  BY BehindIs
<1>4. K \in keysOf[c] /\ K <= k
  BY <1>1, <1>3 DEF K
<1>5. ASSUME NEW i \in Children
      PROVE  pos[i] \in {SeekChildForPrev(i, K), PrevOfChild(i, K)}
  <2>1. CASE pos[i] = K
    <3>1. pos[i] \in keysOf[i] /\ pos[i] <= K /\ \A x \in keysOf[i] : x <= K => x <= pos[i]
      BY <1>1, <1>2, <1>3, <2>1
    <3> QED
      BY <1>1, <1>2, <3>1, SeekForPrevIs
  <2>2. CASE pos[i] # K
    <3>1. \A x \in keysOf[i] : x < K => x < k
      BY <1>1, <1>2, <1>4
    <3>2. \/ pos[i] = 0 /\ \A x \in keysOf[i] : x >= K
          \/ pos[i] \in keysOf[i] /\ pos[i] < K /\ \A x \in keysOf[i] : x < K => x <= pos[i]
      BY <1>1, <1>2, <1>3, <1>4, <2>2, <3>1
    <3> QED
      BY <1>1, <1>2, <3>2, PrevIs
  <2> QED
    BY <2>1, <2>2
<1> QED
  BY <1>4, <1>5 DEF Behind, c, K

\* A step forwards from children ahead of some key keeps the invariant.
LEMMA ForwardsInv ==
  ASSUME MergingTypes, NEW pos \in [Children -> Nat], NEW k \in Nat, Ahead(pos, k), Forwards(pos)
  PROVE  MergingInv'
<1>1. at' = pos /\ cursor' = FindSmallest(pos) /\ direction' = "forward" /\ keysOf' = keysOf
  BY DEF Forwards
<1>2. MergingTypes'
  BY <1>1, FindSmallestIs DEF MergingTypes
<1>3. ASSUME cursor' # 0
      PROVE  at'[cursor'] \in keysOf'[cursor'] /\ Ahead(at, at[cursor])'
  <2>1. pos[FindSmallest(pos)] \in keysOf[FindSmallest(pos)] /\ Ahead(pos, pos[FindSmallest(pos)])
    BY <1>1, <1>3, AheadOfSmallest
  <2>2. Ahead(at, at[cursor])' <=> Ahead(pos, pos[FindSmallest(pos)])
    BY <1>1 DEF Ahead, SeekChild, NextOfChild
  <2> QED
    BY <1>1, <2>1, <2>2
<1> QED
  BY <1>1, <1>2, <1>3 DEF MergingInv, Valid

\* And a step backwards from children behind one.
LEMMA BackwardsInv ==
  ASSUME MergingTypes, IsFiniteSet(ChildKeys), IsFiniteSet(Children),
         NEW pos \in [Children -> Nat], NEW k \in Nat, Behind(pos, k), Backwards(pos)
  PROVE  MergingInv'
<1>1. at' = pos /\ cursor' = FindLargest(pos) /\ direction' = "reverse" /\ keysOf' = keysOf
  BY DEF Backwards
<1>2. MergingTypes'
  BY <1>1, FindLargestIs DEF MergingTypes
<1>3. ASSUME cursor' # 0
      PROVE  at'[cursor'] \in keysOf'[cursor'] /\ Behind(at, at[cursor])'
  <2>1. pos[FindLargest(pos)] \in keysOf[FindLargest(pos)] /\ Behind(pos, pos[FindLargest(pos)])
    BY <1>1, <1>3, BehindLargest
  <2>2. Behind(at, at[cursor])' <=> Behind(pos, pos[FindLargest(pos)])
    BY <1>1 DEF Behind, SeekChildForPrev, PrevOfChild
  <2> QED
    BY <1>1, <2>1, <2>2
<1> QED
  BY <1>1, <1>2, <1>3 DEF MergingInv, Valid

-----------------------------------------------------------------------------
(***************************************************************************)
(* The steps.                                                              *)
(***************************************************************************)
NextPos == [i \in Children |-> IF i = cursor THEN NextOfChild(i, at[i]) ELSE AfterKey(i)]
PrevPos == [i \in Children |-> IF i = cursor THEN PrevOfChild(i, at[i]) ELSE BeforeKey(i)]

\* A child's operations return a key or 0.
LEMMA ChildTypes ==
  ASSUME MergingTypes, IsFiniteSet(ChildKeys), NEW i \in Children, NEW k
  PROVE  /\ SeekChild(i, k) \in Nat /\ NextOfChild(i, k) \in Nat /\ LeastOf(keysOf[i]) \in Nat
         /\ SeekChildForPrev(i, k) \in Nat /\ PrevOfChild(i, k) \in Nat /\ GreatestOf(keysOf[i]) \in Nat
<1>1. keysOf[i] \subseteq Nat \ {0} /\ keysOf[i] \subseteq ChildKeys
  BY ChildAssumption DEF MergingTypes
<1>2. \A S : S \subseteq keysOf[i] => LeastOf(S) \in Nat
  BY <1>1, LeastOfIs
<1>3. \A S : S \subseteq keysOf[i] => GreatestOf(S) \in Nat
  <2>1. ASSUME NEW S, S \subseteq keysOf[i] PROVE GreatestOf(S) \in Nat
    <3>1. IsFiniteSet(S) /\ S \in SUBSET Nat
      BY <1>1, <2>1, FS_Subset
    <3> QED
      BY <3>1, GreatestOfIs
  <2> QED
    BY <2>1
<1>4. /\ {x \in keysOf[i] : x >= k} \subseteq keysOf[i] /\ {x \in keysOf[i] : x > k} \subseteq keysOf[i]
      /\ {x \in keysOf[i] : x <= k} \subseteq keysOf[i] /\ {x \in keysOf[i] : x < k} \subseteq keysOf[i]
  OBVIOUS
<1> QED
  BY <1>2, <1>3, <1>4 DEF SeekChild, NextOfChild, SeekChildForPrev, PrevOfChild

\* Next puts a child on its first key behind current_'s, or leaves it on an equal one.
LEMMA NextPosIs ==
  ASSUME MergingInv, IsFiniteSet(ChildKeys), Valid
  PROVE  /\ at[cursor] \in Nat \ {0} /\ cursor \in Children
         /\ NextPos \in [Children -> Nat] /\ Ahead(NextPos, at[cursor])
         /\ NextPos[cursor] = NextOfChild(cursor, at[cursor])
<1> DEFINE K == at[cursor]
<1>1. /\ MergingTypes /\ K \in keysOf[cursor] /\ cursor \in Children
      /\ direction = "forward" => Ahead(at, K)
  BY DEF MergingInv, MergingTypes, Valid
<1>2. K \in Nat \ {0} /\ MergedKey = K
  BY <1>1, ChildAssumption DEF MergingTypes, MergedKey, Valid
<1>3. \A i \in Children : at[i] \in Nat
  BY <1>1 DEF MergingTypes
<1> HIDE DEF K
<1>4. ASSUME NEW i \in Children
      PROVE  AfterKey(i) \in {SeekChild(i, K), NextOfChild(i, K)}
  BY <1>1, <1>2 DEF Ahead, AfterKey
<1>5. ASSUME NEW i \in Children
      PROVE  /\ NextPos[i] \in {SeekChild(i, K), NextOfChild(i, K)}
             /\ i = cursor => NextPos[i] = NextOfChild(i, K)
  BY <1>4 DEF NextPos, K
<1>6. \A i \in Children : SeekChild(i, K) \in Nat /\ NextOfChild(i, K) \in Nat
  BY <1>1, ChildTypes
<1>7. NextPos \in [Children -> Nat]
  BY <1>5, <1>6 DEF NextPos
<1> QED
  BY <1>1, <1>2, <1>5, <1>7 DEF Ahead, K

\* Prev puts a child on its last key before current_'s, or leaves it on an equal one.
LEMMA PrevPosIs ==
  ASSUME MergingInv, IsFiniteSet(ChildKeys), Valid
  PROVE  /\ at[cursor] \in Nat \ {0} /\ cursor \in Children
         /\ PrevPos \in [Children -> Nat] /\ Behind(PrevPos, at[cursor])
         /\ PrevPos[cursor] = PrevOfChild(cursor, at[cursor])
<1> DEFINE K == at[cursor]
<1>1. /\ MergingTypes /\ K \in keysOf[cursor] /\ cursor \in Children
      /\ direction = "reverse" => Behind(at, K)
  BY DEF MergingInv, MergingTypes, Valid
<1>2. K \in Nat \ {0} /\ MergedKey = K
  BY <1>1, ChildAssumption DEF MergingTypes, MergedKey, Valid
<1> HIDE DEF K
<1>3. ASSUME NEW i \in Children, direction # "reverse"
      PROVE  BeforeKey(i) = PrevOfChild(i, K)
  <2> DEFINE k == SeekChild(i, K)
             b == BeforeKey(i)
  <2>1. keysOf[i] \subseteq Nat \ {0} /\ keysOf[i] \subseteq ChildKeys /\ k \in Nat /\ b \in Nat
    BY <1>1, ChildTypes, ChildAssumption DEF MergingTypes, BeforeKey
  <2>2. b = IF k # 0 THEN PrevOfChild(i, k) ELSE GreatestOf(keysOf[i])
    BY <1>2, <1>3 DEF BeforeKey
  <2>3. \/ k = 0 /\ \A x \in keysOf[i] : x < K
        \/ k \in keysOf[i] /\ k >= K /\ \A x \in keysOf[i] : x >= K => k <= x
    <3> HIDE DEF k
    <3>1. k = SeekChild(i, K)
      BY DEF k
    <3> QED
      BY <1>1, <1>2, <2>1, <3>1, SeekIs
  <2> HIDE DEF k, b
  <2>4. CASE k = 0
    <3>1. b = GreatestOf(keysOf[i]) /\ IsFiniteSet(keysOf[i])
      BY <2>1, <2>2, <2>4, FS_Subset
    <3>2. /\ keysOf[i] = {} => b = 0
          /\ keysOf[i] # {} => b \in keysOf[i]
          /\ \A y \in keysOf[i] : y <= b
      BY <2>1, <3>1, GreatestOfIs
    <3>3. \/ b = 0 /\ \A x \in keysOf[i] : x >= K
          \/ b \in keysOf[i] /\ b < K /\ \A x \in keysOf[i] : x < K => x <= b
      BY <2>1, <2>3, <2>4, <3>2
    <3> QED
      BY <1>1, <1>2, <2>1, <3>3, PrevIs DEF b
  <2>5. CASE k # 0
    <3>1. b = PrevOfChild(i, k)
      BY <2>2, <2>5
    <3>2. \/ b = 0 /\ \A x \in keysOf[i] : x >= k
          \/ b \in keysOf[i] /\ b < k /\ \A x \in keysOf[i] : x < k => x <= b
      BY <1>1, <2>1, <3>1, PrevIs
    <3>3. \A x \in keysOf[i] : x < k <=> x < K
      BY <1>2, <2>1, <2>3, <2>5
    <3>4. \/ b = 0 /\ \A x \in keysOf[i] : x >= K
          \/ b \in keysOf[i] /\ b < K /\ \A x \in keysOf[i] : x < K => x <= b
      BY <1>2, <2>1, <2>3, <2>5, <3>2, <3>3
    <3> QED
      BY <1>1, <1>2, <2>1, <3>4, PrevIs DEF b
  <2> QED
    BY <2>4, <2>5
<1>4. ASSUME NEW i \in Children
      PROVE  BeforeKey(i) \in {SeekChildForPrev(i, K), PrevOfChild(i, K)}
  <2>1. CASE direction = "reverse"
    BY <1>1, <1>2, <2>1 DEF Behind, BeforeKey
  <2> QED
    BY <1>3, <2>1
<1>5. ASSUME NEW i \in Children
      PROVE  /\ PrevPos[i] \in {SeekChildForPrev(i, K), PrevOfChild(i, K)}
             /\ i = cursor => PrevPos[i] = PrevOfChild(i, K)
  BY <1>4 DEF PrevPos, K
<1>6. \A i \in Children : SeekChildForPrev(i, K) \in Nat /\ PrevOfChild(i, K) \in Nat
  BY <1>1, ChildTypes
<1>7. PrevPos \in [Children -> Nat]
  BY <1>5, <1>6 DEF PrevPos
<1> QED
  BY <1>1, <1>2, <1>5, <1>7 DEF Behind, K

\* Every step keeps the invariant.
LEMMA MergingNextInv ==
  ASSUME IsFiniteSet(ChildKeys), IsFiniteSet(Children), MergingInv, [MergingNext]_mergingVars
  PROVE  MergingInv'
<1>1. MergingTypes /\ \A i \in Children : keysOf[i] \subseteq Nat \ {0} /\ keysOf[i] \subseteq ChildKeys
  BY ChildAssumption DEF MergingInv, MergingTypes
<1>2. CASE SeekToFirst
  <2> DEFINE pos == [i \in Children |-> LeastOf(keysOf[i])]
  <2>1. \A i \in Children : LeastOf(keysOf[i]) \in Nat
    BY <1>1, ChildTypes
  <2>2. ASSUME NEW i \in Children PROVE LeastOf(keysOf[i]) = SeekChild(i, 0)
    <3>1. {x \in keysOf[i] : x >= 0} = keysOf[i]
      BY <1>1
    <3> QED
      BY <3>1 DEF SeekChild
  <2>3. pos \in [Children -> Nat] /\ Ahead(pos, 0) /\ Forwards(pos)
    BY <1>2, <2>1, <2>2 DEF SeekToFirst, Ahead
  <2> HIDE DEF pos
  <2> QED
    BY <1>1, <2>3, ForwardsInv
<1>3. CASE SeekToLast
  <2> DEFINE pos == [i \in Children |-> GreatestOf(keysOf[i])]
  <2>1. \A i \in Children : GreatestOf(keysOf[i]) \in Nat
    BY <1>1, ChildTypes
  <2>2. PICK b \in Nat : \A x \in ChildKeys : x <= b
    <3>1. ChildKeys \in SUBSET Nat
      BY ChildAssumption
    <3>2. CASE ChildKeys = {}
      BY <3>2
    <3>3. CASE ChildKeys # {}
      BY <3>1, <3>3, FiniteGreatest
    <3> QED
      BY <3>2, <3>3
  <2>3. ASSUME NEW i \in Children PROVE GreatestOf(keysOf[i]) = SeekChildForPrev(i, b)
    <3>1. {x \in keysOf[i] : x <= b} = keysOf[i]
      BY <1>1, <2>2
    <3> QED
      BY <3>1 DEF SeekChildForPrev
  <2>4. pos \in [Children -> Nat] /\ Behind(pos, b) /\ Backwards(pos)
    BY <1>3, <2>1, <2>3 DEF SeekToLast, Behind
  <2> HIDE DEF pos
  <2> QED
    BY <1>1, <2>2, <2>4, BackwardsInv
<1>4. CASE SeekTo
  <2>1. PICK k \in ChildKeys : Forwards([i \in Children |-> SeekChild(i, k)])
    BY <1>4 DEF SeekTo
  <2> DEFINE pos == [i \in Children |-> SeekChild(i, k)]
  <2>2. \A i \in Children : SeekChild(i, k) \in Nat
    BY <1>1, ChildTypes
  <2>3. pos \in [Children -> Nat] /\ Ahead(pos, k) /\ k \in Nat /\ Forwards(pos)
    BY <2>1, <2>2, ChildAssumption DEF Ahead
  <2> HIDE DEF pos
  <2> QED
    BY <1>1, <2>3, ForwardsInv
<1>5. CASE SeekForPrev
  <2>1. PICK k \in ChildKeys : Backwards([i \in Children |-> SeekChildForPrev(i, k)])
    BY <1>5 DEF SeekForPrev
  <2> DEFINE pos == [i \in Children |-> SeekChildForPrev(i, k)]
  <2>2. \A i \in Children : SeekChildForPrev(i, k) \in Nat
    BY <1>1, ChildTypes
  <2>3. pos \in [Children -> Nat] /\ Behind(pos, k) /\ k \in Nat /\ Backwards(pos)
    BY <2>1, <2>2, ChildAssumption DEF Behind
  <2> HIDE DEF pos
  <2> QED
    BY <1>1, <2>3, BackwardsInv
<1>6. CASE MergedNext
  <2>1. Valid /\ Forwards(NextPos)
    BY <1>6 DEF MergedNext, NextPos
  <2> QED
    BY <1>1, <2>1, NextPosIs, ForwardsInv
<1>7. CASE MergedPrev
  <2>1. Valid /\ Backwards(PrevPos)
    BY <1>7 DEF MergedPrev, PrevPos
  <2> QED
    BY <1>1, <2>1, PrevPosIs, BackwardsInv
<1>8. CASE UNCHANGED mergingVars
  BY <1>8 DEF mergingVars, MergingInv, MergingTypes, Valid, Ahead, Behind, SeekChild, NextOfChild,
     SeekChildForPrev, PrevOfChild
<1> QED
  BY <1>2, <1>3, <1>4, <1>5, <1>6, <1>7, <1>8 DEF MergingNext

\* Every child is at the key of current_ or next to it, whatever calls led there.
THEOREM MergingInvariant ==
  ASSUME IsFiniteSet(ChildKeys), IsFiniteSet(Children)
  PROVE  MergingSpec => []MergingInv
<1>1. MergingInit => MergingInv
  BY DEF MergingInit, MergingInv, MergingTypes, Valid
<1>2. MergingInv /\ [MergingNext]_mergingVars => MergingInv'
  BY MergingNextInv
<1> QED
  BY <1>1, <1>2, PTL DEF MergingSpec

-----------------------------------------------------------------------------
(***************************************************************************)
(* No key is jumped over.                                                  *)
(***************************************************************************)
\* Next goes to the nearest key behind, or to the same key of another child.
LEMMA NextNearest ==
  ASSUME MergingInv, IsFiniteSet(ChildKeys), MergedNext
  PROVE  MergedKey' \in {LeastOf({k \in AllKeys : k > MergedKey})} \cup MayRepeat(MergedKey)
<1> DEFINE K == at[cursor]
           pos == NextPos
           S == {k \in AllKeys : k > K}
<1>1. /\ MergingTypes /\ Valid /\ MergedKey = K /\ K \in keysOf[cursor] /\ cursor \in Children
      /\ cursor' = FindSmallest(pos) /\ at' = pos
  BY DEF MergingInv, MergedNext, Valid, MergedKey, Forwards, NextPos, MergingTypes
<1>2. /\ K \in Nat \ {0} /\ pos \in [Children -> Nat] /\ Ahead(pos, K)
      /\ pos[cursor] = NextOfChild(cursor, K)
  BY <1>1, NextPosIs
<1>3. MergedKey' = IF FindSmallest(pos) # 0 THEN pos[FindSmallest(pos)] ELSE 0
  BY <1>1 DEF MergedKey, Valid
<1>4. \A i \in Children : keysOf[i] \subseteq Nat \ {0} /\ pos[i] \in Nat
  BY <1>1, <1>2, ChildAssumption DEF MergingTypes
<1>5. S \in SUBSET (Nat \ {0}) /\ \A x : x \in S <=> x > K /\ \E i \in Children : x \in keysOf[i]
  BY <1>4 DEF AllKeys
<1> HIDE DEF K, pos, S
<1>6. \A i \in Children :
        \/ pos[i] = 0 /\ \A x \in keysOf[i] : x <= K
        \/ pos[i] \in keysOf[i] /\ pos[i] >= K /\ \A x \in keysOf[i] : x > K => pos[i] <= x
  BY <1>1, <1>2, AheadIs
<1>7. /\ FindSmallest(pos) = 0 => \A i \in Children : pos[i] = 0
      /\ FindSmallest(pos) # 0 =>
           /\ FindSmallest(pos) \in Children /\ pos[FindSmallest(pos)] # 0
           /\ \A i \in Children : pos[i] # 0 => pos[FindSmallest(pos)] <= pos[i]
  BY <1>2, FindSmallestIs
<1>8. pos[cursor] # K
  <2>1. pos[cursor] = 0 \/ pos[cursor] > K
    BY <1>1, <1>2, <1>4, NextIs
  <2> QED
    BY <1>1, <1>2, <1>4, <2>1
<1>9. CASE \E i \in Children : pos[i] = K
  <2>1. PICK i \in Children : pos[i] = K
    BY <1>9
  <2>2. i # cursor /\ K \in keysOf[i] \cap keysOf[cursor]
    BY <1>1, <1>2, <1>6, <1>8, <2>1
  <2>3. MayRepeat(K) = {K}
    BY <1>1, <2>2 DEF MayRepeat
  <2>4. FindSmallest(pos) # 0 /\ pos[FindSmallest(pos)] = K
    BY <1>2, <1>4, <1>6, <1>7, <2>1
  <2> QED
    BY <1>1, <1>3, <2>3, <2>4
<1>10. CASE \A i \in Children : pos[i] # K
  <2>1. /\ LeastOf(S) \in Nat
        /\ LeastOf(S) = 0 <=> S = {}
        /\ S # {} => LeastOf(S) \in S
        /\ \A y \in S : LeastOf(S) <= y
    BY <1>5, LeastOfIs
  <2>2. CASE FindSmallest(pos) = 0
    <3>1. S = {}
      BY <1>2, <1>4, <1>5, <1>6, <1>7, <2>2
    <3> QED
      BY <1>1, <1>3, <2>1, <2>2, <3>1 DEF S
  <2>3. CASE FindSmallest(pos) # 0
    <3> DEFINE m == pos[FindSmallest(pos)]
    <3>1. m \in S /\ m \in Nat
      BY <1>2, <1>4, <1>5, <1>6, <1>7, <1>10, <2>3
    <3>2. \A y \in S : m <= y
      <4>1. ASSUME NEW y \in S PROVE m <= y
        <5>1. PICK i \in Children : y \in keysOf[i]
          BY <1>5
        <5>2. y \in Nat /\ y > K
          BY <1>4, <1>5, <5>1
        <5>3. pos[i] # 0 /\ pos[i] <= y /\ pos[i] \in Nat
          BY <1>2, <1>4, <1>6, <5>1, <5>2
        <5>4. m <= pos[i] /\ m \in Nat
          BY <1>7, <2>3, <3>1, <5>3
        <5> QED
          BY <5>2, <5>3, <5>4
      <4> QED
        BY <4>1
    <3> HIDE DEF m
    <3>3. m = LeastOf(S)
      BY <1>5, <2>1, <3>1, <3>2
    <3> QED
      BY <1>1, <1>3, <2>3, <3>3 DEF m, S
  <2> QED
    BY <2>2, <2>3
<1> QED
  BY <1>9, <1>10

\* Prev goes to the nearest key before, or to the same key of another child.
LEMMA PrevNearest ==
  ASSUME MergingInv, IsFiniteSet(ChildKeys), IsFiniteSet(Children), MergedPrev
  PROVE  MergedKey' \in {GreatestOf({k \in AllKeys : k < MergedKey})} \cup MayRepeat(MergedKey)
<1> DEFINE K == at[cursor]
           pos == PrevPos
           S == {k \in AllKeys : k < K}
<1>1. /\ MergingTypes /\ Valid /\ MergedKey = K /\ K \in keysOf[cursor] /\ cursor \in Children
      /\ cursor' = FindLargest(pos) /\ at' = pos
  BY DEF MergingInv, MergedPrev, Valid, MergedKey, Backwards, PrevPos, MergingTypes
<1>2. /\ K \in Nat \ {0} /\ pos \in [Children -> Nat] /\ Behind(pos, K)
      /\ pos[cursor] = PrevOfChild(cursor, K)
  BY <1>1, PrevPosIs
<1>3. MergedKey' = IF FindLargest(pos) # 0 THEN pos[FindLargest(pos)] ELSE 0
  BY <1>1 DEF MergedKey, Valid
<1>4. \A i \in Children : keysOf[i] \subseteq Nat \ {0} /\ pos[i] \in Nat /\ keysOf[i] \subseteq ChildKeys
  BY <1>1, <1>2, ChildAssumption DEF MergingTypes
<1>5. /\ S \in SUBSET Nat /\ S \subseteq ChildKeys
      /\ \A x : x \in S <=> x < K /\ \E i \in Children : x \in keysOf[i]
  BY <1>4 DEF AllKeys
<1> HIDE DEF K, pos, S
<1>6. \A i \in Children :
        \/ pos[i] = 0 /\ \A x \in keysOf[i] : x >= K
        \/ pos[i] \in keysOf[i] /\ pos[i] <= K /\ \A x \in keysOf[i] : x < K => x <= pos[i]
  BY <1>1, <1>2, BehindIs
<1>7. /\ FindLargest(pos) = 0 => \A i \in Children : pos[i] = 0
      /\ FindLargest(pos) # 0 =>
           /\ FindLargest(pos) \in Children /\ pos[FindLargest(pos)] # 0
           /\ \A i \in Children : pos[i] <= pos[FindLargest(pos)]
  BY <1>2, FindLargestIs
<1>8. pos[cursor] # K
  <2>1. pos[cursor] = 0 \/ pos[cursor] < K
    BY <1>1, <1>2, <1>4, PrevIs
  <2> QED
    BY <1>1, <1>2, <1>4, <2>1
<1>9. CASE \E i \in Children : pos[i] = K
  <2>1. PICK i \in Children : pos[i] = K
    BY <1>9
  <2>2. i # cursor /\ K \in keysOf[i] \cap keysOf[cursor]
    BY <1>1, <1>2, <1>6, <1>8, <2>1
  <2>3. MayRepeat(K) = {K}
    BY <1>1, <2>2 DEF MayRepeat
  <2>4. FindLargest(pos) # 0 /\ pos[FindLargest(pos)] = K
    BY <1>2, <1>4, <1>6, <1>7, <2>1
  <2> QED
    BY <1>1, <1>3, <2>3, <2>4
<1>10. CASE \A i \in Children : pos[i] # K
  <2>1. /\ GreatestOf(S) \in Nat
        /\ S = {} => GreatestOf(S) = 0
        /\ S # {} => GreatestOf(S) \in S
        /\ \A y \in S : y <= GreatestOf(S)
    <3>1. IsFiniteSet(S)
      BY <1>5, FS_Subset
    <3> QED
      BY <1>5, <3>1, GreatestOfIs
  <2>2. CASE FindLargest(pos) = 0
    <3>1. S = {}
      BY <1>2, <1>4, <1>5, <1>6, <1>7, <2>2
    <3> QED
      BY <1>1, <1>3, <2>1, <2>2, <3>1 DEF S
  <2>3. CASE FindLargest(pos) # 0
    <3> DEFINE m == pos[FindLargest(pos)]
    <3>1. m \in S /\ m \in Nat
      BY <1>2, <1>4, <1>5, <1>6, <1>7, <1>10, <2>3
    <3>2. \A y \in S : y <= m
      <4>1. ASSUME NEW y \in S PROVE y <= m
        <5>1. PICK i \in Children : y \in keysOf[i]
          BY <1>5
        <5>2. y \in Nat /\ y # 0 /\ y < K
          BY <1>4, <1>5, <5>1
        <5>3. y <= pos[i] /\ pos[i] \in Nat
          BY <1>2, <1>4, <1>6, <5>1, <5>2
        <5>4. pos[i] <= m /\ m \in Nat
          BY <1>7, <2>3, <3>1, <5>3
        <5> QED
          BY <5>2, <5>3, <5>4
      <4> QED
        BY <4>1
    <3> HIDE DEF m
    <3>3. m = GreatestOf(S)
      BY <1>5, <2>1, <3>1, <3>2
    <3> QED
      BY <1>1, <1>3, <2>3, <3>3 DEF m, S
  <2> QED
    BY <2>2, <2>3
<1> QED
  BY <1>9, <1>10

\* A step in either direction jumps over no key of any child, for any children with any
\* finite sets of keys, however the iterator was moved before and wherever it turns.
THEOREM MergingSkipsNothing ==
  ASSUME IsFiniteSet(ChildKeys), IsFiniteSet(Children)
  PROVE  MergingSpec => NoKeySkipped
<1> DEFINE Step ==
      /\ MergedNext => MergedKey' \in {LeastOf({k \in AllKeys : k > MergedKey})} \cup MayRepeat(MergedKey)
      /\ MergedPrev => MergedKey' \in {GreatestOf({k \in AllKeys : k < MergedKey})} \cup MayRepeat(MergedKey)
<1>1. MergingInv => Step
  BY NextNearest, PrevNearest
<1>2. NoKeySkipped <=> [][Step]_mergingVars
  BY DEF NoKeySkipped
<1> HIDE DEF Step
<1> QED
  BY <1>1, <1>2, MergingInvariant, PTL
=============================================================================
