----------------------- MODULE SequenceAllocatorProofs -----------------------
(***************************************************************************)
(* Proofs about SequenceAllocator for any number of clients, business keys *)
(* and lists of any length, when callers follow the contract.              *)
(***************************************************************************)
EXTENDS SequenceAllocator, OrderLemmas

-----------------------------------------------------------------------------
(***************************************************************************)
(* The inductive invariant.                                                *)
(***************************************************************************)
BatchType == [max : Nat, put : [User -> Nat], told : SUBSET (User \X Nat), records : SUBSET Record]

AllocatorTypes ==
  /\ current \in Nat
  /\ mapping \in [User -> Nat]
  /\ call = [c \in Client |-> call[c]]
  /\ buffer \in [Client -> BatchType]
  /\ given \in SUBSET (User \X Nat)

Busy(c) == call[c] # Idle \/ buffer[c].max # 0

\* One allocation is under way: in a call, or in a buffer, not in both.
OneAtWork ==
  /\ \A c, d \in Client : Busy(c) /\ Busy(d) => c = d
  /\ \A c \in Client : call[c] # Idle => buffer[c].max = 0

\* What a call has read is what the database has.
ReadIsCurrent ==
  \A c \in Client : call[c] # Idle =>
    /\ call[c].users \in Seq(User)
    /\ call[c].max = current
    /\ \A i \in DOMAIN call[c].users : call[c].seqs[i] = mapping[call[c].users[i]]
    /\ "distinct" \in Contract => Distinct(call[c].users)

BelowCounter == \A u \in User : mapping[u] <= current

\* A batch, flushed now, gives new sequences to keys that have none.
NewInBatch(b) ==
  /\ b.max # 0 => current <= b.max
  /\ \A u \in User : b.put[u] # 0 => mapping[u] = 0 /\ current < b.put[u] /\ b.put[u] <= b.max
  /\ \A u, v \in User : u # v /\ b.put[u] # 0 => b.put[u] # b.put[v]

\* And makes true what callers were told with it.
ToldInBatch(b) ==
  /\ b.max = 0 => b.told = {}
  /\ "distinct" \in Contract =>
       \A p \in b.told : p[2] # 0 /\ p[2] = IF b.put[p[1]] # 0 THEN b.put[p[1]] ELSE mapping[p[1]]

GivenHolds == "distinct" \in Contract => \A p \in given : p[2] # 0 /\ mapping[p[1]] = p[2]

AllocatorInv ==
  /\ AllocatorTypes
  /\ OneAtWork
  /\ ReadIsCurrent
  /\ BelowCounter
  /\ Unique
  /\ \A c \in Client : NewInBatch(buffer[c]) /\ ToldInBatch(buffer[c])
  /\ GivenHolds

-----------------------------------------------------------------------------
(***************************************************************************)
(* What a call allocates.                                                  *)
(***************************************************************************)

\* Counting the missing users up to a position gives every one of them another number.
LEMMA MissingCount ==
  ASSUME NEW k, NEW i \in Nat, NEW j \in Nat, i <= j
  PROVE  /\ Cardinality(Missing(k, i)) \in Nat
         /\ Cardinality(Missing(k, j)) \in Nat
         /\ Cardinality(Missing(k, i)) <= Cardinality(Missing(k, j))
         /\ i < j /\ k.seqs[j] = 0 => Cardinality(Missing(k, i)) < Cardinality(Missing(k, j))
         /\ i > 0 /\ k.seqs[i] = 0 => Cardinality(Missing(k, i)) > 0
<1>1. IsFiniteSet(1..j) /\ IsFiniteSet(1..i)
  BY FS_Interval
<1>2. Missing(k, j) \in SUBSET (1..j) /\ Missing(k, i) \in SUBSET (1..i)
  BY DEF Missing
<1>3. IsFiniteSet(Missing(k, j)) /\ IsFiniteSet(Missing(k, i))
  BY <1>1, <1>2, FS_Subset
<1>4. Missing(k, i) \subseteq Missing(k, j)
  BY DEF Missing
<1>5. Cardinality(Missing(k, i)) <= Cardinality(Missing(k, j))
  BY <1>3, <1>4, FS_Subset
<1>6. ASSUME i < j, k.seqs[j] = 0
      PROVE  Cardinality(Missing(k, i)) < Cardinality(Missing(k, j))
  <2>1. j \in Missing(k, j) /\ j \notin Missing(k, i)
    BY <1>6 DEF Missing
  <2> QED
    BY <1>3, <1>4, <2>1, CardinalityGrows
<1>7. ASSUME i > 0, k.seqs[i] = 0
      PROVE  Cardinality(Missing(k, i)) > 0
  <2>1. i \in Missing(k, i)
    BY <1>7 DEF Missing
  <2> QED
    BY <1>3, <2>1, FS_EmptySet, FS_CardinalityType
<1>8. Cardinality(Missing(k, i)) \in Nat /\ Cardinality(Missing(k, j)) \in Nat
  BY <1>3, FS_CardinalityType
<1> QED
  BY <1>5, <1>6, <1>7, <1>8

\* The last Put of a user is the sequence allocated at one of its missing positions, the
\* only one if the list names it once.
LEMMA PutByPosition ==
  ASSUME NEW k, k.users \in Seq(User), NEW u \in User,
         NEW i \in DOMAIN k.users, k.users[i] = u, k.seqs[i] = 0
  PROVE  \E j \in DOMAIN k.users :
           /\ k.users[j] = u /\ k.seqs[j] = 0
           /\ \A before : PutBy(k, u, before) = Allocated(k)[j]
<1> DEFINE S == {x \in DOMAIN k.users : k.users[x] = u /\ k.seqs[x] = 0}
           j == CHOOSE x \in S : \A y \in S : y <= x
<1>1. DOMAIN k.users = 1..Len(k.users) /\ Len(k.users) \in Nat
  OBVIOUS
<1>2. S \in SUBSET Nat /\ S # {} /\ \A x \in S : x <= Len(k.users)
  BY <1>1
<1>3. \E x \in S : \A y \in S : y <= x
  <2> HIDE DEF S
  <2> QED
    BY <1>1, <1>2, GreatestExists
<1>4. j \in S
  BY <1>3
<1>5. \A before : PutBy(k, u, before) = Allocated(k)[j]
  BY <1>2 DEF PutBy
<1> QED
  BY <1>4, <1>5

\* A user without a missing position is left alone.
LEMMA PutByNothing ==
  ASSUME NEW k, NEW u, NEW before,
         \A i \in DOMAIN k.users : ~(k.users[i] = u /\ k.seqs[i] = 0)
  PROVE  PutBy(k, u, before) = before
BY DEF PutBy

\* What AcquireNewSequence puts into an empty batch, from a call that read what is
\* stored, is new, distinct and what it answers.
LEMMA FilledIsGood ==
  ASSUME AllocatorTypes, BelowCounter,
         NEW k, k.users \in Seq(User), k.max = current,
         \A i \in DOMAIN k.users : k.seqs[i] = mapping[k.users[i]],
         "distinct" \in Contract => Distinct(k.users),
         Missing(k, Len(k.users)) # {},
         NEW b \in BatchType, \A u \in User : b.put[u] = 0, b.told = {}
  PROVE  /\ Filled(k, b) \in BatchType
         /\ Filled(k, b).max # 0
         /\ NewInBatch(Filled(k, b))
         /\ ToldInBatch(Filled(k, b))
<1> DEFINE n == Len(k.users)
           f == Filled(k, b)
<1>0. n \in Nat /\ DOMAIN k.users = 1..n /\ current \in Nat /\ mapping \in [User -> Nat]
  BY DEF AllocatorTypes
<1>1. ASSUME NEW i \in 1..n, k.seqs[i] = 0
      PROVE  /\ Allocated(k)[i] = current + Cardinality(Missing(k, i))
             /\ Cardinality(Missing(k, i)) \in Nat
             /\ Allocated(k)[i] \in Nat /\ current < Allocated(k)[i] /\ Allocated(k)[i] <= NextMax(k)
  <2>1. Allocated(k)[i] = current + Cardinality(Missing(k, i))
    BY <1>0, <1>1 DEF Allocated
  <2>2. /\ Cardinality(Missing(k, i)) \in Nat /\ Cardinality(Missing(k, n)) \in Nat
        /\ Cardinality(Missing(k, i)) <= Cardinality(Missing(k, n))
        /\ Cardinality(Missing(k, i)) > 0
    BY <1>0, <1>1, MissingCount
  <2>3. NextMax(k) = current + Cardinality(Missing(k, n))
    BY DEF NextMax
  <2> QED
    BY <1>0, <2>1, <2>2, <2>3
<1>2. ASSUME NEW i \in 1..n, NEW j \in 1..n, k.seqs[i] = 0, k.seqs[j] = 0, i # j
      PROVE  Allocated(k)[i] # Allocated(k)[j]
  <2>0. i \in Nat /\ j \in Nat
    BY <1>0
  <2>1. CASE i < j
    <3>1. Cardinality(Missing(k, i)) < Cardinality(Missing(k, j))
      BY <1>2, <2>0, <2>1, MissingCount
    <3> QED
      BY <1>0, <1>1, <1>2, <3>1
  <2>2. CASE j < i
    <3>1. Cardinality(Missing(k, j)) < Cardinality(Missing(k, i))
      BY <1>2, <2>0, <2>2, MissingCount
    <3> QED
      BY <1>0, <1>1, <1>2, <3>1
  <2> QED
    BY <1>0, <1>2, <2>1, <2>2
<1>3. PICK m \in 1..n : k.seqs[m] = 0
  BY DEF Missing
<1>4. NextMax(k) \in Nat /\ NextMax(k) > current
  <2>1. Cardinality(Missing(k, n)) \in Nat
    BY <1>0, MissingCount
  <2>2. NextMax(k) \in Nat
    BY <1>0, <2>1 DEF NextMax
  <2> QED
    BY <1>0, <1>1, <1>3, <2>2
<1>5. /\ f.max = NextMax(k)
      /\ f.put = [u \in User |-> PutBy(k, u, 0)]
      /\ f.told = {<<k.users[i], Allocated(k)[i]>> : i \in 1..n}
      /\ f.records = b.records
      /\ f = [max |-> f.max, put |-> f.put, told |-> f.told, records |-> f.records]
  BY <1>0 DEF Filled
<1> HIDE DEF f
<1>6. ASSUME NEW u \in User
      PROVE  \/ f.put[u] = 0
             \/ \E i \in 1..n : k.users[i] = u /\ k.seqs[i] = 0 /\ f.put[u] = Allocated(k)[i]
  <2>1. CASE \E i \in 1..n : k.users[i] = u /\ k.seqs[i] = 0
    <3>1. PICK i \in DOMAIN k.users : k.users[i] = u /\ k.seqs[i] = 0
      BY <1>0, <2>1
    <3>2. PICK j \in DOMAIN k.users : /\ k.users[j] = u /\ k.seqs[j] = 0
                                     /\ \A before : PutBy(k, u, before) = Allocated(k)[j]
      BY <3>1, PutByPosition
    <3>3. PutBy(k, u, 0) = Allocated(k)[j]
      BY <3>2
    <3>4. f.put[u] = PutBy(k, u, 0)
      BY <1>5
    <3> QED
      BY <1>0, <3>2, <3>3, <3>4
  <2>2. CASE ~ \E i \in 1..n : k.users[i] = u /\ k.seqs[i] = 0
    <3>1. PutBy(k, u, 0) = 0
      BY <1>0, <2>2, PutByNothing
    <3> QED
      BY <1>5, <3>1
  <2> QED
    BY <2>1, <2>2
<1>7. f.put \in [User -> Nat]
  BY <1>1, <1>5, <1>6
<1>8. ASSUME NEW i \in 1..n
      PROVE  k.users[i] \in User /\ Allocated(k)[i] \in Nat /\ Allocated(k)[i] # 0
  <2>1. i \in DOMAIN k.users
    BY <1>0
  <2>2. k.users[i] \in User
    BY <2>1
  <2>3. CASE k.seqs[i] = 0
    <3>1. Allocated(k)[i] \in Nat /\ current < Allocated(k)[i]
      BY <1>1, <2>3
    <3>2. Allocated(k)[i] # 0
      BY <1>0, <3>1
    <3> QED
      BY <2>2, <3>1, <3>2
  <2>4. CASE k.seqs[i] # 0
    <3>1. k.users[i] \in User /\ k.seqs[i] = mapping[k.users[i]]
      BY <2>1, <2>2
    <3>2. Allocated(k)[i] = k.seqs[i]
      BY <1>0, <2>4 DEF Allocated
    <3> QED
      BY <1>0, <2>4, <3>1, <3>2
  <2> QED
    BY <2>3, <2>4
<1>9. f.told \in SUBSET (User \X Nat)
  BY <1>5, <1>8
<1>10. f \in BatchType
  BY <1>4, <1>5, <1>7, <1>9 DEF BatchType
<1>11. NewInBatch(f)
  <2>1. f.max # 0 => current <= f.max
    BY <1>0, <1>4, <1>5
  <2>2. ASSUME NEW u \in User, f.put[u] # 0
        PROVE  mapping[u] = 0 /\ current < f.put[u] /\ f.put[u] <= f.max
    <3>1. PICK i \in 1..n : k.users[i] = u /\ k.seqs[i] = 0 /\ f.put[u] = Allocated(k)[i]
      BY <1>6, <2>2
    <3>2. mapping[u] = 0
      BY <1>0, <3>1
    <3> QED
      BY <1>1, <1>5, <3>1, <3>2
  <2>3. ASSUME NEW u \in User, NEW v \in User, u # v, f.put[u] # 0
        PROVE  f.put[u] # f.put[v]
    BY <1>2, <1>6, <2>3
  <2> QED
    BY <2>1, <2>2, <2>3 DEF NewInBatch
<1>12. ToldInBatch(f)
  <2>1. f.max # 0
    BY <1>0, <1>4, <1>5
  <2>2. ASSUME "distinct" \in Contract, NEW i \in 1..n
        PROVE  Allocated(k)[i] = IF f.put[k.users[i]] # 0 THEN f.put[k.users[i]] ELSE mapping[k.users[i]]
    <3>1. CASE k.seqs[i] = 0
      <4>1. PICK j \in 1..n : k.users[j] = k.users[i] /\ f.put[k.users[i]] = Allocated(k)[j]
        <5>1. PICK j \in DOMAIN k.users : /\ k.users[j] = k.users[i]
                                         /\ \A before : PutBy(k, k.users[i], before) = Allocated(k)[j]
          <6>1. i \in DOMAIN k.users
            BY <1>0
          <6>2. k.users[i] \in User
            BY <1>8
          <6>3. \E j \in DOMAIN k.users :
                  /\ k.users[j] = k.users[i] /\ k.seqs[j] = 0
                  /\ \A before : PutBy(k, k.users[i], before) = Allocated(k)[j]
            BY <3>1, <6>1, <6>2, PutByPosition
          <6> QED
            BY <6>3
        <5>2. PutBy(k, k.users[i], 0) = Allocated(k)[j]
          BY <5>1
        <5>3. f.put[k.users[i]] = PutBy(k, k.users[i], 0)
          BY <1>5, <1>8
        <5> QED
          BY <1>0, <5>1, <5>2, <5>3
      <4>2. j = i
        BY <1>0, <2>2, <4>1 DEF Distinct
      <4> QED
        BY <1>8, <4>1, <4>2
    <3>2. CASE k.seqs[i] # 0
      <4>1. \A j \in DOMAIN k.users : ~(k.users[j] = k.users[i] /\ k.seqs[j] = 0)
        BY <1>0, <3>2
      <4>2. f.put[k.users[i]] = 0
        BY <1>5, <1>8, <4>1, PutByNothing
      <4>3. Allocated(k)[i] = mapping[k.users[i]]
        BY <1>0, <3>2 DEF Allocated
      <4> QED
        BY <4>2, <4>3
    <3> QED
      BY <3>1, <3>2
  <2>3. ASSUME "distinct" \in Contract, NEW p \in f.told
        PROVE  p[2] # 0 /\ p[2] = IF f.put[p[1]] # 0 THEN f.put[p[1]] ELSE mapping[p[1]]
    <3>1. PICK i \in 1..n : p = <<k.users[i], Allocated(k)[i]>>
      BY <1>5
    <3> QED
      BY <1>8, <2>2, <2>3, <3>1
  <2> QED
    BY <2>1, <2>3 DEF ToldInBatch
<1> QED
  BY <1>0, <1>4, <1>5, <1>10, <1>11, <1>12 DEF f

\* Flushing a batch of new sequences keeps the mapping reversible and keeps every
\* promise.
LEMMA FlushIsGood ==
  ASSUME AllocatorTypes, BelowCounter, Unique, GivenHolds,
         NEW b \in BatchType, NewInBatch(b), ToldInBatch(b), FlushBuffer(b)
  PROVE  /\ current' \in Nat /\ mapping' \in [User -> Nat] /\ given' \in SUBSET (User \X Nat)
         /\ BelowCounter' /\ Unique' /\ GivenHolds'
<1>0. /\ current \in Nat /\ mapping \in [User -> Nat] /\ given \in SUBSET (User \X Nat)
      /\ b.max \in Nat /\ b.put \in [User -> Nat] /\ b.told \in SUBSET (User \X Nat)
  BY DEF AllocatorTypes, BatchType
<1>1. /\ current' = IF b.max = 0 THEN current ELSE b.max
      /\ mapping' = [u \in User |-> IF b.put[u] = 0 THEN mapping[u] ELSE b.put[u]]
      /\ given' = given \cup b.told
  BY DEF FlushBuffer
<1>2. current' \in Nat /\ mapping' \in [User -> Nat] /\ given' \in SUBSET (User \X Nat)
  BY <1>0, <1>1
<1>3. /\ current <= current' /\ b.max <= current'
      /\ \A u \in User : mapping[u] <= current
      /\ \A u \in User : b.put[u] # 0 => mapping[u] = 0 /\ current < b.put[u] /\ b.put[u] <= b.max
      /\ \A u, v \in User : u # v /\ b.put[u] # 0 => b.put[u] # b.put[v]
  BY <1>0, <1>1 DEF NewInBatch, BelowCounter
<1>4. BelowCounter'
  BY <1>0, <1>1, <1>2, <1>3 DEF BelowCounter
<1>5. Unique'
  BY <1>0, <1>1, <1>3 DEF Unique
<1>6. GivenHolds'
  <2> SUFFICES ASSUME "distinct" \in Contract, NEW p \in given \cup b.told
               PROVE  p[2] # 0 /\ mapping'[p[1]] = p[2]
    BY <1>1 DEF GivenHolds
  <2>0. p[1] \in User
    BY <1>0
  <2>1. CASE p \in given
    <3>1. p[2] # 0 /\ mapping[p[1]] = p[2]
      BY <2>1 DEF GivenHolds
    <3> QED
      BY <1>0, <1>1, <1>3, <2>0, <3>1
  <2>2. CASE p \in b.told
    <3>1. p[2] # 0 /\ p[2] = IF b.put[p[1]] # 0 THEN b.put[p[1]] ELSE mapping[p[1]]
      BY <2>2 DEF ToldInBatch
    <3> QED
      BY <1>0, <1>1, <2>0, <3>1
  <2> QED
    BY <2>1, <2>2
<1> QED
  BY <1>2, <1>4, <1>5, <1>6

\* The empty batch promises nothing.
LEMMA EmptyIsGood ==
  ASSUME AllocatorTypes
  PROVE  /\ EmptyBatch \in BatchType /\ EmptyBatch.max = 0
         /\ (\A u \in User : EmptyBatch.put[u] = 0) /\ EmptyBatch.told = {}
         /\ NewInBatch(EmptyBatch) /\ ToldInBatch(EmptyBatch)
BY DEF EmptyBatch, BatchType, NewInBatch, ToldInBatch

\* A batch that holds no allocation changes no mapping.
LEMMA IdleBatch ==
  ASSUME AllocatorTypes, NEW b \in BatchType, NewInBatch(b), ToldInBatch(b), b.max = 0
  PROVE  (\A u \in User : b.put[u] = 0) /\ b.told = {}
<1>1. current \in Nat /\ b.put \in [User -> Nat]
  BY DEF AllocatorTypes, BatchType
<1>2. ASSUME NEW u \in User, b.put[u] # 0 PROVE FALSE
  <2>1. b.put[u] <= 0 /\ current < b.put[u]
    BY <1>2 DEF NewInBatch
  <2> QED
    BY <1>1, <2>1
<1> QED
  BY <1>2 DEF ToldInBatch

-----------------------------------------------------------------------------
(***************************************************************************)
(* The actions, when callers are serial.                                   *)
(***************************************************************************)

\* The counter and the mappings are read while nothing is under way.
LEMMA AcquireCurrentSequenceInv ==
  ASSUME "serial" \in Contract, AllocatorInv,
         NEW c \in Client, NEW users \in Lists, NEW buffered, AcquireCurrentSequence(c, users, buffered)
  PROVE  AllocatorInv'
<1> DEFINE k == [users |-> users, buffered |-> buffered, max |-> current,
                 seqs |-> [i \in DOMAIN users |-> mapping[users[i]]]]
<1>1. /\ call' = [call EXCEPT ![c] = k] /\ UNCHANGED <<current, mapping, buffer, given>>
      /\ \A d \in Client : call[d] = Idle /\ buffer[d].max = 0
  BY DEF AcquireCurrentSequence, Serial
<1>2. call' = [d \in Client |-> IF d = c THEN k ELSE call[d]]
  BY <1>1 DEF AllocatorInv, AllocatorTypes
<1>3. users \in Seq(User) /\ ("distinct" \in Contract => Distinct(users))
  <2>1. PICK n \in 1..MaxList : users \in [1..n -> User]
    BY DEF Lists
  <2>2. n \in Nat
    BY SequenceAssumption
  <2> QED
    BY <2>1, <2>2 DEF Lists
<1>4. AllocatorTypes'
  BY <1>1, <1>2 DEF AllocatorInv, AllocatorTypes
<1>5. OneAtWork'
  BY <1>1, <1>2 DEF OneAtWork, Busy
<1>6. ReadIsCurrent'
  <2> SUFFICES ASSUME NEW d \in Client, call'[d] # Idle
               PROVE  /\ call'[d].users \in Seq(User)
                      /\ call'[d].max = current
                      /\ \A i \in DOMAIN call'[d].users : call'[d].seqs[i] = mapping[call'[d].users[i]]
                      /\ "distinct" \in Contract => Distinct(call'[d].users)
    BY <1>1 DEF ReadIsCurrent
  <2>1. call'[d] = k
    BY <1>1, <1>2
  <2> QED
    BY <1>3, <2>1
<1>7. BelowCounter' /\ Unique' /\ GivenHolds'
  BY <1>1 DEF AllocatorInv, BelowCounter, Unique, GivenHolds
<1>8. (\A d \in Client : NewInBatch(buffer[d]) /\ ToldInBatch(buffer[d]))'
  BY <1>1 DEF AllocatorInv, NewInBatch, ToldInBatch
<1> QED
  BY <1>4, <1>5, <1>6, <1>7, <1>8 DEF AllocatorInv

\* A step that ends calls or empties buffers and leaves the database alone.
LEMMA EndsInv ==
  ASSUME AllocatorInv, UNCHANGED <<current, mapping, given>>,
         call' = [d \in Client |-> call'[d]],
         \A d \in Client : call'[d] = call[d] \/ call'[d] = Idle,
         buffer' \in [Client -> BatchType],
         \A d \in Client : buffer'[d].max \in {0, buffer[d].max},
         \A d \in Client : NewInBatch(buffer'[d]) /\ ToldInBatch(buffer'[d])
  PROVE  AllocatorInv'
<1>1. AllocatorTypes'
  BY DEF AllocatorInv, AllocatorTypes
<1>2. OneAtWork'
  BY DEF AllocatorInv, OneAtWork, Busy
<1>3. ReadIsCurrent'
  BY DEF AllocatorInv, ReadIsCurrent
<1>4. BelowCounter' /\ Unique' /\ GivenHolds'
  BY DEF AllocatorInv, BelowCounter, Unique, GivenHolds
<1>5. (\A d \in Client : NewInBatch(buffer[d]) /\ ToldInBatch(buffer[d]))'
  BY DEF NewInBatch, ToldInBatch
<1> QED
  BY <1>1, <1>2, <1>3, <1>4, <1>5 DEF AllocatorInv

\* A step that flushes the only allocation under way and leaves nothing under way.
LEMMA FlushInv ==
  ASSUME AllocatorInv, NEW b \in BatchType, NewInBatch(b), ToldInBatch(b), FlushBuffer(b),
         call' = [d \in Client |-> Idle],
         buffer' \in [Client -> BatchType],
         \A d \in Client : buffer'[d].max = 0 /\ NewInBatch(buffer'[d]) /\ ToldInBatch(buffer'[d])
  PROVE  AllocatorInv'
<1>1. /\ current' \in Nat /\ mapping' \in [User -> Nat] /\ given' \in SUBSET (User \X Nat)
      /\ BelowCounter' /\ Unique' /\ GivenHolds'
  BY FlushIsGood DEF AllocatorInv
<1>2. AllocatorTypes'
  BY <1>1 DEF AllocatorTypes
<1>3. OneAtWork' /\ ReadIsCurrent'
  BY DEF OneAtWork, Busy, ReadIsCurrent
<1>4. ASSUME NEW d \in Client PROVE (NewInBatch(buffer[d]) /\ ToldInBatch(buffer[d]))'
  <2>1. (\A u \in User : buffer'[d].put[u] = 0) /\ buffer'[d].told = {} /\ buffer'[d].max = 0
    BY IdleBatch DEF AllocatorInv
  <2> QED
    BY <2>1 DEF NewInBatch, ToldInBatch
<1> QED
  BY <1>1, <1>2, <1>3, <1>4 DEF AllocatorInv

\* The missing sequences are written: to the database, or to the caller's buffer.
LEMMA AcquireNewSequenceInv ==
  ASSUME AllocatorInv, NEW c \in Client, AcquireNewSequence(c)
  PROVE  AllocatorInv'
<1> DEFINE k == call[c]
<1>0. AllocatorTypes /\ BelowCounter /\ buffer \in [Client -> BatchType]
  BY DEF AllocatorInv, AllocatorTypes
<1>1. /\ k # Idle /\ Missing(k, Len(k.users)) # {}
      /\ call' = [call EXCEPT ![c] = Idle]
  BY DEF AcquireNewSequence
<1>2. /\ k.users \in Seq(User) /\ k.max = current
      /\ \A i \in DOMAIN k.users : k.seqs[i] = mapping[k.users[i]]
      /\ "distinct" \in Contract => Distinct(k.users)
  BY <1>1 DEF AllocatorInv, ReadIsCurrent
<1>3. \A d \in Client : buffer[d].max = 0 /\ NewInBatch(buffer[d]) /\ ToldInBatch(buffer[d])
  BY <1>1 DEF AllocatorInv, OneAtWork, Busy
<1>4. call' = [d \in Client |-> Idle]
  <2>1. \A d \in Client : d # c => call[d] = Idle
    BY <1>1 DEF AllocatorInv, OneAtWork, Busy
  <2> QED
    BY <1>0, <1>1, <2>1 DEF AllocatorTypes
<1>5. CASE k.buffered
  <2> DEFINE b == Filled(k, buffer[c])
  <2>1. buffer' = [buffer EXCEPT ![c] = b] /\ UNCHANGED <<current, mapping, given>>
    BY <1>5 DEF AcquireNewSequence
  <2>2. (\A u \in User : buffer[c].put[u] = 0) /\ buffer[c].told = {} /\ buffer[c] \in BatchType
    BY <1>0, <1>3, IdleBatch
  <2>3. b \in BatchType /\ NewInBatch(b) /\ ToldInBatch(b)
    BY <1>0, <1>1, <1>2, <2>2, FilledIsGood
  <2> HIDE DEF b
  <2>4. buffer' = [d \in Client |-> IF d = c THEN b ELSE buffer[d]]
    BY <1>0, <2>1
  <2>5. AllocatorTypes'
    BY <1>0, <1>4, <2>1, <2>3, <2>4 DEF AllocatorTypes
  <2>6. OneAtWork' /\ ReadIsCurrent'
    BY <1>3, <1>4, <2>4 DEF OneAtWork, Busy, ReadIsCurrent
  <2>7. BelowCounter' /\ Unique' /\ GivenHolds'
    BY <2>1 DEF AllocatorInv, BelowCounter, Unique, GivenHolds
  <2>8. ASSUME NEW d \in Client PROVE (NewInBatch(buffer[d]) /\ ToldInBatch(buffer[d]))'
    <3>1. NewInBatch(buffer'[d]) /\ ToldInBatch(buffer'[d])
      BY <1>3, <2>3, <2>4
    <3> QED
      BY <2>1, <3>1 DEF NewInBatch, ToldInBatch
  <2> QED
    BY <2>5, <2>6, <2>7, <2>8 DEF AllocatorInv
<1>6. CASE ~k.buffered
  <2> DEFINE b == Filled(k, EmptyBatch)
  <2>1. FlushBuffer(b) /\ buffer' = buffer
    BY <1>6 DEF AcquireNewSequence
  <2>2. b \in BatchType /\ NewInBatch(b) /\ ToldInBatch(b)
    BY <1>0, <1>1, <1>2, EmptyIsGood, FilledIsGood
  <2> HIDE DEF b
  <2> QED
    BY <1>0, <1>3, <1>4, <2>1, <2>2, FlushInv
<1> QED
  BY <1>5, <1>6

\* Nothing is missing: the buffer is cleared.
LEMMA AllAssignedInv ==
  ASSUME AllocatorInv, NEW c \in Client, AllAssigned(c)
  PROVE  AllocatorInv'
<1>0. /\ buffer \in [Client -> BatchType] /\ AllocatorTypes
      /\ \A d \in Client : NewInBatch(buffer[d]) /\ ToldInBatch(buffer[d])
  BY DEF AllocatorInv, AllocatorTypes
<1>1. /\ buffer' = buffer \/ buffer' = [buffer EXCEPT ![c] = EmptyBatch]
      /\ call' = [call EXCEPT ![c] = Idle] /\ UNCHANGED <<current, mapping, given>>
  BY DEF AllAssigned
<1>2. /\ EmptyBatch \in BatchType /\ EmptyBatch.max = 0
      /\ NewInBatch(EmptyBatch) /\ ToldInBatch(EmptyBatch)
  BY <1>0, EmptyIsGood
<1>3. /\ call' = [d \in Client |-> call'[d]]
      /\ \A d \in Client : call'[d] = call[d] \/ call'[d] = Idle
  BY <1>0, <1>1 DEF AllocatorTypes
<1>4. /\ buffer' \in [Client -> BatchType]
      /\ \A d \in Client : buffer'[d] = buffer[d] \/ buffer'[d] = EmptyBatch
  BY <1>0, <1>1, <1>2
<1>5. \A d \in Client : buffer'[d].max \in {0, buffer[d].max} /\ NewInBatch(buffer'[d]) /\ ToldInBatch(buffer'[d])
  BY <1>0, <1>2, <1>4
<1> QED
  BY <1>1, <1>3, <1>4, <1>5, EndsInv

\* An error leaves everything as it was.
LEMMA FailsInv ==
  ASSUME AllocatorInv, NEW c \in Client, Fails(c)
  PROVE  AllocatorInv'
<1>0. /\ buffer \in [Client -> BatchType] /\ AllocatorTypes
      /\ \A d \in Client : NewInBatch(buffer[d]) /\ ToldInBatch(buffer[d])
  BY DEF AllocatorInv, AllocatorTypes
<1>1. UNCHANGED <<current, mapping, buffer, given>> /\ call' = [call EXCEPT ![c] = Idle]
  BY DEF Fails
<1>2. /\ call' = [d \in Client |-> call'[d]]
      /\ \A d \in Client : call'[d] = call[d] \/ call'[d] = Idle
  BY <1>0, <1>1 DEF AllocatorTypes
<1> QED
  BY <1>0, <1>1, <1>2, EndsInv

\* A record in the buffer touches no sequence.
LEMMA AddRecordInv ==
  ASSUME AllocatorInv, NEW c \in Client, NEW r \in Record, AddRecord(c, r)
  PROVE  AllocatorInv'
<1>0. /\ buffer \in [Client -> BatchType] /\ AllocatorTypes
      /\ \A d \in Client : NewInBatch(buffer[d]) /\ ToldInBatch(buffer[d])
  BY DEF AllocatorInv, AllocatorTypes
<1> DEFINE b == [buffer[c] EXCEPT !.records = @ \cup {r}]
<1>1. /\ UNCHANGED <<current, mapping, call, given>>
      /\ buffer' = [buffer EXCEPT ![c] = b]
  BY <1>0 DEF AddRecord
<1>2. b \in BatchType /\ b.max = buffer[c].max /\ b.put = buffer[c].put /\ b.told = buffer[c].told
  <2>1. buffer[c] \in BatchType
    BY <1>0
  <2> QED
    BY <2>1 DEF BatchType
<1>3. NewInBatch(b) /\ ToldInBatch(b)
  BY <1>0, <1>2 DEF NewInBatch, ToldInBatch
<1> HIDE DEF b
<1>4. /\ buffer' \in [Client -> BatchType]
      /\ \A d \in Client : buffer'[d] = IF d = c THEN b ELSE buffer[d]
  BY <1>0, <1>1, <1>2
<1>5. \A d \in Client : buffer'[d].max \in {0, buffer[d].max} /\ NewInBatch(buffer'[d]) /\ ToldInBatch(buffer'[d])
  BY <1>0, <1>2, <1>3, <1>4
<1>6. call' = [d \in Client |-> call'[d]] /\ \A d \in Client : call'[d] = call[d] \/ call'[d] = Idle
  BY <1>0, <1>1 DEF AllocatorTypes
<1> QED
  BY <1>1, <1>4, <1>5, <1>6, EndsInv

\* The caller flushes its buffer, with an allocation or without one.
LEMMA FlushStoreBufferInv ==
  ASSUME AllocatorInv, NEW c \in Client, FlushStoreBuffer(c)
  PROVE  AllocatorInv'
<1>0. /\ buffer \in [Client -> BatchType] /\ AllocatorTypes /\ buffer[c] \in BatchType
      /\ \A d \in Client : NewInBatch(buffer[d]) /\ ToldInBatch(buffer[d])
  BY DEF AllocatorInv, AllocatorTypes
<1>1. /\ call[c] = Idle /\ FlushBuffer(buffer[c])
      /\ buffer' = [buffer EXCEPT ![c] = EmptyBatch] /\ call' = call
  BY DEF FlushStoreBuffer
<1>2. /\ EmptyBatch \in BatchType /\ EmptyBatch.max = 0
      /\ NewInBatch(EmptyBatch) /\ ToldInBatch(EmptyBatch)
  BY <1>0, EmptyIsGood
<1>3. /\ buffer' \in [Client -> BatchType]
      /\ \A d \in Client : buffer'[d] = IF d = c THEN EmptyBatch ELSE buffer[d]
  BY <1>0, <1>1, <1>2
<1>4. CASE buffer[c].max = 0
  <2>1. (\A u \in User : buffer[c].put[u] = 0) /\ buffer[c].told = {}
    BY <1>0, <1>4, IdleBatch
  <2>2. UNCHANGED <<current, mapping, given>>
    BY <1>0, <1>1, <1>4, <2>1 DEF FlushBuffer, AllocatorTypes
  <2>3. \A d \in Client : buffer'[d].max \in {0, buffer[d].max} /\ NewInBatch(buffer'[d]) /\ ToldInBatch(buffer'[d])
    BY <1>0, <1>2, <1>3
  <2>4. call' = [d \in Client |-> call'[d]] /\ \A d \in Client : call'[d] = call[d] \/ call'[d] = Idle
    BY <1>0, <1>1 DEF AllocatorTypes
  <2> QED
    BY <1>3, <2>2, <2>3, <2>4, EndsInv
<1>5. CASE buffer[c].max # 0
  <2>1. \A d \in Client : d # c => call[d] = Idle /\ buffer[d].max = 0
    BY <1>5 DEF AllocatorInv, OneAtWork, Busy
  <2>2. call' = [d \in Client |-> Idle]
    BY <1>0, <1>1, <2>1 DEF AllocatorTypes
  <2>3. \A d \in Client : buffer'[d].max = 0 /\ NewInBatch(buffer'[d]) /\ ToldInBatch(buffer'[d])
    BY <1>0, <1>2, <1>3, <2>1
  <2> QED
    BY <1>0, <1>1, <1>3, <2>2, <2>3, FlushInv
<1> QED
  BY <1>4, <1>5

\* A crash loses what was not flushed, and nothing else.
LEMMA CrashInv ==
  ASSUME AllocatorInv, Crash
  PROVE  AllocatorInv'
<1>0. AllocatorTypes
  BY DEF AllocatorInv
<1>1. /\ call' = [d \in Client |-> Idle] /\ buffer' = [d \in Client |-> EmptyBatch]
      /\ UNCHANGED <<current, mapping, given>>
  BY DEF Crash
<1>2. /\ EmptyBatch \in BatchType /\ EmptyBatch.max = 0
      /\ NewInBatch(EmptyBatch) /\ ToldInBatch(EmptyBatch)
  BY <1>0, EmptyIsGood
<1>3. call' = [d \in Client |-> call'[d]] /\ \A d \in Client : call'[d] = call[d] \/ call'[d] = Idle
  BY <1>1
<1>4. /\ buffer' \in [Client -> BatchType]
      /\ \A d \in Client : buffer'[d].max \in {0, buffer[d].max} /\ NewInBatch(buffer'[d]) /\ ToldInBatch(buffer'[d])
  BY <1>1, <1>2
<1> QED
  BY <1>1, <1>3, <1>4, EndsInv

-----------------------------------------------------------------------------
(***************************************************************************)
(* The theorems.                                                           *)
(***************************************************************************)

\* With serial callers one allocation is under way at a time, in a call that has read
\* what is stored or in a buffer whose sequences are all above the counter.
THEOREM AllocatorInvariant ==
  ASSUME "serial" \in Contract
  PROVE  Spec => []AllocatorInv
<1>1. Init => AllocatorInv
  <2> SUFFICES ASSUME Init PROVE AllocatorInv
    OBVIOUS
  <2>1. EmptyBatch \in BatchType
    BY DEF EmptyBatch, BatchType
  <2>2. AllocatorTypes
    BY <2>1 DEF Init, AllocatorTypes
  <2>3. EmptyBatch.max = 0 /\ NewInBatch(EmptyBatch) /\ ToldInBatch(EmptyBatch)
    BY <2>2, EmptyIsGood
  <2>4. OneAtWork /\ ReadIsCurrent
    BY <2>3 DEF Init, OneAtWork, Busy, ReadIsCurrent
  <2>5. BelowCounter /\ Unique /\ GivenHolds
    BY DEF Init, BelowCounter, Unique, GivenHolds
  <2>6. \A c \in Client : NewInBatch(buffer[c]) /\ ToldInBatch(buffer[c])
    BY <2>3 DEF Init
  <2> QED
    BY <2>2, <2>4, <2>5, <2>6 DEF AllocatorInv
<1>2. AllocatorInv /\ [Next]_vars => AllocatorInv'
  <2> SUFFICES ASSUME AllocatorInv, [Next]_vars PROVE AllocatorInv'
    OBVIOUS
  <2>1. CASE UNCHANGED vars
    BY <2>1 DEF vars, AllocatorInv, AllocatorTypes, OneAtWork, Busy, ReadIsCurrent, BelowCounter,
                Unique, NewInBatch, ToldInBatch, GivenHolds
  <2>2. CASE Next
    BY <2>2, AcquireCurrentSequenceInv, AcquireNewSequenceInv, AllAssignedInv, FailsInv, AddRecordInv,
       FlushStoreBufferInv, CrashInv DEF Next
  <2> QED
    BY <2>1, <2>2
<1> QED
  BY <1>1, <1>2, PTL DEF Spec

\* Two business keys never share a sequence, in spite of buffers, errors and crashes,
\* if no call starts while an allocation is under way; lists may name a key twice.
THEOREM SequencesUnique ==
  ASSUME "serial" \in Contract
  PROVE  Spec => []Unique
<1>1. AllocatorInv => Unique
  BY DEF AllocatorInv
<1> QED
  BY <1>1, AllocatorInvariant, PTL

\* What a caller was told and flushed stays the sequence of its key for ever, if lists
\* name a key once, too.
THEOREM SequencesGiven ==
  ASSUME "serial" \in Contract, "distinct" \in Contract
  PROVE  Spec => []GivenIsMapped
<1>1. AllocatorInv => GivenIsMapped
  BY DEF AllocatorInv, GivenHolds, GivenIsMapped
<1> QED
  BY <1>1, AllocatorInvariant, PTL
=============================================================================
