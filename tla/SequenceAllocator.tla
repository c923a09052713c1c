-------------------------- MODULE SequenceAllocator --------------------------
(***************************************************************************)
(* The mapping from business keys (user_id) to sequences in the meta       *)
(* column of one table: AcquireCurrentSequence reads the counter and the   *)
(* mappings, AcquireNewSequence allocates what is missing and writes it,   *)
(* to the database or to the caller's store_buffer.  Nothing is locked in  *)
(* between.                                                                *)
(***************************************************************************)
EXTENDS FiniteSets, Integers, Sequences

CONSTANTS
  Client,     \* threads that call AcquireNewSequence
  User,       \* business keys
  Record,     \* records other write calls leave in a store_buffer
  Idle,       \* "no call in progress"
  MaxSeq,     \* bound on sequences
  MaxList,    \* bound on the users of one call
  Contract    \* the rules callers follow, see Serial and Lists

ASSUME SequenceAssumption ==
  /\ MaxSeq \in Nat
  /\ MaxList \in Nat
  /\ Contract \subseteq {"serial", "distinct"}

VARIABLES
  current,   \* the sequence meta key (0: absent)
  mapping,   \* the sequence mapping keys (0: absent)
  call,      \* what each client's call has read
  buffer,    \* each client's store_buffer
  given      \* history: pairs told to callers whose batch was flushed

vars == <<current, mapping, call, buffer, given>>

Sequence == 0..MaxSeq

\* A batch: the counter and the mappings it puts (0: untouched), the pairs
\* callers were told with it, and the records of other calls.
Batch == [max : Sequence, put : [User -> Sequence],
          told : SUBSET (User \X Sequence), records : SUBSET Record]

EmptyBatch == [max |-> 0, put |-> [u \in User |-> 0], told |-> {}, records |-> {}]

\* "serial": no call starts while another is in progress or an allocation
\* waits in a buffer.  "distinct": a call names a user once.
Serial ==
  "serial" \in Contract =>
    \A c \in Client : call[c] = Idle /\ buffer[c].max = 0

Distinct(users) == \A i, j \in DOMAIN users : users[i] = users[j] => i = j

Lists == {users \in UNION {[1..n -> User] : n \in 1..MaxList} :
            "distinct" \in Contract => Distinct(users)}

-----------------------------------------------------------------------------
AcquireCurrentSequence(c, users, buffered) ==
  /\ call[c] = Idle
  /\ Serial
  /\ call' = [call EXCEPT ![c] =
                [users    |-> users,
                 buffered |-> buffered,
                 max      |-> current,
                 seqs     |-> [i \in DOMAIN users |-> mapping[users[i]]]]]
  /\ UNCHANGED <<current, mapping, buffer, given>>

\* Positions of a call's list that have no mapping, up to position i.
Missing(k, i) == {j \in 1..i : k.seqs[j] = 0}

\* Mutant: users that have a sequence get a new one, too.
AllocatedAlways(k) == [i \in DOMAIN k.users |-> k.max + i]

\* The sequences the call answers with.
Allocated(k) ==
  [i \in DOMAIN k.users |-> IF k.seqs[i] = 0
                            THEN k.max + Cardinality(Missing(k, i)) ELSE k.seqs[i]]

\* Mutant: the counter is left as it was read.
NextMaxStays(k) == k.max

NextMax(k) == k.max + Cardinality(Missing(k, Len(k.users)))

\* The last Put of a user wins.
PutBy(k, u, before) ==
  LET at == {i \in DOMAIN k.users : k.users[i] = u /\ k.seqs[i] = 0}
  IN IF at = {} THEN before
     ELSE Allocated(k)[CHOOSE i \in at : \A j \in at : j <= i]

Filled(k, b) ==
  [max     |-> NextMax(k),
   put     |-> [u \in User |-> PutBy(k, u, b.put[u])],
   told    |-> b.told \cup {<<k.users[i], Allocated(k)[i]>> : i \in DOMAIN k.users},
   records |-> b.records]

FlushBuffer(b) ==
  /\ current' = IF b.max = 0 THEN current ELSE b.max
  /\ mapping' = [u \in User |-> IF b.put[u] = 0 THEN mapping[u] ELSE b.put[u]]
  /\ given' = given \cup b.told

\* Something is allocated: one batch puts the mappings and the counter.
AcquireNewSequence(c) ==
  LET k == call[c]
  IN /\ k # Idle
     /\ Missing(k, Len(k.users)) # {}
     /\ k.max + Len(k.users) <= MaxSeq
     /\ IF k.buffered
        THEN /\ buffer' = [buffer EXCEPT ![c] = Filled(k, buffer[c])]
             /\ UNCHANGED <<current, mapping, given>>
        ELSE /\ FlushBuffer(Filled(k, EmptyBatch))
             /\ UNCHANGED buffer
     /\ call' = [call EXCEPT ![c] = Idle]

\* Nothing to allocate: nothing is written, and store_buffer is cleared.
AllAssigned(c) ==
  LET k == call[c]
  IN /\ k # Idle
     /\ Missing(k, Len(k.users)) = {}
     /\ buffer' = IF k.buffered THEN [buffer EXCEPT ![c] = EmptyBatch] ELSE buffer
     /\ call' = [call EXCEPT ![c] = Idle]
     /\ UNCHANGED <<current, mapping, given>>

\* MultiGet or the flush fails: an error is returned, nothing is written.
Fails(c) ==
  /\ call[c] # Idle
  /\ call' = [call EXCEPT ![c] = Idle]
  /\ UNCHANGED <<current, mapping, buffer, given>>

\* Another write call puts a record into the client's store_buffer.
AddRecord(c, r) ==
  /\ call[c] = Idle
  /\ buffer' = [buffer EXCEPT ![c].records = @ \cup {r}]
  /\ UNCHANGED <<current, mapping, call, given>>

FlushStoreBuffer(c) ==
  /\ call[c] = Idle
  /\ buffer[c] # EmptyBatch
  /\ FlushBuffer(buffer[c])
  /\ buffer' = [buffer EXCEPT ![c] = EmptyBatch]
  /\ UNCHANGED call

\* The process stops; what was not flushed is gone.
Crash ==
  /\ \E c \in Client : call[c] # Idle \/ buffer[c] # EmptyBatch
  /\ call' = [c \in Client |-> Idle]
  /\ buffer' = [c \in Client |-> EmptyBatch]
  /\ UNCHANGED <<current, mapping, given>>

Init ==
  /\ current = 0
  /\ mapping = [u \in User |-> 0]
  /\ call = [c \in Client |-> Idle]
  /\ buffer = [c \in Client |-> EmptyBatch]
  /\ given = {}

Next ==
  \/ \E c \in Client :
       \/ \E users \in Lists, buffered \in BOOLEAN :
            AcquireCurrentSequence(c, users, buffered)
       \/ AcquireNewSequence(c)
       \/ AllAssigned(c)
       \/ Fails(c)
       \/ \E r \in Record : AddRecord(c, r)
       \/ FlushStoreBuffer(c)
  \/ Crash

Spec == Init /\ [][Next]_vars

-----------------------------------------------------------------------------
\* The mapping is reversible: no two business keys share a sequence.
Unique ==
  \A u, v \in User : u # v /\ mapping[u] # 0 => mapping[u] # mapping[v]

\* Every sequence a caller was told, once its batch is in the database, is and
\* stays the sequence of that user, and no sequence is handed out again after a
\* crash or a failed flush.
GivenIsMapped == \A p \in given : mapping[p[1]] = p[2]
=============================================================================
