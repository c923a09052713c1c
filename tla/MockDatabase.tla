---------------------------- MODULE MockDatabase ----------------------------
(***************************************************************************)
(* VirtualDBMock and WriteBufferMock, the in-memory database of use_mock:  *)
(* a batch collects one entry per key, where RocksDB's keeps every call in *)
(* order, and a flush applies the entries.  Two columns: stored values, to *)
(* put and delete, and doc lists, to merge.                                *)
(***************************************************************************)
EXTENDS DocLists

CONSTANTS
  MockKeys,     \* keys, in byte order
  MockValues,   \* serialised documents; 0 is the empty string
  MaxCalls      \* bound: calls on write buffers

ASSUME MockAssumption == MockKeys \subseteq Nat /\ MockValues \subseteq Nat \ {0} /\ MaxCalls \in Nat

VARIABLES
  stored,      \* cf_kv_list_[kStoredFieldColumn]: a map from the keys it has
  inverted,    \* cf_kv_list_[kInvertedIndexColumn]
  batch,       \* the write buffer: entries per column, and ranges to delete
  rocks,       \* what RocksDB holds once it has applied the calls in their order
  departed,    \* history: a call was made whose effect the mock does not keep
  crashed,     \* the process ended in undefined behaviour
  calls

mockVars == <<stored, inverted, batch, rocks, departed, crashed, calls>>

NoEntries == [puts |-> <<>>, lists |-> <<>>, ranges |-> {}]

With(f, k, v) == [x \in DOMAIN f \cup {k} |-> IF x = k THEN v ELSE f[x]]
Without(f, ks) == [x \in DOMAIN f \ ks |-> f[x]]
InMockRange(r) == {k \in MockKeys : r[1] <= k /\ k < r[2]}
InRanges(k) == \E r \in batch.ranges : k \in InMockRange(r)

Call == ~crashed /\ calls < MaxCalls /\ calls' = calls + 1

-----------------------------------------------------------------------------
(***************************************************************************)
(* WriteBufferMock.  A flush applies the ranges behind all entries, so a   *)
(* write of a key behind a range of its batch that has it is lost, where   *)
(* RocksDB keeps the order of the calls.                                   *)
(***************************************************************************)
MockPut(k, v) ==
  /\ Call
  /\ batch' = [batch EXCEPT !.puts = With(@, k, [type |-> "kUpdate", value |-> v])]
  /\ rocks' = [rocks EXCEPT !.stored = With(@, k, v)]
  /\ departed' = (departed \/ InRanges(k))
  /\ UNCHANGED <<stored, inverted, crashed>>

MockDelete(k) ==
  /\ Call
  /\ batch' = [batch EXCEPT !.puts = With(@, k, [type |-> "kDelete", value |-> 0])]
  /\ rocks' = [rocks EXCEPT !.stored = Without(@, {k})]
  /\ UNCHANGED <<stored, inverted, departed, crashed>>

\* Within a batch a later state of an id replaces an earlier one and deletes stay.
MergedInBatch(old, l) == [d \in DocID |-> IF l[d] = "None" THEN old[d] ELSE l[d]]

Ids(l) == {d \in DocID : l[d] # "None"}
Listed(k) == IF k \in DOMAIN rocks.lists THEN rocks.lists[k] ELSE {}

\* One posting, added or deleted: what WriteInvertedIndex merges.
MockMerge(k, d, s) ==
  LET l == [EmptyList EXCEPT ![d] = s]
      old == IF k \in DOMAIN batch.lists THEN batch.lists[k].value ELSE EmptyList
  IN /\ Call
     /\ batch' = [batch EXCEPT !.lists = With(@, k, [type |-> "kMerge", value |-> MergedInBatch(old, l)])]
     /\ rocks' = [rocks EXCEPT !.lists = With(@, k, IF s = "OK" THEN Listed(k) \cup {d} ELSE Listed(k) \ {d})]
     /\ departed' = (departed \/ InRanges(k))
     /\ UNCHANGED <<stored, inverted, crashed>>

\* DropTable deletes the table's range in either column, in a batch of its own or in
\* the caller's store_buffer.
MockDeleteRange(r) ==
  /\ Call
  /\ batch' = [batch EXCEPT !.ranges = @ \cup {r}]
  /\ rocks' = [stored |-> Without(rocks.stored, InMockRange(r)), lists |-> Without(rocks.lists, InMockRange(r))]
  /\ UNCHANGED <<stored, inverted, departed, crashed>>

\* Entries, and behind them the ranges, as a new batch puts them: the value of each
\* entry, the empty string under the first key of each range.
Reopened(entries, empty) ==
  LET begins == {r[1] : r \in batch.ranges}
  IN [k \in DOMAIN entries \cup begins |->
        [type |-> "kUpdate", value |-> IF k \in begins THEN empty ELSE entries[k].value]]

\* NewWriteBuffer on the bytes of another batch: everything is put, whatever it was.
DeSeriableData ==
  /\ Call /\ batch # NoEntries
  /\ batch' = [puts |-> Reopened(batch.puts, 0), lists |-> Reopened(batch.lists, EmptyList), ranges |-> {}]
  /\ departed' = \/ departed
                 \/ batch.lists # <<>> \/ batch.ranges # {}
                 \/ \E k \in DOMAIN batch.puts : batch.puts[k].type = "kDelete"
  /\ UNCHANGED <<stored, inverted, rocks, crashed>>

-----------------------------------------------------------------------------
(***************************************************************************)
(* VirtualDBMock.                                                          *)
(***************************************************************************)
\* Mutant: a merge keeps deletes in the list.
MergedInMockKeepsDeletes(old, l) == MergedInBatch(old, l)

\* A merge into a value drops the deletes of both sides.
MergedInMock(old, l) ==
  [d \in DocID |-> IF l[d] = "OK" \/ (l[d] = "None" /\ old[d] = "OK") THEN "OK" ELSE "None"]

AppliedPuts ==
  LET deleted == {k \in DOMAIN batch.puts : batch.puts[k].type = "kDelete"}
  IN [k \in (DOMAIN stored \cup DOMAIN batch.puts) \ deleted |->
        IF k \in DOMAIN batch.puts THEN batch.puts[k].value ELSE stored[k]]

\* The first merge of a key stores the operand as it is, deletes included.
AppliedLists ==
  [k \in DOMAIN inverted \cup DOMAIN batch.lists |->
     IF k \notin DOMAIN batch.lists THEN inverted[k]
     ELSE IF k \in DOMAIN inverted /\ batch.lists[k].type = "kMerge"
          THEN MergedInMock(inverted[k], batch.lists[k].value)
          ELSE batch.lists[k].value]

\* Keys that keep a deleted document among those a reader finds.
DeletesKept ==
  {k \in DOMAIN batch.lists \ DOMAIN inverted : ~InRanges(k) /\ \E d \in DocID : batch.lists[k].value[d] = "Delete"}

\* ParsePbString: entries, then ranges.  A range that meets a key erases the element
\* its loop stands on and goes on from there: it ends the process or works.
MockFlush ==
  LET gone == UNION {InMockRange(r) : r \in batch.ranges}
  IN /\ ~crashed /\ batch # NoEntries
     /\ stored' = Without(AppliedPuts, gone)
     /\ inverted' = Without(AppliedLists, gone)
     /\ batch' = NoEntries
     /\ departed' = (departed \/ DeletesKept # {})
     /\ crashed' \in {FALSE, (DOMAIN AppliedPuts \cup DOMAIN AppliedLists) \cap gone # {}}
     /\ UNCHANGED <<rocks, calls>>

\* MockIterator::Seek on the stored column: lower_bound, 0 at the end.
MockSeek(map, k) ==
  LET from == {x \in DOMAIN map : x >= k}
  IN IF from = {} THEN 0 ELSE CHOOSE x \in from : \A y \in from : x <= y

MockInit ==
  /\ stored = <<>> /\ inverted = <<>>
  /\ batch = NoEntries
  /\ rocks = [stored |-> <<>>, lists |-> <<>>]
  /\ departed = FALSE /\ crashed = FALSE /\ calls = 0

MockNext ==
  \/ \E k \in MockKeys :
       \/ \E v \in MockValues : MockPut(k, v)
       \/ MockDelete(k)
       \/ \E d \in DocID, s \in {"OK", "Delete"} : MockMerge(k, d, s)
       \/ \E e \in MockKeys : k < e /\ MockDeleteRange(<<k, e>>)
  \/ DeSeriableData
  \/ MockFlush

MockSpec == MockInit /\ [][MockNext]_mockVars

-----------------------------------------------------------------------------
\* After a flush the mock answers reads as RocksDB would: it has the same stored
\* documents under Get and Seek, and under every key a reader, which does not look at
\* states, finds the documents whose last merge added them.  It does not keep all that
\* RocksDB keeps: excepted is the history with a write behind a range of its batch that
\* has the key, with a batch of more than puts opened again, and with a delete of a
\* posting in the first flush of its key.
MockAgrees ==
  (batch = NoEntries /\ ~departed /\ ~crashed) =>
    /\ stored = rocks.stored
    /\ \A k \in MockKeys :
         /\ MockSeek(stored, k) = MockSeek(rocks.stored, k)
         /\ (IF k \in DOMAIN inverted THEN Ids(inverted[k]) ELSE {}) = Listed(k)
=============================================================================
