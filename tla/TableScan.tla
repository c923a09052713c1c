------------------------------ MODULE TableScan ------------------------------
(***************************************************************************)
(* The operations on a whole table: ScanTableData and ScanBusinessType,    *)
(* which page through a column, DeleteTableData, which deletes page by     *)
(* page, and DropTable, which deletes a range.  Keys are the byte strings  *)
(* the codec makes, in the byte order of the database.  The caller calls   *)
(* until the key to go on from is empty; others write between the calls.   *)
(***************************************************************************)
EXTENDS Coding

CONSTANTS
  Tables,         \* <<business_type, partition_set>>
  Rows,           \* <<table, document id>> that may be stored
  MaxLen,         \* max_len of a call
  MaxBufferSize,  \* max_buffer_size
  HeaderSize,     \* bytes of an empty write batch
  Sizes,          \* bound: bytes of a key and its value, besides 1
  MaxChanges      \* bound: writes beside an operation

\* A call with a smaller max_len is refused.
ASSUME ScanAssumption ==
  /\ Tables \subseteq Byte \X (0..UINT_MAX) /\ IsFiniteSet(Tables)
  /\ Rows \subseteq Tables \X (0..UINT_MAX) /\ IsFiniteSet(Rows)
  /\ MaxLen \in Nat \ {0, 1} /\ Sizes \subseteq Nat

VARIABLES
  op,        \* the operation: its name, table and whether it reads a snapshot
  column,    \* the column it works on: key -> bytes, 0 for no such key
  snapshot,  \* the column when it began
  start,     \* start_key, <<>> when empty; start_partition_set for "sets"
  got,       \* history: keys, or partition sets, returned so far
  state,     \* "run", "done", or the error returned
  touched,   \* history: keys others have written
  changes

scanVars == <<op, column, snapshot, start, got, state, touched, changes>>

-----------------------------------------------------------------------------
EncodeMetaKey(table) == AppendFixed64(AppendFixed8(<<>>, table[1]), table[2])
EncodeStoredFieldKey(table, id) == AppendFixed64(EncodeMetaKey(table), id)

KeyLess(a, b) ==
  \/ \E i \in DOMAIN a : /\ i <= Len(b) /\ a[i] < b[i]
                         /\ \A j \in 1..(i - 1) : a[j] = b[j]
  \/ Len(a) < Len(b) /\ \A i \in DOMAIN a : a[i] = b[i]

Partition(key) == RemoveFixed64(RemoveFixed8(key).rest).value

MetaKeys == {EncodeMetaKey(t) : t \in Tables}
StoredKeys == {EncodeStoredFieldKey(r[1], r[2]) : r \in Rows}

HasPrefix(key, prefix) == Len(key) >= Len(prefix) /\ SubSeq(key, 1, Len(prefix)) = prefix
InTable(key) == HasPrefix(key, EncodeMetaKey(op.table))

\* The keys an iterator gives from a Seek on, as long as they have the prefix:
\* they are next to each other, and from has it, too.
Seek(view, from, prefix) ==
  {k \in DOMAIN view : view[k] # 0 /\ HasPrefix(k, prefix) /\ ~KeyLess(k, from)}

\* The first of the keys, in the byte order of the database, but no more than n.
Page(n, keys) ==
  [k \in 1..(IF Cardinality(keys) < n THEN Cardinality(keys) ELSE n) |->
     CHOOSE x \in keys : Cardinality({y \in keys : KeyLess(y, x)}) = k - 1]

View == IF op.snap THEN snapshot ELSE column

-----------------------------------------------------------------------------
\* Mutant: the last key of the page before is not skipped.
FromStartUnskipped ==
  Seek(View, IF start = <<>> THEN EncodeMetaKey(op.table) ELSE start, EncodeMetaKey(op.table))

\* From the prefix or behind the last key of the page before, if it is still there.
FromStart ==
  Seek(View, IF start = <<>> THEN EncodeMetaKey(op.table) ELSE start, EncodeMetaKey(op.table)) \ {start}

\* How many of the keys the write buffer takes.
Fitting(keys) ==
  LET size[k \in 0..Len(keys)] == IF k = 0 THEN HeaderSize ELSE size[k - 1] + View[keys[k]]
  IN Cardinality({k \in DOMAIN keys : size[k] <= MaxBufferSize})

\* One call: a page is returned.  A key that no buffer takes is an error, and so
\* is an empty page though there are keys; the second has cleared start_key.
ScanTableData ==
  /\ state = "run"
  /\ op.name = "scan"
  /\ \E found \in {FromStart} : \E keys \in {Page(MaxLen, found)} : \E n \in {Fitting(keys)} :
       /\ got' = got \cup {keys[k] : k \in 1..n}
       /\ IF n < Len(keys) /\ View[keys[n + 1]] > MaxBufferSize
          THEN state' = "RocksDBError" /\ UNCHANGED start
          ELSE /\ start' = IF n = 0 THEN <<>> ELSE keys[n]
               /\ state' = IF keys # <<>> /\ n = 0 THEN "DataError"
                           ELSE IF n = 0 THEN "done" ELSE "run"
  /\ UNCHANGED <<op, column, snapshot, touched, changes>>

\* One call: the partition sets from start_partition_set on, itself included; the
\* end is reached when the last one is where the call began.
ScanBusinessType ==
  /\ state = "run"
  /\ op.name = "sets"
  /\ \E found \in {Seek(View, EncodeMetaKey(<<op.table[1], start>>), AppendFixed8(<<>>, op.table[1]))} :
     \E keys \in {Page(MaxLen, found)} :
     \E last \in {IF keys = <<>> THEN 0 ELSE Partition(keys[Len(keys)])} :
       /\ got' = got \cup {Partition(keys[k]) : k \in DOMAIN keys}
       /\ start' = IF last = start THEN 0 ELSE last
  /\ state' = IF start' = 0 THEN "done" ELSE "run"
  /\ UNCHANGED <<op, column, snapshot, touched, changes>>

\* One call: a page is deleted in one batch.
DeleteTableData ==
  /\ state = "run"
  /\ op.name = "delete"
  /\ \E found \in {Seek(column, IF start = <<>> THEN EncodeMetaKey(op.table) ELSE start, EncodeMetaKey(op.table))} :
     \E keys \in {Page(MaxLen, found)} :
       /\ column' = [k \in DOMAIN column |-> IF \E i \in DOMAIN keys : keys[i] = k THEN 0 ELSE column[k]]
       /\ start' = IF keys = <<>> THEN <<>> ELSE keys[Len(keys)]
       /\ state' = IF keys = <<>> THEN "done" ELSE "run"
  /\ UNCHANGED <<op, snapshot, got, touched, changes>>

\* The batch cannot be written; start_key stays.
DeleteFails ==
  /\ state = "run"
  /\ op.name = "delete"
  /\ state' = "RocksDBError"
  /\ UNCHANGED <<op, column, snapshot, start, got, touched, changes>>

\* Mutant: the range ends with the greatest key there could be.
RangeToEnd(key) == ~KeyLess(key, EncodeStoredFieldKey(op.table, 0))

\* The range of WriteStoreFieldForDropTable and WriteDocvalueForDropTable; its end
\* is not in it.
DropRange(key) ==
  /\ ~KeyLess(key, EncodeStoredFieldKey(op.table, 0))
  /\ KeyLess(key, EncodeStoredFieldKey(op.table, UINT_MAX))

DropTable ==
  /\ state = "run"
  /\ op.name = "drop"
  /\ column' = [k \in DOMAIN column |-> IF DropRange(k) THEN 0 ELSE column[k]]
  /\ state' = "done"
  /\ UNCHANGED <<op, snapshot, start, got, touched, changes>>

\* Others write between the calls.
Change ==
  /\ state = "run"
  /\ changes < MaxChanges
  /\ \E k \in DOMAIN column, size \in {0, 1} :
       /\ column[k] # size
       /\ column' = [column EXCEPT ![k] = size]
       /\ touched' = touched \cup {k}
  /\ changes' = changes + 1
  /\ UNCHANGED <<op, snapshot, start, got, state>>

RowSizes == {0, 1} \cup Sizes

ScanInit ==
  /\ op \in [name : {"scan", "sets", "delete", "drop"}, table : Tables, snap : BOOLEAN]
  /\ column \in CASE op.name = "sets" -> [MetaKeys -> {0, 1}]
                  [] op.name = "scan" -> [StoredKeys -> RowSizes]
                  [] OTHER -> [StoredKeys -> {0, 1}]
  /\ snapshot = column
  /\ start = IF op.name = "sets" THEN 0 ELSE <<>>
  /\ got = {}
  /\ state = "run"
  /\ touched = {}
  /\ changes = 0

ScanStep == ScanTableData \/ ScanBusinessType \/ DeleteTableData \/ DeleteFails \/ DropTable

ScanNext == ScanStep \/ Change

ScanSpec == ScanInit /\ [][ScanNext]_scanVars

-----------------------------------------------------------------------------
\* A scan that ended well has returned every row of the table, or every partition
\* set of the business type, that was there all the time, and from a snapshot
\* nothing else; rows of a neighbouring table never get in.
ScanComplete ==
  /\ state = "done" /\ op.name = "scan" =>
       LET rows == {k \in StoredKeys : InTable(k)}
           kept == {k \in rows : snapshot[k] # 0}
       IN IF op.snap THEN got = kept ELSE kept \ touched \subseteq got /\ got \subseteq rows
  /\ state = "done" /\ op.name = "sets" =>
       LET keys == {EncodeMetaKey(t) : t \in {t \in Tables : t[1] = op.table[1]}}
           sets(ks) == {t[2] : t \in {t \in Tables : EncodeMetaKey(t) \in ks}}
           kept == {k \in keys : snapshot[k] # 0}
       IN IF op.snap THEN got = sets(kept) ELSE sets(kept \ touched) \subseteq got /\ got \subseteq sets(keys)

\* Deleting the data of a table, page by page or by range, removes all its rows and
\* leaves every other table alone; the range of DropTable alone spares the row of
\* the greatest document id.
DeleteExact ==
  op.name \in {"delete", "drop"} =>
    \A k \in StoredKeys \ touched :
      /\ ~InTable(k) => column[k] = snapshot[k]
      /\ state = "done" /\ InTable(k) =>
           column[k] = IF op.name = "drop" /\ k = EncodeStoredFieldKey(op.table, UINT_MAX) THEN snapshot[k] ELSE 0

\* Every operation comes to an end or to an error.
ScanEnds == <>(state # "run")
=============================================================================
