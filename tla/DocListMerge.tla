---------------------------- MODULE DocListMerge ----------------------------
(***************************************************************************)
(* The history of one key of the inverted index in RocksDB: a value and    *)
(* the merge operands not yet folded into it.  A write appends an operand; *)
(* compactions fold operands together (PartialMergeMulti) or into the      *)
(* value (FullMergeV2) whenever they like; a read folds everything without *)
(* writing it back.  When compactions run is RocksDB's choice (external).  *)
(***************************************************************************)
EXTENDS DocLists

CONSTANTS
  Operands,   \* doc lists that writers merge in
  MaxOps      \* bound: operands kept at a time

ASSUME MergeAssumption == Operands \subseteq DocList /\ MaxOps \in Nat

VARIABLES
  base,    \* the value under the key (EmptyList: none)
  ops,     \* merge operands, oldest first
  truth,   \* history: the last state written for each id
  ever     \* history: ids ever written as OK

historyVars == <<base, ops, truth, ever>>

\* WriteBuffer::Merge, flushed.
Merge(l) ==
  /\ Len(ops) < MaxOps
  /\ ops' = Append(ops, l)
  /\ truth' = [d \in DocID |-> IF l[d] = "None" THEN truth[d] ELSE l[d]]
  /\ ever' = ever \cup {d \in DocID : l[d] = "OK"}
  /\ UNCHANGED base

\* Operands i .. j become one.
PartialMergeMulti(i, j) ==
  /\ i < j
  /\ ops' = SubSeq(ops, 1, i - 1) \o <<Merged(SubSeq(ops, i, j), FALSE)>>
              \o SubSeq(ops, j + 1, Len(ops))
  /\ UNCHANGED <<base, truth, ever>>

\* The oldest n operands go into the value.
FullMergeV2(n) ==
  /\ base' = Merged(<<base>> \o SubSeq(ops, 1, n), TRUE)
  /\ ops' = SubSeq(ops, n + 1, Len(ops))
  /\ UNCHANGED <<truth, ever>>

\* DropTable's DeleteRange over the key.
DeleteRange ==
  /\ base' = EmptyList
  /\ ops' = <<>>
  /\ truth' = EmptyList
  /\ ever' = {}

HistoryInit ==
  /\ base = EmptyList
  /\ ops = <<>>
  /\ truth = EmptyList
  /\ ever = {}

HistoryNext ==
  \/ \E l \in Operands : Merge(l)
  \/ \E i, j \in DOMAIN ops : PartialMergeMulti(i, j)
  \/ \E n \in DOMAIN ops : FullMergeV2(n)
  \/ DeleteRange

HistorySpec == HistoryInit /\ [][HistoryNext]_historyVars

\* VirtualDB::Get on the key.
Get == Merged(<<base>> \o ops, TRUE)

-----------------------------------------------------------------------------
\* A reader never gets a document whose last write was a delete, however
\* compactions split the history and wherever the lists were cut: a partial
\* merge must keep deletes for older operands it has not seen.
Sound == \A d \in DocID : Get[d] = "OK" => truth[d] = "OK"

\* As long as no more than MaxDocs documents were ever listed, no compaction
\* order loses one.
Complete ==
  Cardinality(ever) <= MaxDocs =>
    \A d \in DocID : truth[d] = "OK" => Get[d] = "OK"
=============================================================================
