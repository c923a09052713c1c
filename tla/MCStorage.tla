----------------------------- MODULE MCStorage ------------------------------
(***************************************************************************)
(* Checks one part of the storage layer per behaviour: the sequence        *)
(* allocator, an operation on a whole table, a merging iterator, the       *)
(* history of a doc list under compaction, the mock database, or the way   *)
(* of a string field into the index.                                       *)
(***************************************************************************)
EXTENDS SequenceAllocator, TableScan, MergingIterator, DocListMerge, MockDatabase, Tokenizer

VARIABLE part

MCTableSet == {<<1, 0>>, <<1, 7>>, <<1, 8>>, <<2, 7>>}
MCRows == {<<<<1, 7>>, 1>>, <<<<1, 7>>, 8>>, <<<<1, 7>>, 63>>, <<<<1, 8>>, 1>>, <<<<2, 7>>, 9>>}

\* Operands writers produce: one id, OK or Delete (WriteInvertedIndex), or several OK
\* ids (IngestInvertIndex).
MCOperands ==
  {[EmptyList EXCEPT ![d] = s] : d \in DocID, s \in {"OK", "Delete"}}
    \cup {[d \in DocID |-> "OK"]}

\* A, blanks, octet 0, characters of two, three and four octets; a character cut
\* short, an overlong one, a surrogate, one beyond 10FFFF and an octet that leads none.
Pieces ==
  {<<65>>, <<32>>, <<13>>, <<195, 169>>, <<228, 184, 173>>, <<240, 159, 152, 128>>,
   <<228, 184>>, <<192, 128>>, <<237, 160, 128>>, <<244, 144, 128, 128>>, <<255>>, <<0>>}
MCTexts == {<<>>} \cup Pieces \cup {p \o q : p, q \in Pieces}
  \cup {p \o q \o r : p \in {<<65>>, <<195, 169>>}, q \in Pieces, r \in Pieces}

ScanIdle ==
  /\ op = [name |-> "scan", table |-> <<1, 0>>, snap |-> FALSE]
  /\ column = [k \in StoredKeys |-> 0] /\ snapshot = column
  /\ start = <<>> /\ got = {} /\ state = "RocksDBError" /\ touched = {} /\ changes = 0

MergingIdle ==
  keysOf = [i \in Children |-> {}] /\ at = [i \in Children |-> 0] /\ cursor = 0 /\ direction = "forward"

TextIdle ==
  /\ field = [tokenizer |-> "space", tokenize |-> TRUE, outer |-> FALSE, suffix |-> FALSE, suffixLen |-> 0]
  /\ text = <<>> /\ cutTo = 0 /\ cut = {} /\ terms = {} /\ todo = {} /\ builder = NoBuilder
  /\ indexed = {} /\ stage = "done"

MCInit ==
  /\ Init /\ HistoryInit /\ MockInit
  /\ \/ part \in {"sequence", "history", "mock"} /\ ScanIdle /\ MergingIdle /\ TextIdle
     \/ part = "scan" /\ ScanInit /\ op.table = <<1, 7>> /\ MergingIdle /\ TextIdle
     \/ part = "merging" /\ ScanIdle /\ MergingInit /\ TextIdle
     \/ part = "text" /\ ScanIdle /\ MergingIdle /\ TextInit

MCNext ==
  /\ UNCHANGED part
  /\ \/ part = "sequence" /\ Next /\ UNCHANGED <<scanVars, mergingVars, historyVars, mockVars, textVars>>
     \/ part = "scan" /\ ScanNext /\ UNCHANGED <<vars, mergingVars, historyVars, mockVars, textVars>>
     \/ part = "merging" /\ MergingNext /\ UNCHANGED <<vars, scanVars, historyVars, mockVars, textVars>>
     \/ part = "history" /\ HistoryNext /\ UNCHANGED <<vars, scanVars, mergingVars, mockVars, textVars>>
     \/ part = "mock" /\ MockNext /\ UNCHANGED <<vars, scanVars, mergingVars, historyVars, textVars>>
     \/ part = "text" /\ TextNext /\ UNCHANGED <<vars, scanVars, mergingVars, historyVars, mockVars>>

MCSpec ==
  /\ MCInit
  /\ [][MCNext]_<<part, vars, scanVars, mergingVars, historyVars, mockVars, textVars>>
  /\ WF_scanVars(part = "scan" /\ ScanStep)
=============================================================================
