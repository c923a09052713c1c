---------------------------- MODULE DocListReader ----------------------------
(***************************************************************************)
(* One DocListReaderCodecImpl over a stored doc list: the cursor every     *)
(* query walks, moved by NextDoc and Advance in any order.                 *)
(***************************************************************************)
EXTENDS DocListCodec

CONSTANT ReadIDs   \* ids a list under the reader may hold

VARIABLES
  list,     \* history: the entries written, <<id, state>>
  reader,   \* the cursor
  at        \* history: the id the cursor should be on, 0 behind the last

readerVars == <<list, reader, at>>

ReaderInit ==
  \E ids \in SUBSET ReadIDs, type \in CompressionType : \E dels \in SUBSET ids :
    /\ list = [k \in 1..Cardinality(ids) |->
                 LET d == Descending(ids)[k] IN <<d, IF d \in dels THEN "Delete" ELSE "OK">>]
    /\ reader = NewReader(WriteDocList(type, list), 1)
    /\ at = IF list = <<>> THEN NO_MORE_DOCS ELSE list[1][1]

\* The greatest id that is no greater than bound.
Below(bound) ==
  LET ids == {list[k][1] : k \in DOMAIN list} \cap 0..bound
  IN IF ids = {} THEN NO_MORE_DOCS ELSE Max(ids)

NextDoc ==
  /\ reader' = ReaderNextDoc(reader)
  /\ at' = IF at = NO_MORE_DOCS THEN at ELSE Below(at - 1)
  /\ UNCHANGED list

Advance ==
  \E target \in 1..MAX_DOCID :
    /\ reader' = ReaderAdvance(reader, target)
    /\ at' = Below(target)
    /\ UNCHANGED list

ReaderNext == NextDoc \/ Advance

\* Whatever form the list was stored in and however the cursor got there, it is
\* on the id and the state that were written: the binary search of Advance finds
\* the target or the next smaller id, also at both ends and from behind the end.
ReaderFinds ==
  /\ ReaderDocID(reader) = at
  /\ at # NO_MORE_DOCS => \E k \in DOMAIN list : list[k] = <<at, ReaderState(reader)>>
=============================================================================
