----------------------------- MODULE StoredMerge -----------------------------
(***************************************************************************)
(* A merge of stored doc lists: the operands, in either stored form, are   *)
(* decoded and merged, and the merged list is stored again.                *)
(***************************************************************************)
EXTENDS HeapMerge, DocListCodec

CONSTANTS
  ListCount,   \* bound: doc lists merged
  MaxEntries,  \* bound: entries in all the lists
  ShortString  \* bytes a std::string keeps inside the object: 15

VARIABLES
  type,      \* compression_type_ of the codec
  operands   \* history: the doc lists as they were written

storedVars == <<type, operands, vars>>

\* The entries of a doc list in descending order of ids.
Entries(f) ==
  LET ids == Descending({d \in DocID : f[d] # "None"})
  IN [k \in DOMAIN ids |-> <<ids[k], f[ids[k]]>>]

\* A list stored in form t and decoded again.
DecodeDocList(t, entries) == FixEntries(DecodeDocListToFixBytes(WriteDocList(t, entries)))

\* What a merge reads of every doc list.
Decoded == [t \in CompressionType |-> [f \in DocList |-> DecodeDocList(t, Entries(f))]]

\* Up to ListCount doc lists with up to MaxEntries entries <<list, id>> between them.
StoredInit ==
  /\ \E n \in 1..ListCount :
       \E held \in {s \in SUBSET ((1..n) \X DocID) : Cardinality(s) <= MaxEntries} :
         \E state \in [held -> {"OK", "Delete"}] :
           operands = [i \in 1..n |-> [d \in DocID |-> IF <<i, d>> \in held THEN state[i, d] ELSE "None"]]
  /\ type \in CompressionType
  /\ lists = [i \in DOMAIN operands |-> Decoded[type][operands[i]]]
  /\ purge \in BOOLEAN
  /\ Fresh

\* The k-th buffer put into alloc_buffer makes the vector grow, so the strings
\* before it move, and the bytes of a short string move with it.
Grows(k) == \E e \in 0..ListCount : k - 1 = 2^e
Short(i) == Len(lists[i]) * DOC_ID_GAP + 1 <= ShortString
Moves == type = VarLenBlockType /\ \E k \in DOMAIN lists : Grows(k) /\ \E i \in 1..(k - 1) : Short(i)

\* A merge that would read a list through a pointer into a string that has moved is
\* not followed.
StoredNext ==
  /\ pc = "decode" => ~Moves
  /\ Next
  /\ UNCHANGED <<type, operands>>

-----------------------------------------------------------------------------
\* In either form a doc list is read as it was written, deletes included, by the merge
\* that decodes it and from the value that merge leaves behind.
FormsKeepLists ==
  /\ pc = "decode" => \A i \in DOMAIN lists : InOrder(lists[i]) /\ AsDocList(lists[i]) = operands[i]
  /\ pc = "done" => DecodeDocList(type, out) = out

\* The merge ends.
Terminates == <>(pc = "done" \/ Moves)
=============================================================================
