------------------------------ MODULE DocLists ------------------------------
(***************************************************************************)
(* Doc lists and the value the RocksDB merge operator gives them.  A doc   *)
(* list is sorted by descending document id, without duplicates, so it is  *)
(* kept as a function from ids to states ("None": the id is not in it).    *)
(* HeapMerge checks the heap that computes Merged, on the sequences.       *)
(***************************************************************************)
EXTENDS FiniteSets, Integers, Sequences

CONSTANTS
  DocID,       \* document ids; 0 ends a list and is not one
  MaxDocs,     \* max_doc_list_num_: OK ids a merged list keeps
  MaxDeletes   \* deletes a partial merge writes before it gives up, less one

ASSUME DocListsAssumption ==
  /\ DocID \subseteq Nat \ {0}
  /\ IsFiniteSet(DocID)
  /\ MaxDocs \in Nat \ {0}
  /\ MaxDeletes \in Nat

State == {"None", "OK", "Delete"}
DocList == [DocID -> State]
EmptyList == [d \in DocID |-> "None"]

\* The state the newest operand that mentions d gives it.
NewestState(lists, d) ==
  LET having == {i \in DOMAIN lists : lists[i][d] # "None"}
  IN IF having = {} THEN "None"
     ELSE lists[CHOOSE i \in having : \A j \in having : j <= i][d]

\* How many ids above d are in state s.
Above(f, d, s) == Cardinality({e \in DocID : e > d /\ f[e] = s})

\* Mutant: a full list also drops the deletes of its tail.
KeptDropsTail(f, d, purge) ==
  CASE f[d] = "OK"     -> Above(f, d, "OK") < MaxDocs
    [] f[d] = "Delete" -> ~purge /\ Above(f, d, "OK") < MaxDocs
    [] OTHER           -> FALSE

\* Mutant: the limit is reached one document early.
KeptOneLess(f, d, purge) ==
  CASE f[d] = "OK"     -> Above(f, d, "OK") + 1 < MaxDocs
    [] f[d] = "Delete" -> ~purge
    [] OTHER           -> FALSE

\* Whether id d, in state f[d], is written to the merged list.  A full merge
\* (purge) drops deletes and stops at MaxDocs; a partial merge keeps MaxDocs
\* OK ids and every delete, but stops after MaxDeletes + 1 deletes.
Kept(f, d, purge) ==
  CASE f[d] = "OK"     -> /\ Above(f, d, "OK") < MaxDocs
                          /\ purge \/ Above(f, d, "Delete") <= MaxDeletes
    [] f[d] = "Delete" -> ~purge /\ Above(f, d, "Delete") <= MaxDeletes
    [] OTHER           -> FALSE

\* OptimizeDocListMerge: lists are ordered from oldest to newest.
Merged(lists, purge) ==
  LET f == [d \in DocID |-> NewestState(lists, d)]
  IN [d \in DocID |-> IF Kept(f, d, purge) THEN f[d] ELSE "None"]
=============================================================================
