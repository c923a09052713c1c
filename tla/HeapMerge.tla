------------------------------ MODULE HeapMerge ------------------------------
(***************************************************************************)
(* OptimizeDocListMerge: the doc lists of a merge are read through a heap  *)
(* with one cursor per list, ordered by document id and, for one id, by    *)
(* operand age.  Each step is one round of a loop.                         *)
(***************************************************************************)
EXTENDS DocLists

VARIABLES
  lists,    \* the doc lists as decoded, oldest first: entries <<id, state>>, ids descending
  purge,    \* full merge
  heap,     \* cursors [list, pos]; heap[1] is the top
  pc,       \* "decode", "build", "up", "emit", "skip", "down", "done"
  built,    \* cursors already in heap order
  sift,     \* pos in HeapShiftUp and HeapShiftDown
  last,     \* the id being skipped
  oks,      \* match_doc_count
  deletes,  \* match_delete_doc_count
  out       \* entries given to the writer of the merged value

vars == <<lists, purge, heap, pc, built, sift, last, oks, deletes, out>>

Entry == DocID \X {"OK", "Delete"}

\* Entries are added in descending order of ids: both writers demand it, the second by
\* an assertion.
InOrder(entries) == \A j, k \in DOMAIN entries : j < k => entries[j][1] > entries[k][1]

\* A cursor past its list reads id 0.
DOCID(item) ==
  IF item.pos > Len(lists[item.list]) THEN 0 ELSE lists[item.list][item.pos][1]

DocState(item) == lists[item.list][item.pos][2]

\* Mutant: of two cursors on one id the older operand comes first.
OlderItemGreater(a, b) ==
  DOCID(a) > DOCID(b) \/ (DOCID(a) = DOCID(b) /\ a.list < b.list)

HeapItemGreater(a, b) ==
  DOCID(a) > DOCID(b) \/ (DOCID(a) = DOCID(b) /\ a.list > b.list)

Swapped(h, i, j) == [h EXCEPT ![i] = h[j], ![j] = h[i]]

\* The greater child of pos, which has at least one.
GreaterChild(h, pos) ==
  LET left == 2 * pos
  IN IF left < Len(h) /\ ~HeapItemGreater(h[left], h[left + 1]) THEN left + 1 ELSE left

-----------------------------------------------------------------------------
Fresh ==
  /\ heap = <<>> /\ pc = "decode" /\ built = 0 /\ sift = 0 /\ last = 0
  /\ oks = 0 /\ deletes = 0 /\ out = <<>>

Init ==
  /\ lists \in Seq(Seq(Entry)) /\ lists # <<>> /\ \A i \in DOMAIN lists : InOrder(lists[i])
  /\ purge \in BOOLEAN
  /\ Fresh

\* Up to the merge proper: a cursor at the start of every list.
DoMerge ==
  /\ pc = "decode"
  /\ heap' = [i \in DOMAIN lists |-> [list |-> i, pos |-> 1]]
  /\ pc' = "build"
  /\ UNCHANGED <<lists, purge, built, sift, last, oks, deletes, out>>

\* The loop that builds the heap takes the next cursor.
Build ==
  /\ pc = "build"
  /\ IF built < Len(heap)
     THEN sift' = built + 1 /\ pc' = "up"
     ELSE pc' = "emit" /\ UNCHANGED sift
  /\ UNCHANGED <<lists, purge, heap, built, last, oks, deletes, out>>

\* One round of the loop: a cursor greater than its parent changes places with it.
HeapShiftUp ==
  /\ pc = "up"
  /\ IF sift # 1 /\ HeapItemGreater(heap[sift], heap[sift \div 2])
     THEN /\ heap' = Swapped(heap, sift, sift \div 2)
          /\ sift' = sift \div 2
          /\ UNCHANGED <<pc, built>>
     ELSE /\ pc' = "build"
          /\ built' = built + 1
          /\ UNCHANGED <<heap, sift>>
  /\ UNCHANGED <<lists, purge, last, oks, deletes, out>>

\* The top entry is written or dropped; then its id is skipped, unless a limit
\* ends the merge.
Emit ==
  LET top   == heap[1]
      isDel == DocState(top) = "Delete"
      add   == IF isDel THEN ~purge ELSE purge \/ oks < MaxDocs
      stop  == IF isDel THEN ~purge /\ deletes + 1 > MaxDeletes
               ELSE purge /\ oks + 1 >= MaxDocs
  IN /\ pc = "emit"
     /\ DOCID(top) # 0
     /\ out' = IF add THEN Append(out, <<DOCID(top), DocState(top)>>) ELSE out
     /\ oks' = IF add /\ ~isDel THEN oks + 1 ELSE oks
     /\ deletes' = IF add /\ isDel THEN deletes + 1 ELSE deletes
     /\ last' = DOCID(top)
     /\ pc' = IF stop THEN "done" ELSE "skip"
     /\ UNCHANGED <<lists, purge, heap, built, sift>>

\* Mutant: the cursor stays on the entry just written.
SkipWithoutAdvance ==
  /\ pc = "skip"
  /\ sift' = 1
  /\ pc' = "down"
  /\ UNCHANGED <<lists, purge, heap, built, last, oks, deletes, out>>

\* A round of the do-while that leaves every cursor behind the written id.
Skip ==
  /\ pc = "skip"
  /\ heap' = [heap EXCEPT ![1].pos = @ + 1]
  /\ sift' = 1
  /\ pc' = "down"
  /\ UNCHANGED <<lists, purge, built, last, oks, deletes, out>>

\* One round of the loop: a cursor less than its greater child changes places with
\* it; behind the loop, the condition of the do-while.
HeapShiftDown ==
  /\ pc = "down"
  /\ IF 2 * sift <= Len(heap) /\ HeapItemGreater(heap[GreaterChild(heap, sift)], heap[sift])
     THEN /\ heap' = Swapped(heap, sift, GreaterChild(heap, sift))
          /\ sift' = GreaterChild(heap, sift)
          /\ UNCHANGED pc
     ELSE /\ pc' = IF DOCID(heap[1]) = last THEN "skip" ELSE "emit"
          /\ UNCHANGED <<heap, sift>>
  /\ UNCHANGED <<lists, purge, built, last, oks, deletes, out>>

Finish ==
  /\ pc = "emit"
  /\ DOCID(heap[1]) = 0
  /\ pc' = "done"
  /\ UNCHANGED <<lists, purge, heap, built, sift, last, oks, deletes, out>>

Next == DoMerge \/ Build \/ HeapShiftUp \/ Emit \/ Skip \/ HeapShiftDown \/ Finish

\* The operator runs to its end on the compaction or read thread.
Spec == Init /\ [][Next]_vars /\ WF_vars(Next)

-----------------------------------------------------------------------------
AsDocList(s) ==
  [d \in DocID |-> IF \E k \in DOMAIN s : s[k][1] = d
                   THEN s[CHOOSE k \in DOMAIN s : s[k][1] = d][2] ELSE "None"]

\* The entries written are what Merged says of the operands, in strictly descending
\* order, which Advance's binary search and later merges rely on.
ComputesMerged ==
  pc = "done" =>
    /\ InOrder(out)
    /\ AsDocList(out) = Merged([i \in DOMAIN lists |-> AsDocList(lists[i])], purge)
=============================================================================
