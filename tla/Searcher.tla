------------------------------ MODULE Searcher ------------------------------
(***************************************************************************)
(* Searcher::DoQuery beside a writer.  Weights read the doc lists of the   *)
(* query's leaves one after the other: a boolean leaf reads the database   *)
(* as it is then, a prefix leaf the snapshot taken when the query began.   *)
(* The iterators built over the lists feed the collector, which reads doc  *)
(* values and stored fields at the snapshot.                               *)
(*                                                                         *)
(* A write replaces one document in all columns at once, which is what     *)
(* IndexWriter promises a locking caller.                                  *)
(***************************************************************************)
EXTENDS TopNCollector, DocIterators

CONSTANTS
  Terms,           \* terms, numbered in key order
  Contents,        \* what a write may store
  MaxDocListSize,  \* of a prefix query, in documents
  MaxWrites        \* bound: writes beside a query

VARIABLES
  db,        \* content of each document now
  writes,    \* writes so far
  touched,   \* history: documents written since the snapshot
  query,     \* the query tree; its leaves are numbered in the order they are read
  values,    \* doc lists read: leaf -> sequence of sets of ids
  context,   \* SearchContext::Status
  iter,      \* the root iterator
  status,    \* what DoQuery returns
  docs       \* and the documents

searchVars == <<touched, query, values, context, iter, status, docs>>
allVars == <<opts, view, source, pc, then, collectorVars, db, writes, searchVars>>

\* The doc list of a term; full merges leave no deletes in it.
Posting(store, t) == {d \in Docs : t \in store[d].terms}

-----------------------------------------------------------------------------
\* PrefixWeight::GetScorer: the keys from the prefix on, until the lists taken
\* reach the limit (asked first) or the prefix ends.
PrefixKeys(leaf) == Ascending({t \in Terms : t >= leaf.from /\ Posting(view, t) # {}})

SizeOf(keys, k) == LET sum[j \in 0..k] == IF j = 0 THEN 0 ELSE sum[j - 1] + Cardinality(Posting(view, keys[j]))
                   IN sum[k]

PrefixTaken(keys, leaf) ==
  {k \in DOMAIN keys : /\ keys[k] <= leaf.to
                       /\ SizeOf(keys, k - 1) < MaxDocListSize}

PrefixLimited(keys, leaf) ==
  LET n == Cardinality(PrefixTaken(keys, leaf))
  IN n < Len(keys) /\ SizeOf(keys, n) >= MaxDocListSize

RECURSIVE LeavesOf(_)
LeavesOf(q) == IF q.op \in {"bool", "prefix"} THEN {q} ELSE UNION {LeavesOf(q.subs[k]) : k \in DOMAIN q.subs}

Leaf(n) == CHOOSE leaf \in LeavesOf(query) : leaf.leaf = n

\* The iterators of the scorers, over lists as readers see them.
ReaderOf(ids, field) == ReaderOn(Each(LAMBDA d : <<d, "OK">>, Descending(ids)), field)

RECURSIVE IteratorOf(_, _)
IteratorOf(q, lists) ==
  CASE q.op = "bool"   -> ReaderOf(lists[q.leaf][1], q.field)
    [] q.op = "prefix" -> OrOf(Each(LAMBDA ids : ReaderOf(ids, q.field), lists[q.leaf]))
    [] q.op = "or"     -> OrOf(Each(LAMBDA sub : IteratorOf(sub, lists), q.subs))
    [] q.op = "and"    -> MergeOf(Each(LAMBDA sub : IteratorOf(sub, lists), q.subs))

\* What the query selects, given what each leaf selects.
RECURSIVE Selected(_, _)
Selected(q, lists) ==
  CASE q.op \in {"bool", "prefix"} -> UNION {lists[q.leaf][k] : k \in DOMAIN lists[q.leaf]}
    [] q.op = "or"  -> UNION {Selected(q.subs[k], lists) : k \in DOMAIN q.subs}
    [] q.op = "and" -> {d \in Docs : \A k \in DOMAIN q.subs : d \in Selected(q.subs[k], lists)}

-----------------------------------------------------------------------------
\* Mutant: the boolean leaf misses the greatest document.
BooleanDropsFirst(leaf) == <<Posting(db, leaf.term) \ {Max(Docs)}>>

\* BooleanWeight::GetScorer reads without the snapshot; a missing key is an
\* empty list.
BooleanValues(leaf) == <<Posting(db, leaf.term)>>

NewSnapshot ==
  /\ pc = "start"
  /\ view' = db
  /\ touched' = {}
  /\ pc' = "weigh"
  /\ UNCHANGED <<opts, source, then, collectorVars, db, writes, query, values, context, iter, status, docs>>

\* GetScorer of the next leaf; behind the last one the iterators are built.
GetScorer ==
  /\ pc = "weigh"
  /\ LET n    == Len(values) + 1
         leaf == Leaf(n)
         keys == PrefixKeys(leaf)
     IN /\ IF leaf.op = "bool"
           THEN /\ values' = Append(values, BooleanValues(leaf))
                /\ UNCHANGED context
           ELSE /\ values' = Append(values, [k \in 1..Cardinality(PrefixTaken(keys, leaf)) |-> Posting(view, keys[k])])
                /\ context' = IF PrefixLimited(keys, leaf) THEN "ReachMaxDocListSizeLimit" ELSE context
        /\ IF n < Cardinality(LeavesOf(query))
           THEN UNCHANGED <<iter, source, pc>>
           ELSE /\ iter' = Strict(LAMBDA lists : IteratorOf(query, lists), values')
                /\ source' = Strict(LAMBDA lists : Selected(query, lists), values')
                /\ pc' = "collect"
  /\ UNCHANGED <<opts, view, then, collectorVars, db, writes, touched, query, status, docs>>

\* A leaf whose list cannot be read has no scorer, nor has the query.
NoScorer ==
  /\ pc = "weigh"
  /\ opts.faults
  /\ Leaf(Len(values) + 1).op = "bool"
  /\ context' = "ReadError"
  /\ status' = "ReadError"
  /\ pc' = "done"
  /\ UNCHANGED <<opts, view, source, then, collectorVars, db, writes, touched, query, values, iter, docs>>

\* One round of the loop: Collect and NextDoc.
CollectNext ==
  /\ DocIDOf(iter) # NO_MORE_DOCS
  /\ \E field \in FieldIds(iter) : Collect(DocIDOf(iter), field)
  /\ iter' = NextDocOf(iter)
  /\ UNCHANGED <<db, writes, touched, query, values, context, status, docs>>

\* A collector's error leaves docs alone; the context's comes with them.
Return ==
  /\ pc = "return"
  /\ IF failed
     THEN /\ status' = "ReadError"
          /\ UNCHANGED docs
     ELSE /\ status' = context
          /\ docs' = MatchDocs
  /\ pc' = "done"
  /\ UNCHANGED <<opts, view, source, then, collectorVars, db, writes, touched, query, values, context, iter>>

\* A write beside the query.  Behind the last leaf only the snapshot is read, so
\* later writes change nothing the query sees.
Write ==
  /\ writes < MaxWrites
  /\ pc = "weigh"
  /\ \E d \in Docs, c \in Contents \cup {Absent} :
       /\ c # db[d]
       /\ db' = [db EXCEPT ![d] = c]
       /\ touched' = touched \cup {d}
  /\ writes' = writes + 1
  /\ UNCHANGED <<opts, view, source, pc, then, collectorVars, query, values, context, iter, status, docs>>

SearcherInit ==
  /\ CollectorInit
  /\ view = db
  /\ pc = "start"
  /\ then = "collect"
  /\ writes \in 0..MaxWrites
  /\ touched = {}
  /\ values = <<>>
  /\ context = "OK"
  /\ iter = OrOf(<<>>)
  /\ status = "OK"
  /\ docs = <<>>

SearcherStep ==
  \/ NewSnapshot \/ GetScorer \/ NoScorer \/ CollectNext \/ Return
  \/ (StopCollecting(DocIDOf(iter) = NO_MORE_DOCS) \/ CollectorStep) /\ UNCHANGED <<db, writes, searchVars>>

SearcherNext == SearcherStep \/ Write

-----------------------------------------------------------------------------
\* Unions and intersections, nested in any way, give each selected document once,
\* in descending order: what was collected and what is still to come, at every
\* step of the loop.
IteratorsComputeSets ==
  pc = "collect" => Each(LAMBDA s : s[1], seen) \o Walk(iter) = Descending(source)

\* What a leaf should select from a state of the database.
LeafAt(leaf, store) ==
  IF leaf.op = "bool" THEN Posting(store, leaf.term)
  ELSE UNION {Posting(store, t) : t \in leaf.from..leaf.to}

RECURSIVE SelectedAt(_, _)
SelectedAt(q, store) ==
  CASE q.op \in {"bool", "prefix"} -> LeafAt(q, store)
    [] q.op = "or"  -> UNION {SelectedAt(q.subs[k], store) : k \in DOMAIN q.subs}
    [] q.op = "and" -> {d \in Docs : \A k \in DOMAIN q.subs : d \in SelectedAt(q.subs[k], store)}

\* Boolean leaves are read one after the other and without the snapshot, so a
\* document written meanwhile may be selected though it never matched.  Every
\* other document is selected exactly when it matches the snapshot, unless the
\* query says that a prefix had more lists than it may read.
UntouchedExact ==
  pc \in {"collect", "return"} /\ context = "OK" =>
    source \ touched = SelectedAt(query, view) \ touched

\* The loop of DoQuery feeds the collector as CollectorSpec says: whatever the query, the
\* iterators give the selected documents in descending order, none twice.
FeedsCollector == CollectorSpec

\* DoQuery returns, whatever the writer does: the iterators always move on.
QueryEnds == <>(pc \in {"done", "crashed"})
=============================================================================
