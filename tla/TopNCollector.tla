---------------------------- MODULE TopNCollector ----------------------------
(***************************************************************************)
(* TopNCollector: documents a query matches are buffered, and a full       *)
(* buffer is purged: doc values are read at the searcher's snapshot, the   *)
(* filters applied, and the hits put into a priority queue of the          *)
(* offset + limit best ones, or scored into a queue of their own.          *)
(* A priority queue is the sequence of its members, the best first; equal  *)
(* members may be in any order.                                            *)
(*                                                                         *)
(* CollectorSpec is the collector under any iterator that gives the        *)
(* documents of a set once, in descending order.                           *)
(***************************************************************************)
EXTENDS Coding, FilterSort

CONSTANTS
  Docs,        \* document ids
  FieldIDs,
  BatchLimit,  \* GetMaxInnerPurgeBatchDocsCount
  TotalLimit,  \* GetMaxInnerPurgeDocsTotalLimit
  Pattern,     \* what the score strategy looks for
  TermsSize,   \* the number of its terms
  TargetField  \* and the field it looks in

ASSUME CollectorAssumption ==
  /\ Docs \subseteq Nat /\ IsFiniteSet(Docs)
  /\ BatchLimit \in Nat /\ TotalLimit \in Nat /\ TermsSize \in Nat

VARIABLES
  opts,       \* the arguments of DoQuery: offset, limit, filters, sort conditions ...
  view,       \* the snapshot: the content of each document, or Absent
  source,     \* history: the documents that the query selects
  seen,       \* history: those given to the collector, <<id, match field>>
  pc,
  then,       \* where InnerPurge returns to
  buffer,     \* buffer_docs_: <<id, match field>>
  hits,       \* hit_documents
  topN,       \* topN_docs_: ids
  scored,     \* score_priority_queue_: <<id, score>>
  collected,  \* inner_purge_total_docs_count_
  scoredDocs, \* score_doc_count_
  offset,     \* offset_
  total,      \* *get_match_total_cnt_
  failed      \* status_ is an error

collectorVars == <<seen, buffer, hits, topN, scored, collected, scoredDocs, offset, total, failed>>

Absent == [terms |-> {}, fields |-> [f \in FieldIDs |-> NoField]]

top_n == opts.offset + opts.limit
max_score_doc_num == IF top_n > opts.maxScore THEN top_n ELSE opts.maxScore

CollectorInit ==
  /\ source = {} /\ seen = <<>>
  /\ buffer = <<>> /\ hits = <<>> /\ topN = <<>> /\ scored = <<>>
  /\ collected = 0 /\ scoredDocs = 0
  /\ offset = opts.offset /\ total = 0 /\ failed = FALSE

\* Whether d comes before e; with no sorter, by descending id.
Before(d, e) == Sorter(opts.conds, d, view[d].fields, e, view[e].fields)

\* Whether a is above b in the queue of scored documents, <<id, score>>; of equal
\* ones either may be.
PostScorer(a, b) == a[2] > b[2]

\* q with x put behind everything better than it and before everything worse.
Inserted(q, x, better(_, _)) ==
  {SubSeq(q, 1, k) \o <<x>> \o SubSeq(q, k + 1, Len(q)) : k \in
    {j \in 0..Len(q) : /\ \A i \in 1..j : ~better(x, q[i])
                       /\ \A i \in (j + 1)..Len(q) : ~better(q[i], x)}}

\* No sorter, and the best are found: the rest of the list need not be read.
Enough ==
  \/ failed
  \/ ~opts.sorted /\ Len(topN) >= top_n /\ ~opts.wantTotal

\* Collect for one document: it is buffered, unless too many were before.
Collect(id, field) ==
  /\ pc = "collect"
  /\ ~Enough
  /\ IF collected > TotalLimit
     THEN /\ pc' = IF buffer # <<>> THEN "purge" ELSE pc
          /\ UNCHANGED <<buffer, collected>>
     ELSE /\ buffer' = Append(buffer, <<id, field>>)
          /\ collected' = collected + 1
          /\ pc' = IF Len(buffer') >= BatchLimit THEN "purge" ELSE pc
  /\ seen' = Append(seen, <<id, field>>)
  /\ then' = "collect"
  /\ UNCHANGED <<opts, view, source, hits, topN, scored, scoredDocs, offset, total, failed>>

\* Mutant: the end of the list does not end the loop.
StopWhenEnough(exhausted) ==
  /\ pc = "collect"
  /\ Enough
  /\ pc' = "purge"
  /\ then' = "finish"
  /\ UNCHANGED <<opts, view, source, collectorVars>>

\* The loop ends; Finish purges the rest of the buffer.
StopCollecting(exhausted) ==
  /\ pc = "collect"
  /\ exhausted \/ Enough
  /\ pc' = "purge"
  /\ then' = "finish"
  /\ UNCHANGED <<opts, view, source, collectorVars>>

-----------------------------------------------------------------------------
\* InnerPurge with no sorter, filter or score: the first top_n, unread.
PurgeUnread ==
  /\ pc = "purge"
  /\ ~opts.sorted /\ ~opts.filtered /\ ~opts.scoring
  /\ LET room == top_n - Len(topN)
         new  == {buffer[k][1] : k \in {j \in DOMAIN buffer : j <= room}}
     IN topN' = Descending({topN[k] : k \in DOMAIN topN} \cup new)
  /\ total' = total + Len(buffer)
  /\ buffer' = <<>>
  /\ pc' = then
  /\ UNCHANGED <<opts, view, source, seen, then, hits, scored, collected, scoredDocs, offset, failed>>

\* The members of a sequence in the places given, in their order.
Picked(s, places) == [k \in 1..Cardinality(places) |-> s[Ascending(places)[k]]]

Passes(d) == opts.filtered => MatchFilter(opts.filters, opts.min, view[d].fields)

\* Mutant: the scores before offset stay in the queue they are skipped from.
HandleScoresUnskipped ==
  LET kept == {scored[k][1] : k \in {j \in DOMAIN scored : j <= opts.limit}}
  IN /\ \E s \in [1..Cardinality(kept) -> kept] :
          /\ \A i, j \in DOMAIN s : i < j => s[i] # s[j] /\ ~Before(s[j], s[i])
          /\ topN' = topN \o s
     /\ offset' = 0
     /\ scored' = <<>>

\* HandleScorePriorityQueue: the best scores after offset fill the queue.
HandleScorePriorityQueue ==
  LET skip == IF offset < Len(scored) THEN offset ELSE Len(scored)
      room == opts.limit
      kept == {scored[k][1] : k \in {j \in DOMAIN scored : j > skip /\ j <= skip + room}}
  IN /\ \E s \in [1..Cardinality(kept) -> kept] :
          /\ \A i, j \in DOMAIN s : i < j => s[i] # s[j] /\ ~Before(s[j], s[i])
          /\ topN' = topN \o s
     /\ offset' = offset - skip
     /\ scored' = <<>>

\* InnerPurge: doc values are read at the snapshot.  A document whose read fails
\* ends the query; those before it are still used.
PurgeRead ==
  /\ pc = "purge"
  /\ opts.sorted \/ opts.filtered \/ opts.scoring
  /\ \E bad \in {Len(buffer) + 1} \cup (IF opts.faults THEN DOMAIN buffer ELSE {}) :
       /\ hits' = Picked(buffer, {k \in 1..(bad - 1) : Passes(buffer[k][1])})
       /\ failed' = (failed \/ bad <= Len(buffer))
  /\ total' = total + Len(hits')
  /\ buffer' = <<>>
  /\ IF opts.scoring /\ hits' # <<>>
     THEN IF scoredDocs < max_score_doc_num
          THEN /\ scoredDocs' = scoredDocs + Len(hits')
               /\ pc' = "score"
               /\ UNCHANGED <<topN, scored, offset>>
          ELSE /\ HandleScorePriorityQueue
               /\ pc' = "drop"
               /\ UNCHANGED scoredDocs
     ELSE /\ pc' = "push"
          /\ UNCHANGED <<topN, scored, offset, scoredDocs>>
  /\ UNCHANGED <<opts, view, source, seen, then, collected>>

\* One hit is pushed; the worst is popped from a queue of more than top_n.
PushHit ==
  /\ pc = "push"
  /\ hits # <<>>
  /\ \E q \in Inserted(topN, hits[1][1], Before) :
       topN' = SubSeq(q, 1, IF Len(q) > top_n THEN top_n ELSE Len(q))
  /\ hits' = Tail(hits)
  /\ UNCHANGED <<opts, view, source, seen, pc, then, buffer, scored, collected, scoredDocs, offset, total, failed>>

\* StringScoreStrategy::Score, in units that make its quotients whole numbers: one
\* weight for a value with the pattern in it, and the more for fewer terms.  A
\* string is a sequence of words here, which are its terms.
Weight == 12

Score(d, field) ==
  LET f     == view[d].fields[field]
      terms == {f.str[i] : i \in DOMAIN f.str}
  IN IF field = TargetField /\ f.type = "str"
     THEN (IF Finds(f.str, Pattern) THEN Weight ELSE 0)
          + (IF terms # {} THEN (Weight * TermsSize) \div Cardinality(terms) ELSE 0)
     ELSE 0

\* The strategy follows the pointer to a field the document does not have.
ScoreCrashes(d, field) == field = TargetField /\ view[d].fields[field] = NoField

\* One hit is scored on its stored fields; where they cannot be read it is left
\* out without a word.
ScoreHit ==
  /\ pc = "score"
  /\ hits # <<>>
  /\ LET d == hits[1][1]
         f == hits[1][2]
     IN IF ScoreCrashes(d, f)
        THEN pc' = "crashed" /\ UNCHANGED <<hits, scored>>
        ELSE /\ \/ scored' \in Inserted(scored, <<d, Score(d, f)>>, PostScorer)
                \/ opts.faults /\ UNCHANGED scored
             /\ hits' = Tail(hits)
             /\ UNCHANGED pc
  /\ UNCHANGED <<opts, view, source, seen, then, buffer, topN, collected, scoredDocs, offset, total, failed>>

\* The end of InnerPurge; hits beyond max_score_doc_num are dropped.
PurgeEnds ==
  /\ \/ pc \in {"push", "score"} /\ hits = <<>>
     \/ pc = "drop"
  /\ hits' = <<>>
  /\ pc' = then
  /\ UNCHANGED <<opts, view, source, seen, then, buffer, topN, scored, collected, scoredDocs, offset, total, failed>>

\* Finish, behind its InnerPurge.
FinishScores ==
  /\ pc = "finish"
  /\ IF opts.scoring /\ scored # <<>> THEN HandleScorePriorityQueue ELSE UNCHANGED <<topN, scored, offset>>
  /\ pc' = "return"
  /\ UNCHANGED <<opts, view, source, seen, then, buffer, hits, collected, scoredDocs, total, failed>>

\* GetAndClearMatchDocs: the queue in order, without the first offset documents.
MatchDocs == SubSeq(topN, offset + 1, Len(topN))

CollectorStep == PurgeUnread \/ PurgeRead \/ PushHit \/ ScoreHit \/ PurgeEnds \/ FinishScores

-----------------------------------------------------------------------------
(***************************************************************************)
(* The collector on its own.                                               *)
(***************************************************************************)
Field == [type : {"none", "num", "str"}, num : Nat, str : Seq(Nat)]
Condition == [field : FieldIDs, type : {"num", "str"}, desc : BOOLEAN]

\* The arguments of DoQuery that the collector works with.
OptsOK ==
  /\ opts.offset \in Nat /\ opts.limit \in Nat /\ opts.maxScore \in Nat
  /\ opts.sorted \in BOOLEAN /\ opts.filtered \in BOOLEAN /\ opts.scoring \in BOOLEAN
  /\ opts.wantTotal \in BOOLEAN /\ opts.faults \in BOOLEAN
  /\ opts.conds \in Seq(Condition) /\ (~opts.sorted => opts.conds = <<>>)

\* Before the loop: the snapshot is taken and the lists are read, or cannot be.
Prepare ==
  /\ pc \in {"start", "weigh"}
  /\ pc' \in {"weigh", "collect", "done"}
  /\ DOMAIN view' = Docs /\ \A d \in Docs : view'[d].fields \in [FieldIDs -> Field]
  /\ source' \in SUBSET Docs
  /\ UNCHANGED <<opts, then, collectorVars>>

\* The next document, and in which field it was found.
CollectNextOf ==
  /\ Len(seen) < Cardinality(source)
  /\ \E field \in FieldIDs : Collect(Descending(source)[Len(seen) + 1], field)

HandOver ==
  /\ pc = "return"
  /\ pc' = "done"
  /\ UNCHANGED <<opts, view, source, then, collectorVars>>

CollectorNext ==
  \/ Prepare \/ CollectNextOf \/ StopCollecting(Len(seen) = Cardinality(source)) \/ CollectorStep \/ HandOver

CollectorSpec ==
  /\ OptsOK /\ CollectorInit /\ pc = "start" /\ then = "collect"
  /\ [][CollectorNext]_<<opts, view, source, pc, then, collectorVars>>

-----------------------------------------------------------------------------
\* The collector takes one document more than its limit.
Examined == {d \in source : Cardinality({e \in source : e > d}) <= TotalLimit}

Precedes(d, e) == HonouredOrder(opts.conds, d, view[d].fields, e, view[e].fields)

\* The documents the collector hands over are the slice [offset, offset + limit) of
\* the selected documents that pass the filters, in the order of the sort conditions
\* as far as Sorter honours them: documents that tie in a descending condition
\* (sorter.h:151-160) come in any order.  Below the limit on documents examined, the
\* number of matches is exact.
TopNCorrect ==
  pc = "return" /\ ~failed /\ ~opts.scoring =>
    LET docs  == MatchDocs
        match == {d \in Examined : Passes(d)}
        rest  == Cardinality(match) - opts.offset
    IN /\ Len(docs) = IF rest < 0 THEN 0 ELSE IF rest < opts.limit THEN rest ELSE opts.limit
       /\ \A k \in DOMAIN docs :
            /\ docs[k] \in match
            /\ Cardinality({d \in match : Precedes(d, docs[k])}) < opts.offset + k
            /\ Cardinality({d \in match : ~Precedes(docs[k], d)}) >= opts.offset + k
            /\ \A j \in 1..(k - 1) : docs[j] # docs[k] /\ ~Precedes(docs[k], docs[j])
       /\ opts.wantTotal => total = Cardinality(match)

\* What "similar to order by" promises (README.md:12): of two documents handed over,
\* the one that ORDER BY on the sort conditions puts first comes first.
OrderByCorrect ==
  pc = "return" /\ ~failed /\ ~opts.scoring =>
    LET docs == MatchDocs
    IN \A j, k \in DOMAIN docs :
         j < k => OrderBy(opts.conds, docs[j], view[docs[j]].fields, docs[k], view[docs[k]].fields)

\* The field in which a document was found.
MatchField(d) == LET k == CHOOSE i \in DOMAIN seen : seen[i][1] = d IN seen[k][2]

\* With score strategies, and while max_score_doc_num is not exceeded, the documents
\* handed over have the scores in places offset to offset + limit of the selected
\* documents that pass the filters, and come in the order of the sort conditions, as far
\* as Sorter honours them.
ScoredCorrect ==
  pc = "return" /\ ~failed /\ opts.scoring /\ ~opts.faults =>
    LET docs     == MatchDocs
        match    == {d \in Examined : Passes(d)}
        rest     == Cardinality(match) - opts.offset
        score(d) == Score(d, MatchField(d))
    IN Cardinality(match) <= max_score_doc_num =>
         /\ Len(docs) = IF rest < 0 THEN 0 ELSE IF rest < opts.limit THEN rest ELSE opts.limit
         /\ \A k \in DOMAIN docs :
              /\ docs[k] \in match
              /\ Cardinality({d \in match : score(d) > score(docs[k])}) < opts.offset + opts.limit
              /\ Cardinality({d \in match : score(d) >= score(docs[k])}) > opts.offset
              /\ \A j \in 1..(k - 1) : docs[j] # docs[k] /\ ~Precedes(docs[k], docs[j])
=============================================================================
