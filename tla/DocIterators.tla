---------------------------- MODULE DocIterators ----------------------------
(***************************************************************************)
(* The iterators a query is evaluated with: readers over doc lists, and    *)
(* unions (OrIterator) and intersections (MergeIterator) of iterators.     *)
(* All move towards smaller ids.  The heap of an OrIterator only serves to *)
(* find the greatest DocID of its members, so it is a sequence here; which *)
(* of two members on one id is in front is left open (FieldIds).           *)
(***************************************************************************)
EXTENDS DocListCodec

ReaderOn(docs, field) == [type |-> "reader", docs |-> docs, pos |-> 0, field |-> field]

RECURSIVE DocIDOf(_)
DocIDOf(it) ==
  CASE it.type = "reader" -> ReaderDocID(it)
    [] it.type = "merge"  -> it.curr
    [] it.type = "or"     -> Max({DocIDOf(it.subs[k]) : k \in DOMAIN it.subs} \cup {NO_MORE_DOCS})

\* What FieldId may answer.
RECURSIVE FieldIds(_)
FieldIds(it) ==
  CASE it.type = "reader" -> {it.field}
    [] it.type = "merge"  -> FieldIds(it.subs[1])
    [] it.type = "or"     -> UNION {FieldIds(it.subs[k]) :
                               k \in {j \in DOMAIN it.subs : DocIDOf(it.subs[j]) = DocIDOf(it)}}

-----------------------------------------------------------------------------
\* op of the value of e, evaluated once; and op of every member of a sequence.
Strict(op(_), e) == CHOOSE r \in {op(x) : x \in {e}} : TRUE
Each(op(_), s) == Strict(LAMBDA t : SubSeq([k \in DOMAIN t |-> op(t[k])], 1, Len(t)), s)

RECURSIVE NextDocOf(_), AdvanceOf(_, _), Lower(_, _, _), Agree(_)

\* The loop of OrIterator::InnderNextDoc for one member: it moves while it is
\* above target.
Lower(member, useAdvance, target) ==
  Strict(LAMBDA it : IF DocIDOf(it) # NO_MORE_DOCS /\ DocIDOf(it) > target
                     THEN Lower(IF useAdvance THEN AdvanceOf(it, target) ELSE NextDocOf(it), useAdvance, target)
                     ELSE it,
         member)

OrTo(it, useAdvance, target) ==
  [type |-> "or", subs |-> Each(LAMBDA sub : Lower(sub, useAdvance, target), it.subs)]

SmallestID(subs) ==
  IF subs = <<>> THEN NO_MORE_DOCS ELSE Min({DocIDOf(subs[k]) : k \in DOMAIN subs})

AdvancedTo(subs, min) == Each(LAMBDA sub : IF DocIDOf(sub) > min THEN AdvanceOf(sub, min) ELSE sub, subs)

\* Mutant: the members are advanced once and not compared again.
AgreeOnce(members) ==
  Strict(LAMBDA subs : [type |-> "merge", curr |-> SmallestID(subs), subs |-> AdvancedTo(subs, SmallestID(subs))],
         members)

\* The loop of MergeIterator::InnderNextDoc: members above the smallest id are
\* advanced to it, until all are on one id.
Agree(members) ==
  Strict(LAMBDA subs : IF \A k \in DOMAIN subs : DocIDOf(subs[k]) = SmallestID(subs)
                       THEN [type |-> "merge", curr |-> SmallestID(subs), subs |-> subs]
                       ELSE Agree(AdvancedTo(subs, SmallestID(subs))),
         members)

NextDocOf(it) ==
  CASE it.type = "reader" -> ReaderNextDoc(it)
    [] it.type = "merge"  -> Agree(Each(NextDocOf, it.subs))
    [] it.type = "or"     -> IF DocIDOf(it) = NO_MORE_DOCS THEN it ELSE OrTo(it, FALSE, DocIDOf(it) - 1)

AdvanceOf(it, target) ==
  CASE it.type = "reader" -> ReaderAdvance(it, target)
    [] it.type = "merge"  -> Agree(Each(LAMBDA sub : AdvanceOf(sub, target), it.subs))
    [] it.type = "or"     -> OrTo(it, TRUE, target)

-----------------------------------------------------------------------------
\* FinishAddIterator of both.
OrOf(subs) == [type |-> "or", subs |-> subs]
MergeOf(subs) == AdvanceOf([type |-> "merge", subs |-> subs, curr |-> NO_MORE_DOCS], MAX_DOCID)

\* The ids an iterator gives from where it is to its end.
RECURSIVE Walk(_)
Walk(from) ==
  Strict(LAMBDA it : IF DocIDOf(it) = NO_MORE_DOCS THEN <<>> ELSE <<DocIDOf(it)>> \o Walk(NextDocOf(it)), from)
=============================================================================
