----------------------------- MODULE MCSearcher -----------------------------
(***************************************************************************)
(* Searcher on small databases.  Init picks one of four situations: every  *)
(* assignment of terms to documents under every query shape; a writer      *)
(* beside a query, with failing reads; every mix of field values under a   *)
(* set of filters, sort conditions and score strategies; and the queries   *)
(* of the unit tests.                                                      *)
(***************************************************************************)
EXTENDS QueryTests

VARIABLE expected   \* what the unit test demands, in the fourth situation

P == <<1>>
QP == <<2, 1>>

Unknown == [size |-> -1, docs |-> <<>>, total |-> 0]

MCContents == {Doc({1}, String(P), NoField), Doc({2, 3}, String(P), Numeric(1))}

Values == {<<String(P), NoField>>, <<String(P), Numeric(0)>>, <<String(QP), Numeric(1)>>, <<NoField, Numeric(0)>>,
           <<Numeric(1), Numeric(1)>>}

Prefix12 == [op |-> "prefix", from |-> 1, to |-> 2, field |-> 1, leaf |-> 1]

Queries ==
  {And(<<Bool(1, 1), Bool(2, 2)>>),
   Or(<<Bool(1, 1), Bool(2, 2)>>),
   And(<<Or(<<Bool(1, 1), Bool(2, 2)>>), Bool(3, 3)>>),
   Or(<<And(<<Bool(1, 1), Bool(2, 2)>>), Bool(3, 3)>>),
   And(<<And(<<Bool(1, 1), Bool(2, 2)>>), Or(<<Bool(2, 3), Bool(3, 4)>>)>>),
   And(<<Prefix12, Bool(3, 2)>>)}

FilterSets ==
  {<<Filter("equal", 2, Numeric(0))>>, <<Filter("notEqual", 1, String(P))>>,
   <<InRange(2, 1, 2), Filter("in", 1, String(P))>>,
   <<Filter("notIn", 1, String(QP)), List("inList", 2, {0}), List("notInList", 2, {1})>>,
   <<[kind |-> "matchString", field |-> 1, list |-> {P, QP}, min |-> 3, revert |-> FALSE]>>}

Counted == [Plain EXCEPT !.wantTotal = TRUE]
Slice(o, from, n) == [o EXCEPT !.offset = from, !.limit = n]

Options ==
  {Slice(Plain, 1, 1), Sorted(Slice(Plain, 1, 2), <<NumAsc>>)}
  \cup {Sorted(Slice(Counted, 1, 1), c) : c \in {<<NumDesc, StrAsc>>, <<NumAsc, StrDesc>>, <<StrDesc>>}}
  \cup {Filtered(Slice(Plain, 0, 1), f, 1) : f \in FilterSets}
  \cup {[Slice(Plain, 1, p[1]) EXCEPT !.scoring = TRUE, !.maxScore = p[2]] : p \in {<<1, 0>>, <<1, 3>>, <<2, 3>>}}

-----------------------------------------------------------------------------
Sets ==
  /\ db \in [Docs -> {Doc(t, NoField, NoField) : t \in SUBSET (1..3)}]
  /\ db[4].terms \in {{2}, {1, 3}}
  /\ query \in Queries
  /\ opts = Counted
  /\ SearcherInit
  /\ writes = MaxWrites

Race ==
  /\ db \in [Docs -> MCContents \cup {Absent}]
  /\ db[1] = db[4] /\ db[2] # db[3]
  /\ query \in {And(<<Bool(1, 1), Bool(2, 2)>>), And(<<Prefix12, Bool(3, 2)>>)}
  /\ opts \in {[o EXCEPT !.faults = TRUE] :
                  o \in {Counted, [Plain EXCEPT !.scoring = TRUE], Filtered(Plain, <<Filter("equal", 1, String(P))>>, 0)}}
  /\ SearcherInit
  /\ writes = 0

Collecting ==
  /\ \E v \in [Docs -> Values] : db = [d \in Docs |-> Doc({1}, v[d][1], v[d][2])]
  /\ query = Bool(1, 1)
  /\ opts \in Options
  /\ opts.scoring => \A d \in Docs : db[d].fields[1] # NoField
  /\ SearcherInit
  /\ writes = MaxWrites

Tests ==
  \E c \in QueryCases :
    /\ db = c.db /\ query = c.query /\ opts = c.opts
    /\ expected = [size |-> c.size, docs |-> c.docs, total |-> c.total]
    /\ SearcherInit
    /\ writes = MaxWrites

\* Two documents with one number and different strings.  Pushed in this order, equal
\* ones leave a std::priority_queue as <<3, 4>>.
Ties ==
  /\ \E n \in {0, 1} : db = [d \in Docs |-> CASE d = 4 -> Doc({1}, String(P), Numeric(n))
                                              [] d = 3 -> Doc({1}, String(QP), Numeric(n))
                                              [] OTHER -> Absent]
  /\ query = Bool(1, 1)
  /\ opts = Sorted(Slice(Plain, 0, 2), <<NumDesc, StrAsc>>)
  /\ SearcherInit
  /\ writes = MaxWrites
  /\ expected = Unknown

MCInit == Tests \/ ((Sets \/ Race \/ Collecting) /\ expected = Unknown)

MCNext == SearcherNext /\ UNCHANGED expected

TiesSpec == Ties /\ [][MCNext]_<<allVars, expected>>

MCSpec == MCInit /\ [][MCNext]_<<allVars, expected>> /\ WF_allVars(SearcherStep)

-----------------------------------------------------------------------------
\* Every query of the unit tests returns what the test demands, and so does the
\* reader the tests of the codec move.
TestsPass ==
  pc = "done" /\ expected # Unknown =>
    /\ status = "OK"
    /\ Len(docs) = expected.size
    /\ expected.docs # <<>> => docs = expected.docs
    /\ expected.total # 0 => total = expected.total
    /\ ReaderTestsPass
=============================================================================
