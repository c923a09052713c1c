----------------------------- MODULE QueryTests -----------------------------
(***************************************************************************)
(* The queries of the repository's unit tests with the results the tests   *)
(* demand: the model must answer as the program is tested to.  Words are   *)
(* numbered in key order and strings abstracted to what the tests compare; *)
(* of the test's numeric fields the one in use is field 2.                 *)
(***************************************************************************)
EXTENDS Searcher

Bool(t, n) == [op |-> "bool", term |-> t, field |-> 1, leaf |-> n]
Prefix(t, field, n) == [op |-> "prefix", from |-> t, to |-> t, field |-> field, leaf |-> n]
And(subs) == [op |-> "and", subs |-> subs]
Or(subs) == [op |-> "or", subs |-> subs]

\* DoQuery(table, query, 0, 100, nullptr, nullptr, docs).
Plain ==
  [offset |-> 0, limit |-> 9, sorted |-> FALSE, conds |-> <<>>, filtered |-> FALSE, filters |-> <<>>,
   min |-> 0, scoring |-> FALSE, maxScore |-> 0, wantTotal |-> FALSE, faults |-> FALSE]

Sorted(o, conds) == [o EXCEPT !.sorted = TRUE, !.conds = conds]
Filtered(o, fs, min) == [o EXCEPT !.filtered = TRUE, !.filters = fs, !.min = min]

Fields(str, num) == [f \in FieldIDs |-> IF f = 1 THEN str ELSE IF f = 2 THEN num ELSE NoField]
Doc(terms, str, num) == [terms |-> terms, fields |-> Fields(str, num)]

\* A table of the documents given, numbered from 1.
Table(given) == [d \in Docs |-> IF d \in DOMAIN given THEN given[d] ELSE Absent]
WithTerms(sets) == Table([d \in DOMAIN sets |-> Doc(sets[d], NoField, NoField)])

\* What a test says of a query: how many documents it returns and, where it looks
\* at them, which; total where it asks for it.
Case(table, query0, options, size) ==
  [db |-> table, query |-> query0, opts |-> options, size |-> size, docs |-> <<>>, total |-> 0]

-----------------------------------------------------------------------------
\* helloa, girla, helloa; the third word is in no document.
Query_String ==
  LET table == WithTerms(<<{1}, {2}, {1}>>)
  IN {Case(table, Bool(1, 1), Plain, 2), Case(table, Bool(2, 1), Plain, 1), Case(table, Bool(3, 1), Plain, 0)}

\* A suffix of a word; the prefix of suffixes of two words.
Query_SuffixString == {Case(WithTerms(<<{1, 2, 3}>>), Bool(2, 1), Plain, 1)}
PrefixQuery == {Case(WithTerms(<<{1, 2}, {2, 3}>>), Prefix(2, 1, 1), Plain, 2)}

Query_Numeric ==
  LET table == WithTerms(<<{1}, {2}, {1}>>)
  IN {Case(table, Bool(1, 1), Plain, 2), Case(table, Bool(2, 1), Plain, 1), Case(table, Bool(3, 1), Plain, 0)}

Query_String_not_get_all ==
  LET table == WithTerms(<<{1}, {2}, {1}>>)
      one   == [Plain EXCEPT !.limit = 1]
  IN {Case(table, Bool(1, 1), Plain, 2), Case(table, Bool(1, 1), one, 1),
      [Case(table, Bool(1, 1), [one EXCEPT !.wantTotal = TRUE], 1) EXCEPT !.total = 2]}

\* helloc is 1, girlc 2, worldc 3, noexist3 4.
And_Query_String ==
  LET table == WithTerms(<<{1, 3}, {2, 3}, {1, 3}>>)
      pair(s, t) == And(<<Bool(s, 1), Bool(t, 2)>>)
  IN {Case(table, pair(1, 3), Plain, 2), Case(table, pair(2, 3), Plain, 1), Case(table, pair(2, 4), Plain, 0)}

Or_Query_String ==
  LET table == WithTerms(<<{1, 3}, {1, 2}, {1, 3}>>)
      pair(s, t) == Or(<<Bool(s, 1), Bool(t, 2)>>)
  IN {Case(table, pair(1, 3), Plain, 3), Case(table, pair(2, 3), Plain, 3), Case(table, pair(2, 4), Plain, 1)}

\* The keys (1, a), (2, b), (3, c) of the first document are 1, 2 and 3, and 4 is
\* a key of no document.
And_Query_Multi_String ==
  LET table == WithTerms(<<{1, 2, 3}>>)
  IN {Case(table, And(<<Bool(1, 1), Bool(4, 2)>>), Plain, 0), Case(table, And(<<Bool(1, 1), Bool(3, 2)>>), Plain, 1)}

\* The keys (1, a), (4, d), (8, h).
Or_Query_Multi_String ==
  LET table == WithTerms(<<{1}, {2}, {3}>>)
  IN {Case(table, Or(<<Bool(1, 1), Bool(1, 2)>>), Plain, 1), Case(table, Or(<<Bool(1, 1), Bool(2, 2)>>), Plain, 2),
      Case(table, Or(<<Bool(1, 1), Bool(4, 2)>>), Plain, 1), Case(table, Or(<<Bool(4, 1), Bool(4, 2)>>), Plain, 0),
      Case(table, Or(<<Bool(1, 1), Bool(2, 2), Bool(3, 3)>>), Plain, 3)}

\* The keyword's field is field 1 with the keys 3 and 4, the other document's
\* field 2 with the keys 1 and 2.
UsePostScorerForPrefixTextQuery ==
  LET table == Table(<<Doc({}, NoField, NoField), Doc({1, 2}, NoField, String(<<5>>)), Doc({3, 4}, String(Pattern), NoField)>>)
      first == And(<<Prefix(3, 1, 1), Prefix(4, 1, 2)>>)
      both  == Or(<<first, And(<<Prefix(1, 2, 3), Prefix(2, 2, 4)>>)>>)
      score(limit, max) == [Plain EXCEPT !.scoring = TRUE, !.limit = limit, !.maxScore = max]
  IN {Case(table, first, score(9, 20), 1), Case(table, both, score(2, 20), 2),
      Case(table, both, score(2, 2), 2), Case(table, both, score(1, 2), 1)}

-----------------------------------------------------------------------------
Filter(kind, field, value) == [kind |-> kind, field |-> field, value |-> value]
InRange(field, from, to) == [kind |-> "range", field |-> field, begin |-> from, end |-> to]
List(kind, field, list) == [kind |-> kind, field |-> field, list |-> list]

\* helloa is <<1, 2>>, ello <<2>>; the values base + 100, 101, 102 are 0, 1, 2.
Helloa == String(<<1, 2>>)
Other == String(<<3>>)

FilterTable ==
  Table(<<Doc({1}, Helloa, Numeric(0)), Doc({1}, Helloa, Numeric(1)), Doc({1}, Helloa, Numeric(2)),
          Doc({2}, Other, Numeric(2))>>)

FilterCase(t, filter, size) == Case(FilterTable, Bool(t, 1), Filtered(Plain, <<filter>>, 0), size)

FiltersByValue ==
  {FilterCase(1, Filter("equal", 2, Numeric(1)), 1), FilterCase(2, Filter("equal", 1, Other), 1),
   FilterCase(2, Filter("notEqual", 1, Other), 0), FilterCase(1, Filter("notEqual", 2, Numeric(1)), 2),
   FilterCase(1, InRange(2, 1, 2), 2), FilterCase(1, InRange(3, 1, 2), 0)}

FiltersByMember ==
  {FilterCase(1, Filter("in", 1, String(<<2>>)), 3), FilterCase(1, Filter("notIn", 1, String(<<2>>)), 0),
   FilterCase(1, Filter("notIn", 1, String(<<4>>)), 3),
   FilterCase(1, List("inList", 2, {1, 8, 9}), 1), FilterCase(1, List("notInList", 2, {1, 8, 9}), 2)}

NumDesc == [field |-> 2, type |-> "num", desc |-> TRUE]
NumAsc == [field |-> 2, type |-> "num", desc |-> FALSE]
StrDesc == [field |-> 1, type |-> "str", desc |-> TRUE]
StrAsc == [field |-> 1, type |-> "str", desc |-> FALSE]

SortFilters ==
  LET table == Table([d \in 1..3 |-> Doc({1}, NoField, Numeric(d))])
      case(options, list) == [Case(table, Bool(1, 1), options, 3) EXCEPT !.docs = list]
  IN {case(Sorted(Plain, <<NumDesc>>), <<3, 2, 1>>), case(Sorted(Plain, <<NumAsc>>), <<1, 2, 3>>)}

DefaultSort ==
  {[Case(Table([d \in 1..3 |-> Doc({1}, NoField, Numeric(d))]), Bool(1, 1), Plain, 3) EXCEPT !.docs = <<3, 2, 1>>]}

\* aacc, aa, cc.
StringSort ==
  LET table == Table(<<Doc({1}, String(<<1, 1, 3, 3>>), NoField), Doc({1}, String(<<1, 1>>), NoField),
                       Doc({1}, String(<<3, 3>>), NoField)>>)
  IN {[Case(table, Bool(1, 1), Sorted(Plain, <<StrAsc>>), 3) EXCEPT !.docs = <<2, 1, 3>>]}

QueryCases ==
  UNION {Query_String, Query_SuffixString, PrefixQuery, Query_Numeric, Query_String_not_get_all,
         And_Query_String, Or_Query_String, And_Query_Multi_String, Or_Query_Multi_String,
         UsePostScorerForPrefixTextQuery, FiltersByValue, FiltersByMember, SortFilters, DefaultSort, StringSort}

-----------------------------------------------------------------------------
\* Advance on the two lists of the codec tests: target and what it must find.
DocListReaderCodecImplTest1 ==
  [list    |-> <<<<10, "Delete">>, <<8, "OK">>, <<5, "OK">>, <<3, "OK">>>>,
   advance |-> {<<2, 0>>, <<13, 10>>, <<6, 5>>, <<4, 3>>, <<5, 5>>, <<8, 8>>, <<3, 3>>, <<10, 10>>}]

DocListReaderCodecImplTest2 ==
  [list    |-> <<<<18, "Delete">>, <<13, "OK">>, <<8, "OK">>, <<6, "OK">>, <<3, "OK">>>>,
   advance |-> {<<2, 0>>, <<23, 18>>, <<7, 6>>, <<9, 8>>, <<6, 6>>, <<8, 8>>, <<18, 18>>, <<3, 3>>}]

\* The model's reader does what those tests demand.
ReaderTestsPass ==
  \A t \in {DocListReaderCodecImplTest1, DocListReaderCodecImplTest2} :
    \A a \in t.advance :
      ReaderDocID(ReaderAdvance(NewReader(WriteDocList(FixType, t.list), 1), a[1])) = a[2]
=============================================================================
