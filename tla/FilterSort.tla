----------------------------- MODULE FilterSort -----------------------------
(***************************************************************************)
(* Filters and sort conditions on the doc values of a document.  A field   *)
(* has a type and a value; strings are sequences.                          *)
(***************************************************************************)
EXTENDS Integers, Sequences, FiniteSets

NoField == [type |-> "none", num |-> 0, str |-> <<>>]
Numeric(n) == [type |-> "num", num |-> n, str |-> <<>>]
String(s) == [type |-> "str", num |-> 0, str |-> s]

\* std::string::find.
Finds(s, part) == \E i \in 0..(Len(s) - Len(part)) : SubSeq(s, i + 1, i + Len(part)) = part

\* memcmp on the common length, then the longer string.
StringGreater(s, t) ==
  \/ \E i \in 1..Len(s) : /\ i <= Len(t) /\ s[i] > t[i]
                          /\ \A j \in 1..(i - 1) : s[j] = t[j]
  \/ Len(s) > Len(t) /\ \A i \in 1..Len(t) : s[i] = t[i]

-----------------------------------------------------------------------------
\* Each filter is a record with its kind, the field it is about and its own value.
\* A missing field or a field of another type matches none of them.
EqualFilter(f, field) == f.value = field
NotEqualFilter(f, field) == f.value.type = field.type /\ f.value # field
RangeFilter(f, field) == field.type = "num" /\ f.begin <= field.num /\ field.num <= f.end
InFilter(f, field) == field.type = "str" /\ Finds(field.str, f.value.str)
NotInFilter(f, field) == field.type = "str" /\ ~Finds(field.str, f.value.str)
InNumericListFilter(f, field) == field.type = "num" /\ field.num \in f.list
NotInNumericListFilter(f, field) == field.type = "num" /\ field.num \notin f.list

\* At least min of the strings, all of them where there are fewer; or not so many.
MatchStringListFilter(f, field) ==
  LET min == IF f.min > Cardinality(f.list) THEN Cardinality(f.list) ELSE f.min
      found == Cardinality({s \in f.list : Finds(field.str, s)}) >= min
  IN field.type = "str" /\ found = ~f.revert

Match(f, field) ==
  /\ field # NoField
  /\ CASE f.kind = "equal"       -> EqualFilter(f, field)
       [] f.kind = "notEqual"    -> NotEqualFilter(f, field)
       [] f.kind = "range"       -> RangeFilter(f, field)
       [] f.kind = "in"          -> InFilter(f, field)
       [] f.kind = "notIn"       -> NotInFilter(f, field)
       [] f.kind = "inList"      -> InNumericListFilter(f, field)
       [] f.kind = "notInList"   -> NotInNumericListFilter(f, field)
       [] f.kind = "matchString" -> MatchStringListFilter(f, field)

\* MatchFilter: how many of the rules match, against the number demanded.  The
\* constructor replaces 0, and a number above that of the rules, by all of them.
MinMatch(filters, min) == IF min = 0 \/ min > Len(filters) THEN Len(filters) ELSE min

MatchFilter(filters, min, fields) ==
  Cardinality({k \in DOMAIN filters : Match(filters[k], fields[filters[k].field])})
    >= MinMatch(filters, min)

-----------------------------------------------------------------------------
\* A document under a sort condition: its id and its field.  "Have field first,
\* document id big first"; the ascending form is the negation.
InnerGreater(c, d1, f1, d2, f2) ==
  CASE f1.type # c.type /\ f2.type # c.type -> d1 > d2
    [] f1.type # c.type /\ f2.type = c.type -> FALSE
    [] f1.type = c.type /\ f2.type # c.type -> TRUE
    [] OTHER -> IF c.type = "num" THEN f1.num > f2.num ELSE StringGreater(f1.str, f2.str)

\* Mutant: ascending is the comparison the other way round, not the negation.
GreaterStrict(c, d1, f1, d2, f2) ==
  IF c.desc THEN InnerGreater(c, d1, f1, d2, f2) ELSE InnerGreater(c, d2, f2, d1, f1)

Greater(c, d1, f1, d2, f2) == InnerGreater(c, d1, f1, d2, f2) = c.desc

\* Sorter::operator(): whether the first document comes before the second.  The
\* next condition is asked only where the comparison holds both ways.
Sorter(conds, d1, fields1, d2, fields2) ==
  LET c(k, a, fa, b, fb) == Greater(conds[k], a, fa[conds[k].field], b, fb[conds[k].field])
      decided == {k \in DOMAIN conds : ~(c(k, d1, fields1, d2, fields2) /\ c(k, d2, fields2, d1, fields1))}
  IN IF decided = {} THEN d1 > d2
     ELSE c(CHOOSE k \in decided : \A j \in decided : k <= j, d1, fields1, d2, fields2)

-----------------------------------------------------------------------------
(***************************************************************************)
(* What sort conditions mean, stated on the values and apart from the      *)
(* comparator above.                                                       *)
(***************************************************************************)
Lacks(c, f) == f.type # c.type

\* The first octet that differs decides, and a string is behind its prefixes.
StringLess(s, t) ==
  \E n \in 0..Len(s) : /\ n < Len(t) /\ \A i \in 1..n : s[i] = t[i]
                       /\ n = Len(s) \/ s[n + 1] < t[n + 1]

\* No value is below every value.
Below(c, f1, f2) ==
  /\ ~Lacks(c, f2)
  /\ ~Lacks(c, f1) => IF c.type = "num" THEN f1.num < f2.num ELSE StringLess(f1.str, f2.str)

PutsFirst(c, f1, f2) == IF c.desc THEN Below(c, f2, f1) ELSE Below(c, f1, f2)
Equal(c, f1, f2) == ~Below(c, f1, f2) /\ ~Below(c, f2, f1)

\* ORDER BY: the first condition in which two documents differ decides, and
\* documents equal in all of them come by descending id.
OrderBy(conds, d1, fields1, d2, fields2) ==
  LET v1(k) == fields1[conds[k].field]
      v2(k) == fields2[conds[k].field]
  IN \/ \E k \in DOMAIN conds : /\ PutsFirst(conds[k], v1(k), v2(k))
                                /\ \A j \in 1..(k - 1) : Equal(conds[j], v1(j), v2(j))
     \/ d1 > d2 /\ \A k \in DOMAIN conds : Equal(conds[k], v1(k), v2(k))

\* How much of it holds.  Behind a condition the next is asked only where it is
\* ascending and both documents have one value in its field.  Two documents
\* without a value come by id, the way the condition goes, and documents equal in a
\* descending condition come in any order.
AsksNext(c, f1, f2) == ~c.desc /\ ~Lacks(c, f1) /\ ~Lacks(c, f2) /\ Equal(c, f1, f2)

Decides(c, d1, f1, d2, f2) ==
  \/ PutsFirst(c, f1, f2)
  \/ Lacks(c, f1) /\ Lacks(c, f2) /\ IF c.desc THEN d1 > d2 ELSE d1 < d2

HonouredOrder(conds, d1, fields1, d2, fields2) ==
  LET v1(k) == fields1[conds[k].field]
      v2(k) == fields2[conds[k].field]
  IN \/ \E k \in DOMAIN conds : /\ Decides(conds[k], d1, v1(k), d2, v2(k))
                                /\ \A j \in 1..(k - 1) : AsksNext(conds[j], v1(j), v2(j))
     \/ d1 > d2 /\ \A k \in DOMAIN conds : AsksNext(conds[k], v1(k), v2(k))
=============================================================================
