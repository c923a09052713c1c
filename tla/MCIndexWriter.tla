---------------------------- MODULE MCIndexWriter ----------------------------
(***************************************************************************)
(* Instances of IndexWriter for TLC: two fields, two proper values, two    *)
(* terms.  Suffix expansion of t2 yields t1, so that two terms of one      *)
(* field can share an index key.                                           *)
(***************************************************************************)
EXTENDS IndexWriter, TLC

CONSTANTS f1, f2, v0, v1, v2, t1, t2

MCFields == {f1, f2}
MCValues == {v0, v1, v2}
MCTerms  == {t1, t2}

MCSegment  == (v0 :> {}) @@ (v1 :> {t1}) @@ (v2 :> {t1, t2})
MCWhole    == (v0 :> {}) @@ (v1 :> {t1}) @@ (v2 :> {t2})
MCSuffixes == (t1 :> {t1}) @@ (t2 :> {t1, t2})

Field(flags, v) == [flag |-> flags, value |-> v, terms |-> {}]
Doc(a, b) == (f1 :> a) @@ (f2 :> b)

\* f1: a tokenized text field; f2: a stored doc-value field with suffixes.
Text(v) == Field({"tokenize", "store", "invert"}, v)
Attr(v) == Field({"docvalue", "store", "invert", "suffix"}, v)

CleanInputs == {Doc(Text(v1), NoField), Doc(Text(v2), Attr(v1)), Doc(NoField, Attr(v2))}

\* f1 may also be written without stored terms; f2 may be a doc value only.
Opaque(v) == Field({"tokenize", "invert", "notstoreterm"}, v)
Sortkey(v) == Field({"docvalue"}, v)

RawInputs == {Doc(Text(v2), NoField), Doc(Opaque(v1), NoField), Doc(NoField, Attr(v2))}

SortkeyInputs == {Doc(Text(v1), Sortkey(v2)), Doc(Text(v2), NoField)}

TextInputs == {Doc(Text(v1), NoField), Doc(Text(v2), NoField)}

CONSTANT d1   \* the document raw postings are ingested for

OneIngest == {{<<d1, f2, t1>>}}

\* The writers' calls on documents, and nothing beside them: no table is dropped.
UpdatesNext ==
  \E w \in Writer :
    \/ \E mode \in Modes, ds \in Batches : \E docs \in [ds -> Inputs] : Load(w, mode, docs, FALSE, {})
    \/ Write(w)
    \/ Return(w)

UpdatesSpec == Init /\ [][UpdatesNext]_vars
=============================================================================
