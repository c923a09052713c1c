------------------------------ MODULE Documents ------------------------------
(***************************************************************************)
(* Documents, index fields and the pure transformations the writer applies *)
(* to them: tokenizing, merging with the stored document, and the two      *)
(* serialised forms (stored column, doc-value column).                     *)
(*                                                                         *)
(* A field keeps its flags, its value and its terms.  A value stands for   *)
(* a string or a number; NoValue is the default ("" or 0) that a field     *)
(* has when its value was never set.  A document is a function from field  *)
(* ids to fields, NoField where the document has no such field.            *)
(***************************************************************************)
CONSTANTS
  FieldID,    \* field ids (uint8_t)
  Value,      \* field values, NoValue among them
  Term,       \* terms of the inverted index
  NoValue,    \* the default value of a field
  NoField,    \* "the document has no such field"
  NoDoc,      \* "no document under this key"
  Segment,    \* tokenizer: value -> terms of a tokenized string
  Whole,      \* value -> the value encoded as a single term ({} when empty)
  Suffixes    \* term -> its suffix expansion (the term itself included)

Flag == {"tokenize", "store", "docvalue", "suffix", "invert", "notstoreterm"}

IndexField == [flag : SUBSET Flag, value : Value, terms : SUBSET Term]

Document == [FieldID -> IndexField \cup {NoField}]

ASSUME DocumentsAssumption ==
  /\ NoValue \in Value
  /\ NoField \notin IndexField
  /\ NoDoc \notin Document
  /\ Segment \in [Value -> SUBSET Term]
  /\ Whole \in [Value -> SUBSET Term]
  /\ Suffixes \in [Term -> SUBSET Term]

(***************************************************************************)
(* Tokenizer::Do on one field: only fields flagged InvertIndex get terms;  *)
(* a string flagged Tokenize is segmented, anything else is one term.      *)
(***************************************************************************)
BuildTerms(f) ==
  [f EXCEPT !.terms = @ \cup (IF "invert" \notin f.flag THEN {}
                              ELSE IF "tokenize" \in f.flag
                                   THEN Segment[f.value]
                                   ELSE Whole[f.value])]

RunTokenizer(doc) ==
  [i \in FieldID |-> IF doc[i] = NoField THEN NoField ELSE BuildTerms(doc[i])]

(***************************************************************************)
(* MergeOldField: fields only the old document has are copied into the new *)
(* one.  Overlay is that merge.                                            *)
(***************************************************************************)
Overlay(old, new) ==
  [i \in FieldID |-> IF new[i] = NoField THEN old[i] ELSE new[i]]

(***************************************************************************)
(* Stored column: EncodeToStoreField(flag 0) then DecodeFromStoreField.    *)
(* The value survives only in a field flagged StoredField, the terms only  *)
(* in one not flagged NotStoreInvertTerm.                                  *)
(***************************************************************************)
EncodeToStoreField(f) ==
  [flag  |-> f.flag,
   value |-> IF "store" \in f.flag THEN f.value ELSE NoValue,
   terms |-> IF "notstoreterm" \in f.flag THEN {} ELSE f.terms]

StoredForm(doc) ==
  IF doc = NoDoc THEN NoDoc
  ELSE [i \in FieldID |-> IF doc[i] = NoField THEN NoField
                          ELSE EncodeToStoreField(doc[i])]

(***************************************************************************)
(* Doc-value column: BuildDocValue keeps the fields flagged DocValue, and  *)
(* EncodeToStoreField(flag 1) keeps their value and drops their terms.  A  *)
(* document without such a field has no row.                               *)
(***************************************************************************)
IsDocValue(f) == f # NoField /\ "docvalue" \in f.flag

HasDocValue(doc) == doc # NoDoc /\ \E i \in FieldID : IsDocValue(doc[i])

BuildDocValue(doc) ==
  [i \in FieldID |-> IF IsDocValue(doc[i]) THEN [doc[i] EXCEPT !.terms = {}]
                     ELSE NoField]

DocValueForm(doc) == IF HasDocValue(doc) THEN BuildDocValue(doc) ELSE NoDoc

(***************************************************************************)
(* The keys of the inverted index a field contributes: its terms, or the   *)
(* suffixes of its terms when the field is flagged SuffixBuild ("suffix"   *)
(* stands for the flag on a string field).                                 *)
(***************************************************************************)
IndexKeys(f) ==
  IF "suffix" \in f.flag THEN UNION {Suffixes[t] : t \in f.terms} ELSE f.terms

Postings(d, doc) ==
  IF doc = NoDoc THEN {}
  ELSE {p \in {d} \X FieldID \X Term :
          doc[p[2]] # NoField /\ p[3] \in IndexKeys(doc[p[2]])}
=============================================================================
