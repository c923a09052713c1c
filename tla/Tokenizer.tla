----------------------------- MODULE Tokenizer ------------------------------
(***************************************************************************)
(* From the value of a string field to its keys in the inverted index: the *)
(* tokenizer cuts it into terms (TokenizerSpaceImpl at blanks,             *)
(* TokenizerMMSEG where its dictionary says so, in lower case), and        *)
(* DocumentWriter::WriteInvertedIndex expands each term into its suffixes  *)
(* with a UTF8SuffixBuilder.                                               *)
(***************************************************************************)
EXTENDS Utf8, FiniteSets

CONSTANTS
  Texts,               \* strings, as sequences of octets
  TokenLens,           \* bound: octets of a token of the MMSEG library
  SuffixLens,          \* IndexField::SuffixLen
  MaxSuffixTermSize    \* of IndexConfig

VARIABLES
  field,     \* the field: its tokenizer, flags and suffix length
  text,      \* its value
  cutTo,     \* octets the tokenizer is behind
  cut,       \* history: the tokens as they were cut
  terms,     \* IndexField::Terms
  todo,      \* terms that are not expanded yet
  builder,   \* the UTF8SuffixBuilder at work
  indexed,   \* keys of the inverted index
  stage

textVars == <<field, text, cutTo, cut, terms, todo, builder, indexed, stage>>

Blank == {32, 9, 13}
LineEnd == {13, 10}
NoBuilder == [term |-> <<>>, it |-> 1, error |-> FALSE, min |-> 0]

-----------------------------------------------------------------------------
\* TokenizerMMSEG::ToLowerCase: letters, up to the first octet that is no UTF-8.
ToLowerCase(s) ==
  LET reached[i \in 1..(Len(s) + 1)] == i = 1 \/ \E j \in 1..(i - 1) : reached[j] /\ next(s, j) = i
  IN [i \in DOMAIN s |-> IF reached[i] /\ next(s, i) = i + 1 /\ s[i] \in 65..90 THEN s[i] + 32 ELSE s[i]]

AddTerm(token, term, to) ==
  /\ cut' = cut \cup {token}
  /\ terms' = terms \cup {term}
  /\ cutTo' = to
  /\ UNCHANGED <<field, text, todo, builder, indexed, stage>>

Segmented ==
  /\ todo' = terms
  /\ stage' = "expand"
  /\ UNCHANGED <<field, text, cutTo, cut, terms, builder, indexed>>

\* One round of TokenizerSpaceImpl::BuildTerms: blanks are skipped, then a term is
\* taken up to the next one.
BuildTerms ==
  LET begin == {i \in (cutTo + 1)..Len(text) : text[i] \notin Blank}
      prev  == CHOOSE i \in begin : \A j \in begin : i <= j
      stop  == {i \in prev..Len(text) : text[i] \in Blank}
      curr  == IF stop = {} THEN Len(text) ELSE (CHOOSE i \in stop : \A j \in stop : i <= j) - 1
      term  == SubSeq(text, prev, curr)
  IN /\ stage = "segment" /\ field.tokenizer = "space" /\ field.tokenize
     /\ IF begin = {} THEN Segmented ELSE AddTerm(term, term, curr)

\* One round of TokenizerMMSEG::Do: a token the library gives; line ends are skipped,
\* and octet 0 ends the string.
PopToken ==
  LET ends == IF cutTo = Len(text) THEN TRUE ELSE text[cutTo + 1] = 0
  IN /\ stage = "segment" /\ field.tokenizer = "mmseg" /\ field.tokenize /\ ~field.outer
     /\ \/ ends /\ Segmented
        \/ ~ends /\ \E n \in TokenLens :
             LET token == SubSeq(text, cutTo + 1, cutTo + n)
             IN /\ cutTo + n <= Len(text)
                /\ IF token[1] \in LineEnd
                   THEN cutTo' = cutTo + n /\ UNCHANGED <<field, text, cut, terms, todo, builder, indexed, stage>>
                   ELSE AddTerm(token, ToLowerCase(token), cutTo + n)

\* The value as one term.
WholeTerm ==
  /\ stage = "segment" /\ ~field.tokenize /\ ~(field.tokenizer = "mmseg" /\ field.outer)
  /\ IF cutTo = Len(text) THEN Segmented
     ELSE AddTerm(text, IF field.tokenizer = "mmseg" THEN ToLowerCase(text) ELSE text, Len(text))

\* TokenizerMMSEG leaves a field alone whose terms came with it.
OuterTerms ==
  /\ stage = "segment" /\ field.tokenizer = "mmseg" /\ field.outer
  /\ Segmented

-----------------------------------------------------------------------------
SuffixLen == IF field.suffixLen # 0 THEN field.suffixLen ELSE 5

NewBuilder(term) ==
  [term |-> term, it |-> 1, error |-> FALSE, min |-> IF SuffixLen > Len(term) THEN Len(term) ELSE SuffixLen]

\* Mutant: the step of one octet that the source keeps behind its return.
NextOctet(b) ==
  LET it == b.it + 1
  IN [builder |-> [b EXCEPT !.it = it], more |-> it <= Len(b.term) /\ Len(b.term) - it + 1 >= b.min]

\* UTF8SuffixBuilder::Next: the builder after it, and what it answers.
SuffixNext(b) ==
  LET it == next(b.term, b.it)
  IN IF b.error THEN [builder |-> b, more |-> TRUE]
     ELSE IF it = Throws THEN [builder |-> [b EXCEPT !.error = TRUE], more |-> FALSE]
     ELSE [builder |-> [b EXCEPT !.it = it], more |-> it <= Len(b.term) /\ Len(b.term) - it + 1 >= b.min]

Suffix(b) == SubSeq(b.term, b.it, Len(b.term))

\* The next term: as it is, or the first round of its expansion.
StartTerm ==
  LET term == CHOOSE t \in todo : TRUE
  IN /\ stage = "expand" /\ builder = NoBuilder
     /\ IF todo = {}
        THEN stage' = "done" /\ UNCHANGED <<todo, indexed, builder>>
        ELSE /\ todo' = todo \ {term}
             /\ indexed' = indexed \cup {term}
             /\ builder' = IF field.suffix /\ Len(term) <= MaxSuffixTermSize THEN NewBuilder(term) ELSE NoBuilder
             /\ UNCHANGED stage
     /\ UNCHANGED <<field, text, cutTo, cut, terms>>

\* Another round of the expansion.
BuildSuffix ==
  LET r == SuffixNext(builder)
  IN /\ stage = "expand" /\ builder # NoBuilder
     /\ indexed' = IF r.more THEN indexed \cup {Suffix(r.builder)} ELSE indexed
     /\ builder' = IF r.more THEN r.builder ELSE NoBuilder
     /\ UNCHANGED <<field, text, cutTo, cut, terms, todo, stage>>

TextInit ==
  /\ field \in [tokenizer : {"space", "mmseg"}, tokenize : BOOLEAN, outer : BOOLEAN,
                suffix : BOOLEAN, suffixLen : SuffixLens]
  /\ text \in Texts
  /\ cutTo = 0 /\ cut = {}
  /\ terms = IF field.outer /\ text # <<>> THEN {text} ELSE {}
  /\ todo = {} /\ builder = NoBuilder /\ indexed = {}
  /\ stage = "segment"

TextNext == BuildTerms \/ PopToken \/ WholeTerm \/ OuterTerms \/ StartTerm \/ BuildSuffix

-----------------------------------------------------------------------------
(***************************************************************************)
(* The well-formed octet sequences of the Unicode standard.                *)
(***************************************************************************)
Trail == 128..191
WellFormed(c) ==
  \/ Len(c) = 1 /\ c[1] \in 0..127
  \/ Len(c) = 2 /\ c[1] \in 194..223 /\ c[2] \in Trail
  \/ /\ Len(c) = 3 /\ c[3] \in Trail
     /\ \/ c[1] = 224 /\ c[2] \in 160..191
        \/ c[1] \in 225..239 \ {237} /\ c[2] \in Trail
        \/ c[1] = 237 /\ c[2] \in 128..159
  \/ /\ Len(c) = 4 /\ c[3] \in Trail /\ c[4] \in Trail
     /\ \/ c[1] = 240 /\ c[2] \in 144..191
        \/ c[1] \in 241..243 /\ c[2] \in Trail
        \/ c[1] = 244 /\ c[2] \in 128..143

\* Whether the octets before i are whole characters.
Boundary(s, i) ==
  LET whole[k \in 1..i] == k = 1 \/ \E n \in 1..4 : n < k /\ whole[k - n] /\ WellFormed(SubSeq(s, k - n, k - 1))
  IN whole[i]

\* The longest runs without a blank.
Words ==
  {SubSeq(text, w[1], w[2]) : w \in
    {w \in (DOMAIN text) \X (DOMAIN text) :
       /\ w[1] <= w[2] /\ \A i \in w[1]..w[2] : text[i] \notin Blank
       /\ w[1] > 1 => text[w[1] - 1] \in Blank
       /\ w[2] < Len(text) => text[w[2] + 1] \in Blank}}

\* A string is indexed under its terms, or under every suffix of a term that begins
\* with a character and is long enough, up to the first octet that is no UTF-8, and
\* under nothing else: no key begins inside a character.  The terms are what blanks
\* separate, or the library's tokens in which only capital letters have changed.
TextIndexed ==
  LET given == IF field.outer /\ text # <<>> THEN {text} ELSE {}
  IN stage = "done" =>
    /\ indexed = UNION {{t} \cup (IF field.suffix /\ Len(t) <= MaxSuffixTermSize
                               THEN {SubSeq(t, i, Len(t)) : i \in
                                       {j \in 2..Len(t) : Boundary(t, j) /\ Len(t) - j + 1 >= SuffixLen}}
                               ELSE {}) : t \in terms}
    /\ field.tokenizer = "space" /\ field.tokenize => terms = Words \cup given
    /\ field.tokenizer = "mmseg" /\ ~field.outer =>
         terms = {[i \in DOMAIN s |-> IF s[i] \in 65..90 /\ Boundary(s, i) THEN s[i] + 32 ELSE s[i]] : s \in cut}
=============================================================================
