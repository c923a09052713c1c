---------------------------- MODULE DocListCodec ----------------------------
(***************************************************************************)
(* The two forms of a doc list in the inverted-index column, fixed-size    *)
(* entries and delta-compressed varints, the decoder that turns the second *)
(* into the first, and DocListReaderCodecImpl, the cursor over the result. *)
(* A value is its one-byte header (version, flag) and its body.            *)
(***************************************************************************)
EXTENDS Coding

NO_MORE_DOCS == 0
MAX_DOCID == UINT_MAX

FixType == 0
VarLenBlockType == 1
CompressionType == {FixType, VarLenBlockType}

StateByte(state) == IF state = "Delete" THEN 1 ELSE 0
StateOf(byte) == IF byte = 1 THEN "Delete" ELSE "OK"

-----------------------------------------------------------------------------
FixBody(entries) ==
  FlattenSeq([k \in DOMAIN entries |-> Append(HostFixed64(entries[k][1]), StateByte(entries[k][2]))])

\* Differences between the members of a sequence, the first taken as it is.
DelPositions(entries) == SelectSeq([k \in DOMAIN entries |-> k], LAMBDA k : entries[k][2] = "Delete")

\* Mutant: the positions themselves are written.
DelBufferAbsolute(entries) ==
  LET at == DelPositions(entries)
  IN EncodeVarint32(Len(at)) \o FlattenSeq([k \in DOMAIN at |-> EncodeVarint32(at[k] - 1)])

DelBuffer(entries) ==
  LET at == DelPositions(entries)
      gap(k) == (at[k] - 1) - IF k = 1 THEN 0 ELSE at[k - 1] - 1
  IN EncodeVarint32(Len(at)) \o FlattenSeq([k \in DOMAIN at |-> EncodeVarint32(gap(k))])

DeltaBuffer(entries) ==
  FlattenSeq([k \in DOMAIN entries |->
    EncodeVarint64(IF k = 1 THEN entries[k][1] ELSE entries[k - 1][1] - entries[k][1])])

\* SerializeToBytes of the writer that NewOrderDocListWriterCodec makes.
WriteDocList(type, entries) ==
  LET hasDel == DelPositions(entries) # <<>>
  IN IF type = FixType THEN [version |-> FixType, flag |-> 0, body |-> FixBody(entries)]
     ELSE [version |-> VarLenBlockType,
           flag    |-> IF hasDel THEN 1 ELSE 0,
           body    |-> (IF hasDel THEN DelBuffer(entries) ELSE <<>>) \o DeltaBuffer(entries)]

-----------------------------------------------------------------------------
\* DocListCompressionDecoder::Decode on the varints of a body: the delete block,
\* its count first, then ids until no varint is left.
DecodeVarints(v, flag) ==
  LET num   == IF flag = 0 THEN 0 ELSE v[1]
      skip  == IF flag = 0 THEN 0 ELSE num + 1
      del[k \in 0..num] == IF k = 0 THEN 0 ELSE del[k - 1] + v[k + 1]
      dels  == {del[k] : k \in 1..num}
      count == Len(v) - skip
      id[k \in 0..count] ==
        IF k = 0 THEN 0
        ELSE LET prev == id[k - 1] IN
             IF prev = 0 THEN v[skip + k] ELSE (prev - v[skip + k]) % (UINT_MAX + 1)
  IN FlattenSeq([k \in 1..count |-> Append(HostFixed64(id[k]), IF k - 1 \in dels THEN 1 ELSE 0)])

Decode(value) == DecodeVarints(Varints(value.body, MaxVarint64), value.flag)

\* A fixed-size value is read in place, a compressed one through a buffer.
DecodeDocListToFixBytes(value) ==
  IF value.version = FixType THEN value.body ELSE Decode(value)

DOC_ID_GAP == Width + 1

FixEntries(body) ==
  [k \in 1..(Len(body) \div DOC_ID_GAP) |->
    <<HostValue(SubSeq(body, DOC_ID_GAP * (k - 1) + 1, DOC_ID_GAP * k - 1)), StateOf(body[DOC_ID_GAP * k])>>]

-----------------------------------------------------------------------------
\* DocListReaderCodecImpl: the decoded entries and the position pos_, counted in
\* entries rather than in steps of DOC_ID_GAP bytes.
NewReader(value, field) ==
  [type |-> "reader", docs |-> FixEntries(DecodeDocListToFixBytes(value)), pos |-> 0, field |-> field]

CURR_DOC(docs, k) == docs[k + 1][1]

ReaderDocID(r) == IF r.pos >= Len(r.docs) THEN NO_MORE_DOCS ELSE CURR_DOC(r.docs, r.pos)

ReaderState(r) == r.docs[r.pos + 1][2]

ReaderNextDoc(r) == IF ReaderDocID(r) # NO_MORE_DOCS THEN [r EXCEPT !.pos = @ + 1] ELSE r

\* Mutant: of the last two candidates the first is taken.
RECURSIVE SearchTakesMin(_, _, _, _, _)
SearchTakesMin(docs, target, min, max, curr) ==
  LET doc == CURR_DOC(docs, curr)
      lo  == IF doc > target THEN curr ELSE min
      hi  == IF doc > target THEN max ELSE curr
  IN CASE doc = target            -> curr
       [] doc # target /\ hi = lo -> curr
       [] OTHER -> IF lo + 1 = hi THEN lo
                   ELSE SearchTakesMin(docs, target, lo, hi, (lo + hi) \div 2)

\* The binary search of Advance over a descending list.
RECURSIVE Search(_, _, _, _, _)
Search(docs, target, min, max, curr) ==
  LET doc == CURR_DOC(docs, curr)
      lo  == IF doc > target THEN curr ELSE min
      hi  == IF doc > target THEN max ELSE curr
  IN CASE doc = target            -> curr
       [] doc # target /\ hi = lo -> curr
       [] OTHER -> IF lo + 1 = hi THEN (IF CURR_DOC(docs, lo) > target THEN hi ELSE lo)
                   ELSE Search(docs, target, lo, hi, (lo + hi) \div 2)

\* To target or, where the list has no such id, to the next smaller one.
ReaderAdvance(r, target) ==
  LET last == Len(r.docs) - 1
      at   == [r EXCEPT !.pos = Search(r.docs, target, 0, last, last \div 2)]
  IN CASE r.docs = <<>>                         -> r
       [] r.docs # <<>> /\ target = MAX_DOCID   -> [r EXCEPT !.pos = 0]
       [] OTHER -> IF ReaderDocID(at) > target THEN [at EXCEPT !.pos = Len(r.docs)] ELSE at
=============================================================================
