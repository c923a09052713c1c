-------------------------- MODULE IndexWriterProofs --------------------------
(***************************************************************************)
(* Proofs about IndexWriter for every set of documents, fields, values,    *)
(* terms, writers and inputs.                                              *)
(***************************************************************************)
EXTENDS IndexWriter, TLAPS

-----------------------------------------------------------------------------
(***************************************************************************)
(* The transformations of documents.                                       *)
(***************************************************************************)

\* Tokenizing a document gives a document.
LEMMA RunTokenizerType ==
  ASSUME NEW doc \in Document
  PROVE  RunTokenizer(doc) \in Document
<1> SUFFICES ASSUME NEW i \in FieldID, doc[i] # NoField
             PROVE  BuildTerms(doc[i]) \in IndexField
  BY DEF RunTokenizer, Document
<1>1. doc[i] \in IndexField
  BY DEF Document
<1> QED
  BY <1>1, DocumentsAssumption DEF BuildTerms, IndexField

\* Merging two documents gives a document.
LEMMA OverlayType ==
  ASSUME NEW old \in Document, NEW new \in Document
  PROVE  Overlay(old, new) \in Document
BY DEF Overlay, Document

\* An encoded field is a field, and encoding it again changes nothing.
LEMMA EncodeField ==
  ASSUME NEW f \in IndexField
  PROVE  /\ EncodeToStoreField(f) \in IndexField
         /\ EncodeToStoreField(EncodeToStoreField(f)) = EncodeToStoreField(f)
         /\ IndexKeys(EncodeToStoreField(f)) \subseteq IndexKeys(f)
<1>1. EncodeToStoreField(f) \in IndexField
  BY DocumentsAssumption DEF EncodeToStoreField, IndexField
<1>2. EncodeToStoreField(EncodeToStoreField(f)) = EncodeToStoreField(f)
  BY DEF EncodeToStoreField, IndexField
<1>3. EncodeToStoreField(f).flag = f.flag /\ EncodeToStoreField(f).terms \subseteq f.terms
  BY DEF EncodeToStoreField, IndexField
<1>4. IndexKeys(EncodeToStoreField(f)) \subseteq IndexKeys(f)
  BY <1>3 DEF IndexKeys
<1> QED
  BY <1>1, <1>2, <1>4

\* The stored form of a row is a row; only "no document" is stored as such.
LEMMA StoredFormType ==
  ASSUME NEW doc \in Row
  PROVE  /\ StoredForm(doc) \in Row
         /\ StoredForm(doc) = NoDoc <=> doc = NoDoc
<1>1. CASE doc = NoDoc
  BY <1>1 DEF StoredForm, Row
<1>2. CASE doc # NoDoc
  <2>1. doc \in Document
    BY <1>2 DEF Row
  <2>2. ASSUME NEW i \in FieldID, doc[i] # NoField
        PROVE  EncodeToStoreField(doc[i]) \in IndexField
    BY <2>1, <2>2, EncodeField DEF Document
  <2>3. StoredForm(doc) \in Document
    BY <1>2, <2>1, <2>2 DEF StoredForm, Document
  <2> QED
    BY <1>2, <2>3, DocumentsAssumption DEF Row
<1> QED
  BY <1>1, <1>2

\* A document's doc-value row is a document.
LEMMA BuildDocValueType ==
  ASSUME NEW doc \in Document
  PROVE  BuildDocValue(doc) \in Document
<1> SUFFICES ASSUME NEW i \in FieldID, IsDocValue(doc[i])
             PROVE  [doc[i] EXCEPT !.terms = {}] \in IndexField
  BY DEF BuildDocValue, Document
<1>1. doc[i] \in IndexField
  BY DEF Document, IsDocValue
<1> QED
  BY <1>1 DEF IndexField

\* Postings of a document are postings of that document id.
LEMMA PostingsType ==
  ASSUME NEW d \in DocID, NEW doc
  PROVE  /\ Postings(d, doc) \subseteq Posting
         /\ \A p \in Postings(d, doc) : p[1] = d
BY DEF Postings, Posting

-----------------------------------------------------------------------------
(***************************************************************************)
(* Types of the pieces of a write batch.                                   *)
(***************************************************************************)

\* Applying an intent to a row gives a row.
LEMMA ApplyIntentType ==
  ASSUME NEW i \in Intent \cup {Keep}, NEW old \in Row
  PROVE  ApplyIntent(i, old) \in Row
<1>1. CASE i = Keep
  BY <1>1 DEF ApplyIntent
<1>2. CASE i # Keep /\ i.keep /\ i.doc # NoDoc /\ old # NoDoc
  <2>1. i.doc \in Document /\ old \in Document
    BY <1>2 DEF Intent, Row
  <2> QED
    BY <1>2, <2>1, OverlayType DEF ApplyIntent, Row
<1>3. CASE i # Keep /\ ~(i.keep /\ i.doc # NoDoc /\ old # NoDoc)
  BY <1>3 DEF ApplyIntent, Intent
<1> QED
  BY <1>1, <1>2, <1>3

\* The intent of a submitted document.
LEMMA IntentOfType ==
  ASSUME NEW mode, NEW new \in Inputs
  PROVE  IntentOf(mode, new) \in Intent
<1>1. RunTokenizer(new) \in Document
  BY RunTokenizerType, WriterAssumption
<1> QED
  BY <1>1 DEF IntentOf, Intent, Row

\* One intent after another is an intent.
LEMMA ThenType ==
  ASSUME NEW i \in Intent \cup {Keep}, NEW j \in Intent
  PROVE  Then(i, j) \in Intent
<1>1. CASE i = Keep \/ ~j.keep
  BY <1>1 DEF Then
<1>2. CASE i # Keep /\ j.keep
  <2>1. i \in Intent /\ i.doc \in Row /\ i.keep \in BOOLEAN
    BY <1>2 DEF Intent
  <2>2. ApplyIntent(j, i.doc) \in Row
    BY <2>1, ApplyIntentType
  <2> QED
    BY <1>2, <2>1, <2>2 DEF Then, Intent
<1> QED
  BY <1>1, <1>2

\* The documents a call writes are documents.
LEMMA MergeOldFieldType ==
  ASSUME NEW c, CallOK(c), NEW d \in DOMAIN c.docs
  PROVE  MergeOldField(c, d) \in Document
<1>1. c.docs[d] \in Inputs /\ c.old[d] \in Row
  BY DEF CallOK, CallOver
<1>2. RunTokenizer(c.docs[d]) \in Document
  BY <1>1, RunTokenizerType, WriterAssumption
<1>3. c.old[d] # NoDoc => Overlay(c.old[d], RunTokenizer(c.docs[d])) \in Document
  BY <1>1, <1>2, OverlayType DEF Row
<1> QED
  BY <1>2, <1>3 DEF MergeOldField

\* The postings a call adds and removes belong to its documents.
LEMMA CallPostingsType ==
  ASSUME NEW c, CallOK(c), c.phase = "loaded"
  PROVE  /\ NewPostings(c) \subseteq Posting
         /\ OldPostings(c) \subseteq Posting
         /\ \A p \in NewPostings(c) \cup OldPostings(c) : p[1] \in Live(c)
<1>1. \A d \in Live(c) : d \in DocID
  BY DEF Live, CallOK
<1>2. ASSUME NEW d \in Live(c), NEW doc
      PROVE  Postings(d, doc) \subseteq Posting /\ \A p \in Postings(d, doc) : p[1] \in Live(c)
  BY <1>1, PostingsType
<1> QED
  BY <1>2 DEF NewPostings, OldPostings

\* The batch a call builds is a batch.
LEMMA UpdateDocumentsType ==
  ASSUME NEW c, CallOK(c), c.phase = "loaded", NEW b \in Batch
  PROVE  UpdateDocuments(c, b) \in Batch
<1>1. ASSUME NEW d \in Live(c)
      PROVE  /\ WriteStoredField(c, d) \in Row
             /\ \A before \in Row \cup {Keep} :
                  WriteDocValue(c, d, before) \in Row \cup {Keep}
  <2>1. d \in DOMAIN c.docs
    BY <1>1 DEF Live
  <2>2. MergeOldField(c, d) \in Document
    BY <2>1, MergeOldFieldType
  <2>3. WriteStoredField(c, d) \in Row
    BY <2>2, StoredFormType DEF WriteStoredField, Row
  <2>4. BuildDocValue(MergeOldField(c, d)) \in Document
    BY <2>2, BuildDocValueType
  <2> QED
    BY <2>3, <2>4 DEF WriteDocValue, Row
<1>2. ASSUME NEW d \in Live(c), d \in DocID
      PROVE  Then(b.intent[d], IntentOf(c.mode, c.docs[d])) \in Intent
  <2>1. c.docs[d] \in Inputs
    BY <1>2 DEF Live, CallOK, CallOver
  <2>2. b.intent[d] \in Intent \cup {Keep}
    BY <1>2 DEF Batch
  <2> QED
    BY <2>1, <2>2, ThenType, IntentOfType
<1>3. WriteInvertedIndex(c, b).add \subseteq Posting /\ WriteInvertedIndex(c, b).del \subseteq Posting
  BY CallPostingsType DEF WriteInvertedIndex, Batch
<1>4. [d \in DocID |-> IF d \in Live(c) THEN WriteStoredField(c, d) ELSE b.stored[d]]
        \in [DocID -> Row \cup {Keep}]
  BY <1>1 DEF Batch
<1>5. [d \in DocID |-> IF d \in Live(c) THEN WriteDocValue(c, d, b.docvalue[d])
                       ELSE b.docvalue[d]]
        \in [DocID -> Row \cup {Keep}]
  BY <1>1 DEF Batch
<1>6. [d \in DocID |-> IF d \in Live(c)
                       THEN Then(b.intent[d], IntentOf(c.mode, c.docs[d]))
                       ELSE b.intent[d]]
        \in [DocID -> Intent \cup {Keep}]
  BY <1>2 DEF Batch
<1> QED
  BY <1>3, <1>4, <1>5, <1>6 DEF UpdateDocuments, Batch

\* The empty batch is a batch.
LEMMA EmptyBatchType == EmptyBatch \in Batch
BY DEF EmptyBatch, Batch

\* Flushing a batch keeps the columns well typed.
LEMMA FlushBufferType ==
  ASSUME TypeOK, NEW b \in Batch, FlushBuffer(b)
  PROVE  /\ stored' \in [DocID -> Row]
         /\ docvalue' \in [DocID -> Row]
         /\ inverted' \subseteq Posting
         /\ content' \in [DocID -> Row]
<1>1. stored' \in [DocID -> Row] /\ docvalue' \in [DocID -> Row] /\ inverted' \subseteq Posting
  BY DEF TypeOK, FlushBuffer, Batch
<1>2. ASSUME NEW d \in DocID
      PROVE  ApplyIntent(b.intent[d], content[d]) \in Row
  <2>1. b.intent[d] \in Intent \cup {Keep} /\ content[d] \in Row
    BY DEF TypeOK, Batch
  <2> QED
    BY <2>1, ApplyIntentType
<1> QED
  BY <1>1, <1>2 DEF FlushBuffer

\* Committing a batch keeps columns, buffers and content well typed.
LEMMA CommitType ==
  ASSUME TypeOK, NEW w \in Writer, NEW buffered \in BOOLEAN, NEW b \in Batch,
         Commit(w, buffered, b)
  PROVE  /\ stored' \in [DocID -> Row]
         /\ docvalue' \in [DocID -> Row]
         /\ inverted' \subseteq Posting
         /\ buffer' \in [Writer -> Batch]
         /\ content' \in [DocID -> Row]
<1>1. CASE buffered
  BY <1>1 DEF Commit, columns, TypeOK
<1>2. CASE ~buffered
  BY <1>2, FlushBufferType DEF Commit, TypeOK
<1> QED
  BY <1>1, <1>2

\* The call record a failed or finished call leaves.
LEMMA FinishType ==
  ASSUME TypeOK, NEW w \in Writer, call[w] # Idle, NEW ok \in BOOLEAN,
         NEW status \in [DOMAIN call[w].docs -> Status], Finish(w, ok, status)
  PROVE  /\ call' = [x \in Writer |-> call'[x]]
         /\ \A x \in Writer : call'[x] = Idle \/ CallOK(call'[x])
<1>1. FinalStatus(ok, status) \in [DOMAIN call[w].docs -> Status]
  BY DEF FinalStatus, Status
<1>2. CallOK(call[w])
  BY DEF TypeOK
<1>3. CallOK([phase |-> "done", ok |-> ok, mode |-> call[w].mode,
              docs |-> call[w].docs, old |-> call[w].old,
              status |-> FinalStatus(ok, status), buffered |-> call[w].buffered])
  BY <1>1, <1>2 DEF CallOK, CallOver
<1>4. \A x \in Writer : x # w => call'[x] = call[x]
  BY DEF Finish, TypeOK
<1>5. CallOK(call'[w])
  BY <1>3 DEF Finish, TypeOK
<1>6. call' = [x \in Writer |-> call'[x]]
  BY DEF Finish, TypeOK
<1> QED
  BY <1>4, <1>5, <1>6 DEF TypeOK

-----------------------------------------------------------------------------
(***************************************************************************)
(* Type correctness, one lemma for the steps that build a call or a batch. *)
(***************************************************************************)

\* UpdateDocumetStatus and FinalStatus give every document a status.
LEMMA LoadType ==
  ASSUME TypeOK, NEW w \in Writer, NEW mode \in Modes, NEW buffered \in BOOLEAN,
         NEW ds \in SUBSET (DocID \cup {ZeroID}), NEW docs \in [ds -> Inputs],
         NEW bad, Load(w, mode, docs, buffered, bad)
  PROVE  TypeOK'
<1> DEFINE status == [d \in ds |-> UpdateDocumetStatus(mode, d, MultiGet(d, bad))]
           ok == Accepts(ds) /\ \A d \in ds : ~FailsBatch(mode, MultiGet(d, bad))
           old == [d \in ds |-> IF mode \in ReadModes /\ d \in DocID
                                THEN stored[d] ELSE NoDoc]
           c == [phase |-> IF ok THEN "loaded" ELSE "done", ok |-> ok, mode |-> mode,
                 docs |-> docs, old |-> old, status |-> FinalStatus(ok, status),
                 buffered |-> buffered]
<1>1. DOMAIN docs = ds
  OBVIOUS
<1>2. call' = [call EXCEPT ![w] = c] /\ UNCHANGED <<columns, buffer, content>>
  BY <1>1 DEF Load
<1>3. status \in [ds -> Status]
  BY DEF UpdateDocumetStatus, MultiGet, Status
<1>4. old \in [ds -> Row]
  BY DEF TypeOK, Row
<1>5. ok \in BOOLEAN
  OBVIOUS
<1>6. FinalStatus(ok, status) \in [ds -> Status]
  BY <1>3 DEF FinalStatus, Status
<1>7. c.phase = "loaded" => ds \subseteq DocID
  BY DEF Accepts
<1> HIDE DEF status, ok, old
<1>8. CallOK(c)
  BY <1>1, <1>4, <1>5, <1>6, <1>7 DEF CallOK, CallOver
<1> HIDE DEF c
<1>9. \A x \in Writer : call'[x] = IF x = w THEN c ELSE call[x]
  BY <1>2 DEF TypeOK
<1>10. call' = [x \in Writer |-> call'[x]]
  BY <1>2 DEF TypeOK
<1> QED
  BY <1>2, <1>8, <1>9, <1>10 DEF TypeOK, columns

\* Every step keeps the types.
LEMMA TypeStep ==
  ASSUME TypeOK, [Next]_vars
  PROVE  TypeOK'
<1>1. ASSUME NEW w \in Writer, NEW mode \in Modes, NEW buffered \in BufferChoice,
             NEW ds \in Batches, NEW docs \in [ds -> Inputs], NEW bad \in BadReads(ds),
             Load(w, mode, docs, buffered, bad)
      PROVE  TypeOK'
  <2>1. buffered \in BOOLEAN /\ ds \in SUBSET (DocID \cup {ZeroID})
    BY DEF BufferChoice, Batches
  <2> QED
    BY <1>1, <2>1, LoadType
<1>2. ASSUME NEW w \in Writer, Write(w)
      PROVE  TypeOK'
  <2>1. call[w] # Idle /\ call[w].phase = "loaded" /\ CallOK(call[w])
    BY <1>2 DEF Write, TypeOK
  <2>2. call[w].status \in [DOMAIN call[w].docs -> Status] /\ call[w].buffered \in BOOLEAN
    BY <2>1 DEF CallOK, CallOver
  <2> DEFINE b0 == NewWriteBuffer(w, call[w].buffered)
             b == UpdateDocuments(call[w], b0)
  <2>3. b0 \in Batch
    BY EmptyBatchType DEF NewWriteBuffer, TypeOK
  <2>4. b \in Batch
    BY <2>1, <2>3, UpdateDocumentsType
  <2>5. Commit(w, call[w].buffered, b) /\ Finish(w, TRUE, call[w].status)
    BY <1>2 DEF Write
  <2> HIDE DEF b
  <2>6. /\ stored' \in [DocID -> Row] /\ docvalue' \in [DocID -> Row]
        /\ inverted' \subseteq Posting /\ buffer' \in [Writer -> Batch]
        /\ content' \in [DocID -> Row]
    BY <2>2, <2>4, <2>5, CommitType
  <2>7. /\ call' = [x \in Writer |-> call'[x]]
        /\ \A x \in Writer : call'[x] = Idle \/ CallOK(call'[x])
    BY <2>1, <2>2, <2>5, FinishType
  <2> QED
    BY <2>6, <2>7 DEF TypeOK
<1>3. ASSUME NEW w \in Writer,
             (\E d \in DocID : TokenizerFails(w, d)) \/ BatchTooLarge(w) \/ FlushFails(w)
      PROVE  TypeOK'
  <2>1. call[w] # Idle /\ CallOK(call[w]) /\ UNCHANGED <<columns, buffer, content>>
    BY <1>3 DEF TokenizerFails, BatchTooLarge, FlushFails, TypeOK
  <2>2. PICK status \in [DOMAIN call[w].docs -> Status] : Finish(w, FALSE, status)
    <3>1. call[w].status \in [DOMAIN call[w].docs -> Status]
      BY <2>1 DEF CallOK, CallOver
    <3>2. CASE \E d \in DocID : TokenizerFails(w, d)
      BY <3>1, <3>2 DEF TokenizerFails, Status
    <3>3. CASE BatchTooLarge(w)
      BY <3>1, <3>3 DEF BatchTooLarge
    <3>4. CASE FlushFails(w)
      <4>1. [d \in DOMAIN call[w].docs |-> IF call[w].status[d] # "OK" THEN "DBError" ELSE "OK"]
              \in [DOMAIN call[w].docs -> Status]
        BY DEF Status
      <4> QED
        BY <3>4, <4>1 DEF FlushFails
    <3> QED
      BY <1>3, <3>2, <3>3, <3>4
  <2>3. /\ call' = [x \in Writer |-> call'[x]]
        /\ \A x \in Writer : call'[x] = Idle \/ CallOK(call'[x])
    BY <2>1, <2>2, FinishType
  <2> QED
    BY <2>1, <2>3 DEF TypeOK, columns
<1>4. ASSUME NEW w \in Writer, Return(w)
      PROVE  TypeOK'
  <2>1. \A x \in Writer : call'[x] = IF x = w THEN Idle ELSE call[x]
    BY <1>4 DEF Return, TypeOK
  <2>2. call' = [x \in Writer |-> call'[x]]
    BY <1>4 DEF Return, TypeOK
  <2> QED
    BY <1>4, <2>1, <2>2 DEF Return, TypeOK, columns
<1>5. ASSUME NEW w \in Writer, FlushStoreBuffer(w)
      PROVE  TypeOK'
  <2>1. buffer[w] \in Batch
    BY DEF TypeOK
  <2>2. /\ stored' \in [DocID -> Row] /\ docvalue' \in [DocID -> Row]
        /\ inverted' \subseteq Posting /\ content' \in [DocID -> Row]
    BY <1>5, <2>1, FlushBufferType DEF FlushStoreBuffer
  <2>3. buffer' \in [Writer -> Batch]
    BY <1>5, EmptyBatchType DEF FlushStoreBuffer, TypeOK
  <2> QED
    BY <1>5, <2>2, <2>3 DEF FlushStoreBuffer, TypeOK
<1>6. ASSUME NEW w \in Writer, NEW buffered \in BufferChoice, NEW items \in Ingests,
             IngestInvertIndex(w, items, buffered)
      PROVE  TypeOK'
  <2> DEFINE b0 == NewWriteBuffer(w, buffered)
             b == [b0 EXCEPT !.add = @ \cup items, !.del = @ \ items]
  <2>1. buffered \in BOOLEAN
    BY DEF BufferChoice
  <2>2. b0 \in Batch
    BY EmptyBatchType DEF NewWriteBuffer, TypeOK
  <2>3. items \subseteq Posting
    BY WriterAssumption DEF Posting
  <2>4. b \in Batch
    BY <2>2, <2>3 DEF Batch
  <2>5. Commit(w, buffered, b) /\ UNCHANGED call
    BY <1>6 DEF IngestInvertIndex
  <2> HIDE DEF b
  <2> QED
    BY <2>1, <2>4, <2>5, CommitType DEF TypeOK
<1>7. ASSUME NEW w \in Writer, NEW buffered \in BufferChoice, DropTable(w, buffered)
      PROVE  TypeOK'
  <2> DEFINE b0 == NewWriteBuffer(w, buffered)
             b == [stored   |-> DropRange(b0.stored),
                   docvalue |-> DropRange(b0.docvalue),
                   add      |-> {},
                   del      |-> Posting,
                   intent   |-> [d \in DocID |-> [keep |-> FALSE, doc |-> NoDoc]]]
  <2>1. buffered \in BOOLEAN
    BY DEF BufferChoice
  <2>2. b0 \in Batch
    BY EmptyBatchType DEF NewWriteBuffer, TypeOK
  <2>3. b \in Batch
    BY <2>2 DEF Batch, DropRange, Intent, Row
  <2>4. Commit(w, buffered, b) /\ UNCHANGED call
    BY <1>7 DEF DropTable
  <2> HIDE DEF b
  <2> QED
    BY <2>1, <2>3, <2>4, CommitType DEF TypeOK
<1>8. CASE Crash
  BY <1>8, EmptyBatchType DEF Crash, TypeOK, columns
<1>9. CASE UNCHANGED vars
  BY <1>9 DEF TypeOK, vars
<1> QED
  BY <1>1, <1>2, <1>3, <1>4, <1>5, <1>6, <1>7, <1>8, <1>9 DEF Next

\* Every column, call and buffer keeps its type, for every set of writers,
\* documents and inputs and whatever the callers do.
THEOREM TypeCorrect == Spec => []TypeOK
<1>1. Init => TypeOK
  BY EmptyBatchType DEF Init, TypeOK, Row
<1>2. TypeOK /\ [Next]_vars => TypeOK'
  BY TypeStep
<1> QED
  BY <1>1, <1>2, PTL DEF Spec

-----------------------------------------------------------------------------
(***************************************************************************)
(* What a write keeps, for one document: k is what the committed calls say *)
(* of it, the database holds its stored form.                              *)
(***************************************************************************)

\* Merging into the stored form instead of the document itself stores the same.
LEMMA StoreOverlay ==
  ASSUME NEW k \in Document, NEW new \in Document
  PROVE  StoredForm(Overlay(StoredForm(k), new)) = StoredForm(Overlay(k, new))
<1>1. StoredForm(k) \in Document
  BY StoredFormType, DocumentsAssumption DEF Row
<1>2. Overlay(StoredForm(k), new) \in Document /\ Overlay(k, new) \in Document
  BY <1>1, OverlayType
<1>3. Overlay(StoredForm(k), new) # NoDoc /\ Overlay(k, new) # NoDoc /\ k # NoDoc
  BY <1>2, DocumentsAssumption
<1>4. ASSUME NEW i \in FieldID
      PROVE  StoredForm(Overlay(StoredForm(k), new))[i] = StoredForm(Overlay(k, new))[i]
  <2>1. CASE new[i] # NoField
    BY <1>3, <2>1 DEF StoredForm, Overlay
  <2>2. CASE new[i] = NoField /\ k[i] = NoField
    BY <1>3, <2>2 DEF StoredForm, Overlay
  <2>3. CASE new[i] = NoField /\ k[i] # NoField
    <3>1. k[i] \in IndexField
      BY <2>3 DEF Document
    <3>2. EncodeToStoreField(k[i]) # NoField
      BY <3>1, EncodeField, DocumentsAssumption
    <3>3. EncodeToStoreField(EncodeToStoreField(k[i])) = EncodeToStoreField(k[i])
      BY <3>1, EncodeField
    <3> QED
      BY <1>3, <2>3, <3>2, <3>3 DEF StoredForm, Overlay
  <2> QED
    BY <2>1, <2>2, <2>3
<1> QED
  BY <1>3, <1>4 DEF StoredForm

\* The stored form has only postings the document has.
LEMMA StoredPostings ==
  ASSUME NEW d \in DocID, NEW k \in Row
  PROVE  Postings(d, StoredForm(k)) \subseteq Postings(d, k)
<1>1. CASE k = NoDoc
  BY <1>1 DEF StoredForm, Postings
<1>2. CASE k # NoDoc
  <2>1. k \in Document
    BY <1>2 DEF Row
  <2>2. StoredForm(k) # NoDoc
    BY <1>2, StoredFormType
  <2>3. ASSUME NEW i \in FieldID, StoredForm(k)[i] # NoField
        PROVE  k[i] # NoField /\ IndexKeys(StoredForm(k)[i]) \subseteq IndexKeys(k[i])
    <3>1. k[i] # NoField /\ StoredForm(k)[i] = EncodeToStoreField(k[i])
      BY <1>2, <2>3 DEF StoredForm
    <3>2. k[i] \in IndexField
      BY <2>1, <3>1 DEF Document
    <3> QED
      BY <3>1, <3>2, EncodeField
  <2> QED
    BY <1>2, <2>2, <2>3 DEF Postings
<1> QED
  BY <1>1, <1>2

\* Overlaying fields on a document: what the result has that the overlay of the
\* stored form has not is a posting of a kept field whose terms are not stored,
\* and the diff with the stored form does not delete it.
LEMMA OverlayPostings ==
  ASSUME NEW d \in DocID, NEW k \in Document, NEW new \in Document
  PROVE  Postings(d, Overlay(k, new)) \subseteq
           Postings(d, Overlay(StoredForm(k), new))
             \cup (Postings(d, k) \ Postings(d, StoredForm(k)))
<1>1. StoredForm(k) \in Document
  BY StoredFormType, DocumentsAssumption DEF Row
<1>2. Overlay(StoredForm(k), new) \in Document /\ Overlay(k, new) \in Document
  BY <1>1, OverlayType
<1>3. /\ Overlay(StoredForm(k), new) # NoDoc
      /\ Overlay(k, new) # NoDoc /\ k # NoDoc /\ StoredForm(k) # NoDoc
  BY <1>1, <1>2, DocumentsAssumption
<1>4. SUFFICES ASSUME NEW p \in Postings(d, Overlay(k, new)),
                      p \notin Postings(d, Overlay(StoredForm(k), new))
               PROVE  p \in Postings(d, k) /\ p \notin Postings(d, StoredForm(k))
  OBVIOUS
<1>5. /\ p \in {d} \X FieldID \X Term
      /\ Overlay(k, new)[p[2]] # NoField /\ p[3] \in IndexKeys(Overlay(k, new)[p[2]])
  BY <1>3, <1>4 DEF Postings
<1>6. p[2] \in FieldID
  BY <1>5
<1>7. new[p[2]] = NoField
  BY <1>3, <1>4, <1>5, <1>6 DEF Postings, Overlay
<1>8. Overlay(k, new)[p[2]] = k[p[2]] /\ Overlay(StoredForm(k), new)[p[2]] = StoredForm(k)[p[2]]
  BY <1>6, <1>7 DEF Overlay
<1>9. p \in Postings(d, k)
  BY <1>3, <1>5, <1>8 DEF Postings
<1>10. p \notin Postings(d, StoredForm(k))
  BY <1>3, <1>4, <1>5, <1>8 DEF Postings
<1> QED
  BY <1>9, <1>10

\* One document of a call whose read is current: what it stores and posts is
\* what its intent asks for, and it deletes nothing that is still needed.
LEMMA WriteOne ==
  ASSUME NEW c, CallOK(c), NEW d \in DOMAIN c.docs, d \in DocID, NEW k \in Row,
         c.old[d] = IF c.mode = "AddWithoutRead" THEN NoDoc ELSE StoredForm(k),
         c.mode = "Add" => k = NoDoc
  PROVE  LET after == ApplyIntent(IntentOf(c.mode, c.docs[d]), k)
             new   == IF c.mode = "Delete" THEN {} ELSE Postings(d, MergeOldField(c, d))
         IN /\ WriteStoredField(c, d) = StoredForm(after)
            /\ Postings(d, after) \subseteq new \cup (Postings(d, k) \ Postings(d, c.old[d]))
            /\ Postings(d, c.old[d]) \subseteq Postings(d, k)
<1> DEFINE i == IntentOf(c.mode, c.docs[d])
           new == RunTokenizer(c.docs[d])
<1>1. c.docs[d] \in Inputs /\ c.mode \in WriteModes
  BY WriterAssumption DEF CallOK, CallOver
<1>2. new \in Document /\ new # NoDoc
  BY <1>1, RunTokenizerType, WriterAssumption, DocumentsAssumption
<1>3. i \in Intent
  BY <1>1, IntentOfType
<1>4. i # Keep
  BY <1>3, WriterAssumption
<1>5. Postings(d, c.old[d]) \subseteq Postings(d, k)
  <2>1. CASE c.mode = "AddWithoutRead"
    BY <2>1 DEF Postings
  <2>2. CASE c.mode # "AddWithoutRead"
    BY <2>2, StoredPostings
  <2> QED
    BY <2>1, <2>2
<1>6. CASE c.mode = "Delete"
  <2>1. ApplyIntent(i, k) = NoDoc
    BY <1>4, <1>6 DEF ApplyIntent, IntentOf
  <2> QED
    BY <1>5, <1>6, <2>1 DEF WriteStoredField, StoredForm, Postings
<1>7. CASE c.mode # "Delete" /\ (c.mode \in {"Replace", "AddWithoutRead", "Add"} \/ k = NoDoc)
  <2>1. i.doc = new /\ (i.keep => k = NoDoc)
    BY <1>7 DEF IntentOf
  <2>2. ApplyIntent(i, k) = new
    BY <1>4, <2>1 DEF ApplyIntent
  <2>3. c.mode = "Replace" \/ c.old[d] = NoDoc
    BY <1>7 DEF StoredForm
  <2>4. MergeOldField(c, d) = new
    BY <1>7, <2>3 DEF MergeOldField
  <2> QED
    BY <1>5, <1>7, <2>2, <2>4 DEF WriteStoredField
<1>8. CASE c.mode \in {"Update", "AddOrUpdate"} /\ k # NoDoc
  <2>1. i.doc = new /\ i.keep
    BY <1>8 DEF IntentOf
  <2>2. ApplyIntent(i, k) = Overlay(k, new)
    BY <1>2, <1>4, <1>8, <2>1 DEF ApplyIntent
  <2>3. c.old[d] = StoredForm(k) /\ c.old[d] # NoDoc /\ k \in Document
    BY <1>8, StoredFormType DEF Row
  <2>4. MergeOldField(c, d) = Overlay(StoredForm(k), new)
    BY <1>8, <2>3 DEF MergeOldField
  <2>5. WriteStoredField(c, d) = StoredForm(Overlay(k, new))
    BY <1>2, <1>8, <2>3, <2>4, StoreOverlay DEF WriteStoredField
  <2>6. Postings(d, Overlay(k, new)) \subseteq
          Postings(d, MergeOldField(c, d)) \cup (Postings(d, k) \ Postings(d, c.old[d]))
    BY <1>2, <2>3, <2>4, OverlayPostings
  <2> QED
    BY <1>5, <1>8, <2>2, <2>5, <2>6
<1> QED
  BY <1>1, <1>6, <1>7, <1>8 DEF WriteModes

-----------------------------------------------------------------------------
(***************************************************************************)
(* Batches.                                                                *)
(***************************************************************************)

\* The empty batch touches nothing and keeps every document findable.
LEMMA EmptyBatchDelivers ==
  ASSUME Findable
  PROVE  Delivers(EmptyBatch) /\ Touched(EmptyBatch) = {}
BY DEF Findable, Delivers, EmptyBatch, Touched, ApplyIntent

\* Flushing a batch that delivers keeps the columns in step with the content.
LEMMA FlushKeeps ==
  ASSUME TypeOK, StoredMatches, NEW b \in Batch, Delivers(b), FlushBuffer(b)
  PROVE  StoredMatches' /\ Findable'
<1> SUFFICES ASSUME NEW d \in DocID
             PROVE  /\ stored'[d] = StoredForm(content'[d])
                    /\ Postings(d, content'[d]) \subseteq inverted'
  BY DEF StoredMatches, Findable
<1>1. content'[d] = ApplyIntent(b.intent[d], content[d])
  BY DEF FlushBuffer
<1>2. Postings(d, content'[d]) \subseteq inverted'
  BY <1>1 DEF Delivers, FlushBuffer
<1>3. CASE b.stored[d] = Keep
  <2>1. content'[d] = content[d] /\ stored'[d] = stored[d]
    BY <1>1, <1>3 DEF Delivers, ApplyIntent, FlushBuffer
  <2> QED
    BY <1>2, <2>1 DEF StoredMatches
<1>4. CASE b.stored[d] # Keep
  <2>1. stored'[d] = b.stored[d] /\ b.stored[d] = StoredForm(content'[d])
    BY <1>1, <1>4 DEF Delivers, FlushBuffer
  <2> QED
    BY <1>2, <2>1
<1> QED
  BY <1>3, <1>4

\* A flush leaves the documents its batch does not touch alone.
LEMMA FlushLeaves ==
  ASSUME TypeOK, NEW b \in Batch, Delivers(b), FlushBuffer(b),
         NEW d \in DocID, d \notin Touched(b)
  PROVE  /\ stored'[d] = stored[d]
         /\ content'[d] = content[d]
         /\ \A p \in Posting : p[1] = d => (p \in inverted' <=> p \in inverted)
<1>1. b.stored[d] = Keep /\ \A p \in b.add \cup b.del : p[1] # d
  BY DEF Touched
<1>2. b.intent[d] = Keep
  BY <1>1 DEF Delivers
<1> QED
  BY <1>1, <1>2 DEF FlushBuffer, ApplyIntent

\* A batch still delivers after another one, on other documents, is flushed.
LEMMA DeliversStable ==
  ASSUME TypeOK, NEW b \in Batch, Delivers(b), FlushBuffer(b), Findable',
         NEW a \in Batch, Delivers(a), Touched(a) \cap Touched(b) = {}
  PROVE  Delivers(a)'
<1> DEFINE after(d) == ApplyIntent(a.intent[d], content'[d])
<1> SUFFICES ASSUME NEW d \in DocID
             PROVE  /\ a.stored[d] = Keep <=> a.intent[d] = Keep
                    /\ a.stored[d] # Keep => a.stored[d] = StoredForm(after(d))
                    /\ Postings(d, after(d)) \subseteq (inverted' \ a.del) \cup a.add
  BY DEF Delivers
<1>1. CASE d \notin Touched(b)
  <2>1. content'[d] = content[d]
    BY <1>1, FlushLeaves
  <2>2. \A p \in Posting : p[1] = d => (p \in inverted' <=> p \in inverted)
    BY <1>1, FlushLeaves
  <2>3. Postings(d, after(d)) \subseteq (inverted \ a.del) \cup a.add
    BY <2>1 DEF Delivers
  <2>4. Postings(d, after(d)) \subseteq Posting /\ \A p \in Postings(d, after(d)) : p[1] = d
    BY PostingsType
  <2>5. Postings(d, after(d)) \subseteq (inverted' \ a.del) \cup a.add
    BY <2>2, <2>3, <2>4
  <2> QED
    BY <2>1, <2>5 DEF Delivers
<1>2. CASE d \in Touched(b)
  <2>1. a.stored[d] = Keep /\ \A p \in a.add \cup a.del : p[1] # d
    BY <1>2 DEF Touched
  <2>2. a.intent[d] = Keep
    BY <2>1 DEF Delivers
  <2>3. after(d) = content'[d]
    BY <2>2 DEF ApplyIntent
  <2>4. Postings(d, content'[d]) \subseteq inverted'
    BY DEF Findable
  <2>5. \A p \in Postings(d, content'[d]) : p[1] = d
    BY PostingsType
  <2> QED
    BY <2>1, <2>2, <2>3, <2>4, <2>5
<1> QED
  BY <1>1, <1>2

\* The batch of a call whose read is current, built on a batch that touches
\* none of its documents, delivers and touches only those documents more.
LEMMA UpdateDelivers ==
  ASSUME TypeOK, StoredMatches, Findable,
         NEW c, CallOK(c), c.phase = "loaded",
         \A d \in DOMAIN c.docs :
           /\ d \in DocID
           /\ c.old[d] = IF c.mode = "AddWithoutRead" THEN NoDoc ELSE stored[d]
           /\ c.mode = "Add" => stored[d] = NoDoc,
         NEW b \in Batch, Delivers(b), DOMAIN c.docs \cap Touched(b) = {}
  PROVE  /\ Delivers(UpdateDocuments(c, b))
         /\ Touched(UpdateDocuments(c, b)) \subseteq Touched(b) \cup DOMAIN c.docs
<1> DEFINE u == UpdateDocuments(c, b)
           N == NewPostings(c)
           O == OldPostings(c)
<1>1. Live(c) \subseteq DOMAIN c.docs /\ Live(c) \subseteq DocID
  BY DEF Live
<1>2. u \in Batch
  BY UpdateDocumentsType
<1>3. /\ u.add = (b.add \ (O \ N)) \cup (N \ O)
      /\ u.del = (b.del \ (N \ O)) \cup (O \ N)
  BY DEF UpdateDocuments, WriteInvertedIndex
<1>4. \A p \in N \cup O : p[1] \in Live(c)
  BY CallPostingsType
<1>5. \A d \in DocID : d \notin Live(c) =>
        u.stored[d] = b.stored[d] /\ u.intent[d] = b.intent[d]
  BY DEF UpdateDocuments
<1>6. \A d \in Live(c) : /\ u.stored[d] = WriteStoredField(c, d)
                         /\ u.intent[d] = Then(b.intent[d], IntentOf(c.mode, c.docs[d]))
  BY <1>1 DEF UpdateDocuments
<1> HIDE DEF u, N, O
<1>7. Touched(u) \subseteq Touched(b) \cup DOMAIN c.docs
  BY <1>1, <1>3, <1>4, <1>5 DEF Touched
<1>8. ASSUME NEW d \in DocID
      PROVE  LET after == ApplyIntent(u.intent[d], content[d])
             IN /\ u.stored[d] = Keep <=> u.intent[d] = Keep
                /\ u.stored[d] # Keep => u.stored[d] = StoredForm(after)
                /\ Postings(d, after) \subseteq (inverted \ u.del) \cup u.add
  <2> DEFINE after == ApplyIntent(u.intent[d], content[d])
  <2>1. CASE d \notin Live(c)
    <3>1. u.stored[d] = b.stored[d] /\ u.intent[d] = b.intent[d]
      BY <1>5, <2>1
    <3>2. Postings(d, after) \subseteq (inverted \ b.del) \cup b.add
      BY <3>1 DEF Delivers
    <3>3. \A p \in Postings(d, after) : p[1] = d
      BY PostingsType
    <3>4. Postings(d, after) \subseteq (inverted \ u.del) \cup u.add
      BY <1>3, <1>4, <2>1, <3>2, <3>3
    <3> QED
      BY <3>1, <3>4 DEF Delivers
  <2>2. CASE d \in Live(c)
    <3>1. d \in DOMAIN c.docs /\ d \notin Touched(b)
      BY <1>1, <2>2
    <3>2. b.stored[d] = Keep /\ \A p \in b.add \cup b.del : p[1] # d
      BY <3>1 DEF Touched
    <3>3. b.intent[d] = Keep
      BY <3>2 DEF Delivers
    <3>4. u.intent[d] = IntentOf(c.mode, c.docs[d])
      BY <1>6, <2>2, <3>3 DEF Then
    <3>5. content[d] \in Row /\ stored[d] = StoredForm(content[d])
      BY DEF TypeOK, StoredMatches
    <3>6. c.mode = "Add" => content[d] = NoDoc
      BY <3>1, <3>5, StoredFormType
    <3>7. c.old[d] = IF c.mode = "AddWithoutRead" THEN NoDoc ELSE StoredForm(content[d])
      BY <3>1, <3>5
    <3> DEFINE new == IF c.mode = "Delete" THEN {} ELSE Postings(d, MergeOldField(c, d))
               old == Postings(d, c.old[d])
               had == Postings(d, content[d])
    <3>8. /\ WriteStoredField(c, d) = StoredForm(after)
          /\ Postings(d, after) \subseteq new \cup (had \ old)
          /\ old \subseteq had
      BY <3>1, <3>4, <3>5, <3>6, <3>7, WriteOne
    <3>9. /\ \A p \in N : p[1] = d => p \in new
          /\ \A p \in new : p \in N
      BY <1>1, <2>2, PostingsType DEF N, NewPostings
    <3>10. /\ \A p \in O : p[1] = d => p \in old
           /\ \A p \in old : p \in O
      BY <1>1, <2>2, PostingsType DEF O, OldPostings
    <3>11. \A p \in Postings(d, after) : p[1] = d
      BY PostingsType
    <3>12. had \subseteq inverted
      BY DEF Findable
    <3> HIDE DEF new, old, had
    <3>13. Postings(d, after) \subseteq (inverted \ u.del) \cup u.add
      BY <1>3, <3>2, <3>8, <3>9, <3>10, <3>11, <3>12
    <3>14. u.intent[d] # Keep
      <4>1. c.docs[d] \in Inputs
        BY <3>1 DEF CallOK, CallOver
      <4> QED
        BY <3>4, <4>1, IntentOfType, WriterAssumption
    <3>15. u.stored[d] = StoredForm(after)
      BY <1>6, <2>2, <3>8
    <3>16. u.stored[d] # Keep
      <4>1. after \in Row
        BY <1>2, <3>5, ApplyIntentType DEF Batch
      <4> QED
        BY <3>15, <4>1, StoredFormType, WriterAssumption
    <3> QED
      BY <3>13, <3>14, <3>15, <3>16
  <2> QED
    BY <2>1, <2>2
<1> QED
  BY <1>7, <1>8 DEF Delivers, u

-----------------------------------------------------------------------------
(***************************************************************************)
(* Consistency is inductive when callers keep "locks".  A step flushes a   *)
(* batch that delivers, or only changes buffers and calls.                 *)
(***************************************************************************)

\* A flush of a batch that touches no document of a loaded call or of a buffer
\* that survives the step.
LEMMA FlushConsistent ==
  ASSUME Consistency, TypeOK', ExclusiveUse',
         NEW b \in Batch, Delivers(b), FlushBuffer(b),
         \A x \in Writer : Loaded(x)' =>
           Loaded(x) /\ call'[x] = call[x] /\ DOMAIN call[x].docs \cap Touched(b) = {},
         \A x \in Writer : \/ buffer'[x] = EmptyBatch
                           \/ /\ buffer'[x] = buffer[x]
                              /\ Touched(buffer[x]) \cap Touched(b) = {}
  PROVE  Consistency'
<1>1. TypeOK /\ StoredMatches /\ LoadedIsCurrent /\ BufferConsistent
  BY DEF Consistency
<1>2. StoredMatches' /\ Findable'
  BY <1>1, FlushKeeps
<1>3. ASSUME NEW x \in Writer, Loaded(x)', NEW d \in DOMAIN call'[x].docs
      PROVE  /\ d \in DocID
             /\ call'[x].old[d] = IF call'[x].mode = "AddWithoutRead" THEN NoDoc ELSE stored'[d]
             /\ call'[x].mode = "Add" => stored'[d] = NoDoc
             /\ call'[x].mode = "Update" => stored'[d] # NoDoc
  <2>1. Loaded(x) /\ call'[x] = call[x] /\ d \in DOMAIN call[x].docs /\ d \notin Touched(b)
    BY <1>3
  <2>2. d \in DocID
    BY <1>1, <2>1 DEF LoadedIsCurrent
  <2>3. stored'[d] = stored[d]
    BY <1>1, <2>1, <2>2, FlushLeaves
  <2> QED
    BY <1>1, <2>1, <2>2, <2>3 DEF LoadedIsCurrent
<1>4. LoadedIsCurrent'
  BY <1>3 DEF LoadedIsCurrent
<1>5. ASSUME NEW x \in Writer
      PROVE  Delivers(buffer[x])'
  <2>1. CASE buffer'[x] = EmptyBatch
    BY <1>2, <2>1 DEF Findable, Delivers, EmptyBatch, ApplyIntent
  <2>2. CASE buffer'[x] = buffer[x] /\ Touched(buffer[x]) \cap Touched(b) = {}
    <3>1. PICK a \in Batch : a = buffer[x]
      BY <1>1 DEF TypeOK
    <3>2. Delivers(a) /\ Touched(a) \cap Touched(b) = {}
      BY <1>1, <2>2, <3>1 DEF BufferConsistent
    <3>3. Delivers(a)'
      BY <1>1, <1>2, <3>2, DeliversStable
    <3> QED
      BY <2>2, <3>1, <3>3 DEF Delivers
  <2> QED
    BY <2>1, <2>2
<1> QED
  BY <1>2, <1>4, <1>5 DEF Consistency, BufferConsistent

\* A step that leaves the columns alone.
LEMMA QuietConsistent ==
  ASSUME Consistency, TypeOK', ExclusiveUse', UNCHANGED <<columns, content>>,
         LoadedIsCurrent', \A x \in Writer : Delivers(buffer'[x])
  PROVE  Consistency'
BY DEF Consistency, columns, StoredMatches, Findable, BufferConsistent, Delivers

\* A call that starts holds documents nobody else holds.
LEMMA LoadExclusive ==
  ASSUME Consistency, "locks" \in Contract, NEW w \in Writer, NEW mode \in Modes,
         NEW buffered, NEW docs, NEW bad, Load(w, mode, docs, buffered, bad)
  PROVE  ExclusiveUse'
<1>1. call[w] = Idle /\ UNCHANGED buffer
  BY DEF Load
<1>2. \A x \in Writer : DOMAIN docs \cap Busy(x) = {}
  BY DEF Load, Free
<1>3. call'[w].docs = docs /\ \A x \in Writer : x # w => call'[x] = call[x]
  BY DEF Load, Consistency, TypeOK
<1>4. \A x \in Writer : Touched(buffer[x])' = Touched(buffer[x])
  BY <1>1 DEF Touched
<1>5. \A x \in Writer : x # w => Busy(x)' = Busy(x)
  BY <1>3, <1>4 DEF Busy
<1>6. Busy(w)' \subseteq DOMAIN docs \cup Busy(w)
  BY <1>1, <1>3, <1>4 DEF Busy
<1>7. \A x, y \in Writer : x # y => Busy(x) \cap Busy(y) = {}
  BY DEF Consistency, ExclusiveUse
<1>8. \A x, y \in Writer : x # y => Busy(x)' \cap Busy(y)' = {}
  BY <1>2, <1>5, <1>6, <1>7
<1>9. ASSUME NEW x \in Writer, Loaded(x)'
      PROVE  DOMAIN call'[x].docs \cap Touched(buffer[x])' = {}
  <2>1. CASE x = w
    BY <1>2, <1>3, <1>4, <2>1 DEF Busy
  <2>2. CASE x # w
    BY <1>3, <1>4, <1>9, <2>2 DEF Consistency, ExclusiveUse, Loaded
  <2> QED
    BY <2>1, <2>2
<1> QED
  BY <1>8, <1>9 DEF ExclusiveUse

\* What a call that starts has read is what the database holds.
LEMMA LoadCurrent ==
  ASSUME Consistency, NEW w \in Writer, NEW mode \in Modes, NEW buffered,
         NEW ds \in SUBSET (DocID \cup {ZeroID}), NEW docs \in [ds -> Inputs],
         NEW bad, Load(w, mode, docs, buffered, bad)
  PROVE  LoadedIsCurrent'
<1>1. UNCHANGED stored /\ DOMAIN docs = ds
  BY DEF Load, columns
<1>2. \A x \in Writer : x # w => call'[x] = call[x]
  BY DEF Load, Consistency, TypeOK
<1> SUFFICES ASSUME NEW x \in Writer, Loaded(x)', NEW d \in DOMAIN call'[x].docs
             PROVE  /\ d \in DocID
                    /\ call'[x].old[d] = IF call'[x].mode = "AddWithoutRead" THEN NoDoc
                                         ELSE stored[d]
                    /\ call'[x].mode = "Add" => stored[d] = NoDoc
                    /\ call'[x].mode = "Update" => stored[d] # NoDoc
  BY <1>1 DEF LoadedIsCurrent
<1>3. CASE x # w
  BY <1>2, <1>3 DEF Consistency, LoadedIsCurrent, Loaded
<1>4. CASE x = w
  <2> DEFINE ok == Accepts(ds) /\ \A e \in ds : ~FailsBatch(mode, MultiGet(e, bad))
  <2>1. /\ call'[w].phase = IF ok THEN "loaded" ELSE "done"
        /\ call'[w].mode = mode
        /\ call'[w].docs = docs
        /\ call'[w].old = [e \in ds |-> IF mode \in ReadModes /\ e \in DocID
                                        THEN stored[e] ELSE NoDoc]
    BY <1>1 DEF Load, Consistency, TypeOK
  <2>2. ok /\ d \in ds
    BY <1>1, <1>4, <2>1 DEF Loaded
  <2>3. d \in DocID
    BY <2>2 DEF Accepts
  <2>4. mode # "AddWithoutRead" <=> mode \in ReadModes
    BY WriterAssumption DEF ReadModes, WriteModes
  <2>5. ~FailsBatch(mode, MultiGet(d, bad))
    BY <2>2
  <2>6. (mode = "Add" => stored[d] = NoDoc) /\ (mode = "Update" => stored[d] # NoDoc)
    BY <2>3, <2>5 DEF FailsBatch, MultiGet
  <2> QED
    BY <1>4, <2>1, <2>2, <2>3, <2>4, <2>6
<1> QED
  BY <1>3, <1>4

\* Writers that give documents up, or take ones that nobody holds (S, by w),
\* keep their use exclusive.
LEMMA ExclusiveKept ==
  ASSUME ExclusiveUse, NEW w \in Writer, NEW S,
         \A x \in Writer : S \cap Busy(x) = {},
         \A x \in Writer : Busy(x)' \subseteq Busy(x) \cup (IF x = w THEN S ELSE {}),
         \A x \in Writer : Loaded(x)' =>
           /\ Loaded(x) /\ call'[x] = call[x]
           /\ Touched(buffer[x])' \subseteq Touched(buffer[x])
  PROVE  ExclusiveUse'
<1>1. \A x, y \in Writer : x # y => Busy(x) \cap Busy(y) = {}
  BY DEF ExclusiveUse
<1>2. \A x, y \in Writer : x # y => Busy(x)' \cap Busy(y)' = {}
  BY <1>1
<1>3. \A x \in Writer : Loaded(x) => DOMAIN call[x].docs \cap Touched(buffer[x]) = {}
  BY DEF ExclusiveUse
<1>4. \A x \in Writer : Loaded(x)' => DOMAIN call'[x].docs \cap Touched(buffer[x])' = {}
  BY <1>3
<1> QED
  BY <1>2, <1>4 DEF ExclusiveUse

\* The case where no writer takes a document.
LEMMA ExclusiveShrinks ==
  ASSUME ExclusiveUse,
         \A x \in Writer : Busy(x)' \subseteq Busy(x),
         \A x \in Writer : Loaded(x)' =>
           /\ Loaded(x) /\ call'[x] = call[x]
           /\ Touched(buffer[x])' \subseteq Touched(buffer[x])
  PROVE  ExclusiveUse'
<1>1. CASE Writer = {}
  BY <1>1 DEF ExclusiveUse
<1>2. CASE Writer # {}
  <2>1. PICK w \in Writer : TRUE
    BY <1>2
  <2>2. \A x \in Writer : {} \cap Busy(x) = {}
    OBVIOUS
  <2>3. \A x \in Writer : Busy(x)' \subseteq Busy(x) \cup (IF x = w THEN {} ELSE {})
    OBVIOUS
  <2> QED
    BY <2>2, <2>3, ExclusiveKept
<1> QED
  BY <1>1, <1>2

\* A call ends or returns, or a writer's process stops, writing nothing.
LEMMA EndConsistent ==
  ASSUME Consistency, TypeOK', UNCHANGED <<columns, content>>,
         \A x \in Writer : buffer'[x] \in {buffer[x], EmptyBatch},
         \A x \in Writer :
           \/ call'[x] = call[x] /\ buffer'[x] = buffer[x]
           \/ /\ ~Loaded(x)'
              /\ \/ call'[x] = Idle
                 \/ call[x] # Idle /\ DOMAIN call'[x].docs = DOMAIN call[x].docs
  PROVE  Consistency'
<1>1. Findable /\ ExclusiveUse /\ BufferConsistent /\ LoadedIsCurrent
  BY DEF Consistency
<1>2. Delivers(EmptyBatch) /\ Touched(EmptyBatch) = {}
  BY <1>1, EmptyBatchDelivers
<1>3. \A x \in Writer : Delivers(buffer'[x])
  BY <1>1, <1>2 DEF BufferConsistent
<1>4. ASSUME NEW x \in Writer
      PROVE  Touched(buffer[x])' \subseteq Touched(buffer[x])
  <2>1. Touched(buffer[x])' = Touched(buffer'[x])
    BY DEF Touched
  <2> QED
    BY <1>2, <2>1
<1>5. \A x \in Writer : Busy(x)' \subseteq Busy(x)
  BY <1>4 DEF Busy
<1>6. \A x \in Writer : Loaded(x)' => Loaded(x) /\ call'[x] = call[x]
  BY DEF Loaded
<1>7. ExclusiveUse'
  BY <1>1, <1>4, <1>5, <1>6, ExclusiveShrinks
<1>8. LoadedIsCurrent'
  BY <1>1, <1>6 DEF LoadedIsCurrent, columns
<1> QED
  BY <1>3, <1>7, <1>8, QuietConsistent

\* The steps of Write.
LEMMA WriteConsistent ==
  ASSUME Consistency, TypeOK', NEW w \in Writer, Write(w)
  PROVE  Consistency'
<1> DEFINE c == call[w]
           b == NewWriteBuffer(w, c.buffered)
           u == UpdateDocuments(c, b)
<1>1. /\ TypeOK /\ Findable /\ StoredMatches /\ ExclusiveUse
      /\ BufferConsistent /\ LoadedIsCurrent
  BY DEF Consistency
<1>2. Loaded(w) /\ c # Idle /\ c.phase = "loaded" /\ CallOK(c) /\ c.buffered \in BOOLEAN
  BY <1>1 DEF Write, Loaded, TypeOK, CallOK, CallOver
<1>3. DOMAIN c.docs \subseteq Busy(w) /\ Touched(buffer[w]) \subseteq Busy(w)
  BY <1>2 DEF Busy
<1>4. Delivers(EmptyBatch) /\ Touched(EmptyBatch) = {}
  BY <1>1, EmptyBatchDelivers
<1>5. b \in Batch /\ Delivers(b) /\ DOMAIN c.docs \cap Touched(b) = {}
  BY <1>1, <1>2, <1>4, EmptyBatchType
     DEF NewWriteBuffer, TypeOK, BufferConsistent, ExclusiveUse
<1>6. \A d \in DOMAIN c.docs :
        /\ d \in DocID
        /\ c.old[d] = IF c.mode = "AddWithoutRead" THEN NoDoc ELSE stored[d]
        /\ c.mode = "Add" => stored[d] = NoDoc
  BY <1>1, <1>2 DEF LoadedIsCurrent
<1>7. Delivers(u) /\ Touched(u) \subseteq Touched(b) \cup DOMAIN c.docs
  BY <1>1, <1>2, <1>5, <1>6, UpdateDelivers
<1>8. u \in Batch
  BY <1>2, <1>5, UpdateDocumentsType
<1>9. Commit(w, c.buffered, u) /\ Finish(w, TRUE, c.status)
  BY DEF Write
<1>10. /\ call'[w].phase = "done" /\ call'[w].docs = c.docs
       /\ \A x \in Writer : x # w => call'[x] = call[x]
  BY <1>1, <1>9 DEF Finish, TypeOK
<1>11. \A x \in Writer : Loaded(x)' => x # w /\ Loaded(x) /\ call'[x] = call[x]
  BY <1>10 DEF Loaded
<1>12. ASSUME NEW x \in Writer
       PROVE  /\ x # w => Busy(x) \cap DOMAIN c.docs = {}
              /\ Touched(buffer[x])' = Touched(buffer'[x])
  BY <1>1, <1>3 DEF ExclusiveUse, Touched
<1> HIDE DEF u
<1>13. CASE c.buffered
  <2>1. buffer' = [buffer EXCEPT ![w] = u] /\ UNCHANGED <<columns, content>> /\ b = buffer[w]
    BY <1>9, <1>13 DEF Commit, NewWriteBuffer
  <2>2. \A x \in Writer : buffer'[x] = IF x = w THEN u ELSE buffer[x]
    BY <1>1, <2>1 DEF TypeOK
  <2>3. \A x \in Writer : Delivers(buffer'[x])
    BY <1>1, <1>7, <2>2 DEF BufferConsistent
  <2>4. Busy(w)' \subseteq Busy(w)
    BY <1>2, <1>3, <1>7, <1>10, <1>12, <2>1, <2>2 DEF Busy
  <2>5. \A x \in Writer : x # w =>
          Busy(x)' = Busy(x) /\ Touched(buffer[x])' \subseteq Touched(buffer[x])
    BY <1>10, <1>12, <2>2 DEF Busy
  <2>6. ExclusiveUse'
    BY <1>1, <1>11, <2>4, <2>5, ExclusiveShrinks
  <2>7. LoadedIsCurrent'
    BY <1>1, <1>11, <2>1 DEF LoadedIsCurrent, columns
  <2> QED
    BY <2>1, <2>3, <2>6, <2>7, QuietConsistent
<1>14. CASE ~c.buffered
  <2>1. FlushBuffer(u) /\ UNCHANGED buffer /\ b = EmptyBatch
    BY <1>9, <1>14 DEF Commit, NewWriteBuffer
  <2>2. Touched(u) \subseteq DOMAIN c.docs
    BY <1>4, <1>7, <2>1
  <2>3. Busy(w)' \subseteq Busy(w)
    BY <1>2, <1>3, <1>10, <1>12, <2>1 DEF Busy
  <2>4. \A x \in Writer : x # w =>
          Busy(x)' = Busy(x) /\ Touched(buffer[x])' \subseteq Touched(buffer[x])
    BY <1>10, <1>12, <2>1 DEF Busy
  <2>5. ExclusiveUse'
    BY <1>1, <1>11, <2>3, <2>4, ExclusiveShrinks
  <2>6. \A x \in Writer : Loaded(x)' =>
          Loaded(x) /\ call'[x] = call[x] /\ DOMAIN call[x].docs \cap Touched(u) = {}
    BY <1>11, <1>12, <2>2 DEF Busy, Loaded
  <2>7. \A x \in Writer : Touched(buffer[x]) \cap Touched(u) = {}
    <3>1. Touched(buffer[w]) \cap DOMAIN c.docs = {}
      BY <1>1, <1>2 DEF ExclusiveUse
    <3>2. \A x \in Writer : x # w => Touched(buffer[x]) \cap DOMAIN c.docs = {}
      BY <1>12 DEF Busy
    <3> QED
      BY <2>2, <3>1, <3>2
  <2> QED
    BY <1>7, <1>8, <2>1, <2>5, <2>6, <2>7, FlushConsistent
<1> QED
  BY <1>2, <1>13, <1>14

\* An operation without a read, of an idle writer, on documents S nobody holds.
LEMMA TakeConsistent ==
  ASSUME Consistency, TypeOK', NEW w \in Writer, NEW buffered \in BOOLEAN,
         call[w] = Idle, UNCHANGED call, NEW S, \A x \in Writer : S \cap Busy(x) = {},
         NEW b \in Batch, Delivers(b), Commit(w, buffered, b),
         Touched(b) \subseteq Touched(NewWriteBuffer(w, buffered)) \cup S
  PROVE  Consistency'
<1>1. TypeOK /\ Findable /\ ExclusiveUse /\ BufferConsistent /\ LoadedIsCurrent
  BY DEF Consistency
<1>2. \A x \in Writer : Loaded(x)' => x # w /\ Loaded(x) /\ call'[x] = call[x]
  BY DEF Loaded
<1>3. \A x \in Writer : Touched(buffer[x])' = Touched(buffer'[x])
  BY DEF Touched
<1>4. CASE buffered
  <2>1. /\ buffer' = [buffer EXCEPT ![w] = b] /\ UNCHANGED <<columns, content>>
        /\ Touched(b) \subseteq Touched(buffer[w]) \cup S
    BY <1>4 DEF Commit, NewWriteBuffer
  <2>2. \A x \in Writer : buffer'[x] = IF x = w THEN b ELSE buffer[x]
    BY <1>1, <2>1 DEF TypeOK
  <2>3. \A x \in Writer : Delivers(buffer'[x])
    BY <1>1, <2>2 DEF BufferConsistent
  <2>4. \A x \in Writer : Busy(x)' \subseteq Busy(x) \cup (IF x = w THEN S ELSE {})
    BY <1>3, <2>1, <2>2 DEF Busy
  <2>5. \A x \in Writer : Loaded(x)' =>
          /\ Loaded(x) /\ call'[x] = call[x]
          /\ Touched(buffer[x])' \subseteq Touched(buffer[x])
    BY <1>2, <1>3, <2>2
  <2>6. ExclusiveUse'
    BY <1>1, <2>4, <2>5, ExclusiveKept
  <2>7. LoadedIsCurrent'
    BY <1>1, <1>2, <2>1 DEF LoadedIsCurrent, columns
  <2> QED
    BY <2>1, <2>3, <2>6, <2>7, QuietConsistent
<1>5. CASE ~buffered
  <2>1. FlushBuffer(b) /\ UNCHANGED buffer
    BY <1>5 DEF Commit
  <2>2. Touched(b) \subseteq S
    BY <1>1, <1>5, EmptyBatchDelivers DEF NewWriteBuffer
  <2>3. \A x \in Writer : Busy(x)' = Busy(x) /\ Touched(buffer[x])' = Touched(buffer[x])
    BY <1>3, <2>1 DEF Busy
  <2>4. ExclusiveUse'
    BY <1>1, <1>2, <2>3, ExclusiveShrinks
  <2>5. \A x \in Writer : Loaded(x)' =>
          Loaded(x) /\ call'[x] = call[x] /\ DOMAIN call[x].docs \cap Touched(b) = {}
    BY <1>2, <2>2 DEF Busy, Loaded
  <2>6. \A x \in Writer : buffer'[x] = buffer[x] /\ Touched(buffer[x]) \cap Touched(b) = {}
    BY <2>1, <2>2 DEF Busy
  <2> QED
    BY <2>1, <2>4, <2>5, <2>6, FlushConsistent
<1> QED
  BY <1>4, <1>5

\* The batch an operation starts from delivers.
LEMMA NewWriteBufferDelivers ==
  ASSUME Consistency, NEW w \in Writer, NEW buffered \in BOOLEAN
  PROVE  NewWriteBuffer(w, buffered) \in Batch /\ Delivers(NewWriteBuffer(w, buffered))
BY EmptyBatchType, EmptyBatchDelivers
   DEF Consistency, TypeOK, BufferConsistent, NewWriteBuffer

\* The steps of IngestInvertIndex: more postings hide nothing.
LEMMA IngestConsistent ==
  ASSUME Consistency, TypeOK', "locks" \in Contract, NEW w \in Writer,
         NEW buffered \in BOOLEAN, NEW items \in Ingests,
         IngestInvertIndex(w, items, buffered)
  PROVE  Consistency'
<1> DEFINE b0 == NewWriteBuffer(w, buffered)
           b  == [b0 EXCEPT !.add = @ \cup items, !.del = @ \ items]
           S  == {p[1] : p \in items}
<1>1. b0 \in Batch /\ Delivers(b0)
  BY NewWriteBufferDelivers
<1>2. items \subseteq Posting
  BY WriterAssumption DEF Posting
<1>3. /\ b.stored = b0.stored /\ b.intent = b0.intent
      /\ b.add = b0.add \cup items /\ b.del = b0.del \ items /\ b \in Batch
  BY <1>1, <1>2 DEF Batch
<1>4. /\ call[w] = Idle /\ UNCHANGED call /\ Commit(w, buffered, b)
      /\ \A x \in Writer : S \cap Busy(x) = {}
  BY DEF IngestInvertIndex, Free
<1> HIDE DEF b, b0
<1>5. ASSUME NEW d \in DocID
      PROVE  (inverted \ b0.del) \cup b0.add \subseteq (inverted \ b.del) \cup b.add
  BY <1>3
<1>6. Delivers(b)
  BY <1>1, <1>3, <1>5 DEF Delivers
<1>7. Touched(b) \subseteq Touched(b0) \cup S
  BY <1>3 DEF Touched
<1> HIDE DEF S
<1> QED
  BY <1>3, <1>4, <1>6, <1>7, TakeConsistent DEF b0

\* The steps of DropTable.
LEMMA DropConsistent ==
  ASSUME Consistency, TypeOK', "locks" \in Contract, LastDocID \notin DocID,
         NEW w \in Writer, NEW buffered \in BOOLEAN, DropTable(w, buffered)
  PROVE  Consistency'
<1> DEFINE b0 == NewWriteBuffer(w, buffered)
           gone == [keep |-> FALSE, doc |-> NoDoc]
           b == [stored   |-> DropRange(b0.stored),
                 docvalue |-> DropRange(b0.docvalue),
                 add      |-> {},
                 del      |-> Posting,
                 intent   |-> [d \in DocID |-> gone]]
<1>1. b0 \in Batch
  BY NewWriteBufferDelivers
<1>2. b \in Batch
  BY <1>1 DEF Batch, DropRange, Intent, Row
<1>3. gone # Keep /\ NoDoc # Keep
  <2>1. gone \in Intent /\ NoDoc \in Row
    BY DEF Intent, Row
  <2> QED
    BY <2>1, WriterAssumption
<1>4. \A d \in DocID : b.stored[d] = NoDoc /\ b.intent[d] = gone
  BY DEF DropRange
<1>5. \A d \in DocID : ApplyIntent(b.intent[d], content[d]) = NoDoc
  BY <1>3, <1>4 DEF ApplyIntent
<1>6. /\ call[w] = Idle /\ UNCHANGED call /\ Commit(w, buffered, b)
      /\ \A x \in Writer : DocID \cap Busy(x) = {}
  BY DEF DropTable, Free
<1> HIDE DEF b, gone
<1>7. Delivers(b)
  BY <1>3, <1>4, <1>5 DEF Delivers, StoredForm, Postings
<1>8. Touched(b) \subseteq Touched(b0) \cup DocID
  BY DEF Touched
<1> QED
  BY <1>2, <1>6, <1>7, <1>8, TakeConsistent

\* The caller flushes its buffer.
LEMMA FlushStoreConsistent ==
  ASSUME Consistency, TypeOK', NEW w \in Writer, FlushStoreBuffer(w)
  PROVE  Consistency'
<1>1. TypeOK /\ Findable /\ ExclusiveUse /\ BufferConsistent
  BY DEF Consistency
<1>2. PICK b \in Batch : b = buffer[w]
  BY <1>1 DEF TypeOK
<1>3. Delivers(b) /\ FlushBuffer(b) /\ UNCHANGED call /\ call[w] = Idle
  BY <1>1, <1>2 DEF BufferConsistent, FlushStoreBuffer
<1>4. \A x \in Writer : buffer'[x] = IF x = w THEN EmptyBatch ELSE buffer[x]
  BY <1>1 DEF FlushStoreBuffer, TypeOK
<1>5. \A x \in Writer : Touched(buffer[x])' = Touched(buffer'[x])
  BY DEF Touched
<1>6. \A x \in Writer : Touched(buffer[x])' \subseteq Touched(buffer[x])
  BY <1>1, <1>4, <1>5, EmptyBatchDelivers
<1>7. \A x \in Writer : Busy(x)' \subseteq Busy(x)
  BY <1>3, <1>6 DEF Busy
<1>8. \A x \in Writer : Loaded(x)' => x # w /\ Loaded(x) /\ call'[x] = call[x]
  BY <1>3 DEF Loaded
<1>9. ExclusiveUse'
  BY <1>1, <1>6, <1>7, <1>8, ExclusiveShrinks
<1>10. \A x \in Writer : x # w => Busy(x) \cap Touched(b) = {}
  BY <1>1, <1>2 DEF ExclusiveUse, Busy
<1>11. \A x \in Writer : Loaded(x)' =>
         Loaded(x) /\ call'[x] = call[x] /\ DOMAIN call[x].docs \cap Touched(b) = {}
  BY <1>8, <1>10 DEF Busy, Loaded
<1>12. \A x \in Writer : \/ buffer'[x] = EmptyBatch
                         \/ buffer'[x] = buffer[x] /\ Touched(buffer[x]) \cap Touched(b) = {}
  BY <1>4, <1>10 DEF Busy
<1> QED
  BY <1>3, <1>9, <1>11, <1>12, FlushConsistent

\* Every step keeps Consistency.
LEMMA ConsistencyStep ==
  ASSUME "locks" \in Contract, LastDocID \notin DocID, Consistency, [Next]_vars
  PROVE  Consistency'
<1>1. TypeOK /\ TypeOK'
  BY TypeStep DEF Consistency
<1>2. ASSUME NEW w \in Writer, NEW mode \in Modes, NEW buffered \in BufferChoice,
             NEW ds \in Batches, NEW docs \in [ds -> Inputs], NEW bad \in BadReads(ds),
             Load(w, mode, docs, buffered, bad)
      PROVE  Consistency'
  <2>1. ds \in SUBSET (DocID \cup {ZeroID})
    BY DEF Batches
  <2>2. ExclusiveUse'
    BY <1>2, LoadExclusive
  <2>3. LoadedIsCurrent'
    BY <1>2, <2>1, LoadCurrent
  <2>4. UNCHANGED <<columns, content>> /\ UNCHANGED buffer
    BY <1>2 DEF Load
  <2>5. \A x \in Writer : Delivers(buffer'[x])
    BY <2>4 DEF Consistency, BufferConsistent
  <2> QED
    BY <1>1, <2>2, <2>3, <2>4, <2>5, QuietConsistent
<1>3. ASSUME NEW w \in Writer, Write(w)
      PROVE  Consistency'
  BY <1>1, <1>3, WriteConsistent
<1>4. ASSUME NEW w \in Writer,
             \/ \E d \in DocID : TokenizerFails(w, d)
             \/ BatchTooLarge(w)
             \/ FlushFails(w)
             \/ Return(w)
      PROVE  Consistency'
  <2>1. call[w] # Idle /\ UNCHANGED <<columns, content>> /\ UNCHANGED buffer
    BY <1>4 DEF TokenizerFails, BatchTooLarge, FlushFails, Return
  <2>2. \A x \in Writer : x # w => call'[x] = call[x]
    BY <1>1, <1>4 DEF TokenizerFails, BatchTooLarge, FlushFails, Return, Finish, TypeOK
  <2>3. \/ call'[w] = Idle
        \/ call'[w].phase = "done" /\ call'[w].docs = call[w].docs
    <3>1. ASSUME NEW ok, NEW status, Finish(w, ok, status)
          PROVE  call'[w].phase = "done" /\ call'[w].docs = call[w].docs
      BY <1>1, <3>1 DEF Finish, TypeOK
    <3>2. CASE Return(w)
      BY <1>1, <3>2 DEF Return, TypeOK
    <3> QED
      BY <1>4, <3>1, <3>2 DEF TokenizerFails, BatchTooLarge, FlushFails
  <2> QED
    BY <1>1, <2>1, <2>2, <2>3, EndConsistent DEF Loaded
<1>5. ASSUME NEW w \in Writer, FlushStoreBuffer(w)
      PROVE  Consistency'
  BY <1>1, <1>5, FlushStoreConsistent
<1>6. ASSUME NEW w \in Writer, NEW buffered \in BufferChoice, NEW items \in Ingests,
             IngestInvertIndex(w, items, buffered)
      PROVE  Consistency'
  BY <1>1, <1>6, IngestConsistent DEF BufferChoice
<1>7. ASSUME NEW w \in Writer, NEW buffered \in BufferChoice, DropTable(w, buffered)
      PROVE  Consistency'
  BY <1>1, <1>7, DropConsistent DEF BufferChoice
<1>8. CASE Crash
  <2>1. /\ UNCHANGED <<columns, content>>
        /\ \A x \in Writer : call'[x] = Idle /\ buffer'[x] = EmptyBatch
    BY <1>8 DEF Crash
  <2> QED
    BY <1>1, <2>1, EndConsistent DEF Loaded
<1>9. CASE UNCHANGED vars
  BY <1>9 DEF vars, columns, Consistency, TypeOK, ExclusiveUse, LoadedIsCurrent,
              BufferConsistent, Delivers, StoredMatches, Findable, Loaded, Busy, Touched
<1> QED
  BY <1>2, <1>3, <1>4, <1>5, <1>6, <1>7, <1>8, <1>9 DEF Next

\* Initially nothing is stored and nobody holds a document.
LEMMA ConsistencyInit == Init => Consistency
<1> SUFFICES ASSUME Init PROVE Consistency
  OBVIOUS
<1>1. TypeOK
  BY EmptyBatchType DEF Init, TypeOK, Row
<1>2. StoredMatches /\ Findable
  BY DEF Init, StoredMatches, Findable, StoredForm, Postings
<1>3. Delivers(EmptyBatch) /\ Touched(EmptyBatch) = {}
  BY <1>2, EmptyBatchDelivers
<1>4. ExclusiveUse /\ LoadedIsCurrent
  BY <1>3 DEF Init, ExclusiveUse, LoadedIsCurrent, Loaded, Busy
<1>5. BufferConsistent
  BY <1>3 DEF Init, BufferConsistent
<1> QED
  BY <1>1, <1>2, <1>4, <1>5 DEF Consistency

\* If callers never have two unfinished calls or unflushed buffers for one
\* document, the inductive invariant holds of every behaviour.
THEOREM ConsistencyInvariant ==
  ASSUME "locks" \in Contract, LastDocID \notin DocID
  PROVE  Spec => []Consistency
<1>1. Init => Consistency
  BY ConsistencyInit
<1>2. Consistency /\ [Next]_vars => Consistency'
  BY ConsistencyStep
<1> QED
  BY <1>1, <1>2, PTL DEF Spec

\* Under that contract no field of a committed write is lost.
THEOREM StoredCorrect ==
  ASSUME "locks" \in Contract, LastDocID \notin DocID
  PROVE  Spec => []StoredMatches
<1>1. Consistency => StoredMatches
  BY DEF Consistency
<1> QED
  BY <1>1, ConsistencyInvariant, PTL

\* Under that contract every document is findable by all of its terms, also by
\* those the stored column does not keep.
THEOREM FindableCorrect ==
  ASSUME "locks" \in Contract, LastDocID \notin DocID
  PROVE  Spec => []Findable
<1>1. Consistency => Findable
  BY DEF Consistency
<1> QED
  BY <1>1, ConsistencyInvariant, PTL

\* Under that contract a store_buffer keeps its promise however late it is
\* flushed.
THEOREM BufferCorrect ==
  ASSUME "locks" \in Contract, LastDocID \notin DocID
  PROVE  Spec => []BufferConsistent
<1>1. Consistency => BufferConsistent
  BY DEF Consistency
<1> QED
  BY <1>1, ConsistencyInvariant, PTL

\* Under that contract AddDocuments never overwrites a document.
THEOREM AddCorrect ==
  ASSUME "locks" \in Contract, LastDocID \notin DocID
  PROVE  Spec => AddOnlyIfAbsent
<1>1. Consistency /\ [Next]_vars =>
        [\A w \in Writer : Flushes(w) /\ call[w].mode = "Add" =>
           \A d \in DOMAIN call[w].docs : stored[d] = NoDoc]_vars
  BY DEF Consistency, LoadedIsCurrent, Loaded, Flushes
<1> QED
  BY <1>1, ConsistencyInvariant, PTL DEF Spec, AddOnlyIfAbsent

\* Under that contract UpdateDocuments never creates a document.
THEOREM UpdateCorrect ==
  ASSUME "locks" \in Contract, LastDocID \notin DocID
  PROVE  Spec => UpdateOnlyIfPresent
<1>1. Consistency /\ [Next]_vars =>
        [\A w \in Writer : Flushes(w) /\ call[w].mode = "Update" =>
           \A d \in DOMAIN call[w].docs : stored[d] # NoDoc]_vars
  BY DEF Consistency, LoadedIsCurrent, Loaded, Flushes
<1> QED
  BY <1>1, ConsistencyInvariant, PTL DEF Spec, UpdateOnlyIfPresent

\* Under that contract what a call read is still what the database holds when
\* its batch is written, however many calls ran in between.
THEOREM LoadedCorrect ==
  ASSUME "locks" \in Contract, LastDocID \notin DocID
  PROVE  Spec => []LoadedIsCurrent
<1>1. Consistency => LoadedIsCurrent
  BY DEF Consistency
<1> QED
  BY <1>1, ConsistencyInvariant, PTL

-----------------------------------------------------------------------------
(***************************************************************************)
(* The status a caller gets.  No contract is needed.                       *)
(***************************************************************************)

\* A document of a call that can still succeed is OK, or is a missing one that
\* was to be deleted.
Promising(c, d) ==
  c.status[d] = "OK" \/ (c.mode = "Delete" /\ c.status[d] = "NotExist")

\* Reported, and on its way to be.
OutcomeInv ==
  /\ TypeOK
  /\ \A w \in Writer : Loaded(w) => \A d \in DOMAIN call[w].docs : Promising(call[w], d)
  /\ OutcomeReported

\* What OutcomeInv says of one call.
CallReports(c) ==
  \A d \in DOMAIN c.docs :
    IF c.phase = "loaded" \/ c.ok THEN Promising(c, d) ELSE c.status[d] # "OK"

\* OutcomeInv, call by call.
LEMMA OutcomeByCall ==
  ASSUME TypeOK
  PROVE  OutcomeInv <=> \A w \in Writer : call[w] # Idle => CallReports(call[w])
<1>1. \A w \in Writer : call[w] # Idle => call[w].phase \in {"loaded", "done"}
  BY DEF TypeOK, CallOK, CallOver
<1> QED
  BY <1>1 DEF OutcomeInv, OutcomeReported, CallReports, Promising, Loaded

\* The statuses a call starts with.
LEMMA LoadReports ==
  ASSUME TypeOK, NEW w \in Writer, NEW mode \in Modes, NEW buffered,
         NEW ds \in SUBSET (DocID \cup {ZeroID}), NEW docs \in [ds -> Inputs],
         NEW bad, Load(w, mode, docs, buffered, bad)
  PROVE  CallReports(call'[w])
<1> DEFINE status == [d \in ds |-> UpdateDocumetStatus(mode, d, MultiGet(d, bad))]
           ok == Accepts(ds) /\ \A d \in ds : ~FailsBatch(mode, MultiGet(d, bad))
<1>1. DOMAIN docs = ds
  OBVIOUS
<1>2. /\ call'[w].phase = (IF ok THEN "loaded" ELSE "done") /\ call'[w].ok = ok
      /\ call'[w].mode = mode /\ call'[w].docs = docs
      /\ call'[w].status = FinalStatus(ok, status)
  BY <1>1 DEF Load, TypeOK
<1>3. CASE ok
  <2>1. \A d \in ds : FinalStatus(ok, status)[d] = status[d]
    BY <1>3 DEF FinalStatus
  <2>2. \A d \in ds : d # ZeroID /\ ~FailsBatch(mode, MultiGet(d, bad))
    BY <1>3 DEF Accepts
  <2>3. \A d \in ds : status[d] = "OK" \/ (mode = "Delete" /\ status[d] = "NotExist")
    BY <2>2 DEF UpdateDocumetStatus
  <2> HIDE DEF ok, status
  <2> QED
    BY <1>1, <1>2, <1>3, <2>1, <2>3 DEF CallReports, Promising
<1>4. CASE ~ok
  <2>1. \A d \in ds : FinalStatus(ok, status)[d] # "OK"
    BY <1>4 DEF FinalStatus
  <2> HIDE DEF ok, status
  <2> QED
    BY <1>1, <1>2, <1>4, <2>1 DEF CallReports
<1> QED
  BY <1>3, <1>4

\* The statuses a call ends with: those it had, or no OK at all.
LEMMA FinishReports ==
  ASSUME TypeOK, NEW w \in Writer, call[w] # Idle, NEW ok \in BOOLEAN, NEW status,
         DOMAIN status = DOMAIN call[w].docs, Finish(w, ok, status),
         ok => status = call[w].status /\ Loaded(w) /\ CallReports(call[w])
  PROVE  CallReports(call'[w])
<1>1. /\ call'[w].phase = "done" /\ call'[w].ok = ok /\ call'[w].mode = call[w].mode
      /\ call'[w].docs = call[w].docs /\ call'[w].status = FinalStatus(ok, status)
  BY DEF Finish, TypeOK
<1>2. CASE ok
  <2>1. \A d \in DOMAIN call[w].docs : call'[w].status[d] = call[w].status[d]
    BY <1>1, <1>2 DEF FinalStatus
  <2> QED
    BY <1>1, <1>2, <2>1 DEF CallReports, Promising, Loaded
<1>3. CASE ~ok
  <2>1. \A d \in DOMAIN call[w].docs : call'[w].status[d] # "OK"
    BY <1>1, <1>3 DEF FinalStatus
  <2> QED
    BY <1>1, <1>3, <2>1 DEF CallReports
<1> QED
  BY <1>2, <1>3

\* Every step keeps OutcomeInv.
LEMMA OutcomeStep ==
  ASSUME OutcomeInv, [Next]_vars
  PROVE  OutcomeInv'
<1>1. TypeOK /\ TypeOK'
  BY TypeStep DEF OutcomeInv
<1>2. \A x \in Writer : call[x] # Idle => CallReports(call[x])
  BY <1>1, OutcomeByCall
<1>3. ASSUME \A x \in Writer : \/ call'[x] = Idle
                               \/ call'[x] = call[x]
                               \/ CallReports(call'[x])
      PROVE  OutcomeInv'
  <2>1. \A x \in Writer : call'[x] # Idle => CallReports(call'[x])
    BY <1>2, <1>3
  <2> QED
    BY <1>1, <2>1 DEF OutcomeInv, OutcomeReported, CallReports, Promising, Loaded, TypeOK, CallOK, CallOver
<1>4. ASSUME NEW w \in Writer, NEW mode \in Modes, NEW buffered \in BufferChoice,
             NEW ds \in Batches, NEW docs \in [ds -> Inputs], NEW bad \in BadReads(ds),
             Load(w, mode, docs, buffered, bad)
      PROVE  OutcomeInv'
  <2>1. CallReports(call'[w])
    <3>1. ds \in SUBSET (DocID \cup {ZeroID})
      BY DEF Batches
    <3> QED
      BY <1>1, <1>4, <3>1, LoadReports
  <2>2. \A x \in Writer : x # w => call'[x] = call[x]
    BY <1>1, <1>4 DEF Load, TypeOK
  <2> QED
    BY <1>3, <2>1, <2>2
<1>5. ASSUME NEW w \in Writer, NEW ok \in BOOLEAN, NEW status,
             DOMAIN status = DOMAIN call[w].docs, call[w] # Idle, Finish(w, ok, status),
             ok => status = call[w].status /\ Loaded(w)
      PROVE  OutcomeInv'
  <2>1. CallReports(call'[w])
    BY <1>1, <1>2, <1>5, FinishReports
  <2>2. \A x \in Writer : x # w => call'[x] = call[x]
    BY <1>1, <1>5 DEF Finish, TypeOK
  <2> QED
    BY <1>3, <2>1, <2>2
<1>6. ASSUME NEW w \in Writer, Write(w)
      PROVE  OutcomeInv'
  <2>1. call[w] # Idle /\ Loaded(w) /\ Finish(w, TRUE, call[w].status)
    BY <1>6 DEF Write, Loaded
  <2>2. DOMAIN call[w].status = DOMAIN call[w].docs
    BY <1>1, <2>1 DEF TypeOK, CallOK, CallOver
  <2> QED
    BY <1>5, <2>1, <2>2
<1>7. ASSUME NEW w \in Writer, NEW d \in DocID, TokenizerFails(w, d)
      PROVE  OutcomeInv'
  <2>1. call[w] # Idle /\ Finish(w, FALSE, [call[w].status EXCEPT ![d] = "Tokenizer"])
    BY <1>7 DEF TokenizerFails
  <2>2. DOMAIN [call[w].status EXCEPT ![d] = "Tokenizer"] = DOMAIN call[w].docs
    BY <1>1, <2>1 DEF TypeOK, CallOK, CallOver
  <2> QED
    BY <1>5, <2>1, <2>2
<1>8. ASSUME NEW w \in Writer, BatchTooLarge(w)
      PROVE  OutcomeInv'
  <2>1. call[w] # Idle /\ Finish(w, FALSE, call[w].status)
    BY <1>8 DEF BatchTooLarge
  <2>2. DOMAIN call[w].status = DOMAIN call[w].docs
    BY <1>1, <2>1 DEF TypeOK, CallOK, CallOver
  <2> QED
    BY <1>5, <2>1, <2>2
<1>9. ASSUME NEW w \in Writer, FlushFails(w)
      PROVE  OutcomeInv'
  <2> DEFINE s == [d \in DOMAIN call[w].docs |-> IF call[w].status[d] # "OK" THEN "DBError" ELSE "OK"]
  <2>1. call[w] # Idle /\ Finish(w, FALSE, s) /\ DOMAIN s = DOMAIN call[w].docs
    BY <1>9 DEF FlushFails
  <2> HIDE DEF s
  <2> QED
    BY <1>5, <2>1
<1>10. ASSUME NEW w \in Writer, Return(w)
       PROVE  OutcomeInv'
  <2>1. \A x \in Writer : call'[x] = Idle \/ call'[x] = call[x]
    BY <1>1, <1>10 DEF Return, TypeOK
  <2> QED
    BY <1>3, <2>1
<1>11. CASE UNCHANGED call
  BY <1>3, <1>11
<1>12. CASE Crash
  BY <1>3, <1>12 DEF Crash
<1> QED
  BY <1>4, <1>6, <1>7, <1>8, <1>9, <1>10, <1>11, <1>12
     DEF Next, FlushStoreBuffer, IngestInvertIndex, DropTable, vars

\* A failed call reports no document as OK and a successful one reports nothing
\* else, except a delete of a missing document, whichever step fails and
\* whatever the callers do.
THEOREM OutcomeCorrect == Spec => []OutcomeReported
<1>1. Init => OutcomeInv
  <2> SUFFICES ASSUME Init PROVE OutcomeInv
    OBVIOUS
  <2>1. TypeOK
    BY EmptyBatchType DEF Init, TypeOK, Row
  <2> QED
    BY <2>1 DEF Init, OutcomeInv, OutcomeReported, Loaded
<1>2. OutcomeInv /\ [Next]_vars => OutcomeInv'
  BY OutcomeStep
<1>3. OutcomeInv => OutcomeReported
  BY DEF OutcomeInv
<1> QED
  BY <1>1, <1>2, <1>3, PTL DEF Spec

-----------------------------------------------------------------------------
(***************************************************************************)
(* Exactness: the index holds nothing but what the documents say.  It asks *)
(* more of the callers than Consistency does, because a write knows of the *)
(* old document only what the stored column gives back.                    *)
(***************************************************************************)

\* The stored column keeps the terms of every field of the document.
TermsKept(doc) ==
  doc # NoDoc => \A i \in FieldID : doc[i] # NoField => "notstoreterm" \notin doc[i].flag

\* The stored column keeps the value of every doc-value field of the document.
ValuesKept(doc) ==
  doc # NoDoc => \A i \in FieldID : IsDocValue(doc[i]) => "store" \in doc[i].flag

\* No caller submits a field whose terms are not stored or ingests a posting.
TermInputs ==
  /\ \A doc \in Inputs : TermsKept(doc)
  /\ \A items \in Ingests : items = {}

\* No caller submits a doc-value field whose value is not stored.
ValueInputs == \A doc \in Inputs : ValuesKept(doc)

Kept(doc) == (TermInputs => TermsKept(doc)) /\ (ValueInputs => ValuesKept(doc))

\* Flushing batch b now leaves no posting and no doc-value row other than those
\* of the documents its calls describe.
Exact(b) ==
  \A d \in DocID :
    LET after == ApplyIntent(b.intent[d], content[d])
    IN /\ b.stored[d] = Keep => b.docvalue[d] = Keep
       /\ b.intent[d] # Keep => Kept(b.intent[d].doc)
       /\ TermInputs => \A p \in (inverted \ b.del) \cup b.add :
                          p[1] = d => p \in Postings(d, after)
       /\ ValueInputs => DocValueForm(after)
                           = IF b.docvalue[d] = Keep THEN docvalue[d] ELSE b.docvalue[d]

\* AddDocumentsWithoutRead still finds no document when it writes.
LoadedFresh ==
  \A w \in Writer : Loaded(w) /\ call[w].mode = "AddWithoutRead" =>
    \A d \in DOMAIN call[w].docs : stored[d] = NoDoc

KeptContent == \A d \in DocID : Kept(content[d])

Exactness ==
  /\ Consistency
  /\ LoadedFresh
  /\ KeptContent
  /\ \A w \in Writer : Exact(buffer[w])
  /\ TermInputs => NoStalePosting
  /\ ValueInputs => DocValueMatches

\* Tokenizing changes no flag.
LEMMA KeptTokenizer ==
  ASSUME NEW doc \in Inputs
  PROVE  Kept(RunTokenizer(doc))
<1>1. doc \in Document /\ RunTokenizer(doc) \in Document /\ doc # NoDoc /\ RunTokenizer(doc) # NoDoc
  BY RunTokenizerType, WriterAssumption, DocumentsAssumption
<1>2. ASSUME NEW i \in FieldID, RunTokenizer(doc)[i] # NoField
      PROVE  doc[i] # NoField /\ RunTokenizer(doc)[i].flag = doc[i].flag
  <2>1. doc[i] # NoField /\ RunTokenizer(doc)[i] = BuildTerms(doc[i])
    BY <1>2 DEF RunTokenizer
  <2>2. doc[i] \in IndexField
    BY <1>1, <2>1 DEF Document
  <2> QED
    BY <2>1, <2>2 DEF BuildTerms, IndexField
<1>3. TermInputs => TermsKept(RunTokenizer(doc))
  BY <1>1, <1>2 DEF TermInputs, TermsKept
<1>4. ValueInputs => ValuesKept(RunTokenizer(doc))
  BY <1>1, <1>2 DEF ValueInputs, ValuesKept, IsDocValue
<1> QED
  BY <1>3, <1>4 DEF Kept

\* Nor does merging two documents.
LEMMA KeptOverlay ==
  ASSUME NEW old \in Document, NEW new \in Document, Kept(old), Kept(new)
  PROVE  Kept(Overlay(old, new))
<1>1. old # NoDoc /\ new # NoDoc
  BY DocumentsAssumption
<1>2. \A i \in FieldID : Overlay(old, new)[i] = IF new[i] = NoField THEN old[i] ELSE new[i]
  BY DEF Overlay
<1>3. TermInputs => TermsKept(Overlay(old, new))
  BY <1>1, <1>2 DEF Kept, TermsKept
<1>4. ValueInputs => ValuesKept(Overlay(old, new))
  BY <1>1, <1>2 DEF Kept, ValuesKept
<1> QED
  BY <1>3, <1>4 DEF Kept

\* Applying an intent to a document.
LEMMA KeptApply ==
  ASSUME NEW i \in Intent \cup {Keep}, NEW old \in Row, i # Keep => Kept(i.doc), Kept(old)
  PROVE  Kept(ApplyIntent(i, old))
<1>1. CASE i = Keep
  BY <1>1 DEF ApplyIntent
<1>2. CASE i # Keep /\ i.keep /\ i.doc # NoDoc /\ old # NoDoc
  <2>1. i.doc \in Document /\ old \in Document
    BY <1>2 DEF Intent, Row
  <2> QED
    BY <1>2, <2>1, KeptOverlay DEF ApplyIntent
<1>3. CASE i # Keep /\ ~(i.keep /\ i.doc # NoDoc /\ old # NoDoc)
  BY <1>3 DEF ApplyIntent
<1> QED
  BY <1>1, <1>2, <1>3

\* The stored form has the fields and flags of the document, its terms where
\* they are kept and the values of its doc-value fields where they are.
LEMMA StoredFields ==
  ASSUME NEW k \in Document
  PROVE  /\ StoredForm(k) \in Document /\ StoredForm(k) # NoDoc /\ k # NoDoc
         /\ \A i \in FieldID :
              /\ StoredForm(k)[i] = NoField <=> k[i] = NoField
              /\ IsDocValue(StoredForm(k)[i]) <=> IsDocValue(k[i])
              /\ TermsKept(k) /\ k[i] # NoField =>
                   IndexKeys(StoredForm(k)[i]) = IndexKeys(k[i])
              /\ ValuesKept(k) /\ IsDocValue(k[i]) =>
                   [StoredForm(k)[i] EXCEPT !.terms = {}] = [k[i] EXCEPT !.terms = {}]
<1>1. StoredForm(k) \in Document /\ StoredForm(k) # NoDoc /\ k # NoDoc
  BY StoredFormType, DocumentsAssumption DEF Row
<1> SUFFICES ASSUME NEW i \in FieldID
             PROVE  /\ StoredForm(k)[i] = NoField <=> k[i] = NoField
                    /\ IsDocValue(StoredForm(k)[i]) <=> IsDocValue(k[i])
                    /\ TermsKept(k) /\ k[i] # NoField =>
                         IndexKeys(StoredForm(k)[i]) = IndexKeys(k[i])
                    /\ ValuesKept(k) /\ IsDocValue(k[i]) =>
                         [StoredForm(k)[i] EXCEPT !.terms = {}] = [k[i] EXCEPT !.terms = {}]
  BY <1>1
<1>2. CASE k[i] = NoField
  BY <1>1, <1>2 DEF StoredForm, IsDocValue
<1>3. CASE k[i] # NoField
  <2>1. k[i] \in IndexField /\ StoredForm(k)[i] = EncodeToStoreField(k[i])
    BY <1>1, <1>3 DEF Document, StoredForm
  <2>2. EncodeToStoreField(k[i]) # NoField
    BY <2>1, EncodeField, DocumentsAssumption
  <2>3. EncodeToStoreField(k[i]).flag = k[i].flag
    BY DEF EncodeToStoreField
  <2>4. ASSUME TermsKept(k) PROVE IndexKeys(EncodeToStoreField(k[i])) = IndexKeys(k[i])
    <3>1. EncodeToStoreField(k[i]).terms = k[i].terms
      BY <1>1, <1>3, <2>4 DEF TermsKept, EncodeToStoreField
    <3> QED
      BY <2>3, <3>1 DEF IndexKeys
  <2>5. ASSUME ValuesKept(k), IsDocValue(k[i])
        PROVE  [EncodeToStoreField(k[i]) EXCEPT !.terms = {}] = [k[i] EXCEPT !.terms = {}]
    <3>1. "store" \in k[i].flag
      BY <1>1, <2>5 DEF ValuesKept
    <3>2. [k[i] EXCEPT !.terms = {}] = [flag |-> k[i].flag, value |-> k[i].value, terms |-> {}]
      BY <2>1 DEF IndexField
    <3>3. [EncodeToStoreField(k[i]) EXCEPT !.terms = {}]
            = [flag |-> k[i].flag, value |-> k[i].value, terms |-> {}]
      BY <3>1 DEF EncodeToStoreField
    <3> QED
      BY <3>2, <3>3
  <2> QED
    BY <1>3, <2>1, <2>2, <2>3, <2>4, <2>5 DEF IsDocValue
<1> QED
  BY <1>2, <1>3

\* Where terms are kept, the stored form has all postings of the document, and
\* so has what is merged into it.
LEMMA ExactPostings ==
  ASSUME NEW d \in DocID, NEW k \in Document, NEW new \in Document, TermsKept(k)
  PROVE  /\ Postings(d, StoredForm(k)) = Postings(d, k)
         /\ Postings(d, Overlay(StoredForm(k), new)) = Postings(d, Overlay(k, new))
<1>1. /\ StoredForm(k) # NoDoc /\ k # NoDoc /\ StoredForm(k) \in Document
      /\ \A i \in FieldID : /\ StoredForm(k)[i] = NoField <=> k[i] = NoField
                            /\ k[i] # NoField => IndexKeys(StoredForm(k)[i]) = IndexKeys(k[i])
  BY StoredFields
<1>2. Postings(d, StoredForm(k)) = Postings(d, k)
  BY <1>1 DEF Postings
<1>3. Overlay(StoredForm(k), new) # NoDoc /\ Overlay(k, new) # NoDoc
  BY <1>1, OverlayType, DocumentsAssumption
<1>4. ASSUME NEW i \in FieldID
      PROVE  /\ Overlay(StoredForm(k), new)[i] = NoField <=> Overlay(k, new)[i] = NoField
             /\ Overlay(k, new)[i] # NoField =>
                  IndexKeys(Overlay(StoredForm(k), new)[i]) = IndexKeys(Overlay(k, new)[i])
  BY <1>1 DEF Overlay
<1>5. Postings(d, Overlay(StoredForm(k), new)) = Postings(d, Overlay(k, new))
  BY <1>3, <1>4 DEF Postings
<1> QED
  BY <1>2, <1>5

\* Where doc values are stored, what is merged into the stored form has the
\* doc-value row of what is merged into the document.
LEMMA ExactDocValue ==
  ASSUME NEW k \in Document, NEW new \in Document, ValuesKept(k)
  PROVE  /\ HasDocValue(StoredForm(k)) <=> HasDocValue(k)
         /\ DocValueForm(Overlay(StoredForm(k), new)) = DocValueForm(Overlay(k, new))
<1>1. /\ StoredForm(k) # NoDoc /\ k # NoDoc /\ StoredForm(k) \in Document
      /\ \A i \in FieldID :
           /\ IsDocValue(StoredForm(k)[i]) <=> IsDocValue(k[i])
           /\ IsDocValue(k[i]) => [StoredForm(k)[i] EXCEPT !.terms = {}] = [k[i] EXCEPT !.terms = {}]
  BY StoredFields
<1>2. HasDocValue(StoredForm(k)) <=> HasDocValue(k)
  BY <1>1 DEF HasDocValue
<1>3. Overlay(StoredForm(k), new) # NoDoc /\ Overlay(k, new) # NoDoc
  BY <1>1, OverlayType, DocumentsAssumption
<1>4. ASSUME NEW i \in FieldID
      PROVE  /\ IsDocValue(Overlay(StoredForm(k), new)[i]) <=> IsDocValue(Overlay(k, new)[i])
             /\ IsDocValue(Overlay(k, new)[i]) =>
                  [Overlay(StoredForm(k), new)[i] EXCEPT !.terms = {}]
                    = [Overlay(k, new)[i] EXCEPT !.terms = {}]
  <2>1. CASE new[i] = NoField
    <3>1. Overlay(StoredForm(k), new)[i] = StoredForm(k)[i] /\ Overlay(k, new)[i] = k[i]
      BY <2>1 DEF Overlay
    <3> QED
      BY <1>1, <3>1
  <2>2. CASE new[i] # NoField
    <3>1. Overlay(StoredForm(k), new)[i] = Overlay(k, new)[i]
      BY <2>2 DEF Overlay
    <3> QED
      BY <3>1
  <2> QED
    BY <2>1, <2>2
<1>5. HasDocValue(Overlay(StoredForm(k), new)) <=> HasDocValue(Overlay(k, new))
  BY <1>3, <1>4 DEF HasDocValue
<1>6. BuildDocValue(Overlay(StoredForm(k), new)) = BuildDocValue(Overlay(k, new))
  BY <1>4 DEF BuildDocValue
<1> QED
  BY <1>2, <1>5, <1>6 DEF DocValueForm

\* One document of a call whose read is current and fresh: the postings it adds
\* are all it will have, it knows all that the document had, and its doc-value
\* row is rewritten whenever it changes.
LEMMA WriteOneExact ==
  ASSUME NEW c, CallOK(c), NEW d \in DOMAIN c.docs, d \in DocID, NEW k \in Row, Kept(k),
         c.old[d] = IF c.mode = "AddWithoutRead" THEN NoDoc ELSE StoredForm(k),
         c.mode \in {"Add", "AddWithoutRead"} => k = NoDoc
  PROVE  LET after == ApplyIntent(IntentOf(c.mode, c.docs[d]), k)
             new   == IF c.mode = "Delete" THEN {} ELSE Postings(d, MergeOldField(c, d))
             row   == WriteDocValue(c, d, Keep)
         IN /\ Kept(IntentOf(c.mode, c.docs[d]).doc)
            /\ TermInputs => new = Postings(d, after) /\ Postings(d, c.old[d]) = Postings(d, k)
            /\ ValueInputs => DocValueForm(after) = IF row = Keep THEN DocValueForm(k) ELSE row
<1> DEFINE i == IntentOf(c.mode, c.docs[d])
           after == ApplyIntent(i, k)
           new == RunTokenizer(c.docs[d])
           merged == MergeOldField(c, d)
           row == WriteDocValue(c, d, Keep)
<1>1. c.docs[d] \in Inputs /\ c.mode \in WriteModes
  BY WriterAssumption DEF CallOK, CallOver
<1>2. new \in Document /\ new # NoDoc
  BY <1>1, RunTokenizerType, WriterAssumption, DocumentsAssumption
<1>3. i \in Intent /\ i # Keep
  BY <1>1, IntentOfType, WriterAssumption
<1>4. Kept(i.doc)
  <2>1. Kept(new) /\ Kept(NoDoc)
    BY <1>1, KeptTokenizer DEF Kept, TermsKept, ValuesKept
  <2> QED
    BY <2>1 DEF IntentOf
<1>5. c.old[d] = StoredForm(k)
  BY DEF StoredForm
<1>6. TermInputs => Postings(d, c.old[d]) = Postings(d, k)
  <2>1. CASE k = NoDoc
    BY <1>5, <2>1 DEF StoredForm
  <2>2. CASE k # NoDoc
    BY <1>2, <1>5, <2>2, ExactPostings DEF Row, Kept
  <2> QED
    BY <2>1, <2>2
<1>7. ValueInputs => (HasDocValue(c.old[d]) <=> HasDocValue(k))
  <2>1. CASE k = NoDoc
    BY <1>5, <2>1 DEF StoredForm
  <2>2. CASE k # NoDoc
    BY <1>2, <1>5, <2>2, ExactDocValue DEF Row, Kept
  <2> QED
    BY <2>1, <2>2
<1>8. merged \in Document /\ BuildDocValue(merged) # Keep /\ NoDoc # Keep
  <2>1. merged \in Document /\ BuildDocValue(merged) \in Document
    BY MergeOldFieldType, BuildDocValueType
  <2> QED
    BY <2>1, WriterAssumption DEF Row
<1>9. CASE c.mode = "Delete"
  <2>1. after = NoDoc
    BY <1>3, <1>9 DEF ApplyIntent, IntentOf
  <2>2. DocValueForm(after) = NoDoc /\ Postings(d, after) = {}
    BY <2>1 DEF DocValueForm, HasDocValue, Postings
  <2>3. row = IF HasDocValue(c.old[d]) THEN NoDoc ELSE Keep
    BY <1>9 DEF WriteDocValue
  <2> QED
    BY <1>4, <1>6, <1>7, <1>8, <1>9, <2>2, <2>3 DEF DocValueForm
<1>10. CASE c.mode # "Delete"
  <2>1. ASSUME ValueInputs, DocValueForm(merged) = DocValueForm(after)
        PROVE  DocValueForm(after) = IF row = Keep THEN DocValueForm(k) ELSE row
    <3>1. row = IF HasDocValue(merged) THEN BuildDocValue(merged)
                ELSE IF HasDocValue(k) THEN NoDoc ELSE Keep
      BY <1>7, <1>10, <2>1 DEF WriteDocValue
    <3> QED
      BY <1>8, <2>1, <3>1 DEF DocValueForm
  <2>2. CASE c.mode \in {"Replace", "AddWithoutRead", "Add"} \/ k = NoDoc
    <3>1. i.doc = new /\ (i.keep => k = NoDoc)
      BY <1>10, <2>2 DEF IntentOf
    <3>2. after = new
      BY <1>3, <3>1 DEF ApplyIntent
    <3>3. c.mode = "Replace" \/ c.old[d] = NoDoc
      BY <1>5, <2>2 DEF StoredForm
    <3>4. merged = new
      BY <1>10, <3>3 DEF MergeOldField
    <3> QED
      BY <1>4, <1>6, <1>10, <2>1, <3>2, <3>4
  <2>3. CASE c.mode \in {"Update", "AddOrUpdate"} /\ k # NoDoc
    <3>1. i.doc = new /\ i.keep
      BY <2>3 DEF IntentOf
    <3>2. after = Overlay(k, new)
      BY <1>2, <1>3, <2>3, <3>1 DEF ApplyIntent
    <3>3. k \in Document /\ c.old[d] # NoDoc
      BY <1>5, <2>3, StoredFormType DEF Row
    <3>4. merged = Overlay(StoredForm(k), new)
      BY <1>5, <2>3, <3>3 DEF MergeOldField
    <3>5. TermInputs => Postings(d, merged) = Postings(d, after)
      BY <1>2, <3>2, <3>3, <3>4, ExactPostings DEF Kept
    <3>6. ValueInputs => DocValueForm(merged) = DocValueForm(after)
      BY <1>2, <3>2, <3>3, <3>4, ExactDocValue DEF Kept
    <3> HIDE DEF after, merged, row, i
    <3>7. ValueInputs => DocValueForm(after) = IF row = Keep THEN DocValueForm(k) ELSE row
      BY <2>1, <3>6
    <3> QED
      BY <1>4, <1>6, <1>10, <3>5, <3>7 DEF after, merged, row, i
  <2> QED
    BY <1>1, <1>10, <2>2, <2>3 DEF WriteModes
<1> QED
  BY <1>9, <1>10

\* The empty batch is exact.
LEMMA EmptyBatchExact ==
  ASSUME TermInputs => NoStalePosting, ValueInputs => DocValueMatches
  PROVE  Exact(EmptyBatch)
<1> SUFFICES ASSUME NEW d \in DocID
             PROVE  /\ TermInputs => \A p \in inverted : p[1] = d => p \in Postings(d, content[d])
                    /\ ValueInputs => DocValueForm(content[d]) = docvalue[d]
  BY DEF Exact, EmptyBatch, ApplyIntent
<1> QED
  BY DEF NoStalePosting, DocValueMatches

\* Flushing an exact batch leaves an exact index.
LEMMA FlushIsExact ==
  ASSUME TypeOK, TypeOK', KeptContent, NEW b \in Batch, Exact(b), FlushBuffer(b)
  PROVE  /\ KeptContent'
         /\ TermInputs => NoStalePosting'
         /\ ValueInputs => DocValueMatches'
<1>1. \A d \in DocID : content'[d] = ApplyIntent(b.intent[d], content[d])
  BY DEF FlushBuffer
<1>2. ASSUME NEW d \in DocID PROVE Kept(content'[d])
  <2>1. b.intent[d] \in Intent \cup {Keep} /\ content[d] \in Row
    BY DEF TypeOK, Batch
  <2> QED
    BY <1>1, <2>1, KeptApply DEF Exact, KeptContent
<1>3. ASSUME TermInputs, NEW p \in inverted' PROVE p \in Postings(p[1], content'[p[1]])
  <2>1. p[1] \in DocID /\ p \in (inverted \ b.del) \cup b.add
    BY DEF TypeOK, Posting, FlushBuffer
  <2> QED
    BY <1>1, <1>3, <2>1 DEF Exact
<1>4. ASSUME ValueInputs, NEW d \in DocID PROVE docvalue'[d] = DocValueForm(content'[d])
  BY <1>1, <1>4 DEF Exact, FlushBuffer
<1> QED
  BY <1>2, <1>3, <1>4 DEF KeptContent, NoStalePosting, DocValueMatches, Kept, TermInputs, ValueInputs

\* A batch stays exact when another one, on other documents, is flushed.
LEMMA ExactStable ==
  ASSUME TypeOK, NEW b \in Batch, Delivers(b), Exact(b), FlushBuffer(b),
         TermInputs => NoStalePosting', ValueInputs => DocValueMatches',
         NEW a \in Batch, Delivers(a), Exact(a), Touched(a) \cap Touched(b) = {}
  PROVE  Exact(a)'
<1> DEFINE after(d) == ApplyIntent(a.intent[d], content'[d])
<1> SUFFICES ASSUME NEW d \in DocID
             PROVE  /\ a.stored[d] = Keep => a.docvalue[d] = Keep
                    /\ a.intent[d] # Keep => Kept(a.intent[d].doc)
                    /\ TermInputs => \A p \in (inverted' \ a.del) \cup a.add :
                                       p[1] = d => p \in Postings(d, after(d))
                    /\ ValueInputs => DocValueForm(after(d))
                         = IF a.docvalue[d] = Keep THEN docvalue'[d] ELSE a.docvalue[d]
  BY DEF Exact, Kept, TermInputs, ValueInputs
<1>1. /\ a.stored[d] = Keep => a.docvalue[d] = Keep
      /\ a.intent[d] # Keep => Kept(a.intent[d].doc)
  BY DEF Exact
<1>2. CASE d \notin Touched(b)
  <2>1. content'[d] = content[d] /\ \A p \in Posting : p[1] = d => (p \in inverted' <=> p \in inverted)
    BY <1>2, FlushLeaves
  <2>2. docvalue'[d] = docvalue[d]
    <3>1. b.stored[d] = Keep
      BY <1>2 DEF Touched
    <3> QED
      BY <3>1 DEF Exact, FlushBuffer
  <2>3. inverted' \subseteq Posting
    BY DEF FlushBuffer, TypeOK, Batch
  <2>4. ASSUME TermInputs, NEW p \in (inverted' \ a.del) \cup a.add, p[1] = d
        PROVE  p \in Postings(d, after(d))
    <3>1. p \in (inverted \ a.del) \cup a.add
      BY <2>1, <2>3, <2>4
    <3> QED
      BY <2>1, <2>4, <3>1 DEF Exact
  <2>5. ASSUME ValueInputs
        PROVE  DocValueForm(after(d)) = IF a.docvalue[d] = Keep THEN docvalue'[d] ELSE a.docvalue[d]
    BY <2>1, <2>2, <2>5 DEF Exact
  <2> QED
    BY <1>1, <2>4, <2>5
<1>3. CASE d \in Touched(b)
  <2>1. a.stored[d] = Keep /\ \A p \in a.add \cup a.del : p[1] # d
    BY <1>3 DEF Touched
  <2>2. a.intent[d] = Keep
    BY <2>1 DEF Delivers
  <2>3. after(d) = content'[d] /\ a.docvalue[d] = Keep
    BY <1>1, <2>1, <2>2 DEF ApplyIntent
  <2> QED
    BY <2>1, <2>2, <2>3 DEF NoStalePosting, DocValueMatches
<1> QED
  BY <1>2, <1>3

\* The batch of a call whose read is current and fresh, built on an exact batch
\* that touches none of its documents, is exact.
LEMMA UpdateExact ==
  ASSUME TypeOK, StoredMatches, KeptContent, TermInputs => NoStalePosting,
         ValueInputs => DocValueMatches,
         NEW c, CallOK(c), c.phase = "loaded",
         \A d \in DOMAIN c.docs :
           /\ d \in DocID
           /\ c.old[d] = IF c.mode = "AddWithoutRead" THEN NoDoc ELSE stored[d]
           /\ c.mode \in {"Add", "AddWithoutRead"} => stored[d] = NoDoc,
         NEW b \in Batch, Delivers(b), Exact(b), DOMAIN c.docs \cap Touched(b) = {}
  PROVE  Exact(UpdateDocuments(c, b))
<1> DEFINE u == UpdateDocuments(c, b)
           N == NewPostings(c)
           O == OldPostings(c)
<1>1. Live(c) \subseteq DOMAIN c.docs /\ Live(c) \subseteq DocID
  BY DEF Live
<1>2. /\ u.add = (b.add \ (O \ N)) \cup (N \ O)
      /\ u.del = (b.del \ (N \ O)) \cup (O \ N)
  BY DEF UpdateDocuments, WriteInvertedIndex
<1>3. \A p \in N \cup O : p[1] \in Live(c)
  BY CallPostingsType
<1>4. \A d \in DocID : d \notin Live(c) =>
        /\ u.stored[d] = b.stored[d] /\ u.docvalue[d] = b.docvalue[d]
        /\ u.intent[d] = b.intent[d]
  BY DEF UpdateDocuments
<1>5. \A d \in Live(c) : /\ u.stored[d] = WriteStoredField(c, d)
                         /\ u.docvalue[d] = WriteDocValue(c, d, b.docvalue[d])
                         /\ u.intent[d] = Then(b.intent[d], IntentOf(c.mode, c.docs[d]))
  BY <1>1 DEF UpdateDocuments
<1> HIDE DEF u, N, O
<1>6. ASSUME NEW d \in DocID
      PROVE  LET after == ApplyIntent(u.intent[d], content[d])
             IN /\ u.stored[d] = Keep => u.docvalue[d] = Keep
                /\ u.intent[d] # Keep => Kept(u.intent[d].doc)
                /\ TermInputs => \A p \in (inverted \ u.del) \cup u.add :
                                   p[1] = d => p \in Postings(d, after)
                /\ ValueInputs => DocValueForm(after)
                     = IF u.docvalue[d] = Keep THEN docvalue[d] ELSE u.docvalue[d]
  <2> DEFINE after == ApplyIntent(u.intent[d], content[d])
  <2>1. CASE d \notin Live(c)
    <3>1. /\ u.stored[d] = b.stored[d] /\ u.docvalue[d] = b.docvalue[d]
          /\ u.intent[d] = b.intent[d]
      BY <1>4, <2>1
    <3>2. \A p \in (inverted \ u.del) \cup u.add : p[1] = d => p \in (inverted \ b.del) \cup b.add
      BY <1>2, <1>3, <2>1
    <3> QED
      BY <3>1, <3>2 DEF Exact
  <2>2. CASE d \in Live(c)
    <3>1. d \in DOMAIN c.docs /\ d \notin Touched(b)
      BY <1>1, <2>2
    <3>2. b.stored[d] = Keep /\ \A p \in b.add \cup b.del : p[1] # d
      BY <3>1 DEF Touched
    <3>3. b.intent[d] = Keep /\ b.docvalue[d] = Keep
      BY <3>2 DEF Delivers, Exact
    <3>4. u.intent[d] = IntentOf(c.mode, c.docs[d])
      BY <1>5, <2>2, <3>3 DEF Then
    <3>5. content[d] \in Row /\ stored[d] = StoredForm(content[d]) /\ Kept(content[d])
      BY DEF TypeOK, StoredMatches, KeptContent
    <3>6. c.mode \in {"Add", "AddWithoutRead"} => content[d] = NoDoc
      BY <3>1, <3>5, StoredFormType
    <3>7. c.old[d] = IF c.mode = "AddWithoutRead" THEN NoDoc ELSE StoredForm(content[d])
      BY <3>1, <3>5
    <3> DEFINE new == IF c.mode = "Delete" THEN {} ELSE Postings(d, MergeOldField(c, d))
               old == Postings(d, c.old[d])
               had == Postings(d, content[d])
               row == WriteDocValue(c, d, Keep)
    <3>8. /\ Kept(u.intent[d].doc)
          /\ TermInputs => new = Postings(d, after) /\ old = had
          /\ ValueInputs => DocValueForm(after) = IF row = Keep THEN DocValueForm(content[d]) ELSE row
      BY <3>1, <3>4, <3>5, <3>6, <3>7, WriteOneExact
    <3>9. \A p \in N : p[1] = d => p \in new
      BY <1>1, <2>2, PostingsType DEF N, NewPostings
    <3>10. \A p \in old : p \in O
      BY <1>1, <2>2, PostingsType DEF O, OldPostings
    <3>11. u.docvalue[d] = row
      BY <1>5, <2>2, <3>3
    <3>12. ASSUME TermInputs, NEW p \in (inverted \ u.del) \cup u.add, p[1] = d
           PROVE  p \in Postings(d, after)
      <4>1. p \in inverted => p \in had
        BY <3>12 DEF NoStalePosting
      <4> HIDE DEF new, old, had, after
      <4> QED
        BY <1>2, <3>2, <3>8, <3>9, <3>10, <3>12, <4>1
    <3>13. ValueInputs => DocValueForm(after)
             = IF u.docvalue[d] = Keep THEN docvalue[d] ELSE u.docvalue[d]
      BY <3>8, <3>11 DEF DocValueMatches
    <3>14. u.stored[d] # Keep
      <4>1. MergeOldField(c, d) \in Row
        BY <3>1, MergeOldFieldType DEF Row
      <4>2. WriteStoredField(c, d) \in Row
        BY <4>1, StoredFormType DEF WriteStoredField, Row
      <4> QED
        BY <1>5, <2>2, <4>2, WriterAssumption
    <3> QED
      BY <3>8, <3>12, <3>13, <3>14
  <2> QED
    BY <2>1, <2>2
<1> QED
  BY <1>6 DEF Exact, u

-----------------------------------------------------------------------------
(***************************************************************************)
(* Exactness is inductive when callers keep "locks" and "fresh".           *)
(***************************************************************************)

\* A flush of an exact batch.
LEMMA FlushExactness ==
  ASSUME Exactness, Consistency',
         NEW b \in Batch, Delivers(b), Exact(b), FlushBuffer(b),
         \A x \in Writer : Loaded(x)' =>
           Loaded(x) /\ call'[x] = call[x] /\ DOMAIN call[x].docs \cap Touched(b) = {},
         \A x \in Writer : \/ buffer'[x] = EmptyBatch
                           \/ /\ buffer'[x] = buffer[x]
                              /\ Touched(buffer[x]) \cap Touched(b) = {}
  PROVE  Exactness'
<1>1. TypeOK /\ TypeOK' /\ LoadedIsCurrent /\ BufferConsistent /\ KeptContent /\ LoadedFresh
  BY DEF Exactness, Consistency
<1>2. KeptContent' /\ (TermInputs => NoStalePosting') /\ (ValueInputs => DocValueMatches')
  BY <1>1, FlushIsExact
<1>3. ASSUME NEW x \in Writer, Loaded(x)', call'[x].mode = "AddWithoutRead",
             NEW d \in DOMAIN call'[x].docs
      PROVE  stored'[d] = NoDoc
  <2>1. Loaded(x) /\ call'[x] = call[x] /\ d \notin Touched(b)
    BY <1>3
  <2>2. d \in DocID /\ stored[d] = NoDoc
    BY <1>1, <1>3, <2>1 DEF LoadedIsCurrent, LoadedFresh
  <2> QED
    BY <1>1, <2>1, <2>2, FlushLeaves
<1>4. LoadedFresh'
  BY <1>3 DEF LoadedFresh
<1>5. ASSUME NEW x \in Writer
      PROVE  Exact(buffer[x])'
  <2>1. CASE buffer'[x] = EmptyBatch
    <3>1. Exact(EmptyBatch)'
      BY <1>2 DEF Exact, EmptyBatch, ApplyIntent, NoStalePosting, DocValueMatches, TermInputs, ValueInputs
    <3> QED
      BY <2>1, <3>1 DEF Exact, EmptyBatch
  <2>2. CASE buffer'[x] = buffer[x] /\ Touched(buffer[x]) \cap Touched(b) = {}
    <3>1. PICK a \in Batch : a = buffer[x]
      BY <1>1 DEF TypeOK
    <3>2. Delivers(a) /\ Exact(a) /\ Touched(a) \cap Touched(b) = {}
      BY <1>1, <2>2, <3>1 DEF BufferConsistent, Exactness
    <3>3. Exact(a)'
      BY <1>1, <1>2, <3>2, ExactStable
    <3> QED
      BY <2>2, <3>1, <3>3 DEF Exact
  <2> QED
    BY <2>1, <2>2
<1> QED
  BY <1>2, <1>4, <1>5 DEF Exactness, TermInputs, ValueInputs

\* A step that leaves the columns alone.
LEMMA QuietExactness ==
  ASSUME Exactness, Consistency', UNCHANGED <<columns, content>>, LoadedFresh',
         \A x \in Writer : Exact(buffer'[x])
  PROVE  Exactness'
<1>1. ASSUME NEW x \in Writer PROVE Exact(buffer[x])'
  BY DEF Exact, columns, Kept, TermInputs, ValueInputs
<1>2. KeptContent' /\ (TermInputs => NoStalePosting)' /\ (ValueInputs => DocValueMatches)'
  BY DEF Exactness, columns, KeptContent, Kept, NoStalePosting, DocValueMatches, TermInputs, ValueInputs
<1> QED
  BY <1>1, <1>2 DEF Exactness

\* A call that starts with AddDocumentsWithoutRead names no stored document.
LEMMA LoadExactness ==
  ASSUME Exactness, Consistency', "fresh" \in Contract, NEW w \in Writer, NEW mode \in Modes,
         NEW buffered, NEW ds, NEW docs \in [ds -> Inputs], NEW bad,
         Load(w, mode, docs, buffered, bad)
  PROVE  Exactness'
<1>1. /\ UNCHANGED <<columns, content>> /\ UNCHANGED buffer /\ UNCHANGED stored
      /\ Fresh(mode, ds)
  BY DEF Load, columns
<1>2. /\ \A x \in Writer : x # w => call'[x] = call[x]
      /\ call'[w].mode = mode /\ call'[w].docs = docs
  BY DEF Load, Exactness, Consistency, TypeOK
<1>3. ASSUME NEW x \in Writer, Loaded(x)', call'[x].mode = "AddWithoutRead",
             NEW d \in DOMAIN call'[x].docs
      PROVE  stored'[d] = NoDoc
  <2>1. CASE x # w
    BY <1>1, <1>2, <1>3, <2>1 DEF Exactness, LoadedFresh, Loaded
  <2>2. CASE x = w
    <3>1. d \in DocID
      BY <1>3 DEF Consistency, LoadedIsCurrent
    <3>2. mode = "AddWithoutRead" /\ d \in ds
      BY <1>2, <1>3, <2>2
    <3> QED
      BY <1>1, <3>1, <3>2 DEF Fresh
  <2> QED
    BY <2>1, <2>2
<1>4. LoadedFresh'
  BY <1>3 DEF LoadedFresh
<1>5. \A x \in Writer : Exact(buffer'[x])
  BY <1>1 DEF Exactness
<1> QED
  BY <1>1, <1>4, <1>5, QuietExactness

\* The step that writes a call's batch.
LEMMA WriteExactness ==
  ASSUME Exactness, Consistency', NEW w \in Writer, Write(w)
  PROVE  Exactness'
<1> DEFINE c == call[w]
           b == NewWriteBuffer(w, c.buffered)
           u == UpdateDocuments(c, b)
<1>1. /\ Consistency /\ TypeOK /\ Findable /\ StoredMatches /\ ExclusiveUse /\ LoadedIsCurrent
      /\ KeptContent /\ LoadedFresh
      /\ (TermInputs => NoStalePosting) /\ (ValueInputs => DocValueMatches)
  BY DEF Exactness, Consistency
<1>2. Loaded(w) /\ c # Idle /\ c.phase = "loaded" /\ CallOK(c) /\ c.buffered \in BOOLEAN
  BY <1>1 DEF Write, Loaded, TypeOK, CallOK, CallOver
<1>3. b \in Batch /\ Delivers(b)
  BY <1>1, <1>2, NewWriteBufferDelivers
<1>4. Exact(b)
  BY <1>1, EmptyBatchExact DEF NewWriteBuffer, Exactness
<1>5. Touched(EmptyBatch) = {} /\ DOMAIN c.docs \cap Touched(buffer[w]) = {}
  BY <1>1, <1>2, EmptyBatchDelivers DEF ExclusiveUse
<1>6. DOMAIN c.docs \cap Touched(b) = {}
  BY <1>5 DEF NewWriteBuffer
<1>7. \A d \in DOMAIN c.docs :
        /\ d \in DocID
        /\ c.old[d] = IF c.mode = "AddWithoutRead" THEN NoDoc ELSE stored[d]
        /\ c.mode = "Add" => stored[d] = NoDoc
        /\ c.mode = "AddWithoutRead" => stored[d] = NoDoc
  BY <1>1, <1>2 DEF LoadedIsCurrent, LoadedFresh
<1> HIDE DEF b
<1>8. Delivers(u) /\ Touched(u) \subseteq Touched(b) \cup DOMAIN c.docs /\ u \in Batch
  BY <1>1, <1>2, <1>3, <1>6, <1>7, UpdateDelivers, UpdateDocumentsType
<1>9. Exact(u)
  BY <1>1, <1>2, <1>3, <1>4, <1>6, <1>7, UpdateExact
<1>10. Commit(w, c.buffered, u) /\ Finish(w, TRUE, c.status)
  BY DEF Write, b
<1>11. call'[w].phase = "done" /\ \A x \in Writer : x # w => call'[x] = call[x]
  BY <1>1, <1>10 DEF Finish, TypeOK
<1>12. \A x \in Writer : Loaded(x)' => x # w /\ Loaded(x) /\ call'[x] = call[x]
  BY <1>11 DEF Loaded
<1> HIDE DEF u
<1>13. CASE c.buffered
  <2>1. buffer' = [buffer EXCEPT ![w] = u] /\ UNCHANGED <<columns, content>>
    BY <1>10, <1>13 DEF Commit
  <2>2. \A x \in Writer : Exact(buffer'[x])
    BY <1>1, <1>9, <2>1 DEF TypeOK, Exactness
  <2>3. LoadedFresh'
    BY <1>1, <1>12, <2>1 DEF LoadedFresh, columns
  <2> QED
    BY <2>1, <2>2, <2>3, QuietExactness
<1>14. CASE ~c.buffered
  <2>1. FlushBuffer(u) /\ UNCHANGED buffer /\ b = EmptyBatch
    BY <1>10, <1>14 DEF Commit, NewWriteBuffer, b
  <2>2. Touched(u) \subseteq DOMAIN c.docs
    BY <1>5, <1>8, <2>1
  <2>3. \A x \in Writer : x # w => Busy(x) \cap DOMAIN c.docs = {}
    BY <1>1, <1>2 DEF ExclusiveUse, Busy
  <2>4. \A x \in Writer : Loaded(x)' =>
          Loaded(x) /\ call'[x] = call[x] /\ DOMAIN call[x].docs \cap Touched(u) = {}
    BY <1>12, <2>2, <2>3 DEF Busy, Loaded
  <2>5. \A x \in Writer : Touched(buffer[x]) \cap Touched(u) = {}
    BY <1>5, <2>2, <2>3 DEF Busy
  <2> QED
    BY <1>8, <1>9, <2>1, <2>4, <2>5, FlushExactness
<1> QED
  BY <1>2, <1>13, <1>14

\* An operation without a read, of an idle writer, on documents S nobody holds.
LEMMA TakeExactness ==
  ASSUME Exactness, Consistency', NEW w \in Writer, NEW buffered \in BOOLEAN,
         call[w] = Idle, UNCHANGED call, NEW S, \A x \in Writer : S \cap Busy(x) = {},
         NEW b \in Batch, Delivers(b), Exact(b), Commit(w, buffered, b),
         Touched(b) \subseteq Touched(NewWriteBuffer(w, buffered)) \cup S
  PROVE  Exactness'
<1>1. TypeOK /\ Findable /\ LoadedFresh
  BY DEF Exactness, Consistency
<1>2. \A x \in Writer : Loaded(x)' => Loaded(x) /\ call'[x] = call[x]
  BY DEF Loaded
<1>3. CASE buffered
  <2>1. buffer' = [buffer EXCEPT ![w] = b] /\ UNCHANGED <<columns, content>>
    BY <1>3 DEF Commit
  <2>2. \A x \in Writer : Exact(buffer'[x])
    BY <1>1, <2>1 DEF TypeOK, Exactness
  <2>3. LoadedFresh'
    BY <1>1, <1>2, <2>1 DEF LoadedFresh, columns
  <2> QED
    BY <2>1, <2>2, <2>3, QuietExactness
<1>4. CASE ~buffered
  <2>1. FlushBuffer(b) /\ UNCHANGED buffer
    BY <1>4 DEF Commit
  <2>2. Touched(b) \subseteq S
    BY <1>1, <1>4, EmptyBatchDelivers DEF NewWriteBuffer
  <2>3. \A x \in Writer : Loaded(x)' =>
          Loaded(x) /\ call'[x] = call[x] /\ DOMAIN call[x].docs \cap Touched(b) = {}
    BY <1>2, <2>2 DEF Busy, Loaded
  <2>4. \A x \in Writer : buffer'[x] = buffer[x] /\ Touched(buffer[x]) \cap Touched(b) = {}
    BY <2>1, <2>2 DEF Busy
  <2> QED
    BY <2>1, <2>3, <2>4, FlushExactness
<1> QED
  BY <1>3, <1>4

\* The steps of IngestInvertIndex, which may only ingest nothing where postings
\* are to be exact.
LEMMA IngestExactness ==
  ASSUME Exactness, Consistency', "locks" \in Contract, NEW w \in Writer,
         NEW buffered \in BOOLEAN, NEW items \in Ingests,
         IngestInvertIndex(w, items, buffered)
  PROVE  Exactness'
<1> DEFINE b0 == NewWriteBuffer(w, buffered)
           b  == [b0 EXCEPT !.add = @ \cup items, !.del = @ \ items]
           S  == {p[1] : p \in items}
<1>0. Consistency
  BY DEF Exactness
<1>1. b0 \in Batch /\ Delivers(b0)
  BY <1>0, NewWriteBufferDelivers
<1>2. Exact(b0)
  BY EmptyBatchExact DEF NewWriteBuffer, Exactness
<1>3. items \subseteq Posting
  BY WriterAssumption DEF Posting
<1>4. /\ b.stored = b0.stored /\ b.docvalue = b0.docvalue /\ b.intent = b0.intent
      /\ b.add = b0.add \cup items /\ b.del = b0.del \ items /\ b \in Batch
  BY <1>1, <1>3 DEF Batch
<1>5. /\ call[w] = Idle /\ UNCHANGED call /\ Commit(w, buffered, b)
      /\ \A x \in Writer : S \cap Busy(x) = {}
  BY DEF IngestInvertIndex, Free
<1> HIDE DEF b, b0
<1>6. Delivers(b)
  <2>1. (inverted \ b0.del) \cup b0.add \subseteq (inverted \ b.del) \cup b.add
    BY <1>4
  <2> QED
    BY <1>1, <1>4, <2>1 DEF Delivers
<1>7. Exact(b)
  <2>1. TermInputs => b.add = b0.add /\ b.del = b0.del
    BY <1>4 DEF TermInputs
  <2> QED
    BY <1>2, <1>4, <2>1 DEF Exact
<1>8. Touched(b) \subseteq Touched(b0) \cup S
  BY <1>4 DEF Touched
<1> HIDE DEF S
<1> QED
  BY <1>4, <1>5, <1>6, <1>7, <1>8, TakeExactness DEF b0

\* The steps of DropTable.
LEMMA DropExactness ==
  ASSUME Exactness, Consistency', "locks" \in Contract, LastDocID \notin DocID,
         NEW w \in Writer, NEW buffered \in BOOLEAN, DropTable(w, buffered)
  PROVE  Exactness'
<1> DEFINE b0 == NewWriteBuffer(w, buffered)
           gone == [keep |-> FALSE, doc |-> NoDoc]
           b == [stored   |-> DropRange(b0.stored),
                 docvalue |-> DropRange(b0.docvalue),
                 add      |-> {},
                 del      |-> Posting,
                 intent   |-> [d \in DocID |-> gone]]
<1>0. Consistency /\ TypeOK
  BY DEF Exactness, Consistency
<1>1. b0 \in Batch
  BY <1>0, NewWriteBufferDelivers
<1>2. b \in Batch
  BY <1>1 DEF Batch, DropRange, Intent, Row
<1>3. gone # Keep /\ NoDoc # Keep
  <2>1. gone \in Intent /\ NoDoc \in Row
    BY DEF Intent, Row
  <2> QED
    BY <2>1, WriterAssumption
<1>4. \A d \in DocID : b.stored[d] = NoDoc /\ b.docvalue[d] = NoDoc /\ b.intent[d] = gone
  BY DEF DropRange
<1>5. \A d \in DocID : ApplyIntent(b.intent[d], content[d]) = NoDoc
  BY <1>3, <1>4 DEF ApplyIntent
<1>6. /\ call[w] = Idle /\ UNCHANGED call /\ Commit(w, buffered, b)
      /\ \A x \in Writer : DocID \cap Busy(x) = {}
  BY DEF DropTable, Free
<1>7. (inverted \ b.del) \cup b.add = {}
  BY <1>0 DEF TypeOK
<1>8. gone.doc = NoDoc /\ Kept(NoDoc) /\ DocValueForm(NoDoc) = NoDoc
  BY DEF Kept, TermsKept, ValuesKept, DocValueForm, HasDocValue
<1> HIDE DEF b, gone
<1>9. Delivers(b)
  BY <1>3, <1>4, <1>5 DEF Delivers, StoredForm, Postings
<1>10. Exact(b)
  BY <1>3, <1>4, <1>5, <1>7, <1>8 DEF Exact
<1>11. Touched(b) \subseteq Touched(b0) \cup DocID
  BY DEF Touched
<1> QED
  BY <1>2, <1>6, <1>9, <1>10, <1>11, TakeExactness

\* The caller flushes its buffer.
LEMMA FlushStoreExactness ==
  ASSUME Exactness, Consistency', NEW w \in Writer, FlushStoreBuffer(w)
  PROVE  Exactness'
<1>1. TypeOK /\ ExclusiveUse /\ BufferConsistent
  BY DEF Exactness, Consistency
<1>2. PICK b \in Batch : b = buffer[w]
  BY <1>1 DEF TypeOK
<1>3. Delivers(b) /\ Exact(b) /\ FlushBuffer(b) /\ UNCHANGED call /\ call[w] = Idle
  BY <1>1, <1>2 DEF BufferConsistent, FlushStoreBuffer, Exactness
<1>4. \A x \in Writer : buffer'[x] = IF x = w THEN EmptyBatch ELSE buffer[x]
  BY <1>1 DEF FlushStoreBuffer, TypeOK
<1>5. \A x \in Writer : Loaded(x)' => x # w /\ Loaded(x) /\ call'[x] = call[x]
  BY <1>3 DEF Loaded
<1>6. \A x \in Writer : x # w => Busy(x) \cap Touched(b) = {}
  BY <1>1, <1>2 DEF ExclusiveUse, Busy
<1>7. \A x \in Writer : Loaded(x)' =>
        Loaded(x) /\ call'[x] = call[x] /\ DOMAIN call[x].docs \cap Touched(b) = {}
  BY <1>5, <1>6 DEF Busy, Loaded
<1>8. \A x \in Writer : \/ buffer'[x] = EmptyBatch
                        \/ buffer'[x] = buffer[x] /\ Touched(buffer[x]) \cap Touched(b) = {}
  BY <1>4, <1>6 DEF Busy
<1> QED
  BY <1>3, <1>7, <1>8, FlushExactness

\* A step that only ends calls.
LEMMA EndExactness ==
  ASSUME Exactness, Consistency', UNCHANGED <<columns, content>>,
         \A x \in Writer : Loaded(x)' => Loaded(x) /\ call'[x] = call[x],
         \A x \in Writer : buffer'[x] \in {buffer[x], EmptyBatch}
  PROVE  Exactness'
<1>1. LoadedFresh'
  BY DEF Exactness, LoadedFresh, columns
<1>2. \A x \in Writer : Exact(buffer'[x])
  BY EmptyBatchExact DEF Exactness
<1> QED
  BY <1>1, <1>2, QuietExactness

\* Every step keeps Exactness.
LEMMA ExactnessStep ==
  ASSUME "locks" \in Contract, "fresh" \in Contract, LastDocID \notin DocID,
         Exactness, [Next]_vars
  PROVE  Exactness'
<1>1. Consistency' /\ TypeOK
  BY ConsistencyStep DEF Exactness, Consistency
<1>2. ASSUME NEW w \in Writer, NEW mode \in Modes, NEW buffered \in BufferChoice,
             NEW ds \in Batches, NEW docs \in [ds -> Inputs], NEW bad \in BadReads(ds),
             Load(w, mode, docs, buffered, bad)
      PROVE  Exactness'
  BY <1>1, <1>2, LoadExactness
<1>3. ASSUME NEW w \in Writer, Write(w)
      PROVE  Exactness'
  BY <1>1, <1>3, WriteExactness
<1>4. ASSUME NEW w \in Writer,
             \/ \E d \in DocID : TokenizerFails(w, d)
             \/ BatchTooLarge(w)
             \/ FlushFails(w)
             \/ Return(w)
      PROVE  Exactness'
  <2>1. UNCHANGED <<columns, content>> /\ UNCHANGED buffer
    BY <1>4 DEF TokenizerFails, BatchTooLarge, FlushFails, Return
  <2>2. \A x \in Writer : x # w => call'[x] = call[x]
    BY <1>1, <1>4 DEF TokenizerFails, BatchTooLarge, FlushFails, Return, Finish, TypeOK
  <2>3. call'[w] = Idle \/ call'[w].phase = "done"
    <3>1. ASSUME NEW ok, NEW status, Finish(w, ok, status)
          PROVE  call'[w].phase = "done"
      BY <1>1, <3>1 DEF Finish, TypeOK
    <3>2. CASE Return(w)
      BY <1>1, <3>2 DEF Return, TypeOK
    <3> QED
      BY <1>4, <3>1, <3>2 DEF TokenizerFails, BatchTooLarge, FlushFails
  <2>4. \A x \in Writer : Loaded(x)' => Loaded(x) /\ call'[x] = call[x]
    BY <2>2, <2>3 DEF Loaded
  <2> QED
    BY <1>1, <2>1, <2>4, EndExactness
<1>5. ASSUME NEW w \in Writer, FlushStoreBuffer(w)
      PROVE  Exactness'
  BY <1>1, <1>5, FlushStoreExactness
<1>6. ASSUME NEW w \in Writer, NEW buffered \in BufferChoice, NEW items \in Ingests,
             IngestInvertIndex(w, items, buffered)
      PROVE  Exactness'
  BY <1>1, <1>6, IngestExactness DEF BufferChoice
<1>7. ASSUME NEW w \in Writer, NEW buffered \in BufferChoice, DropTable(w, buffered)
      PROVE  Exactness'
  BY <1>1, <1>7, DropExactness DEF BufferChoice
<1>8. CASE Crash
  <2>1. /\ UNCHANGED <<columns, content>>
        /\ \A x \in Writer : call'[x] = Idle /\ buffer'[x] = EmptyBatch
    BY <1>8 DEF Crash
  <2> QED
    BY <1>1, <2>1, EndExactness DEF Loaded
<1>9. CASE UNCHANGED vars
  BY <1>1, <1>9, EndExactness DEF vars, columns, Loaded
<1> QED
  BY <1>2, <1>3, <1>4, <1>5, <1>6, <1>7, <1>8, <1>9 DEF Next

\* If callers keep both rules, the inductive invariant holds of every behaviour.
THEOREM ExactnessInvariant ==
  ASSUME "locks" \in Contract, "fresh" \in Contract, LastDocID \notin DocID
  PROVE  Spec => []Exactness
<1>1. Init => Exactness
  <2> SUFFICES ASSUME Init PROVE Exactness
    OBVIOUS
  <2>1. Consistency
    BY ConsistencyInit
  <2>2. NoStalePosting /\ DocValueMatches /\ KeptContent
    BY DEF Init, NoStalePosting, DocValueMatches, DocValueForm, HasDocValue,
           KeptContent, Kept, TermsKept, ValuesKept
  <2>3. \A w \in Writer : Exact(buffer[w])
    BY <2>2, EmptyBatchExact DEF Init
  <2>4. LoadedFresh
    BY DEF Init, LoadedFresh, Loaded
  <2> QED
    BY <2>1, <2>2, <2>3, <2>4 DEF Exactness
<1>2. Exactness /\ [Next]_vars => Exactness'
  BY ExactnessStep
<1> QED
  BY <1>1, <1>2, PTL DEF Spec

\* If callers keep both rules, store the terms of every field they index and
\* ingest no postings, no posting outlives the term or the document it is for.
THEOREM NoStaleCorrect ==
  ASSUME "locks" \in Contract, "fresh" \in Contract, LastDocID \notin DocID, TermInputs
  PROVE  Spec => []NoStalePosting
<1>1. Exactness => NoStalePosting
  BY DEF Exactness
<1> QED
  BY <1>1, ExactnessInvariant, PTL

\* If callers keep both rules and store the value of every doc-value field, the
\* row that sorting and filtering read is the document's.
THEOREM DocValueCorrect ==
  ASSUME "locks" \in Contract, "fresh" \in Contract, LastDocID \notin DocID, ValueInputs
  PROVE  Spec => []DocValueMatches
<1>1. Exactness => DocValueMatches
  BY DEF Exactness
<1> QED
  BY <1>1, ExactnessInvariant, PTL
=============================================================================
