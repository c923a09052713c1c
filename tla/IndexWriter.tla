----------------------------- MODULE IndexWriter -----------------------------
(***************************************************************************)
(* IndexWriter and DocumentWriter over the three data columns of one       *)
(* table.  A write call reads the stored documents (MultiGet, no lock and  *)
(* no snapshot), decides what to do, and later flushes one write batch: a  *)
(* Load step and a Write step, between which any other caller may run.     *)
(*                                                                         *)
(* A write batch is kept as what it will do to each key: the last Put or   *)
(* Delete of a key wins, and so does the last Merge of a document id into  *)
(* a doc list (DocListMerge checks that claim for the merge operator).     *)
(* A caller that passes store_buffer gets the batch back instead of having *)
(* it flushed, and later calls with the same buffer add to it.             *)
(*                                                                         *)
(* content is a history variable: the documents the committed calls        *)
(* describe, each call applied to the content at the moment it commits.    *)
(* It appears in no guard.                                                 *)
(***************************************************************************)
EXTENDS Documents, FiniteSets, Integers

CONSTANTS
  Writer,     \* threads that call IndexWriter
  DocID,      \* document ids in use
  ZeroID,     \* document id 0, which every call refuses
  LastDocID,  \* document id UINT64_MAX
  Keep,       \* "the batch does not touch this key"
  Idle,       \* "no call in progress"
  Inputs,     \* documents callers submit
  Modes,      \* the write interfaces callers use
  Ingests,    \* posting sets callers ingest
  MaxBatch,   \* documents per call
  Faults,     \* whether reads, tokenizer, size check and flush may fail
  Buffered,   \* whether callers may pass store_buffer
  Contract    \* the rules callers follow, see Free and Fresh

WriteModes == {"Add", "Update", "AddOrUpdate", "Replace", "Delete", "AddWithoutRead"}

\* Mutant: ReplaceDocuments does not read the old document either.
ReadModesNoReplace == WriteModes \ {"AddWithoutRead", "Replace"}

ReadModes == WriteModes \ {"AddWithoutRead"}

VARIABLES
  stored,     \* kStoredFieldColumn
  docvalue,   \* kDocValueColumn
  inverted,   \* kInvertedIndexColumn, as <<document, field, term>> postings
  call,       \* the call each writer is in
  buffer,     \* the store_buffer each writer accumulates
  content     \* history: the documents the committed calls describe

columns == <<stored, docvalue, inverted>>
vars == <<stored, docvalue, inverted, call, buffer, content>>

Posting == DocID \X FieldID \X Term
Row == Document \cup {NoDoc}
Status == {"OK", "IDZero", "Exist", "NotExist", "DBError", "Tokenizer", "Other"}

\* What a call means for one document: keep says whether the fields it does
\* not mention survive; doc = NoDoc removes the document.
Intent == [keep : BOOLEAN, doc : Row]

ASSUME WriterAssumption ==
  /\ ZeroID \notin DocID
  /\ Keep \notin Row \cup Intent
  /\ Inputs \subseteq Document
  /\ Modes \subseteq WriteModes
  /\ Ingests \subseteq SUBSET (DocID \X FieldID \X Term)
  /\ MaxBatch \in Nat
  /\ Faults \in BOOLEAN
  /\ Buffered \in BOOLEAN
  /\ Contract \subseteq {"locks", "fresh"}

Batch == [stored : [DocID -> Row \cup {Keep}],
          docvalue : [DocID -> Row \cup {Keep}],
          add : SUBSET Posting,
          del : SUBSET Posting,
          intent : [DocID -> Intent \cup {Keep}]]

EmptyBatch == [stored   |-> [d \in DocID |-> Keep],
               docvalue |-> [d \in DocID |-> Keep],
               add      |-> {},
               del      |-> {},
               intent   |-> [d \in DocID |-> Keep]]

-----------------------------------------------------------------------------
(***************************************************************************)
(* Intents.                                                                *)
(***************************************************************************)
IntentOf(mode, new) ==
  [keep |-> mode \in {"Update", "AddOrUpdate"},
   doc  |-> IF mode = "Delete" THEN NoDoc ELSE RunTokenizer(new)]

ApplyIntent(i, old) ==
  IF i = Keep THEN old
  ELSE IF i.keep /\ i.doc # NoDoc /\ old # NoDoc THEN Overlay(old, i.doc)
  ELSE i.doc

\* First i, then j.
Then(i, j) ==
  IF i = Keep \/ ~j.keep THEN j
  ELSE [keep |-> i.keep, doc |-> ApplyIntent(j, i.doc)]

(***************************************************************************)
(* The contract.  "locks": the application never has two unfinished calls  *)
(* or unflushed buffers for one document.  "fresh": AddDocumentsWithoutRead*)
(* is only used for ids that hold no document.  IndexWriter enforces       *)
(* neither.                                                                *)
(***************************************************************************)
Touched(b) ==
  {d \in DocID : b.stored[d] # Keep}
    \cup {d \in DocID : \E p \in b.add \cup b.del : p[1] = d}

Busy(w) == (IF call[w] = Idle THEN {} ELSE DOMAIN call[w].docs)
             \cup Touched(buffer[w])

Free(ds) == "locks" \in Contract => \A w \in Writer : ds \cap Busy(w) = {}

Fresh(mode, ds) ==
  ("fresh" \in Contract /\ mode = "AddWithoutRead")
    => \A d \in ds \cap DocID : stored[d] = NoDoc

-----------------------------------------------------------------------------
(***************************************************************************)
(* InnerWriteDocuments up to the write: ids, MultiGet, UpdateDocumetStatus.*)
(***************************************************************************)
\* Mutant: document id 0 is let through.
AcceptsZero(ds) == TRUE

\* A call with document id 0 fails before it reads.
Accepts(ds) == ZeroID \notin ds

\* The status MultiGet returns for one key; a key in bad could not be read.
MultiGet(d, bad) ==
  IF d \in bad THEN "DBError"
  ELSE IF d \in DocID /\ stored[d] # NoDoc THEN "OK" ELSE "NotExist"

\* Mutant: only a failed read is an error.
FailsBatchOnErrorOnly(mode, got) == mode # "AddWithoutRead" /\ got = "DBError"

\* Whether what was read makes the whole call fail.
FailsBatch(mode, got) ==
  CASE mode = "Add"            -> got # "NotExist"
    [] mode = "Update"         -> got # "OK"
    [] mode = "AddWithoutRead" -> FALSE
    [] OTHER                   -> got = "DBError"

\* The status a document has after UpdateDocumetStatus.
UpdateDocumetStatus(mode, d, got) ==
  LET unread == IF d = ZeroID THEN "IDZero" ELSE "OK"
  IN IF mode = "Delete" /\ got = "NotExist" THEN "NotExist"
     ELSE IF ~FailsBatch(mode, got) THEN unread
     ELSE IF got = "OK" THEN "Exist" ELSE got

\* Mutant: the loop is missing.
FinalStatusAsIs(ok, status) == status

\* The loop that ends a failed call: nobody keeps an OK status.
FinalStatus(ok, status) ==
  [d \in DOMAIN status |-> IF ~ok /\ status[d] = "OK" THEN "Other" ELSE status[d]]

Load(w, mode, docs, buffered, bad) ==
  LET ds     == DOMAIN docs
      status == [d \in ds |-> UpdateDocumetStatus(mode, d, MultiGet(d, bad))]
      ok     == /\ Accepts(ds)
               /\ \A d \in ds : ~FailsBatch(mode, MultiGet(d, bad))
  IN /\ call[w] = Idle
     /\ Free(ds)
     /\ Fresh(mode, ds)
     /\ call' = [call EXCEPT ![w] =
                   [phase    |-> IF ok THEN "loaded" ELSE "done",
                    ok       |-> ok,
                    mode     |-> mode,
                    docs     |-> docs,
                    old      |-> [d \in ds |-> IF mode \in ReadModes /\ d \in DocID
                                               THEN stored[d] ELSE NoDoc],
                    status   |-> FinalStatus(ok, status),
                    buffered |-> buffered]]
     /\ UNCHANGED <<columns, buffer, content>>

-----------------------------------------------------------------------------
(***************************************************************************)
(* DocumentWriter::UpdateDocuments: one batch for all documents of a call  *)
(* whose status is still OK.                                               *)
(***************************************************************************)
Live(c) == {d \in DOMAIN c.docs : c.status[d] = "OK"}

\* The document to write: tokenized, then merged with the old one.
MergeOldField(c, d) ==
  LET new == RunTokenizer(c.docs[d])
  IN IF c.mode \in {"Delete", "Replace"} \/ c.old[d] = NoDoc THEN new
     ELSE Overlay(c.old[d], new)

\* Mutant: the fields of the old document are not carried over.
WriteStoredFieldNoMerge(c, d) ==
  IF c.mode = "Delete" THEN NoDoc ELSE StoredForm(RunTokenizer(c.docs[d]))

WriteStoredField(c, d) ==
  IF c.mode = "Delete" THEN NoDoc ELSE StoredForm(MergeOldField(c, d))

\* Mutant: the row of a document that lost its doc-value fields stays.
WriteDocValueNoDelete(c, d, before) ==
  IF c.mode # "Delete" /\ HasDocValue(MergeOldField(c, d))
  THEN BuildDocValue(MergeOldField(c, d)) ELSE before

\* Put when the new document has a doc-value field, Delete when only the old
\* one had, else the batch leaves the key alone.
WriteDocValue(c, d, before) ==
  IF c.mode # "Delete" /\ HasDocValue(MergeOldField(c, d))
    THEN BuildDocValue(MergeOldField(c, d))
  ELSE IF HasDocValue(c.old[d]) THEN NoDoc ELSE before

NewPostings(c) ==
  IF c.mode = "Delete" THEN {}
  ELSE UNION {Postings(d, MergeOldField(c, d)) : d \in Live(c)}

OldPostings(c) == UNION {Postings(d, c.old[d]) : d \in Live(c)}

\* Mutant: terms the document no longer has are not deleted.
WriteInvertedIndexNoDelete(c, b) ==
  LET adds == NewPostings(c) \ OldPostings(c)
  IN [add |-> b.add \cup adds, del |-> b.del \ adds]

\* Mutant: every old term is deleted, also those the new document has.
WriteInvertedIndexDropsCommon(c, b) ==
  LET adds == NewPostings(c) \ OldPostings(c)
      dels == OldPostings(c)
  IN [add |-> (b.add \ dels) \cup adds, del |-> (b.del \ adds) \cup dels]

\* Terms of the new document only are merged in as OK, terms of the old one
\* only as Delete, terms of both not at all.
WriteInvertedIndex(c, b) ==
  LET adds == NewPostings(c) \ OldPostings(c)
      dels == OldPostings(c) \ NewPostings(c)
  IN [add |-> (b.add \ dels) \cup adds, del |-> (b.del \ adds) \cup dels]

\* The batch of call c built on top of batch b.
UpdateDocuments(c, b) ==
  [stored   |-> [d \in DocID |-> IF d \in Live(c) THEN WriteStoredField(c, d)
                                 ELSE b.stored[d]],
   docvalue |-> [d \in DocID |-> IF d \in Live(c)
                                 THEN WriteDocValue(c, d, b.docvalue[d])
                                 ELSE b.docvalue[d]],
   add      |-> WriteInvertedIndex(c, b).add,
   del      |-> WriteInvertedIndex(c, b).del,
   intent   |-> [d \in DocID |-> IF d \in Live(c)
                                 THEN Then(b.intent[d], IntentOf(c.mode, c.docs[d]))
                                 ELSE b.intent[d]]]

\* VirtualDB::FlushBuffer: the whole batch, atomically.
FlushBuffer(b) ==
  /\ stored'   = [d \in DocID |-> IF b.stored[d] = Keep THEN stored[d] ELSE b.stored[d]]
  /\ docvalue' = [d \in DocID |-> IF b.docvalue[d] = Keep THEN docvalue[d] ELSE b.docvalue[d]]
  /\ inverted' = (inverted \ b.del) \cup b.add
  /\ content'  = [d \in DocID |-> ApplyIntent(b.intent[d], content[d])]

\* The batch of a writer's operation goes to the database or to its buffer.
Commit(w, buffered, b) ==
  IF buffered THEN /\ buffer' = [buffer EXCEPT ![w] = b]
                   /\ UNCHANGED <<columns, content>>
  ELSE FlushBuffer(b) /\ UNCHANGED buffer

\* The batch an operation starts from: the caller's buffer, or an empty one.
NewWriteBuffer(w, buffered) == IF buffered THEN buffer[w] ELSE EmptyBatch

Finish(w, ok, status) ==
  call' = [call EXCEPT ![w] = [phase    |-> "done",
                               ok       |-> ok,
                               mode     |-> call[w].mode,
                               docs     |-> call[w].docs,
                               old      |-> call[w].old,
                               status   |-> FinalStatus(ok, status),
                               buffered |-> call[w].buffered]]

Write(w) ==
  /\ call[w] # Idle
  /\ call[w].phase = "loaded"
  /\ Commit(w, call[w].buffered,
            UpdateDocuments(call[w], NewWriteBuffer(w, call[w].buffered)))
  /\ Finish(w, TRUE, call[w].status)

\* The tokenizer fails on document d: nothing is written.
TokenizerFails(w, d) ==
  /\ Faults
  /\ call[w] # Idle
  /\ call[w].phase = "loaded"
  /\ call[w].mode # "Delete"
  /\ d \in Live(call[w])
  /\ Finish(w, FALSE, [call[w].status EXCEPT ![d] = "Tokenizer"])
  /\ UNCHANGED <<columns, buffer, content>>

\* The batch is larger than MaxWriteBatchSize: nothing is written, the
\* caller's buffer keeps what it held before the call.
BatchTooLarge(w) ==
  /\ Faults
  /\ call[w] # Idle
  /\ call[w].phase = "loaded"
  /\ Finish(w, FALSE, call[w].status)
  /\ UNCHANGED <<columns, buffer, content>>

\* FlushBuffer fails.  Only documents that had already left OK (deletes of
\* missing documents) are given the error; the rest is left to FinalStatus.
FlushFails(w) ==
  /\ Faults
  /\ call[w] # Idle
  /\ call[w].phase = "loaded"
  /\ ~call[w].buffered
  /\ Finish(w, FALSE, [d \in DOMAIN call[w].docs |->
                         IF call[w].status[d] # "OK" THEN "DBError" ELSE "OK"])
  /\ UNCHANGED <<columns, buffer, content>>

Return(w) ==
  /\ call[w] # Idle
  /\ call[w].phase = "done"
  /\ call' = [call EXCEPT ![w] = Idle]
  /\ UNCHANGED <<columns, buffer, content>>

-----------------------------------------------------------------------------
(***************************************************************************)
(* The operations that read nothing.                                       *)
(***************************************************************************)
\* IngestInvertIndex: postings without documents.
IngestInvertIndex(w, items, buffered) ==
  LET b == NewWriteBuffer(w, buffered)
  IN /\ call[w] = Idle
     /\ Free({p[1] : p \in items})
     /\ Commit(w, buffered, [b EXCEPT !.add = @ \cup items, !.del = @ \ items])
     /\ UNCHANGED call

\* DropTable: DeleteRange over the three columns.  The ranges of the stored
\* and doc-value columns end at, and do not include, the key of LastDocID.
DropRange(f) == [d \in DocID |-> IF d = LastDocID THEN f[d] ELSE NoDoc]

DropTable(w, buffered) ==
  LET b == NewWriteBuffer(w, buffered)
  IN /\ call[w] = Idle
     /\ Free(DocID)
     /\ Commit(w, buffered,
               [stored   |-> DropRange(b.stored),
                docvalue |-> DropRange(b.docvalue),
                add      |-> {},
                del      |-> Posting,
                intent   |-> [d \in DocID |-> [keep |-> FALSE, doc |-> NoDoc]]])
     /\ UNCHANGED call

\* The caller flushes the batch its calls accumulated.
FlushStoreBuffer(w) ==
  /\ call[w] = Idle
  /\ buffer[w] # EmptyBatch
  /\ FlushBuffer(buffer[w])
  /\ buffer' = [buffer EXCEPT ![w] = EmptyBatch]
  /\ UNCHANGED call

\* The process stops: calls in progress and buffers are gone, the columns
\* are what the last flushed batch left.
Crash ==
  /\ \E w \in Writer : call[w] # Idle \/ buffer[w] # EmptyBatch
  /\ call' = [w \in Writer |-> Idle]
  /\ buffer' = [w \in Writer |-> EmptyBatch]
  /\ UNCHANGED <<columns, content>>

-----------------------------------------------------------------------------
Init ==
  /\ stored = [d \in DocID |-> NoDoc]
  /\ docvalue = [d \in DocID |-> NoDoc]
  /\ inverted = {}
  /\ call = [w \in Writer |-> Idle]
  /\ buffer = [w \in Writer |-> EmptyBatch]
  /\ content = [d \in DocID |-> NoDoc]

Batches == {ds \in SUBSET (DocID \cup {ZeroID}) : ds # {} /\ Cardinality(ds) <= MaxBatch}

BadReads(ds) == {{}} \cup (IF Faults THEN {{d} : d \in ds} ELSE {})

BufferChoice == IF Buffered THEN BOOLEAN ELSE {FALSE}

Next ==
  \/ \E w \in Writer, mode \in Modes, buffered \in BufferChoice, ds \in Batches :
       \E docs \in [ds -> Inputs], bad \in BadReads(ds) :
         Load(w, mode, docs, buffered, bad)
  \/ \E w \in Writer :
       \/ Write(w)
       \/ \E d \in DocID : TokenizerFails(w, d)
       \/ BatchTooLarge(w)
       \/ FlushFails(w)
       \/ Return(w)
       \/ FlushStoreBuffer(w)
  \/ \E w \in Writer, buffered \in BufferChoice :
       \/ \E items \in Ingests : IngestInvertIndex(w, items, buffered)
       \/ DropTable(w, buffered)
  \/ Crash

Spec == Init /\ [][Next]_vars

-----------------------------------------------------------------------------
(***************************************************************************)
(* Types.                                                                  *)
(***************************************************************************)
CallOver(ds) == [phase : {"loaded", "done"}, ok : BOOLEAN, mode : Modes,
                 docs : [ds -> Inputs], old : [ds -> Row],
                 status : [ds -> Status], buffered : BOOLEAN]

CallOK(c) == /\ DOMAIN c.docs \subseteq DocID \cup {ZeroID}
             /\ c.phase = "loaded" => DOMAIN c.docs \subseteq DocID
             /\ c \in CallOver(DOMAIN c.docs)

\* Every column, call and buffer of the writer keeps its type.
TypeOK ==
  /\ stored \in [DocID -> Row]
  /\ docvalue \in [DocID -> Row]
  /\ inverted \subseteq Posting
  /\ call = [w \in Writer |-> call[w]]
  /\ \A w \in Writer : call[w] = Idle \/ CallOK(call[w])
  /\ buffer \in [Writer -> Batch]
  /\ content \in [DocID -> Row]

(***************************************************************************)
(* Safety.  The first two need "locks" only, the other two also "fresh"    *)
(* and inputs without NotStoreInvertTerm; DocValueMatches needs inputs     *)
(* whose doc-value fields are stored fields too.                           *)
(***************************************************************************)
\* The stored column is the stored form of what the committed calls describe:
\* no field of a committed call is lost, whatever ran between its MultiGet
\* (index_writer.cpp:264) and its flush (document_writer.cpp:96).
StoredMatches == \A d \in DocID : stored[d] = StoredForm(content[d])

\* Every document is findable by every key of every field it has: the diff of
\* old and new terms (WriteInvertedIndex) never drops a posting that is needed.
Findable == \A d \in DocID : Postings(d, content[d]) \subseteq inverted

\* No posting of a term the document no longer has, nor of a deleted document.
NoStalePosting == \A p \in inverted : p \in Postings(p[1], content[p[1]])

\* The doc-value row sorting and filtering read is that of the document.
DocValueMatches == \A d \in DocID : docvalue[d] = DocValueForm(content[d])

\* A failed call reports no document as OK although UpdateDocuments leaves
\* the OK ones untouched when the flush fails (document_writer.cpp:113); a
\* call that succeeds reports OK, or NotExist for a delete.
OutcomeReported ==
  \A w \in Writer : call[w] # Idle /\ call[w].phase = "done" =>
    \A d \in DOMAIN call[w].docs :
      IF call[w].ok
      THEN \/ call[w].status[d] = "OK"
           \/ call[w].mode = "Delete" /\ call[w].status[d] = "NotExist"
      ELSE call[w].status[d] # "OK"

(***************************************************************************)
(* What makes StoredMatches and Findable inductive under "locks".          *)
(***************************************************************************)
Loaded(w) == call[w] # Idle /\ call[w].phase = "loaded"

\* No document is in two writers' hands, and a loaded call has no document
\* that its writer's buffer already changes.
ExclusiveUse ==
  /\ \A w, x \in Writer : w # x => Busy(w) \cap Busy(x) = {}
  /\ \A w \in Writer : Loaded(w) =>
       DOMAIN call[w].docs \cap Touched(buffer[w]) = {}

\* What a call read is still what the database holds when it writes: the gap
\* between MultiGet (index_writer.cpp:264) and FlushBuffer is harmless.
LoadedIsCurrent ==
  \A w \in Writer : Loaded(w) =>
    \A d \in DOMAIN call[w].docs :
      /\ d \in DocID
      /\ call[w].old[d] = IF call[w].mode = "AddWithoutRead" THEN NoDoc ELSE stored[d]
      /\ call[w].mode = "Add" => stored[d] = NoDoc
      /\ call[w].mode = "Update" => stored[d] # NoDoc

\* Flushing batch b now leaves, for every document it changes, the stored form
\* of what its calls describe, and every document keeps all its postings.
Delivers(b) ==
  \A d \in DocID :
    LET after == ApplyIntent(b.intent[d], content[d])
    IN /\ b.stored[d] = Keep <=> b.intent[d] = Keep
       /\ b.stored[d] # Keep => b.stored[d] = StoredForm(after)
       /\ Postings(d, after) \subseteq (inverted \ b.del) \cup b.add

\* A store_buffer, flushed at any later moment, still produces what its calls
\* promised when they returned OK.
BufferConsistent == \A w \in Writer : Delivers(buffer[w])

Consistency ==
  /\ TypeOK
  /\ ExclusiveUse
  /\ LoadedIsCurrent
  /\ BufferConsistent
  /\ StoredMatches
  /\ Findable

(***************************************************************************)
(* What a step may never do.                                               *)
(***************************************************************************)
\* w's call is flushed to the database in this step.
Flushes(w) ==
  /\ call[w] # Idle /\ call[w].phase = "loaded" /\ ~call[w].buffered
  /\ call'[w] # Idle /\ call'[w].phase = "done" /\ call'[w].ok

\* AddDocuments adds only documents that do not exist at the moment its batch
\* is flushed (UpdateDocumetStatus checks the earlier MultiGet).
AddOnlyIfAbsent ==
  [][\A w \in Writer : Flushes(w) /\ call[w].mode = "Add" =>
       \A d \in DOMAIN call[w].docs : stored[d] = NoDoc]_vars

\* UpdateDocuments updates only documents that still exist when its batch is
\* flushed (UpdateDocumetStatus checks the earlier MultiGet).
UpdateOnlyIfPresent ==
  [][\A w \in Writer : Flushes(w) /\ call[w].mode = "Update" =>
       \A d \in DOMAIN call[w].docs : stored[d] # NoDoc]_vars
=============================================================================
