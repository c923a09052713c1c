# TLA+ models of wwsearch

wwsearch is a full-text search library on top of RocksDB. This directory models its write path, its query path
and the concurrent and persistent data structures under them, checks the models with TLC on small instances, and
proves with TLAPS, for all instances, the main results about the write path, the sequence mapping, doc-list compaction,
the two lock-free queues, paged scans and deletes over encoded keys, the merging iterator, the collector with its filters, sort conditions
and scores, and the mock database. Paths below are relative to
`src/wwsearch/`; `PROJECT.json` maps every definition to the lines it models.

## 1. Inventory of the system

| Component | State it keeps | Operations | What makes it correct |
|---|---|---|---|
| `IndexWriter`, `DocumentWriter` | none of its own; the columns of a table in `VirtualDB`; the caller's `store_buffer` | `AddDocuments`, `UpdateDocuments`, `AddOrUpdateDocuments`, `ReplaceDocuments`, `DeleteDocuments`, `AddDocumentsWithoutRead`, `IngestInvertIndex`, `DropTable`, `DeleteTableData` | stored column, doc values and postings describe the same documents; a failed call changes nothing and says so |
| `Document`, `IndexField`, tokenizers | fields with flags, value, terms | tokenizing, field merge, two serialised forms, suffix expansion | what a form drops must not be needed later |
| Doc-list merge operator (`virtual_db_rocks.cpp`) | value and merge operands of an inverted-index key | `FullMergeV2`, `PartialMergeMulti` | a read does not depend on when RocksDB merged |
| `VirtualDB`, `WriteBuffer` | column families, write batches | `MultiGet`, `Get`, `FlushBuffer`, `NewWriteBuffer`, iterators, snapshots | batches are atomic (RocksDB) |
| Sequence mapping (meta column) | a counter and one mapping per business key | `AcquireCurrentSequence`, `AcquireNewSequence` | one sequence per key, one key per sequence |
| `FixLenLockFreeQueue`, `LockFreeQueue` | ring of slots with two tickets; linked stack | `TryEmplace`, `Push`, `Pop` | nothing lost, duplicated or reordered; operations return |
| `Searcher` with queries, weights, scorers | snapshot, iterators of a query | `DoQuery`, `GetStoredFields`, `ScanTableData`, `ScanBusinessType` | a document nobody writes meanwhile is answered exactly; a scan visits every key |
| Doc iterators, merging iterator | cursor per doc list or child | `NextDoc`, `Advance`; `Seek`, `Next`, `Prev` | conjunction and disjunction of the lists; no key skipped in either direction |
| Collector, filter, sorter | buffer, priority queues of matches | `Collect`, `InnerPurge`, `Finish` | the wanted slice of the matches by the sort conditions or scores |
| Codecs, doc-list compression | none | encode, decode | decode inverts encode, byte order is number order |
| Statistics | the list of histograms in use, log files | `AddStat`, `Report`, log rotation | no sample lost or counted twice; logs in order |
| Mock database | maps, batch of one entry per key | `Put`, `Delete`, `Merge`, `DeleteRange`, `FlushBuffer` | reads agree with RocksDB's |
| Configuration, logging, generated messages | (supporting code) | construction, printing | |

How they interact. A write call runs on the caller's thread: `IndexWriter` reads the old documents through
`VirtualDB::MultiGet`, decides per document, and `DocumentWriter` fills one `WriteBuffer` (stored fields,
postings as merge operands, doc values), which is flushed atomically or handed back in `store_buffer`.
RocksDB calls the merge operator on its compaction threads and on every read of an inverted-index key.
`Searcher` reads the three columns on other threads: stored fields, doc values and prefix lists at a snapshot, boolean
lists without it. The only locks are those of the merge
operator's heap pool, of the statistics and around the MMSEG library: everything that keeps two calls apart is up to the caller.

What is hard here: the gap between `MultiGet` and flush; batches that wait in a `store_buffer`; failure of
one document in a batch; crashes between steps; merges in any order, at any time, cut at a length limit; the
read-modify-write of the sequence counter; queries and paged scans beside writers; nested iterators that move each other;
cuts and limits in the collector; the lock-free queues; the swap of statistics. `PROJECT.json` lists each hazard at its line.

## 2. Modules

| Module | Models | Kind |
|---|---|---|
| `Documents` | fields, flags, tokenizing, field merge, stored and doc-value form, postings | operators |
| `IndexWriter` | write calls by concurrent callers on the three data columns | state machine (extends `Documents`) |
| `IndexWriterProofs` | theorems about `IndexWriter` | proofs |
| `DocLists` | doc lists and what a merge yields | operators |
| `DocListMerge` | one inverted-index key: writes, partial and full merges, reads | state machine (extends `DocLists`) |
| `Coding` | fixed-width and varint integers as bytes | operators |
| `DocListCodec` | the two stored forms of a doc list, and the reader's `NextDoc` and `Advance` | operators (extends `Coding`) |
| `DocListReader` | one reader moved by any calls | state machine (extends `DocListCodec`) |
| `HeapMerge` | the heap algorithm of `OptimizeDocListMerge`, one step per round of its loops | state machine (extends `DocLists`) |
| `StoredMerge` | a merge of stored operands: decoding, the heap merge, storing the result | state machine (extends `HeapMerge`, `DocListCodec`) |
| `DocIterators` | `OrIterator`, `MergeIterator` over readers | operators (extends `DocListCodec`) |
| `FilterSort` | filters, sort conditions, `Sorter` | operators |
| `TopNCollector` | `Collect`, `InnerPurge`, scoring, `Finish`, under any iterator (`CollectorSpec`) | state machine (extends `FilterSort`) |
| `Searcher` | `DoQuery` beside a writer: weights, scorers, collector | state machine (extends `DocIterators`, `TopNCollector`), refines `CollectorSpec` |
| `QueryTests` | the queries of the unit tests and the results they demand | cases (extends `Searcher`) |
| `TableScan` | `ScanTableData`, `ScanBusinessType`, `DeleteTableData`, `DropTable` over encoded keys | state machine (extends `Coding`) |
| `MergingIterator` | several iterators walked as one | state machine |
| `MockDatabase` | the in-memory database of the tests beside RocksDB's semantics | state machine (extends `DocLists`) |
| `Utf8`, `Tokenizer` | `utf8::next`; tokenizers and suffix expansion on octets | operators; state machine |
| `SequenceAllocator` | business keys to sequences | state machine |
| `BoundedFifo` | what a bounded queue promises | abstract specification |
| `FixLenLockFreeQueue` | the ring buffer, one step per atomic access | state machine, refines `BoundedFifo` |
| `LockFreeQueue` | the linked list, one step per atomic access | state machine |
| `Statistics` | `AddStat`, `Report`, log rotation, histograms | state machine |
| `SequenceAllocatorProofs`, `TableScanProofs`, `CollectorProofs`, `HeapMergeProofs` | theorems about `SequenceAllocator`, `TableScan`, `TopNCollector`, `HeapMerge` | proofs |
| `QueueProofs` | theorems about `FixLenLockFreeQueue` and `LockFreeQueue` | proofs |
| `StorageProofs` | theorems about `DocListMerge`, `MergingIterator` and `MockDatabase` | proofs |
| `OrderLemmas` | least and greatest elements, cardinalities | lemmas |
| `MCIndexWriter`, `MCHeapMerge`, `MCSearcher`, `MCStorage`, `MCThreads` | values for the constants; which parts run together | TLC instances |

`MCHeapMerge`, `MCStorage` and `MCThreads` extend several components that share no variable. `Init` picks one and only that
one moves, so a run explores the union of the components' state spaces, not their product.

### IndexWriter

`stored`, `docvalue` and `inverted` are the columns (a posting is document, field, term); `call[w]` is the call
of writer `w`; `buffer[w]` its `store_buffer`. `Load` is `InnerWriteDocuments` up to and including
`UpdateDocumetStatus`; `Write` is `DocumentWriter::UpdateDocuments` (tokenizer, field merge, three column
writers, flush or copy to the buffer); `TokenizerFails`, `BatchTooLarge` and `FlushFails` are its error exits.
Between `Load` and `Write` anybody may run. `IngestInvertIndex` and `DropTable` read nothing and are one step.
`FlushStoreBuffer` is the caller applying its buffer, `Crash` loses calls and buffers.

A write batch is kept per key (the last `Put`/`Delete`, the last merged state of a posting). That the last
merged state wins is what `DocListMerge` checks; the two models meet there.

`content` is a history variable: the documents the committed calls describe. It is computed from the
interfaces' meaning (`IntentOf`, `ApplyIntent`), not from what was read, and no guard mentions it. Safety says
that the columns agree with it.

`Contract` names the rules callers follow. `"locks"`: no two unfinished calls or unflushed buffers for one
document. `"fresh"`: `AddDocumentsWithoutRead` only for ids that hold no document (`index_writer.h:91`). Runs
and theorems say which they assume; the run `writer_race` shows what happens without the first.
A call names an id once (`index_writer.h:58`). A stored document that cannot be decoded counts as a read error.

### Doc lists

A doc list is a function from ids to None, OK or Delete. `Merged` says what the operator yields: for each id the
state of the newest operand that has it; a full merge drops deletes and keeps the `MaxDocs` greatest ids; a partial
merge keeps deletes. `DocListMerge` lets merges happen at any time on any contiguous range of operands.
`HeapMerge` starts from decoded operands and runs the heap. Each round of a loop in `OptimizeDocListMerge`, and in the two sift functions it calls, is a step: `Build` takes the next
cursor, `HeapShiftUp` moves it up by one place, `Emit` writes the top or drops it, `Skip` and `HeapShiftDown` leave the written id behind, `Finish` finds the lists
at their end. A place `pos` of the model is index `pos - 1` of the code, so the parent of `pos` is `pos \div 2`.
`StoredMerge` is the same with operands in either stored form (`WriteDocList`), decoded as `DecodeDocList` does. In the compressed form the
decoded lists live in a vector of strings; where that vector grows while it holds a short string, the code reads through a
pointer to freed memory (`Moves`). Such a merge is not followed.
`DocListReader` walks a stored list with `NextDoc` and `Advance` in any order; its binary search is `Search`.

Bytes are scaled: a byte has `ByteBits = 3` bits and a `uint64_t` has `Width = 2` bytes, so ids run to 63 and the greatest id, the
longest varint and every carry between bytes occur.

### Searcher, TopNCollector

`db` is the database, `view` the snapshot. A write replaces one document in all columns at once, which is what the writer
model shows for locking callers. `GetScorer` reads the query's leaves in turn; a boolean leaf reads `db` (`bool_weight.cpp:67` passes no
snapshot), a prefix leaf `view`, up to its size limit. `CollectNext` is one round of the loop in `DoQuery`: `Collect`, and where the
batch is full `InnerPurge`, whose reads may fail. Purging is several steps (`PurgeUnread`, `PurgeRead`, `PushHit`, `ScoreHit`,
`PurgeEnds`), `StopCollecting`, `FinishScores` and `Return` end the query. A priority queue is a sequence in order; where equal members may
come out in any order the model chooses. A field missing from a document that is to be scored is a null pointer in
`post_scorer.cpp:36`: the process ends (`"crashed"`).

`TopNCollector` knows nothing of queries: `source` is the set the query selects and `seen` what the collector was given of it, two history
variables no guard of the program's steps mentions. `CollectorSpec` lets any iterator that gives the documents of `source` once, in descending
order, feed the collector. `FeedsCollector` says that the loop of `DoQuery` with its nested iterators is such a one, so what is proved of
`CollectorSpec` is a result about queries.

`QueryTests` states the unit tests of queries, filters, sorting and of the doc-list reader as initial states with the demanded result:
the model has to pass the tests of the program.

### TableScan, MergingIterator

Keys are the byte strings of `EncodeStoredFieldKey` and `EncodeMetaKey` in byte order. Each call is one step, from `start_key` to the next one;
others change rows between calls. `max_len`, `max_buffer_size` and row sizes are small enough that pages end for each reason, also
with a row too large for a page, which `ScanTableData` reports as an error (`searcher.cpp:284`). `MergingIterator` keeps each child's position, `current_` and `direction_`.

### MockDatabase

The mock's maps and batch beside a history of what RocksDB would hold. Its calls come in any order; nothing is assumed of the caller. `departed` remembers
that the mock has done what RocksDB would not: a batch with deletes, merges or ranges was opened again, which makes puts of them, a range a put of the
empty value under its begin key (`write_buffer_mock.cpp:126`); a key was written behind a range of its batch that has it, and the flush applies ranges last; the first merge of a
key was stored with its deletes, which readers take for documents (`virtual_db_mock.cpp:163`). `crashed` is the erase inside a range-for in
`virtual_db_mock.cpp:183`, undefined behaviour. `MockAgrees` holds until one of these happens.

### Utf8, Tokenizer

Text is octets, real ones: `validate_next` and `next` decode them. `Tokenizer` takes a text through a tokenizer (where the MMSEG library
cuts is open) and each term through `UTF8SuffixBuilder`, one suffix a step.

### SequenceAllocator

`current` and `mapping` are the meta keys; a call reads them (`AcquireCurrentSequence`), then allocates and writes
(`AcquireNewSequence`) or finds nothing to do (`AllAssigned`, which clears `store_buffer`). `given` is the history of
what callers were told with a flushed batch. Contract: `"serial"`, `"distinct"`.

### FixLenLockFreeQueue, LockFreeQueue

Every load, compare-and-swap, store and every access to a slot's storage is a step. `retry` tells `Push` (repeats)
from `TryEmplace`. The mapping to `BoundedFifo` takes the tickets between `tail_` and `head_` as the items and
`occupy` as their readiness. The acquire/release order of the code publishes the storage with `occupy`, so steps
are interleaved. `LockFreeQueue` numbers nodes in the order of their allocation: `Pop` never frees one, which is what keeps its
compare-and-swap sound.

### Statistics

`TakeList` and `AddStat` are the two steps of a caller (it takes the lock and finds the list in use, then adds and unlocks), `SwapList` and
`SwitchFile`/`WriteReport` those of the reporting thread. A rotation can fail at any file. The first sample of a pair passes through a `uint32_t` (`CostBits`), so of a
cost beyond its range only the rest is kept; `StatsConserved` allows for that and nothing else. Buckets are the code's own sequence, cut to
`NumBuckets`.

## 3. Runs

| Run | Bounds | Shows |
|---|---|---|
| `writer_serial` | 2 writers, 2 documents, 3 input documents over 2 fields and 2 terms, one document per call | under locks: columns match `content`; Add and Update never act on a stale existence check |
| `writer_batch` | 1 writer, 2 documents, 2 per call, buffers, all failures | failed calls change nothing and report no document as OK; no stale posting through buffers |
| `writer_buffers` | 2 writers, 1 document, fields without stored terms, ingestion, buffers, overwriting `AddDocumentsWithoutRead` | reads still current at the write, buffers deliver at any later flush |
| `heap_merge` | up to 4 lists, 4 entries, 3 ids, limit 2, delete limit 1, both forms; readers over lists of 6 ids | the heap computes `Merged`, in order, and terminates; stored lists, the merged one too, are decoded as written; the reader finds what was written |
| `searcher` | 4 documents, 4 terms, 3 fields, batches of 2, total limit 2, 2 writes beside a query | iterators compute the query's set, untouched documents are answered exactly, the loop of `DoQuery` feeds the collector as `CollectorSpec` says, the slice is right by sort or score, the unit tests' results, queries end |
| `storage` | sequences: 2 clients, 3 keys, lists of 2, 4 sequences; scans: 4 tables, 5 rows, pages of 2, 2 writes, row sizes 1, 3 and 5 against a buffer of 4; 3 children with 3 keys; histories: 3 ids, limit 2, 3 operands; mock: 2 keys, 4 calls; texts: up to 3 pieces out of 12 | sequences unique and as told; scans and deletes complete and confined to their table; no key skipped; reads sound in every merge order and complete below the limit; the mock agrees; index keys are the suffixes at character boundaries; scans end |
| `threads` | ring: 3 threads, 2 slots, 3 pushes, 2 values; list: 3 threads, 3 nodes; statistics: 2 callers, 3 samples of 2 costs, one beyond `uint32_t`, 3 reports, 3 files | FIFO refinement, exclusive slots, operations return; list and statistics conserve; logs in order |
| `writer_race` (violation) | 2 writers, 1 document, `AddOrUpdateDocuments` only, no contract | README "数据写入即实时可查" fails for overlapping writes |
| `sort_ties` (violation) | 2 documents, one number, a descending and an ascending condition | README "类似order by语义" fails for ties in a descending condition |
| `writer_docvalue` (violation) | doc-value-only field | an update resets a doc value it does not mention |
| `sequence_race` (violation) | overlapping clients | two keys get one sequence |
| `stat_percentiles` (violation) | 1 caller, 3 samples of 2 costs | the columns labelled 50, 80 and 90 % are not |

Why the bounds suffice. Every writer property is about one document and at most two calls that overlap on it;
two documents are needed for a batch in which one fails and for locks that collide partly. Two terms, one a suffix of
the other, give terms that are added, dropped, kept and shared. Three ids with limit 2 make lists that are cut; three
operands give every shape of partial merge before, after and across another. Four heap nodes are the first size with a
grandchild. Three pushes on two slots reuse a slot in a second turn. Four documents, batches of two and a total limit of two give a
query with no purge, with one, with a rest at the end and with a cut; every assignment of three terms to documents is a database; query shapes nest
to depth two in both ways. The twelve pieces of text are one of each kind of character `validate_next` tells apart, and one of each error. Two
writes suffice to remove and put back the row a scan resumes at, or to change a document before and between the reads of two leaves; behind the last leaf a query
reads only its snapshot.
`MaxPush`, `MaxNodes`, `MaxOps`, `MaxSeq`, `MaxEntries`, `MaxWrites`, `MaxChanges`, `MaxCalls`, `MaxSamples` and `MaxReports` bound counters and occur only in guards
and `Init`.

Fairness. `FixLenLockFreeQueue` assumes weak fairness of each thread's continuation: the operating system runs every
thread. Nobody has to start an operation, and `Push` on a full queue may wait for ever, so `Returns` excludes it.
`HeapMerge` and `StoredMerge` assume that the one thread that merges keeps running, `Searcher` that the thread in `DoQuery` does (`SearcherStep`; the writer is free to stop),
`TableScan` that the caller calls again until the key to go on from is empty (`ScanStep`), as the tests do. The other specifications assume no fairness.

`CHECK_DEADLOCK FALSE` is set for `heap_merge`, `searcher`, `storage`, `threads`, `sort_ties` and `stat_percentiles`: a merge, a query, a scan and a field's
indexing end, and the bounds on calls end the others.

Each property has a mutant in `PROJECT.json`: a definition of the model changed as a plausible bug would, on which TLC
finds the property violated. Definitions named so are marked "Mutant" in the modules.

### What the violation runs say

* `writer_race`: `index_writer.cpp:264` reads the old document, `document_writer.cpp:96` flushes later. The run has no
  other operation than `AddOrUpdateDocuments` (`UpdatesSpec`). A document with terms t1 and t2 is stored; one call makes it t1, the other keeps t1 and t2, and both
  diff against the same old document. The first flush removes the posting of t2, the second does not add it: the stored document has a term without posting.
  Under `"locks"` this cannot happen (theorem `FindableCorrect`).
* `sort_ties`: `Sorter` (`sorter.h:147`) goes on to the next condition only if `Greater` holds both ways, which is a tie in an ascending condition;
  a tie in a descending one is greater neither way and ends the comparison. Documents 4 and 3 have one number; sorted by it descending and by a
  string ascending, 4 should come first and comes last. In the model equal members of a priority queue leave it in any order; the order of this trace is that of the code: 4 is pushed, then 3, the heap stays
  <4, 3>, and 4 is popped first and so placed last. What does hold of the order is `TopNCorrect`.
* `writer_docvalue`: the branch that would load the old doc value tests `DocumentExist()` (`index_writer.cpp:134`,
  `:166`), a status `MultiGet` never gives. Fields that are stored as well keep their value (`writer_serial`).
* `sequence_race`: `document_writer.cpp:422` reads the counter and nothing is locked until the new one is written.
* `stat_percentiles`: `staticstic.h:66` asks for `Percentile(0.5)`, which `stat_collector.cpp:165` takes as 0.5 %.

Smaller differences that were met and have no run: `AcquireNewSequence` with nothing to allocate clears the caller's `store_buffer` with what earlier calls
put there (`document_writer.cpp:463`, action `AllAssigned`); `README.md:26` says `ReplaceDocuments` replaces only existing documents, while
`index_writer.cpp:197` and `index_writer.h:79` accept absent ones; `DropTable`'s ranges exclude document id `UINT64_MAX`; the mock turns
deletes, merges and ranges that pass through `store_buffer` into puts; in a build with `NDEBUG`, `codec_doclist_impl.cpp:63` would drop the call
inside its assertion (the repository's build does not define it).

## 4. Proofs

Every theorem holds for all values of the constants that satisfy the named assumptions of its module; what else a theorem needs is
in its `ASSUME`. The bounds of the runs (`MaxNodes`, `MaxPush`, `MaxCalls`, ...) are constants like the others, so a result is one about any
number of nodes, pushes or calls. Each inductive invariant was checked by TLC, as an invariant of a small instance, before it was proved.

| Module | Theorems | Hypotheses beyond the assumptions on constants |
|---|---|---|
| `IndexWriterProofs` | `TypeCorrect`, `OutcomeCorrect` | none: any callers |
| | `ConsistencyInvariant`; `StoredCorrect`, `FindableCorrect`, `BufferCorrect`, `LoadedCorrect`, `AddCorrect`, `UpdateCorrect` | `"locks" \in Contract`; `LastDocID \notin DocID` (id `UINT64_MAX` unused) |
| | `ExactnessInvariant` | also `"fresh" \in Contract` |
| | `NoStaleCorrect` | also `TermInputs` |
| | `DocValueCorrect` | also `ValueInputs` |
| `StorageProofs` | `HistoryInvariant`; `HistorySound`, `HistoryComplete` | `FewDeletes`: no more ids than deletes a partial merge writes |
| | `MergingInvariant`; `MergingSkipsNothing` | finitely many children and keys |
| | `MockInvariant`; `MockCorrect` | none |
| `SequenceAllocatorProofs` | `AllocatorInvariant`; `SequencesUnique` | `"serial" \in Contract` |
| | `SequencesGiven` | also `"distinct" \in Contract` |
| `QueueProofs` | `RingInvariant`; `RingSlotExclusive`, `RingFirstInFirstOut`, `RingImplementsFifo` | none |
| | `StackInvariant`; `StackCorrect` | finitely many threads |
| `TableScanProofs` | `ScanInvariant`; `ScansComplete`, `DeletesExact` | none |
| `CollectorProofs` | `CollectorInvariant`; `TopNsCorrect`, `ScoredsCorrect` | none; of `CollectorSpec` |
| `HeapMergeProofs` | `HeapInvariant`; `MergesCorrect` | none; the operands are lists with ids descending (`Init`) |

The hypotheses about callers are necessary: `writer_race` and `sequence_race` show what happens without `"locks"` and
`"serial"`, and `writer_docvalue` which inputs break exactness.

### IndexWriter

`StoredMatches` and `Findable` are not inductive: a flush is right only if what its call read is still true.
`Consistency` adds the three facts that carry this. `ExclusiveUse`: no document is in two writers' hands, so a flush leaves
other calls' documents alone. `LoadedIsCurrent`: what a loaded call read is what is stored. `BufferConsistent`: each
buffer, flushed now, would leave every document it touches as its calls promised, with all its postings, and it touches the stored
row exactly if it holds an intent. Each action then preserves each part; the lemmas before the theorem are about the
operators (overlay and stored form commute, the postings of a merged document are those of the diff, composition of
intents) and about how a batch grows.

`Exactness` is the other direction: the index holds nothing but what the documents say. A write removes the postings it finds in
the stored form of the old document, so what that form leaves out stays in the index. Hence `TermInputs` (no input has a field whose terms are not
stored, and nothing is ingested past the documents) and `ValueInputs` (every doc-value field is stored). Beyond `Consistency` it keeps
`Exact` of every buffer (flushed now, it leaves no posting and no doc-value row too many), `KeptContent` (what documents are made of has those
flags, through merges of old and new fields) and `LoadedFresh` (`AddDocumentsWithoutRead` still finds no document).

`OutcomeInv` carries the per-document statuses from the read to the end of the call; it needs no contract.

### DocListMerge

The invariant says of the base value followed by the operands that are left, whatever compactions folded together, that the newest state of an id is the one
last written: OK only if written OK, and always then while the list limit is out of reach. It is kept because a partial merge has for each id the newest
state of its operands, deletes included, and cuts only OK ids beyond the limit. `FewDeletes` is the limit of 10,000,001 deletes: past it
the merge drops deletes and `Sound` fails.

### HeapMerge

`DocListMerge` takes `Merged` for what the operator yields; `MergesCorrect` is why it may: the heap computes it, for any number of operands of any length, full or partial, with
or without reaching a limit. `HeapInv` has three parts. The heap: there is one cursor on every list, and the array is in heap order but for one place, the cursor being sifted,
which may be greater than its parent (`UpAt`) or less than a child (`DownAt`). A swap moves that place along the path, because the order is total, and at the end of
the loop there is none (`Sorted`); the top is then the greatest cursor, by least counterexample along the parents. The cursors: each is behind exactly the entries from the last id written on
(`Behind`), or, while that id is skipped, may still be on it (`Around`); so the top is the greatest id not handled yet, from the newest operand that has it
(`TopIsNext`, `TopIsNewest`). The output: it has, in order, the ids handled that `Kept` keeps, and the two counters are the numbers `Kept` compares with the limits (`Written`),
so `Emit` decides as `Kept` does, and where a limit ends the merge nothing that is left would have been kept (`Through`).

The hypothesis on the operands is met: single writes and merged lists are in order (`ComputesMerged`), and decoding keeps a list as it was written (`FormsKeepLists`, by TLC).

### SequenceAllocator

Between its two reads and its write a serial call is alone, so what it read is `current` and `mapping` (`ReadIsCurrent`). A batch maps only keys without a sequence to
distinct numbers above the counter and up to the counter it writes (`NewInBatch`), and makes true what callers were told with it (`ToldInBatch`); so
it may be flushed at any later time, or be lost.

### FixLenLockFreeQueue

`occupy` of a slot tells which ticket the slot serves. For tickets between `tail_` and `head_` the slot is being filled or holds the item
(`TakenSlots`), for those that may come next it is free or being emptied (`FreeSlots`), and a thread's check of a slot stays
true until its ticket is taken (`ChecksHold`). Two tickets of one slot are a capacity apart (`idx` and `turn` are division with remainder),
which is all the arithmetic needed. For the refinement each step is matched with a step of `BoundedFifo` or with none: `CasHead` and `CasTail`
with taking a ticket, `PublishSlot` with readiness.

### LockFreeQueue

There is a sequence `s[1], ..., s[n]` without repetition that the pointers follow from `head_` to nullptr. Every node is in it, given out or in exactly one thread's
hand. `Followers` is what makes the compare-and-swap of `Pop` right although others pop and push between its reads: a node that was pushed is
never pushed again, because it is not freed, so its next pointer no longer changes. `StackConserved` speaks of a recursive function along the
pointers; the proof shows that `s` satisfies its equation and that no other function does.

### MergingIterator

Once `current_` stands on a key, every child is on its first key from there on or on the first behind it (`Ahead`; `Behind` for the other direction).
A step that keeps the direction relies on it; one that turns around establishes it by seeking. A step repeats a key only where two children have it.

### MockDatabase

The invariant compares what a flush would make of the mock with what RocksDB holds. Deletes need care: the first merge of a key
stores its operand as it is, with the deletes in it, and readers do not look at states. A flush that keeps a delete in this way sets `departed`; while it is not set,
stored rows (`StoredAgrees`) and lists with the batch merged into them (`ListsAgree`) are RocksDB's, key by key.

### TableScan

The result is one about the bytes: for every byte size, width of integers, set of tables and rows, page length and size limit. Pages have
more than one row (`ScanAssumption`), because the code refuses other lengths (`searcher.cpp:154`, `:216`). The lemmas go from numbers to
keys. The bytes of a fixed-width number, read back, are the number (`OctetsValue`), so keys are injective and the rows of a table are exactly the keys with its
prefix. Byte order is a strict total order, so every finite set of keys has places, and a page is its first places (`PageOf`). The zero and
the greatest number have the least and the greatest bytes, which bounds the range of `DropTable` and shows the one key it leaves out. Powers
of the byte size are a recursive function; what the proof needs of it is had from its equation (`PrimitiveRecursion`) by least counterexamples.

`ScanInv` says which keys the pages have passed: those of the table up to `start`. All of them that were there all the time are returned or deleted,
and nothing of another table is. It survives that others remove, put back or add the row
a scan resumes at, which is what `FromStart` is about.

### TopNCollector

`FedInOrder` ties the counter of documents and the buffer to the history: of the documents given, up to the total limit, the buffer has the last ones and the rest was purged. `Handled` are
those of the purged documents that pass the filters, `Queued` those of them that no longer wait in `hits`. The invariant `TopNInv` is that the priority queue
has the best `offset + limit` of `Queued`, each once and in order (`Best`), and the matches counted are as many as `Handled`. An insertion with the cut of the
last member keeps `Best` because `Before` is a strict weak order: it is irreflexive and transitive, and so is being neither before nor behind. That is where the sort conditions come in,
for any list of conditions over numbers and byte strings, ascending or descending, with fields that are missing. The theorems do not take `Sorter` for the order: `FilterSort` states it a second
time, from what a condition means (`Below`, `PutsFirst`, `Equal`). `OrderBy` is ORDER BY with the id behind all conditions, and `HonouredOrder` is what of it holds: behind
a condition the next one is asked only where the condition is ascending and both documents have one value in it; a tie in a descending condition leaves the order
open, and two documents without a value come by id. `SorterIs` proves that `Sorter` computes `HonouredOrder`, octet by octet for strings, and `BeforeIs` carries it to the queue.
That it falls short of `OrderBy` is what `sort_ties` shows.
A queue without sorter is never cut, because ids arrive in descending order. At the end `StopOK` says why the loop was left (the selection is exhausted, a read failed, or
the queue is full, unsorted and nobody counts), and in each case the slice is that of all documents examined.

`ScoredInv` adds that the queue of scores has every document of `Queued` with its score, the greatest first, as long as the number of matches does not exceed the number of
documents to score; `Finish` then takes the places behind `offset` and orders them by the sort conditions, as far as they are honoured. `ScoredCorrect` says nothing of failed reads and more matches: there hits are
dropped by design.

That `Searcher` implements `CollectorSpec` (`FeedsCollector`) is checked by TLC only: its iterators are recursive.

### Only model-checked

* Liveness (`Terminates`, `QueryEnds`, `ScanEnds`, `Returns`): outside the prover's reach.
* `StoredMerge` (`FormsKeepLists`) and `DocListReader` (`ReaderFinds`): variable-length coding and the binary search are recursive operators;
  the prover has no induction for them and loses its SMT backend.
* `Searcher` (`IteratorsComputeSets`, `UntouchedExact`, `FeedsCollector`) and the unit tests (`TestsPass`): queries and iterators are nested to any depth and recursive,
  for the same reason.
* `Tokenizer`: what `utf8::next` and the suffix builder compute on octets is a matter of the data, which TLC enumerates.
* `Statistics`: sums and concatenations by folds over histograms, reports and files, again induction over data.

## 5. Not modelled, and the plan

Not modelled: RocksDB's own recovery, compaction policy and options, and how a database is opened; where the MMSEG library cuts text; the text
of logs, traces and reports, and the standard deviation in them; configuration; generated protobuf code; `WriteBufferMock::Append`; the deprecated `FullMerge`, which
asserts false; benchmarks and examples; interfaces without implementation (write queue, compaction filter). Of the unit tests, those of queries,
filters, sorting, scans and the doc-list reader are cases of the models; those of the write interfaces check single calls that `writer_serial` covers.
A partial merge beyond `MaxDeletes` (10,000,001 in the code) drops deletes; `DocListMerge` is checked below that limit.

What further work is worth: the doc-list codec on recursive functions instead of operators, so that `FormsKeepLists` comes within the prover's reach; the conditions under
which the two `SequenceAllocator` contracts can be relaxed.
