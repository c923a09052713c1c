---------------------------- MODULE MCHeapMerge ----------------------------
(***************************************************************************)
(* Checks one of two parts per behaviour: a merge of stored doc lists, or  *)
(* a reader over one.                                                      *)
(***************************************************************************)
EXTENDS StoredMerge, DocListReader

VARIABLE part   \* the part that runs

MergeIdle ==
  /\ type = FixType /\ operands = <<>> /\ lists = <<>> /\ purge = FALSE /\ heap = <<>> /\ pc = "done"
  /\ built = 0 /\ sift = 0 /\ last = 0 /\ oks = 0 /\ deletes = 0 /\ out = <<>>

ReaderIdle == list = <<>> /\ reader = NewReader(WriteDocList(FixType, <<>>), 1) /\ at = NO_MORE_DOCS

MCInit ==
  \/ part = "merge" /\ StoredInit /\ ReaderIdle
  \/ part = "read" /\ ReaderInit /\ MergeIdle

MCNext ==
  \/ part = "merge" /\ StoredNext /\ UNCHANGED <<part, readerVars>>
  \/ part = "read" /\ ReaderNext /\ UNCHANGED <<part, storedVars>>

MCSpec == MCInit /\ [][MCNext]_<<part, storedVars, readerVars>> /\ WF_storedVars(part = "merge" /\ StoredNext)
=============================================================================
