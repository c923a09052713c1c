SPECIFICATION Spec
CONSTANTS
  f1 = f1
  f2 = f2
  v0 = v0
  v1 = v1
  v2 = v2
  t1 = t1
  t2 = t2
  d1 = d1
  FieldID <- MCFields
  Value <- MCValues
  Term <- MCTerms
  NoValue = v0
  NoField = NoField
  NoDoc = NoDoc
  Segment <- MCSegment
  Whole <- MCWhole
  Suffixes <- MCSuffixes
  ZeroID = ZeroID
  LastDocID = LastDocID
  Keep = Keep
  Idle = Idle
  Writer = {w1, w2}
  DocID = {d1, d2}
  Inputs <- CleanInputs
  Modes = {"Add", "Update", "AddOrUpdate", "Replace", "Delete", "AddWithoutRead"}
  Ingests = {}
  MaxBatch = 1
  Faults = FALSE
  Buffered = FALSE
  Contract = {"locks", "fresh"}
INVARIANTS TypeOK StoredMatches Findable NoStalePosting DocValueMatches
PROPERTIES AddOnlyIfAbsent UpdateOnlyIfPresent
