SPECIFICATION MCSpec
CONSTANTS
  ByteBits = 3
  Width = 2
  Docs = {1, 2, 3, 4}
  FieldIDs = {1, 2, 3}
  BatchLimit = 2
  TotalLimit = 2
  Pattern <- P
  TermsSize = 2
  TargetField = 1
  Terms = {1, 2, 3, 4}
  Contents <- MCContents
  MaxDocListSize = 3
  MaxWrites = 2
INVARIANTS IteratorsComputeSets UntouchedExact TopNCorrect ScoredCorrect TestsPass
PROPERTIES QueryEnds FeedsCollector
CHECK_DEADLOCK FALSE
