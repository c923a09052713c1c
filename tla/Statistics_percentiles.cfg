SPECIFICATION StatSpec
CONSTANTS
  Caller = {t1}
  StatKey = {k1}
  Costs = {2, 10}
  NumBuckets = 12
  CostBits = 6
  LogMaxNum = 3
  LogMaxSize = 1
  MaxSamples = 3
  MaxReports = 1
INVARIANTS PercentilesAsLabelled
CHECK_DEADLOCK FALSE
