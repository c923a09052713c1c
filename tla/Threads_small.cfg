SPECIFICATION MCSpec
CONSTANTS
  Thread = {t1, t2, t3}
  Value = {a, b}
  NoValue = NoValue
  Capacity = 2
  MaxPush = 3
  Worker = {t1, t2, t3}
  MaxNodes = 3
  Caller = {t1, t2}
  StatKey = {k1}
  Costs = {2, 70}
  NumBuckets = 12
  CostBits = 6
  LogMaxNum = 3
  LogMaxSize = 1
  MaxSamples = 3
  MaxReports = 3
INVARIANTS FirstInFirstOut SlotExclusive StackConserved StatsConserved LogOrdered
PROPERTIES ImplementsFifo Returns
CHECK_DEADLOCK FALSE
