SPECIFICATION MCSpec
CONSTANTS
  Client = {c1, c2}
  User = {u1, u2, u3}
  Record = {r1}
  Idle = Idle
  MaxSeq = 4
  MaxList = 2
  Contract = {"serial", "distinct"}
  ByteBits = 3
  Width = 2
  Tables <- MCTableSet
  Rows <- MCRows
  MaxLen = 2
  MaxBufferSize = 4
  HeaderSize = 2
  Sizes = {3, 5}
  MaxChanges = 2
  Children = {1, 2, 3}
  ChildKeys = {1, 2, 3}
  DocID = {1, 2, 3}
  MaxDocs = 2
  MaxDeletes = 3
  Operands <- MCOperands
  MaxOps = 3
  MockKeys = {1, 2}
  MockValues = {1, 2}
  MaxCalls = 4
  Texts <- MCTexts
  TokenLens = {1, 4}
  SuffixLens = {0, 2}
  MaxSuffixTermSize = 7
INVARIANTS Unique GivenIsMapped ScanComplete DeleteExact Sound Complete MockAgrees TextIndexed
PROPERTIES ScanEnds NoKeySkipped
CHECK_DEADLOCK FALSE
