SPECIFICATION MCSpec
CONSTANTS
  DocID = {1, 2, 3}
  MaxDocs = 2
  MaxDeletes = 1
  ListCount = 4
  MaxEntries = 4
  ByteBits = 3
  Width = 2
  ShortString = 5
  ReadIDs = {1, 3, 4, 16, 62, 63}
INVARIANTS ComputesMerged FormsKeepLists ReaderFinds
PROPERTIES Terminates
CHECK_DEADLOCK FALSE
