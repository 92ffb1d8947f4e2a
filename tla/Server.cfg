SPECIFICATION FairStreamSpec
CONSTANTS
  InitUnits = 3
  MinUnits = 3
  ReqLen = 3
  MaxHead = 2
  MaxChunk = 5
  ReadSizes = {0, 1, 6, 11}
  MsgLens = {2, 5}
  ChunkSizes = {0, 1, 5, 6}
  MaxText = 6
  MaxReplies = 2
CHECK_DEADLOCK FALSE
INVARIANTS ReceivedInOrder HeadInClear
 
