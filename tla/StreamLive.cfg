CONSTANTS
  Mode = "HTTP"
  RingCap = 12
  TlsMax = 2
  MaxFrame = 4
  MsgLens = {1, 2}
  FrameSizes = {0, 1, 3}
  PadSizes = {}
  CtrlSizes = {}
  HostCap = 2
  MaxText = 4
  MaxRaw = 7
  MaxWrites = 4
  MaxDec = 6
SPECIFICATION FairSpec
CHECK_DEADLOCK FALSE
INVARIANT WrittenInOrder
PROPERTIES EverythingDelivered ImplementsChannel
