CONSTANTS
  Mode = "WS"
  RingCap = 3
  TlsMax = 2
  MaxFrame = 2
  MsgLens = {1, 2}
  FrameSizes = {0, 2}
  PadSizes = {2}
  CtrlSizes = {1}
  HostCap = 2
  MaxText = 6
  MaxRaw = 9
  MaxWrites = 0
  MaxDec = 8
SPECIFICATION Spec
CHECK_DEADLOCK FALSE
INVARIANTS DeliveredInOrder Conserved  NeverRepeated
