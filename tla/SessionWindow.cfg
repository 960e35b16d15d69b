SPECIFICATION HistorySpec
CONSTANTS
  Modulus = 3
  d1 = d1
  d2 = d2
  Data <- MCData
  NoInfo = NoInfo
  Oversize = Oversize
  Unacceptable = Unacceptable
  N2 = 1
  NM201 = 0
  AckCap = 1
  ControlCap = 1
  XidCap = 1
  MaxNeg = 1
  Messages <- OneMessage
  RxFrames <- WindowFrames
  Cancellable = {"send", "probe", "connect", "disconnect"}
INVARIANTS
  QuiescentBetweenCalls
  
