SPECIFICATION HistorySpec
CONSTANTS
  Modulus = 8
  d1 = d1
  d2 = d2
  Data <- MCData
  NoInfo = NoInfo
  Oversize = Oversize
  Unacceptable = Unacceptable
  N2 = 2
  NM201 = 0
  AckCap = 2
  ControlCap = 1
  XidCap = 1
  MaxNeg = 1
  Messages <- OneMessage
  RxFrames <- RecoveryFrames
  Cancellable = {}
PROPERTY DisconnectedStaysDown
