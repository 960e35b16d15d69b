SPECIFICATION ReadingSpec
CONSTANTS
  Modulus = 3
  r1 = r1
  o1 = o1
  o2 = o2
  d1 = d1
  Data <- MCData
  NoInfo = NoInfo
  Oversize = Oversize
  Unacceptable = Unacceptable
  NoObj = NoObj
  N2 = 1
  InCap = 1
  TxCap = 1
  AckCap = 1
  ControlCap = 1
  Remote <- MCRemote
  Obj <- TwoObj
  RxFrames <- ReadingFrames
  Writes <- NoWrites
INVARIANT OpenLinksAreListed
 
