SPECIFICATION FairSpec
CONSTANTS
  Modulus = 8
  r1 = r1
  o1 = o1
  o2 = o2
  d1 = d1
  Data <- MCData
  NoInfo = NoInfo
  Oversize = Oversize
  Unacceptable = Unacceptable
  NoObj = NoObj
  N2 = 1
  InCap = 1
  TxCap = 1
  AckCap = 1
  ControlCap = 1
  Remote <- MCRemote
  Obj <- OneObj
  RxFrames <- AnswerFrames
  Writes <- MCData
INVARIANT TypeOK
PROPERTY ClosedLinksWindDown
