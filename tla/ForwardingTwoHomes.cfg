SPECIFICATION Spec
CONSTANTS
  a = a
  b = b
  u1 = u1
  u2 = u2
  u3 = u3
  area = area
  t1 = t1
  t2 = t2
  NoAddress = NoAddress
  User <- MCUser
  Address <- MCAddress
  Text = {t1, t2}
  Peer <- MCBbs
  Bbs <- MCBbs
  Letter <- AwayLetters
  Login <- MCLogin
  Partners <- BothWays
  Routes <- MCRoutes
  Scopes <- MCScopes
  Deferring <- MCDeferring
  MaxMessages = 2
  MaxFaults = 1
INVARIANT UniqueBID
