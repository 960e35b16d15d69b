\* Two ports, three neighbours, a table of three entries.
SPECIFICATION Spec
CONSTANTS
    own = own
    n1 = n1
    n2 = n2
    n3 = n3
    Call = {own, n1, n2, n3}
    Port = {p1, p2}
    Own = {own}
    BeaconCall = BEACON
    Enabled = {p1, p2}
    RxFrames <- StationFrames
    EntryTTL = 1
    Limit = 3
    MaxAnnounced = 2
INVARIANTS
    TypeOK
    RouteIsHeard
    AnswerTakesOnePort
