\* A port and another program share a TNC through the proxy.
SPECIFICATION FairSpec
CONSTANTS
    PortConn = {1, 2}
    Ext = {3}
    Up = {101, 102}
    QueueSize = 1
    TxSize = 1
    MaxPackets = 2
    MaxBreaks = 1
    MaxOthers = 1
INVARIANTS
    TypeOK
    FramesKeepTheirOrder
    ReconnectCostsOnePacket
PROPERTIES
    WholeFrames
    TrafficDrains
    GoneClientIsForgotten
CHECK_DEADLOCK FALSE
