\* Two tabs, one call from the radio.
SPECIFICATION FairSpec
CONSTANTS
    t1 = t1
    t2 = t2
    Socket = {t1, t2}
    Inbound = {i1}
    Modes <- TwoModes
    Key = {"station", "bbs"}
    MaxExtras = 1
    None = None
INVARIANTS
    TypeOK
    
    
    
PROPERTIES
    CallEndsWithEitherEnd
    ClosedTabIsCleaned
CHECK_DEADLOCK FALSE
