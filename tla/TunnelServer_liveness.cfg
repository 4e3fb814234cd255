SPECIFICATION Spec
CONSTANTS
    c1 = c1
    c2 = c2
    c3 = c3
    t1 = t1
    t2 = t2
    NoConn = NoConn
    AllowedSpecs <- MCAllowedSpecs
    Conns = {c1, c2}
    Tcps = {t1}
    KnowsPsk = {c1, c2}
    RequestPorts <- OnePort
    EphemeralPorts <- MCEphemeralPorts
    ConnectionLimit <- LimitTwo
    MaxAcceptErrors = 0

CHECK_DEADLOCK FALSE
PROPERTIES
    SetupBounded
    CancelReleases
    LostEnds
    AttemptsDecided
    ReadersEnd
