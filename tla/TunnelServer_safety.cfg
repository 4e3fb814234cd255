SPECIFICATION SafetySpec
CONSTANTS
    c1 = c1
    c2 = c2
    c3 = c3
    t1 = t1
    t2 = t2
    NoConn = NoConn
    AllowedSpecs <- MCAllowedSpecs
    Conns = {c1, c2}
    Tcps = {t1, t2}
    KnowsPsk = {c1, c2}
    RequestPorts <- OnePort
    EphemeralPorts <- MCEphemeralPorts
    ConnectionLimit <- NoLimit
    MaxAcceptErrors = 0
SYMMETRY TcpSymmetry
CHECK_DEADLOCK FALSE
INVARIANTS
    TypeOK
    HandlerEndReleases
    AcceptedAccounted
PROPERTIES
    NoStreamAfterClose
    ImplementsService
