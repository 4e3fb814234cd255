SPECIFICATION SafetySpec
CONSTANTS
    c1 = c1
    c2 = c2
    c3 = c3
    t1 = t1
    t2 = t2
    NoConn = NoConn
    AllowedSpecs <- MCAllowedSpecs
    Conns = {c1, c2, c3}
    Tcps = {t1}
    KnowsPsk = {c1, c2}
    RequestPorts <- MCRequestPorts
    EphemeralPorts <- MCEphemeralPorts
    ConnectionLimit <- LimitTwo
    MaxAcceptErrors = 1

CHECK_DEADLOCK FALSE
INVARIANTS
    ListenersAuthorised
    ConnectionLimitRespected
