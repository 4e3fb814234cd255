SPECIFICATION Spec
CONSTANTS
    right = right
    wrong = wrong
    Psks = {right, wrong}
    ServerPsk = right
    Peers = {"shipped", "conforming", "garbled"}
    ReadModes = {"whole", "cut"}
    MaxPings = 2
CHECK_DEADLOCK FALSE
INVARIANTS
    TypeOK
    AuthAgreement
    WholeReadsSucceed
    KeepaliveInStep
PROPERTIES
    KeepaliveEndReachesServer
    ServerEndReachesClient
