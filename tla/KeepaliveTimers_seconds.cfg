SPECIFICATION Spec
CONSTANTS
    Interval = 30
    ReadTimeout = 30
    KeepAlive = 25
    IdleTimeout = 30
    MaxDelay = 2
    MaxLag = 1
    Window = 1
INVARIANTS
    TypeOK
    LivePeersStay
    FaultDetected
    LostMeansCut
    PongNeverWaits
