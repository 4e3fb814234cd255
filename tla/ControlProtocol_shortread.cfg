SPECIFICATION SafetySpec
CONSTANTS
    right = right
    wrong = wrong
    Psks = {right, wrong}
    ServerPsk = right
    Peers = {"conforming"}
    ReadModes = {"cut"}
    MaxPings = 2
CHECK_DEADLOCK FALSE
INVARIANTS
    SameKeySucceeds
