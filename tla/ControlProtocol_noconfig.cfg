SPECIFICATION SafetySpec
CONSTANTS
    right = right
    wrong = wrong
    Psks = {right, wrong}
    ServerPsk = right
    Peers = {"shipped"}
    ReadModes = {"whole"}
    MaxPings = 2
CHECK_DEADLOCK FALSE
INVARIANTS
    ClientConfigures
