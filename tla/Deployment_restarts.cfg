CONSTANTS
    RemoteIp = "127.0.0.1"
    Other = "example.org"
    DefaultDir = "platform"
    Elsewhere = "elsewhere"
    Dirs <- MCDirs
    Hostnames <- MCHostnames
    ServerArgs <- MCServerArgs
    WantedNames = {}
    MaxPairs = 2
    MaxStops = 2
SPECIFICATION Spec
INVARIANTS
    TypeOK
    ServesItsFiles
    InterruptedStartHeals
    RulesAsWritten
    CopyStaysValid
    ReconnectVerifies
