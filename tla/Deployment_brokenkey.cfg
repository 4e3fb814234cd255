CONSTANTS
    RemoteIp = "127.0.0.1"
    Other = "example.org"
    DefaultDir = "platform"
    Elsewhere = "elsewhere"
    Dirs <- MCDirs
    Hostnames <- MCHostnames
    ServerArgs <- GoodArgs
    WantedNames = {}
    MaxPairs = 1
    MaxStops = 1
SPECIFICATION Spec
INVARIANT StartNeverFails
