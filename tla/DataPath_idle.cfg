SPECIFICATION Spec
CONSTANTS
    MaxBytes = 1
    BufSize = 1
    Window = 1
CHECK_DEADLOCK FALSE
PROPERTIES
    StreamReachesClient
