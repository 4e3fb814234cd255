SPECIFICATION Spec
CONSTANTS
    MaxBytes = 2
    BufSize = 1
    Window = 1
CHECK_DEADLOCK FALSE
INVARIANTS
    TypeOK
    LossReported
    
PROPERTIES
    ImplementsPipes
    EndSpreads
    BothEnd
