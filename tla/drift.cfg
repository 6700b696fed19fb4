SPECIFICATION Spec
CONSTANTS
    Paths = {"app", "doc"}
    MaxBase = 2
    BaseTouches <- Touches
    MaxLine = 2
    Fast = FALSE
    Limit = 3
    None = None
INVARIANTS
    TypeOK
    DoneForItsPatch
PROPERTY RebaseIsNoFix
CHECK_DEADLOCK FALSE
