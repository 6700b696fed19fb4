SPECIFICATION Spec
CONSTANTS
    Paths = {"app", "doc"}
    MaxBase = 2
    BaseTouches <- Touches
    MaxLine = 2
    Fast = TRUE
    Limit = 3
    None = None
INVARIANT DoneForItsPatch
CHECK_DEADLOCK FALSE
