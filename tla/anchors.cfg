SPECIFICATION Spec
CONSTANTS
    Paths = {"a", "b"}
    MaxBase = 1
    BaseTouches <- TouchesB
    Reviews = {r1}
    HistoryLimit = 2
    FollowupCycleLimit = 0
    FollowupMaxCommits = 1
    CoherenceMaxFiles = 1
    PressureCommits = 2
    PressureAnchors = 2
    PressureFollowups = 2
    PressureFull = 2
    MaxLine = 3
    MaxMoves = 2
    MaxReviews = 3
    None = None
INVARIANTS
    TypeOK
    NoneMeansReviewed
    FollowupsBounded
CHECK_DEADLOCK FALSE
