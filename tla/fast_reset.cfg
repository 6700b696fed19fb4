SPECIFICATION Spec
CONSTANTS
    Heads = {"h1", "h2", "h3"}
    FirstHead = "h1"
    Tree <- OwnTree
    Moves <- Resets
    Deep = FALSE
    Fast = TRUE
    Plan <- FastPlan
    Cleanup = FALSE
    HasBrief = TRUE
    AcceptedLimit = 2
    Gates = {"ci"}
    Statuses = {"passed"}
    None = None
INVARIANT DoneIsReviewed
