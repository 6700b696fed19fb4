SPECIFICATION RoundsSpec
CONSTANTS
    Heads = {"h1", "h2", "h3"}
    FirstHead = "h1"
    Tree <- OwnTree
    Moves <- TwoCommits
    Deep = FALSE
    Fast = TRUE
    Plan <- FastPlan
    Cleanup = FALSE
    HasBrief = TRUE
    AcceptedLimit = 3
    Gates = {"ci"}
    Statuses = {"passed"}
    None = None
INVARIANT AtMostTwoRounds
