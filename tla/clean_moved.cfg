SPECIFICATION Spec
CONSTANTS
    Heads = {"h1", "h2", "h3"}
    FirstHead = "h1"
    Tree <- OwnTree
    Moves <- TwoCommits
    Deep = FALSE
    Fast = FALSE
    Plan <- NormalPlan
    Cleanup = TRUE
    HasBrief = TRUE
    AcceptedLimit = 2
    Gates = {"ci"}
    Statuses = {"passed"}
    None = None
PROPERTY CleanVerdictAcceptsNothing
