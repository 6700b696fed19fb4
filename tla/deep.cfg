SPECIFICATION Spec
CONSTANTS
    Heads = {"h1", "h2", "h3", "h4"}
    FirstHead = "h1"
    Tree <- OwnTree
    Moves <- ThreeCommits
    Deep = TRUE
    Fast = FALSE
    Plan <- DeepPlan
    Cleanup = TRUE
    HasBrief = TRUE
    AcceptedLimit = 3
    Gates = {"ci"}
    Statuses = {"passed"}
    None = None
PROPERTIES
    FindingsClosedByFollowup
    ContinueGrantsOneTree
