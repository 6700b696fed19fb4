SPECIFICATION Spec
CONSTANTS
    Heads = {"h1", "h2", "h3"}
    FirstHead = "h1"
    Tree <- OwnTree
    Moves <- TwoCommits
    Deep = FALSE
    Fast = TRUE
    Plan <- FastPlan
    Cleanup = FALSE
    HasBrief = TRUE
    AcceptedLimit = 2
    Gates = {"ci","full_suite"}
    Statuses = {"passed","waived"}
    None = None
INVARIANT DoneIsReviewed
