SPECIFICATION LiveSpec
CONSTANTS
    Heads = {"h1", "h2"}
    FirstHead = "h1"
    Tree <- Amended
    Moves <- OneCommit
    Deep = FALSE
    Fast = FALSE
    Plan <- NormalPlan
    Cleanup = TRUE
    HasBrief = TRUE
    AcceptedLimit = 2
    Gates = {"ci"}
    Statuses = {"passed"}
    None = None
PROPERTY EmittedRerunGetsOn
