SPECIFICATION Spec
CONSTANTS
    Heads = {"h1", "h2", "h3", "h4"}
    FirstHead = "h1"
    Tree <- Amended
    Moves <- ThreeCommits
    Deep = FALSE
    Fast = FALSE
    Plan <- ArenasPlan
    Cleanup = TRUE
    HasBrief = TRUE
    AcceptedLimit = 2
    Gates = {"ci"}
    Statuses = {"passed"}
    None = None
INVARIANTS
    FindingsAwaitFix
    ProgressConsistent
PROPERTIES
    CleanupClosedOnce
    LeavingGreenForgets
    GreenBySignoff
