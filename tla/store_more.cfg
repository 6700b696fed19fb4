SPECIFICATION Spec
CONSTANTS
    Procs = {p1, p2}
    Keys <- RootAndSuccessors
    Fresh <- RootOnly
    Mode <- ModeOf
    Gated <- RootOnly
    Restarts <- RestartsOfRoot
    Ids <- SomeIds
    Candidates <- SharedPrefix
    MaxRounds = 1
    None = None
SYMMETRY ProcsAlike
INVARIANTS
    AbortedRedirects
    RestartFollowsRedirect
