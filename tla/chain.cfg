SPECIFICATION Spec
CONSTANTS
    Procs = {p1, p2}
    Keys <- RootAndSuccessors
    Fresh <- RootOnly
    Mode <- ModeOf
    Gated <- NoGates
    Restarts <- RestartsInTurn
    Ids <- OwnIds
    Candidates <- OwnPrefix
    MaxRounds = 1
    None = None
SYMMETRY ProcsAlike
INVARIANTS
    AbortedRedirects
    RestartFollowsRedirect
    SuccessorStartsOnce
PROPERTY KeepsRegistry
