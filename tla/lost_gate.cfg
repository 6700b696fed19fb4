SPECIFICATION Spec
CONSTANTS
    Procs = {p1, p2}
    Keys <- RootOnly
    Fresh <- RootOnly
    Mode <- ModeOf
    Gated <- RootOnly
    Restarts <- RestartsOfRoot
    Ids <- SomeIds
    Candidates <- SharedPrefix
    MaxRounds = 2
    None = None
PROPERTY GateKept
