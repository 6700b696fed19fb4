SPECIFICATION Spec
CONSTANTS
    Callers = {c1, c2}
    Variants <- MCVariants
    Retired <- MCRetired
    Model <- MCModel
    Candidates <- MCCandidates
    Groups <- MCGroups
    SelectionMode = "legacy"
    BootstrapTarget = 1
    UnderuseRatio <- MCRatio
    KFactor = 4
    StartElo = 100
    MinElo = 104
    MaxProbationElo = 100
    ChampionWindow = 4
    MinSamples = 1
    MaxRounds = 3
    MaxPairs = 1
    MaxGrades = 2
    MaxDismissals = 1
    MaxFailures = 1
    None = None
SYMMETRY CallersAlike
INVARIANTS
    TypeOK
    ReviewersDiffer
    GroupsOnce
    RatingsBalance
CHECK_DEADLOCK FALSE
