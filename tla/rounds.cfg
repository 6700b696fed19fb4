SPECIFICATION LiveSpec
CONSTANTS
    Slots = {s1, s2}
    Invocations = {i1, i2}
    Scenarios <- OneOrTwo
    Marked = {s1}
    RetryLimit = 1
    Ranks = {"first", "tie"}
    MaxProcs = 3
    MaxFailures = 3
    MaxCrashes = 1
    MaxDay = 1
    None = None
INVARIANTS
    TypeOK
    RetryBudget
    CooldownCountsRound
    GradeIsCounted
PROPERTIES
    UsableReviewKept
    CommandsEnd
CHECK_DEADLOCK FALSE
