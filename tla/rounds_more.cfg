SPECIFICATION LiveSpec
CONSTANTS
    Slots = {s1, s2}
    Invocations = {i1, i2}
    Scenarios <- OneOrTwo
    Marked = {s1}
    RetryLimit = 1
    Ranks = {"first", "tie"}
    MaxProcs = 3
    MaxFailures = 3
    MaxCrashes = 1
    MaxDay = 1
    None = None
INVARIANT StoppedIsNotReview
CHECK_DEADLOCK FALSE
