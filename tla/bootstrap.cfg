SPECIFICATION Spec
CONSTANTS
    Procs = {p1, p2, p3}
    Parts = {"scripts", "config"}
    Script = "scripts"
    MaxVersion = 2
    Windows = FALSE
    Retire = 1
    LeaseStale = 1
    MaxTime = 1
    MaxKills = 1
    None = None
SYMMETRY ProcsAlike
INVARIANTS
    TypeOK
    NameMatchesContent
    LeaseKeepsRuntime
CHECK_DEADLOCK FALSE
