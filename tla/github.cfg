SPECIFICATION Spec
CONSTANTS
    MaxHead = 2
    MaxThread = 3
    MaxAnswers = 2
    MaxOthers = 1
    MaxTime = 3
    MaxRuns = 1
    Answering <- ThreeWays
    PageSize = 2
    Timeout = 2
    ReRequestAfter = 1
    MaxAttempts = 2
    Settle = 1
INVARIANTS TypeOK ReportFitsHead
PROPERTIES AnsweredIsReused NoRequestOnceSeen
CHECK_DEADLOCK FALSE
