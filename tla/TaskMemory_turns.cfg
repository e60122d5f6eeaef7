SPECIFICATION StackSpec
CONSTANTS
    Calls <- AllCalls
    MaxBatch = 2
    MaxTargets = 1
    MaxId = 6
    MaxRuns = 2
    MaxSize = 3
    MaxHistory = 4
    MaxActive = 2
    KeepRecent = 1
    SourceLimit = 2
    AutoTrigger = 2
    AutoKeep = 1
    AutoLimit = 2
    MinProgress = 1
INVARIANTS CondensedStaysOut
PROPERTIES FeedbackKept ResultsSurvive OneSummaryPerTurn
CHECK_DEADLOCK FALSE
