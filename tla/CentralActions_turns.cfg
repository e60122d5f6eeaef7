SPECIFICATION Spec
CONSTANTS
    MaxActions = 3
    MaxLedger = 3
    MaxBatch = 2
    MaxMinted = 3
    MaxRuns = 2
    Reissues = {"REVISE", "ASK_HUMAN"}
INVARIANTS TurnsCounted 
CHECK_DEADLOCK FALSE
