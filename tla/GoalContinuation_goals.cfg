SPECIFICATION FairSpec
CONSTANTS
    MaxGoals = 2
    MaxContinuations = 1
    MaxStalls = 1
    MaxUpdates = 1
    Texts = {1}
    Talks = {1, 2, 3, 4}
INVARIANTS   CompactionMissesNothing
PROPERTIES RunEnds
CHECK_DEADLOCK FALSE
