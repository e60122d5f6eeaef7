SPECIFICATION FairSpec
CONSTANTS
    Tasks = {t1, t2}
    Workers = 1
INVARIANT AnswerIsTrue
PROPERTIES EntryLeaves CoroutineEnds
CHECK_DEADLOCK FALSE
