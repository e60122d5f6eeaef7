SPECIFICATION FairSpec
CONSTANTS
    Messages = {m1, m2}
    Chats = {plain, stream}
    Streaming = {stream}
    Silent = {}
    Slots = 2
    MaxEntries = 1
    MaxTasks = 3
    MaxFaults = 1
INVARIANTS HandledOnce  OneThread
PROPERTY EveryoneAnswered
CHECK_DEADLOCK FALSE
