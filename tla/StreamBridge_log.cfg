SPECIFICATION FairSpec
CONSTANTS
  Clients = {c1, c2}
  c1 = c1
  c2 = c2
  MaxSize = 2
  MaxEvents = 4
PROPERTIES
  LogSpec
  EndReachesSubscriber
CHECK_DEADLOCK FALSE
