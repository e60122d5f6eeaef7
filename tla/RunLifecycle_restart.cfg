SPECIFICATION Spec
CONSTANTS
  Runs = {r1, r2, r3}
  r1 = r1
  r2 = r2
  r3 = r3
  EventStore = TRUE
  Windows = {}
  FaultKinds = {"start"}
  MaxFaults = 1
  MaxRestarts = 1
SYMMETRY Symmetry
INVARIANTS
  SingleWriter
  FinalizingHasWorker
  RunningThreadHasRun
  

  
CHECK_DEADLOCK FALSE
