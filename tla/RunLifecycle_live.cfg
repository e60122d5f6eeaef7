SPECIFICATION FairSpec
CONSTANTS
  Runs = {r1, r2}
  r1 = r1
  r2 = r2
  EventStore = FALSE
  Windows = {"unstarted", "unsnapshotted"}
  FaultKinds = {"store", "checkpoint"}
  MaxFaults = 1
  MaxRestarts = 0
INVARIANTS
  AtMostOneLive
  RowAgrees
PROPERTIES
  OutcomeIsFinal
  LaunchedRunEnds
  AdmittedRunLeaves
CHECK_DEADLOCK FALSE
