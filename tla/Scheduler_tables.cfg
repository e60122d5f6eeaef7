SPECIFICATION Spec
CONSTANTS
  Tasks = {a, b}
  Once = {a}
  Reuse = {b}
  Rows = {r1, r2}
  Limit = 1
  Polling = TRUE
  Triggers = 1
  Edited = {b}
  MaxTicks = 2
  MaxTrouble = 1
SYMMETRY Symmetry
INVARIANTS PollerWithinCap  ActiveRowHasRun ParkedHasRun CompletedRan
CHECK_DEADLOCK FALSE
