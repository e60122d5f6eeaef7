SPECIFICATION FairSpec
CONSTANTS
  Keys = {k1, k2}
  Turns = {a}
  Threads = {t1, t2, t3}
  Summarizes = TRUE
  Flushes = TRUE
INVARIANTS NotStranded OneUpdater CorrectionNotLost
PROPERTIES ProcessedWhenQuiet
CHECK_DEADLOCK FALSE
