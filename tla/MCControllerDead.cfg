CONSTANTS
  Workers = {w1, w2}
  Orderly = TRUE
  MaxFaults = 0
  MaxRestarts = 0
SPECIFICATION FairSpec
PROPERTIES DeadWorkerReleased
CHECK_DEADLOCK FALSE
