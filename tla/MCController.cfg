CONSTANTS
  Workers = {w1, w2}
  Orderly = TRUE
  MaxFaults = 1
  MaxRestarts = 1
SPECIFICATION FairSpec
INVARIANTS WatchInv
PROPERTIES DeletesOnlyDead WatchedWorkerReleased
CHECK_DEADLOCK FALSE
