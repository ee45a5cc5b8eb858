CONSTANTS
  num_compute_thread_ = 2
  num_downstream_ = 1
  backup_client = TRUE
  MaxRecords = 2
  MaxFeedback = 1
  FirstId = 1
  RB_SIZE = 3
  Slots = 1
SPECIFICATION FairSpec
INVARIANTS WorkerInv Drained
PROPERTIES BackupDurable Terminates
