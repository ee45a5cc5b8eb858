SPECIFICATION ReverseSpec
CONSTANTS
  MaxWriters = 2
  RB_SIZE = 4
  RB_BATCH = 2
  MaxEmits <- MCMaxEmits
  Garbage <- MCGarbage
  NumThreads = 2
  BackupSizes = {1, 2}
  QueueSize = 2
  MaxRecords = 4
  MaxProcesses = 3
INVARIANTS
  SlotsConserved
  NoMutualWait
  
  RecordsAccounted
