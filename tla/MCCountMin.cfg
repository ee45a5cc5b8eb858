SPECIFICATION CountSpec
CONSTANTS
  Files <- MCFiles
  Setups <- MCSetups
  NumThreads = 2
  RB_SIZE = 2
  MAX_RECORD_LENGTH = 6
  MaxEvents = 6
  Row = 2
  Width = 2
  HashOf <- MCHash
  Thresh = 0
  MergeThresh = 3
  Window = 3
  ByteModulus = 16
  ByteGarbage = {0, 15}
  Base = 3
INVARIANTS
  LossExact
  
  NeverUnderestimates
  HeavyHittersFound
