\* Two batches exactly fit: the smallest ring that must not block.
CONSTANTS
  RB_SIZE = 4
  RB_BATCH = 2
  Items = {1, 2}
  NoItem = NoItem
SPECIFICATION FairSpec
INVARIANTS RingInv
PROPERTIES ImplementsFIFO WriterUnblocks FlushDelivers
CHECK_DEADLOCK FALSE
