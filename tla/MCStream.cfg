SPECIFICATION FairSpec
CONSTANTS
  NumUpstream = 1
  MaxItems = 2
  MaxFeedback = 1
  MsgUnits = 2
  out_batch_size = 3
  in_batch_size = 3
  SocketBuffer = 3
  MaxCrashes = 1
INVARIANTS StreamInv SlotsReturned ExitMeansDelivered
PROPERTIES NoEventAfterRemoval HandshakeCompletes PollersExit
CHECK_DEADLOCK FALSE
