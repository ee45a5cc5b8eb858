SPECIFICATION Spec
CONSTANTS
  NumUpstream = 2
  MaxItems = 0
  MaxFeedback = 0
  MsgUnits = 1
  out_batch_size = 3
  in_batch_size = 3
  SocketBuffer = 5
  MaxCrashes = 0
INVARIANT FinishSentToAll
CHECK_DEADLOCK FALSE
