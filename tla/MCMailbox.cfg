CONSTANTS
  Senders = {s1, s2}
  Commands = {ready, finish}
  NoCommand = NoCommand
  Nobody = Nobody
  MaxSends = 5
SPECIFICATION FairSpec
INVARIANTS MailboxInv
PROPERTIES ImplementsFIFO EveryCommandArrives
CHECK_DEADLOCK FALSE
