SPECIFICATION FairSpec
CONSTANTS
  GroupBits = 2
  Width = 7
  MaxVarint = 4
  DEFAULT_BUFFER_SIZE = 8
  MAX_BUFFER_SIZE = 32
  MIN_READ_SIZE = 2
  Sent <- SentSmall
INVARIANTS TypeOK NothingLost FailsWhenFull
PROPERTIES Delivered
CHECK_DEADLOCK FALSE
