CONSTANTS
  OutCap = 1
  Base = 1
  Max = 3
  MaxConns = 2
  MaxMsgs = 0
  MaxInbox = 1
SPECIFICATION FairSpec
CHECK_DEADLOCK FALSE
PROPERTIES
  RunEnds
