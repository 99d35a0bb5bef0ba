CONSTANTS
  OutCap = 1
  Base = 1
  Max = 3
  MaxConns = 1
  MaxMsgs = 1
  MaxInbox = 1
SPECIFICATION Spec
CHECK_DEADLOCK FALSE
INVARIANTS
  LossReconnects
