CONSTANTS
  OutCap = 2
  Base = 1
  Max = 3
  MaxConns = 2
  MaxMsgs = 3
  MaxInbox = 1
SPECIFICATION Spec
CHECK_DEADLOCK FALSE
INVARIANTS
  TypeOK
  HandedInOrder
  Accounted
  ConnectedIsServing
