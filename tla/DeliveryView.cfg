CONSTANTS
  JobIds = {}
  Nobody = Nobody
  BufferCap = 1
  MaxConns = 3
  MaxCrashes = 2
  Spools = FALSE
  MaxChanges = 4
SPECIFICATION Spec
CHECK_DEADLOCK FALSE
INVARIANT ViewExplained
