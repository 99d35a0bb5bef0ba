CONSTANTS
  Tasks = {"B1", "D110", "B21V1"}
  Copies = 2
  Attempts = 3
  BufCap = 2
  MaxMishaps = 3
SPECIFICATION FairSpec
CHECK_DEADLOCK FALSE
INVARIANTS
  GapFree
  SuccessMeansDone
  NotLeftMidJob
PROPERTIES
  SessionReturns
