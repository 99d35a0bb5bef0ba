CONSTANTS
  Tasks = {"B1", "D110", "B21V1"}
  Copies = 1
  Attempts = 2
  BufCap = 2
  MaxMishaps = 0
SPECIFICATION Spec
CHECK_DEADLOCK FALSE
INVARIANTS
  LateReplyRejected
