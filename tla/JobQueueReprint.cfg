CONSTANTS
  p1 = p1
  p2 = p2
  j1 = j1
  j2 = j2
  Printers = {p1}
  JobIds = {j1}
  Jobs <- OneJob
  Submitters = {r1, r2}
  Closer = Closer
  NoOne = NoOne
  ChanCap = 2
  Retention = 1
  MaxSubmits = 2
  MaxTime = 0
SPECIFICATION Spec
CHECK_DEADLOCK FALSE
INVARIANTS
  NoReprintOfHandled
