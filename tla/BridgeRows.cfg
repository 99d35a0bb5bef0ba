CONSTANTS
  p1 = p1
  p2 = p2
  j1 = j1
  j2 = j2
  Printers = {p1, p2}
  JobIds = {j1, j2}
  Jobs <- TwoPrinters
  Submitters = {r1}
  Closer = Closer
  NoOne = NoOne
  ChanCap = 1
  Retention = 1
  MaxSubmits = 2
  MaxTime = 0
  BufferCap = 1
  MaxJobRecords = 3
SPECIFICATION BridgeSpec
CHECK_DEADLOCK FALSE
INVARIANT EveryRowTruthful
