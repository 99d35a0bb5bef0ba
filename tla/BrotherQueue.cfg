CONSTANTS
  d1 = d1
  d2 = d2
  Devices = {d1, d2}
  Contains <- SameModel
  Queues = {d1}
  EvCap = 2
  Flaky = FALSE
  MaxEps = 2
  MaxFlips = 2
  MaxPrints = 1
  Nothing = Nothing
SPECIFICATION Spec
CHECK_DEADLOCK FALSE
INVARIANTS
  PrintsOnOwn
