CONSTANTS
  d1 = d1
  d2 = d2
  Devices = {d1, d2}
  Contains <- Distinct
  Queues = {d1, d2}
  EvCap = 2
  Flaky = FALSE
  MaxEps = 2
  MaxFlips = 4
  MaxPrints = 0
  Nothing = Nothing
SPECIFICATION Spec
CHECK_DEADLOCK FALSE
INVARIANTS
  StatusIsOwn
