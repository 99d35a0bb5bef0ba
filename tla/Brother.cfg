CONSTANTS
  d1 = d1
  d2 = d2
  Devices = {d1, d2}
  Contains <- Longer
  Queues = {d2}
  EvCap = 2
  Flaky = TRUE
  MaxEps = 2
  MaxFlips = 3
  MaxPrints = 1
  Nothing = Nothing
SPECIFICATION FairSpec
CHECK_DEADLOCK FALSE
INVARIANTS
  StatusExplained
PROPERTIES
  PresenceFollows
