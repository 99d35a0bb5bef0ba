CONSTANTS
  Procs = {p1, p2}
  Intervals = {0}
  MaxTokens = 1
  MaxIds = 4
  MaxSlow = 0
  MaxCrashes = 1
  MaxFlaps = 0
  MaxMisreads = 1
  MaxRaces = 1
SPECIFICATION Spec
CHECK_DEADLOCK FALSE
INVARIANTS
  IdsExplained
