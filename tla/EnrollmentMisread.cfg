CONSTANTS
  Procs = {p1}
  Intervals = {0, 2}
  MaxTokens = 1
  MaxIds = 2
  MaxSlow = 0
  MaxCrashes = 0
  MaxFlaps = 0
  MaxMisreads = 1
  MaxRaces = 0
SPECIFICATION Spec
CHECK_DEADLOCK FALSE
INVARIANTS
  IdStable
