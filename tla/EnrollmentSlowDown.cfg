CONSTANTS
  Procs = {p1}
  Intervals = {0, 2}
  MaxTokens = 1
  MaxIds = 1
  MaxSlow = 1
  MaxCrashes = 0
  MaxFlaps = 0
  MaxMisreads = 0
  MaxRaces = 0
SPECIFICATION Spec
CHECK_DEADLOCK FALSE
INVARIANTS
  SlowDownHonoured
