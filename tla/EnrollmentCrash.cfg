CONSTANTS
  Procs = {p1}
  Intervals = {0, 2}
  MaxTokens = 2
  MaxIds = 4
  MaxSlow = 2
  MaxCrashes = 2
  MaxFlaps = 2
  MaxMisreads = 1
  MaxRaces = 0
SPECIFICATION Spec
CHECK_DEADLOCK FALSE
INVARIANTS
  CredentialsWhole
  DaemonUsesCurrent
  IdsExplained
