CONSTANTS
  JobIds = {j1}
  Nobody = Nobody
  BufferCap = 2
  MaxConns = 2
  MaxCrashes = 1
  Spools = TRUE
  MaxChanges = 1
SPECIFICATION FairSpec
CHECK_DEADLOCK FALSE
INVARIANTS
  CompletedWasTaken
  ReprintExplained
  ViewExplained
PROPERTIES
  FinishedStaysFinished
  JobsAnswered
