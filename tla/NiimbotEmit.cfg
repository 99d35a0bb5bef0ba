CONSTANTS
  Devices = {d1, d2}
  SerialDevs = {}
  EvCap = 1
  MissedScans = 1
  MaxFlips = 2
  MaxPrints = 0
  Nobody = Nobody
SPECIFICATION Spec
CHECK_DEADLOCK FALSE
INVARIANTS
  EmitNeverStuck
