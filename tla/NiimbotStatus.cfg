CONSTANTS
  Devices = {d1}
  SerialDevs = {}
  EvCap = 2
  MissedScans = 1
  MaxFlips = 1
  MaxPrints = 1
  Nobody = Nobody
SPECIFICATION Spec
CHECK_DEADLOCK FALSE
INVARIANTS
  StatusReported
