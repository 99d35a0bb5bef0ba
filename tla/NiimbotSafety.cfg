CONSTANTS
  Devices = {d1, d2}
  SerialDevs = {d2}
  EvCap = 2
  MissedScans = 2
  MaxFlips = 1
  MaxPrints = 1
  Nobody = Nobody
SPECIFICATION Spec
CHECK_DEADLOCK FALSE
INVARIANTS
  BusyIsPrinting
  PresenceTracked
PROPERTIES
  NoExpiryDuringPrint
