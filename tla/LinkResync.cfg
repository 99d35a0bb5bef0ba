CONSTANTS
  Width = 3
  HeadByte = 5
  TailByte = 2
  Good <- MCGood
  Noise <- MCHalfHead
  MaxItems = 2
  Sizes <- MCAnySize
  MaxDrops = 1
  RxCap = 1
  PacketsCap = 2
SPECIFICATION Spec
CHECK_DEADLOCK FALSE
INVARIANTS
  Resynchronises
