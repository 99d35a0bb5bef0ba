CONSTANTS
  Width = 3
  HeadByte = 5
  TailByte = 2
  Good <- MCGood
  Noise <- MCNoise
  MaxItems = 2
  Sizes <- MCAnySize
  MaxDrops = 1
  RxCap = 1
  PacketsCap = 1
SPECIFICATION Spec
CHECK_DEADLOCK FALSE
INVARIANTS
  TypeOK
  DeliversSent
