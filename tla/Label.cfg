CONSTANTS
  BytesPerLine = 2
  Margin = 1
  Preambles <- MCPreambles
  Headers <- MCHeaders
  LineData <- MCLineData
  MaxCommands = 3
  ByteMax = 4
  CheckEvery = 2
  HeadBytes = 6
  ByteBits = 2
  Pictures <- MCPictures
  Sizes <- MCSizes
  DocSizes <- MCDocSizes
  Dpi = 25
SPECIFICATION Spec
CHECK_DEADLOCK FALSE
INVARIANTS
  PayloadWalked
  PictureOfLines
  RowPacketsExact
  InkPrinted
