CONSTANTS
  MaxBlock = 7
  FileSize = 6
  PacketSize <- TwoThree
  Window = 3
  MaxSwitches = 1
  MaxLost = 1
SPECIFICATION FairChunkSpec
INVARIANTS
  ChunkTypeOK
  ListIsWritten
  MissingIsHoles
  ContentRight
  TotalExact
  ShortIsRight
  OneByteIsBlock
PROPERTY EventuallyWhole
CHECK_DEADLOCK FALSE
