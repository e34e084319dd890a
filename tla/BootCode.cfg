SPECIFICATION BootLive
CONSTANTS
  L2Base = 0
  L2End = 32
  RecordSize = 6
  BlockSize = 4
  WordSize = 2
  MaxNbArea = 16
  NbTicks = 3
  Depth = 2
  None = none
  Record = record
  Unset = unset
  Ptrs = {0, 2, 4, 6, 8, 10, 14}
  Sizes = {1, 3, 4, 5, 8}
  Addr <- MCAddr
  Images <- MCSorted
INVARIANTS
  RecordApart
  SectionsInPlace
  PowerUpTime
  CleanHandover
PROPERTIES
  ImplementsLoader
  FlashBoots
