CONSTANTS
  PerEvntNum = 2
  ApbEvntNum = 0
  WordSize = 4
  Dest = {"fc", "pr"}
  SlowLevels = {FALSE}
  MaskData = {{}, {0, 1, 2}}
  SelData = {}
SPECIFICATION BusSpec
INVARIANTS BoundedBypass TwiceOnlyIfShared NoBusMisses
PROPERTY EventuallyServed
