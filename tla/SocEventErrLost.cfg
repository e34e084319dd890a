CONSTANTS
  PerEvntNum = 1
  ApbEvntNum = 1
  WordSize = 2
  Dest = {"fc"}
  SlowLevels = {FALSE}
  MaskData = {{}}
  SelData = {0}
SPECIFICATION ErrSpec
INVARIANT LossAlwaysReported
