CONSTANTS
  PerEvntNum = 0
  ApbEvntNum = 1
  WordSize = 1
  Dest = {"fc"}
  SlowLevels = {TRUE, FALSE}
  MaskData = {{}}
  SelData = {0}
SPECIFICATION ErrSpec
INVARIANTS TypeOK LossReported OneEventPerEdge
