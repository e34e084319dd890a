CONSTANTS
  N = 2
  QueueDepth = 2
  WordBytes = 2
  BufferDepth = 2
  L2 = "l2"
  InflightMod = 4
  Liberties = {"ClearQueued"}
  Bytes <- MCBytes
  Dest <- MCDest
  Jobs <- MCJobs
SPECIFICATION Spec
INVARIANTS
  PendingWaits
