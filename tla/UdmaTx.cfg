CONSTANTS
  N = 2
  QueueDepth = 2
  WordBytes = 2
  BufferDepth = 2
  L2 = "l2"
  InflightMod = 4
  Liberties = {}
  Bytes <- MCBytes
  Dest <- MCDest
  Jobs <- MCJobs
SPECIFICATION FairSpec
INVARIANTS
  OneRead
  WordsInOrder
  Credits
  WordsAccounted
PROPERTIES
  WordsArrive
