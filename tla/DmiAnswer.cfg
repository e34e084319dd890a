CONSTANTS
  Accesses = 2
  Resets = 0
  QueueDepth = 2
  Nothing = Nothing
SPECIFICATION Spec
INVARIANTS
  ValidWord
