CONSTANTS
  Accesses = 3
  Resets = 1
  QueueDepth = 2
  Nothing = Nothing
SPECIFICATION FairSpec
INVARIANTS
  StableData
PROPERTIES
  AnsweredInOrder
  NothingAfterRefusal
  ReadAnswered
  TransportReturns
