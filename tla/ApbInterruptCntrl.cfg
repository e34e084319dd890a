CONSTANTS
  Depth = 2
  PtrMod = 2
  Data = {z, a}
  Zero = z
  Line = {26, 29}
  FifoLine = 26
  NoIrq = none
  WriteData = {{26}, {29}}
SPECIFICATION IrqSpec
INVARIANTS CtrlTypeOK StateInv PendingHasEvent
PROPERTIES ImplementsQueue TakesOldest OnlyTakenLineGoes
