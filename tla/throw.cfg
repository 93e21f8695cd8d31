\* A throw inside an executed word.
SPECIFICATION Spec
CONSTANTS
  Width = 2
  CountBits = 1
  StackSlots = 4
  PushLimit = 2
  RLimit = 1
  FLimit = 1
  CANARY_VALUE = CANARY
  Blank = 32
  MemSize = 0
  CellBytes = 1
  ByteBits = 2
  OverflowChecks = FALSE
  Programs <- ControlPrograms
  Literals = {1}
  MaxCalls = 2
  MaxLoops = 0
  MaxCatches = 2
  MaxHosts = 2
  MaxCode = 0
PROPERTIES UnhandledThrowIsReported
