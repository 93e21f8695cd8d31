\* Every short program of calls, executed words, handlers, throws and loops.
SPECIFICATION QuietSpec
CONSTANTS
  Width = 2
  CountBits = 1
  StackSlots = 5
  PushLimit = 3
  RLimit = 1
  FLimit = 1
  CANARY_VALUE = CANARY
  Blank = 32
  MemSize = 0
  CellBytes = 1
  ByteBits = 2
  OverflowChecks = FALSE
  Programs <- ShortPrograms
  Literals = {1}
  MaxCalls = 5
  MaxLoops = 6
  MaxCatches = 12
  MaxHosts = 3
  MaxCode = 6
INVARIANTS HostNesting FramesFollowCalls LoopPaired
PROPERTIES EveryRunReturns
