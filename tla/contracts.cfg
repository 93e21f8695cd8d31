\* Sequences with a contract, run from every depth of a short stack.
SPECIFICATION RunSpec
CONSTANTS
  Width = 3
  CountBits = 2
  StackSlots = 8
  PushLimit = 6
  RLimit = 4
  FLimit = 1
  CANARY_VALUE = canary
  Blank = 1
  MemSize = 1
  CellBytes = 1
  ByteBits = 3
  OverflowChecks = FALSE
  Programs <- ContractPrograms
  Literals = {1}
  MaxCalls = 1
  MaxLoops = 2
  MaxCatches = 1
  MaxHosts = 1
  MaxCode = 5
INVARIANTS EffectAsContracted RoomAsContracted FoldAgrees PiecesAreApart
CHECK_DEADLOCK FALSE
