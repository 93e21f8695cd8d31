\* A counted loop.
SPECIFICATION DrySpec
CONSTANTS
  Width = 2
  CountBits = 1
  StackSlots = 3
  PushLimit = 1
  RLimit = 0
  FLimit = 1
  CANARY_VALUE = CANARY
  Blank = 32
  MemSize = 0
  CellBytes = 1
  ByteBits = 2
  OverflowChecks = FALSE
  Programs <- SmallPrograms
  Literals = {}
  MaxCalls = 1
  MaxLoops = 0
  MaxCatches = 0
  MaxHosts = 1
  MaxCode = 3
  Names = {"x", "compile,"}
  CoreNames <- SmallNames
  COMPILE_COMMA = "compile,"
  CompilerWords = {":", "do", "loop"}
  MaxWords = 3
  MaxControl = 1
INVARIANTS LoopsRepeatTheirBody
