\* Words that move cells and a run that throws; computing words on every pair
\* of numbers; memory words on a data space of two cells of two bytes.
SPECIFICATION WordSpec
CONSTANTS
  Width = 4
  CountBits = 2
  StackSlots = 6
  PushLimit = 4
  RLimit = 1
  FLimit = 1
  CANARY_VALUE = CANARY
  Blank = 32
  MemSize = 4
  CellBytes = 2
  ByteBits = 2
  OverflowChecks = FALSE
  Programs <- WordPrograms
  Literals <- TypedLiterals
  MaxCalls = 0
  MaxLoops = 0
  MaxCatches = 1
  MaxHosts = 3
  MaxCode = 1
INVARIANTS TypeOK CanariesIntact
PROPERTIES OnlyOperandsTouched CommaIsAtomic DivisionIsExact
