\* Sessions of two kinds: every sequence of control words in one definition or
\* outside, and definitions, redefinitions,
\* postponed and quoted words with runs of what they compiled, at any time.
SPECIFICATION SessionSpec
CONSTANTS
  Width = 2
  CountBits = 1
  StackSlots = 3
  PushLimit = 1
  RLimit = 0
  FLimit = 0
  CANARY_VALUE = CANARY
  Blank = 32
  MemSize = 0
  CellBytes = 1
  ByteBits = 2
  OverflowChecks = FALSE
  Programs <- SmallPrograms
  Literals = {0}
  MaxCalls = 1
  MaxLoops = 0
  MaxCatches = 0
  MaxHosts = 1
  MaxCode = 4
  Names = {"x", "compile,"}
  CoreNames <- SmallNames
  COMPILE_COMMA = "compile,"
  CompilerWords = {":", ";", "if", "then", "else", "begin", "until", "while", "repeat", "do", "loop", "+loop", "postpone", "literal", "'", "[']", "1.5"}
  MaxWords = 3
  MaxControl = 2
  LiveCode = 3
  LiveControl = 1
  DryWords = 2
  DryFloats = 2
INVARIANTS TextTypeOK BranchesStayInside NothingLeftOpen VisibleWordsEnd FramesFollowCalls
PROPERTIES FinishedCodeStays
