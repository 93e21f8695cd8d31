\* The ips that blocks are compiled for.
SPECIFICATION MCSpec
CONSTANTS
  Width = 3
  CountBits = 2
  StackSlots = 6
  PushLimit = 4
  RLimit = 1
  FLimit = 1
  CANARY_VALUE = CANARY
  Blank = 1
  MemSize = 0
  CellBytes = 1
  ByteBits = 3
  OverflowChecks = FALSE
  Programs <- TierPrograms
  Literals = {1}
  MaxCalls = 4
  MaxLoops = 1
  MaxCatches = 4
  MaxHosts = 3
  MaxCode = 9
  NoWord = 99
  FirstThreshold = 1
  MinGap = 2
  ScoreThreshold = 1
  MAX_PENDING_JIT = 3
  MaxStrikes = 1
  PenaltyScore = 1
  DecayEvents = 4
  Traces = {}
  MaxEvals = 0
  MAX_BLOCK_OPS = 2
  Garbage = {0, 3}
  MaxRuns = 3
INVARIANTS BlocksMatchCode
