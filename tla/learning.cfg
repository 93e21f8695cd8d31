\* What is learned, lost and kept: observations, strikes, decay, snapshots
\* and crashes in any order.
SPECIFICATION MCSpec
CONSTANTS
  NoWord = 99
  FirstThreshold = 1
  MinGap = 2
  ScoreThreshold = 2
  MAX_PENDING_JIT = 2
  MaxStrikes = 1
  PenaltyScore = 2
  DecayEvents = 8
  Traces <- Short
  Watched <- Segments
  MaxEvals = 1
  MaxSeen = 4
INVARIANTS LearnTypeOK QueuedIsPromoted PromotionIsEarned
PROPERTIES StrikesAreKept StruckOutStaysOut
CHECK_DEADLOCK FALSE
