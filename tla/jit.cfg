\* Where the parts of a block lie, and where its jumps go.
SPECIFICATION Spec
CONSTANTS
  Blocks <- SmallBlocks
  MAX_BLOCK_OPS = 4
INVARIANTS FixupsDisjoint BranchesFollowTier1 ChecksReachTheirPads
