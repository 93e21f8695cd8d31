\* Which contexts the checks at the head of a block let in.
SPECIFICATION Spec
CONSTANTS
  Blocks <- SmallBlocks
  MAX_BLOCK_OPS = 4
INVARIANTS OnlyFittingContextsEnter
