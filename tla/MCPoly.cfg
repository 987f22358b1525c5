\* Three bits in a limb, the accumulator 0 as poly_init() leaves it, two blocks.
SPECIFICATION Spec
CONSTANTS
  LimbBits = 3
  Length = 2
  Keys = {3}
  Starts = {0}
  Blocks <- SomeBlocks
INVARIANT Reduced
