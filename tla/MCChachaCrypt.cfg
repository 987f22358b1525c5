\* One tasklet, whole blocks.
SPECIFICATION Spec
CONSTANTS
  Tasklets = {0}
  Lengths <- WholeBlocks
  Strides = {1, 2, 3}
INVARIANTS
  StreamInv
  Sealed
  Restored
