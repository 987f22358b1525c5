SPECIFICATION GFairSpec
CONSTANTS
  N = 3
  Rounds = 2
  SlotInit = 1
  InitFlag = FALSE
  Bins = 4
  Inputs <- TwoInputs
INVARIANT ClearedBeforeCounted
