\* One block at a time, from any run bits at power-on.
SPECIFICATION FairSpec
CONSTANTS
  N = 2
  MaxBlocks = 3
  Serial = TRUE
INVARIANTS
  RoundInv
  TenRounds
PROPERTY EveryCallReturns
