\* Four callers of a barrier of three: a batch can overtake the stragglers
\* of the one before it.
SPECIFICATION FairSpec
CONSTANTS
  Threads = {0, 1, 2, 3}
  InitCount = 3
INVARIANTS
  BarrierInv
  ResetIsSafe
PROPERTIES
  Promise
  EveryBatchReturns
