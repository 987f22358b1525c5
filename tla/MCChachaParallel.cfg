\* Two tasklets with user keys at once, as chacha-bench has sixteen.
SPECIFICATION Spec
CONSTANTS
  N = 2
  MaxBlocks = 1
  Serial = FALSE
INVARIANT TenRounds
CHECK_DEADLOCK FALSE
