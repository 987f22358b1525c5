\* Four hardware threads; a subkernel uses one to four of them.
SPECIFICATION FairSpec
CONSTANT N = 4
INVARIANTS
  LifeInv
  LoadIsExclusive
  ResetIsSafe
  MainsComplete
  NoSpuriousFault
PROPERTY NextSubkernelStarts
