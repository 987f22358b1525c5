\* All kernels; the first constants are those of HST-L.
SPECIFICATION MCSpec
CONSTANTS
  N = 3
  Rounds = 2
  SlotInit = 1
  InitFlag = FALSE
  Bins = 4
  Inputs <- HistogramInputs
  BarrierN = 4
  BarrierRounds = 4
  MbRounds = 3
  SelN = 3
  SelRounds = 2
  SelKept = {0, 2}
  SelWide = 4
  ScanD = 2
  ScanN = 2
  ScanRounds = 2
  UniN = 3
  UniRounds = 2
  UniContents <- ShortBlocks
  UniSentinel = 9
  TrnsTasklets = {0, 1}
  TrnsM = 2
  TrnsN = 4
  BfsDpus = 2
  BfsN = 2
  BfsW = 2
  BfsLocal = 4
  BfsGraphs <- SomeGraphs
  BfsSource = 0
  NwN = 2
  NwRep = 3
  NwB = 2
  NwJobs = 2
  NwSizes = {0, 2}
  BsN = 2
  BsB = 2
  BsQ = 2
  BsSizes = {2, 3, 13}
  BsValues = {5, 25}
  BsArrays <- SortedArrays
  TsN = 2
  TsW = 4
  TsSlices = {8, 24}
  TsQueries = {4, 8}
  MvN = 2
  MvW = 2
  MvJobs = 2
  MvSizes = {1, 4, 5}
  MvCounts = {0, 1, 3, 4, 7, 10}
  SpN = 3
  SpTile = 2
  SpMatrices <- SomeMatrices
  VaN = 3
  VaBlock = 4
  VaChunk = 4
  VaSizes = {0, 7, 16, 27}
  VaBinCounts = {1, 3, 5}
  CtrStep = 4
  CtrD = 2
  CtrCalls = 3
  CtrStarts <- SomeCounters
  AeadCalls = 2
  AeadSizes = {1, 4, 8}
  FslChunk = 2
  FslPages = {0, 1, 3}
INVARIANTS
  BarriersHold
  PrefixesAreRight
  TilesArrive
  LevelsAreDistances
  Filled
  CountedOnce
  RowsAreRight
  SearchesFind
  Congruent
  IVsAreDistinct
  CipherIsSound
  HandedOver
PROPERTIES
  ResultsStay
  WaitsEnd
  KernelsEnd
