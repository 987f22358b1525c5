----------------------------- MODULE MCKernels ------------------------------
(***************************************************************************)
(* One instance of every kernel model, of the arithmetic of Poly1305, of   *)
(* the cipher's calls, the counter and the first stage, checked in one     *)
(* run: the variable "kernel" says which of them a behaviour belongs to.   *)
(* They never run together: a DPU has one program at a time.  HST-L uses   *)
(* the variables of GroupHistogram; the others share m1 .. m14, in the     *)
(* order in which each module declares its variables.  What a kernel does  *)
(* not use is constant.                                                    *)
(***************************************************************************)
EXTENDS GroupHistogram

\* The constants of the instances about which there are theorems, for every
\* value of them; the other instances have theirs where they are declared.
CONSTANTS
  BarrierN, BarrierRounds,       \* the two versions of mybarrier_wait()
  MbRounds,                      \* mbench, on N tasklets
  SelN, SelRounds, SelKept, SelWide, \* SEL
  ScanD, ScanN, ScanRounds,      \* SCAN-SSA, SCAN-RSS
  UniN, UniRounds, UniContents, UniSentinel, \* UNI
  TrnsTasklets, TrnsM, TrnsN,    \* TRNS
  BfsDpus, BfsN, BfsW, BfsLocal, BfsGraphs, BfsSource, \* BFS
  NwN, NwRep, NwB, NwJobs, NwSizes, \* NW
  BsN, BsB, BsQ, BsSizes, BsValues, BsArrays,  \* BS
  TsN, TsW, TsSlices, TsQueries, \* TS
  MvN, MvW, MvJobs, MvSizes, MvCounts, \* gemv, MLP
  SpN, SpTile, SpMatrices,       \* SpMV
  VaN, VaBlock, VaChunk, VaSizes, VaBinCounts, \* VA, RED, HST-S
  CtrStep, CtrD, CtrCalls, CtrStarts,  \* the counter
  AeadCalls, AeadSizes,          \* the cipher
  FslChunk, FslPages             \* the first stage

VARIABLES kernel, m1, m2, m3, m4, m5, m6, m7, m8, m9, m10, m11, m12, m13, m14

all == <<vars, gvars, kernel, m1, m2, m3, m4, m5, m6, m7, m8, m9, m10, m11, m12, m13, m14>>
group == <<vars, gvars, kernel>>

from14 == <<m14>>
from13 == <<m13, from14>>
from12 == <<m12, from13>>
from11 == <<m11, from12>>
from10 == <<m10, from11>>
from9 == <<m9, from10>>
from8 == <<m8, from9>>
from7 == <<m7, from8>>
from6 == <<m6, from7>>
from5 == <<m5, from6>>
from1 == <<m1, m2, m3, m4, from5>>

-----------------------------------------------------------------------------
(* The inputs. *)

HistogramInputs ==
  {[t \in Tasklets |-> CASE t = 0 -> <<0, 2>> [] t = 1 -> <<2>> [] OTHER -> <<1>>],
   [t \in Tasklets |-> IF t = N - 1 THEN <<>> ELSE <<2, 2>>]}

Edges(E) == [x \in 0 .. 7 |-> {y \in 0 .. 7 : <<x, y>> \in E}]

\* Two nodes that two tasklets of a DPU find at once and that share a word.
SomeGraphs ==
  {Edges({<<0, 1>>, <<0, 2>>, <<1, 4>>, <<2, 5>>, <<2, 1>>, <<4, 3>>, <<4, 6>>, <<5, 3>>, <<6, 7>>, <<6, 0>>}),
   Edges({<<0, 4>>, <<4, 0>>, <<4, 1>>, <<4, 2>>, <<1, 7>>, <<2, 7>>, <<2, 6>>, <<2, 3>>, <<7, 7>>}),
   Edges({})}

ShortBlocks == {<<0, 0>>, <<0, 1>>}

SortedArrays ==
  {[x \in 0 .. s - 1 |-> 2 * (x - (x % d)) + 1] : s \in {2, 3, 13}, d \in {1, 3}}

MatrixRows ==
  <<<<0, 1, 2, 7>>, <<>>, <<3>>, <<1, 5>>, <<0>>, <<6, 0, 4>>, <<2, 3>>, <<5>>, <<>>, <<0, 7>>>>

SomeMatrices == {SubSeq(MatrixRows, 1, s) : s \in {0, 2, 4, 6, 10}}

\* Clamped: no top bit in a limb, and no lowest one but in the first.
SomeKeys == {x + 8 * y + 64 * z + 512 * u : x \in 0 .. 3, y \in {0, 2}, z \in {0, 2}, u \in {0, 2}}
SomeBlocks == {0, 1, 7, 1000, 4094, 4095}
\* Before a carry into no word, one, two, and out of the last.
SomeCounters == {<<0, 0, 0, 0>>, <<2, 15, 7, 0>>, <<2, 15, 15, 0>>, <<2, 15, 15, 15>>}

SomeStarts == 0 .. 3 \cup {16378 - x : x \in 0 .. 5} \cup {4096, 5000, 8191, 12285, 12286}

-----------------------------------------------------------------------------
(* The instances. *)

Sel == INSTANCE PrefixSelect WITH
  N <- SelN, Rounds <- SelRounds, Kept <- SelKept, Wide <- SelWide, None <- -1, pc <- m1,
  round <- m2, gEpoch <- m3, box <- m4, partial <- m5, epoch <- m6, count <- m7, before <- m8,
  accum <- m9, kept <- m10, output <- m11, total <- m12, overtaken <- m13

Flag == INSTANCE SenseBarrier WITH
  N <- BarrierN, Rounds <- BarrierRounds, SlotInit <- 0, InitFlag <- TRUE, pc <- m1,
  sense <- m2, arrive <- m3, initDone <- m4, nextS <- m5, i <- m6, entered <- m7,
  left <- m8, late <- m9

Slots == INSTANCE SenseBarrier WITH
  N <- BarrierN, Rounds <- BarrierRounds, SlotInit <- 1, InitFlag <- FALSE, pc <- m1,
  sense <- m2, arrive <- m3, initDone <- m4, nextS <- m5, i <- m6, entered <- m7,
  left <- m8, late <- m9

Trns == INSTANCE Transpose WITH
  Tasklets <- TrnsTasklets, M <- TrnsM, n <- TrnsN, pc <- m1, curr <- m2, tile <- m3, next <- m4,
  data <- m5, backup <- m6, A <- m7, done <- m8

Bfs == INSTANCE Frontier WITH
  Dpus <- BfsDpus, N <- BfsN, W <- BfsW, Local <- BfsLocal, Graphs <- BfsGraphs,
  Source <- BfsSource, graph <- m1,
  pc <- m2, pos <- m3, nbs <- m4, word <- m5, lock <- m6, current <- m7, visited <- m8,
  next <- m9, level <- m10, levels <- m11

Nw == INSTANCE Wavefront WITH
  N <- NwN, Rep <- NwRep, B <- NwB, Jobs <- NwJobs, Sizes <- NwSizes, pc <- m1, cmd <- m2, phase <- m3,
  job <- m4, size <- m5, bl <- m6, diag <- m7, idx <- m8, row <- m9, cache <- m10,
  matrix <- m11

Scans == INSTANCE PrefixScan WITH
  D <- ScanD, N <- ScanN, Rounds <- ScanRounds, alg <- m1, kernel <- m2, pc <- m3, round <- m4,
  gEpoch <- m5, box <- m6, own <- m7, before <- m8, accum <- m9, partial <- m10,
  tCount <- m11, out <- m12, log <- m13, overtaken <- m14

Bs == INSTANCE BlockSearch WITH
  N <- BsN, B <- BsB, Q <- BsQ, Sizes <- BsSizes, Values <- BsValues, Arrays <- BsArrays,
  size <- m1, array <- m2, query <- m3, pc <- m4, k <- m5, L <- m6,
  R <- m7, found <- m8, maxf <- m9

Uni == INSTANCE UniqueRounds WITH
  N <- UniN, Rounds <- UniRounds, Contents <- UniContents, Sentinel <- UniSentinel, pc <- m1,
  round <- m2, input <- m3, gEpoch <- m4, box <- m5, cache <- m6, po <- m7, partial <- m8,
  last <- m9, output <- m10, total <- m11, overtaken <- m12

Mv == INSTANCE MatVec WITH
  N <- MvN, W <- MvW, Jobs <- MvJobs, Sizes <- MvSizes, Counts <- MvCounts, app <- m1,
  pc <- m2, cmd <- m3, job <- m4, nSize <- m5, nrRows <- m6, i <- m7, pos <- m8,
  addrA <- m9, offset <- m10, cacheC <- m11, C <- m12

Va == INSTANCE BlockShares WITH
  N <- VaN, Block <- VaBlock, Chunk <- VaChunk, Sizes <- VaSizes, BinCounts <- VaBinCounts,
  app <- m1, size <- m2, bins <- m3, pc <- m4, index <- m5, histo <- m6, bin <- m7,
  out <- m8

Ts == INSTANCE WindowSearch WITH
  N <- TsN, W <- TsW, Slices <- TsSlices, Queries <- TsQueries, slice <- m1, length <- m2,
  best <- m3, pc <- m4, i <- m5, min <- m6, results <- m7

Spmv == INSTANCE SparseRows WITH
  N <- SpN, Tile <- SpTile, Matrices <- SpMatrices, matrix <- m1, pc <- m2, row <- m3,
  nz <- m4, sum <- m5, inTile <- m6, outTile <- m7, y <- m8, inVector <- m9

Mb == INSTANCE EpochBarrier WITH
  N <- N, Rounds <- MbRounds, pc <- m1, release <- m2, arrive <- m3,
  want <- m4, i <- m5, entered <- m6, left <- m7

Poly == INSTANCE Poly1305 WITH
  LimbBits <- 3, Length <- 2, Keys <- SomeKeys, Blocks <- SomeBlocks, Starts <- SomeStarts,
  r <- m1, a <- m2, exact <- m3, fed <- m4

Ctr == INSTANCE Counter WITH
  Step <- CtrStep, D <- CtrD, Calls <- CtrCalls, Starts <- CtrStarts, pc <- m1,
  thread <- m2, r <- m3, io <- m4, flag <- m5, issued <- m6

Cipher == INSTANCE Aead WITH
  Calls <- AeadCalls, Sizes <- AeadSizes, pc <- m1, call <- m2, counter <- m3, kind <- m4,
  place <- m5, len <- m6, iv <- m7, mem <- m8, tag <- m9, way <- m10, before <- m11,
  used <- m12

First == INSTANCE FirstStage WITH
  Chunk <- FslChunk, Pages <- FslPages, pc <- m1, size <- m2, tag <- m3, run <- m4, reg <- m5

\* What the theorems ask of the constants.
ASSUME BarrierAssumption ==
  BarrierN \in Nat \ {0} /\ BarrierRounds \in Nat /\ MbRounds \in Nat
ASSUME SelAssumption == Sel!Sized
ASSUME ScanAssumption == Scans!Sized
ASSUME UniAssumption == Uni!Sized
ASSUME TrnsAssumption == Trns!Sized
ASSUME BfsAssumption == Bfs!Sized
ASSUME NwAssumption == Nw!Sized
ASSUME BsAssumption == Bs!Sized
ASSUME TsAssumption == Ts!Sized
ASSUME MvAssumption == Mv!Sized
ASSUME SpAssumption == Spmv!Sized
ASSUME VaAssumption == Va!Sized
ASSUME CtrAssumption == Ctr!Sized
ASSUME AeadAssumption == Cipher!Sized
ASSUME FslAssumption == First!Sized

-----------------------------------------------------------------------------
None14 == m14 = 0
None13 == m13 = 0 /\ None14
None12 == m12 = 0 /\ None13
None11 == m11 = 0 /\ None12
None10 == m10 = 0 /\ None11
None9 == m9 = 0 /\ None10
None8 == m8 = 0 /\ None9
None7 == m7 = 0 /\ None8
None6 == m6 = 0 /\ None7
None5 == m5 = 0 /\ None6

\* HST-L before its first step, and while another kernel runs.
GroupInit ==
  /\ GInit
  /\ kernel # "HST-L" => input = CHOOSE f \in Inputs : TRUE

KernelInit ==
  \/ /\ kernel = "HST-L"
     /\ m1 = 0 /\ m2 = 0 /\ m3 = 0 /\ m4 = 0 /\ None5
  \/ kernel = "SEL" /\ Sel!Init /\ None14
  \/ kernel = "MLP barrier" /\ Flag!Init /\ None10
  \/ kernel = "barrier" /\ Slots!Init /\ None10
  \/ kernel = "TRNS" /\ Trns!Init /\ None9
  \/ kernel = "BFS" /\ Bfs!Init /\ None12
  \/ kernel = "NW" /\ Nw!Init /\ None12
  \/ kernel = "SCAN" /\ Scans!Init
  \/ kernel = "BS" /\ Bs!Init /\ None10
  \/ kernel = "UNI" /\ Uni!Init /\ None13
  \/ kernel = "gemv" /\ Mv!Init /\ None13
  \/ kernel = "VA" /\ Va!Init /\ None9
  \/ kernel = "TS" /\ Ts!Init /\ None8
  \/ kernel = "SpMV" /\ Spmv!Init /\ None10
  \/ kernel = "mbench" /\ Mb!Init /\ None8
  \/ kernel = "poly" /\ Poly!Init /\ None5
  \/ kernel = "counter" /\ Ctr!Init /\ None7
  \/ kernel = "aead" /\ Cipher!Init /\ None13
  \/ kernel = "first stage" /\ First!Init /\ None6

MCInit == KernelInit /\ GroupInit

-----------------------------------------------------------------------------
MCNext ==
  \/ kernel = "HST-L" /\ GNext /\ UNCHANGED <<kernel, from1>>
  \/ kernel = "SEL" /\ Sel!Next /\ UNCHANGED <<group, from14>>
  \/ kernel = "MLP barrier" /\ Flag!Next /\ UNCHANGED <<group, from10>>
  \/ kernel = "barrier" /\ Slots!Next /\ UNCHANGED <<group, from10>>
  \/ kernel = "TRNS" /\ Trns!Next /\ UNCHANGED <<group, from9>>
  \/ kernel = "BFS" /\ Bfs!Next /\ UNCHANGED <<group, from12>>
  \/ kernel = "NW" /\ Nw!Next /\ UNCHANGED <<group, from12>>
  \/ kernel = "SCAN" /\ Scans!Next /\ UNCHANGED group
  \/ kernel = "BS" /\ Bs!Next /\ UNCHANGED <<group, from10>>
  \/ kernel = "UNI" /\ Uni!Next /\ UNCHANGED <<group, from13>>
  \/ kernel = "gemv" /\ Mv!Next /\ UNCHANGED <<group, from13>>
  \/ kernel = "VA" /\ Va!Next /\ UNCHANGED <<group, from9>>
  \/ kernel = "TS" /\ Ts!Next /\ UNCHANGED <<group, from8>>
  \/ kernel = "SpMV" /\ Spmv!Next /\ UNCHANGED <<group, from10>>
  \/ kernel = "mbench" /\ Mb!Next /\ UNCHANGED <<group, from8>>
  \/ kernel = "poly" /\ Poly!Next /\ UNCHANGED <<group, from5>>
  \/ kernel = "counter" /\ Ctr!Next /\ UNCHANGED <<group, from7>>
  \/ kernel = "aead" /\ Cipher!Next /\ UNCHANGED <<group, from13>>
  \/ kernel = "first stage" /\ First!Next /\ UNCHANGED <<group, from6>>

(***************************************************************************)
(* The fairness of the modules: of the steps that tasklets take together,  *)
(* or with the host, and of every tasklet (SCAN and counter: every DPU;    *)
(* BFS: every tasklet of every DPU).                                       *)
(***************************************************************************)
Meeting ==
  \/ kernel = "HST-L" /\ LeaderInWait /\ UNCHANGED <<kernel, from1>>
  \/ kernel = "SEL" /\ Sel!Together /\ UNCHANGED <<group, from14>>
  \/ kernel = "MLP barrier" /\ Flag!Tasklet0 /\ UNCHANGED <<group, from10>>
  \/ kernel = "barrier" /\ Slots!Tasklet0 /\ UNCHANGED <<group, from10>>
  \/ kernel = "BFS" /\ Bfs!Together /\ UNCHANGED <<group, from12>>
  \/ kernel = "NW" /\ Nw!Together /\ UNCHANGED <<group, from12>>
  \/ kernel = "SCAN" /\ Scans!HostStartsSecond /\ UNCHANGED group
  \/ kernel = "BS" /\ Bs!Publish /\ UNCHANGED <<group, from10>>
  \/ kernel = "UNI" /\ Uni!Together /\ UNCHANGED <<group, from13>>
  \/ kernel = "gemv" /\ Mv!Together /\ UNCHANGED <<group, from13>>
  \/ kernel = "mbench" /\ Mb!Leader /\ UNCHANGED <<group, from8>>

Moves(t) ==
  \/ kernel = "HST-L" /\ t < 3 /\ Of(t) /\ UNCHANGED <<kernel, from1>>
  \/ kernel = "SEL" /\ t < SelN /\ Sel!Tasklet(t) /\ UNCHANGED <<group, from14>>
  \/ kernel = "MLP barrier" /\ Flag!Tasklet(t) /\ UNCHANGED <<group, from10>>
  \/ kernel = "barrier" /\ Slots!Tasklet(t) /\ UNCHANGED <<group, from10>>
  \/ kernel = "TRNS" /\ t \in TrnsTasklets /\ Trns!Tasklet(t) /\ UNCHANGED <<group, from9>>
  \/ kernel = "BFS" /\ t \div BfsN < BfsDpus /\ Bfs!Tasklet(t \div BfsN, t % BfsN) /\ UNCHANGED <<group, from12>>
  \/ kernel = "NW" /\ t < NwN /\ Nw!Tasklet(t) /\ UNCHANGED <<group, from12>>
  \/ kernel = "SCAN" /\ t < ScanD /\ Scans!Dpu(t) /\ UNCHANGED group
  \/ kernel = "BS" /\ t < BsN /\ Bs!Tasklet(t) /\ UNCHANGED <<group, from10>>
  \/ kernel = "UNI" /\ t < UniN /\ Uni!Tasklet(t) /\ UNCHANGED <<group, from13>>
  \/ kernel = "gemv" /\ t < MvN /\ Mv!Tasklet(t) /\ UNCHANGED <<group, from13>>
  \/ kernel = "mbench" /\ t < 3 /\ Mb!Tasklet(t) /\ UNCHANGED <<group, from8>>
  \/ kernel = "counter" /\ t < 2 /\ Ctr!Dpu(t) /\ UNCHANGED <<group, from7>>

MCSpec ==
  MCInit /\ [][MCNext]_all /\ WF_all(Meeting) /\ \A t \in 0 .. 3 : WF_all(Moves(t))

-----------------------------------------------------------------------------
(***************************************************************************)
(* The properties of the modules, each of its own kernel.                  *)
(***************************************************************************)
\* Both versions of mybarrier_wait(), and the barrier of mbench: no tasklet
\* leaves a round before all have entered it, where the rounds of a tasklet
\* that was late are one behind those of the others; with init_done nobody is.
BarriersHold ==
  /\ kernel = "MLP barrier" => Flag!SenseInv /\ Flag!RoundIntegrity
  /\ kernel = "barrier" => Slots!SenseInv /\ Slots!RoundIntegrity
  /\ kernel = "mbench" => Mb!EpochIntegrity

\* What a handshake tells a tasklet is of this round and the prefix it stands
\* for: in SEL each kept element goes behind those before it, in UNI equal
\* neighbours are kept once across blocks, tasklets and rounds, and in the two
\* scans what is added to a block is what lies before it on all DPUs.  A tasklet
\* that reads the sum of the rounds after it was replaced spoils what it writes
\* itself and nothing else.
PrefixesAreRight ==
  /\ kernel = "SEL" => Sel!Compacted /\ Sel!BoxIsFresh
  /\ kernel = "UNI" => Uni!NeighboursDropped
  /\ kernel = "SCAN" => Scans!Scanned

\* TRNS: one mover per tile, no cycle abandoned, every tile in its place.
TilesArrive == kernel = "TRNS" => Trns!MoveInv /\ Trns!Transposed

\* BFS: levels are distances between two turns.
LevelsAreDistances == kernel = "BFS" => Bfs!LevelsAreDistances

\* NW: the matrix of a job is complete.
Filled == kernel = "NW" => Nw!Filled

\* BFS, NW: a level given to a node, and a cell computed, are never spoilt by
\* another tasklet.
ResultsStay ==
  [][(kernel = "BFS" => Bfs!LevelKept) /\ (kernel = "NW" => Nw!FinalKept)]_all

\* VA, RED, HST-S and HST-L: every element is counted once, in its bin; in
\* HST-L if no tasklet was late.
CountedOnce ==
  /\ kernel = "VA" => Va!EachElementOnce
  /\ kernel = "HST-L" => HistogramComplete /\ (late = {} => ClearedBeforeCounted)

\* gemv, MLP, SpMV: every product is of the right two elements, whatever the
\* alignment of a row and whichever tile of the vector is loaded.
RowsAreRight ==
  /\ kernel = "gemv" => Mv!RowsMultiplied
  /\ kernel = "SpMV" => Spmv!RowsSummed

\* BS: the bracket holds a block and the value, and the results are those of
\* the hits.  TS: the closest window is found.
SearchesFind ==
  /\ kernel = "BS" => Bs!Bracket /\ Bs!LastHitsPublished
  /\ kernel = "TS" => Ts!ClosestFound

\* Poly1305: the accumulator is the right number modulo 2^130 - 5.
Congruent == kernel = "poly" => Poly!Congruent

\* The counter: no IV twice in a session, on any DPU.
IVsAreDistinct == kernel = "counter" => Ctr!IVsAreDistinct

\* The runtime's cipher: what is opened is what was sealed, a failed check
\* changes nothing, and no stream is used for two purposes.
CipherIsSound == kernel = "aead" => Cipher!OpenedOrUntouched /\ Cipher!StreamsApart

\* The first stage: the loader accepts its images and finds its secrets.
HandedOver == kernel = "first stage" => First!ImagesAccepted /\ First!SecretsInPlace

\* Every spin ends: the barriers, in every round, the chains of handshakes, and
\* the calls of the counter.
WaitsEnd ==
  <>(/\ kernel = "MLP barrier" => Flag!Returned
     /\ kernel = "barrier" => Slots!Returned
     /\ kernel = "HST-L" => Through
     /\ kernel = "mbench" => Mb!Ended
     /\ kernel = "counter" => Ctr!Ended
     /\ kernel = "SEL" => Sel!Done
     /\ kernel = "SCAN" => Scans!Done
     /\ kernel = "UNI" => Uni!Ended)

\* The kernels that take turns with the host end, and the tasklets of TRNS and
\* of BS run out of tiles and of queries.
KernelsEnd ==
  <>(/\ kernel = "BFS" => Bfs!Exited
     /\ kernel = "NW" => Nw!Ended
     /\ kernel = "gemv" => Mv!Ended
     /\ kernel = "TRNS" => Trns!Ended
     /\ kernel = "BS" => Bs!Ended)
=============================================================================
