----------------------------- MODULE BlockShares ----------------------------
(***************************************************************************)
(* The kernels whose tasklets take the blocks of the input in turn, the    *)
(* last block being a part of one: vector addition (VA/main.c), reduction  *)
(* (RED/main.c) and the histogram with one copy per tasklet (HST-S/main.c) *)
(* whose copies are then merged in place, bin by bin, into that of tasklet *)
(* 0 while the others are still read.                                      *)
(*                                                                         *)
(* A sum, and a bin, is the bag of the elements counted in it; an element  *)
(* falls into the bin of its index modulo the number of bins.              *)
(* DMA moves units of 8 bytes, two elements or two bins.  The odd element  *)
(* of a length is neither read into the cache nor written back; at its     *)
(* place in the cache is what the block before left there, or, if there is *)
(* none, what was in WRAM, which the bags leave out.                       *)
(* mybarrier_wait() is one step of all tasklets (module SenseBarrier).     *)
(***************************************************************************)
EXTENDS Integers

CONSTANTS
  N,         \* NR_TASKLETS
  Block,     \* elements of a BLOCK_SIZE, whole units
  Chunk,     \* bins in 2048 bytes, whole units
  Sizes,     \* what size may be, in elements
  BinCounts  \* what bins may be

\* A last block of one element asks for no unit, which DMA takes for 256 of
\* them: the kernels are not meant for that size.
Sized ==
  /\ N \in Nat \ {0} /\ Block \in Nat \ {0} /\ Chunk \in Nat \ {0}
  /\ Block % 2 = 0 /\ Chunk % 2 = 0
  /\ Sizes \subseteq {s \in Nat : s % Block # 1} /\ BinCounts \subseteq Nat \ {0}

Tasklets == 0 .. N - 1

VARIABLES
  app,     \* "VA", "RED" or "HST-S"
  size,    \* size of the arguments
  bins,    \* bins of the arguments; one for RED, and VA has no use for it
  pc,      \* pc[t]
  index,   \* index[t]: byte_index
  histo,   \* histo[t][b]: what t has counted in b; for RED l_count, for VA what it has added
  bin,     \* bin[t]: the next bin that t merges
  out      \* what the host finds: the histogram, the total, or the vector

vars == <<app, size, bins, pc, index, histo, bin, out>>

Elements == 0 .. size - 1
BinNumbers == 0 .. bins - 1
None == [x \in Elements |-> 0]

Init ==
  /\ app \in {"VA", "RED", "HST-S"}
  /\ size \in Sizes
  /\ bins \in IF app = "HST-S" THEN BinCounts ELSE {1}
  /\ pc = [t \in Tasklets |-> "block"]
  /\ index = [t \in Tasklets |-> t * Block]
  /\ histo = [t \in Tasklets |-> [b \in BinNumbers |-> None]]
  /\ bin = [t \in Tasklets |-> t]
  /\ out = [b \in BinNumbers |-> None]

Goto(t, l) == pc' = [pc EXCEPT ![t] = l]

Barrier(at, next) ==
  /\ \A t \in Tasklets : pc[t] = at
  /\ pc' = [t \in Tasklets |-> next]

-----------------------------------------------------------------------------
\* The bound check: l_size_bytes.
Length(t) == IF index[t] + Block >= size THEN size - index[t] ELSE Block

Stride == Block * N

\* What DMA moves of n elements.
Moved(n) == n - (n % 2)

\* Whether x is read, or left in the cache at the place of an element that is not.
Read(t, x) == x >= index[t] /\ x < index[t] + Moved(Length(t))
LeftOver(t, x) == Length(t) % 2 = 1 /\ x = index[t] + Length(t) - 1 - Stride

\* A block is read and counted; vector addition writes it back.
TakeBlock(t) ==
  /\ pc[t] = "block" /\ index[t] < size
  /\ LET Has(x) == Read(t, x) \/ (app # "VA" /\ LeftOver(t, x))
     IN  histo' = [histo EXCEPT ![t] = [b \in BinNumbers |-> [x \in Elements |->
           IF Has(x) /\ x % bins = b THEN @[b][x] + 1 ELSE @[b][x]]]]
  /\ index' = [index EXCEPT ![t] = @ + Stride]
  /\ UNCHANGED <<app, size, bins, pc, bin, out>>

\* After its blocks a tasklet leaves its message and waits.
BlocksDone(t) ==
  /\ pc[t] = "block" /\ index[t] >= size
  /\ Goto(t, "barrier")
  /\ UNCHANGED <<app, size, bins, index, histo, bin, out>>

\* What the tasklets have counted of x in bin b, from tasklet 0 on.
Total(b, x) ==
  LET total[n \in 0 .. N] == IF n = 0 THEN 0 ELSE total[n - 1] + histo[n - 1][b][x]
  IN  total[N]

Sum(b) == [x \in Elements |-> Total(b, x)]

\* After the barrier tasklet 0 adds up the messages of a reduction; the vector
\* is there; the histograms are merged.
Meet ==
  /\ Barrier("barrier", IF app = "HST-S" THEN "merge" ELSE "end")
  /\ out' = IF app = "HST-S" THEN out ELSE [b \in BinNumbers |-> Sum(b)]
  /\ UNCHANGED <<app, size, bins, index, histo, bin>>

\* Slip: the tasklet goes on to the next bin, not to the next of its stripe.
MergeEvery(t) ==
  /\ pc[t] = "merge"
  /\ IF bin[t] < bins
     THEN /\ histo' = [histo EXCEPT ![0][bin[t]] = Sum(bin[t])]
          /\ bin' = [bin EXCEPT ![t] = @ + 1]
          /\ UNCHANGED pc
     ELSE Goto(t, "write") /\ UNCHANGED <<histo, bin>>
  /\ UNCHANGED <<app, size, bins, index, out>>

\* A tasklet merges a bin of its stripe into the histogram of tasklet 0.
Merge(t) ==
  /\ pc[t] = "merge"
  /\ IF bin[t] < bins
     THEN /\ histo' = [histo EXCEPT ![0][bin[t]] = Sum(bin[t])]
          /\ bin' = [bin EXCEPT ![t] = @ + N]
          /\ UNCHANGED pc
     ELSE Goto(t, "write") /\ UNCHANGED <<histo, bin>>
  /\ UNCHANGED <<app, size, bins, index, out>>

\* Tasklet 0 writes the histogram, beyond 2048 bytes in whole chunks; for one
\* bin DMA writes 256 units.
Written ==
  IF bins = 1 THEN 1 ELSE IF bins <= Chunk THEN Moved(bins) ELSE (bins \div Chunk) * Chunk

WriteHistogram ==
  /\ Barrier("write", "end")
  /\ out' = [b \in BinNumbers |-> IF b < Written THEN histo[0][b] ELSE out[b]]
  /\ UNCHANGED <<app, size, bins, index, histo, bin>>

-----------------------------------------------------------------------------
Tasklet(t) == TakeBlock(t) \/ BlocksDone(t) \/ Merge(t)

Ended == \A t \in Tasklets : pc[t] = "end"

Next == Meet \/ WriteHistogram \/ (\E t \in Tasklets : Tasklet(t)) \/ (Ended /\ UNCHANGED vars)

-----------------------------------------------------------------------------
(***************************************************************************)
(* The inductive invariant: a tasklet has counted what lies before its     *)
(* index in its blocks, and a bin of tasklet 0 is its own, or already that *)
(* of all.                                                                 *)
(***************************************************************************)
TypeOK ==
  /\ app \in {"VA", "RED", "HST-S"} /\ size \in Nat /\ bins \in Nat \ {0}
  /\ DOMAIN pc = Tasklets
  /\ index \in [Tasklets -> Nat] /\ bin \in [Tasklets -> Nat]
  /\ histo \in [Tasklets -> [BinNumbers -> [Elements -> Int]]]

\* The blocks of t, and what belongs into a bin.
Owns(t, x) == t * Block <= x % Stride /\ x % Stride < (t + 1) * Block

\* The odd last element, and the one that is counted in its place.
Odd(x) == size % 2 = 1 /\ x = size - 1
Again(x) == app # "VA" /\ size % 2 = 1 /\ x = size - 1 - Stride

Times(x) == IF Odd(x) THEN 0 ELSE IF Again(x) THEN 2 ELSE 1
Right(b, x) == IF x % bins = b THEN Times(x) ELSE 0

\* How often x is counted when its tasklet has come to an index.
TimesBefore(i, x) ==
  (IF x < i /\ ~ Odd(x) THEN 1 ELSE 0) + (IF Again(x) /\ size <= i THEN 1 ELSE 0)

\* Whether the host can see a bin.
Shown(b) == app = "HST-S" => b < Written

\* Bin b is merged.
Merged(b) == b < bin[b % N]

SharesOK ==
  \A t \in Tasklets :
    /\ index[t] % Stride = t * Block /\ index[t] % 2 = 0 /\ bin[t] % N = t
    /\ pc[t] # "block" => index[t] >= size
    /\ \A b \in BinNumbers, x \in Elements :
         histo[t][b][x] =
           IF t = 0 /\ Merged(b) THEN Right(b, x)
           ELSE IF Owns(t, x) /\ x % bins = b THEN TimesBefore(index[t], x) ELSE 0

Untouched == \A b \in BinNumbers, x \in Elements : out[b][x] = 0

PhaseOK ==
  \/ /\ \A t \in Tasklets : pc[t] \in {"block", "barrier"}
     /\ bin = [t \in Tasklets |-> t]
     /\ Untouched
  \/ /\ app = "HST-S"
     /\ \A t \in Tasklets : pc[t] = "merge" \/ (pc[t] = "write" /\ bin[t] >= bins)
     /\ Untouched
  \/ /\ \A t \in Tasklets : pc[t] = "end"
     /\ \A b \in BinNumbers, x \in Elements :
          out[b][x] = IF Shown(b) THEN Right(b, x) ELSE 0

CountInv == TypeOK /\ SharesOK /\ PhaseOK

-----------------------------------------------------------------------------
(***************************************************************************)
(* In the end the host finds every element exactly once: in its bin, in    *)
(* the total, or added to the vector.  The last of an odd number is        *)
(* missing, and where it would be counted the element one stride before it *)
(* is counted a second time; an odd last bin stays as it was.              *)
(***************************************************************************)
EachElementOnce ==
  Ended => \A b \in BinNumbers, x \in Elements :
    LET lost  == size % 2 = 1 /\ x = size - 1
        twice == app # "VA" /\ size % 2 = 1 /\ x = size - 1 - Stride
    IN  out[b][x] = IF x % bins # b \/ lost \/ ~ Shown(b) THEN 0 ELSE IF twice THEN 2 ELSE 1
=============================================================================
