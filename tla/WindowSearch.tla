---------------------------- MODULE WindowSearch ----------------------------
(***************************************************************************)
(* The time series search of TS/main.c: which window of the series is      *)
(* closest to the query.  A tasklet goes through the windows of its share  *)
(* block by block, with the dot products of a whole block of windows at a  *)
(* time; those need two neighbouring blocks of the series for every block  *)
(* of the query.                                                           *)
(*                                                                         *)
(* All windows have distance 1 but one, which has 0: it is found if the    *)
(* terms of its dot product are the right ones.                            *)
(***************************************************************************)
EXTENDS Integers

CONSTANTS
  N,       \* NR_TASKLETS
  W,       \* elements of a BLOCK_SIZE, also DOTPIP
  Slices,  \* what slice_per_dpu may be: multiples of N * W
  Queries  \* what query_length may be: multiples of W

\* What the proofs ask, beside what is said of the sizes above.
Sized ==
  /\ N \in Nat \ {0} /\ W \in Nat \ {0, 1}
  /\ Slices \subseteq Nat /\ \A s \in Slices : s % (N * W) = 0
  /\ Queries \subseteq Nat /\ \A q \in Queries : q % W = 0

Tasklets == 0 .. N - 1
Max == 2  \* DTYPE_MAX

VARIABLES
  slice,  \* slice_per_dpu
  length, \* query_length, at most slice
  best,   \* the window with distance 0
  pc,     \* pc[t]
  i,      \* i[t]: the first window of the block
  min,    \* min[t]: min_distance and min_index
  results \* results[t]: what is in MRAM

vars == <<slice, length, best, pc, i, min, results>>

Start(t) == t * (slice \div N)

\* myEndElem, at most where the last window begins.
End(t) ==
  LET e == Start(t) + slice \div N - 1
  IN  IF e > slice - length THEN slice - length ELSE e

Init ==
  /\ slice \in Slices
  /\ length \in {q \in Queries : q <= slice}
  /\ best \in 0 .. slice - length - 1
  /\ pc = [t \in Tasklets |-> "block"]
  /\ i = [t \in Tasklets |-> Start(t)]
  /\ min = [t \in Tasklets |-> [value |-> Max, index |-> 0]]
  /\ results = <<>>

-----------------------------------------------------------------------------
\* Slip: the second block of the series begins where the first one does.
AuxSame(x) == x - W

\* An element of cache_TS_aux, from the base of cache_TS.
Aux(x) == x

\* Which element of the series dot_product() multiplies with element q of the
\* query, for window k of the block at base.
Partner(base, k, q) ==
  LET block == (q \div W) * W
      x == k + (q % W)
  IN  IF x > W - 1 THEN base + block + Aux(x) ELSE base + block + x

Distance(base, k) ==
  IF /\ base + k = best
     /\ \A q \in 0 .. length - 1 : Partner(base, k, q) = base + k + q
  THEN 0 ELSE 1

\* A block of windows; the first of the closest ones counts.
SearchBlock(t) ==
  /\ pc[t] = "block" /\ i[t] < End(t)
  /\ LET d(k) == Distance(i[t], k)
         low  == CHOOSE k \in 0 .. W - 1 :
                   /\ \A j \in 0 .. W - 1 : d(k) <= d(j)
                   /\ \A j \in 0 .. k - 1 : d(k) < d(j)
     IN  min' = IF d(low) < min[t].value
                THEN [min EXCEPT ![t] = [value |-> d(low), index |-> i[t] + low]]
                ELSE min
  /\ i' = [i EXCEPT ![t] = @ + W]
  /\ UNCHANGED <<slice, length, best, pc, results>>

ShareDone(t) ==
  /\ pc[t] = "block" /\ i[t] >= End(t)
  /\ pc' = [pc EXCEPT ![t] = "barrier"]
  /\ UNCHANGED <<slice, length, best, i, min, results>>

\* The barrier, the results of all tasklets, and the barrier after it.
WriteResults ==
  /\ \A t \in Tasklets : pc[t] = "barrier"
  /\ results' = min
  /\ pc' = [t \in Tasklets |-> "end"]
  /\ UNCHANGED <<slice, length, best, i, min>>

-----------------------------------------------------------------------------
Ended == \A t \in Tasklets : pc[t] = "end"

Next ==
  \/ WriteResults
  \/ \E t \in Tasklets : SearchBlock(t) \/ ShareDone(t)
  \/ Ended /\ UNCHANGED vars

-----------------------------------------------------------------------------
(***************************************************************************)
(* The closest window is among the results, and nothing is closer.  The    *)
(* window that begins at slice - length is left out: a block that begins   *)
(* where the end is, is not searched.                                      *)
(***************************************************************************)
ClosestFound ==
  Ended => \E t \in Tasklets : results[t] = [value |-> 0, index |-> best]

(***************************************************************************)
(* The inductive invariant: the tasklet in whose share the window lies has *)
(* it once it is past it; whatever else a tasklet has is at distance 1.    *)
(***************************************************************************)
TypeOK ==
  /\ slice \in Slices /\ length \in Queries /\ best \in 0 .. slice - length - 1
  /\ pc \in [Tasklets -> {"block", "barrier", "end"}]
  /\ i \in [Tasklets -> Nat]
  /\ min \in [Tasklets -> [value : 0 .. Max, index : Nat]]

\* The blocks of a tasklet begin at multiples of W in its share.
PlacesOK ==
  \A t \in Tasklets :
    /\ i[t] >= Start(t) /\ (i[t] - Start(t)) % W = 0
    /\ pc[t] \in {"barrier", "end"} => i[t] >= End(t)

MinimumOK ==
  \A t \in Tasklets :
    /\ min[t].value = 0 => min[t].index = best
    /\ Start(t) <= best /\ best < i[t] => min[t].value = 0

ResultsOK ==
  \A t, u \in Tasklets : pc[t] = "end" => pc[u] = "end" /\ results = min

WindowInv == TypeOK /\ PlacesOK /\ MinimumOK /\ ResultsOK
=============================================================================
