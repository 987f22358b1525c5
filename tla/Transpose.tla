----------------------------- MODULE Transpose -----------------------------
(***************************************************************************)
(* The in-place transposition of TRNS/main.c.  Step 2 (main_kernel1)       *)
(* transposes tiles of m x n elements in WRAM.  Step 3 (main_kernel2)      *)
(* moves the tiles themselves along the cycles of a permutation.  Several  *)
(* tasklets may follow the same cycle from different tiles; a bit per tile *)
(* in MRAM, read and set under done_mutex, says who moves a tile there,    *)
(* while the reads and writes of the tiles happen outside the mutex.       *)
(*                                                                         *)
(* A tile's content is the tile it came from.                              *)
(***************************************************************************)
EXTENDS Integers

CONSTANTS
  Tasklets,  \* the tasklets
  M,         \* M_ of the arguments
  n          \* n of the arguments

\* What the proofs ask of the arguments.
Sized == Tasklets # {} /\ M \in Nat \ {0} /\ n \in Nat \ {0}

(***************************************************************************)
(* Where an element goes when a matrix with this many columns is           *)
(* transposed: the expression of step 2 for elements, of step 3 for tiles. *)
(***************************************************************************)
Step(rows, columns, tile) == tile * rows - (rows * columns - 1) * (tile \div columns)

Tiles == 0 .. M * n - 1
TileMax == M * n - 1
NextInCycle(tile) == Step(M, n, tile)

VARIABLES
  pc,      \* pc[t]: where t is in main_kernel2
  curr,    \* curr_tile
  tile,    \* tile[t]
  next,    \* next[t]: next_in_cycle
  data,    \* data[t]
  backup,  \* backup[t]
  A,       \* A[x]: the tile whose content is at x
  done     \* the tiles whose bit is set

vars == <<pc, curr, tile, next, data, backup, A, done>>

Locations == {"get", "first", "probe", "read", "claim", "write", "end"}

\* The host has cleared the bits; tasklet 0 has set curr_tile before the barrier.
Init ==
  /\ pc = [t \in Tasklets |-> "get"]
  /\ curr = 0
  /\ tile = [t \in Tasklets |-> 0]
  /\ next = [t \in Tasklets |-> 0]
  /\ data = [t \in Tasklets |-> 0]
  /\ backup = [t \in Tasklets |-> 0]
  /\ A = [x \in Tiles |-> x]
  /\ done = {}

Goto(t, l) == pc' = [pc EXCEPT ![t] = l]

-----------------------------------------------------------------------------
(* get_tile(), and the loop head: the last tile and the fixed points stay. *)
GetTile(t) ==
  /\ pc[t] = "get"
  /\ tile' = [tile EXCEPT ![t] = curr]
  /\ curr' = curr + 1
  /\ IF curr < TileMax
     THEN /\ next' = [next EXCEPT ![t] = NextInCycle(curr)]
          /\ Goto(t, IF NextInCycle(curr) = curr THEN "get" ELSE "first")
     ELSE Goto(t, "end") /\ UNCHANGED next
  /\ UNCHANGED <<data, backup, A, done>>

ReadFirst(t) ==
  /\ pc[t] = "first"
  /\ data' = [data EXCEPT ![t] = A[tile[t]]]
  /\ Goto(t, "probe")
  /\ UNCHANGED <<curr, tile, next, backup, A, done>>

\* get_done().
Probe(t) ==
  /\ pc[t] = "probe"
  /\ Goto(t, IF tile[t] \in done THEN "get" ELSE "read")
  /\ UNCHANGED <<curr, tile, next, data, backup, A, done>>

ReadNext(t) ==
  /\ pc[t] = "read"
  /\ backup' = [backup EXCEPT ![t] = A[next[t]]]
  /\ Goto(t, "claim")
  /\ UNCHANGED <<curr, tile, next, data, A, done>>

\* Slip: the bit is read as in get_done() and set by the writer alone.
ClaimLate(t) ==
  /\ pc[t] = "claim"
  /\ Goto(t, IF next[t] \in done THEN "get" ELSE "write")
  /\ UNCHANGED <<curr, tile, next, data, backup, A, done>>

\* get_and_set_done(); a tasklet that comes second leaves the cycle.
Claim(t) ==
  /\ pc[t] = "claim"
  /\ done' = done \cup {next[t]}
  /\ Goto(t, IF next[t] \in done THEN "get" ELSE "write")
  /\ UNCHANGED <<curr, tile, next, data, backup, A>>

\* Slip: data is not replaced by what was saved.
WriteKeepsData(t) ==
  /\ pc[t] = "write"
  /\ A' = [A EXCEPT ![next[t]] = data[t]]
  /\ next' = [next EXCEPT ![t] = NextInCycle(next[t])]
  /\ Goto(t, "read")
  /\ UNCHANGED <<curr, tile, data, backup, done>>

Write(t) ==
  /\ pc[t] = "write"
  /\ A' = [A EXCEPT ![next[t]] = data[t]]
  /\ data' = [data EXCEPT ![t] = backup[t]]
  /\ next' = [next EXCEPT ![t] = NextInCycle(next[t])]
  /\ Goto(t, "read")
  /\ UNCHANGED <<curr, tile, backup, done>>

-----------------------------------------------------------------------------
Tasklet(t) ==
  GetTile(t) \/ ReadFirst(t) \/ Probe(t) \/ ReadNext(t) \/ Claim(t) \/ Write(t)

\* The barrier and the end of the kernel.
Finished == (\A t \in Tasklets : pc[t] = "end") /\ UNCHANGED vars

Next == (\E t \in Tasklets : Tasklet(t)) \/ Finished

Spec == Init /\ [][Next]_vars

\* Round-robin issue: a tasklet that can go on does.
FairSpec == Spec /\ \A t \in Tasklets : WF_vars(Tasklet(t))

-----------------------------------------------------------------------------
TypeOK ==
  /\ pc \in [Tasklets -> Locations]
  /\ curr \in Nat
  /\ tile \in [Tasklets -> Nat]
  /\ next \in [Tasklets -> Tiles]
  /\ data \in [Tasklets -> Tiles]
  /\ backup \in [Tasklets -> Tiles]
  /\ A \in [Tiles -> Tiles]
  /\ done \subseteq Tiles

(***************************************************************************)
(* When all tasklets are through, every tile is where the transposition    *)
(* puts it: none lost, none moved twice, none left behind.                 *)
(***************************************************************************)
Transposed ==
  (\A t \in Tasklets : pc[t] = "end") => \A x \in Tiles : NextInCycle(A[x]) = x

(***************************************************************************)
(* The inductive invariant.  A tile not claimed is as it was; a claimed    *)
(* one has its new content or a tasklet, only one, is about to write it,   *)
(* from what was read before anybody claimed the tile it came from.        *)
(***************************************************************************)
Pending(x) == \E t \in Tasklets : pc[t] = "write" /\ next[t] = x

ContentOK ==
  \A x \in Tiles :
    IF x \notin done \/ Pending(x) THEN A[x] = x ELSE NextInCycle(A[x]) = x

CarryOK ==
  \A t \in Tasklets :
    /\ pc[t] \in {"first", "probe"} =>
         /\ tile[t] \in Tiles /\ next[t] = NextInCycle(tile[t])
         /\ pc[t] = "probe" /\ tile[t] \notin done => data[t] = tile[t]
    /\ pc[t] \in {"read", "claim", "write"} => NextInCycle(data[t]) = next[t]
    /\ pc[t] = "claim" /\ next[t] \notin done => backup[t] = next[t]
    /\ pc[t] = "write" => backup[t] = next[t] /\ next[t] \in done

OneWriter ==
  \A s, t \in Tasklets : pc[s] = "write" /\ pc[t] = "write" /\ next[s] = next[t] => s = t

\* Somebody who follows the cycle is on the way to claim the tile x goes to.
Followed(x) ==
  \E t \in Tasklets :
    \/ pc[t] \in {"read", "claim"} /\ next[t] = NextInCycle(x)
    \/ pc[t] = "write" /\ next[t] = x

Started(x) == \E t \in Tasklets : pc[t] \in {"first", "probe"} /\ tile[t] = x

\* No cycle is abandoned: behind a claimed tile, and behind every tile that
\* was handed out, the next one is claimed too or will be.
CycleOK ==
  \A x \in Tiles :
    /\ x \in done => NextInCycle(x) \in done \/ Followed(x)
    /\ x < curr /\ x < TileMax /\ NextInCycle(x) # x =>
         NextInCycle(x) \in done \/ Followed(x) \/ Started(x)

\* A tasklet that reaches the end has seen all tiles handed out.
AllHandedOut == \A t \in Tasklets : pc[t] = "end" => curr >= TileMax

MoveInv == TypeOK /\ ContentOK /\ CarryOK /\ OneWriter /\ CycleOK /\ AllHandedOut

\* Every tasklet reaches the end.
Ended == \A t \in Tasklets : pc[t] = "end"
=============================================================================
