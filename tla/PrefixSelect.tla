---------------------------- MODULE PrefixSelect ----------------------------
(***************************************************************************)
(* How the tasklets of SEL/main.c compact an array.  In every round each   *)
(* tasklet takes one block, keeps some of its elements, learns from its    *)
(* left neighbour how many the tasklets before it kept (handshake_sync of  *)
(* support/mc_sync.h) and writes its own behind them.  The scan kernels    *)
(* (SCAN-SSA, SCAN-RSS) follow the same rounds.                            *)
(*                                                                         *)
(* No barrier lies between the reads of message_partial_count and the      *)
(* addition of the last tasklet, so a tasklet can be overtaken by it; and  *)
(* a transfer of length 0 is not an empty one.                             *)
(*                                                                         *)
(* mybarrier_wait() is one step of all tasklets; module SenseBarrier says  *)
(* what justifies that.  The array is assumed to have a whole number of    *)
(* rounds, so that every tasklet calls the barrier equally often.          *)
(***************************************************************************)
EXTENDS Integers

CONSTANTS
  N,        \* NR_TASKLETS
  Rounds,   \* input_size_bytes / (BLOCK_SIZE * NR_TASKLETS)
  Kept,     \* how many elements of a block may be kept
  Wide,     \* elements that a transfer of length 0 moves, 2 * REGS: the longest one
  None      \* no offset yet, not a natural number

Sized == N \in Nat \ {0} /\ Rounds \in Nat /\ Kept \subseteq 0 .. Wide /\ Wide \in Nat /\ None \notin Nat

Tasklets == 0 .. N-1
Last == N - 1

VARIABLES
  pc,       \* pc[t]: where t is in its round
  round,    \* the round, counted from 1
  gEpoch,   \* g_epoch
  box,      \* mc_msg: per tasklet, value and epoch
  partial,  \* message_partial_count
  epoch,    \* epoch[t]: the local epoch of handshake_sync
  count,    \* count[t]: l_count
  before,   \* before[t]: p_count
  accum,    \* next_block_accum of the last tasklet
  kept,     \* history: kept[r][t], what t kept in round r
  output,   \* what has been written: a function on element offsets
  total,    \* the count in the log, written by tasklet 0
  overtaken \* history: <<r, t>> if the sum was replaced in round r before t read it

vars == <<pc, round, gEpoch, box, partial, epoch, count, before, accum, kept, output, total, overtaken>>
locals == <<epoch, count, before, accum>>
results == <<output, total, overtaken>>

Locations == {"bump", "barrier1", "select", "epoch", "receive", "take", "value", "stamp",
              "barrier2", "place", "update", "barrier3", "report", "done"}

Goto(t, l) == pc' = [pc EXCEPT ![t] = l]

RoundStart(t) == IF t = 0 THEN "bump" ELSE "barrier1"

\* After handshake_init() and the two barriers that follow it.
Init ==
  /\ pc = [t \in Tasklets |-> IF Rounds > 0 THEN RoundStart(t) ELSE "report"]
  /\ round = 1
  /\ gEpoch = 1
  /\ box = [t \in Tasklets |-> [val |-> 0, epoch |-> 0]]
  /\ partial = 0
  /\ epoch = [t \in Tasklets |-> 0]
  /\ count = [t \in Tasklets |-> 0]
  /\ before = [t \in Tasklets |-> 0]
  /\ accum = 0
  /\ kept = [r \in 1..Rounds |-> [t \in Tasklets |-> 0]]
  /\ output = <<>>
  /\ total = None
  /\ overtaken = {}

-----------------------------------------------------------------------------
Bump ==
  /\ pc[0] = "bump"
  /\ gEpoch' = gEpoch + 1
  /\ Goto(0, "barrier1")
  /\ UNCHANGED <<round, box, partial, locals, kept, results>>

\* mybarrier_wait(): all arrive, all go on.
Barrier(at, next) ==
  /\ \A t \in Tasklets : pc[t] = at
  /\ pc' = [t \in Tasklets |-> next[t]]

BeforeSelect ==
  /\ Barrier("barrier1", [t \in Tasklets |-> "select"])
  /\ UNCHANGED <<round, gEpoch, box, partial, locals, kept, results>>

\* select() keeps the elements that do not satisfy pred.
Select(t) ==
  /\ pc[t] = "select"
  /\ \E k \in Kept :
       /\ count' = [count EXCEPT ![t] = k]
       /\ kept' = [kept EXCEPT ![round][t] = k]
  /\ Goto(t, "epoch")
  /\ UNCHANGED <<round, gEpoch, box, partial, epoch, before, accum, results>>

ReadEpoch(t) ==
  /\ pc[t] = "epoch"
  /\ epoch' = [epoch EXCEPT ![t] = gEpoch]
  /\ Goto(t, IF t = 0 THEN "value" ELSE "receive")
  /\ before' = [before EXCEPT ![t] = 0]
  /\ UNCHANGED <<round, gEpoch, box, partial, count, accum, kept, results>>

\* Slip: any stamp but 0 will do.
ReceiveAny(t) ==
  /\ pc[t] = "receive"
  /\ box[t].epoch # 0
  /\ Goto(t, "take")
  /\ UNCHANGED <<round, gEpoch, box, partial, locals, kept, results>>

Receive(t) ==
  /\ pc[t] = "receive"
  /\ box[t].epoch = epoch[t]
  /\ Goto(t, "take")
  /\ UNCHANGED <<round, gEpoch, box, partial, locals, kept, results>>

Take(t) ==
  /\ pc[t] = "take"
  /\ before' = [before EXCEPT ![t] = box[t].val]
  /\ Goto(t, "value")
  /\ UNCHANGED <<round, gEpoch, box, partial, epoch, count, accum, kept, results>>

\* The value goes into the right neighbour's box before the stamp does; the
\* last tasklet keeps the sum for message_partial_count.
SendValue(t) ==
  /\ pc[t] = "value"
  /\ IF t # Last
     THEN /\ box' = [box EXCEPT ![t + 1].val = before[t] + count[t]]
          /\ Goto(t, "stamp")
          /\ UNCHANGED accum
     ELSE /\ accum' = before[t] + count[t]
          /\ Goto(t, "barrier2")
          /\ UNCHANGED box
  /\ UNCHANGED <<round, gEpoch, partial, epoch, count, before, kept, results>>

\* Slip: the stamp is never set.
StampNothing(t) ==
  /\ pc[t] = "stamp"
  /\ Goto(t, "barrier2")
  /\ UNCHANGED <<round, gEpoch, box, partial, locals, kept, results>>

Stamp(t) ==
  /\ pc[t] = "stamp"
  /\ box' = [box EXCEPT ![t + 1].epoch = epoch[t]]
  /\ Goto(t, "barrier2")
  /\ UNCHANGED <<round, gEpoch, partial, locals, kept, results>>

BeforePlace ==
  /\ Barrier("barrier2", [t \in Tasklets |-> "place"])
  /\ UNCHANGED <<round, gEpoch, box, partial, locals, kept, results>>

\* Element k of what t kept in this round, and what lies behind that.
Element(t, k) == IF k < count[t] THEN <<round, t, k>> ELSE <<0, 0, 0>>

\* The length of a transfer is coded less one, so that 0 stands for the longest.
Moved(t) == IF count[t] = 0 THEN Wide ELSE count[t]

Offset(t) == partial + before[t]

Place(t) ==
  /\ pc[t] = "place"
  /\ output' = [o \in DOMAIN output \cup Offset(t) .. Offset(t) + Moved(t) - 1 |->
       IF o >= Offset(t) /\ o < Offset(t) + Moved(t) THEN Element(t, o - Offset(t)) ELSE output[o]]
  /\ Goto(t, IF t = Last THEN "update" ELSE "barrier3")
  /\ UNCHANGED <<round, gEpoch, box, partial, locals, kept, total, overtaken>>

\* With those that have yet to read the sum of the rounds before.
Overtaken == overtaken \cup {<<round, t>> : t \in {u \in Tasklets : pc[u] = "place"}}

\* No barrier keeps this behind the reads in Place.
Update ==
  /\ pc[Last] = "update"
  /\ partial' = partial + accum
  /\ overtaken' = Overtaken
  /\ Goto(Last, "barrier3")
  /\ UNCHANGED <<round, gEpoch, box, locals, kept, output, total>>

AfterUpdate ==
  /\ Barrier("barrier3", [t \in Tasklets |-> IF round < Rounds THEN RoundStart(t) ELSE "report"])
  /\ round' = IF round < Rounds THEN round + 1 ELSE round
  /\ UNCHANGED <<gEpoch, box, partial, locals, kept, results>>

\* One more barrier, then tasklet 0 writes the count into the log.
Report ==
  /\ Barrier("report", [t \in Tasklets |-> "done"])
  /\ total' = partial
  /\ UNCHANGED <<round, gEpoch, box, partial, locals, kept, output, overtaken>>

-----------------------------------------------------------------------------
Tasklet(t) ==
  Select(t) \/ ReadEpoch(t) \/ Receive(t) \/ Take(t) \/ SendValue(t) \/ Stamp(t) \/ Place(t)

Together == Bump \/ BeforeSelect \/ BeforePlace \/ Update \/ AfterUpdate \/ Report

Finished == (\A t \in Tasklets : pc[t] = "done") /\ UNCHANGED vars

Next == Together \/ (\E t \in Tasklets : Tasklet(t)) \/ Finished

Spec == Init /\ [][Next]_vars

\* Round-robin issue: a tasklet that can go on does.
FairSpec == Spec /\ WF_vars(Together) /\ \A t \in Tasklets : WF_vars(Tasklet(t))

-----------------------------------------------------------------------------
\* The first n values of f, added up.
SumOf(f, n) ==
  LET sum[k \in 0 .. n] == IF k = 0 THEN 0 ELSE sum[k - 1] + f[k - 1]
  IN  sum[n]

\* What the tasklets before t kept in round r, and all in the first n rounds.
KeptBefore(r, t) == SumOf(kept[r], t)
KeptInRounds(n) == SumOf([k \in 0 .. Rounds - 1 |-> KeptBefore(k + 1, N)], n)

\* Where the elements of t of round r belong.
Due(r, t) == KeptInRounds(r - 1) + KeptBefore(r, t)

HasPlaced(r, t) ==
  r < round \/ (r = round /\ pc[t] \in {"update", "barrier3", "report", "done"})

InTime(r, t) == HasPlaced(r, t) /\ <<r, t>> \notin overtaken

\* A tasklet to its left that kept nothing has written over the place of t.
Exposed(r, t) ==
  \E u \in Tasklets : u < t /\ kept[r][u] = 0 /\ InTime(r, u) /\ Due(r, t) < Due(r, u) + Wide

InPlace(r, t) ==
  \A k \in 0 .. kept[r][t] - 1 :
    Due(r, t) + k \in DOMAIN output /\ output[Due(r, t) + k] = <<r, t, k>>

(***************************************************************************)
(* What a tasklet kept lies right behind the elements that come before its *)
(* own in the array: those of earlier rounds and those of the tasklets to  *)
(* its left; and the log has the length of the whole.  The code falls      *)
(* short of this for a tasklet that reads the sum too late, and for one    *)
(* whose place a neighbour that kept nothing writes over; for no other.    *)
(***************************************************************************)
Compacted ==
  /\ \A r \in 1 .. Rounds, t \in Tasklets :
       InTime(r, t) /\ ~ Exposed(r, t) => InPlace(r, t)
  /\ total # None => total = KeptInRounds(Rounds)

\* A box whose stamp its owner accepts holds the count of this round.
BoxIsFresh ==
  \A t \in Tasklets \ {0} :
    pc[t] = "take" => box[t].val = KeptBefore(round, t)

-----------------------------------------------------------------------------
(***************************************************************************)
(* The inductive invariant: the four parts of a round, and how far the     *)
(* chain of handshakes has come.                                           *)
(***************************************************************************)
TypeOK ==
  /\ pc \in [Tasklets -> Locations]
  /\ round \in Nat \ {0} /\ gEpoch \in Nat /\ partial \in Nat /\ accum \in Nat
  /\ box \in [Tasklets -> [val : Nat, epoch : Nat]]
  /\ epoch \in [Tasklets -> Nat] /\ count \in [Tasklets -> Nat] /\ before \in [Tasklets -> Nat]
  /\ kept \in [1 .. Rounds -> [Tasklets -> Nat]]

\* The chain has passed t in this round.
Passed(t) == pc[t] = "barrier2"

BoxOK(t) ==
  /\ IF Passed(t - 1) THEN box[t].epoch = round + 1 ELSE box[t].epoch <= round
  /\ pc[t - 1] \in {"stamp", "barrier2"} => box[t].val = KeptBefore(round, t)

HandshakeOK(t) ==
  /\ pc[t] # "select" => count[t] = kept[round][t]
  /\ pc[t] \notin {"select", "epoch"} => epoch[t] = round + 1
  /\ pc[t] \in {"receive", "take"} => t # 0
  /\ pc[t] = "stamp" => t # Last
  /\ pc[t] \in {"take", "value", "stamp", "barrier2"} => \A u \in Tasklets : u < t => Passed(u)
  /\ pc[t] \in {"value", "stamp", "barrier2"} => before[t] = KeptBefore(round, t)
  /\ t # 0 => BoxOK(t)

Starting ==
  /\ \A t \in Tasklets : pc[t] = "barrier1" \/ (t = 0 /\ pc[t] = "bump")
  /\ gEpoch = IF pc[0] = "bump" THEN round ELSE round + 1
  /\ partial = KeptInRounds(round - 1)
  /\ \A t \in Tasklets \ {0} : box[t].epoch <= round

Syncing ==
  /\ \A t \in Tasklets :
       pc[t] \in {"select", "epoch", "receive", "take", "value", "stamp", "barrier2"}
  /\ gEpoch = round + 1
  /\ partial = KeptInRounds(round - 1)
  /\ \A t \in Tasklets : HandshakeOK(t)
  /\ Passed(Last) => accum = KeptBefore(round, N)

Placing ==
  /\ \A t \in Tasklets : pc[t] \in {"place", "barrier3"} \/ (t = Last /\ pc[t] = "update")
  /\ gEpoch = round + 1
  /\ \A t \in Tasklets :
       /\ count[t] = kept[round][t] /\ before[t] = KeptBefore(round, t)
       /\ t # 0 => box[t].epoch <= round + 1
  /\ accum = KeptBefore(round, N)
  /\ IF pc[Last] = "barrier3"
     THEN /\ partial = KeptInRounds(round)
          /\ \A t \in Tasklets : pc[t] = "place" => <<round, t>> \in overtaken
     ELSE partial = KeptInRounds(round - 1)

PhaseOK ==
  \/ round <= Rounds /\ total = None /\ (Starting \/ Syncing \/ Placing)
  \/ (\A t \in Tasklets : pc[t] = "report") /\ partial = KeptInRounds(Rounds) /\ total = None
  \/ (\A t \in Tasklets : pc[t] = "done") /\ total = KeptInRounds(Rounds)

PlacedOK ==
  \A r \in 1 .. Rounds, t \in Tasklets :
    /\ InTime(r, t) /\ ~ Exposed(r, t) => InPlace(r, t)
    /\ <<r, t>> \in overtaken =>
         r < round \/ (r = round /\ pc[Last] \in {"barrier3", "report", "done"})

SelectInv == TypeOK /\ PhaseOK /\ PlacedOK

\* The handshake chain and the barriers let every tasklet reach the end.
Done == \A t \in Tasklets : pc[t] = "done"
=============================================================================
