--------------------------- MODULE GroupHistogram ---------------------------
(***************************************************************************)
(* The shared histogram of HST-L/main.c.  The tasklets clear its bins in   *)
(* stripes and then count their elements into it, a mutex around every     *)
(* increment.  A barrier of the group's own, groupbar_wait(), stands       *)
(* before and after the clearing.  It is the algorithm of mybarrier_wait() *)
(* with the slots starting at 1, so its steps are those of SenseBarrier    *)
(* with SlotInit = 1 and Rounds = 2.  With NR_HISTO 1, as in the source,   *)
(* all tasklets form one group and the merge of the groups changes         *)
(* nothing.                                                                *)
(*                                                                         *)
(* groupbar_init() ends before any tasklet starts its first wait: tasklet  *)
(* 0 calls it before a mybarrier_wait().  Nothing else holds tasklet 0     *)
(* back: it is out of its first wait at once, and clears and counts while  *)
(* a tasklet that is late has yet to clear its stripe.                     *)
(***************************************************************************)
EXTENDS SenseBarrier, Integers, Sequences

CONSTANTS
  Bins,   \* bins of the arguments
  Inputs  \* what the tasklets may have to count: functions from a tasklet to its bins in order

ASSUME BinsAssumption == Bins \in Nat \ {0}
ASSUME InputsAssumption == \A f \in Inputs : f \in [Tasklets -> Seq(0 .. Bins - 1)]
ASSUME TwoWaits == Rounds = 2 /\ SlotInit = 1 /\ ~ InitFlag

VARIABLES
  input,   \* input[t]: the bins of t's elements, in order
  bin,     \* bin[t]: the next bin of t's stripe
  elem,    \* elem[t]: how many elements t has counted
  histo    \* the histogram: anything before it is cleared, here -1

gvars == <<input, bin, elem, histo>>

GInit ==
  /\ Init
  /\ input \in Inputs
  /\ bin = [t \in Tasklets |-> t]
  /\ elem = [t \in Tasklets |-> 0]
  /\ histo = [b \in 0 .. Bins - 1 |-> -1]

-----------------------------------------------------------------------------
\* mybarrier_wait() after the initialisation, message[], then the first wait;
\* the second wait when the stripe is done.
EnterWait(t) ==
  /\ pc[0] \notin InitLocations
  /\ left[t] = 1 => bin[t] >= Bins
  /\ Wait(t)
  /\ UNCHANGED gvars

InWait(t) == (Gate(t) \/ Snap(t) \/ Announce(t) \/ Poll(t)) /\ UNCHANGED gvars

LeaderInWait ==
  (InitSense \/ InitSlot \/ Scan \/ Flip) /\ UNCHANGED gvars

Clear(t) ==
  /\ pc[t] = "app" /\ left[t] = 1 /\ entered[t] = 1 /\ bin[t] < Bins
  /\ histo' = [histo EXCEPT ![bin[t]] = 0]
  /\ bin' = [bin EXCEPT ![t] = @ + N]
  /\ UNCHANGED <<vars, input, elem>>

\* Slip: the last element of a block is left out.
CountShort(t) ==
  /\ pc[t] = "app" /\ left[t] = 2 /\ elem[t] < Len(input[t])
  /\ histo' = [histo EXCEPT ![input[t][elem[t] + 1]] = IF elem[t] + 1 < Len(input[t]) THEN @ + 1 ELSE @]
  /\ elem' = [elem EXCEPT ![t] = @ + 1]
  /\ UNCHANGED <<vars, input, bin>>

\* An increment of histogram(), under my_mutex.
Count(t) ==
  /\ pc[t] = "app" /\ left[t] = 2 /\ elem[t] < Len(input[t])
  /\ histo' = [histo EXCEPT ![input[t][elem[t] + 1]] = @ + 1]
  /\ elem' = [elem EXCEPT ![t] = @ + 1]
  /\ UNCHANGED <<vars, input, bin>>

-----------------------------------------------------------------------------
\* Who was late stays in its second wait, and counts nothing.
Through ==
  \A t \in Tasklets :
    IF t \in late THEN pc[t] = "poll" /\ left[t] = 1
    ELSE pc[t] = "app" /\ left[t] = 2 /\ elem[t] = Len(input[t])

Of(t) == EnterWait(t) \/ InWait(t) \/ Clear(t) \/ Count(t)

GNext ==
  \/ LeaderInWait
  \/ \E t \in Tasklets : Of(t)
  \/ Through /\ UNCHANGED <<vars, gvars>>

GFairSpec ==
  /\ GInit /\ [][GNext]_<<vars, gvars>>
  /\ WF_<<vars, gvars>>(LeaderInWait)
  /\ \A t \in Tasklets : WF_<<vars, gvars>>(Of(t))

-----------------------------------------------------------------------------
(***************************************************************************)
(* The inductive invariant, together with SenseInv: the stripes are        *)
(* cleared between the two waits, and a bin that is clear holds what has   *)
(* been counted.                                                           *)
(***************************************************************************)
\* The elements in bin b among those that have been counted.
Counted(b) == UNION {{t} \X {k \in 1 .. elem[t] : input[t][k] = b} : t \in Tasklets}

GTypeOK ==
  /\ input \in [Tasklets -> Seq(0 .. Bins - 1)]
  /\ bin \in [Tasklets -> Nat] /\ elem \in [Tasklets -> Nat]
  /\ DOMAIN histo = 0 .. Bins - 1

HistogramInv ==
  /\ GTypeOK
  /\ \A t \in Tasklets :
       /\ bin[t] % N = t /\ elem[t] <= Len(input[t])
       /\ entered[t] = 2 => bin[t] >= Bins
       /\ elem[t] > 0 => left[t] = 2
  /\ late = {} => \A b \in 0 .. Bins - 1 :
       histo[b] = IF b < bin[b % N] THEN Cardinality(Counted(b)) ELSE -1

-----------------------------------------------------------------------------
(***************************************************************************)
(* No element is counted before every bin is clear, and none is lost:      *)
(* when all tasklets are through, a bin holds the number of its elements.  *)
(* Both are true while nobody is late (HST-L/main.c:109-133).              *)
(***************************************************************************)
ClearedBeforeCounted ==
  (\E t \in Tasklets : elem[t] > 0) => \A t \in Tasklets : bin[t] >= Bins

CountOf(b) ==
  Cardinality(UNION {{t} \X {k \in DOMAIN input[t] : input[t][k] = b} : t \in Tasklets})

HistogramComplete == Through /\ late = {} => \A b \in 0 .. Bins - 1 : histo[b] = CountOf(b)
=============================================================================
