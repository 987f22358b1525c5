---------------------------- MODULE SenseBarrier ----------------------------
(***************************************************************************)
(* The lock-free barrier of the benchmark subkernels, mybarrier_init() and *)
(* mybarrier_wait() of support/mc_sync.h.  It exists in two versions.  The *)
(* one in fourteen of the applications (BFS ... VA) has InitFlag = FALSE   *)
(* and SlotInit = 1; the one under MLP has an init_done flag and starts    *)
(* the slots at the value of sense: InitFlag = TRUE and SlotInit = 0.      *)
(* Every action is one access to the volatile barrier object.              *)
(*                                                                         *)
(* As in the applications, tasklet 0 alone calls mybarrier_init(), then    *)
(* every tasklet calls mybarrier_wait() Rounds times.  The statics are 0   *)
(* when the subkernel starts: ime_replace_sk wipes WRAM before loading it. *)
(*                                                                         *)
(* Slots that start at 1 let tasklet 0 out of its first wait at once.  A   *)
(* tasklet that has not read sense by then is late, and stays one wait     *)
(* behind the others for good.                                             *)
(***************************************************************************)
EXTENDS Naturals, FiniteSets

CONSTANTS
  N,          \* NR_TASKLETS
  Rounds,     \* how many times a tasklet calls mybarrier_wait()
  SlotInit,   \* what mybarrier_init() stores into arrive[i].v
  InitFlag    \* whether the version has init_done

ASSUME NAssumption == N \in Nat \ {0}
ASSUME RoundsAssumption == Rounds \in Nat
ASSUME SlotInitAssumption == SlotInit \in {0, 1}
ASSUME FlagAssumption == InitFlag \in BOOLEAN

Tasklets == 0 .. N-1

VARIABLES
  pc,        \* pc[t]: where t is in mybarrier_init() or mybarrier_wait()
  sense,     \* mc_barrier.sense
  arrive,    \* arrive[t]: mc_barrier.arrive[t].v
  initDone,  \* mc_barrier.init_done
  nextS,     \* nextS[t]: the local nextS of t
  i,         \* the loop variable of tasklet 0
  entered,   \* entered[t]: calls of mybarrier_wait() that t has started
  left,      \* left[t]: calls of mybarrier_wait() that t has returned from
  late       \* history: who had not read sense when it was first flipped

vars == <<pc, sense, arrive, initDone, nextS, i, entered, left, late>>
shared == <<sense, arrive, initDone>>
counts == <<entered, left, late>>

(***************************************************************************)
(* "sense", "unflag", "slots", "flag": the statements of mybarrier_init(). *)
(* "app": between two calls.  "gate": polls init_done.  "snap": computes   *)
(* nextS.  "announce": stores it into its slot.  "scan", "flip": tasklet 0 *)
(* waits for all slots and flips sense.  "poll": the others wait for that. *)
(***************************************************************************)
Locations == {"sense", "unflag", "slots", "flag",
              "app", "gate", "snap", "announce", "scan", "flip", "poll"}

Init ==
  /\ pc = [t \in Tasklets |-> IF t = 0 THEN "sense" ELSE "app"]
  /\ sense = 0
  /\ arrive = [t \in Tasklets |-> 0]
  /\ initDone = 0
  /\ nextS = [t \in Tasklets |-> 0]
  /\ i = 0
  /\ entered = [t \in Tasklets |-> 0]
  /\ left = [t \in Tasklets |-> 0]
  /\ late = {}

Goto(t, l) == pc' = [pc EXCEPT ![t] = l]

-----------------------------------------------------------------------------
(* mybarrier_init(), called by tasklet 0. *)

InitSense ==
  /\ pc[0] = "sense"
  /\ sense' = 0
  /\ Goto(0, IF InitFlag THEN "unflag" ELSE "slots")
  /\ UNCHANGED <<arrive, initDone, nextS, i, counts>>

InitUnflag ==
  /\ pc[0] = "unflag"
  /\ initDone' = 0
  /\ Goto(0, "slots")
  /\ UNCHANGED <<sense, arrive, nextS, i, counts>>

InitSlot ==
  /\ pc[0] = "slots"
  /\ arrive' = [arrive EXCEPT ![i] = SlotInit]
  /\ IF i + 1 < N
     THEN i' = i + 1 /\ UNCHANGED pc
     ELSE i' = 0 /\ Goto(0, IF InitFlag THEN "flag" ELSE "app")
  /\ UNCHANGED <<sense, initDone, nextS, counts>>

\* Slip: the initialisation never raises the flag.
InitForgetsFlag ==
  /\ pc[0] = "flag"
  /\ Goto(0, "app")
  /\ UNCHANGED <<shared, nextS, i, counts>>

InitRaiseFlag ==
  /\ pc[0] = "flag"
  /\ initDone' = 1
  /\ Goto(0, "app")
  /\ UNCHANGED <<sense, arrive, nextS, i, counts>>

-----------------------------------------------------------------------------
(* mybarrier_wait(). *)

Wait(t) ==
  /\ pc[t] = "app"
  /\ entered[t] < Rounds
  /\ entered' = [entered EXCEPT ![t] = @ + 1]
  /\ Goto(t, "gate")
  /\ UNCHANGED <<shared, nextS, i, left, late>>

Gate(t) ==
  /\ pc[t] = "gate"
  /\ InitFlag => initDone # 0
  /\ Goto(t, "snap")
  /\ UNCHANGED <<shared, nextS, i, counts>>

Snap(t) ==
  /\ pc[t] = "snap"
  /\ nextS' = [nextS EXCEPT ![t] = 1 - sense]
  /\ Goto(t, "announce")
  /\ UNCHANGED <<shared, i, counts>>

Announce(t) ==
  /\ pc[t] = "announce"
  /\ arrive' = [arrive EXCEPT ![t] = nextS[t]]
  /\ Goto(t, IF t = 0 THEN "scan" ELSE "poll")
  /\ UNCHANGED <<sense, initDone, nextS, i, counts>>

\* Slip: the scan stops one slot short.
ScanShort ==
  /\ pc[0] = "scan"
  /\ arrive[i] = nextS[0]
  /\ IF i + 2 < N
     THEN i' = i + 1 /\ UNCHANGED pc
     ELSE i' = 0 /\ Goto(0, "flip")
  /\ UNCHANGED <<shared, nextS, counts>>

Scan ==
  /\ pc[0] = "scan"
  /\ arrive[i] = nextS[0]
  /\ IF i + 1 < N
     THEN i' = i + 1 /\ UNCHANGED pc
     ELSE i' = 0 /\ Goto(0, "flip")
  /\ UNCHANGED <<shared, nextS, counts>>

Flip ==
  /\ pc[0] = "flip"
  /\ sense' = nextS[0]
  /\ left' = [left EXCEPT ![0] = @ + 1]
  /\ late' = IF left[0] = 0 THEN {t \in Tasklets : pc[t] \in {"app", "gate", "snap"}} ELSE late
  /\ Goto(0, "app")
  /\ UNCHANGED <<arrive, initDone, nextS, i, entered>>

Poll(t) ==
  /\ pc[t] = "poll"
  /\ sense = nextS[t]
  /\ left' = [left EXCEPT ![t] = @ + 1]
  /\ Goto(t, "app")
  /\ UNCHANGED <<shared, nextS, i, entered, late>>

-----------------------------------------------------------------------------
Tasklet0 ==
  InitSense \/ InitUnflag \/ InitSlot \/ InitRaiseFlag \/ Scan \/ Flip

Tasklet(t) == Wait(t) \/ Gate(t) \/ Snap(t) \/ Announce(t) \/ Poll(t)

\* How many waits of tasklet 0 were over when t began its first.
Lag(t) == IF t \in late THEN 1 ELSE 0

\* All waits are over but the last of a late tasklet, which nobody answers.
Returned == \A t \in Tasklets : left[t] + Lag(t) = Rounds

\* The tasklets go on to the rest of their main().
Finished ==
  /\ Returned
  /\ UNCHANGED vars

Next == Tasklet0 \/ (\E t \in Tasklets : Tasklet(t)) \/ Finished

Spec == Init /\ [][Next]_vars

\* Round-robin issue: no tasklet stops for ever at an enabled access.
FairSpec ==
  Spec /\ WF_vars(Tasklet0) /\ \A t \in Tasklets : WF_vars(Tasklet(t))

-----------------------------------------------------------------------------
TypeOK ==
  /\ pc \in [Tasklets -> Locations]
  /\ sense \in {0, 1}
  /\ arrive \in [Tasklets -> {0, 1}]
  /\ initDone \in {0, 1}
  /\ nextS \in [Tasklets -> {0, 1}]
  /\ i \in Tasklets
  /\ entered \in [Tasklets -> 0..Rounds]
  /\ left \in [Tasklets -> 0..Rounds]
  /\ late \subseteq Tasklets

(***************************************************************************)
(* A tasklet returns from its k-th wait only after every tasklet has       *)
(* started its k-th wait: what each application relies on when it reads,   *)
(* after a wait, what the others wrote before it (RED sums message[], SEL  *)
(* reads message_partial_count).  So it is while nobody was late; the k-th *)
(* wait of a tasklet that was late meets the (k + 1)-st of the others, in  *)
(* every round (mc_sync.h:38-60).                                          *)
(***************************************************************************)
RoundIntegrity == \A s, t \in Tasklets : left[t] + Lag(t) <= entered[s] + Lag(s)

\* Nobody is late in the version whose slots start at the value of sense.
Punctual == SlotInit = 0 => late = {}

(***************************************************************************)
(* The inductive invariant behind RoundIntegrity.  It needs that a tasklet *)
(* cannot announce itself to slots that are then set back to 0.            *)
(***************************************************************************)
Sound == SlotInit = 0 => InitFlag

InitLocations == {"sense", "unflag", "slots", "flag"}

\* Where tasklet 0 is in a round.
LeaderOK ==
  /\ entered[0] = IF pc[0] \in InitLocations \cup {"app"} THEN left[0] ELSE left[0] + 1
  /\ pc[0] \in InitLocations =>
       left[0] = 0 /\ sense = 0 /\ (InitFlag => initDone = 0)
  /\ left[0] = 0 => sense = 0 /\ late = {}
  /\ 0 \notin late
  /\ pc[0] # "poll"
  /\ pc[0] \in {"announce", "scan", "flip"} => nextS[0] = 1 - sense
  /\ pc[0] \notin {"slots", "scan"} => i = 0

\* t has not announced itself in the round tasklet 0 is in.  Before the
\* first flip its slot may say that it has.
Behind(t) ==
  /\ pc[t] \in {"app", "gate", "snap", "announce"}
  /\ left[t] + Lag(t) = left[0]
  /\ entered[t] = IF pc[t] = "app" THEN left[t] ELSE left[t] + 1
  /\ pc[t] = "announce" => nextS[t] = 1 - sense
  /\ (SlotInit = 1 /\ left[0] = 0) \/ arrive[t] = sense

\* t has announced itself and waits for the flip.
Ahead(t) ==
  /\ pc[t] = "poll"
  /\ left[t] + Lag(t) = left[0]
  /\ entered[t] = left[t] + 1
  /\ nextS[t] = 1 - sense
  /\ arrive[t] = nextS[t]

\* The flip has happened and t has yet to see it, or even to announce itself.
Freed(t) ==
  /\ pc[t] \in {"announce", "poll"}
  /\ left[t] + Lag(t) + 1 = left[0]
  /\ entered[t] = left[t] + 1
  /\ nextS[t] = sense
  /\ arrive[t] = nextS[t]

OthersOK == \A t \in Tasklets \ {0} : Behind(t) \/ Ahead(t) \/ Freed(t)

\* Slots the scan has passed hold the value it looks for.
ScanOK ==
  /\ pc[0] = "scan" => \A t \in Tasklets : t < i => arrive[t] = nextS[0]
  /\ pc[0] = "flip" => \A t \in Tasklets : arrive[t] = nextS[0]

\* With init_done nobody is in a wait before the initialisation is over.
GateOK ==
  InitFlag /\ pc[0] \in InitLocations =>
    \A t \in Tasklets \ {0} : pc[t] \in {"app", "gate"}

SenseInv == TypeOK /\ LeaderOK /\ OthersOK /\ ScanOK /\ GateOK /\ Punctual
=============================================================================
