---------------------------- MODULE EpochBarrier ----------------------------
(***************************************************************************)
(* The barrier of mbench/main.c: a tasklet announces the round it waits    *)
(* for, which it computes from the round that was released last, and       *)
(* tasklet 0 releases the round when all have announced it.  The words are *)
(* 0 when the subkernel starts, and tasklet 0 sets them to 0 again while   *)
(* the others spin through a loop of 100 iterations: an announcement made  *)
(* before that is over may be lost, and then nobody gets past the barrier. *)
(***************************************************************************)
EXTENDS Integers

CONSTANTS
  N,      \* TASKLETS
  Rounds  \* waits of a tasklet

Tasklets == 0 .. N - 1

VARIABLES
  pc,       \* pc[t]
  release,  \* gbar.release_epoch
  arrive,   \* arrive[t]: gbar.arrive[t]
  want,     \* want[t]
  i,        \* the loop variable of tasklet 0
  entered,  \* entered[t]: waits that t has started
  left      \* left[t]: waits that t has returned from

vars == <<pc, release, arrive, want, i, entered, left>>

Init ==
  /\ pc = [t \in Tasklets |-> IF t = 0 THEN "slots" ELSE "app"]
  /\ release = 0 /\ i = 0
  /\ arrive = [t \in Tasklets |-> 0]
  /\ want = arrive /\ entered = arrive /\ left = arrive

Goto(t, l) == pc' = [pc EXCEPT ![t] = l]

\* mybarrier_init(), by tasklet 0.
InitSlot ==
  /\ pc[0] = "slots"
  /\ arrive' = [arrive EXCEPT ![i] = 0]
  /\ IF i + 1 < N THEN i' = i + 1 /\ UNCHANGED pc ELSE i' = 0 /\ Goto(0, "release")
  /\ UNCHANGED <<release, want, entered, left>>

InitRelease ==
  /\ pc[0] = "release"
  /\ release' = 0
  /\ Goto(0, "app")
  /\ UNCHANGED <<arrive, want, i, entered, left>>

Want(t) == release + 1

\* mybarrier_wait(): the round is read, then announced.
Enter(t) ==
  /\ pc[t] = "app" /\ entered[t] < Rounds
  /\ want' = [want EXCEPT ![t] = Want(t)]
  /\ entered' = [entered EXCEPT ![t] = @ + 1]
  /\ Goto(t, "announce")
  /\ UNCHANGED <<release, arrive, i, left>>

Announce(t) ==
  /\ pc[t] = "announce"
  /\ arrive' = [arrive EXCEPT ![t] = want[t]]
  /\ Goto(t, IF t = 0 THEN "scan" ELSE "poll")
  /\ UNCHANGED <<release, want, i, entered, left>>

Scan ==
  /\ pc[0] = "scan" /\ arrive[i] = want[0]
  /\ IF i + 1 < N THEN i' = i + 1 /\ UNCHANGED pc ELSE i' = 0 /\ Goto(0, "open")
  /\ UNCHANGED <<release, arrive, want, entered, left>>

Open ==
  /\ pc[0] = "open"
  /\ release' = want[0]
  /\ left' = [left EXCEPT ![0] = @ + 1]
  /\ Goto(0, "app")
  /\ UNCHANGED <<arrive, want, i, entered>>

Poll(t) ==
  /\ pc[t] = "poll" /\ release = want[t]
  /\ left' = [left EXCEPT ![t] = @ + 1]
  /\ Goto(t, "app")
  /\ UNCHANGED <<release, arrive, want, i, entered>>

-----------------------------------------------------------------------------
Leader == InitSlot \/ InitRelease \/ Scan \/ Open
Tasklet(t) == Enter(t) \/ Announce(t) \/ Poll(t)

\* t has announced the first round, and tasklet 0 has cleared its slot since.
Lost(t) ==
  /\ pc[t] = "poll" /\ left[t] = release
  /\ entered[t] = release + 1 /\ want[t] = release + 1 /\ arrive[t] = release

Through == \A t \in Tasklets : left[t] = Rounds

\* All are through, or nobody moves any more.
Ended == Through \/ (pc[0] = "scan" /\ Lost(i))

Next ==
  \/ Leader
  \/ \E t \in Tasklets : Tasklet(t)
  \/ Ended /\ UNCHANGED vars

Spec == Init /\ [][Next]_vars

FairSpec == Spec /\ WF_vars(Leader) /\ \A t \in Tasklets : WF_vars(Tasklet(t))

-----------------------------------------------------------------------------
\* No tasklet leaves a round before all have entered it.
EpochIntegrity == \A s, t \in Tasklets : left[t] <= entered[s]

(***************************************************************************)
(* The inductive invariant.  The round released last is what tasklet 0 has *)
(* left; any other tasklet is behind its wait for the next one, has        *)
(* announced it, with or without its announcement being lost, or has yet   *)
(* to see the release.                                                     *)
(***************************************************************************)
TypeOK ==
  /\ pc \in [Tasklets -> {"slots", "release", "app", "announce", "scan", "open", "poll"}]
  /\ release \in Nat /\ i \in Tasklets
  /\ arrive \in [Tasklets -> Nat] /\ want \in [Tasklets -> Nat]
  /\ entered \in [Tasklets -> Nat] /\ left \in [Tasklets -> Nat]

Booting == pc[0] \in {"slots", "release"}

\* The words are cleared before the first release.
BootOK == Booting => release = 0 /\ entered[0] = 0 /\ left[0] = 0

LeaderOK ==
  /\ pc[0] # "poll"
  /\ pc[0] \notin {"slots", "scan"} => i = 0
  /\ pc[0] = "app" => entered[0] = release /\ left[0] = release
  /\ pc[0] \in {"announce", "scan", "open"} =>
       entered[0] = release + 1 /\ left[0] = release /\ want[0] = release + 1
  /\ pc[0] = "scan" => \A t \in Tasklets : t < i => arrive[t] = release + 1
  /\ pc[0] = "open" => \A t \in Tasklets : arrive[t] = release + 1

Behind(t) ==
  /\ left[t] = release /\ arrive[t] = release
  /\ \/ pc[t] = "app" /\ entered[t] = release
     \/ pc[t] = "announce" /\ entered[t] = release + 1 /\ want[t] = release + 1

Ahead(t) ==
  /\ pc[t] = "poll" /\ left[t] = release
  /\ entered[t] = release + 1 /\ want[t] = release + 1 /\ arrive[t] = release + 1

Freed(t) ==
  /\ pc[t] = "poll" /\ left[t] + 1 = release
  /\ entered[t] = release /\ want[t] = release /\ arrive[t] = release

OthersOK == \A t \in Tasklets \ {0} : Behind(t) \/ Ahead(t) \/ Freed(t) \/ Lost(t)

EpochInv == TypeOK /\ BootOK /\ LeaderOK /\ OthersOK
=============================================================================
