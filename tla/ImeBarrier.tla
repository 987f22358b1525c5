----------------------------- MODULE ImeBarrier -----------------------------
(***************************************************************************)
(* The barrier of the subkernel runtime, src/ime-rt/barrier.c.  Tasklets   *)
(* call ime_barrier_wait() again and again.  Every access to the barrier   *)
(* object is made inside mutex_lock(bar->lock) .. mutex_unlock(bar->lock); *)
(* a critical section is one action here, and the steps between two        *)
(* sections are where tasklets interleave.  An iteration of a spin loop    *)
(* that finds its condition false changes nothing, so it is the guard of   *)
(* the action that ends the loop.                                          *)
(***************************************************************************)
EXTENDS Integers, FiniteSets

CONSTANTS
  Threads,   \* ids, as me() returns them, of the tasklets using the barrier
  InitCount  \* bar->init

NoLeader == 65535   \* bar->leader = 0xFFFF

ASSUME ThreadsAssumption ==
  /\ Threads \subseteq 0..23
  /\ IsFiniteSet(Threads)

\* Fewer callers than bar->init could never open the barrier.
ASSUME InitAssumption == InitCount \in 1..Cardinality(Threads)

VARIABLES
  pc,       \* pc[t]: where t is in ime_barrier_wait()
  count,    \* bar->count
  done,     \* bar->done
  leader,   \* bar->leader
  result    \* result[t]: what the last ime_barrier_wait() of t returned

vars == <<pc, count, done, leader, result>>

(***************************************************************************)
(* "idle"   outside the barrier                                            *)
(* "enter"  in the do-while loop of ime_enter_barrier                      *)
(* "wait"   polling bar->count in ime_wait_barrier                         *)
(* "done"   saw the barrier full, has not incremented bar->done            *)
(* "leave"  about to compare bar->leader with its id in ime_leave_barrier  *)
(* "lead"   the leader, polling bar->done                                  *)
(* "reset"  the leader, about to reset the barrier                         *)
(***************************************************************************)
Locations == {"idle", "enter", "wait", "done", "leave", "lead", "reset"}

At(l) == {t \in Threads : pc[t] = l}

Init ==
  /\ pc = [t \in Threads |-> "idle"]
  /\ count = 0
  /\ done = 0
  /\ leader = NoLeader
  /\ result = [t \in Threads |-> FALSE]

Call(t) ==
  /\ pc[t] = "idle"
  /\ pc' = [pc EXCEPT ![t] = "enter"]
  /\ UNCHANGED <<count, done, leader, result>>

\* Slip: a tasklet enters a full barrier instead of waiting for its reset.
EnterFull(t) ==
  /\ pc[t] = "enter"
  /\ leader' = IF t < leader THEN t ELSE leader
  /\ count' = count + 1
  /\ pc' = [pc EXCEPT ![t] = "wait"]
  /\ UNCHANGED <<done, result>>

\* The section that ends ime_enter_barrier's loop: count is below init.
Enter(t) ==
  /\ pc[t] = "enter"
  /\ count # InitCount
  /\ leader' = IF t < leader THEN t ELSE leader
  /\ count' = count + 1
  /\ pc' = [pc EXCEPT ![t] = "wait"]
  /\ UNCHANGED <<done, result>>

\* The section of ime_wait_barrier that reads count == init.
SeeFull(t) ==
  /\ pc[t] = "wait"
  /\ count = InitCount
  /\ pc' = [pc EXCEPT ![t] = "done"]
  /\ UNCHANGED <<count, done, leader, result>>

CountDone(t) ==
  /\ pc[t] = "done"
  /\ done' = done + 1
  /\ pc' = [pc EXCEPT ![t] = "leave"]
  /\ UNCHANGED <<count, leader, result>>

\* Slip: an empty leader field counts as being the leader.
LeadIfUnset(t) ==
  /\ pc[t] = "leave"
  /\ t <= leader
  /\ pc' = [pc EXCEPT ![t] = "lead"]
  /\ UNCHANGED <<count, done, leader, result>>

\* is_leader = bar->leader == id: a follower returns, the leader stays.
Lead(t) ==
  /\ pc[t] = "leave"
  /\ leader = t
  /\ pc' = [pc EXCEPT ![t] = "lead"]
  /\ UNCHANGED <<count, done, leader, result>>

Follow(t) ==
  /\ pc[t] = "leave"
  /\ leader # t
  /\ pc' = [pc EXCEPT ![t] = "idle"]
  /\ result' = [result EXCEPT ![t] = FALSE]
  /\ UNCHANGED <<count, done, leader>>

\* Slip: the leader does not wait for the others to be done.
LeadAtOnce(t) ==
  /\ pc[t] = "lead"
  /\ pc' = [pc EXCEPT ![t] = "reset"]
  /\ UNCHANGED <<count, done, leader, result>>

\* The leader's section that reads done == init.
SeeAllDone(t) ==
  /\ pc[t] = "lead"
  /\ done = InitCount
  /\ pc' = [pc EXCEPT ![t] = "reset"]
  /\ UNCHANGED <<count, done, leader, result>>

\* Slip: the reset forgets the leader field.
ResetKeepsLeader(t) ==
  /\ pc[t] = "reset"
  /\ count' = 0
  /\ done' = 0
  /\ pc' = [pc EXCEPT ![t] = "idle"]
  /\ result' = [result EXCEPT ![t] = TRUE]
  /\ UNCHANGED leader

\* Slip: the reset forgets the done field.
ResetKeepsDone(t) ==
  /\ pc[t] = "reset"
  /\ count' = 0
  /\ leader' = NoLeader
  /\ pc' = [pc EXCEPT ![t] = "idle"]
  /\ result' = [result EXCEPT ![t] = TRUE]
  /\ UNCHANGED done

Reset(t) ==
  /\ pc[t] = "reset"
  /\ count' = 0
  /\ done' = 0
  /\ leader' = NoLeader
  /\ pc' = [pc EXCEPT ![t] = "idle"]
  /\ result' = [result EXCEPT ![t] = TRUE]

Step(t) ==
  \/ Enter(t) \/ SeeFull(t) \/ CountDone(t)
  \/ Lead(t) \/ Follow(t) \/ SeeAllDone(t) \/ Reset(t)

Next == \E t \in Threads : Call(t) \/ Step(t)

Spec == Init /\ [][Next]_vars

(***************************************************************************)
(* The DPU issues instructions of the running tasklets in round-robin      *)
(* order, so no tasklet stops for ever at an enabled step.  The            *)
(* subkernels that use the barrier (NW, MLP, chacha-bench) come back to it *)
(* round after round from every tasklet: Call is fair, too.                *)
(***************************************************************************)
FairSpec == Spec /\ \A t \in Threads : WF_vars(Call(t)) /\ WF_vars(Step(t))

-----------------------------------------------------------------------------
TypeOK ==
  /\ pc \in [Threads -> Locations]
  /\ count \in 0..InitCount
  /\ done \in 0..InitCount
  /\ leader \in Threads \cup {NoLeader}
  /\ result \in [Threads -> BOOLEAN]

(***************************************************************************)
(* The parts of the inductive invariant.                                   *)
(***************************************************************************)
\* count - done is the number of tasklets that have entered and still have
\* to count themselves as done.
CountsAgree == count - done = Cardinality(At("wait") \cup At("done"))

\* Until the batch is complete nobody has got past the wait loop.
NobodyEarly ==
  count # InitCount => done = 0 /\ At("done") \cup At("lead") \cup At("reset") = {}

\* The leader field names a member of the current batch that has not returned.
LeaderInside ==
  /\ count = 0 <=> leader = NoLeader
  /\ leader # NoLeader =>
       IF count = InitCount
       THEN pc[leader] \in {"wait", "done", "leave", "lead", "reset"}
       ELSE pc[leader] = "wait"

\* A tasklet that took the leader's branch is the one in the leader field,
\* and it resets only after everyone counted itself as done.
LeaderRole ==
  \A t \in Threads :
    /\ pc[t] \in {"lead", "reset"} => leader = t
    /\ pc[t] = "reset" => done = InitCount

BarrierInv ==
  /\ TypeOK
  /\ CountsAgree
  /\ NobodyEarly
  /\ LeaderInside
  /\ LeaderRole

\* When a leader is about to clear the barrier no tasklet of the batch still
\* polls count or has yet to increment done (barrier.c:69-83): clearing
\* earlier would strand it in the wait loop or count it in the next batch.
ResetIsSafe == At("reset") # {} => At("wait") \cup At("done") = {}

\* At most one tasklet at a time is in the leader's branch (barrier.c:65-83).
OneLeader ==
  \A s, t \in At("lead") \cup At("reset") : s = t

(***************************************************************************)
(* Every full batch is released: whoever was counted returns, and the      *)
(* barrier opens again for those that spin before it (barrier.c:14-24).    *)
(* Nothing is promised to a spinning tasklet beyond that: with more        *)
(* callers than bar->init the others may fill the barrier each time before *)
(* it looks again.                                                         *)
(***************************************************************************)
EveryBatchReturns ==
  /\ \A t \in Threads : pc[t] = "wait" ~> pc[t] = "idle"
  /\ count = InitCount ~> count = 0

(***************************************************************************)
(* The barrier implements Rendezvous.  A tasklet that has entered waits    *)
(* while the batch is incomplete and is released when count reaches init;  *)
(* a released tasklet wins exactly if it is the one in the leader field.   *)
(***************************************************************************)
Released(t) ==
  \/ pc[t] \in {"done", "leave", "lead", "reset"}
  \/ pc[t] = "wait" /\ count = InitCount

PhaseBar ==
  [t \in Threads |->
     IF Released(t) THEN "released"
     ELSE IF pc[t] = "wait" THEN "waiting" ELSE "idle"]

WinsBar == {t \in Threads : Released(t) /\ leader = t}

R == INSTANCE Rendezvous WITH
       Quorum <- InitCount, phase <- PhaseBar, wins <- WinsBar

\* Every behaviour of the barrier is one barrier.h:29-34 promises.
Promise == R!Spec
=============================================================================
