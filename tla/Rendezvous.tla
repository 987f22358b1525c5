----------------------------- MODULE Rendezvous -----------------------------
(***************************************************************************)
(* What a caller of ime_barrier_wait() is promised by                      *)
(* src/ime-rt/barrier.h, with no mutex, no counters and no leader field:   *)
(*                                                                         *)
(*   "block until bar->init many threads have called this function"        *)
(*   "true for exactly one of the calling threads and false otherwise"     *)
(*                                                                         *)
(* Tasklets gather until Quorum of them wait; the last one to arrive       *)
(* releases the whole batch in one step and one member of the batch is     *)
(* chosen to win.  A released tasklet returns in its own time, and a later *)
(* batch may gather while members of an earlier one have yet to return.    *)
(***************************************************************************)
EXTENDS Naturals, FiniteSets

CONSTANTS
  Threads,  \* the tasklets that call the barrier
  Quorum    \* the size of a batch

VARIABLES
  phase,    \* phase[t]: where tasklet t is
  wins,     \* released tasklets whose call is going to return TRUE
  result    \* result[t]: what the last call of t returned

vars == <<phase, wins, result>>

Phases == {"idle", "waiting", "released"}

Waiting == {t \in Threads : phase[t] = "waiting"}

Init ==
  /\ phase = [t \in Threads |-> "idle"]
  /\ wins = {}
  /\ result = [t \in Threads |-> FALSE]

\* t joins a batch that is still incomplete after it.
Gather(t) ==
  /\ phase[t] = "idle"
  /\ Cardinality(Waiting) + 1 < Quorum
  /\ phase' = [phase EXCEPT ![t] = "waiting"]
  /\ UNCHANGED <<wins, result>>

\* t completes the batch: everybody is released and one member wins.
Open(t) ==
  /\ phase[t] = "idle"
  /\ Cardinality(Waiting) + 1 = Quorum
  /\ phase' = [s \in Threads |->
                 IF s \in Waiting \cup {t} THEN "released" ELSE phase[s]]
  /\ \E w \in Waiting \cup {t} : wins' = wins \cup {w}
  /\ UNCHANGED result

\* A released tasklet returns from the call.
Leave(t) ==
  /\ phase[t] = "released"
  /\ phase' = [phase EXCEPT ![t] = "idle"]
  /\ result' = [result EXCEPT ![t] = t \in wins]
  /\ wins' = wins \ {t}

Next == \E t \in Threads : Gather(t) \/ Open(t) \/ Leave(t)

Spec == Init /\ [][Next]_vars
=============================================================================
