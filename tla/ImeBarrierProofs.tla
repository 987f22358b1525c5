-------------------------- MODULE ImeBarrierProofs --------------------------
(***************************************************************************)
(* Proofs about ImeBarrier, for any set of tasklets and any bar->init that *)
(* the assumptions of that module allow.                                   *)
(***************************************************************************)
EXTENDS ImeBarrier, FiniteSetTheorems, TLAPS

\* The tasklets that have entered and have not counted themselves as done.
Pending == At("wait") \cup At("done")

LEMMA SubsetsAreFinite ==
  ASSUME NEW S \in SUBSET Threads
  PROVE  IsFiniteSet(S) /\ Cardinality(S) \in Nat
BY ThreadsAssumption, FS_Subset, FS_CardinalityType

LEMMA ThreadsAreIds == \A t \in Threads : t \in Nat /\ t < NoLeader
BY ThreadsAssumption DEF NoLeader

LEMMA InitCountIsNat == InitCount \in Nat /\ InitCount > 0
<1>1. Cardinality(Threads) \in Nat
  BY ThreadsAssumption, FS_CardinalityType
<1>2. QED
  BY <1>1, InitAssumption

\* The reset finds nobody pending: this is where the counters pay off.
LEMMA ResetFindsNoPending ==
  ASSUME BarrierInv, NEW t \in Threads, pc[t] = "reset"
  PROVE  count = InitCount /\ done = InitCount /\ Pending = {}
<1>1. done = InitCount
  BY DEF BarrierInv, LeaderRole
<1>2. Pending \in SUBSET Threads
  BY DEF Pending, At
<1>3. IsFiniteSet(Pending) /\ Cardinality(Pending) \in Nat
  BY <1>2, SubsetsAreFinite
<1>4. count \in 0..InitCount /\ count - done = Cardinality(Pending)
  BY DEF BarrierInv, TypeOK, CountsAgree, Pending
<1>5. count = InitCount /\ Cardinality(Pending) = 0
  BY <1>1, <1>3, <1>4, InitCountIsNat
<1>6. QED
  BY <1>1, <1>3, <1>5, FS_EmptySet

LEMMA InitEstablishesInv == Init => BarrierInv
<1> SUFFICES ASSUME Init PROVE BarrierInv
  OBVIOUS
<1>1. TypeOK
  BY InitCountIsNat DEF Init, TypeOK, Locations
<1>2. Pending = {}
  BY DEF Init, Pending, At
<1>3. CountsAgree
  BY <1>2, FS_EmptySet DEF Init, CountsAgree, Pending
<1>4. NobodyEarly /\ LeaderInside /\ LeaderRole
  BY DEF Init, NobodyEarly, LeaderInside, LeaderRole, At
<1>5. QED
  BY <1>1, <1>3, <1>4 DEF BarrierInv

\* A tasklet that enters becomes pending.
LEMMA EnterPreservesInv ==
  ASSUME BarrierInv, NEW t \in Threads, Enter(t)
  PROVE  BarrierInv'
<1> USE DEF BarrierInv, Enter
<1>1. done = 0 /\ At("done") \cup At("lead") \cup At("reset") = {}
  BY DEF NobodyEarly
<1>2. TypeOK'
  BY InitCountIsNat DEF TypeOK, Locations
<1>3. leader' \in Threads /\ pc'[leader'] = "wait"
  <2>1. CASE leader = NoLeader
    BY <2>1, ThreadsAreIds DEF TypeOK, NoLeader
  <2>2. CASE leader # NoLeader
    BY <2>2 DEF TypeOK, LeaderInside
  <2>3. QED
    BY <2>1, <2>2
<1>4. CountsAgree'
  <2>1. Pending' = Pending \cup {t} /\ t \notin Pending
    BY DEF TypeOK, Pending, At
  <2>2. Pending \in SUBSET Threads
    BY DEF Pending, At
  <2>3. IsFiniteSet(Pending) /\ Cardinality(Pending) \in Nat
    BY <2>2, SubsetsAreFinite
  <2>4. Cardinality(Pending') = Cardinality(Pending) + 1
    BY <2>1, <2>3, FS_AddElement
  <2>5. QED
    BY <2>3, <2>4 DEF TypeOK, CountsAgree, Pending
<1>5. NobodyEarly'
  BY <1>1 DEF NobodyEarly, TypeOK, At
<1>6. LeaderInside'
  BY <1>3, ThreadsAreIds DEF LeaderInside, TypeOK, NoLeader
<1>7. LeaderRole'
  BY <1>1 DEF LeaderRole, TypeOK, At
<1>8. QED
  BY <1>2, <1>4, <1>5, <1>6, <1>7

\* The steps that leave the set of pending tasklets and the counters alone.
LEMMA QuietStepPreservesInv ==
  ASSUME BarrierInv, NEW t \in Threads,
         Call(t) \/ SeeFull(t) \/ Lead(t) \/ Follow(t) \/ SeeAllDone(t)
  PROVE  BarrierInv'
<1> USE DEF BarrierInv
<1>1. TypeOK'
  BY DEF TypeOK, Locations, Call, SeeFull, Lead, Follow, SeeAllDone
<1>2. UNCHANGED <<count, done, leader>>
  BY DEF Call, SeeFull, Lead, Follow, SeeAllDone
<1>3. CountsAgree'
  <2>1. Pending' = Pending
    BY DEF TypeOK, Pending, At, Call, SeeFull, Lead, Follow, SeeAllDone
  <2>2. QED
    BY <1>2, <2>1 DEF CountsAgree, Pending
<1>4. NobodyEarly'
  <2> SUFFICES ASSUME count # InitCount
               PROVE  At("done")' \cup At("lead")' \cup At("reset")' = {}
    BY <1>2 DEF NobodyEarly, At
  <2>1. At("done") \cup At("lead") \cup At("reset") = {}
    BY DEF NobodyEarly
  <2>2. ~ Lead(t)
    BY ThreadsAreIds DEF Lead, LeaderInside, TypeOK, NoLeader
  <2>3. QED
    BY <2>1, <2>2 DEF TypeOK, At, Call, SeeFull, Follow, SeeAllDone
<1>5. LeaderInside'
  BY <1>2 DEF LeaderInside, TypeOK, Call, SeeFull, Lead, Follow, SeeAllDone
<1>6. LeaderRole'
  BY <1>2 DEF LeaderRole, TypeOK, Call, SeeFull, Lead, Follow, SeeAllDone
<1>7. QED
  BY <1>1, <1>3, <1>4, <1>5, <1>6

\* A tasklet that counts itself as done stops being pending.
LEMMA CountDonePreservesInv ==
  ASSUME BarrierInv, NEW t \in Threads, CountDone(t)
  PROVE  BarrierInv'
<1> USE DEF BarrierInv, CountDone
<1>1. count = InitCount
  BY DEF NobodyEarly, At
<1>2. Pending \in SUBSET Threads
  BY DEF Pending, At
<1>3. IsFiniteSet(Pending) /\ Cardinality(Pending) \in Nat
  BY <1>2, SubsetsAreFinite
<1>4. Pending' = Pending \ {t} /\ t \in Pending
  BY DEF TypeOK, Pending, At
<1>5. Cardinality(Pending') = Cardinality(Pending) - 1
  BY <1>3, <1>4, FS_RemoveElement
<1>6. Cardinality(Pending') \in Nat
  BY <1>2, <1>4, SubsetsAreFinite
<1>7. count - done = Cardinality(Pending)
  BY DEF CountsAgree, Pending
<1>8. CountsAgree'
  BY <1>3, <1>5, <1>7, InitCountIsNat DEF TypeOK, CountsAgree, Pending
<1>9. TypeOK'
  BY <1>1, <1>3, <1>5, <1>6, <1>7, InitCountIsNat DEF TypeOK, Locations
<1>10. NobodyEarly' /\ LeaderInside'
  BY <1>1 DEF NobodyEarly, LeaderInside, TypeOK
<1>11. LeaderRole'
  <2>1. At("reset") = {}
    BY <1>4, ResetFindsNoPending DEF At
  <2>2. QED
    BY <2>1 DEF LeaderRole, TypeOK, At
<1>12. QED
  BY <1>8, <1>9, <1>10, <1>11

LEMMA ResetPreservesInv ==
  ASSUME BarrierInv, NEW t \in Threads, Reset(t)
  PROVE  BarrierInv'
<1> USE DEF BarrierInv, Reset
<1>1. Pending = {}
  BY ResetFindsNoPending
<1>2. \A s \in Threads : pc[s] \in {"lead", "reset"} => s = t
  BY DEF LeaderRole
<1>3. TypeOK'
  BY InitCountIsNat DEF TypeOK, Locations
<1>4. Pending' = {}
  BY <1>1 DEF TypeOK, Pending, At
<1>5. CountsAgree'
  BY <1>4, FS_EmptySet DEF CountsAgree, Pending
<1>6. NobodyEarly' /\ LeaderInside' /\ LeaderRole'
  BY <1>1, <1>2 DEF NobodyEarly, LeaderInside, LeaderRole, TypeOK, Pending, At
<1>7. QED
  BY <1>3, <1>5, <1>6

(***************************************************************************)
(* Type correctness and the agreement of bar->count, bar->done and         *)
(* bar->leader with where the tasklets are, in every reachable state of    *)
(* ime_barrier_wait() (barrier.c:10-92).                                   *)
(***************************************************************************)
THEOREM BarrierInvariant == Spec => []BarrierInv
<1>1. Init => BarrierInv
  BY InitEstablishesInv
<1>2. BarrierInv /\ [Next]_vars => BarrierInv'
  <2> SUFFICES ASSUME BarrierInv, [Next]_vars PROVE BarrierInv'
    OBVIOUS
  <2>1. ASSUME NEW t \in Threads, Call(t) \/ Step(t)
        PROVE  BarrierInv'
    BY <2>1, EnterPreservesInv, QuietStepPreservesInv, CountDonePreservesInv,
       ResetPreservesInv DEF Step
  <2>2. CASE UNCHANGED vars
    BY <2>2 DEF vars, BarrierInv, TypeOK, CountsAgree, NobodyEarly,
                LeaderInside, LeaderRole, At
  <2>3. QED
    BY <2>1, <2>2 DEF Next
<1>3. QED
  BY <1>1, <1>2, PTL DEF Spec

(***************************************************************************)
(* The leader never clears the barrier while a tasklet of its batch still  *)
(* polls count or has yet to increment done, whatever the number of        *)
(* callers and of tasklets per batch (barrier.c:69-83).                    *)
(***************************************************************************)
THEOREM ResetSafety == Spec => []ResetIsSafe
<1>1. BarrierInv => ResetIsSafe
  BY ResetFindsNoPending DEF ResetIsSafe, Pending, At
<1>2. QED
  BY <1>1, BarrierInvariant, PTL

(***************************************************************************)
(* Never two tasklets in the leader's branch at once (barrier.c:65-83).    *)
(***************************************************************************)
THEOREM LeaderIsUnique == Spec => []OneLeader
<1>1. BarrierInv => OneLeader
  BY DEF BarrierInv, LeaderRole, OneLeader, At
<1>2. QED
  BY <1>1, BarrierInvariant, PTL

-----------------------------------------------------------------------------
(***************************************************************************)
(* The refinement.  Steps inside the wait and leave loops change nothing a *)
(* caller can see; entering gathers or opens, the two returns leave.       *)
(***************************************************************************)
LEMMA SameCardinality == \A S : R!Cardinality(S) = Cardinality(S)
BY DEF R!Cardinality, Cardinality

LEMMA WaitingBar ==
  ASSUME BarrierInv, count # InitCount
  PROVE  /\ R!Waiting = Pending
         /\ R!Cardinality(R!Waiting) = count
         /\ WinsBar = {}
<1> USE DEF BarrierInv
<1>1. done = 0 /\ At("done") = {}
  BY DEF NobodyEarly
<1>2. R!Waiting = Pending
  BY <1>1 DEF R!Waiting, PhaseBar, Released, Pending, At
<1>3. count - done = Cardinality(Pending)
  BY DEF CountsAgree, Pending
<1>4. WinsBar = {}
  BY ThreadsAreIds DEF WinsBar, Released, LeaderInside, NoLeader
<1>5. QED
  BY <1>1, <1>2, <1>3, <1>4, SameCardinality DEF TypeOK

LEMMA EnterGathersOrOpens ==
  ASSUME BarrierInv, BarrierInv', NEW t \in Threads, Enter(t)
  PROVE  R!Gather(t) \/ R!Open(t)
<1> USE DEF Enter
<1>1. R!Waiting = Pending /\ R!Cardinality(R!Waiting) = count /\ WinsBar = {}
  BY WaitingBar
<1>2. At("done") \cup At("lead") \cup At("reset") = {}
  BY DEF BarrierInv, NobodyEarly
<1>3. PhaseBar[t] = "idle"
  BY DEF PhaseBar, Released
<1>4. TypeOK
  BY DEF BarrierInv
<1>5. CASE count + 1 # InitCount
  <2>1. PhaseBar' = [PhaseBar EXCEPT ![t] = "waiting"]
    BY <1>2, <1>4, <1>5 DEF PhaseBar, Released, TypeOK, At
  <2>2. WinsBar' = {}
    BY <1>5, WaitingBar, InitCountIsNat, ThreadsAreIds
       DEF WinsBar, Released, BarrierInv, LeaderInside, NoLeader
  <2>3. R!Cardinality(R!Waiting) + 1 < InitCount
    BY <1>1, <1>4, <1>5, InitCountIsNat DEF TypeOK
  <2>4. QED
    BY <1>1, <1>3, <2>1, <2>2, <2>3 DEF R!Gather
<1>6. CASE count + 1 = InitCount
  <2>1. PhaseBar' = [s \in Threads |->
                       IF s \in R!Waiting \cup {t} THEN "released" ELSE PhaseBar[s]]
    BY <1>1, <1>2, <1>4, <1>6 DEF PhaseBar, Released, TypeOK, Pending, At
  <2>2. leader' \in Pending \cup {t}
    BY <1>4, ThreadsAreIds
       DEF BarrierInv, LeaderInside, TypeOK, Pending, At, NoLeader
  <2>3. WinsBar' = WinsBar \cup {leader'}
    BY <1>1, <1>4, <1>6, <2>2 DEF WinsBar, Released, TypeOK, Pending, At
  <2>4. QED
    BY <1>1, <1>3, <1>6, <2>1, <2>2, <2>3 DEF R!Open
<1>7. QED
  BY <1>5, <1>6

LEMMA FollowLeaves ==
  ASSUME BarrierInv, NEW t \in Threads, Follow(t)
  PROVE  R!Leave(t)
<1> USE DEF Follow
<1>1. PhaseBar[t] = "released" /\ PhaseBar' = [PhaseBar EXCEPT ![t] = "idle"]
  BY DEF PhaseBar, Released, BarrierInv, TypeOK
<1>2. t \notin WinsBar /\ WinsBar' = WinsBar
  BY DEF WinsBar, Released, BarrierInv, TypeOK
<1>3. (t \in WinsBar) = FALSE /\ WinsBar' = WinsBar \ {t}
  BY <1>2
<1>4. result' = [result EXCEPT ![t] = t \in WinsBar]
  BY <1>3, Zenon
<1>5. QED
  BY <1>1, <1>3, <1>4 DEF R!Leave

LEMMA ResetLeaves ==
  ASSUME BarrierInv, NEW t \in Threads, Reset(t)
  PROVE  R!Leave(t)
<1> USE DEF Reset
<1>1. count = InitCount /\ Pending = {}
  BY ResetFindsNoPending
<1>2. leader = t
  BY DEF BarrierInv, LeaderRole
<1>3. PhaseBar[t] = "released" /\ PhaseBar' = [PhaseBar EXCEPT ![t] = "idle"]
  BY <1>1, InitCountIsNat
     DEF PhaseBar, Released, BarrierInv, TypeOK, Pending, At
<1>4. WinsBar = {t} /\ WinsBar' = {}
  BY <1>2, ThreadsAreIds DEF WinsBar, Released, BarrierInv, TypeOK
<1>5. (t \in WinsBar) = TRUE /\ WinsBar' = WinsBar \ {t}
  BY <1>4
<1>6. result' = [result EXCEPT ![t] = t \in WinsBar]
  BY <1>5, Zenon
<1>7. QED
  BY <1>3, <1>5, <1>6 DEF R!Leave

(***************************************************************************)
(* The barrier keeps the promise of barrier.h:29-34: nobody returns before *)
(* bar->init tasklets have called, and one of each batch gets true.        *)
(***************************************************************************)
THEOREM KeepsPromise == Spec => Promise
<1>1. Init => R!Init
  <2> SUFFICES ASSUME Init PROVE R!Init
    OBVIOUS
  <2>1. \A t \in Threads : ~ Released(t)
    BY InitCountIsNat DEF Init, Released
  <2>2. QED
    BY <2>1 DEF Init, R!Init, PhaseBar, WinsBar
<1>2. BarrierInv /\ BarrierInv' /\ [Next]_vars => [R!Next]_(R!vars)
  <2> SUFFICES ASSUME BarrierInv, BarrierInv', [Next]_vars
               PROVE  [R!Next]_(R!vars)
    OBVIOUS
  <2>1. ASSUME NEW t \in Threads,
               Call(t) \/ SeeFull(t) \/ CountDone(t) \/ Lead(t) \/ SeeAllDone(t)
        PROVE  UNCHANGED R!vars
    <3>1. PhaseBar' = PhaseBar
      BY <2>1 DEF Call, SeeFull, CountDone, Lead, SeeAllDone,
                  PhaseBar, Released, BarrierInv, TypeOK
    <3>2. WinsBar' = WinsBar
      BY <2>1 DEF Call, SeeFull, CountDone, Lead, SeeAllDone,
                  WinsBar, Released, BarrierInv, TypeOK
    <3>3. result' = result
      BY <2>1 DEF Call, SeeFull, CountDone, Lead, SeeAllDone
    <3>4. QED
      BY <3>1, <3>2, <3>3 DEF R!vars
  <2>2. ASSUME NEW t \in Threads, Enter(t) \/ Follow(t) \/ Reset(t)
        PROVE  R!Next
    BY <2>2, EnterGathersOrOpens, FollowLeaves, ResetLeaves DEF R!Next
  <2>3. CASE UNCHANGED vars
    BY <2>3 DEF vars, R!vars, PhaseBar, WinsBar, Released
  <2>4. QED
    BY <2>1, <2>2, <2>3 DEF Next, Step
<1>3. QED
  BY <1>1, <1>2, BarrierInvariant, PTL DEF Spec, Promise, R!Spec
=============================================================================
