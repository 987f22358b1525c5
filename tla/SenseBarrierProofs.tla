------------------------- MODULE SenseBarrierProofs -------------------------
(***************************************************************************)
(* Proofs about SenseBarrier, for any number of tasklets and of rounds.    *)
(***************************************************************************)
EXTENDS SenseBarrier, TLAPS

\* The parts that say in which step of its wait each tasklet is.
USE DEF Tasklets

LEMMA ZeroIsTasklet == 0 \in Tasklets
BY NAssumption

LEMMA InitOK == ASSUME Sound PROVE Init => SenseInv
<1> SUFFICES ASSUME Init PROVE SenseInv
  OBVIOUS
<1> USE NAssumption, RoundsAssumption DEF Init
<1>1. TypeOK
  BY DEF TypeOK, Locations
<1>2. LeaderOK /\ ScanOK /\ GateOK /\ Punctual
  BY DEF LeaderOK, ScanOK, GateOK, InitLocations, Punctual
<1>3. OthersOK
  BY DEF OthersOK, Behind, Lag
<1>4. QED
  BY <1>1, <1>2, <1>3 DEF SenseInv

\* Steps of mybarrier_init().
LEMMA InitStepsPreserve ==
  ASSUME Sound, SenseInv, InitSense \/ InitUnflag \/ InitSlot \/ InitRaiseFlag
  PROVE  SenseInv'
<1> USE NAssumption, RoundsAssumption, SlotInitAssumption, FlagAssumption
    DEF SenseInv, InitSense, InitUnflag, InitSlot, InitRaiseFlag, Goto,
        shared, counts
<1>1. pc[0] \in InitLocations
  BY DEF InitLocations
<1>2. TypeOK'
  <2>1. CASE InitSense
    BY <2>1 DEF TypeOK, Locations
  <2>2. CASE InitUnflag
    BY <2>2 DEF TypeOK, Locations
  <2>3. CASE InitSlot
    <3>1. i \in Tasklets /\ arrive' \in [Tasklets -> {0, 1}] /\ sense' \in {0, 1}
      BY <2>3 DEF TypeOK
    <3>2. i' \in Tasklets
      BY <2>3, <3>1 DEF Tasklets
    <3>3. pc' \in [Tasklets -> Locations]
      BY <2>3 DEF TypeOK, Locations
    <3>4. QED
      BY <2>3, <3>1, <3>2, <3>3 DEF TypeOK
  <2>4. CASE InitRaiseFlag
    BY <2>4 DEF TypeOK, Locations
  <2>5. QED
    BY <2>1, <2>2, <2>3, <2>4
<1>3. left[0] = 0 /\ sense = 0 /\ sense' = 0 /\ left' = left /\ entered' = entered
      /\ nextS' = nextS /\ late = {} /\ late' = {}
  BY <1>1 DEF LeaderOK
<1>4. \A t \in Tasklets \ {0} : pc'[t] = pc[t]
  BY DEF TypeOK
<1>5. LeaderOK'
  BY <1>3 DEF LeaderOK, TypeOK, InitLocations
<1>6. ScanOK' /\ GateOK' /\ Punctual'
  BY <1>1, <1>3, <1>4 DEF ScanOK, GateOK, TypeOK, InitLocations, Punctual
<1>7. OthersOK'
  <2> SUFFICES ASSUME NEW t \in Tasklets \ {0}
               PROVE  (Behind(t) \/ Ahead(t) \/ Freed(t))'
    BY DEF OthersOK
  <2>1. arrive'[t] \in {arrive[t], SlotInit}
    BY DEF TypeOK
  <2>2. Lag(t) = 0 /\ Lag(t)' = 0
    BY <1>3 DEF Lag
  <2>3. ~ Freed(t)
    BY <1>3, <2>2 DEF Freed, TypeOK
  <2>4. CASE Behind(t)
    BY <1>3, <1>4, <2>1, <2>2, <2>4 DEF Behind, Sound
  <2>5. CASE Ahead(t)
    <3>1. SlotInit = 1
      BY <1>1, <2>5 DEF Ahead, GateOK, Sound
    <3>2. QED
      BY <1>3, <1>4, <2>1, <2>2, <2>5, <3>1 DEF Ahead
  <2>6. QED
    BY <2>3, <2>4, <2>5 DEF OthersOK
<1>8. QED
  BY <1>2, <1>5, <1>6, <1>7

\* Steps of a tasklet other than 0 in mybarrier_wait().
LEMMA OtherStepsPreserve ==
  ASSUME Sound, SenseInv, NEW s \in Tasklets, s # 0, Tasklet(s)
  PROVE  SenseInv'
<1> USE NAssumption, RoundsAssumption, SlotInitAssumption, FlagAssumption
    DEF SenseInv, Goto, shared, counts
<1>1. TypeOK'
  <2>1. CASE Wait(s)
    BY <2>1 DEF TypeOK, Locations, Wait
  <2>2. CASE Gate(s)
    BY <2>2 DEF TypeOK, Locations, Gate
  <2>3. CASE Snap(s)
    BY <2>3 DEF TypeOK, Locations, Snap
  <2>4. CASE Announce(s)
    BY <2>4 DEF TypeOK, Locations, Announce
  <2>5. CASE Poll(s)
    <3>1. left[s] + 1 \in 0..Rounds
      <4>1. entered[s] = left[s] + 1
        BY <2>5 DEF Poll, OthersOK, Behind, Ahead, Freed
      <4>2. entered[s] \in 0..Rounds
        BY DEF TypeOK
      <4>3. QED
        BY <4>1, <4>2
    <3>2. QED
      BY <2>5, <3>1 DEF TypeOK, Locations, Poll
  <2>6. QED
    BY <2>1, <2>2, <2>3, <2>4, <2>5 DEF Tasklet
<1>2. /\ sense' = sense /\ initDone' = initDone /\ i' = i /\ late' = late
      /\ pc'[0] = pc[0] /\ entered'[0] = entered[0] /\ left'[0] = left[0]
      /\ nextS'[0] = nextS[0]
  <2>1. sense' = sense /\ initDone' = initDone /\ i' = i /\ late' = late
    BY DEF Tasklet, Wait, Gate, Snap, Announce, Poll
  <2>2. pc'[0] = pc[0] /\ entered'[0] = entered[0] /\ left'[0] = left[0]
        /\ nextS'[0] = nextS[0]
    BY ZeroIsTasklet DEF TypeOK, Tasklet, Wait, Gate, Snap, Announce, Poll
  <2>3. QED
    BY <2>1, <2>2
<1>3. \A t \in Tasklets \ {s} :
        /\ pc'[t] = pc[t] /\ entered'[t] = entered[t] /\ left'[t] = left[t]
        /\ nextS'[t] = nextS[t] /\ arrive'[t] = arrive[t]
  BY DEF TypeOK, Tasklet, Wait, Gate, Snap, Announce, Poll
<1>4. LeaderOK' /\ Punctual'
  BY <1>2 DEF LeaderOK, Punctual
<1>5. \A t \in Tasklets : Lag(t)' = Lag(t)
  BY <1>2 DEF Lag
<1>6. (Behind(s) \/ Ahead(s) \/ Freed(s))'
  <2>1. Behind(s) \/ Ahead(s) \/ Freed(s)
    BY DEF OthersOK
  <2>2. CASE Wait(s)
    BY <1>2, <1>5, <2>1, <2>2 DEF Wait, Behind, Ahead, Freed, TypeOK
  <2>3. CASE Gate(s)
    BY <1>2, <1>5, <2>1, <2>3 DEF Gate, Behind, Ahead, Freed, TypeOK
  <2>4. CASE Snap(s)
    BY <1>2, <1>5, <2>1, <2>4 DEF Snap, Behind, Ahead, Freed, TypeOK
  <2>5. CASE Announce(s)
    BY <1>2, <1>5, <2>1, <2>5 DEF Announce, Behind, Ahead, Freed, TypeOK
  <2>6. CASE Poll(s)
    <3>1. Freed(s)
      BY <2>1, <2>6 DEF Poll, Behind, Ahead, Freed, TypeOK
    <3>2. Lag(s) \in {0, 1}
      BY DEF Lag
    <3>3. pc'[s] = "app" /\ left'[s] = left[s] + 1 /\ entered'[s] = entered[s]
          /\ nextS'[s] = nextS[s] /\ arrive'[s] = arrive[s]
      BY <2>6 DEF Poll, TypeOK
    <3>4. left[s] \in Nat /\ left[0] \in Nat
      BY ZeroIsTasklet DEF TypeOK
    <3>5. left'[s] + Lag(s)' = left'[0]
      BY <1>2, <1>5, <3>1, <3>2, <3>3, <3>4 DEF Freed
    <3>6. QED
      BY <1>2, <3>1, <3>3, <3>5 DEF Behind, Freed
  <2>7. QED
    BY <2>2, <2>3, <2>4, <2>5, <2>6 DEF Tasklet
<1>7. OthersOK'
  BY <1>2, <1>3, <1>5, <1>6 DEF OthersOK, Behind, Ahead, Freed
<1>8. ScanOK'
  <2>1. Announce(s) => arrive'[s] = 1 - sense \/ arrive'[s] = arrive[s]
    BY DEF Announce, OthersOK, Behind, Ahead, Freed, TypeOK
  <2>2. ~ Announce(s) => arrive' = arrive
    BY DEF Tasklet, Wait, Gate, Snap, Poll
  <2>3. QED
    BY <1>2, <1>3, <2>1, <2>2 DEF ScanOK, LeaderOK, TypeOK
<1>9. GateOK'
  BY <1>2, <1>3 DEF GateOK, LeaderOK, Tasklet, Wait, Gate, Snap, Announce, Poll,
                    TypeOK
<1>10. QED
  BY <1>1, <1>4, <1>7, <1>8, <1>9

\* Steps of tasklet 0 up to the announcement.
LEMMA LeaderArrivalPreserves ==
  ASSUME Sound, SenseInv, Wait(0) \/ Gate(0) \/ Snap(0) \/ Announce(0)
  PROVE  SenseInv'
<1> USE NAssumption, RoundsAssumption, SlotInitAssumption, FlagAssumption
    DEF SenseInv, Goto, shared, counts
<1>1. TypeOK'
  <2>1. CASE Wait(0)
    BY <2>1, ZeroIsTasklet DEF TypeOK, Locations, Wait
  <2>2. CASE Gate(0)
    BY <2>2, ZeroIsTasklet DEF TypeOK, Locations, Gate
  <2>3. CASE Snap(0)
    BY <2>3, ZeroIsTasklet DEF TypeOK, Locations, Snap
  <2>4. CASE Announce(0)
    BY <2>4, ZeroIsTasklet DEF TypeOK, Locations, Announce
  <2>5. QED
    BY <2>1, <2>2, <2>3, <2>4
<1>2. sense' = sense /\ initDone' = initDone /\ i' = i /\ left' = left /\ late' = late
  BY DEF Wait, Gate, Snap, Announce
<1>3. \A t \in Tasklets \ {0} :
        /\ pc'[t] = pc[t] /\ entered'[t] = entered[t]
        /\ nextS'[t] = nextS[t] /\ arrive'[t] = arrive[t]
  BY DEF TypeOK, Wait, Gate, Snap, Announce
<1>4. LeaderOK'
  BY <1>2 DEF LeaderOK, Wait, Gate, Snap, Announce, TypeOK, InitLocations
<1>5. OthersOK'
  <2> SUFFICES ASSUME NEW t \in Tasklets \ {0}
               PROVE  (Behind(t) \/ Ahead(t) \/ Freed(t))'
    BY DEF OthersOK
  <2>1. Lag(t)' = Lag(t)
    BY <1>2 DEF Lag
  <2>2. QED
    BY <1>2, <1>3, <2>1 DEF OthersOK, Behind, Ahead, Freed, TypeOK
<1>6. ScanOK'
  BY <1>2 DEF ScanOK, LeaderOK, TypeOK, Wait, Gate, Snap, Announce
<1>7. GateOK' /\ Punctual'
  BY <1>2 DEF GateOK, InitLocations, TypeOK, Wait, Gate, Snap, Announce, Punctual
<1>8. QED
  BY <1>1, <1>4, <1>5, <1>6, <1>7

LEMMA ScanPreserves == ASSUME Sound, SenseInv, Scan PROVE SenseInv'
<1> USE NAssumption, RoundsAssumption, SlotInitAssumption, FlagAssumption
    DEF SenseInv, Goto, shared, counts, Scan
<1>1. TypeOK'
  <2>1. i \in Tasklets /\ i' \in Tasklets
    BY DEF TypeOK, Tasklets
  <2>2. pc' \in [Tasklets -> Locations]
    BY DEF TypeOK, Locations
  <2>3. QED
    BY <2>1, <2>2 DEF TypeOK
<1>2. LeaderOK'
  BY DEF LeaderOK, TypeOK, InitLocations
<1>3. \A t \in Tasklets : Lag(t)' = Lag(t)
  BY DEF Lag
<1>4. OthersOK'
  <2> SUFFICES ASSUME NEW t \in Tasklets \ {0}
               PROVE  (Behind(t) \/ Ahead(t) \/ Freed(t))'
    BY DEF OthersOK
  <2>1. pc'[t] = pc[t] /\ UNCHANGED <<sense, arrive, initDone, nextS, entered, left>>
    BY DEF TypeOK
  <2>2. CASE Behind(t)
    BY <1>3, <2>1, <2>2 DEF Behind
  <2>3. CASE Ahead(t)
    BY <1>3, <2>1, <2>3 DEF Ahead
  <2>4. CASE Freed(t)
    BY <1>3, <2>1, <2>4 DEF Freed
  <2>5. QED
    BY <2>2, <2>3, <2>4 DEF OthersOK
<1>5. ScanOK'
  <2>1. UNCHANGED <<arrive, nextS>> /\ i \in Tasklets /\ N \in Nat /\ arrive[i] = nextS[0]
    BY DEF TypeOK
  <2>2. \A u \in Tasklets : u \in Nat /\ (u < i + 1 => u < i \/ u = i)
    BY <2>1 DEF Tasklets
  <2>3. \A u \in Tasklets : u < i + 1 => arrive[u] = nextS[0]
    BY <2>1, <2>2 DEF ScanOK
  <2>4. CASE i + 1 < N
    <3>1. pc'[0] = "scan" /\ i' = i + 1
      BY <2>4 DEF TypeOK
    <3>2. QED
      BY <2>1, <2>3, <3>1 DEF ScanOK
  <2>5. CASE ~ (i + 1 < N)
    <3>1. pc'[0] = "flip"
      BY <2>5 DEF TypeOK, Tasklets
    <3>2. \A u \in Tasklets : u < i + 1
      BY <2>1, <2>5 DEF Tasklets
    <3>3. QED
      BY <2>1, <2>3, <3>1, <3>2 DEF ScanOK
  <2>6. QED
    BY <2>4, <2>5
<1>6. GateOK' /\ Punctual'
  BY DEF GateOK, InitLocations, TypeOK, Punctual
<1>7. QED
  BY <1>1, <1>2, <1>4, <1>5, <1>6

LEMMA FlipPreserves == ASSUME Sound, SenseInv, Flip PROVE SenseInv'
<1> USE NAssumption, RoundsAssumption, SlotInitAssumption, FlagAssumption
    DEF SenseInv, Goto, shared, counts, Flip
<1>1. nextS[0] = 1 - sense /\ entered[0] = left[0] + 1 /\ i = 0
  BY DEF LeaderOK, InitLocations
<1>2. TypeOK'
  BY <1>1 DEF TypeOK, Locations
<1>3. LeaderOK'
  BY <1>1 DEF LeaderOK, TypeOK, InitLocations
<1>4. ScanOK' /\ GateOK'
  BY DEF ScanOK, GateOK, InitLocations, TypeOK
<1>5. CASE left[0] = 0
  <2>1. late = {} /\ sense = 0
    BY <1>5 DEF LeaderOK
  <2>2. \A t \in Tasklets \ {0} : arrive[t] = 1 /\ ~ Freed(t)
    BY <1>1, <1>5, <2>1 DEF ScanOK, Freed, Lag, TypeOK
  <2>3. ASSUME NEW t \in Tasklets \ {0}
        PROVE  (Behind(t) \/ Ahead(t) \/ Freed(t))'
    <3>1. Lag(t) = 0 /\ Lag(t)' = IF pc[t] \in {"app", "gate", "snap"} THEN 1 ELSE 0
      BY <1>5, <2>1 DEF Lag
    <3>2. left'[t] = left[t] /\ left'[0] = 1 /\ pc'[t] = pc[t] /\ sense' = 1
      BY <1>1, <1>5, <2>1 DEF TypeOK
    <3>3. CASE Behind(t) /\ pc[t] # "announce"
      BY <1>5, <2>1, <2>2, <3>1, <3>2, <3>3 DEF Behind, TypeOK
    <3>4. CASE Behind(t) /\ pc[t] = "announce"
      BY <1>5, <2>1, <2>2, <3>1, <3>2, <3>4 DEF Behind, Freed, TypeOK
    <3>5. CASE Ahead(t)
      BY <1>5, <2>1, <2>2, <3>1, <3>2, <3>5 DEF Ahead, Freed, TypeOK
    <3>6. QED
      BY <2>2, <3>3, <3>4, <3>5 DEF OthersOK
  <2>4. Punctual'
    <3>1. SlotInit = 0 => \A t \in Tasklets \ {0} : Ahead(t)
      BY <2>1, <2>2 DEF OthersOK, Behind
    <3>2. QED
      BY <1>5, <3>1 DEF Punctual, Ahead
  <2>5. QED
    BY <1>2, <1>3, <1>4, <2>3, <2>4 DEF OthersOK
<1>6. CASE left[0] # 0
  <2>1. late' = late /\ \A t \in Tasklets : Lag(t)' = Lag(t)
    BY <1>6 DEF Lag
  <2>2. \A t \in Tasklets \ {0} : Ahead(t)
    BY <1>1, <1>6 DEF ScanOK, OthersOK, Behind, Ahead, Freed, TypeOK
  <2>3. OthersOK'
    BY <1>1, <2>1, <2>2 DEF OthersOK, Ahead, Freed, TypeOK
  <2>4. QED
    BY <1>2, <1>3, <1>4, <2>1, <2>3 DEF Punctual
<1>7. QED
  BY <1>5, <1>6

\* Every step, the scan's and those of the others.
LEMMA NextPreserves ==
  ASSUME Sound, SenseInv, [Next]_vars
  PROVE  SenseInv'
<1>1. CASE Tasklet0
  BY <1>1, InitStepsPreserve, ScanPreserves, FlipPreserves DEF Tasklet0
<1>2. ASSUME NEW t \in Tasklets, Tasklet(t) PROVE SenseInv'
  <2>1. CASE t = 0
    <3>1. ~ Poll(0)
      BY DEF SenseInv, LeaderOK, Poll
    <3>2. QED
      BY <1>2, <2>1, <3>1, LeaderArrivalPreserves DEF Tasklet
  <2>2. CASE t # 0
    BY <1>2, <2>2, OtherStepsPreserve
  <2>3. QED
    BY <2>1, <2>2
<1>3. CASE UNCHANGED vars
  BY <1>3 DEF vars, SenseInv, TypeOK, LeaderOK, OthersOK, ScanOK, GateOK,
              Behind, Ahead, Freed, Lag, Punctual
<1>4. QED
  BY <1>1, <1>2, <1>3 DEF Next, Finished

(***************************************************************************)
(* The slots, the sense and the positions of the tasklets agree in every   *)
(* reachable state of mc_sync.h's barrier, in both versions.               *)
(***************************************************************************)
THEOREM SenseInvariant == ASSUME Sound PROVE Spec => []SenseInv
<1>1. QED
  BY InitOK, NextPreserves, PTL DEF Spec

\* What the invariant says of two tasklets.
LEMMA InvIsSafe ==
  ASSUME SenseInv
  PROVE  RoundIntegrity
<1> SUFFICES ASSUME NEW s \in Tasklets, NEW t \in Tasklets
             PROVE  left[t] + Lag(t) <= entered[s] + Lag(s)
  BY DEF RoundIntegrity
<1> USE NAssumption, RoundsAssumption DEF SenseInv
<1>1. \A u \in Tasklets : left[u] \in Nat /\ entered[u] \in Nat /\ Lag(u) \in {0, 1}
  BY DEF TypeOK, Lag
<1>2. Lag(0) = 0 /\ entered[0] \in {left[0], left[0] + 1}
  BY DEF LeaderOK, Lag
<1>3. left[t] + Lag(t) <= left[0]
  <2>1. t = 0 \/ left[t] + Lag(t) = left[0] \/ left[t] + Lag(t) + 1 = left[0]
    BY DEF OthersOK, Behind, Ahead, Freed
  <2>2. QED
    BY <1>1, <1>2, <2>1, ZeroIsTasklet
<1>4. left[0] <= entered[s] + Lag(s)
  <2>1. \/ s = 0
        \/ left[s] + Lag(s) = left[0] /\ entered[s] \in {left[s], left[s] + 1}
        \/ left[s] + Lag(s) + 1 = left[0] /\ entered[s] = left[s] + 1
    BY DEF OthersOK, Behind, Ahead, Freed
  <2>2. QED
    BY <1>1, <1>2, <2>1, ZeroIsTasklet
<1>5. QED
  BY <1>1, <1>3, <1>4, ZeroIsTasklet

(***************************************************************************)
(* Nobody leaves a round before everyone has entered it, where the k-th    *)
(* wait of a tasklet that was late counts as its (k + 1)-st: the guarantee *)
(* the benchmark subkernels build on, and how it fails, for any number of  *)
(* tasklets and rounds.                                                    *)
(***************************************************************************)
THEOREM RoundsAreKept == ASSUME Sound PROVE Spec => []RoundIntegrity
<1>1. SenseInv => RoundIntegrity
  BY InvIsSafe
<1>2. QED
  BY <1>1, SenseInvariant, PTL
=============================================================================
