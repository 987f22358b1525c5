-------------------------- MODULE TaskletLifeProofs --------------------------
(***************************************************************************)
(* Proofs about TaskletLife, for any number of threads, any subkernel and  *)
(* any interleaving.                                                       *)
(***************************************************************************)
EXTENDS TaskletLife, FiniteSetTheorems, TLAPS

LEMMA TaskletFacts ==
  /\ 0 \in Tasklets /\ 0 \notin Others /\ Others \subseteq Tasklets
  /\ Tasklets = {0} \cup Others
  /\ \A t \in Others : t \in Nat /\ t >= 1 /\ t <= N - 1 /\ (t # 1 => t - 1 \in Others)
  /\ N \in Nat /\ N >= 2 /\ N - 1 \in Others
BY NAssumption DEF Tasklets, Others

LEMMA PendingIsFinite ==
  /\ IsFiniteSet(Pending)
  /\ Cardinality(Pending) \in Nat
  /\ Cardinality(Pending) = 0 <=> Pending = {}
<1>1. IsFiniteSet(Others)
  BY NAssumption, FS_Interval DEF Others
<1>2. Pending \subseteq Others
  BY DEF Pending
<1>3. QED
  BY <1>1, <1>2, FS_Subset, FS_CardinalityType, FS_EmptySet

LEMMA CardinalityBelow ==
  ASSUME NEW n \in Nat, n >= 1
  PROVE  n = 1 + Cardinality(1 .. n - 1) /\ Cardinality(1 .. n - 1) <= n
<1>1. CASE n = 1
  <2>1. 1 .. n - 1 = {}
    BY <1>1
  <2>2. QED
    BY <1>1, <2>1, FS_EmptySet
<1>2. CASE n > 1
  <2>1. 1 \in Int /\ n - 1 \in Int /\ ~ (1 > n - 1) /\ n - 1 - 1 + 1 = n - 1
    BY <1>2
  <2>2. QED
    BY <2>1, FS_Interval
<1>3. QED
  BY <1>1, <1>2

LEMMA InitEstablishesInv == Init => LifeInv
<1> SUFFICES ASSUME Init PROVE LifeInv
  OBVIOUS
<1>1. Pending = 1 .. N - 1
  BY TaskletFacts DEF Init, Pending, Others
<1>2. TypeOK
  <2>1. pc \in [Tasklets -> Locations]
    BY DEF Init, Locations
  <2>2. run \in [Tasklets -> BOOLEAN]
    BY Zenon DEF Init
  <2>3. used \in 1..N /\ seen \in 0..N /\ count \in 0..N
    BY TaskletFacts DEF Init
  <2>4. lneg \subseteq Tasklets /\ ran \subseteq Tasklets
    BY TaskletFacts DEF Init
  <2>5. QED
    BY <2>1, <2>2, <2>3, <2>4, TaskletFacts DEF Init, TypeOK
<1>3. Places /\ WaitsOK /\ MutexOK
  <2>1. pc[0] = "boot1" /\ run[0] /\ \A t \in Others : pc[t] = "start" /\ ~ run[t]
    BY TaskletFacts DEF Init
  <2>2. lneg \subseteq Others /\ ran = lneg /\ used = N /\ r = N - 1 /\ direct /\ lock = {}
    BY DEF Init
  <2>3. Places
    BY <2>1, <2>2, TaskletFacts DEF Places
  <2>4. WaitsOK
    BY <2>1, <2>2, TaskletFacts DEF WaitsOK
  <2>5. MutexOK
    BY <2>1, <2>2, TaskletFacts DEF MutexOK
  <2>6. QED
    BY <2>3, <2>4, <2>5
<1>4. CountOK
  <2>1. Cardinality(Pending) <= count
    BY <1>1, CardinalityBelow, TaskletFacts DEF Init
  <2>2. QED
    BY <2>1, TaskletFacts DEF Init, CountOK, InSubkernel
<1>5. ExitOK /\ CheckOK
  BY TaskletFacts DEF Init, ExitOK, CheckOK
<1>6. QED
  BY <1>2, <1>3, <1>4, <1>5 DEF Init, LifeInv

-----------------------------------------------------------------------------
(* The steps of the runtime in the subkernel and of the loader. *)

LEMMA StopUnusedPreserves ==
  ASSUME LifeInv, ~ fault, NEW t \in Tasklets, StopUnused(t)
  PROVE  LifeInv'
<1>1. TypeOK /\ Places /\ WaitsOK /\ MutexOK /\ CountOK /\ ExitOK /\ CheckOK
  BY DEF LifeInv
<1>2. TypeOK'
  BY <1>1, TaskletFacts DEF TypeOK, Places, WaitsOK, Locations, StopUnused, Stop, Goto, runtime
<1>3. Places'
  BY <1>1, TaskletFacts
  DEF TypeOK, Places, WaitsOK, Locations, CheckOK, StopUnused, Stop, Goto, runtime
<1>4. MutexOK'
  BY <1>1, TaskletFacts
  DEF TypeOK, Places, WaitsOK, MutexOK, CountOK, InSubkernel, StopUnused, Stop, Goto, runtime
<1>5. Pending' = Pending
  BY <1>1, TaskletFacts
  DEF TypeOK, Places, WaitsOK, CountOK, InSubkernel, Pending, StopUnused, Stop, Goto, runtime
<1>6. CountOK'
  BY <1>1, <1>5, TaskletFacts
  DEF TypeOK, Places, WaitsOK, MutexOK, CountOK, CheckOK, InSubkernel, StopUnused, Stop, Goto,
      runtime
<1>7. ExitOK'
  BY <1>1, TaskletFacts
  DEF TypeOK, Places, WaitsOK, ExitOK, AboutToStop, StopUnused, Stop, Goto, runtime
<1>8. CheckOK'
  BY <1>1, TaskletFacts
  DEF TypeOK, Places, WaitsOK, ExitOK, CheckOK, Parked, AboutToStop, StopUnused, Stop, Goto,
      runtime
<1>9. WaitsOK'
  BY <1>1, TaskletFacts
  DEF TypeOK, Places, WaitsOK, CountOK, CheckOK, ExitOK, AboutToStop, InSubkernel,
      StopUnused, Stop, Goto, runtime
<1>10. QED
  BY <1>2, <1>3, <1>4, <1>6, <1>7, <1>8, <1>9 DEF LifeInv, StopUnused, Stop, Goto, runtime

LEMMA EnterMainPreserves ==
  ASSUME LifeInv, ~ fault, NEW t \in Tasklets, EnterMain(t)
  PROVE  LifeInv'
<1>1. TypeOK /\ Places /\ WaitsOK /\ MutexOK /\ CountOK /\ ExitOK /\ CheckOK
  BY DEF LifeInv
<1>2. TypeOK'
  BY <1>1, TaskletFacts DEF TypeOK, Places, WaitsOK, Locations, EnterMain, Goto, runtime
<1>3. Places'
  BY <1>1, TaskletFacts DEF TypeOK, Places, WaitsOK, Locations, CheckOK, EnterMain, Goto, runtime
<1>4. MutexOK'
  BY <1>1, TaskletFacts
  DEF TypeOK, Places, WaitsOK, MutexOK, CountOK, InSubkernel, EnterMain, Goto, runtime
<1>5. Pending' = Pending
  BY <1>1, TaskletFacts
  DEF TypeOK, Places, WaitsOK, CountOK, InSubkernel, Pending, EnterMain, Goto, runtime
<1>6. CountOK'
  BY <1>1, <1>5, TaskletFacts
  DEF TypeOK, Places, WaitsOK, MutexOK, CountOK, CheckOK, InSubkernel, EnterMain, Goto, runtime
<1>7. ExitOK'
  BY <1>1, TaskletFacts DEF TypeOK, Places, WaitsOK, ExitOK, AboutToStop, EnterMain, Goto, runtime
<1>8. CheckOK'
  BY <1>1, TaskletFacts
  DEF TypeOK, Places, WaitsOK, ExitOK, CheckOK, Parked, AboutToStop, EnterMain, Goto, runtime
<1>9. WaitsOK'
  BY <1>1, TaskletFacts
  DEF TypeOK, Places, WaitsOK, CountOK, CheckOK, ExitOK, AboutToStop, InSubkernel,
      EnterMain, Goto, runtime
<1>10. QED
  BY <1>2, <1>3, <1>4, <1>6, <1>7, <1>8, <1>9 DEF LifeInv, EnterMain, Goto, runtime

LEMMA ReturnFromMainPreserves ==
  ASSUME LifeInv, ~ fault, NEW t \in Tasklets, ReturnFromMain(t)
  PROVE  LifeInv'
<1>1. TypeOK /\ Places /\ WaitsOK /\ MutexOK /\ CountOK /\ ExitOK /\ CheckOK
  BY DEF LifeInv
<1>2. TypeOK'
  BY <1>1, TaskletFacts DEF TypeOK, Places, WaitsOK, Locations, ReturnFromMain, Goto, runtime
<1>3. Places'
  BY <1>1, TaskletFacts
  DEF TypeOK, Places, WaitsOK, Locations, CheckOK, ReturnFromMain, Goto, runtime
<1>4. MutexOK'
  BY <1>1, TaskletFacts
  DEF TypeOK, Places, WaitsOK, MutexOK, CountOK, InSubkernel, ReturnFromMain, Goto, runtime
<1>5. Pending' = Pending
  BY <1>1, TaskletFacts
  DEF TypeOK, Places, WaitsOK, CountOK, InSubkernel, Pending, ReturnFromMain, Goto, runtime
<1>6. CountOK'
  BY <1>1, <1>5, TaskletFacts
  DEF TypeOK, Places, WaitsOK, MutexOK, CountOK, CheckOK, InSubkernel, ReturnFromMain, Goto,
      runtime
<1>7. ExitOK'
  BY <1>1, TaskletFacts
  DEF TypeOK, Places, WaitsOK, ExitOK, AboutToStop, ReturnFromMain, Goto, runtime
<1>8. CheckOK'
  BY <1>1, TaskletFacts
  DEF TypeOK, Places, WaitsOK, ExitOK, CheckOK, Parked, AboutToStop, ReturnFromMain, Goto, runtime
<1>9. WaitsOK'
  BY <1>1, TaskletFacts
  DEF TypeOK, Places, WaitsOK, CountOK, CheckOK, ExitOK, AboutToStop, InSubkernel,
      ReturnFromMain, Goto, runtime
<1>10. QED
  BY <1>2, <1>3, <1>4, <1>6, <1>7, <1>8, <1>9 DEF LifeInv, ReturnFromMain, Goto, runtime

LEMMA WaitForHostPreserves ==
  ASSUME LifeInv, ~ fault, NEW t \in Tasklets, WaitForHost(t)
  PROVE  LifeInv'
<1>1. TypeOK /\ Places /\ WaitsOK /\ MutexOK /\ CountOK /\ ExitOK /\ CheckOK
  BY DEF LifeInv
<1>2. TypeOK'
  BY <1>1, TaskletFacts DEF TypeOK, Places, WaitsOK, Locations, WaitForHost, Goto, runtime
<1>3. Places'
  BY <1>1, TaskletFacts
  DEF TypeOK, Places, WaitsOK, Locations, CheckOK, WaitForHost, Goto, runtime
<1>4. MutexOK'
  BY <1>1, TaskletFacts
  DEF TypeOK, Places, WaitsOK, MutexOK, CountOK, InSubkernel, WaitForHost, Goto, runtime
<1>5. Pending' = Pending
  BY <1>1, TaskletFacts
  DEF TypeOK, Places, WaitsOK, CountOK, InSubkernel, Pending, WaitForHost, Goto, runtime
<1>6. CountOK'
  BY <1>1, <1>5, TaskletFacts
  DEF TypeOK, Places, WaitsOK, MutexOK, CountOK, CheckOK, InSubkernel, WaitForHost, Goto,
      runtime
<1>7. ExitOK'
  BY <1>1, TaskletFacts
  DEF TypeOK, Places, WaitsOK, ExitOK, AboutToStop, WaitForHost, Goto, runtime
<1>8. CheckOK'
  BY <1>1, TaskletFacts
  DEF TypeOK, Places, WaitsOK, ExitOK, CheckOK, Parked, AboutToStop, WaitForHost, Goto, runtime
<1>9. WaitsOK'
  BY <1>1, TaskletFacts
  DEF TypeOK, Places, WaitsOK, CountOK, CheckOK, ExitOK, AboutToStop, InSubkernel,
      WaitForHost, Goto, runtime
<1>10. QED
  BY <1>2, <1>3, <1>4, <1>6, <1>7, <1>8, <1>9 DEF LifeInv, WaitForHost, Goto, runtime

LEMMA SigReturnPreserves ==
  ASSUME LifeInv, ~ fault, NEW t \in Tasklets, SigReturn(t)
  PROVE  LifeInv'
<1>1. TypeOK /\ Places /\ WaitsOK /\ MutexOK /\ CountOK /\ ExitOK /\ CheckOK
  BY DEF LifeInv
<1>2. TypeOK'
  BY <1>1, TaskletFacts DEF TypeOK, Places, WaitsOK, Locations, SigReturn, Goto, runtime
<1>3. Places'
  BY <1>1, TaskletFacts
  DEF TypeOK, Places, WaitsOK, Locations, CheckOK, SigReturn, Goto, runtime
<1>4. MutexOK'
  BY <1>1, TaskletFacts
  DEF TypeOK, Places, WaitsOK, MutexOK, CountOK, InSubkernel, SigReturn, Goto, runtime
<1>5. Pending' = Pending
  BY <1>1, TaskletFacts
  DEF TypeOK, Places, WaitsOK, CountOK, InSubkernel, Pending, SigReturn, Goto, runtime
<1>6. CountOK'
  BY <1>1, <1>5, TaskletFacts
  DEF TypeOK, Places, WaitsOK, MutexOK, CountOK, CheckOK, InSubkernel, SigReturn, Goto,
      runtime
<1>7. ExitOK'
  BY <1>1, TaskletFacts
  DEF TypeOK, Places, WaitsOK, ExitOK, AboutToStop, SigReturn, Goto, runtime
<1>8. CheckOK'
  BY <1>1, TaskletFacts
  DEF TypeOK, Places, WaitsOK, ExitOK, CheckOK, Parked, AboutToStop, SigReturn, Goto, runtime
<1>9. WaitsOK'
  BY <1>1, TaskletFacts
  DEF TypeOK, Places, WaitsOK, CountOK, CheckOK, ExitOK, AboutToStop, InSubkernel,
      SigReturn, Goto, runtime
<1>10. QED
  BY <1>2, <1>3, <1>4, <1>6, <1>7, <1>8, <1>9 DEF LifeInv, SigReturn, Goto, runtime

LEMMA AcquirePreserves ==
  ASSUME LifeInv, ~ fault, NEW t \in Tasklets, Acquire(t)
  PROVE  LifeInv'
<1>1. TypeOK /\ Places /\ WaitsOK /\ MutexOK /\ CountOK /\ ExitOK /\ CheckOK
  BY DEF LifeInv
<1>2. TypeOK'
  BY <1>1, TaskletFacts DEF TypeOK, Places, WaitsOK, Locations, Acquire, Goto, runtime
<1>3. Places'
  BY <1>1, TaskletFacts DEF TypeOK, Places, WaitsOK, Locations, CheckOK, Acquire, Goto, runtime
<1>4. MutexOK'
  BY <1>1, TaskletFacts
  DEF TypeOK, Places, WaitsOK, MutexOK, CountOK, InSubkernel, Acquire, Goto, runtime
<1>5. Pending' = Pending
  BY <1>1, TaskletFacts
  DEF TypeOK, Places, WaitsOK, CountOK, InSubkernel, Pending, Acquire, Goto, runtime
<1>6. CountOK'
  <2>1. pc[0] # "reset"
    BY <1>1, TaskletFacts DEF TypeOK, Places, WaitsOK, CountOK, InSubkernel, Pending, Acquire
  <2>2. QED
    BY <1>1, <1>5, <2>1, TaskletFacts DEF TypeOK, Places, WaitsOK, CountOK, InSubkernel, Acquire, Goto
<1>7. ExitOK'
  BY <1>1, TaskletFacts DEF TypeOK, Places, WaitsOK, ExitOK, AboutToStop, Acquire, Goto, runtime
<1>8. CheckOK'
  BY <1>1, TaskletFacts
  DEF TypeOK, Places, WaitsOK, ExitOK, CheckOK, Parked, AboutToStop, Acquire, Goto, runtime
<1>9. WaitsOK'
  BY <1>1, TaskletFacts
  DEF TypeOK, Places, WaitsOK, CountOK, CheckOK, ExitOK, AboutToStop, InSubkernel,
      Acquire, Goto, runtime
<1>10. QED
  BY <1>2, <1>3, <1>4, <1>6, <1>7, <1>8, <1>9 DEF LifeInv, Acquire, Goto, runtime

LEMMA UnlockPreserves ==
  ASSUME LifeInv, ~ fault, NEW t \in Tasklets, Unlock(t)
  PROVE  LifeInv'
<1>1. TypeOK /\ Places /\ WaitsOK /\ MutexOK /\ CountOK /\ ExitOK /\ CheckOK
  BY DEF LifeInv
<1>2. TypeOK'
  BY <1>1, TaskletFacts DEF TypeOK, Places, WaitsOK, Locations, Unlock, Goto, runtime
<1>3. Places'
  BY <1>1, TaskletFacts DEF TypeOK, Places, WaitsOK, Locations, CheckOK, Unlock, Goto, runtime
<1>4. MutexOK'
  BY <1>1, TaskletFacts
  DEF TypeOK, Places, WaitsOK, MutexOK, CountOK, InSubkernel, Unlock, Goto, runtime
<1>5. Pending' = Pending
  BY <1>1, TaskletFacts
  DEF TypeOK, Places, WaitsOK, CountOK, InSubkernel, Pending, Unlock, Goto, runtime
<1>6. CountOK'
  BY <1>1, <1>5, TaskletFacts
  DEF TypeOK, Places, WaitsOK, MutexOK, CountOK, CheckOK, InSubkernel, Unlock, Goto, runtime
<1>7. ExitOK'
  BY <1>1, TaskletFacts DEF TypeOK, Places, WaitsOK, ExitOK, AboutToStop, Unlock, Goto, runtime
<1>8. CheckOK'
  BY <1>1, TaskletFacts
  DEF TypeOK, Places, WaitsOK, ExitOK, CheckOK, Parked, AboutToStop, Unlock, Goto, runtime
<1>9. WaitsOK'
  BY <1>1, TaskletFacts
  DEF TypeOK, Places, WaitsOK, CountOK, CheckOK, ExitOK, AboutToStop, InSubkernel,
      Unlock, Goto, runtime
<1>10. QED
  BY <1>2, <1>3, <1>4, <1>6, <1>7, <1>8, <1>9 DEF LifeInv, Unlock, Goto, runtime

LEMMA StopSelfPreserves ==
  ASSUME LifeInv, ~ fault, NEW t \in Tasklets, StopSelf(t)
  PROVE  LifeInv'
<1>1. TypeOK /\ Places /\ WaitsOK /\ MutexOK /\ CountOK /\ ExitOK /\ CheckOK
  BY DEF LifeInv
<1>2. TypeOK'
  BY <1>1, TaskletFacts DEF TypeOK, Places, WaitsOK, Locations, StopSelf, Stop, Goto, runtime
<1>3. Places'
  BY <1>1, TaskletFacts
  DEF TypeOK, Places, WaitsOK, Locations, CheckOK, StopSelf, Stop, Goto, runtime
<1>4. MutexOK'
  BY <1>1, TaskletFacts
  DEF TypeOK, Places, WaitsOK, MutexOK, CountOK, InSubkernel, StopSelf, Stop, Goto, runtime
<1>5. Pending' = Pending
  BY <1>1, TaskletFacts
  DEF TypeOK, Places, WaitsOK, CountOK, InSubkernel, Pending, StopSelf, Stop, Goto, runtime
<1>6. CountOK'
  BY <1>1, <1>5, TaskletFacts
  DEF TypeOK, Places, WaitsOK, MutexOK, CountOK, CheckOK, InSubkernel, StopSelf, Stop, Goto,
      runtime
<1>7. ExitOK'
  BY <1>1, TaskletFacts
  DEF TypeOK, Places, WaitsOK, ExitOK, AboutToStop, StopSelf, Stop, Goto, runtime
<1>8. CheckOK'
  BY <1>1, TaskletFacts
  DEF TypeOK, Places, WaitsOK, ExitOK, CheckOK, Parked, AboutToStop, StopSelf, Stop, Goto, runtime
<1>9. WaitsOK'
  BY <1>1, TaskletFacts
  DEF TypeOK, Places, WaitsOK, CountOK, CheckOK, ExitOK, AboutToStop, InSubkernel,
      StopSelf, Stop, Goto, runtime
<1>10. QED
  BY <1>2, <1>3, <1>4, <1>6, <1>7, <1>8, <1>9 DEF LifeInv, StopSelf, Stop, Goto, runtime

LEMMA StopInLoaderPreserves ==
  ASSUME LifeInv, ~ fault, NEW t \in Tasklets, StopInLoader(t)
  PROVE  LifeInv'
<1>1. TypeOK /\ Places /\ WaitsOK /\ MutexOK /\ CountOK /\ ExitOK /\ CheckOK
  BY DEF LifeInv
<1>2. TypeOK'
  BY <1>1, TaskletFacts DEF TypeOK, Places, WaitsOK, Locations, StopInLoader, Stop, Goto, runtime
<1>3. Places'
  BY <1>1, TaskletFacts
  DEF TypeOK, Places, WaitsOK, Locations, CheckOK, StopInLoader, Stop, Goto, runtime
<1>4. MutexOK'
  BY <1>1, TaskletFacts
  DEF TypeOK, Places, WaitsOK, MutexOK, CountOK, InSubkernel, StopInLoader, Stop, Goto, runtime
<1>5. Pending' = Pending
  BY <1>1, TaskletFacts
  DEF TypeOK, Places, WaitsOK, CountOK, InSubkernel, Pending, StopInLoader, Stop, Goto, runtime
<1>6. CountOK'
  BY <1>1, <1>5, TaskletFacts
  DEF TypeOK, Places, WaitsOK, MutexOK, CountOK, CheckOK, InSubkernel, StopInLoader, Stop, Goto,
      runtime
<1>7. ExitOK'
  BY <1>1, TaskletFacts
  DEF TypeOK, Places, WaitsOK, ExitOK, AboutToStop, StopInLoader, Stop, Goto, runtime
<1>8. CheckOK'
  BY <1>1, TaskletFacts
  DEF TypeOK, Places, WaitsOK, ExitOK, CheckOK, Parked, AboutToStop, StopInLoader, Stop, Goto,
      runtime
<1>9. WaitsOK'
  BY <1>1, TaskletFacts
  DEF TypeOK, Places, WaitsOK, CountOK, CheckOK, ExitOK, AboutToStop, InSubkernel,
      StopInLoader, Stop, Goto, runtime
<1>10. QED
  BY <1>2, <1>3, <1>4, <1>6, <1>7, <1>8, <1>9 DEF LifeInv, StopInLoader, Stop, Goto, runtime

LEMMA ReadCountPreserves ==
  ASSUME LifeInv, ~ fault, ReadCount
  PROVE  LifeInv'
<1>1. TypeOK /\ Places /\ WaitsOK /\ MutexOK /\ CountOK /\ ExitOK /\ CheckOK
  BY DEF LifeInv
<1>2. TypeOK'
  BY <1>1, TaskletFacts DEF TypeOK, Places, WaitsOK, Locations, ReadCount, Goto, runtime
<1>3. Places'
  BY <1>1, TaskletFacts DEF TypeOK, Places, WaitsOK, Locations, CheckOK, ReadCount, Goto, runtime
<1>4. MutexOK'
  BY <1>1, TaskletFacts
  DEF TypeOK, Places, WaitsOK, MutexOK, CountOK, InSubkernel, ReadCount, Goto, runtime
<1>5. Pending' = Pending
  BY <1>1, TaskletFacts
  DEF TypeOK, Places, WaitsOK, CountOK, InSubkernel, Pending, ReadCount, Goto, runtime
<1>6. CountOK'
  BY <1>1, <1>5, PendingIsFinite, TaskletFacts
  DEF TypeOK, Places, WaitsOK, CountOK, InSubkernel, ReadCount, Goto, runtime
<1>7. ExitOK'
  BY <1>1, TaskletFacts DEF TypeOK, Places, WaitsOK, ExitOK, AboutToStop, ReadCount, Goto, runtime
<1>8. CheckOK'
  BY <1>1, TaskletFacts
  DEF TypeOK, Places, WaitsOK, ExitOK, CheckOK, Parked, AboutToStop, ReadCount, Goto, runtime
<1>9. WaitsOK'
  BY <1>1, TaskletFacts
  DEF TypeOK, Places, WaitsOK, CountOK, CheckOK, ExitOK, AboutToStop, InSubkernel,
      ReadCount, Goto, runtime
<1>10. QED
  BY <1>2, <1>3, <1>4, <1>6, <1>7, <1>8, <1>9 DEF LifeInv, ReadCount, Goto, runtime

LEMMA ResetAtomicPreserves ==
  ASSUME LifeInv, ~ fault, ResetAtomic
  PROVE  LifeInv'
<1>1. TypeOK /\ Places /\ WaitsOK /\ MutexOK /\ CountOK /\ ExitOK /\ CheckOK
  BY DEF LifeInv
<1>2. TypeOK'
  BY <1>1, TaskletFacts DEF TypeOK, Places, WaitsOK, Locations, ResetAtomic, Goto, runtime
<1>3. Places'
  BY <1>1, TaskletFacts DEF TypeOK, Places, WaitsOK, Locations, CheckOK, ResetAtomic, Goto, runtime
<1>4. MutexOK'
  BY <1>1, TaskletFacts
  DEF TypeOK, Places, WaitsOK, MutexOK, CountOK, InSubkernel, ResetAtomic, Goto, runtime
<1>5. Pending' = Pending
  BY <1>1, TaskletFacts
  DEF TypeOK, Places, WaitsOK, CountOK, InSubkernel, Pending, ResetAtomic, Goto, runtime
<1>6. CountOK'
  BY <1>1, <1>5, TaskletFacts
  DEF TypeOK, Places, WaitsOK, MutexOK, CountOK, CheckOK, InSubkernel, ResetAtomic, Goto, runtime
<1>7. ExitOK'
  BY <1>1, TaskletFacts
  DEF TypeOK, Places, WaitsOK, MutexOK, CountOK, InSubkernel, Pending, ExitOK, AboutToStop,
      ResetAtomic, Goto, runtime
<1>8. CheckOK'
  BY <1>1, TaskletFacts
  DEF TypeOK, Places, WaitsOK, ExitOK, CheckOK, Parked, AboutToStop, ResetAtomic, Goto, runtime
<1>9. WaitsOK'
  BY <1>1, TaskletFacts
  DEF TypeOK, Places, WaitsOK, CountOK, CheckOK, ExitOK, AboutToStop, InSubkernel,
      ResetAtomic, Goto, runtime
<1>10. QED
  BY <1>2, <1>3, <1>4, <1>6, <1>7, <1>8, <1>9 DEF LifeInv, ResetAtomic, Goto, runtime

LEMMA ReplaceFromMainPreserves ==
  ASSUME LifeInv, ~ fault, ReplaceFromMain
  PROVE  LifeInv'
<1>1. TypeOK /\ Places /\ WaitsOK /\ MutexOK /\ CountOK /\ ExitOK /\ CheckOK
  BY DEF LifeInv
<1>2. TypeOK'
  BY <1>1, TaskletFacts DEF TypeOK, Places, WaitsOK, Locations, ReplaceFromMain, Goto, runtime
<1>3. Places'
  BY <1>1, TaskletFacts
  DEF TypeOK, Places, WaitsOK, Locations, CheckOK, ReplaceFromMain, Goto, runtime
<1>4. MutexOK'
  BY <1>1, TaskletFacts
  DEF TypeOK, Places, WaitsOK, MutexOK, CountOK, InSubkernel, ReplaceFromMain, Goto, runtime
<1>5. Pending' = Pending
  BY <1>1, TaskletFacts
  DEF TypeOK, Places, WaitsOK, CountOK, InSubkernel, Pending, ReplaceFromMain, Goto, runtime
<1>6. CountOK'
  BY <1>1, <1>5, TaskletFacts
  DEF TypeOK, Places, WaitsOK, MutexOK, CountOK, CheckOK, InSubkernel, ReplaceFromMain, Goto,
      runtime
<1>7. ExitOK'
  BY <1>1, TaskletFacts
  DEF TypeOK, Places, WaitsOK, ExitOK, AboutToStop, ReplaceFromMain, Goto, runtime
<1>8. CheckOK'
  BY <1>1, TaskletFacts
  DEF TypeOK, Places, WaitsOK, ExitOK, CheckOK, Parked, AboutToStop, ReplaceFromMain, Goto, runtime
<1>9. WaitsOK'
  BY <1>1, TaskletFacts
  DEF TypeOK, Places, WaitsOK, CountOK, CheckOK, ExitOK, AboutToStop, InSubkernel,
      ReplaceFromMain, Goto, runtime
<1>10. QED
  BY <1>2, <1>3, <1>4, <1>6, <1>7, <1>8, <1>9 DEF LifeInv, ReplaceFromMain, Goto, runtime

LEMMA Boot1Preserves ==
  ASSUME LifeInv, ~ fault, Boot1
  PROVE  LifeInv'
<1>1. TypeOK /\ Places /\ WaitsOK /\ MutexOK /\ CountOK /\ ExitOK /\ CheckOK
  BY DEF LifeInv
<1>2. TypeOK'
  BY <1>1, TaskletFacts DEF TypeOK, Places, WaitsOK, Locations, Boot1, BootThread, Goto, runtime
<1>3. Places'
  BY <1>1, TaskletFacts
  DEF TypeOK, Places, WaitsOK, Locations, CheckOK, Boot1, BootThread, Goto, runtime
<1>4. MutexOK'
  BY <1>1, TaskletFacts
  DEF TypeOK, Places, WaitsOK, MutexOK, CountOK, InSubkernel, Boot1, BootThread, Goto, runtime
<1>5. Pending' = Pending
  BY <1>1, TaskletFacts
  DEF TypeOK, Places, WaitsOK, CountOK, InSubkernel, Pending, Boot1, BootThread, Goto, runtime
<1>6. CountOK'
  BY <1>1, <1>5, TaskletFacts
  DEF TypeOK, Places, WaitsOK, MutexOK, CountOK, CheckOK, InSubkernel, Boot1, BootThread, Goto,
      runtime
<1>7. ExitOK'
  BY <1>1, TaskletFacts
  DEF TypeOK, Places, WaitsOK, ExitOK, AboutToStop, Boot1, BootThread, Goto, runtime
<1>8. CheckOK'
  BY <1>1, TaskletFacts
  DEF TypeOK, Places, WaitsOK, ExitOK, CheckOK, Parked, AboutToStop, Boot1, BootThread, Goto,
      runtime
<1>9. WaitsOK'
  BY <1>1, TaskletFacts
  DEF TypeOK, Places, WaitsOK, CountOK, CheckOK, ExitOK, AboutToStop, InSubkernel,
      Boot1, BootThread, Goto, runtime
<1>10. QED
  BY <1>2, <1>3, <1>4, <1>6, <1>7, <1>8, <1>9 DEF LifeInv, Boot1, BootThread, Goto, runtime

LEMMA Delay1Preserves ==
  ASSUME LifeInv, ~ fault, Delay1
  PROVE  LifeInv'
<1>1. TypeOK /\ Places /\ WaitsOK /\ MutexOK /\ CountOK /\ ExitOK /\ CheckOK
  BY DEF LifeInv
<1>2. TypeOK'
  BY <1>1, TaskletFacts DEF TypeOK, Places, WaitsOK, Locations, Delay1, Goto, runtime
<1>3. Places'
  BY <1>1, TaskletFacts DEF TypeOK, Places, WaitsOK, Locations, CheckOK, Delay1, Goto, runtime
<1>4. MutexOK'
  BY <1>1, TaskletFacts
  DEF TypeOK, Places, WaitsOK, MutexOK, CountOK, InSubkernel, Delay1, Goto, runtime
<1>5. Pending' = Pending
  BY <1>1, TaskletFacts
  DEF TypeOK, Places, WaitsOK, CountOK, InSubkernel, Pending, Delay1, Goto, runtime
<1>6. CountOK'
  BY <1>1, <1>5, TaskletFacts
  DEF TypeOK, Places, WaitsOK, MutexOK, CountOK, CheckOK, InSubkernel, Delay1, Goto, runtime
<1>7. ExitOK'
  BY <1>1, TaskletFacts DEF TypeOK, Places, WaitsOK, ExitOK, AboutToStop, Delay1, Goto, runtime
<1>8. CheckOK'
  BY <1>1, TaskletFacts
  DEF TypeOK, Places, WaitsOK, ExitOK, CheckOK, Parked, AboutToStop, Delay1, Goto, runtime
<1>9. WaitsOK'
  BY <1>1, TaskletFacts
  DEF TypeOK, Places, WaitsOK, CountOK, CheckOK, ExitOK, AboutToStop, InSubkernel,
      Delay1, Goto, runtime
<1>10. QED
  BY <1>2, <1>3, <1>4, <1>6, <1>7, <1>8, <1>9 DEF LifeInv, Delay1, Goto, runtime

LEMMA Delay2Preserves ==
  ASSUME LifeInv, ~ fault, Delay2
  PROVE  LifeInv'
<1>1. TypeOK /\ Places /\ WaitsOK /\ MutexOK /\ CountOK /\ ExitOK /\ CheckOK
  BY DEF LifeInv
<1>2. TypeOK'
  BY <1>1, TaskletFacts DEF TypeOK, Places, WaitsOK, Locations, Delay2, Goto, runtime
<1>3. Places'
  BY <1>1, TaskletFacts DEF TypeOK, Places, WaitsOK, Locations, CheckOK, Delay2, Goto, runtime
<1>4. MutexOK'
  BY <1>1, TaskletFacts
  DEF TypeOK, Places, WaitsOK, MutexOK, CountOK, InSubkernel, Delay2, Goto, runtime
<1>5. Pending' = Pending
  BY <1>1, TaskletFacts
  DEF TypeOK, Places, WaitsOK, CountOK, InSubkernel, Pending, Delay2, Goto, runtime
<1>6. CountOK'
  BY <1>1, <1>5, TaskletFacts
  DEF TypeOK, Places, WaitsOK, MutexOK, CountOK, CheckOK, InSubkernel, Delay2, Goto, runtime
<1>7. ExitOK'
  BY <1>1, TaskletFacts DEF TypeOK, Places, WaitsOK, ExitOK, AboutToStop, Delay2, Goto, runtime
<1>8. CheckOK'
  BY <1>1, TaskletFacts
  DEF TypeOK, Places, WaitsOK, ExitOK, CheckOK, Parked, AboutToStop, Delay2, Goto, runtime
<1>9. WaitsOK'
  BY <1>1, TaskletFacts
  DEF TypeOK, Places, WaitsOK, CountOK, CheckOK, ExitOK, AboutToStop, InSubkernel,
      Delay2, Goto, runtime
<1>10. QED
  BY <1>2, <1>3, <1>4, <1>6, <1>7, <1>8, <1>9 DEF LifeInv, Delay2, Goto, runtime

LEMMA ResumePreserves ==
  ASSUME LifeInv, ~ fault, Resume
  PROVE  LifeInv'
<1>1. TypeOK /\ Places /\ WaitsOK /\ MutexOK /\ CountOK /\ ExitOK /\ CheckOK
  BY DEF LifeInv
<1>2. TypeOK'
  BY <1>1, TaskletFacts DEF TypeOK, Places, WaitsOK, Locations, Resume, Goto, runtime
<1>3. Places'
  BY <1>1, TaskletFacts DEF TypeOK, Places, WaitsOK, Locations, CheckOK, Resume, Goto, runtime
<1>4. MutexOK'
  BY <1>1, TaskletFacts
  DEF TypeOK, Places, WaitsOK, MutexOK, CountOK, InSubkernel, Resume, Goto, runtime
<1>5. Pending' = Pending
  BY <1>1, TaskletFacts
  DEF TypeOK, Places, WaitsOK, CountOK, InSubkernel, Pending, Resume, Goto, runtime
<1>6. CountOK'
  BY <1>1, <1>5, TaskletFacts
  DEF TypeOK, Places, WaitsOK, MutexOK, CountOK, CheckOK, InSubkernel, Resume, Goto, runtime
<1>7. ExitOK'
  BY <1>1, TaskletFacts DEF TypeOK, Places, WaitsOK, ExitOK, AboutToStop, Resume, Goto, runtime
<1>8. CheckOK'
  BY <1>1, TaskletFacts
  DEF TypeOK, Places, WaitsOK, ExitOK, CheckOK, Parked, AboutToStop, Resume, Goto, runtime
<1>9. WaitsOK'
  BY <1>1, TaskletFacts
  DEF TypeOK, Places, WaitsOK, CountOK, CheckOK, ExitOK, AboutToStop, InSubkernel,
      Resume, Goto, runtime
<1>10. QED
  BY <1>2, <1>3, <1>4, <1>6, <1>7, <1>8, <1>9 DEF LifeInv, Resume, Goto, runtime

\* A tasklet that counts itself down was pending and is not any more.
LEMMA CountDownPreserves ==
  ASSUME LifeInv, ~ fault, NEW t \in Tasklets, CountDown(t)
  PROVE  LifeInv'
<1>1. TypeOK /\ Places /\ WaitsOK /\ MutexOK /\ CountOK /\ ExitOK /\ CheckOK
  BY DEF LifeInv
<1>2. t \in Others /\ t \in Pending
  BY <1>1, TaskletFacts DEF TypeOK, Places, WaitsOK, Pending, CountDown
<1>3. Pending' = Pending \ {t}
  BY <1>1, <1>2, TaskletFacts
  DEF TypeOK, Places, WaitsOK, CountOK, InSubkernel, Pending, CountDown, Goto
<1>4. Cardinality(Pending') = Cardinality(Pending) - 1
  BY <1>2, <1>3, PendingIsFinite, FS_RemoveElement
<1>5. Cardinality(Pending) >= 1 /\ Cardinality(Pending) \in Nat
  BY <1>2, PendingIsFinite
<1>6. TypeOK'
  BY <1>1, <1>5, TaskletFacts DEF TypeOK, CountOK, Locations, CountDown, Goto
<1>7. Places'
  BY <1>1, <1>2, TaskletFacts DEF TypeOK, Places, WaitsOK, CountDown, Goto
<1>8. MutexOK'
  BY <1>1, TaskletFacts DEF TypeOK, MutexOK, CountDown, Goto
<1>9. pc[0] \notin {"reset"} /\ (pc[0] = "unlock" => FALSE)
  BY <1>1, <1>2, TaskletFacts DEF TypeOK, MutexOK, CountOK, InSubkernel, CountDown
<1>10. CountOK'
  BY <1>1, <1>2, <1>4, <1>5, <1>9, TaskletFacts
  DEF TypeOK, Places, WaitsOK, CountOK, InSubkernel, CountDown, Goto
<1>11. ExitOK' /\ CheckOK'
  BY <1>1, <1>2, TaskletFacts
  DEF TypeOK, Places, WaitsOK, ExitOK, CheckOK, Parked, AboutToStop, CountDown, Goto
<1>12. WaitsOK'
  BY <1>1, <1>2, TaskletFacts DEF TypeOK, Places, WaitsOK, CountDown, Goto
<1>13. QED
  BY <1>6, <1>7, <1>8, <1>10, <1>11, <1>12 DEF LifeInv, CountDown

\* The second round of boots either parks a stopped thread or stops the DPU.
LEMMA Boot2Preserves ==
  ASSUME LifeInv, ~ fault, Boot2
  PROVE  LifeInv'
<1>1. TypeOK /\ Places /\ WaitsOK /\ MutexOK /\ CountOK /\ ExitOK /\ CheckOK
  BY DEF LifeInv
<1>2. CASE ~ run[r] /\ BootThread("boot2", "delay2") /\ UNCHANGED <<runtime, fault>>
  <2>1. TypeOK'
    BY <1>1, <1>2, TaskletFacts DEF TypeOK, Locations, BootThread, runtime
  <2>2. Places'
    BY <1>1, <1>2, TaskletFacts DEF TypeOK, Places, WaitsOK, BootThread, runtime
  <2>3. MutexOK'
    BY <1>1, <1>2, TaskletFacts DEF TypeOK, Places, WaitsOK, MutexOK, BootThread, runtime
  <2>4. Pending' = Pending
    BY <1>1, <1>2, TaskletFacts DEF TypeOK, Places, WaitsOK, Pending, BootThread, runtime
  <2>5. CountOK'
    BY <1>1, <1>2, <2>4, TaskletFacts DEF TypeOK, CountOK, InSubkernel, BootThread, runtime
  <2>6. ExitOK'
    BY <1>1, <1>2, TaskletFacts DEF TypeOK, Places, WaitsOK, ExitOK, AboutToStop, BootThread, runtime
  <2>7. CheckOK'
    BY <1>1, <1>2, TaskletFacts DEF TypeOK, Places, WaitsOK, CheckOK, Parked, BootThread, runtime
  <2>8. WaitsOK'
    BY <1>1, <1>2, TaskletFacts DEF TypeOK, Places, WaitsOK, CheckOK, BootThread, runtime
  <2>9. QED
    BY <1>2, <2>1, <2>2, <2>3, <2>5, <2>6, <2>7, <2>8 DEF LifeInv
<1>3. CASE /\ pc[0] = "boot2" /\ run[r] /\ fault' = TRUE
           /\ run' = [t \in Tasklets |-> FALSE] /\ UNCHANGED <<pc, runtime, r>>
  <2>1. direct
    BY <1>1, <1>3, TaskletFacts DEF TypeOK, CheckOK
  <2>2. TypeOK'
    BY <1>1, <1>3 DEF TypeOK, runtime
  <2>3. QED
    BY <1>3, <2>1, <2>2 DEF LifeInv, runtime
<1>4. QED
  BY <1>2, <1>3 DEF Boot2

\* The new subkernel brings its own __ime_tasklet_count.
LEMMA LoadPreserves ==
  ASSUME LifeInv, ~ fault, Load
  PROVE  LifeInv'
<1>1. TypeOK /\ Places /\ WaitsOK /\ MutexOK /\ CountOK /\ ExitOK /\ CheckOK
  BY DEF LifeInv
<1>2. TypeOK'
  BY <1>1, TaskletFacts DEF TypeOK, Locations, Load, Goto
<1>3. \A t \in Others : pc[t] = "start" /\ ~ run[t] /\ t \notin lneg
  BY <1>1 DEF Places, WaitsOK, CheckOK, Load
<1>4. Places'
  BY <1>1, <1>3, TaskletFacts DEF TypeOK, Places, WaitsOK, Load, Goto
<1>5. MutexOK'
  BY <1>1, <1>3, TaskletFacts DEF TypeOK, MutexOK, Load, Goto
<1>6. Pending' = 1 .. used' - 1
  BY <1>2, <1>3, TaskletFacts DEF TypeOK, Pending, Others, Load
<1>7. count' = 1 + Cardinality(Pending') /\ Cardinality(Pending') <= count'
  <2>1. used' \in Nat /\ used' >= 1
    BY <1>2, TaskletFacts DEF TypeOK
  <2>2. /\ used' = 1 + Cardinality(1 .. used' - 1)
        /\ Cardinality(1 .. used' - 1) <= used'
    BY <2>1, CardinalityBelow
  <2>3. count' = used'
    BY DEF Load
  <2>4. QED
    BY <1>6, <2>2, <2>3, Zenon
<1>8. CountOK'
  <2>1. pc'[0] = "resume" /\ \A t \in Others : pc'[t] = "start" /\ t \notin ran'
    BY <1>1, <1>3, TaskletFacts DEF TypeOK, Load, Goto
  <2>2. QED
    BY <1>7, <2>1 DEF CountOK, InSubkernel
<1>9. ExitOK' /\ CheckOK'
  BY <1>1, <1>3, TaskletFacts DEF TypeOK, ExitOK, CheckOK, Load, Goto
<1>10. WaitsOK'
  BY <1>1, <1>3, TaskletFacts DEF TypeOK, WaitsOK, Load, Goto
<1>11. QED
  BY <1>2, <1>4, <1>5, <1>8, <1>9, <1>10 DEF LifeInv, Load

-----------------------------------------------------------------------------
\* The invariant of every execution: types, the mutex, and the agreement of
\* __ime_tasklet_count with the tasklets that still run (ime.c, core_thrd.s).
THEOREM LifeInvariant == Spec => []LifeInv
<1>1. Init => LifeInv
  BY InitEstablishesInv
<1>2. LifeInv /\ [Next]_vars => LifeInv'
  <2> SUFFICES ASSUME LifeInv, [Next]_vars PROVE LifeInv'
    OBVIOUS
  <2>1. CASE UNCHANGED vars
    BY <2>1 DEF vars, LifeInv, TypeOK, Places, WaitsOK, MutexOK, CountOK, InSubkernel, Pending, WaitsOK,
      ExitOK, CheckOK, AboutToStop, Parked
  <2>2. CASE ~ fault /\ \E t \in Tasklets : Thread(t) \/ Acquire(t)
    BY <2>2, StopUnusedPreserves, EnterMainPreserves, SigReturnPreserves,
      CountDownPreserves, UnlockPreserves, StopSelfPreserves, StopInLoaderPreserves,
      AcquirePreserves DEF Thread
  <2>3. CASE ~ fault /\ Tasklet0
    BY <2>3, ReadCountPreserves, ResetAtomicPreserves, Boot1Preserves, Delay1Preserves,
      Boot2Preserves, Delay2Preserves, LoadPreserves, ResumePreserves DEF Tasklet0, Loader
  <2>4. CASE ~ fault /\ ReplaceFromMain
    BY <2>4, ReplaceFromMainPreserves
  <2>5. CASE ~ fault /\ \E t \in Tasklets : ReturnFromMain(t) \/ WaitForHost(t)
    BY <2>5, ReturnFromMainPreserves, WaitForHostPreserves
  <2>6. QED
    BY <2>1, <2>2, <2>3, <2>4, <2>5 DEF Next, Halted
<1>3. QED
  BY <1>1, <1>2, PTL DEF Spec

\* After the thread check no other thread runs while IRAM and WRAM are
\* replaced (core_thrd.s:4-27, core_load.S:75-102).
THEOREM ExclusiveLoad == Spec => []LoadIsExclusive
<1>1. LifeInv => LoadIsExclusive
  BY DEF LifeInv, Places, CheckOK, LoadIsExclusive
<1>2. QED
  BY <1>1, LifeInvariant, PTL

\* The reset of the mutexes takes none from a tasklet that holds or will
\* want one (boot.s:19-20).
THEOREM SafeReset == Spec => []ResetIsSafe
<1>1. LifeInv => ResetIsSafe
  <2> SUFFICES ASSUME LifeInv, pc[0] = "reset"
               PROVE  /\ lock = {}
                      /\ \A t \in Others :
                           pc[t] \notin {"main", "lock", "count", "unlock"} /\ t \notin lneg
    BY DEF ResetIsSafe
  <2>1. Pending = {} /\ lock = {}
    BY DEF LifeInv, CountOK, InSubkernel
  <2>2. QED
    BY <2>1, TaskletFacts DEF LifeInv, Places, WaitsOK, MutexOK, Pending
<1>2. QED
  BY <1>1, LifeInvariant, PTL

\* A subkernel that returns from main() is replaced after all its tasklets
\* have run main() to the end (ime.c:11-29).
THEOREM AllMainsComplete == Spec => []MainsComplete
<1>1. LifeInv => MainsComplete
  <2> SUFFICES ASSUME LifeInv,
                      pc[0] \in {"reset", "boot1", "delay1", "boot2", "delay2", "load"}, ~ direct
               PROVE  /\ \A t \in Tasklets : t < used => t \in ran
                      /\ \A t \in Others : pc[t] # "main" /\ t \notin lneg
    BY DEF MainsComplete
  <2>1. CASE pc[0] = "reset"
    <3>1. Pending = {}
      BY <2>1 DEF LifeInv, CountOK, InSubkernel
    <3>2. QED
      BY <2>1, <3>1, TaskletFacts DEF LifeInv, Places, WaitsOK, Pending
  <2>2. CASE pc[0] # "reset"
    BY <2>2, TaskletFacts DEF LifeInv, ExitOK, AboutToStop
  <2>3. QED
    BY <2>1, <2>2
<1>2. QED
  BY <1>1, LifeInvariant, PTL

\* The thread check faults only on a subkernel that left main() directly.
THEOREM FaultsAreCaused == Spec => []NoSpuriousFault
<1>1. LifeInv => NoSpuriousFault
  BY DEF LifeInv, NoSpuriousFault
<1>2. QED
  BY <1>1, LifeInvariant, PTL

=============================================================================
