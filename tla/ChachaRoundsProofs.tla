------------------------- MODULE ChachaRoundsProofs -------------------------
(***************************************************************************)
(* The run bits count to ten: the serial case of ChachaRounds, for any     *)
(* number of tasklets, any run bits at power-on and any sequence of calls. *)
(***************************************************************************)
EXTENDS ChachaRounds, TLAPS

LEMMA ThreadFacts ==
  /\ 0 \in Tasklets /\ Tasklets \subseteq Threads
  /\ ChachaThread \in Threads /\ ChachaThread \notin Tasklets
  /\ Threads = Tasklets \cup {ChachaThread}
BY NAssumption DEF Tasklets, Threads, ChachaThread

\* What Program has at each location.
InstrNames == {"zero24", "zero25", "zero26", "zero27", "test27", "inc24", "carry24",
               "inc25", "carry25", "inc26", "carry26", "inc27", "lt8a", "lt8b"}

LEMMA ProgramDomain == DOMAIN Program = InstrNames
BY DEF Program, InstrNames

LEMMA ProgramTypes ==
  \A l \in InstrNames :
    /\ Program[l].bit \in Counter
    /\ Program[l].ifSet \in Locations /\ Program[l].ifClear \in Locations
BY ProgramDomain DEF Program, InstrNames, Instr, Counter, Locations

LEMMA InitEstablishesInv == Init => RoundInv
BY ThreadFacts, BlocksAssumption DEF Init, RoundInv, TypeOK, SerialInv, OnePass, CountOK, UserCountOK,
  Locations, MaxRounds, DoubleRounds, Free

LEMMA TypesArePreserved == TypeOK /\ [Next]_vars => TypeOK'
<1> SUFFICES ASSUME TypeOK, [Next]_vars PROVE TypeOK'
  OBVIOUS
<1> USE ThreadFacts, BlocksAssumption DEF TypeOK, MaxRounds, DoubleRounds
<1>1. CASE CallSystemKey
  BY <1>1, ProgramDomain DEF CallSystemKey, Locations, InstrNames
<1>2. CASE EndSystemKey
  BY <1>2 DEF EndSystemKey, Locations
<1>3. ASSUME NEW t \in Tasklets, CallUserKey(t) PROVE TypeOK'
  BY <1>3 DEF CallUserKey, Locations
<1>4. ASSUME NEW t \in Tasklets, EndUserKey(t) PROVE TypeOK'
  BY <1>4 DEF EndUserKey, Locations
<1>5. ASSUME NEW t \in Threads, Body(t) PROVE TypeOK'
  BY <1>5, ProgramDomain DEF Body, Locations, InstrNames
<1>6. ASSUME NEW t \in Threads, Execute(t) PROVE TypeOK'
  <2>1. pc[t] \in InstrNames
    BY <1>6, ProgramDomain DEF Execute
  <2>2. QED
    BY <1>6, <2>1, ProgramTypes DEF Execute
<1>7. CASE UNCHANGED vars
  BY <1>7 DEF vars
<1>8. QED
  BY <1>1, <1>2, <1>3, <1>4, <1>5, <1>6, <1>7 DEF Next, Compute

-----------------------------------------------------------------------------
\* A thread that computes is alone, but for tasklet 0 waiting for thread 22.
LEMMA Alone ==
  ASSUME TypeOK, OnePass, NEW t \in Threads, pc[t] \notin {"idle", "wait"}
  PROVE  \A s \in Threads \ {t} :
           IF t = ChachaThread /\ s = 0 THEN pc[s] = "wait" ELSE pc[s] = "idle"
BY ThreadFacts DEF TypeOK, OnePass, ChachaThread

\* Thread 22 executes one instruction of the counter.
LEMMA SystemExecute ==
  ASSUME TypeOK, CountOK(ChachaThread), Execute(ChachaThread)
  PROVE  CountOK(ChachaThread)' /\ pc'[ChachaThread] \notin {"idle", "wait"}
<1> DEFINE at == pc[ChachaThread]
           k == rounds[ChachaThread]
<1>0. ChachaThread \in Threads /\ k \in 0..11
  BY ThreadFacts DEF TypeOK, MaxRounds, DoubleRounds
<1>1. CASE at = "zero24"
  <2>1. Program[at] = Instr(24, FALSE, "zero25", "zero25")
    BY <1>1 DEF Program
  <2>2. /\ pc'[ChachaThread] = "zero25"
        /\ rounds' = rounds
        /\ 24 \notin runBits'
        /\ (25 \in runBits' <=> 25 \in runBits) /\ (26 \in runBits' <=> 26 \in runBits) /\ (27 \in runBits' <=> 27 \in runBits)
    BY <1>0, <2>1 DEF Execute, Instr, TypeOK
  <2>3. QED
    BY <1>0, <1>1, <2>2 DEF CountOK, Value, DoubleRounds
<1>2. CASE at = "zero25"
  <2>1. Program[at] = Instr(25, FALSE, "zero26", "zero26")
    BY <1>2 DEF Program
  <2>2. /\ pc'[ChachaThread] = "zero26"
        /\ rounds' = rounds
        /\ 25 \notin runBits'
        /\ (24 \in runBits' <=> 24 \in runBits) /\ (26 \in runBits' <=> 26 \in runBits) /\ (27 \in runBits' <=> 27 \in runBits)
    BY <1>0, <2>1 DEF Execute, Instr, TypeOK
  <2>3. QED
    BY <1>0, <1>2, <2>2 DEF CountOK, Value, DoubleRounds
<1>3. CASE at = "zero26"
  <2>1. Program[at] = Instr(26, FALSE, "zero27", "zero27")
    BY <1>3 DEF Program
  <2>2. /\ pc'[ChachaThread] = "zero27"
        /\ rounds' = rounds
        /\ 26 \notin runBits'
        /\ (24 \in runBits' <=> 24 \in runBits) /\ (25 \in runBits' <=> 25 \in runBits) /\ (27 \in runBits' <=> 27 \in runBits)
    BY <1>0, <2>1 DEF Execute, Instr, TypeOK
  <2>3. QED
    BY <1>0, <1>3, <2>2 DEF CountOK, Value, DoubleRounds
<1>4. CASE at = "zero27"
  <2>1. Program[at] = Instr(27, FALSE, "body", "body")
    BY <1>4 DEF Program
  <2>2. /\ pc'[ChachaThread] = "body"
        /\ rounds' = rounds
        /\ 27 \notin runBits'
        /\ (24 \in runBits' <=> 24 \in runBits) /\ (25 \in runBits' <=> 25 \in runBits) /\ (26 \in runBits' <=> 26 \in runBits)
    BY <1>0, <2>1 DEF Execute, Instr, TypeOK
  <2>3. QED
    BY <1>0, <1>4, <2>2 DEF CountOK, Value, DoubleRounds
<1>5. CASE at = "test27"
  <2>1. Program[at] = Instr(27, FALSE, "lt8a", "inc24")
    BY <1>5 DEF Program
  <2>2. /\ pc'[ChachaThread] = (IF 27 \in runBits THEN "lt8a" ELSE "inc24")
        /\ rounds' = rounds
        /\ 27 \notin runBits'
        /\ (24 \in runBits' <=> 24 \in runBits) /\ (25 \in runBits' <=> 25 \in runBits) /\ (26 \in runBits' <=> 26 \in runBits)
    BY <1>0, <2>1 DEF Execute, Instr, TypeOK
  <2>3. QED
    BY <1>0, <1>5, <2>2 DEF CountOK, Value, DoubleRounds
<1>6. CASE at = "inc24"
  <2>1. Program[at] = Instr(24, TRUE, "carry24", "body")
    BY <1>6 DEF Program
  <2>2. /\ pc'[ChachaThread] = (IF 24 \in runBits THEN "carry24" ELSE "body")
        /\ rounds' = rounds
        /\ 24 \in runBits'
        /\ (25 \in runBits' <=> 25 \in runBits) /\ (26 \in runBits' <=> 26 \in runBits) /\ (27 \in runBits' <=> 27 \in runBits)
    BY <1>0, <2>1 DEF Execute, Instr, TypeOK
  <2>3. QED
    BY <1>0, <1>6, <2>2 DEF CountOK, Value, DoubleRounds
<1>7. CASE at = "carry24"
  <2>1. Program[at] = Instr(24, FALSE, "inc25", "inc25")
    BY <1>7 DEF Program
  <2>2. /\ pc'[ChachaThread] = "inc25"
        /\ rounds' = rounds
        /\ 24 \notin runBits'
        /\ (25 \in runBits' <=> 25 \in runBits) /\ (26 \in runBits' <=> 26 \in runBits) /\ (27 \in runBits' <=> 27 \in runBits)
    BY <1>0, <2>1 DEF Execute, Instr, TypeOK
  <2>3. QED
    BY <1>0, <1>7, <2>2 DEF CountOK, Value, DoubleRounds
<1>8. CASE at = "inc25"
  <2>1. Program[at] = Instr(25, TRUE, "carry25", "body")
    BY <1>8 DEF Program
  <2>2. /\ pc'[ChachaThread] = (IF 25 \in runBits THEN "carry25" ELSE "body")
        /\ rounds' = rounds
        /\ 25 \in runBits'
        /\ (24 \in runBits' <=> 24 \in runBits) /\ (26 \in runBits' <=> 26 \in runBits) /\ (27 \in runBits' <=> 27 \in runBits)
    BY <1>0, <2>1 DEF Execute, Instr, TypeOK
  <2>3. QED
    BY <1>0, <1>8, <2>2 DEF CountOK, Value, DoubleRounds
<1>9. CASE at = "carry25"
  <2>1. Program[at] = Instr(25, FALSE, "inc26", "inc26")
    BY <1>9 DEF Program
  <2>2. /\ pc'[ChachaThread] = "inc26"
        /\ rounds' = rounds
        /\ 25 \notin runBits'
        /\ (24 \in runBits' <=> 24 \in runBits) /\ (26 \in runBits' <=> 26 \in runBits) /\ (27 \in runBits' <=> 27 \in runBits)
    BY <1>0, <2>1 DEF Execute, Instr, TypeOK
  <2>3. QED
    BY <1>0, <1>9, <2>2 DEF CountOK, Value, DoubleRounds
<1>10. CASE at = "inc26"
  <2>1. Program[at] = Instr(26, TRUE, "carry26", "body")
    BY <1>10 DEF Program
  <2>2. /\ pc'[ChachaThread] = (IF 26 \in runBits THEN "carry26" ELSE "body")
        /\ rounds' = rounds
        /\ 26 \in runBits'
        /\ (24 \in runBits' <=> 24 \in runBits) /\ (25 \in runBits' <=> 25 \in runBits) /\ (27 \in runBits' <=> 27 \in runBits)
    BY <1>0, <2>1 DEF Execute, Instr, TypeOK
  <2>3. QED
    BY <1>0, <1>10, <2>2 DEF CountOK, Value, DoubleRounds
<1>11. CASE at = "carry26"
  <2>1. Program[at] = Instr(26, FALSE, "inc27", "inc27")
    BY <1>11 DEF Program
  <2>2. /\ pc'[ChachaThread] = "inc27"
        /\ rounds' = rounds
        /\ 26 \notin runBits'
        /\ (24 \in runBits' <=> 24 \in runBits) /\ (25 \in runBits' <=> 25 \in runBits) /\ (27 \in runBits' <=> 27 \in runBits)
    BY <1>0, <2>1 DEF Execute, Instr, TypeOK
  <2>3. QED
    BY <1>0, <1>11, <2>2 DEF CountOK, Value, DoubleRounds
<1>12. CASE at = "inc27"
  <2>1. Program[at] = Instr(27, TRUE, "body", "body")
    BY <1>12 DEF Program
  <2>2. /\ pc'[ChachaThread] = "body"
        /\ rounds' = rounds
        /\ 27 \in runBits'
        /\ (24 \in runBits' <=> 24 \in runBits) /\ (25 \in runBits' <=> 25 \in runBits) /\ (26 \in runBits' <=> 26 \in runBits)
    BY <1>0, <2>1 DEF Execute, Instr, TypeOK
  <2>3. QED
    BY <1>0, <1>12, <2>2 DEF CountOK, Value, DoubleRounds
<1>13. CASE at = "lt8a"
  <2>1. Program[at] = Instr(27, TRUE, "lt8b", "lt8b")
    BY <1>13 DEF Program
  <2>2. /\ pc'[ChachaThread] = "lt8b"
        /\ rounds' = rounds
        /\ 27 \in runBits'
        /\ (24 \in runBits' <=> 24 \in runBits) /\ (25 \in runBits' <=> 25 \in runBits) /\ (26 \in runBits' <=> 26 \in runBits)
    BY <1>0, <2>1 DEF Execute, Instr, TypeOK
  <2>3. QED
    BY <1>0, <1>13, <2>2 DEF CountOK, Value, DoubleRounds
<1>14. CASE at = "lt8b"
  <2>1. Program[at] = Instr(24, TRUE, "exit", "body")
    BY <1>14 DEF Program
  <2>2. /\ pc'[ChachaThread] = (IF 24 \in runBits THEN "exit" ELSE "body")
        /\ rounds' = rounds
        /\ 24 \in runBits'
        /\ (25 \in runBits' <=> 25 \in runBits) /\ (26 \in runBits' <=> 26 \in runBits) /\ (27 \in runBits' <=> 27 \in runBits)
    BY <1>0, <2>1 DEF Execute, Instr, TypeOK
  <2>3. QED
    BY <1>0, <1>14, <2>2 DEF CountOK, Value, DoubleRounds
<1>15. at \in InstrNames
  BY ProgramDomain DEF Execute
<1>16. QED
  BY <1>1, <1>2, <1>3, <1>4, <1>5, <1>6, <1>7, <1>8, <1>9, <1>10, <1>11, <1>12, <1>13, <1>14, <1>15 DEF InstrNames

\* A tasklet executes one instruction on the way out of the loop.
LEMMA UserExecute ==
  ASSUME TypeOK, NEW t \in Tasklets, UserCountOK(t), Execute(t)
  PROVE  UserCountOK(t)' /\ pc'[t] \notin {"idle", "wait"}
<1> USE ThreadFacts DEF TypeOK, UserCountOK, Execute, Program, Instr, Value, Counter, DoubleRounds, MaxRounds
<1>1. pc[t] \in {"test27", "lt8a", "lt8b"}
  BY ProgramDomain DEF Execute, InstrNames
<1>2. CASE pc[t] = "test27"
  BY <1>2
<1>3. CASE pc[t] = "lt8a"
  BY <1>3
<1>4. CASE pc[t] = "lt8b"
  BY <1>4
<1>5. QED
  BY <1>1, <1>2, <1>3, <1>4

-----------------------------------------------------------------------------
\* The invariant is about the serial case, so the steps are looked at there.
LEMMA SerialStep ==
  ASSUME Serial, RoundInv, [Next]_vars
  PROVE  SerialInv'
<1> USE ThreadFacts DEF RoundInv
<1>0. TypeOK' /\ Serial'
  BY TypesArePreserved
<1>1. CASE CallSystemKey
  <2>1. \A s \in Threads : pc'[s] = IF s = ChachaThread THEN "zero24" ELSE
                                   IF s = 0 THEN "wait" ELSE "idle"
    BY <1>1 DEF CallSystemKey, Free, TypeOK, ChachaThread
  <2>2. \A s \in Threads : rounds'[s] <= DoubleRounds
    BY <1>1 DEF CallSystemKey, SerialInv, TypeOK, DoubleRounds
  <2>3. OnePass' /\ \A s \in Tasklets : UserCountOK(s)'
    BY <2>1 DEF OnePass, UserCountOK, ChachaThread
  <2>4. rounds'[ChachaThread] = 0
    BY <1>1 DEF CallSystemKey, TypeOK
  <2>5. CountOK(ChachaThread)'
    BY <2>1, <2>4 DEF CountOK
  <2>6. QED
    BY <2>1, <2>2, <2>3, <2>5 DEF SerialInv
<1>2. CASE EndSystemKey
  <2>1. \A s \in Threads \ {ChachaThread} : IF s = 0 THEN pc[s] = "wait" ELSE pc[s] = "idle"
    BY <1>2, Alone DEF EndSystemKey, SerialInv
  <2>2. \A s \in Threads : pc'[s] = "idle"
    BY <1>2, <2>1 DEF EndSystemKey, TypeOK, ChachaThread
  <2>3. Value = 9
    BY <1>2 DEF EndSystemKey, SerialInv, CountOK
  <2>4. Value' = 9
    BY <1>2, <2>3 DEF EndSystemKey, Value
  <2>5. OnePass' /\ CountOK(ChachaThread)' /\ \A s \in Tasklets : UserCountOK(s)'
    BY <2>2 DEF OnePass, CountOK, UserCountOK
  <2>6. \A s \in Threads : rounds'[s] <= DoubleRounds
    BY <1>2 DEF EndSystemKey, SerialInv
  <2>7. QED
    BY <2>2, <2>4, <2>5, <2>6 DEF SerialInv
<1>3. ASSUME NEW t \in Tasklets, CallUserKey(t) PROVE SerialInv'
  BY <1>3 DEF CallUserKey, Free, SerialInv, OnePass, CountOK, UserCountOK, TypeOK, ChachaThread, Value, DoubleRounds
<1>4. ASSUME NEW t \in Tasklets, EndUserKey(t) PROVE SerialInv'
  BY <1>4, Alone DEF EndUserKey, SerialInv, OnePass, CountOK, UserCountOK, TypeOK, ChachaThread, Value
<1>5. ASSUME NEW t \in Threads, Body(t) PROVE SerialInv'
  <2>1. \A s \in Threads \ {t} :
          IF t = ChachaThread /\ s = 0 THEN pc[s] = "wait" ELSE pc[s] = "idle"
    BY <1>5, Alone DEF Body, SerialInv
  <2>2. CASE t = ChachaThread
    BY <1>5, <2>1, <2>2 DEF Body, SerialInv, OnePass, CountOK, UserCountOK, TypeOK, Value, DoubleRounds, MaxRounds
  <2>3. CASE t \in Tasklets
    BY <1>5, <2>1, <2>3 DEF Body, SerialInv, OnePass, CountOK, UserCountOK, TypeOK, Value, DoubleRounds, MaxRounds
  <2>4. QED
    BY <2>2, <2>3
<1>6. CASE Execute(ChachaThread)
  <2>1. CountOK(ChachaThread)' /\ pc'[ChachaThread] \notin {"idle", "wait"}
    BY <1>6, SystemExecute DEF SerialInv
  <2>2. pc[ChachaThread] \notin {"idle", "wait"}
    BY <1>6, ProgramDomain DEF Execute, InstrNames
  <2>3. \A s \in Tasklets : IF s = 0 THEN pc[s] = "wait" ELSE pc[s] = "idle"
    BY <2>2, Alone DEF SerialInv
  <2>4. \A s \in Tasklets : pc'[s] = pc[s] /\ rounds' = rounds /\ blocks' = blocks
    BY <1>6 DEF Execute, TypeOK
  <2>5. OnePass'
    BY <2>1, <2>3, <2>4 DEF OnePass
  <2>6. \A s \in Tasklets : UserCountOK(s)'
    BY <2>3, <2>4 DEF UserCountOK
  <2>7. QED
    BY <2>1, <2>3, <2>4, <2>5, <2>6 DEF SerialInv
<1>7. ASSUME NEW t \in Tasklets, Execute(t) PROVE SerialInv'
  <2>1. UserCountOK(t)' /\ pc'[t] \notin {"idle", "wait"}
    BY <1>7, UserExecute DEF SerialInv
  <2>2. pc[t] \notin {"idle", "wait"}
    BY <1>7, ProgramDomain DEF Execute, InstrNames
  <2>3. \A s \in Threads \ {t} : pc[s] = "idle"
    BY <2>2, Alone DEF SerialInv
  <2>4. \A s \in Threads \ {t} : pc'[s] = "idle"
    BY <1>7, <2>3 DEF Execute, TypeOK
  <2>5. rounds' = rounds /\ blocks' = blocks
    BY <1>7 DEF Execute
  <2>6. OnePass' /\ CountOK(ChachaThread)'
    BY <2>1, <2>4 DEF OnePass, CountOK
  <2>7. \A s \in Tasklets : UserCountOK(s)'
    BY <2>1, <2>4 DEF UserCountOK
  <2>8. QED
    BY <2>1, <2>2, <2>4, <2>5, <2>6, <2>7 DEF SerialInv
<1>8. CASE UNCHANGED vars
  BY <1>8 DEF vars, SerialInv, OnePass, CountOK, UserCountOK, Value
<1>9. QED
  BY <1>1, <1>2, <1>3, <1>4, <1>5, <1>6, <1>7, <1>8 DEF Next, Compute

\* The run bits hold the number of double rounds, and 9 between two blocks.
THEOREM RoundInvariant == Spec => []RoundInv
<1>1. RoundInv /\ [Next]_vars => RoundInv'
  <2> SUFFICES ASSUME RoundInv, [Next]_vars PROVE RoundInv'
    OBVIOUS
  <2>1. TypeOK'
    BY TypesArePreserved DEF RoundInv
  <2>2. SerialInv'
    BY SerialStep DEF SerialInv
  <2>3. QED
    BY <2>1, <2>2 DEF RoundInv
<1>2. QED
  BY <1>1, InitEstablishesInv, PTL DEF Spec

\* One block at a time, every pass does exactly ten double rounds, under the
\* system key and under a user key (chacha.S:98-122).
THEOREM TenDoubleRounds ==
  ASSUME Serial
  PROVE  Spec => []TenRounds
<1>1. RoundInv => TenRounds
  <2> SUFFICES ASSUME RoundInv, NEW t \in Threads
               PROVE  rounds[t] <= DoubleRounds /\ (pc[t] = "exit" => rounds[t] = DoubleRounds)
    BY DEF TenRounds
  <2>1. QED
    BY ThreadFacts DEF RoundInv, SerialInv, CountOK, UserCountOK
<1>2. QED
  BY <1>1, RoundInvariant, PTL
=============================================================================
