------------------------- MODULE ChachaCryptProofs -------------------------
(***************************************************************************)
(* Proofs about ChachaCrypt for the calls of one tasklet on whole blocks,  *)
(* of any length.  What the runs show for shorter ends and for several     *)
(* tasklets (StaysInside, SealedTogether) is why both are assumed.         *)
(***************************************************************************)
EXTENDS ChachaCrypt, TLAPS

Solo == \A s, t \in Tasklets : s = t
Whole == \A n \in Lengths : n % 4 = 0

\* The stride of every call but those of chacha-bench.
EachBlock == Strides = {1}

LEMMA BlockFacts ==
  ASSUME TypeOK, Whole
  PROVE  /\ Blocks \in Nat /\ len = 4 * Blocks
         /\ \A b \in 0 .. Blocks - 1 : Size(b) = 4
<1>1. len \in Nat /\ len % 4 = 0
  BY LengthsAssumption DEF TypeOK, Whole
<1>2. Blocks \in Nat /\ len = 4 * Blocks
  BY <1>1 DEF Blocks
<1>3. \A b \in 0 .. Blocks - 1 : Size(b) = 4
  BY <1>1, <1>2 DEF Size
<1>4. QED
  BY <1>2, <1>3

LEMMA StrideFacts ==
  ASSUME TypeOK, EachBlock
  PROVE  stride = 1 /\ \A b \in Nat : b % stride = 0 /\ (Covered(b) <=> b < Blocks)
<1>1. stride = 1
  BY DEF TypeOK, EachBlock
<1>2. \A b \in Nat : b % 1 = 0
  OBVIOUS
<1>3. QED
  BY <1>1, <1>2 DEF Covered

LEMMA XorFacts ==
  /\ \A A, B : Xor(Xor(A, B), B) = A
  /\ \A B : Xor({}, B) = B
  /\ \A B : Xor(B, B) = {}
BY DEF Xor

LEMMA InitEstablishesInv == ASSUME EachBlock PROVE Init => StreamInv
<1> SUFFICES ASSUME Init PROVE StreamInv
  OBVIOUS
<1>1. stride = 1 /\ len \in Nat /\ Blocks \in Nat
  BY LengthsAssumption DEF Init, EachBlock, Blocks
<1>2. TypeOK
  BY DEF Init, TypeOK
<1>3. QED
  BY <1>1, <1>2 DEF Init, StreamInv, Region

LEMMA ReadPreserves ==
  ASSUME StreamInv, EachBlock, Whole, NEW t \in Tasklets, Solo, Read(t)
  PROVE  StreamInv'
<1>1. TypeOK /\ Blocks' = Blocks
  BY DEF StreamInv, Read, Blocks
<1>2. i[t] \in Region /\ i[t] < Blocks /\ Size(i[t]) = 4
  BY <1>1, BlockFacts DEF TypeOK, Read, Region
<1>3. [k \in Quarters |-> IF k < Size(i[t]) THEN buf[i[t]][k] ELSE tmp[t][k]] = buf[i[t]]
  BY <1>1, <1>2 DEF TypeOK, Quarters
<1>4. tmp' = [tmp EXCEPT ![t] = buf[i[t]]]
  BY <1>3, Zenon DEF Read
<1>5. TypeOK'
  BY <1>1, <1>2, <1>4 DEF TypeOK, Read, Region
<1>6. tmp'[t] = buf[i[t]] /\ pc'[t] = "write"
  BY <1>1, <1>4 DEF TypeOK, Read
<1>7. UNCHANGED <<i, buf, len, stride, pass>> /\ Region' = Region
  BY <1>1 DEF Read, Region
<1>8. \A s \in Tasklets : s = t
  BY DEF Solo
<1>9. \A b \in Region : Covered(b)' <=> Covered(b)
  BY <1>1, <1>7 DEF Covered
<1>10. QED
  BY <1>1, <1>2, <1>5, <1>6, <1>7, <1>8, <1>9 DEF StreamInv

LEMMA WritePreserves ==
  ASSUME StreamInv, EachBlock, Whole, NEW t \in Tasklets, Solo, Write(t)
  PROVE  StreamInv'
<1>1. TypeOK /\ Blocks' = Blocks /\ Region' = Region
  BY DEF StreamInv, Write, Blocks, Region
<1>2. i[t] \in Region /\ i[t] < Blocks /\ Size(i[t]) = 4 /\ Blocks \in Nat
  BY <1>1, BlockFacts DEF TypeOK, StreamInv, Write, Region
<1>3. \A k \in Quarters : tmp[t][k] = buf[i[t]][k]
  BY DEF StreamInv, Write
<1>4. \A b \in Region, k \in Quarters :
        buf'[b][k] = IF b = i[t] THEN Xor(buf[b][k], {Counter(b)}) ELSE buf[b][k]
  <2>1. \A k \in Quarters : k < Size(i[t])
    BY <1>2 DEF Quarters
  <2>2. buf'[i[t]] = [k \in Quarters |-> IF k < Size(i[t]) THEN Xor(tmp[t][k], {Counter(i[t])})
                                         ELSE buf[i[t]][k]]
    BY <1>1, <1>2 DEF TypeOK, Write
  <2>3. \A b \in Region : b # i[t] => buf'[b] = buf[b]
    BY <1>1 DEF TypeOK, Write
  <2>4. QED
    BY <1>2, <1>3, <2>1, <2>2, <2>3
<1>5. i' = [i EXCEPT ![t] = i[t] + 1] /\ i'[t] = i[t] + 1 /\ pc'[t] = "loop"
  BY <1>1, StrideFacts DEF TypeOK, Write
<1>6. TypeOK'
  <2>1. buf' \in [Region -> [Quarters -> SUBSET Nat]]
    <3>1. \A k \in Quarters : Xor(tmp[t][k], {Counter(i[t])}) \in SUBSET Nat
      BY <1>1, <1>2 DEF TypeOK, Region, Xor, Counter
    <3>2. [k \in Quarters |-> IF k < Size(i[t]) THEN Xor(tmp[t][k], {Counter(i[t])})
                              ELSE buf[i[t]][k]] \in [Quarters -> SUBSET Nat]
      BY <1>1, <1>2, <3>1 DEF TypeOK
    <3>3. QED
      BY <1>1, <3>2 DEF TypeOK, Write
  <2>2. i' \in [Tasklets -> Nat] /\ pc' \in [Tasklets -> {"loop", "write", "done"}]
    BY <1>1, <1>5 DEF TypeOK, Write
  <2>3. QED
    BY <1>1, <2>1, <2>2 DEF TypeOK, Write
<1>7. \A b \in Region, k \in Quarters :
        buf'[b][k] = IF b < Blocks /\ (pass = 1 <=> b < i'[t]) THEN {Counter(b)} ELSE {}
  <2> TAKE b \in Region, k \in Quarters
  <2>1. b \in Nat
    BY <1>2 DEF Region
  <2>2. buf[b][k] = IF b < Blocks /\ (pass = 1 <=> b < i[t]) THEN {Counter(b)} ELSE {}
    BY <1>1, <2>1, StrideFacts DEF StreamInv
  <2>3. CASE b = i[t]
    <3>1. buf'[b][k] = Xor(buf[b][k], {Counter(b)})
      BY <1>4, <2>3
    <3>2. b < Blocks /\ ~ (b < i[t]) /\ b < i'[t]
      BY <1>2, <1>5, <2>1, <2>3
    <3>3. QED
      BY <2>2, <3>1, <3>2, XorFacts
  <2>4. CASE b # i[t]
    <3>1. buf'[b][k] = buf[b][k]
      BY <1>4, <2>4
    <3>2. i[t] \in Nat
      BY <1>1 DEF TypeOK
    <3>3. b < i[t] <=> b < i[t] + 1
      BY <2>1, <2>4, <3>2
    <3>4. QED
      BY <1>5, <2>2, <3>1, <3>3
  <2>5. QED
    BY <2>3, <2>4
<1>8. stride' = stride /\ pass' = pass /\ i'[t] \in Nat
  BY <1>1, <1>5 DEF TypeOK, Write
<1>9. i'[t] % stride' = 0 /\ \A b \in Region : Covered(b)' <=> b < Blocks
  BY <1>1, <1>2, <1>8, StrideFacts DEF Covered, Region
<1>10. \A s \in Tasklets, b \in Region, k \in Quarters :
         buf'[b][k] = IF Covered(b)' /\ (pass' = 1 <=> b < i'[s]) THEN {Counter(b)} ELSE {}
  BY <1>7, <1>8, <1>9 DEF Solo
<1>11. \A s \in Tasklets : i'[s] % stride' = 0 /\ pc'[s] = "loop"
  BY <1>5, <1>9 DEF Solo
<1>12. QED
  BY <1>1, <1>6, <1>10, <1>11 DEF StreamInv

LEMMA ReturnPreserves ==
  ASSUME StreamInv, NEW t \in Tasklets, Solo, Return(t)
  PROVE  StreamInv'
<1>1. /\ UNCHANGED <<i, tmp, buf, len, stride, pass>>
      /\ Blocks' = Blocks /\ Region' = Region
      /\ \A s \in Tasklets : s = t /\ pc'[s] = "done" /\ i[s] >= Blocks
  BY DEF Return, Blocks, Region, StreamInv, TypeOK, Solo
<1>2. TypeOK'
  BY <1>1 DEF TypeOK, StreamInv, Return
<1>3. \A b \in Region : Covered(b)' <=> Covered(b)
  BY <1>1 DEF Covered
<1>4. \A s \in Tasklets, b \in Region, k \in Quarters :
        buf'[b][k] = IF Covered(b)' /\ (pass' = 1 <=> b < i'[s]) THEN {Counter(b)} ELSE {}
  BY <1>1, <1>3 DEF StreamInv
<1>5. \A s \in Tasklets : i'[s] % stride' = 0
  BY <1>1 DEF StreamInv
<1>6. \A s \in Tasklets : pc'[s] = "write" =>
        i'[s] < Blocks' /\ \A k \in Quarters : tmp'[s][k] = buf'[i'[s]][k]
  BY <1>1 DEF StreamInv
<1>7. \A s \in Tasklets : pc'[s] = "done" => i'[s] >= Blocks'
  BY <1>1 DEF StreamInv
<1>8. QED
  BY <1>1, <1>2, <1>4, <1>5, <1>6, <1>7, Zenon DEF StreamInv

LEMMA StutterPreserves ==
  ASSUME StreamInv, UNCHANGED vars
  PROVE  StreamInv'
<1>1. /\ UNCHANGED <<pc, i, tmp, buf, len, stride, pass>>
      /\ Blocks' = Blocks /\ Region' = Region
  BY DEF vars, Blocks, Region
<1>2. TypeOK'
  BY <1>1 DEF TypeOK, StreamInv
<1>3. \A b \in Region : Covered(b)' <=> Covered(b)
  BY <1>1 DEF Covered
<1>4. \A s \in Tasklets, b \in Region, k \in Quarters :
        buf'[b][k] = IF Covered(b)' /\ (pass' = 1 <=> b < i'[s]) THEN {Counter(b)} ELSE {}
  BY <1>1, <1>3 DEF StreamInv
<1>5. \A s \in Tasklets : i'[s] % stride' = 0
  BY <1>1 DEF StreamInv
<1>6. \A s \in Tasklets : pc'[s] = "write" =>
        i'[s] < Blocks' /\ \A k \in Quarters : tmp'[s][k] = buf'[i'[s]][k]
  BY <1>1 DEF StreamInv
<1>7. \A s \in Tasklets : pc'[s] = "done" => i'[s] >= Blocks'
  BY <1>1 DEF StreamInv
<1>8. QED
  BY <1>1, <1>2, <1>4, <1>5, <1>6, <1>7, Zenon DEF StreamInv

LEMMA DecryptPreserves ==
  ASSUME StreamInv, EachBlock, Decrypt
  PROVE  StreamInv'
<1>1. TypeOK /\ Blocks' = Blocks /\ Region' = Region /\ Blocks \in Nat
  BY LengthsAssumption DEF StreamInv, TypeOK, Decrypt, Blocks, Region
<1>2. TypeOK'
  BY <1>1 DEF TypeOK, Decrypt
<1>3. \A b \in Region : b \in Nat /\ (Covered(b)' <=> Covered(b)) /\ (Covered(b) <=> b < Blocks)
  BY <1>1, StrideFacts DEF Covered, Region, Decrypt
<1>4. ASSUME NEW t \in Tasklets, NEW b \in Region, NEW k \in Quarters
      PROVE  buf'[b][k] = IF Covered(b)' /\ (pass' = 1 <=> b < i'[t]) THEN {Counter(b)} ELSE {}
  <2>1. Covered(b) => b < i[t]
    BY <1>1, <1>3 DEF TypeOK, StreamInv, Decrypt
  <2>2. buf[b][k] = IF Covered(b) THEN {Counter(b)} ELSE {}
    BY <2>1 DEF StreamInv, Decrypt
  <2>3. ~ (b < i'[t]) /\ pass' = 2 /\ buf' = buf
    BY <1>3 DEF Decrypt
  <2>4. QED
    BY <1>3, <2>2, <2>3
<1>5. \A t \in Tasklets : i'[t] % stride' = 0 /\ pc'[t] = "loop"
  BY <1>1, StrideFacts DEF Decrypt
<1>6. QED
  BY <1>1, <1>2, <1>4, <1>5 DEF StreamInv

\* One tasklet on whole blocks: at every step the blocks behind the loop are
\* in their new form and the others in their old one (aead.c:59-78).
THEOREM StreamInvariant ==
  ASSUME Solo, Whole, EachBlock
  PROVE  Spec => []StreamInv
<1>1. Init => StreamInv
  BY InitEstablishesInv
<1>2. StreamInv /\ [Next]_vars => StreamInv'
  <2> SUFFICES ASSUME StreamInv, [Next]_vars PROVE StreamInv'
    OBVIOUS
  <2>1. CASE UNCHANGED vars
    BY <2>1, StutterPreserves
  <2>2. CASE \E t \in Tasklets : Read(t) \/ Write(t) \/ Return(t)
    BY <2>2, ReadPreserves, WritePreserves, ReturnPreserves
  <2>3. CASE Decrypt
    BY <2>3, DecryptPreserves
  <2>4. QED
    BY <2>1, <2>2, <2>3 DEF Next, Finished
<1>3. QED
  BY <1>1, <1>2, PTL DEF Spec

\* The result of the encryption: every block under its own counter.
THEOREM SealsEveryBlock ==
  ASSUME Solo, Whole, EachBlock
  PROVE  Spec => []Sealed
<1>1. StreamInv => Sealed
  <2> SUFFICES ASSUME StreamInv, pass = 1, Returned,
                      NEW b \in Region, NEW k \in Quarters
               PROVE  buf[b][k] = IF Covered(b) THEN {Counter(b)} ELSE {}
    BY DEF Sealed
  <2>1. PICK t \in Tasklets : TRUE
    BY TaskletsAssumption
  <2>2. i[t] \in Nat /\ i[t] >= Blocks
    BY DEF StreamInv, Returned, TypeOK
  <2>3. Covered(b) => b < i[t]
    BY <2>2, LengthsAssumption DEF Covered, StreamInv, TypeOK, Blocks, Region
  <2>4. QED
    BY <2>3 DEF StreamInv
<1>2. QED
  BY <1>1, StreamInvariant, PTL

\* Decrypting with the key stream of the encryption restores the buffer.
THEOREM RestoresTheBuffer ==
  ASSUME Solo, Whole, EachBlock
  PROVE  Spec => []Restored
<1>1. StreamInv => Restored
  <2> SUFFICES ASSUME StreamInv, pass = 2, Returned,
                      NEW b \in Region, NEW k \in Quarters
               PROVE  buf[b][k] = {}
    BY DEF Restored
  <2>1. PICK t \in Tasklets : TRUE
    BY TaskletsAssumption
  <2>2. i[t] \in Nat /\ i[t] >= Blocks
    BY DEF StreamInv, Returned, TypeOK
  <2>3. Covered(b) => b < i[t]
    BY <2>2, LengthsAssumption DEF Covered, StreamInv, TypeOK, Blocks, Region
  <2>4. ~ (Covered(b) /\ (pass = 1 <=> b < i[t]))
    BY <2>3
  <2>5. QED
    BY <2>4 DEF StreamInv
<1>2. QED
  BY <1>1, StreamInvariant, PTL
=============================================================================
