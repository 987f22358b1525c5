--------------------------- MODULE RuntimeProofs ---------------------------
(***************************************************************************)
(* Theorems about nine instances of MCKernels, for every value of their    *)
(* constants: the kernels whose tasklets pass a sum on (SEL, SCAN, UNI),   *)
(* the first stage, the counter, the runtime's cipher and the barriers.    *)
(* Each section names the variables of its instance; the lemmas on numbers *)
(* and sums come first.                                                    *)
(***************************************************************************)
EXTENDS MCKernels, WellFoundedInduction, FiniteSetTheorems, SequenceTheorems, TLAPS

(* Numbers. *)

\* A product grows with its factors.
LEMMA ProductsGrow ==
  ASSUME NEW x \in Nat, NEW y \in Nat, NEW z \in Nat, x <= y
  PROVE  x * z <= y * z /\ x * z \in Nat /\ y * z \in Nat
<1>1. y = x + (y - x) /\ y - x \in Nat
  OBVIOUS
<1>2. y * z = x * z + (y - x) * z
  BY <1>1
<1>3. (y - x) * z \in Nat /\ x * z \in Nat /\ y * z \in Nat
  BY <1>1
<1>4. QED
  BY <1>2, <1>3

\* Induction, over a set in place of a predicate.
LEMMA Least ==
  ASSUME NEW T \in SUBSET Nat, T # {}
  PROVE  \E x \in T : \A y \in T : x <= y
<1>1. PICK x \in T : \A y \in T : ~ (<<y, x>> \in OpToRel(<, Nat))
  BY NatLessThanWellFounded, WFMin
<1>2. \A y \in T : ~ (y < x)
  BY <1>1 DEF OpToRel
<1>3. QED
  BY <1>2

LEMMA Induction ==
  ASSUME NEW T, 0 \in T, \A n \in Nat : n \in T => n + 1 \in T
  PROVE  Nat \subseteq T
<1> SUFFICES ASSUME Nat \ T # {} PROVE FALSE
  OBVIOUS
<1>1. PICK x \in Nat \ T : \A y \in Nat \ T : x <= y
  BY Least
<1>2. x - 1 \in Nat
  BY <1>1
<1>3. QED
  BY <1>1, <1>2

\* Numbers can be added up one by one.
LEMMA Sums ==
  ASSUME NEW h \in [Nat -> Nat]
  PROVE  \E w \in [Nat -> Nat] : w[0] = 0 /\ \A k \in Nat : w[k + 1] = w[k] + h[k]
<1> DEFINE Upto(l, f) == f[0] = 0 /\ \A k \in Nat : k < l => f[k + 1] = f[k] + h[k]
           T == {l \in Nat : \E f \in [Nat -> Nat] : Upto(l, f)}
           F == [l \in Nat |-> CHOOSE f \in [Nat -> Nat] : Upto(l, f)]
           w == [k \in Nat |-> F[k][k]]
<1>1. 0 \in T
  <2>1. [k \in Nat |-> 0] \in [Nat -> Nat] /\ Upto(0, [k \in Nat |-> 0])
    OBVIOUS
  <2>2. QED
    BY <2>1
<1>2. ASSUME NEW l \in Nat, l \in T PROVE l + 1 \in T
  <2>1. PICK f \in [Nat -> Nat] : Upto(l, f)
    BY <1>2
  <2> DEFINE g == [f EXCEPT ![l + 1] = f[l] + h[l]]
  <2>2. g \in [Nat -> Nat] /\ (\A k \in Nat : k <= l => g[k] = f[k]) /\ g[l + 1] = f[l] + h[l]
    OBVIOUS
  <2> HIDE DEF g
  <2>3. g[0] = 0
    BY <2>1, <2>2
  <2>4. ASSUME NEW k \in Nat, k < l + 1 PROVE g[k + 1] = g[k] + h[k]
    <3>1. CASE k = l
      BY <2>2, <3>1
    <3>2. CASE k < l
      <4>1. g[k + 1] = f[k + 1] /\ g[k] = f[k]
        BY <2>2, <3>2
      <4>2. f[k + 1] = f[k] + h[k]
        BY <2>1, <3>2
      <4>3. QED
        BY <4>1, <4>2
    <3>3. QED
      BY <2>4, <3>1, <3>2
  <2>5. Upto(l + 1, g)
    BY <2>3, <2>4
  <2>6. QED
    BY <2>2, <2>5
<1>3. \A l \in Nat : F[l] \in [Nat -> Nat] /\ Upto(l, F[l])
  <2>1. Nat \subseteq T
    <3> HIDE DEF T
    <3>1. QED
      BY <1>1, <1>2, Induction
  <2> HIDE DEF Upto
  <2>2. QED
    BY <2>1
<1> HIDE DEF F
<1>4. ASSUME NEW l \in Nat, NEW k \in Nat, k <= l PROVE F[l][k] = F[k][k]
  <2> DEFINE K == {j \in Nat : j <= k => F[l][j] = F[k][j]}
  <2>1. 0 \in K
    BY <1>3
  <2>2. ASSUME NEW j \in Nat, j \in K PROVE j + 1 \in K
    BY <1>3, <1>4, <2>2
  <2>3. Nat \subseteq K
    <3> HIDE DEF K
    <3>1. QED
      BY <2>1, <2>2, Induction
  <2>4. QED
    BY <2>3
<1>5. w \in [Nat -> Nat] /\ w[0] = 0
  BY <1>3
<1>6. ASSUME NEW k \in Nat PROVE w[k + 1] = w[k] + h[k]
  <2> DEFINE l == k + 1
  <2>1. l \in Nat /\ k < l /\ k <= l
    OBVIOUS
  <2>2. F[l][k] = F[k][k] /\ F[l][k + 1] = F[l][k] + h[k]
    <3> HIDE DEF l
    <3>1. QED
      BY <1>3, <1>4, <2>1
  <2>3. QED
    BY <2>2
<1> HIDE DEF w
<1>7. QED
  BY <1>5, <1>6

-----------------------------------------------------------------------------
(* SEL: the elements of a tasklet go behind those before them.             *)

seAt == m1
seRound == m2
seEpoch == m3
seBox == m4
sePartial == m5
seStamp == m6
seCount == m7
seBefore == m8
seAccum == m9
seKept == m10
seOutput == m11
seTotal == m12
seLate == m13
USE DEF seAt, seRound, seEpoch, seBox, sePartial, seStamp, seCount, seBefore, seAccum, seKept,
  seOutput, seTotal, seLate

\* The sums are those of the first values, one by one.
LEMMA SelSums ==
  ASSUME NEW K \in Nat, NEW f, \A k \in 0 .. K - 1 : f[k] \in Nat
  PROVE  /\ Sel!SumOf(f, 0) = 0
         /\ \A k \in 0 .. K - 1 : Sel!SumOf(f, k + 1) = Sel!SumOf(f, k) + f[k]
         /\ \A k \in 0 .. K : Sel!SumOf(f, k) \in Nat
<1> DEFINE h == [k \in Nat |-> IF k < K THEN f[k] ELSE 0]
<1>1. h \in [Nat -> Nat] /\ \A k \in 0 .. K - 1 : h[k] = f[k]
  OBVIOUS
<1> HIDE DEF h
<1>2. PICK W \in [Nat -> Nat] : W[0] = 0 /\ \A k \in Nat : W[k + 1] = W[k] + h[k]
  BY <1>1, Sums
<1>3. \A k \in 0 .. K - 1 : W[k + 1] = W[k] + f[k]
  BY <1>1, <1>2
<1>4. ASSUME NEW n \in 0 .. K PROVE Sel!SumOf(f, n) = W[n]
  <2> DEFINE F(s) == [k \in 0 .. n |-> IF k = 0 THEN 0 ELSE s[k - 1] + f[k - 1]]
             V == [k \in 0 .. n |-> W[k]]
             s == CHOOSE s : s = F(s)
             T == {k \in Nat : k <= n => s[k] = W[k]}
  <2>1. V = F(V)
    <3> SUFFICES ASSUME NEW k \in 0 .. n
                 PROVE  V[k] = IF k = 0 THEN 0 ELSE V[k - 1] + f[k - 1]
      OBVIOUS
    <3>1. CASE k = 0
      BY <1>2, <3>1
    <3>2. CASE k # 0
      <4>1. k - 1 \in 0 .. K - 1 /\ k - 1 \in 0 .. n /\ k - 1 + 1 = k
        BY <3>2
      <4>2. W[k] = W[k - 1] + f[k - 1]
        BY <1>3, <4>1
      <4>3. QED
        BY <3>2, <4>1, <4>2
    <3>3. QED
      BY <3>1, <3>2
  <2>2. s = F(s)
    <3> HIDE DEF F, V
    <3>1. \E x : x = F(x)
      BY <2>1
    <3>2. QED
      BY <3>1
  <2>3. Sel!SumOf(f, n) = s[n]
    BY DEF Sel!SumOf
  <2>4. n \in T
    <3> HIDE DEF s
    <3>1. 0 \in T
      BY <1>2, <2>2
    <3>2. ASSUME NEW k \in Nat, k \in T PROVE k + 1 \in T
      <4> SUFFICES ASSUME k + 1 <= n PROVE s[k + 1] = W[k + 1]
        OBVIOUS
      <4>1. k + 1 \in 0 .. n /\ k + 1 # 0 /\ k + 1 - 1 = k /\ k \in 0 .. K - 1
        OBVIOUS
      <4>2. s[k + 1] = s[k] + f[k]
        <5>1. \A l \in 0 .. n : s[l] = IF l = 0 THEN 0 ELSE s[l - 1] + f[l - 1]
          BY <2>2
        <5>2. s[k + 1] = s[k + 1 - 1] + f[k + 1 - 1]
          BY ONLY <4>1, <5>1
        <5>3. QED
          BY ONLY <4>1, <5>2
      <4>3. QED
        BY <1>3, <3>2, <4>1, <4>2
    <3>3. Nat \subseteq T
      <4> HIDE DEF T
      <4>1. QED
        BY <3>1, <3>2, Induction
    <3>4. QED
      BY <3>3
  <2>5. QED
    <3> HIDE DEF s
    <3>1. QED
      BY <2>3, <2>4
<1>5. ASSUME NEW k \in 0 .. K - 1 PROVE Sel!SumOf(f, k + 1) = Sel!SumOf(f, k) + f[k]
  <2>1. k \in 0 .. K /\ k + 1 \in 0 .. K
    OBVIOUS
  <2>2. QED
    BY <1>3, <1>4, <2>1
<1>6. QED
  BY <1>2, <1>4, <1>5

\* A sum depends on what it adds up, and on nothing behind that.
LEMMA SelSame ==
  ASSUME NEW K \in Nat, NEW f, NEW g, \A k \in 0 .. K - 1 : f[k] \in Nat /\ g[k] = f[k]
  PROVE  Sel!SumOf(f, K) = Sel!SumOf(g, K)
<1> DEFINE T == {k \in Nat : k <= K => Sel!SumOf(f, k) = Sel!SumOf(g, k)}
<1>1. /\ Sel!SumOf(f, 0) = 0 /\ Sel!SumOf(g, 0) = 0
      /\ \A k \in 0 .. K - 1 : /\ Sel!SumOf(f, k + 1) = Sel!SumOf(f, k) + f[k]
                               /\ Sel!SumOf(g, k + 1) = Sel!SumOf(g, k) + g[k]
  <2>1. \A k \in 0 .. K - 1 : g[k] \in Nat
    OBVIOUS
  <2>2. QED
    BY <2>1, SelSums
<1>2. 0 \in T
  BY <1>1
<1>3. ASSUME NEW k \in Nat, k \in T PROVE k + 1 \in T
  <2> SUFFICES ASSUME k + 1 <= K PROVE Sel!SumOf(f, k + 1) = Sel!SumOf(g, k + 1)
    OBVIOUS
  <2>1. k \in 0 .. K - 1
    OBVIOUS
  <2>2. QED
    BY <1>1, <1>3, <2>1
<1>4. Nat \subseteq T
  <2> HIDE DEF T
  <2>1. QED
    BY <1>2, <1>3, Induction
<1>5. QED
  BY <1>4

\* What is kept adds up, tasklet by tasklet and round by round.
LEMMA SelCounts ==
  ASSUME Sel!Sized, Sel!TypeOK
  PROVE  /\ \A r \in 1 .. SelRounds :
              /\ Sel!KeptBefore(r, 0) = 0
              /\ \A t \in Sel!Tasklets :
                   Sel!KeptBefore(r, t + 1) = Sel!KeptBefore(r, t) + seKept[r][t]
              /\ \A t \in 0 .. SelN : Sel!KeptBefore(r, t) \in Nat
         /\ Sel!KeptInRounds(0) = 0
         /\ \A r \in 1 .. SelRounds :
              Sel!KeptInRounds(r) = Sel!KeptInRounds(r - 1) + Sel!KeptBefore(r, SelN)
         /\ \A n \in 0 .. SelRounds : Sel!KeptInRounds(n) \in Nat
<1>1. SelN \in Nat \ {0} /\ SelRounds \in Nat /\ Sel!Tasklets = 0 .. SelN - 1
  BY DEF Sel!Sized, Sel!Tasklets
<1>2. \A r \in 1 .. SelRounds : \A t \in 0 .. SelN - 1 : seKept[r][t] \in Nat
  <2>1. seKept \in [1 .. SelRounds -> [0 .. SelN - 1 -> Nat]]
    BY <1>1 DEF Sel!TypeOK
  <2>2. QED
    BY ONLY <2>1
<1>3. ASSUME NEW r \in 1 .. SelRounds
      PROVE  /\ Sel!KeptBefore(r, 0) = 0
             /\ \A t \in Sel!Tasklets :
                  Sel!KeptBefore(r, t + 1) = Sel!KeptBefore(r, t) + seKept[r][t]
             /\ \A t \in 0 .. SelN : Sel!KeptBefore(r, t) \in Nat
  BY <1>1, <1>2, SelSums DEF Sel!KeptBefore
<1> DEFINE f == [k \in 0 .. SelRounds - 1 |-> Sel!KeptBefore(k + 1, SelN)]
<1>4. \A k \in 0 .. SelRounds - 1 : f[k] = Sel!KeptBefore(k + 1, SelN) /\ f[k] \in Nat
  <2>1. \A k \in 0 .. SelRounds - 1 : k + 1 \in 1 .. SelRounds /\ SelN \in 0 .. SelN
    BY <1>1
  <2>2. QED
    BY <1>3, <2>1
<1>5. \A n : Sel!KeptInRounds(n) = Sel!SumOf(f, n)
  BY DEF Sel!KeptInRounds
<1> HIDE DEF f
<1>6. /\ Sel!SumOf(f, 0) = 0
      /\ \A k \in 0 .. SelRounds - 1 : Sel!SumOf(f, k + 1) = Sel!SumOf(f, k) + f[k]
      /\ \A k \in 0 .. SelRounds : Sel!SumOf(f, k) \in Nat
  BY <1>1, <1>4, SelSums
<1>7. ASSUME NEW r \in 1 .. SelRounds
      PROVE  Sel!KeptInRounds(r) = Sel!KeptInRounds(r - 1) + Sel!KeptBefore(r, SelN)
  <2>1. r - 1 \in 0 .. SelRounds - 1 /\ r - 1 + 1 = r
    BY <1>1
  <2>2. QED
    BY <1>4, <1>5, <1>6, <2>1
<1>8. QED
  BY <1>3, <1>5, <1>6, <1>7

\* What a tasklet keeps now is counted behind all that is settled.
LEMMA SelSettled ==
  ASSUME Sel!Sized, Sel!TypeOK, seRound <= SelRounds, NEW t \in Sel!Tasklets, NEW x \in Nat,
         seKept' = [seKept EXCEPT ![seRound][t] = x]
  PROVE  /\ \A r \in 1 .. SelRounds, u \in 0 .. SelN :
              r < seRound \/ (r = seRound /\ u <= t) => Sel!KeptBefore(r, u)' = Sel!KeptBefore(r, u)
         /\ \A n \in 0 .. SelRounds : n < seRound => Sel!KeptInRounds(n)' = Sel!KeptInRounds(n)
<1>1. /\ SelN \in Nat \ {0} /\ SelRounds \in Nat /\ Sel!Tasklets = 0 .. SelN - 1
      /\ seRound \in 1 .. SelRounds
  BY DEF Sel!Sized, Sel!Tasklets, Sel!TypeOK
<1>2. \A r \in 1 .. SelRounds : \A u \in 0 .. SelN - 1 :
        seKept[r][u] \in Nat /\ (r # seRound \/ u # t => seKept'[r][u] = seKept[r][u])
  <2>1. seKept \in [1 .. SelRounds -> [0 .. SelN - 1 -> Nat]]
    BY <1>1 DEF Sel!TypeOK
  <2>2. seKept' = [seKept EXCEPT ![seRound][t] = x]
    OBVIOUS
  <2>3. QED
    BY ONLY <2>1, <2>2
<1>3. ASSUME NEW r \in 1 .. SelRounds, NEW u \in 0 .. SelN,
             r < seRound \/ (r = seRound /\ u <= t)
      PROVE  Sel!KeptBefore(r, u)' = Sel!KeptBefore(r, u)
  <2>1. \A k \in 0 .. u - 1 : seKept[r][k] \in Nat /\ seKept'[r][k] = seKept[r][k]
    BY <1>1, <1>2, <1>3
  <2>2. u \in Nat
    BY <1>1
  <2>3. Sel!SumOf(seKept[r], u) = Sel!SumOf(seKept'[r], u)
    BY <2>1, <2>2, SelSame
  <2>4. QED
    BY <2>3 DEF Sel!KeptBefore
<1>4. ASSUME NEW n \in 0 .. SelRounds, n < seRound
      PROVE  Sel!KeptInRounds(n)' = Sel!KeptInRounds(n)
  <2> DEFINE f == [k \in 0 .. SelRounds - 1 |-> Sel!KeptBefore(k + 1, SelN)]
             g == [k \in 0 .. SelRounds - 1 |-> Sel!KeptBefore(k + 1, SelN)']
  <2>1. \A k \in 0 .. n - 1 : f[k] \in Nat /\ g[k] = f[k]
    <3> SUFFICES ASSUME NEW k \in 0 .. n - 1 PROVE f[k] \in Nat /\ g[k] = f[k]
      OBVIOUS
    <3>1. /\ k \in 0 .. SelRounds - 1 /\ k + 1 \in 1 .. SelRounds /\ k + 1 < seRound
          /\ SelN \in 0 .. SelN
      BY <1>1, <1>4
    <3>2. Sel!KeptBefore(k + 1, SelN) \in Nat
      BY <3>1, SelCounts
    <3>3. QED
      BY <1>3, <3>1, <3>2
  <2>2. Sel!KeptInRounds(n) = Sel!SumOf(f, n)
    BY DEF Sel!KeptInRounds
  <2>3. Sel!KeptInRounds(n)' = Sel!SumOf(g, n)
    BY DEF Sel!KeptInRounds
  <2> HIDE DEF f, g
  <2>4. n \in Nat
    BY <1>1
  <2>5. QED
    BY <2>1, <2>2, <2>3, <2>4, SelSame
<1>5. QED
  BY <1>3, <1>4

LEMMA SelNumbers ==
  ASSUME Sel!Sized
  PROVE  /\ SelN \in Nat \ {0} /\ SelRounds \in Nat /\ SelKept \subseteq Nat
         /\ Sel!Tasklets = 0 .. SelN - 1 /\ Sel!Last = SelN - 1
         /\ 0 \in Sel!Tasklets /\ Sel!Last \in Sel!Tasklets
BY DEF Sel!Sized, Sel!Tasklets, Sel!Last

\* Sums grow, and so the places of the tasklets are apart and in order.
LEMMA SelOrder ==
  ASSUME Sel!Sized, Sel!TypeOK
  PROVE  /\ \A r \in 1 .. SelRounds : \A u, t \in 0 .. SelN :
              u <= t => Sel!KeptBefore(r, u) <= Sel!KeptBefore(r, t)
         /\ \A m, n \in 0 .. SelRounds : m <= n => Sel!KeptInRounds(m) <= Sel!KeptInRounds(n)
<1>1. \A r \in 1 .. SelRounds : \A t \in Sel!Tasklets : seKept[r][t] \in Nat
  BY DEF Sel!TypeOK
<1>2. ASSUME NEW r \in 1 .. SelRounds, NEW u \in 0 .. SelN, NEW t \in 0 .. SelN, u <= t
      PROVE  Sel!KeptBefore(r, u) <= Sel!KeptBefore(r, t)
  <2> DEFINE T == {k \in Nat : u + k <= SelN => Sel!KeptBefore(r, u) <= Sel!KeptBefore(r, u + k)}
  <2>1. 0 \in T
    BY SelCounts, SelNumbers
  <2>2. ASSUME NEW k \in Nat, k \in T PROVE k + 1 \in T
    <3> SUFFICES ASSUME u + (k + 1) <= SelN
                 PROVE  Sel!KeptBefore(r, u) <= Sel!KeptBefore(r, u + (k + 1))
      OBVIOUS
    <3>1. u + k \in Sel!Tasklets /\ u + k \in 0 .. SelN /\ u + (k + 1) = (u + k) + 1
      BY SelNumbers
    <3>2. /\ Sel!KeptBefore(r, (u + k) + 1) = Sel!KeptBefore(r, u + k) + seKept[r][u + k]
          /\ Sel!KeptBefore(r, u + k) \in Nat /\ Sel!KeptBefore(r, u) \in Nat
      BY <3>1, SelCounts
    <3>3. Sel!KeptBefore(r, u) <= Sel!KeptBefore(r, u + k) /\ seKept[r][u + k] \in Nat
      BY <1>1, <2>2, <3>1, SelNumbers
    <3>4. QED
      BY <3>1, <3>2, <3>3
  <2>3. Nat \subseteq T
    <3> HIDE DEF T
    <3>1. QED
      BY <2>1, <2>2, Induction
  <2>4. t - u \in T /\ u + (t - u) = t
    BY <1>2, <2>3, SelNumbers
  <2>5. QED
    BY <2>4, SelNumbers
<1>3. ASSUME NEW m \in 0 .. SelRounds, NEW n \in 0 .. SelRounds, m <= n
      PROVE  Sel!KeptInRounds(m) <= Sel!KeptInRounds(n)
  <2> DEFINE T == {k \in Nat : m + k <= SelRounds => Sel!KeptInRounds(m) <= Sel!KeptInRounds(m + k)}
  <2>1. 0 \in T
    BY SelCounts, SelNumbers
  <2>2. ASSUME NEW k \in Nat, k \in T PROVE k + 1 \in T
    <3> SUFFICES ASSUME m + (k + 1) <= SelRounds
                 PROVE  Sel!KeptInRounds(m) <= Sel!KeptInRounds(m + (k + 1))
      OBVIOUS
    <3> DEFINE r == m + (k + 1)
    <3>1. r \in 1 .. SelRounds /\ r - 1 = m + k /\ m + k \in 0 .. SelRounds /\ SelN \in 0 .. SelN
      BY SelNumbers
    <3> HIDE DEF r
    <3>2. /\ Sel!KeptInRounds(r) = Sel!KeptInRounds(r - 1) + Sel!KeptBefore(r, SelN)
          /\ Sel!KeptBefore(r, SelN) \in Nat
          /\ Sel!KeptInRounds(m + k) \in Nat /\ Sel!KeptInRounds(m) \in Nat
      BY <3>1, SelCounts
    <3>3. Sel!KeptInRounds(m) <= Sel!KeptInRounds(m + k)
      BY <2>2, <3>1, SelNumbers
    <3>4. QED
      BY <3>1, <3>2, <3>3 DEF r
  <2>3. Nat \subseteq T
    <3> HIDE DEF T
    <3>1. QED
      BY <2>1, <2>2, Induction
  <2>4. n - m \in T /\ m + (n - m) = n
    BY <1>3, <2>3, SelNumbers
  <2>5. QED
    BY <2>4, SelNumbers
<1>4. QED
  BY <1>2, <1>3

LEMMA SelDue ==
  ASSUME Sel!Sized, Sel!TypeOK, NEW r \in 1 .. SelRounds, NEW t \in Sel!Tasklets
  PROVE  /\ Sel!Due(r, t) \in Nat /\ seKept[r][t] \in Nat
         /\ Sel!KeptInRounds(r - 1) <= Sel!Due(r, t)
         /\ Sel!Due(r, t) + seKept[r][t] <= Sel!KeptInRounds(r)
         /\ \A u \in Sel!Tasklets : t < u => Sel!Due(r, t) + seKept[r][t] <= Sel!Due(r, u)
<1>1. /\ r - 1 \in 0 .. SelRounds /\ t \in 0 .. SelN /\ t + 1 \in 0 .. SelN /\ SelN \in 0 .. SelN
      /\ t + 1 <= SelN
  BY SelNumbers
<1>2. /\ Sel!KeptBefore(r, t + 1) = Sel!KeptBefore(r, t) + seKept[r][t]
      /\ Sel!KeptBefore(r, t) \in Nat /\ Sel!KeptInRounds(r - 1) \in Nat
      /\ Sel!KeptBefore(r, SelN) \in Nat /\ Sel!KeptBefore(r, t + 1) \in Nat
      /\ Sel!KeptInRounds(r) = Sel!KeptInRounds(r - 1) + Sel!KeptBefore(r, SelN)
  BY <1>1, SelCounts
<1>3. Sel!KeptBefore(r, t + 1) <= Sel!KeptBefore(r, SelN)
  BY <1>1, SelOrder
<1>4. seKept[r][t] \in Nat
  BY DEF Sel!TypeOK
<1>5. ASSUME NEW u \in Sel!Tasklets, t < u PROVE Sel!Due(r, t) + seKept[r][t] <= Sel!Due(r, u)
  <2>1. u \in 0 .. SelN /\ t + 1 <= u
    BY <1>5, SelNumbers
  <2>2. Sel!KeptBefore(r, t + 1) <= Sel!KeptBefore(r, u) /\ Sel!KeptBefore(r, u) \in Nat
    BY <1>1, <2>1, SelOrder, SelCounts
  <2>3. QED
    BY <1>2, <1>4, <2>2 DEF Sel!Due
<1>6. QED
  BY <1>2, <1>3, <1>4, <1>5 DEF Sel!Due

\* The sum has been replaced in round r.
SelClosed(r) ==
  r < seRound \/ (r = seRound /\ seAt[Sel!Last] \in {"barrier3", "report", "done"})

\* Places stay right while nothing is kept or placed.
LEMMA SelPlacesStay ==
  ASSUME Sel!PlacedOK, UNCHANGED <<seKept, seOutput, seLate>>,
         \A r \in 1 .. SelRounds, t \in Sel!Tasklets : Sel!HasPlaced(r, t)' <=> Sel!HasPlaced(r, t),
         \A r \in 1 .. SelRounds : SelClosed(r) => SelClosed(r)'
  PROVE  Sel!PlacedOK'
<1>1. \A r, u : Sel!Due(r, u)' = Sel!Due(r, u)
  BY DEF Sel!Due, Sel!KeptBefore, Sel!KeptInRounds
<1>2. ASSUME NEW r \in 1 .. SelRounds, NEW t \in Sel!Tasklets
      PROVE  /\ Sel!InTime(r, t)' <=> Sel!InTime(r, t)
             /\ Sel!InPlace(r, t)' <=> Sel!InPlace(r, t)
  BY <1>1 DEF Sel!InTime, Sel!InPlace
<1>3. ASSUME NEW r \in 1 .. SelRounds, NEW t \in Sel!Tasklets
      PROVE  Sel!Exposed(r, t)' <=> Sel!Exposed(r, t)
  BY <1>1, <1>2 DEF Sel!Exposed
<1>4. QED
  BY <1>2, <1>3 DEF Sel!PlacedOK, SelClosed

LEMMA SelInit ==
  ASSUME Sel!Sized, Sel!Init
  PROVE  Sel!SelectInv
<1>1. Sel!TypeOK
  BY SelNumbers DEF Sel!Init, Sel!TypeOK, Sel!RoundStart, Sel!Locations
<1>2. Sel!PlacedOK
  <2>1. \A r \in 1 .. SelRounds, t \in Sel!Tasklets : ~ Sel!HasPlaced(r, t) /\ <<r, t>> \notin seLate
    BY SelNumbers DEF Sel!Init, Sel!HasPlaced, Sel!RoundStart
  <2>2. QED
    BY <2>1 DEF Sel!PlacedOK, Sel!InTime
<1>3. Sel!PhaseOK
  <2>1. sePartial = 0 /\ Sel!KeptInRounds(0) = 0 /\ seRound = 1 /\ seTotal = -1 /\ seEpoch = 1
    BY <1>1, SelCounts DEF Sel!Init
  <2>2. CASE SelRounds > 0
    <3>1. Sel!Starting
      BY <2>1, <2>2, SelNumbers DEF Sel!Starting, Sel!Init, Sel!RoundStart
    <3>2. QED
      BY <2>1, <2>2, <3>1, SelNumbers DEF Sel!PhaseOK
  <2>3. CASE SelRounds = 0
    BY <2>1, <2>3, SelNumbers DEF Sel!PhaseOK, Sel!Init
  <2>4. QED
    BY <2>2, <2>3, SelNumbers
<1>4. QED
  BY <1>1, <1>2, <1>3 DEF Sel!SelectInv

LEMMA SelBumps ==
  ASSUME Sel!Sized, Sel!SelectInv, Sel!Bump
  PROVE  Sel!SelectInv'
<1>1. /\ seAt[0] = "bump" /\ seEpoch' = seEpoch + 1 /\ seAt' = [seAt EXCEPT ![0] = "barrier1"]
      /\ UNCHANGED <<seRound, seBox, sePartial, seStamp, seCount, seBefore, seAccum, seKept>>
      /\ UNCHANGED <<seOutput, seTotal, seLate>>
  BY DEF Sel!Bump, Sel!Goto, Sel!locals, Sel!results
<1>2. Sel!TypeOK /\ Sel!PhaseOK /\ Sel!PlacedOK
  BY DEF Sel!SelectInv
<1>3. seRound <= SelRounds /\ seTotal = -1 /\ Sel!Starting
  BY <1>1, <1>2, SelNumbers DEF Sel!PhaseOK, Sel!Syncing, Sel!Placing, Sel!HandshakeOK
<1>4. Sel!TypeOK'
  BY <1>1, <1>2, SelNumbers DEF Sel!TypeOK, Sel!Locations
<1>5. Sel!PlacedOK'
  <2>1. \A u \in Sel!Tasklets : seAt'[u] = IF u = 0 THEN "barrier1" ELSE seAt[u]
    BY <1>1, <1>2 DEF Sel!TypeOK
  <2>2. /\ \A r \in 1 .. SelRounds, u \in Sel!Tasklets : Sel!HasPlaced(r, u)' <=> Sel!HasPlaced(r, u)
        /\ \A r \in 1 .. SelRounds : SelClosed(r) => SelClosed(r)'
    BY <1>1, <2>1, SelNumbers DEF Sel!HasPlaced, SelClosed
  <2>3. QED
    BY <1>1, <1>2, <2>2, SelPlacesStay
<1>6. \A n : Sel!KeptInRounds(n)' = Sel!KeptInRounds(n)
  BY <1>1 DEF Sel!KeptInRounds, Sel!KeptBefore
<1>7. Sel!Starting'
  BY <1>1, <1>2, <1>3, <1>6, SelNumbers DEF Sel!Starting, Sel!TypeOK
<1>8. QED
  BY <1>1, <1>3, <1>4, <1>5, <1>7 DEF Sel!SelectInv, Sel!PhaseOK

\* The barriers: every tasklet goes on to the next part of the round.
LEMMA SelMeets ==
  ASSUME Sel!Sized, Sel!SelectInv,
         Sel!BeforeSelect \/ Sel!BeforePlace \/ Sel!AfterUpdate \/ Sel!Report
  PROVE  Sel!SelectInv'
<1>1. Sel!TypeOK /\ Sel!PhaseOK /\ Sel!PlacedOK
  BY DEF Sel!SelectInv
<1>2. /\ UNCHANGED <<seEpoch, seBox, sePartial, seStamp, seCount, seBefore, seAccum>>
      /\ UNCHANGED <<seKept, seOutput, seLate>>
  BY DEF Sel!BeforeSelect, Sel!BeforePlace, Sel!AfterUpdate, Sel!Report, Sel!locals, Sel!results
<1>3. /\ \A r, u : Sel!KeptBefore(r, u)' = Sel!KeptBefore(r, u)
      /\ \A n : Sel!KeptInRounds(n)' = Sel!KeptInRounds(n)
  BY <1>2 DEF Sel!KeptBefore, Sel!KeptInRounds
<1>4. CASE Sel!BeforeSelect
  <2>1. /\ \A t \in Sel!Tasklets : seAt[t] = "barrier1"
        /\ seAt' = [t \in Sel!Tasklets |-> "select"] /\ UNCHANGED <<seRound, seTotal>>
    BY <1>4 DEF Sel!BeforeSelect, Sel!Barrier, Sel!results
  <2>2. seRound <= SelRounds /\ seTotal = -1 /\ Sel!Starting
    BY <1>1, <2>1, SelNumbers DEF Sel!PhaseOK, Sel!Syncing, Sel!Placing
  <2>3. Sel!TypeOK'
    BY <1>1, <1>2, <2>1 DEF Sel!TypeOK, Sel!Locations
  <2>4. Sel!PlacedOK'
    <3>1. /\ \A r \in 1 .. SelRounds, u \in Sel!Tasklets : Sel!HasPlaced(r, u)' <=> Sel!HasPlaced(r, u)
          /\ \A r \in 1 .. SelRounds : SelClosed(r) => SelClosed(r)'
      BY <1>1, <2>1, SelNumbers DEF Sel!HasPlaced, SelClosed, Sel!TypeOK
    <3>2. QED
      BY <1>1, <1>2, <3>1, SelPlacesStay
  <2>5. ASSUME NEW t \in Sel!Tasklets PROVE Sel!HandshakeOK(t)'
    <3>1. seAt'[t] = "select" /\ \A u \in Sel!Tasklets : seAt'[u] = "select"
      BY <2>1
    <3>2. ASSUME t # 0
          PROVE  t - 1 \in Sel!Tasklets /\ seAt'[t - 1] = "select" /\ seBox'[t].epoch <= seRound'
      BY <1>2, <2>1, <2>2, <3>2, SelNumbers DEF Sel!Starting
    <3>3. QED
      BY <3>1, <3>2 DEF Sel!HandshakeOK, Sel!BoxOK, Sel!Passed
  <2>9. Sel!Syncing'
    BY <1>2, <1>3, <2>1, <2>2, <2>5, SelNumbers DEF Sel!Syncing, Sel!Starting, Sel!Passed
  <2>6. QED
    BY <2>1, <2>2, <2>3, <2>4, <2>9 DEF Sel!SelectInv, Sel!PhaseOK
<1>5. CASE Sel!BeforePlace
  <2>1. /\ \A t \in Sel!Tasklets : seAt[t] = "barrier2"
        /\ seAt' = [t \in Sel!Tasklets |-> "place"] /\ UNCHANGED <<seRound, seTotal>>
    BY <1>5 DEF Sel!BeforePlace, Sel!Barrier, Sel!results
  <2>2. seRound <= SelRounds /\ seTotal = -1 /\ Sel!Syncing
    BY <1>1, <2>1, SelNumbers DEF Sel!PhaseOK, Sel!Starting, Sel!Placing
  <2>3. Sel!TypeOK'
    BY <1>1, <1>2, <2>1 DEF Sel!TypeOK, Sel!Locations
  <2>4. Sel!PlacedOK'
    <3>1. /\ \A r \in 1 .. SelRounds, u \in Sel!Tasklets : Sel!HasPlaced(r, u)' <=> Sel!HasPlaced(r, u)
          /\ \A r \in 1 .. SelRounds : SelClosed(r) => SelClosed(r)'
      BY <1>1, <2>1, SelNumbers DEF Sel!HasPlaced, SelClosed, Sel!TypeOK
    <3>2. QED
      BY <1>1, <1>2, <3>1, SelPlacesStay
  <2>5. ASSUME NEW t \in Sel!Tasklets
        PROVE  /\ seCount[t] = seKept[seRound][t] /\ seBefore[t] = Sel!KeptBefore(seRound, t)
               /\ t # 0 => seBox[t].epoch <= seRound + 1
    <3>1. seCount[t] = seKept[seRound][t] /\ seBefore[t] = Sel!KeptBefore(seRound, t)
      BY <2>1, <2>2 DEF Sel!Syncing, Sel!HandshakeOK
    <3>2. ASSUME t # 0 PROVE seBox[t].epoch <= seRound + 1
      <4>1. t - 1 \in Sel!Tasklets
        BY <3>2, SelNumbers
      <4>2. QED
        BY <1>1, <2>1, <2>2, <3>2, <4>1 DEF Sel!Syncing, Sel!HandshakeOK, Sel!BoxOK, Sel!Passed, Sel!TypeOK
    <3>3. QED
      BY <3>1, <3>2
  <2>6. seAccum = Sel!KeptBefore(seRound, SelN) /\ sePartial = Sel!KeptInRounds(seRound - 1)
    BY <2>1, <2>2, SelNumbers DEF Sel!Syncing, Sel!Passed
  <2>7. Sel!Placing'
    BY <1>2, <1>3, <2>1, <2>2, <2>5, <2>6, SelNumbers DEF Sel!Placing, Sel!Syncing
  <2>8. QED
    BY <2>1, <2>2, <2>3, <2>4, <2>7 DEF Sel!SelectInv, Sel!PhaseOK
<1>6. CASE Sel!AfterUpdate
  <2>1. /\ \A t \in Sel!Tasklets : seAt[t] = "barrier3"
        /\ seAt' = [t \in Sel!Tasklets |->
             IF seRound < SelRounds THEN (IF t = 0 THEN "bump" ELSE "barrier1") ELSE "report"]
        /\ seRound' = IF seRound < SelRounds THEN seRound + 1 ELSE seRound
        /\ UNCHANGED seTotal
    BY <1>6 DEF Sel!AfterUpdate, Sel!Barrier, Sel!RoundStart, Sel!results
  <2>2. seRound <= SelRounds /\ seTotal = -1 /\ Sel!Placing
    BY <1>1, <2>1, SelNumbers DEF Sel!PhaseOK, Sel!Starting, Sel!Syncing
  <2>3. Sel!TypeOK'
    BY <1>1, <1>2, <2>1 DEF Sel!TypeOK, Sel!Locations
  <2>4. Sel!PlacedOK'
    <3>3. /\ seRound \in Nat /\ SelRounds \in Nat /\ Sel!Last \in Sel!Tasklets
          /\ \A u \in Sel!Tasklets : seAt[u] = "barrier3"
          /\ seRound < SelRounds => seRound' = seRound + 1
          /\ ~ (seRound < SelRounds) =>
               seRound' = seRound /\ \A u \in Sel!Tasklets : seAt'[u] = "report"
      BY <1>1, <2>1, SelNumbers DEF Sel!TypeOK
    <3>1. /\ \A r \in 1 .. SelRounds, u \in Sel!Tasklets : Sel!HasPlaced(r, u)' <=> Sel!HasPlaced(r, u)
          /\ \A r \in 1 .. SelRounds : SelClosed(r) => SelClosed(r)'
      <4>1. CASE seRound < SelRounds
        <5>1. \A u \in Sel!Tasklets : seAt'[u] \in {"bump", "barrier1"}
          BY <2>1, <4>1
        <5>2. QED
          BY <3>3, <4>1, <5>1 DEF Sel!HasPlaced, SelClosed
      <4>2. CASE ~ (seRound < SelRounds)
        BY <3>3, <4>2 DEF Sel!HasPlaced, SelClosed
      <4>3. QED
        BY <4>1, <4>2
    <3>2. QED
      BY <1>1, <1>2, <3>1, SelPlacesStay
  <2>5. sePartial = Sel!KeptInRounds(seRound) /\ seRound \in Nat
    BY <1>1, <2>1, <2>2, SelNumbers DEF Sel!Placing, Sel!TypeOK
  <2>6. CASE seRound < SelRounds
    <3>1. seRound' = seRound + 1 /\ seRound' - 1 = seRound
      BY <2>1, <2>5, <2>6
    <3>2. Sel!Starting'
      BY <1>2, <1>3, <2>1, <2>2, <2>5, <2>6, <3>1, SelNumbers DEF Sel!Starting, Sel!Placing
    <3>3. QED
      BY <2>1, <2>2, <2>3, <2>4, <2>5, <2>6, <3>1, <3>2, SelNumbers DEF Sel!SelectInv, Sel!PhaseOK
  <2>7. CASE ~ (seRound < SelRounds)
    <3>1. seRound = SelRounds
      BY <2>2, <2>5, <2>7, SelNumbers
    <3>2. QED
      BY <1>2, <1>3, <2>1, <2>2, <2>3, <2>4, <2>5, <2>7, <3>1 DEF Sel!SelectInv, Sel!PhaseOK
  <2>8. QED
    BY <2>6, <2>7
<1>7. CASE Sel!Report
  <2>1. /\ \A t \in Sel!Tasklets : seAt[t] = "report"
        /\ seAt' = [t \in Sel!Tasklets |-> "done"] /\ UNCHANGED seRound
        /\ seTotal' = sePartial
    BY <1>7 DEF Sel!Report, Sel!Barrier
  <2>2. sePartial = Sel!KeptInRounds(SelRounds)
    BY <1>1, <2>1, SelNumbers DEF Sel!PhaseOK, Sel!Starting, Sel!Syncing, Sel!Placing
  <2>3. Sel!TypeOK'
    BY <1>1, <1>2, <2>1 DEF Sel!TypeOK, Sel!Locations
  <2>4. Sel!PlacedOK'
    <3>1. /\ \A r \in 1 .. SelRounds, u \in Sel!Tasklets : Sel!HasPlaced(r, u)' <=> Sel!HasPlaced(r, u)
          /\ \A r \in 1 .. SelRounds : SelClosed(r) => SelClosed(r)'
      BY <1>1, <2>1, SelNumbers DEF Sel!HasPlaced, SelClosed, Sel!TypeOK
    <3>2. QED
      BY <1>1, <1>2, <3>1, SelPlacesStay
  <2>5. QED
    BY <1>3, <2>1, <2>2, <2>3, <2>4 DEF Sel!SelectInv, Sel!PhaseOK
<1>8. QED
  BY <1>4, <1>5, <1>6, <1>7

\* A tasklet within the handshakes, and what it knows.
LEMMA SelWithin ==
  ASSUME Sel!Sized, Sel!SelectInv, NEW t \in Sel!Tasklets,
         seAt[t] \in {"select", "epoch", "receive", "take", "value", "stamp"}
  PROVE  seRound \in 1 .. SelRounds /\ seTotal = -1 /\ Sel!Syncing
<1>1. Sel!TypeOK /\ Sel!PhaseOK
  BY DEF Sel!SelectInv
<1>2. ~ Sel!Starting
  BY SelNumbers DEF Sel!Starting
<1>3. ~ Sel!Placing
  BY SelNumbers DEF Sel!Placing
<1>4. seRound <= SelRounds /\ seTotal = -1 /\ Sel!Syncing
  BY <1>1, <1>2, <1>3 DEF Sel!PhaseOK
<1>5. QED
  BY <1>1, <1>4, SelNumbers DEF Sel!TypeOK

\* Selecting: only tasklets that nothing has reached yet count on.
LEMMA SelSelects ==
  ASSUME Sel!Sized, Sel!SelectInv, NEW t \in Sel!Tasklets, Sel!Select(t)
  PROVE  Sel!SelectInv'
<1>1. PICK x \in SelKept : /\ seCount' = [seCount EXCEPT ![t] = x]
                           /\ seKept' = [seKept EXCEPT ![seRound][t] = x]
  BY DEF Sel!Select
<1>2. /\ seAt[t] = "select" /\ seAt' = [seAt EXCEPT ![t] = "epoch"]
      /\ UNCHANGED <<seRound, seEpoch, seBox, sePartial, seStamp, seBefore, seAccum>>
      /\ UNCHANGED <<seOutput, seTotal, seLate>>
  BY DEF Sel!Select, Sel!Goto, Sel!results
<1>3. Sel!TypeOK /\ Sel!PlacedOK
  BY DEF Sel!SelectInv
<1>4. seRound \in 1 .. SelRounds /\ seTotal = -1 /\ Sel!Syncing /\ x \in Nat
  BY <1>2, SelWithin, SelNumbers
<1>5. Sel!TypeOK'
  BY <1>1, <1>2, <1>3, <1>4, SelNumbers DEF Sel!TypeOK, Sel!Locations
<1>6. /\ \A r \in 1 .. SelRounds, u \in 0 .. SelN :
           r < seRound \/ (r = seRound /\ u <= t) => Sel!KeptBefore(r, u)' = Sel!KeptBefore(r, u)
      /\ \A n \in 0 .. SelRounds : n < seRound => Sel!KeptInRounds(n)' = Sel!KeptInRounds(n)
  <2>1. /\ seKept' = [seKept EXCEPT ![seRound][t] = x]
        /\ seRound <= SelRounds /\ x \in Nat
    BY <1>1, <1>4, SelNumbers
  <2>2. QED
    BY <1>3, <2>1, SelSettled
<1>7. Sel!PlacedOK'
  <2>1. ASSUME NEW r \in 1 .. SelRounds, NEW u \in Sel!Tasklets
        PROVE  /\ Sel!HasPlaced(r, u) <=> r < seRound
               /\ Sel!HasPlaced(r, u)' <=> r < seRound
               /\ <<r, u>> \in seLate => r < seRound
    <3>1. /\ \A w \in Sel!Tasklets : seAt[w] \notin {"update", "barrier3", "report", "done"}
          /\ \A w \in Sel!Tasklets : seAt'[w] \notin {"update", "barrier3", "report", "done"}
      BY <1>2, <1>3, <1>4 DEF Sel!Syncing, Sel!TypeOK
    <3>2. QED
      BY <1>2, <1>3, <3>1, SelNumbers DEF Sel!HasPlaced, Sel!PlacedOK
  <2>2. ASSUME NEW r \in 1 .. SelRounds, r < seRound, NEW u \in Sel!Tasklets
        PROVE  Sel!Due(r, u)' = Sel!Due(r, u) /\ seKept'[r][u] = seKept[r][u]
    <3>1. r - 1 \in 0 .. SelRounds /\ r - 1 < seRound /\ u \in 0 .. SelN
      BY <1>4, <2>2, SelNumbers
    <3>2. /\ Sel!KeptBefore(r, u)' = Sel!KeptBefore(r, u)
          /\ Sel!KeptInRounds(r - 1)' = Sel!KeptInRounds(r - 1)
      BY <1>6, <2>2, <3>1
    <3>3. seKept'[r][u] = seKept[r][u]
      BY <1>1, <1>3, <1>4, <2>2 DEF Sel!TypeOK
    <3>4. QED
      BY <3>2, <3>3 DEF Sel!Due
  <2>3. ASSUME NEW r \in 1 .. SelRounds, NEW u \in Sel!Tasklets, Sel!InTime(r, u)', ~ Sel!Exposed(r, u)'
        PROVE  Sel!InPlace(r, u)'
    <3>1. r < seRound /\ \A w \in Sel!Tasklets : Sel!InTime(r, w)' <=> Sel!InTime(r, w)
      BY <1>2, <2>1, <2>3 DEF Sel!InTime
    <3>2. Sel!InTime(r, u) /\ ~ Sel!Exposed(r, u)
      BY <2>2, <2>3, <3>1 DEF Sel!Exposed
    <3>3. Sel!InPlace(r, u)
      BY <1>3, <3>2 DEF Sel!PlacedOK
    <3>4. Sel!Due(r, u)' = Sel!Due(r, u) /\ seKept'[r][u] = seKept[r][u] /\ seOutput' = seOutput
      BY <1>2, <2>2, <3>1
    <3>5. QED
      BY <3>3, <3>4 DEF Sel!InPlace
  <2>4. ASSUME NEW r \in 1 .. SelRounds, NEW u \in Sel!Tasklets, <<r, u>> \in seLate'
        PROVE  r < seRound'
    BY <1>2, <2>1, <2>4
  <2>5. QED
    BY <2>3, <2>4 DEF Sel!PlacedOK
<1>8. ~ Sel!Passed(t) /\ ~ Sel!Passed(t)'
  BY <1>2, <1>3 DEF Sel!Passed, Sel!TypeOK
<1>9. ASSUME NEW u \in Sel!Tasklets, t < u
      PROVE  seAt[u] \in {"select", "epoch", "receive"}
  BY <1>4, <1>8, <1>9 DEF Sel!Syncing, Sel!HandshakeOK
<1>10. ASSUME NEW u \in Sel!Tasklets PROVE Sel!HandshakeOK(u)'
  <2>1. Sel!HandshakeOK(u)
    BY <1>4 DEF Sel!Syncing
  <2>2. seAt'[u] = IF u = t THEN "epoch" ELSE seAt[u]
    BY <1>2, <1>3 DEF Sel!TypeOK
  <2>3. seAt'[u] # "select" => seCount'[u] = seKept'[seRound'][u]
    <3>1. CASE u = t
      BY <1>1, <1>2, <1>3, <1>4, <3>1 DEF Sel!TypeOK
    <3>2. CASE u # t
      <4>1. seCount'[u] = seCount[u] /\ seKept'[seRound][u] = seKept[seRound][u]
        BY <1>1, <1>3, <1>4, <3>2 DEF Sel!TypeOK
      <4>2. QED
        BY <1>2, <2>1, <2>2, <3>2, <4>1 DEF Sel!HandshakeOK
    <3>3. QED
      BY <3>1, <3>2
  <2>4. /\ seAt'[u] \notin {"select", "epoch"} => seStamp'[u] = seRound' + 1
        /\ seAt'[u] \in {"receive", "take"} => u # 0
        /\ seAt'[u] = "stamp" => u # Sel!Last
    BY <1>2, <2>1, <2>2 DEF Sel!HandshakeOK
  <2>5. ASSUME seAt'[u] \in {"take", "value", "stamp", "barrier2"}, NEW w \in Sel!Tasklets, w < u
        PROVE  Sel!Passed(w)'
    BY <1>2, <1>3, <1>8, <2>1, <2>2, <2>5 DEF Sel!HandshakeOK, Sel!Passed, Sel!TypeOK
  <2>6. ASSUME seAt'[u] \in {"value", "stamp", "barrier2"}
        PROVE  seBefore'[u] = Sel!KeptBefore(seRound, u)'
    <3>1. u # t /\ ~ (t < u)
      BY <1>9, <2>2, <2>6
    <3>2. u <= t /\ u \in 0 .. SelN
      BY <3>1, SelNumbers
    <3>3. Sel!KeptBefore(seRound, u)' = Sel!KeptBefore(seRound, u)
      BY <1>2, <1>4, <1>6, <3>2 DEF Sel!KeptBefore
    <3>4. QED
      BY <1>2, <2>1, <2>2, <2>6, <3>1, <3>3 DEF Sel!HandshakeOK
  <2>7. ASSUME u # 0 PROVE Sel!BoxOK(u)'
    <3>1. u - 1 \in Sel!Tasklets /\ Sel!BoxOK(u)
      BY <2>1, <2>7, SelNumbers DEF Sel!HandshakeOK
    <3>2. seAt'[u - 1] = IF u - 1 = t THEN "epoch" ELSE seAt[u - 1]
      BY <1>2, <1>3, <3>1 DEF Sel!TypeOK
    <3>3. IF Sel!Passed(u - 1)' THEN seBox'[u].epoch = seRound' + 1 ELSE seBox'[u].epoch <= seRound'
      BY <1>2, <1>8, <3>1, <3>2 DEF Sel!BoxOK, Sel!Passed
    <3>4. ASSUME seAt'[u - 1] \in {"stamp", "barrier2"}
          PROVE  seBox'[u].val = Sel!KeptBefore(seRound, u)'
      <4>1. u - 1 # t /\ ~ (t < u - 1)
        BY <1>9, <3>1, <3>2, <3>4
      <4>2. u <= t /\ u \in 0 .. SelN
        BY <4>1, SelNumbers
      <4>3. Sel!KeptBefore(seRound, u)' = Sel!KeptBefore(seRound, u)
        BY <1>2, <1>4, <1>6, <4>2 DEF Sel!KeptBefore
      <4>4. QED
        BY <1>2, <3>1, <3>2, <3>4, <4>1, <4>3 DEF Sel!BoxOK
    <3>5. QED
      BY <3>3, <3>4 DEF Sel!BoxOK
  <2>8. QED
    BY <2>3, <2>4, <2>5, <2>6, <2>7 DEF Sel!HandshakeOK
<1>11. ~ Sel!Passed(Sel!Last)'
  <2>1. CASE t = Sel!Last
    BY <1>8, <2>1
  <2>2. CASE t # Sel!Last
    <3>1. t < Sel!Last /\ Sel!Last \in Sel!Tasklets
      BY <2>2, SelNumbers
    <3>2. QED
      BY <1>2, <1>3, <1>9, <3>1 DEF Sel!Passed, Sel!TypeOK
  <2>3. QED
    BY <2>1, <2>2
<1>12. sePartial' = Sel!KeptInRounds(seRound - 1)'
  <2>1. seRound - 1 \in 0 .. SelRounds /\ seRound - 1 < seRound
    BY <1>4, SelNumbers
  <2>2. Sel!KeptInRounds(seRound - 1)' = Sel!KeptInRounds(seRound - 1)
    BY <1>2, <1>6, <2>1 DEF Sel!KeptInRounds
  <2>3. QED
    BY <1>2, <1>4, <2>2 DEF Sel!Syncing
<1>13. /\ \A u \in Sel!Tasklets : seAt'[u] \in {"select", "epoch", "receive", "take", "value",
                                              "stamp", "barrier2"}
       /\ seEpoch' = seRound' + 1
  BY <1>2, <1>3, <1>4 DEF Sel!Syncing, Sel!TypeOK
<1>14. Sel!Syncing'
  BY <1>10, <1>11, <1>12, <1>13 DEF Sel!Syncing
<1>15. QED
  BY <1>2, <1>4, <1>5, <1>7, <1>14 DEF Sel!SelectInv, Sel!PhaseOK

\* A step of the handshake disturbs its tasklet and the right neighbour only.
LEMMA SelSteps ==
  ASSUME Sel!Sized, Sel!SelectInv, NEW t \in Sel!Tasklets,
         seAt[t] \in {"epoch", "receive", "take", "value", "stamp"},
         seAt'[t] \in {"receive", "take", "value", "stamp", "barrier2"},
         \A u \in Sel!Tasklets : u # t => seAt'[u] = seAt[u],
         UNCHANGED <<seRound, seEpoch, sePartial, seCount, seKept, seOutput, seTotal, seLate>>,
         Sel!TypeOK',
         \A u \in Sel!Tasklets : u # t => seStamp'[u] = seStamp[u] /\ seBefore'[u] = seBefore[u],
         \A u \in Sel!Tasklets : u # t + 1 => seBox'[u] = seBox[u],
         Sel!HandshakeOK(t)', t # Sel!Last => Sel!BoxOK(t + 1)',
         t = Sel!Last /\ seAt'[t] = "barrier2" => seAccum' = Sel!KeptBefore(seRound, SelN),
         t # Sel!Last => seAccum' = seAccum
  PROVE  Sel!SelectInv'
<1>1. Sel!TypeOK /\ Sel!PlacedOK
  BY DEF Sel!SelectInv
<1>2. seRound \in 1 .. SelRounds /\ seTotal = -1 /\ Sel!Syncing
  BY SelWithin
<1>3. /\ \A r, u : Sel!KeptBefore(r, u)' = Sel!KeptBefore(r, u)
      /\ \A n : Sel!KeptInRounds(n)' = Sel!KeptInRounds(n)
  BY DEF Sel!KeptBefore, Sel!KeptInRounds
<1>4. \A u \in Sel!Tasklets : u # t => seAt'[u] = seAt[u]
  OBVIOUS
<1>5. \A u \in Sel!Tasklets : Sel!Passed(u) => Sel!Passed(u)'
  BY <1>4 DEF Sel!Passed
<1>6. ASSUME NEW u \in Sel!Tasklets, u # t PROVE Sel!HandshakeOK(u)'
  <2>1. Sel!HandshakeOK(u)
    BY <1>2 DEF Sel!Syncing
  <2>2. seAt'[u] = seAt[u] /\ seStamp'[u] = seStamp[u] /\ seBefore'[u] = seBefore[u]
    BY <1>4, <1>6
  <2>3. ASSUME u # 0 PROVE Sel!BoxOK(u)'
    <3>1. CASE u = t + 1
      <4>1. t # Sel!Last
        BY <3>1, SelNumbers
      <4>2. QED
        BY <3>1, <4>1
    <3>2. CASE u # t + 1
      <4>1. u - 1 \in Sel!Tasklets /\ u - 1 # t
        BY <2>3, <3>2, SelNumbers
      <4>2. seAt'[u - 1] = seAt[u - 1] /\ seBox'[u] = seBox[u]
        BY <1>4, <3>2, <4>1
      <4>3. Sel!KeptBefore(seRound, u)' = Sel!KeptBefore(seRound, u)
        BY <1>3 DEF Sel!KeptBefore
      <4>4. Sel!BoxOK(u)
        BY <2>1, <2>3 DEF Sel!HandshakeOK
      <4>5. QED
        BY <4>2, <4>3, <4>4 DEF Sel!BoxOK, Sel!Passed
    <3>3. QED
      BY <3>1, <3>2
  <2>4. Sel!KeptBefore(seRound, u)' = Sel!KeptBefore(seRound, u)
    BY <1>3 DEF Sel!KeptBefore
  <2>5. QED
    BY <1>5, <2>1, <2>2, <2>3, <2>4 DEF Sel!HandshakeOK
<1>7. Sel!Passed(Sel!Last)' => seAccum' = Sel!KeptBefore(seRound, SelN)'
  <2>1. Sel!KeptBefore(seRound, SelN)' = Sel!KeptBefore(seRound, SelN)
    BY <1>3 DEF Sel!KeptBefore
  <2>2. CASE t = Sel!Last
    BY <1>4, <2>1, <2>2 DEF Sel!Passed
  <2>3. CASE t # Sel!Last
    BY <1>2, <1>4, <2>1, <2>3, SelNumbers DEF Sel!Passed, Sel!Syncing
  <2>4. QED
    BY <2>2, <2>3
<1>8. sePartial' = Sel!KeptInRounds(seRound - 1)'
  BY <1>2, <1>3 DEF Sel!Syncing, Sel!KeptInRounds
<1>9. /\ \A u \in Sel!Tasklets : seAt'[u] \in {"select", "epoch", "receive", "take", "value",
                                             "stamp", "barrier2"}
      /\ seEpoch' = seRound' + 1
  BY <1>2, <1>4 DEF Sel!Syncing
<1>10. Sel!Syncing'
  BY <1>6, <1>7, <1>8, <1>9 DEF Sel!Syncing
<1>11. Sel!PlacedOK'
  <2>1. \A u \in Sel!Tasklets :
          /\ seAt[u] \notin {"update", "barrier3", "report", "done"}
          /\ seAt'[u] \notin {"update", "barrier3", "report", "done"}
    BY <1>2, <1>9 DEF Sel!Syncing
  <2>2. /\ \A r \in 1 .. SelRounds, u \in Sel!Tasklets : Sel!HasPlaced(r, u)' <=> Sel!HasPlaced(r, u)
        /\ \A r \in 1 .. SelRounds : SelClosed(r) => SelClosed(r)'
    BY <2>1, SelNumbers DEF Sel!HasPlaced, SelClosed
  <2>3. QED
    BY <1>1, <2>2, SelPlacesStay
<1>12. QED
  BY <1>2, <1>10, <1>11 DEF Sel!SelectInv, Sel!PhaseOK

\* The box of the right neighbour, told from where its sender is.
LEMMA SelNextBox ==
  ASSUME NEW t \in Int
  PROVE  /\ Sel!BoxOK(t + 1) <=>
              /\ seAt[t] = "barrier2" => seBox[t + 1].epoch = seRound + 1
              /\ seAt[t] # "barrier2" => seBox[t + 1].epoch <= seRound
              /\ seAt[t] \in {"stamp", "barrier2"} =>
                   seBox[t + 1].val = Sel!KeptBefore(seRound, t + 1)
         /\ Sel!BoxOK(t + 1)' <=>
              /\ seAt'[t] = "barrier2" => seBox'[t + 1].epoch = seRound' + 1
              /\ seAt'[t] # "barrier2" => seBox'[t + 1].epoch <= seRound'
              /\ seAt'[t] \in {"stamp", "barrier2"} =>
                   seBox'[t + 1].val = Sel!KeptBefore(seRound, t + 1)'
<1>1. t + 1 - 1 = t
  OBVIOUS
<1>2. QED
  BY <1>1 DEF Sel!BoxOK, Sel!Passed

\* The steps of the handshake.
LEMMA SelShakes ==
  ASSUME Sel!Sized, Sel!SelectInv, NEW t \in Sel!Tasklets,
         Sel!ReadEpoch(t) \/ Sel!Receive(t) \/ Sel!Take(t) \/ Sel!SendValue(t) \/ Sel!Stamp(t)
  PROVE  Sel!SelectInv'
<1>1. seAt[t] \in {"epoch", "receive", "take", "value", "stamp"}
  BY DEF Sel!ReadEpoch, Sel!Receive, Sel!Take, Sel!SendValue, Sel!Stamp
<1>2. /\ Sel!TypeOK /\ seRound \in 1 .. SelRounds /\ Sel!Syncing
      /\ SelN \in Nat \ {0} /\ Sel!Tasklets = 0 .. SelN - 1 /\ Sel!Last = SelN - 1
  BY <1>1, SelWithin, SelNumbers DEF Sel!SelectInv
<1>3. UNCHANGED <<seRound, seEpoch, sePartial, seCount, seKept, seOutput, seTotal, seLate>>
  BY DEF Sel!ReadEpoch, Sel!Receive, Sel!Take, Sel!SendValue, Sel!Stamp, Sel!results, Sel!locals
<1>4. /\ \A u : Sel!KeptBefore(seRound, u)' = Sel!KeptBefore(seRound, u)
      /\ Sel!KeptBefore(seRound, 0) = 0 /\ Sel!KeptBefore(seRound, t) \in Nat
      /\ Sel!KeptBefore(seRound, t + 1) = Sel!KeptBefore(seRound, t) + seKept[seRound][t]
      /\ Sel!KeptBefore(seRound, t + 1) \in Nat
  <2>1. \A u : Sel!KeptBefore(seRound, u)' = Sel!KeptBefore(seRound, u)
    BY <1>3 DEF Sel!KeptBefore
  <2>2. t \in 0 .. SelN /\ t + 1 \in 0 .. SelN
    BY <1>2
  <2>3. QED
    BY <1>2, <2>1, <2>2, SelCounts
<1>5. Sel!HandshakeOK(t) /\ seEpoch = seRound + 1
  BY <1>2 DEF Sel!Syncing
<1>6. t # 0 => t - 1 \in Sel!Tasklets /\ Sel!BoxOK(t) /\ Sel!HandshakeOK(t - 1)
  <2>1. t # 0 => t - 1 \in Sel!Tasklets
    BY <1>2
  <2>2. QED
    BY <1>2, <1>5, <2>1 DEF Sel!Syncing, Sel!HandshakeOK
<1>7. t # Sel!Last => t + 1 \in Sel!Tasklets /\ Sel!BoxOK(t + 1)
  <2>1. t # Sel!Last => t + 1 \in Sel!Tasklets /\ t + 1 # 0
    BY <1>2
  <2>2. QED
    BY <1>2, <2>1 DEF Sel!Syncing, Sel!HandshakeOK
<1>8. \A u \in Sel!Tasklets : u < t => u # t + 1 /\ u # t
  BY <1>2
<1>9. t # t + 1 /\ t + 1 - 1 = t /\ t - 1 # t
  BY <1>2
<1>18. t \in Int
  BY <1>2
<1>10. seCount[t] = seKept[seRound][t]
  BY <1>1, <1>5 DEF Sel!HandshakeOK
<1>11. CASE Sel!ReadEpoch(t)
  <2> DEFINE l == IF t = 0 THEN "value" ELSE "receive"
  <2>1. /\ seAt[t] = "epoch" /\ seAt' = [seAt EXCEPT ![t] = l]
        /\ seStamp' = [seStamp EXCEPT ![t] = seRound + 1] /\ seBefore' = [seBefore EXCEPT ![t] = 0]
        /\ UNCHANGED <<seBox, seAccum>>
    BY <1>5, <1>11 DEF Sel!ReadEpoch, Sel!Goto
  <2>2. Sel!TypeOK'
    <3>1. seAt' \in [Sel!Tasklets -> Sel!Locations]
      BY <1>2, <2>1 DEF Sel!TypeOK, Sel!Locations
    <3>2. seRound + 1 \in Nat
      BY <1>2 DEF Sel!TypeOK
    <3>3. seStamp' \in [Sel!Tasklets -> Nat] /\ seBefore' \in [Sel!Tasklets -> Nat]
      BY <1>2, <2>1, <3>2 DEF Sel!TypeOK
    <3>4. QED
      BY <1>2, <1>3, <2>1, <3>1, <3>3 DEF Sel!TypeOK
  <2>3. seAt'[t] = l /\ \A u \in Sel!Tasklets : u # t => seAt'[u] = seAt[u]
    BY <1>2, <2>1 DEF Sel!TypeOK
  <2>4. /\ seStamp'[t] = seRound + 1 /\ seBefore'[t] = 0
        /\ \A u \in Sel!Tasklets : u # t => seStamp'[u] = seStamp[u] /\ seBefore'[u] = seBefore[u]
    BY <1>2, <2>1 DEF Sel!TypeOK
  <2>5. t # 0 => Sel!BoxOK(t)'
    BY <1>3, <1>4, <1>6, <1>9, <2>1, <2>3 DEF Sel!BoxOK, Sel!Passed, Sel!KeptBefore
  <2>6. t # Sel!Last => Sel!BoxOK(t + 1)'
    BY <1>3, <1>7, <1>18, <2>1, <2>3, SelNextBox
  <2>7. Sel!HandshakeOK(t)'
    <3>1. t = 0 => \A u \in Sel!Tasklets : ~ (u < t)
      BY <1>2
    <3>2. t = 0 => Sel!KeptBefore(seRound, t)' = 0
      BY <1>4
    <3>3. QED
      BY <1>3, <1>10, <2>3, <2>4, <2>5, <3>1, <3>2 DEF Sel!HandshakeOK
  <2>8. l \in {"receive", "take", "value", "stamp", "barrier2"} /\ l # "barrier2"
    OBVIOUS
  <2> HIDE DEF l
  <2>9. QED
    BY <1>1, <1>3, <2>1, <2>2, <2>3, <2>4, <2>6, <2>7, <2>8, SelSteps
<1>12. CASE Sel!Receive(t)
  <2>1. /\ seAt[t] = "receive" /\ seBox[t].epoch = seStamp[t] /\ seAt' = [seAt EXCEPT ![t] = "take"]
        /\ UNCHANGED <<seBox, seStamp, seBefore, seAccum>>
    BY <1>12 DEF Sel!Receive, Sel!Goto, Sel!locals
  <2>2. Sel!TypeOK'
    BY <1>2, <1>3, <2>1 DEF Sel!TypeOK, Sel!Locations
  <2>3. seAt'[t] = "take" /\ \A u \in Sel!Tasklets : u # t => seAt'[u] = seAt[u]
    BY <1>2, <2>1 DEF Sel!TypeOK
  <2>4. t # 0 /\ seStamp[t] = seRound + 1
    BY <1>5, <2>1 DEF Sel!HandshakeOK
  <2>5. Sel!Passed(t - 1)
    <3>1. ~ (seBox[t].epoch <= seRound)
      BY <1>2, <2>1, <2>4
    <3>2. QED
      BY <1>6, <2>4, <3>1 DEF Sel!BoxOK
  <2>6. \A u \in Sel!Tasklets : u < t => Sel!Passed(u)'
    <3> SUFFICES ASSUME NEW u \in Sel!Tasklets, u < t PROVE Sel!Passed(u)
      BY <1>8, <2>3 DEF Sel!Passed
    <3>1. CASE u = t - 1
      BY <2>5, <3>1
    <3>2. CASE u < t - 1
      BY <1>6, <2>4, <2>5, <3>2 DEF Sel!HandshakeOK, Sel!Passed
    <3>3. QED
      BY <1>2, <3>1, <3>2
  <2>7. Sel!BoxOK(t)'
    BY <1>3, <1>6, <1>9, <2>1, <2>3, <2>4 DEF Sel!BoxOK, Sel!Passed, Sel!KeptBefore
  <2>8. t # Sel!Last => Sel!BoxOK(t + 1)'
    BY <1>3, <1>7, <1>18, <2>1, <2>3, SelNextBox
  <2>9. Sel!HandshakeOK(t)'
    BY <1>3, <1>10, <2>1, <2>3, <2>4, <2>6, <2>7 DEF Sel!HandshakeOK
  <2>10. QED
    BY <1>1, <1>3, <2>1, <2>2, <2>3, <2>8, <2>9, SelSteps
<1>13. CASE Sel!Take(t)
  <2>1. /\ seAt[t] = "take" /\ seBefore' = [seBefore EXCEPT ![t] = seBox[t].val]
        /\ seAt' = [seAt EXCEPT ![t] = "value"] /\ UNCHANGED <<seBox, seStamp, seAccum>>
    BY <1>13 DEF Sel!Take, Sel!Goto
  <2>2. Sel!TypeOK'
    BY <1>2, <1>3, <2>1 DEF Sel!TypeOK, Sel!Locations
  <2>3. seAt'[t] = "value" /\ \A u \in Sel!Tasklets : u # t => seAt'[u] = seAt[u]
    BY <1>2, <2>1 DEF Sel!TypeOK
  <2>4. /\ t # 0 /\ seStamp[t] = seRound + 1
        /\ \A u \in Sel!Tasklets : u < t => Sel!Passed(u)
    BY <1>5, <2>1 DEF Sel!HandshakeOK
  <2>5. seBox[t].val = Sel!KeptBefore(seRound, t)
    <3>1. Sel!Passed(t - 1)
      BY <1>2, <1>6, <2>4
    <3>2. QED
      BY <1>6, <2>4, <3>1 DEF Sel!BoxOK, Sel!Passed
  <2>6. /\ seBefore'[t] = Sel!KeptBefore(seRound, t)'
        /\ \A u \in Sel!Tasklets : u # t => seBefore'[u] = seBefore[u]
    BY <1>2, <1>4, <2>1, <2>5 DEF Sel!TypeOK
  <2>7. Sel!BoxOK(t)'
    BY <1>3, <1>6, <1>9, <2>1, <2>3, <2>4 DEF Sel!BoxOK, Sel!Passed, Sel!KeptBefore
  <2>8. t # Sel!Last => Sel!BoxOK(t + 1)'
    BY <1>3, <1>7, <1>18, <2>1, <2>3, SelNextBox
  <2>9. Sel!HandshakeOK(t)'
    <3>1. \A u \in Sel!Tasklets : u < t => Sel!Passed(u)'
      BY <1>8, <2>3, <2>4 DEF Sel!Passed
    <3>2. QED
      BY <1>3, <1>10, <2>1, <2>3, <2>4, <2>6, <2>7, <3>1 DEF Sel!HandshakeOK
  <2>10. QED
    BY <1>1, <1>3, <2>1, <2>2, <2>3, <2>6, <2>8, <2>9, SelSteps
<1>14. CASE Sel!SendValue(t) /\ t = Sel!Last
  <2>1. /\ seAt[t] = "value" /\ seAccum' = seBefore[t] + seCount[t]
        /\ seAt' = [seAt EXCEPT ![t] = "barrier2"] /\ UNCHANGED <<seBox, seStamp, seBefore>>
    BY <1>14 DEF Sel!SendValue, Sel!Goto
  <2>2. Sel!TypeOK'
    <3>1. seAt' \in [Sel!Tasklets -> Sel!Locations]
      BY <1>2, <2>1 DEF Sel!TypeOK, Sel!Locations
    <3>2. seBefore \in [Sel!Tasklets -> Nat] /\ seCount \in [Sel!Tasklets -> Nat]
      BY <1>2 DEF Sel!TypeOK
    <3>3. seBefore[t] \in Nat /\ seCount[t] \in Nat
      BY <3>2
    <3>4. seAccum' \in Nat
      BY ONLY <2>1, <3>3
    <3>5. QED
      BY <1>2, <1>3, <2>1, <3>1, <3>4 DEF Sel!TypeOK
  <2>3. seAt'[t] = "barrier2" /\ \A u \in Sel!Tasklets : u # t => seAt'[u] = seAt[u]
    BY <1>2, <2>1 DEF Sel!TypeOK
  <2>4. /\ seStamp[t] = seRound + 1 /\ seBefore[t] = Sel!KeptBefore(seRound, t)
        /\ \A u \in Sel!Tasklets : u < t => Sel!Passed(u)
    BY <1>5, <2>1 DEF Sel!HandshakeOK
  <2>5. seAccum' = Sel!KeptBefore(seRound, SelN)
    <3>1. t + 1 = SelN
      BY <1>2, <1>14
    <3>2. QED
      BY <1>4, <1>10, <2>1, <2>4, <3>1
  <2>6. t # 0 => Sel!BoxOK(t)'
    BY <1>3, <1>6, <1>9, <2>1, <2>3, <2>4 DEF Sel!BoxOK, Sel!Passed, Sel!KeptBefore
  <2>7. Sel!HandshakeOK(t)'
    <3>1. \A u \in Sel!Tasklets : u < t => Sel!Passed(u)'
      BY <1>8, <2>3, <2>4 DEF Sel!Passed
    <3>2. seBefore'[t] = Sel!KeptBefore(seRound, t)'
      BY <1>4, <2>1, <2>4
    <3>3. QED
      BY <1>3, <1>10, <2>1, <2>3, <2>4, <2>6, <3>1, <3>2 DEF Sel!HandshakeOK
  <2>8. /\ \A u \in Sel!Tasklets : seStamp'[u] = seStamp[u] /\ seBefore'[u] = seBefore[u]
        /\ \A u \in Sel!Tasklets : seBox'[u] = seBox[u]
    BY <2>1
  <2>9. t = Sel!Last
    BY <1>14
  <2>10. QED
    BY <1>1, <1>3, <2>2, <2>3, <2>5, <2>7, <2>8, <2>9, SelSteps
<1>15. CASE Sel!SendValue(t) /\ t # Sel!Last
  <2>1. /\ seAt[t] = "value" /\ seBox' = [seBox EXCEPT ![t + 1].val = seBefore[t] + seCount[t]]
        /\ seAt' = [seAt EXCEPT ![t] = "stamp"] /\ UNCHANGED <<seAccum, seStamp, seBefore>>
    BY <1>15 DEF Sel!SendValue, Sel!Goto
  <2>2. Sel!TypeOK'
    <3>1. seAt' \in [Sel!Tasklets -> Sel!Locations]
      BY <1>2, <2>1 DEF Sel!TypeOK, Sel!Locations
    <3>2. seBefore \in [Sel!Tasklets -> Nat] /\ seCount \in [Sel!Tasklets -> Nat]
          /\ seBox \in [Sel!Tasklets -> [val : Nat, epoch : Nat]]
      BY <1>2 DEF Sel!TypeOK
    <3>3. seBefore[t] \in Nat /\ seCount[t] \in Nat /\ t + 1 \in Sel!Tasklets
      BY <1>7, <1>15, <3>2
    <3>4. seBefore[t] + seCount[t] \in Nat
      BY ONLY <3>3
    <3>5. seBox' \in [Sel!Tasklets -> [val : Nat, epoch : Nat]]
      BY ONLY <2>1, <3>2, <3>3, <3>4
    <3>6. QED
      BY <1>2, <1>3, <2>1, <3>1, <3>5 DEF Sel!TypeOK
  <2>3. seAt'[t] = "stamp" /\ \A u \in Sel!Tasklets : u # t => seAt'[u] = seAt[u]
    BY <1>2, <2>1 DEF Sel!TypeOK
  <2>4. /\ seStamp[t] = seRound + 1 /\ seBefore[t] = Sel!KeptBefore(seRound, t)
        /\ \A u \in Sel!Tasklets : u < t => Sel!Passed(u)
    BY <1>5, <2>1 DEF Sel!HandshakeOK
  <2>5. /\ seBox'[t + 1].val = Sel!KeptBefore(seRound, t + 1)
        /\ seBox'[t + 1].epoch = seBox[t + 1].epoch
        /\ \A u \in Sel!Tasklets : u # t + 1 => seBox'[u] = seBox[u]
    BY <1>2, <1>4, <1>7, <1>10, <1>15, <2>1, <2>4 DEF Sel!TypeOK
  <2>6. t # 0 => Sel!BoxOK(t)'
    BY <1>3, <1>6, <1>9, <2>5, <2>3, <2>4 DEF Sel!BoxOK, Sel!Passed, Sel!KeptBefore
  <2>7. Sel!BoxOK(t + 1)'
    <3>1. seBox[t + 1].epoch <= seRound
      BY <1>7, <1>15, <1>18, <2>1, SelNextBox
    <3>2. seBox'[t + 1].val = Sel!KeptBefore(seRound, t + 1)'
      BY <1>4, <2>5
    <3>3. QED
      BY <1>3, <1>18, <2>3, <2>5, <3>1, <3>2, SelNextBox
  <2>8. Sel!HandshakeOK(t)'
    <3>1. \A u \in Sel!Tasklets : u < t => Sel!Passed(u)'
      BY <1>8, <2>3, <2>4 DEF Sel!Passed
    <3>2. seBefore'[t] = Sel!KeptBefore(seRound, t)'
      BY <1>4, <2>1, <2>4
    <3>3. QED
      BY <1>3, <1>10, <1>15, <2>1, <2>3, <2>4, <2>6, <3>1, <3>2 DEF Sel!HandshakeOK
  <2>9. QED
    BY <1>1, <1>3, <1>15, <2>1, <2>2, <2>3, <2>5, <2>7, <2>8, SelSteps
<1>16. CASE Sel!Stamp(t)
  <2>1. /\ seAt[t] = "stamp" /\ seBox' = [seBox EXCEPT ![t + 1].epoch = seStamp[t]]
        /\ seAt' = [seAt EXCEPT ![t] = "barrier2"] /\ UNCHANGED <<seAccum, seStamp, seBefore>>
    BY <1>16 DEF Sel!Stamp, Sel!Goto, Sel!locals
  <2>2. t # Sel!Last /\ t + 1 \in Sel!Tasklets
    BY <1>5, <1>7, <2>1 DEF Sel!HandshakeOK
  <2>3. Sel!TypeOK'
    BY <1>2, <1>3, <2>1, <2>2 DEF Sel!TypeOK, Sel!Locations
  <2>4. seAt'[t] = "barrier2" /\ \A u \in Sel!Tasklets : u # t => seAt'[u] = seAt[u]
    BY <1>2, <2>1 DEF Sel!TypeOK
  <2>5. /\ seStamp[t] = seRound + 1 /\ seBefore[t] = Sel!KeptBefore(seRound, t)
        /\ \A u \in Sel!Tasklets : u < t => Sel!Passed(u)
    BY <1>5, <2>1 DEF Sel!HandshakeOK
  <2>6. /\ seBox'[t + 1].val = seBox[t + 1].val
        /\ seBox'[t + 1].epoch = seRound + 1
        /\ \A u \in Sel!Tasklets : u # t + 1 => seBox'[u] = seBox[u]
    BY <1>2, <2>1, <2>2, <2>5 DEF Sel!TypeOK
  <2>7. t # 0 => Sel!BoxOK(t)'
    BY <1>3, <1>6, <1>9, <2>6, <2>4, <2>5 DEF Sel!BoxOK, Sel!Passed, Sel!KeptBefore
  <2>8. Sel!BoxOK(t + 1)'
    <3>1. seBox[t + 1].val = Sel!KeptBefore(seRound, t + 1)
      BY <1>7, <1>18, <2>1, <2>2, SelNextBox
    <3>2. seBox'[t + 1].val = Sel!KeptBefore(seRound, t + 1)'
      BY <1>4, <2>6, <3>1
    <3>3. QED
      BY <1>3, <1>18, <2>4, <2>6, <3>2, SelNextBox
  <2>9. Sel!HandshakeOK(t)'
    <3>1. \A u \in Sel!Tasklets : u < t => Sel!Passed(u)'
      BY <1>8, <2>4, <2>5 DEF Sel!Passed
    <3>2. seBefore'[t] = Sel!KeptBefore(seRound, t)'
      BY <1>4, <2>1, <2>5
    <3>3. QED
      BY <1>3, <1>10, <2>1, <2>4, <2>5, <2>7, <3>1, <3>2 DEF Sel!HandshakeOK
  <2>10. \A u \in Sel!Tasklets : seStamp'[u] = seStamp[u] /\ seBefore'[u] = seBefore[u]
    BY <2>1
  <2>11. seAccum' = seAccum
    BY <2>1
  <2>12. QED
    BY <1>1, <1>3, <2>2, <2>3, <2>4, <2>6, <2>8, <2>9, <2>10, <2>11, SelSteps
<1>17. QED
  BY <1>11, <1>12, <1>13, <1>14, <1>15, <1>16

\* Placing: behind what is settled; in time, over nothing but what is exposed.
LEMMA SelPlaces ==
  ASSUME Sel!Sized, Sel!SelectInv, NEW t \in Sel!Tasklets, Sel!Place(t)
  PROVE  Sel!SelectInv'
<1> DEFINE l == IF t = Sel!Last THEN "update" ELSE "barrier3"
           o == Sel!Offset(t)
           mv == Sel!Moved(t)
<1>1. /\ seAt[t] = "place" /\ seAt' = [seAt EXCEPT ![t] = l]
      /\ UNCHANGED <<seRound, seEpoch, seBox, sePartial, seStamp, seCount, seBefore, seAccum>>
      /\ UNCHANGED <<seKept, seTotal, seLate>>
  BY DEF Sel!Place, Sel!Goto, Sel!locals
<1>2. Sel!TypeOK /\ Sel!PlacedOK /\ Sel!PhaseOK
  BY DEF Sel!SelectInv
<1>3. seRound \in 1 .. SelRounds /\ seTotal = -1 /\ Sel!Placing
  <2>1. ~ Sel!Starting
    BY <1>1 DEF Sel!Starting
  <2>2. ~ Sel!Syncing
    BY <1>1 DEF Sel!Syncing
  <2>3. QED
    BY <1>1, <1>2, <2>1, <2>2, SelNumbers DEF Sel!PhaseOK, Sel!TypeOK
<1>4. /\ \A r, u : Sel!KeptBefore(r, u)' = Sel!KeptBefore(r, u)
      /\ \A n : Sel!KeptInRounds(n)' = Sel!KeptInRounds(n)
      /\ \A r, u : Sel!Due(r, u)' = Sel!Due(r, u)
  BY <1>1 DEF Sel!KeptBefore, Sel!KeptInRounds, Sel!Due
<1>5. \A u \in Sel!Tasklets : seAt'[u] = IF u = t THEN l ELSE seAt[u]
  BY <1>1, <1>2 DEF Sel!TypeOK
<1>6. Sel!TypeOK'
  <2>1. seAt' \in [Sel!Tasklets -> Sel!Locations]
    BY <1>1, <1>2 DEF Sel!TypeOK, Sel!Locations
  <2>2. QED
    BY <1>1, <1>2, <2>1 DEF Sel!TypeOK
<1>7. seAt'[Sel!Last] = "barrier3" <=> seAt[Sel!Last] = "barrier3"
  BY <1>1, <1>5, SelNumbers
<1>8. Sel!Placing'
  <2>1. \A u \in Sel!Tasklets : seAt'[u] \in {"place", "barrier3"} \/ (u = Sel!Last /\ seAt'[u] = "update")
    BY <1>3, <1>5 DEF Sel!Placing
  <2>2. \A u \in Sel!Tasklets : seAt'[u] = "place" => seAt[u] = "place"
    BY <1>1, <1>5
  <2>3. QED
    BY <1>1, <1>3, <1>4, <1>7, <2>1, <2>2 DEF Sel!Placing
<1>9. /\ seCount[t] = seKept[seRound][t] /\ seCount[t] \in Nat /\ seBefore[t] \in Nat
      /\ seBefore[t] = Sel!KeptBefore(seRound, t)
      /\ mv = (IF seCount[t] = 0 THEN SelWide ELSE seCount[t]) /\ mv \in Nat
      /\ o = sePartial + seBefore[t] /\ o \in Nat
  <2>1. seCount[t] = seKept[seRound][t] /\ seBefore[t] = Sel!KeptBefore(seRound, t)
    BY <1>3 DEF Sel!Placing
  <2>2. seCount[t] \in Nat /\ seBefore[t] \in Nat /\ sePartial \in Nat /\ SelWide \in Nat
    BY <1>2 DEF Sel!TypeOK, Sel!Sized
  <2>3. mv = (IF seCount[t] = 0 THEN SelWide ELSE seCount[t]) /\ o = sePartial + seBefore[t]
    BY DEF Sel!Moved, Sel!Offset
  <2> HIDE DEF o, mv
  <2>4. mv \in Nat /\ o \in Nat
    BY <2>2, <2>3
  <2>5. QED
    BY <2>1, <2>2, <2>3, <2>4
<1>10. /\ \A x : x \in DOMAIN seOutput => x \in DOMAIN seOutput'
       /\ \A x : x \in DOMAIN seOutput /\ ~ (x >= o /\ x < o + mv) => seOutput'[x] = seOutput[x]
       /\ \A k \in 0 .. seCount[t] - 1 :
            o + k \in DOMAIN seOutput' /\ seOutput'[o + k] = <<seRound, t, k>>
  <2>1. seOutput' = [x \in DOMAIN seOutput \cup o .. o + mv - 1 |->
           IF x >= o /\ x < o + mv THEN Sel!Element(t, x - o) ELSE seOutput[x]]
    BY DEF Sel!Place
  <2> HIDE DEF o, mv
  <2>2. ASSUME NEW k \in 0 .. seCount[t] - 1
        PROVE  o + k \in o .. o + mv - 1 /\ o + k >= o /\ o + k < o + mv /\ (o + k) - o = k
    BY <1>9
  <2>3. \A k \in 0 .. seCount[t] - 1 : Sel!Element(t, k) = <<seRound, t, k>>
    BY <1>9 DEF Sel!Element
  <2>4. QED
    BY <2>1, <2>2, <2>3
<1> HIDE DEF o, mv
<1>11. ASSUME NEW r \in 1 .. SelRounds, NEW u \in Sel!Tasklets
       PROVE  /\ Sel!HasPlaced(r, u)' <=> Sel!HasPlaced(r, u) \/ (r = seRound /\ u = t)
              /\ Sel!HasPlaced(r, u) => r <= seRound
  BY <1>1, <1>3, <1>5 DEF Sel!HasPlaced
\* In time or not, t writes behind all that is settled.
<1>12. /\ seAt[Sel!Last] # "barrier3" => o = Sel!Due(seRound, t) /\ <<seRound, t>> \notin seLate
       /\ seAt[Sel!Last] = "barrier3" => o >= Sel!KeptInRounds(seRound) /\ <<seRound, t>> \in seLate
  <2>1. CASE seAt[Sel!Last] # "barrier3"
    <3>1. sePartial = Sel!KeptInRounds(seRound - 1)
      BY <1>3, <2>1 DEF Sel!Placing
    <3>2. seAt[Sel!Last] \notin {"barrier3", "report", "done"}
      BY <1>3, <2>1, SelNumbers DEF Sel!Placing
    <3>3. QED
      BY <1>2, <1>3, <1>9, <2>1, <3>1, <3>2 DEF Sel!PlacedOK, Sel!Due
  <2>2. CASE seAt[Sel!Last] = "barrier3"
    <3>1. sePartial = Sel!KeptInRounds(seRound) /\ <<seRound, t>> \in seLate
      BY <1>1, <1>3, <2>2 DEF Sel!Placing
    <3>2. QED
      BY <1>2, <1>9, <2>2, <3>1 DEF Sel!TypeOK
  <2>3. QED
    BY <2>1, <2>2
<1>13. ASSUME NEW r \in 1 .. SelRounds, NEW u \in Sel!Tasklets, Sel!InTime(r, u)', ~ Sel!Exposed(r, u)',
              ~ (r = seRound /\ u = t), NEW k \in 0 .. seKept[r][u] - 1
       PROVE  ~ (Sel!Due(r, u) + k >= o /\ Sel!Due(r, u) + k < o + mv)
  <2>1. r <= seRound
    BY <1>1, <1>11, <1>13 DEF Sel!InTime
  <2>2. /\ Sel!Due(r, u) \in Nat /\ seKept[r][u] \in Nat
        /\ Sel!Due(r, u) + seKept[r][u] <= Sel!KeptInRounds(r)
        /\ \A w \in Sel!Tasklets : u < w => Sel!Due(r, u) + seKept[r][u] <= Sel!Due(r, w)
    BY <1>2, SelDue
  <2>3. /\ Sel!Due(seRound, t) \in Nat
        /\ Sel!KeptInRounds(seRound - 1) <= Sel!Due(seRound, t)
        /\ \A w \in Sel!Tasklets : t < w => Sel!Due(seRound, t) + seKept[seRound][t] <= Sel!Due(seRound, w)
    BY <1>2, <1>3, SelDue
  <2>4. /\ r \in 0 .. SelRounds /\ seRound - 1 \in 0 .. SelRounds /\ seRound \in 0 .. SelRounds
        /\ r # seRound => r <= seRound - 1
    BY <1>3, <2>1, SelNumbers
  <2>5. /\ Sel!KeptInRounds(r) <= Sel!KeptInRounds(seRound)
        /\ r # seRound => Sel!KeptInRounds(r) <= Sel!KeptInRounds(seRound - 1)
        /\ Sel!KeptInRounds(r) \in Nat /\ Sel!KeptInRounds(seRound) \in Nat
        /\ Sel!KeptInRounds(seRound - 1) \in Nat
    BY <1>2, <2>1, <2>4, SelOrder, SelCounts
  <2>6. CASE seAt[Sel!Last] = "barrier3"
    BY <1>9, <1>12, <2>2, <2>5, <2>6
  <2>7. CASE seAt[Sel!Last] # "barrier3" /\ r # seRound
    BY <1>9, <1>12, <2>2, <2>3, <2>5, <2>7
  <2>8. CASE seAt[Sel!Last] # "barrier3" /\ r = seRound /\ u < t
    BY <1>9, <1>12, <2>2, <2>3, <2>8
  <2>9. CASE seAt[Sel!Last] # "barrier3" /\ r = seRound /\ t < u
    <3>1. CASE seCount[t] # 0
      BY <1>9, <1>12, <2>2, <2>3, <2>9, <3>1
    <3>2. CASE seCount[t] = 0
      <4>1. Sel!InTime(r, t)' /\ seKept'[r][t] = 0
        BY <1>1, <1>3, <1>9, <1>11, <1>12, <2>9, <3>2 DEF Sel!InTime
      <4>2. ~ (Sel!Due(r, u)' < Sel!Due(r, t)' + SelWide)
        BY <1>13, <2>9, <4>1 DEF Sel!Exposed
      <4>3. SelWide \in Nat /\ mv = SelWide
        BY <1>9, <3>2 DEF Sel!Sized
      <4>4. QED
        BY <1>4, <1>9, <1>12, <2>2, <2>3, <2>9, <4>2, <4>3
    <3>3. QED
      BY <3>1, <3>2
  <2>10. QED
    BY <1>13, <2>6, <2>7, <2>8, <2>9, SelNumbers
<1>14. ASSUME NEW r \in 1 .. SelRounds, NEW u \in Sel!Tasklets, Sel!InTime(r, u)', ~ Sel!Exposed(r, u)'
       PROVE  Sel!InPlace(r, u)'
  <2>1. seKept' = seKept /\ Sel!Due(r, u)' = Sel!Due(r, u)
    BY <1>1, <1>4
  <2>2. CASE r = seRound /\ u = t
    <3>1. o = Sel!Due(seRound, t)
      BY <1>1, <1>12, <1>14, <2>2 DEF Sel!InTime
    <3>2. QED
      BY <1>9, <1>10, <2>1, <2>2, <3>1 DEF Sel!InPlace
  <2>3. CASE ~ (r = seRound /\ u = t)
    <3>1. Sel!InTime(r, u)
      BY <1>1, <1>11, <1>14, <2>3 DEF Sel!InTime
    <3>2. \A w \in Sel!Tasklets : Sel!InTime(r, w) => Sel!InTime(r, w)'
      BY <1>1, <1>11 DEF Sel!InTime
    <3>3. ~ Sel!Exposed(r, u)
      BY <1>4, <1>14, <2>1, <3>2 DEF Sel!Exposed
    <3>4. Sel!InPlace(r, u)
      BY <1>2, <3>1, <3>3 DEF Sel!PlacedOK
    <3>5. ASSUME NEW k \in 0 .. seKept[r][u] - 1
          PROVE  /\ Sel!Due(r, u) + k \in DOMAIN seOutput'
                 /\ seOutput'[Sel!Due(r, u) + k] = <<r, u, k>>
      <4>1. ~ (Sel!Due(r, u) + k >= o /\ Sel!Due(r, u) + k < o + mv)
        BY <1>13, <1>14, <2>3
      <4>2. /\ Sel!Due(r, u) + k \in DOMAIN seOutput
            /\ seOutput[Sel!Due(r, u) + k] = <<r, u, k>>
        BY <3>4 DEF Sel!InPlace
      <4>3. QED
        BY <1>10, <4>1, <4>2
    <3>6. QED
      BY <2>1, <3>5 DEF Sel!InPlace
  <2>4. QED
    BY <2>2, <2>3
<1>15. Sel!PlacedOK'
  <2>1. ASSUME NEW r \in 1 .. SelRounds, SelClosed(r) PROVE SelClosed(r)'
    BY <1>1, <1>5, <2>1, SelNumbers DEF SelClosed
  <2>2. QED
    BY <1>1, <1>2, <1>14, <2>1 DEF Sel!PlacedOK, SelClosed
<1>16. QED
  BY <1>1, <1>3, <1>6, <1>8, <1>15 DEF Sel!SelectInv, Sel!PhaseOK

\* The last tasklet adds what the round has kept.
LEMMA SelUpdates ==
  ASSUME Sel!Sized, Sel!SelectInv, Sel!Update
  PROVE  Sel!SelectInv'
<1>1. /\ seAt[Sel!Last] = "update" /\ seAt' = [seAt EXCEPT ![Sel!Last] = "barrier3"]
      /\ seLate' = seLate \cup {<<seRound, t>> : t \in {u \in Sel!Tasklets : seAt[u] = "place"}}
      /\ sePartial' = sePartial + seAccum
      /\ UNCHANGED <<seRound, seEpoch, seBox, seStamp, seCount, seBefore, seAccum>>
      /\ UNCHANGED <<seKept, seOutput, seTotal>>
  BY DEF Sel!Update, Sel!Overtaken, Sel!Goto, Sel!locals
<1>2. Sel!TypeOK /\ Sel!PlacedOK /\ Sel!PhaseOK
  BY DEF Sel!SelectInv
<1>3. seRound \in 1 .. SelRounds /\ seTotal = -1 /\ Sel!Placing
  <2>1. ~ Sel!Starting
    BY <1>1, SelNumbers DEF Sel!Starting
  <2>2. ~ Sel!Syncing
    BY <1>1, SelNumbers DEF Sel!Syncing
  <2>3. QED
    BY <1>1, <1>2, <2>1, <2>2, SelNumbers DEF Sel!PhaseOK, Sel!TypeOK
<1>4. /\ \A r, u : Sel!KeptBefore(r, u)' = Sel!KeptBefore(r, u)
      /\ \A n : Sel!KeptInRounds(n)' = Sel!KeptInRounds(n)
      /\ \A r, u : Sel!Due(r, u)' = Sel!Due(r, u)
  BY <1>1 DEF Sel!KeptBefore, Sel!KeptInRounds, Sel!Due
<1>5. \A u \in Sel!Tasklets : seAt'[u] = IF u = Sel!Last THEN "barrier3" ELSE seAt[u]
  BY <1>1, <1>2 DEF Sel!TypeOK
<1>6. sePartial' = Sel!KeptInRounds(seRound)
  <2>1. sePartial = Sel!KeptInRounds(seRound - 1) /\ seAccum = Sel!KeptBefore(seRound, SelN)
    BY <1>1, <1>3 DEF Sel!Placing
  <2>2. QED
    BY <1>1, <1>2, <1>3, <2>1, SelCounts
<1>7. Sel!TypeOK'
  <2>1. seAt' \in [Sel!Tasklets -> Sel!Locations]
    BY <1>1, <1>2 DEF Sel!TypeOK, Sel!Locations
  <2>2. sePartial' \in Nat
    BY <1>1, <1>2 DEF Sel!TypeOK
  <2>3. QED
    BY <1>1, <1>2, <2>1, <2>2 DEF Sel!TypeOK
<1>8. Sel!Placing'
  <2>1. \A u \in Sel!Tasklets :
          /\ seAt'[u] \in {"place", "barrier3"}
          /\ seAt'[u] = "place" => <<seRound, u>> \in seLate'
    BY <1>1, <1>3, <1>5 DEF Sel!Placing
  <2>2. seAt'[Sel!Last] = "barrier3" /\ sePartial' = Sel!KeptInRounds(seRound)'
    BY <1>1, <1>4, <1>5, <1>6, SelNumbers
  <2>3. /\ seEpoch' = seRound' + 1 /\ seAccum' = Sel!KeptBefore(seRound, SelN)'
        /\ \A u \in Sel!Tasklets :
             /\ seCount'[u] = seKept'[seRound'][u] /\ seBefore'[u] = Sel!KeptBefore(seRound, u)'
             /\ u # 0 => seBox'[u].epoch <= seRound' + 1
    BY <1>1, <1>3, <1>4 DEF Sel!Placing
  <2>4. QED
    BY <1>1, <2>1, <2>2, <2>3 DEF Sel!Placing
<1>9. Sel!PlacedOK'
  <2>1. ASSUME NEW r \in 1 .. SelRounds, NEW u \in Sel!Tasklets
        PROVE  /\ Sel!HasPlaced(r, u)' <=> Sel!HasPlaced(r, u)
               /\ <<r, u>> \in seLate' => <<r, u>> \in seLate \/ (r = seRound /\ seAt[u] = "place")
               /\ <<r, u>> \in seLate => <<r, u>> \in seLate'
    BY <1>1, <1>5 DEF Sel!HasPlaced
  <2>2. ASSUME NEW r \in 1 .. SelRounds, NEW u \in Sel!Tasklets
        PROVE  Sel!InTime(r, u)' <=> Sel!InTime(r, u)
    <3>1. r = seRound /\ seAt[u] = "place" => ~ Sel!HasPlaced(r, u)
      BY <1>2 DEF Sel!HasPlaced, Sel!TypeOK
    <3>2. QED
      BY <2>1, <3>1 DEF Sel!InTime
  <2>3. ASSUME NEW r \in 1 .. SelRounds, NEW u \in Sel!Tasklets
        PROVE  /\ Sel!Exposed(r, u)' <=> Sel!Exposed(r, u)
               /\ Sel!InPlace(r, u)' <=> Sel!InPlace(r, u)
    BY <1>1, <1>4, <2>2 DEF Sel!Exposed, Sel!InPlace
  <2>4. ASSUME NEW r \in 1 .. SelRounds, NEW u \in Sel!Tasklets, <<r, u>> \in seLate'
        PROVE  SelClosed(r)'
    <3>1. r < seRound \/ r = seRound
      BY <1>2, <2>1, <2>4 DEF Sel!PlacedOK
    <3>2. seAt'[Sel!Last] = "barrier3"
      BY <1>5, SelNumbers
    <3>3. QED
      BY <1>1, <3>1, <3>2 DEF SelClosed
  <2>5. QED
    BY <1>2, <2>2, <2>3, <2>4 DEF Sel!PlacedOK, SelClosed
<1>10. QED
  BY <1>1, <1>3, <1>7, <1>8, <1>9 DEF Sel!SelectInv, Sel!PhaseOK

LEMMA SelPreserves ==
  ASSUME Sel!Sized, Sel!SelectInv, [Sel!Next]_(Sel!vars)
  PROVE  Sel!SelectInv'
<1>1. CASE Sel!Together
  BY <1>1, SelBumps, SelMeets, SelUpdates DEF Sel!Together
<1>2. ASSUME NEW t \in Sel!Tasklets, Sel!Tasklet(t) PROVE Sel!SelectInv'
  BY <1>2, SelSelects, SelShakes, SelPlaces DEF Sel!Tasklet
<1>3. CASE UNCHANGED Sel!vars
  <2>1. UNCHANGED <<seAt, seRound, seEpoch, seBox, sePartial, seStamp, seCount, seBefore, seAccum>>
        /\ UNCHANGED <<seKept, seOutput, seTotal, seLate>>
    BY <1>3 DEF Sel!vars
  <2>2. Sel!TypeOK'
    BY <2>1 DEF Sel!SelectInv, Sel!TypeOK
  <2>3. Sel!PhaseOK'
    BY <2>1 DEF Sel!SelectInv, Sel!PhaseOK, Sel!Starting, Sel!Syncing, Sel!Placing, Sel!HandshakeOK,
      Sel!BoxOK, Sel!Passed, Sel!KeptBefore, Sel!KeptInRounds
  <2>4. Sel!PlacedOK'
    <3>1. /\ \A r, u : Sel!Due(r, u)' = Sel!Due(r, u) /\ Sel!InPlace(r, u)' = Sel!InPlace(r, u)
          /\ \A r, u : Sel!InTime(r, u)' = Sel!InTime(r, u)
      BY <2>1 DEF Sel!Due, Sel!KeptBefore, Sel!KeptInRounds, Sel!InPlace, Sel!InTime, Sel!HasPlaced
    <3>2. \A r, u : Sel!Exposed(r, u)' = Sel!Exposed(r, u)
      BY <2>1, <3>1 DEF Sel!Exposed
    <3>3. QED
      BY <2>1, <3>1, <3>2 DEF Sel!SelectInv, Sel!PlacedOK
  <2>5. QED
    BY <2>2, <2>3, <2>4 DEF Sel!SelectInv
<1>4. QED
  BY <1>1, <1>2, <1>3 DEF Sel!Next, Sel!Finished

LEMMA SelSafe ==
  ASSUME Sel!Sized, Sel!SelectInv
  PROVE  Sel!Compacted /\ Sel!BoxIsFresh
<1>1. Sel!TypeOK /\ Sel!PlacedOK /\ Sel!PhaseOK
  BY DEF Sel!SelectInv
<1>2. seTotal # -1 => seTotal = Sel!KeptInRounds(SelRounds)
  BY <1>1 DEF Sel!PhaseOK
<1>3. Sel!Compacted
  BY <1>1, <1>2 DEF Sel!Compacted, Sel!PlacedOK
<1>4. ASSUME NEW t \in Sel!Tasklets \ {0}, seAt[t] = "take"
      PROVE  seBox[t].val = Sel!KeptBefore(seRound, t)
  <2>1. Sel!Syncing /\ t - 1 \in Sel!Tasklets /\ t - 1 < t
    BY <1>4, SelWithin, SelNumbers
  <2>2. Sel!Passed(t - 1) /\ Sel!BoxOK(t)
    BY <1>4, <2>1 DEF Sel!Syncing, Sel!HandshakeOK
  <2>3. QED
    BY <2>2 DEF Sel!BoxOK, Sel!Passed
<1>5. QED
  BY <1>3, <1>4 DEF Sel!BoxIsFresh

-----------------------------------------------------------------------------
(* SCAN-SSA and SCAN-RSS: what is added to a block is what lies before it. *)

scAlg == m1
scKernel == m2
scAt == m3
scRound == m4
scEpoch == m5
scBox == m6
scOwn == m7
scBefore == m8
scAccum == m9
scPartial == m10
scFrom == m11
scOut == m12
scLog == m13
scLate == m14
USE DEF scAlg, scKernel, scAt, scRound, scEpoch, scBox, scOwn, scBefore, scAccum, scPartial,
  scFrom, scOut, scLog, scLate

LEMMA ScNumbers ==
  ASSUME Scans!Sized
  PROVE  /\ ScanD \in Nat /\ ScanN \in Nat \ {0} /\ ScanRounds \in Nat \ {0}
         /\ Scans!Dpus = 0 .. ScanD - 1 /\ Scans!Tasklets = 0 .. ScanN - 1
         /\ Scans!Last = ScanN - 1 /\ 0 \in Scans!Tasklets /\ Scans!Last \in Scans!Tasklets
BY DEF Scans!Sized, Scans!Dpus, Scans!Tasklets, Scans!Last

\* Disjoint sets of blocks, each block once, are added up by their union.
LEMMA ScPlus ==
  ASSUME NEW S, NEW T, S \cap T = {}
  PROVE  Scans!Plus(Scans!Each(S), Scans!Each(T)) = Scans!Each(S \cup T)
<1>1. ASSUME NEW b \in Scans!Blocks
      PROVE  Scans!Each(S)[b] + Scans!Each(T)[b] = Scans!Each(S \cup T)[b]
  <2>1. ~ (b \in S /\ b \in T)
    OBVIOUS
  <2>2. QED
    BY <2>1 DEF Scans!Each
<1>2. QED
  BY <1>1 DEF Scans!Plus, Scans!Each

LEMMA ScEach ==
  /\ Scans!Zero = Scans!Each({})
  /\ \A b \in Scans!Blocks : Scans!Only(b) = Scans!Each({b})
  /\ \A S : Scans!Each(S) \in Scans!Bags
  /\ \A x, y \in Scans!Bags : Scans!Plus(x, y) \in Scans!Bags
<1>1. Scans!Zero = Scans!Each({})
  BY DEF Scans!Zero, Scans!Each
<1>2. ASSUME NEW b \in Scans!Blocks PROVE Scans!Only(b) = Scans!Each({b})
  BY DEF Scans!Only, Scans!Zero, Scans!Each
<1>3. \A S : Scans!Each(S) \in Scans!Bags
  BY DEF Scans!Each, Scans!Bags
<1>4. \A x, y \in Scans!Bags : Scans!Plus(x, y) \in Scans!Bags
  BY DEF Scans!Plus, Scans!Bags
<1>5. QED
  BY <1>1, <1>2, <1>3, <1>4

\* A sum of bags, step by step.
LEMMA ScSums ==
  ASSUME NEW K \in Nat, NEW f, \A k \in 0 .. K - 1 : f[k] \in Scans!Bags
  PROVE  /\ Scans!PlusAll(f, 0) = Scans!Zero
         /\ \A k \in 0 .. K - 1 :
              Scans!PlusAll(f, k + 1) = Scans!Plus(Scans!PlusAll(f, k), f[k])
         /\ \A k \in 0 .. K : Scans!PlusAll(f, k) \in Scans!Bags
<1> DEFINE h(b) == [k \in Nat |-> IF k < K THEN f[k][b] ELSE 0]
           Sum(b, w) == w[0] = 0 /\ \A k \in Nat : w[k + 1] = w[k] + h(b)[k]
           Added(b) == CHOOSE w \in [Nat -> Nat] : Sum(b, w)
           V == [k \in Nat |-> [b \in Scans!Blocks |-> Added(b)[k]]]
<1>1. ASSUME NEW b \in Scans!Blocks PROVE Added(b) \in [Nat -> Nat] /\ Sum(b, Added(b))
  <2>1. h(b) \in [Nat -> Nat]
    BY DEF Scans!Bags
  <2> HIDE DEF h
  <2>2. \E w \in [Nat -> Nat] : Sum(b, w)
    BY <2>1, Sums
  <2> HIDE DEF Sum
  <2>3. QED
    BY <2>2
<1> HIDE DEF Added
<1>2. /\ V[0] = Scans!Zero
      /\ \A k \in Nat : V[k] \in Scans!Bags
  BY <1>1 DEF Scans!Zero, Scans!Bags
<1>3. ASSUME NEW k \in 0 .. K - 1 PROVE V[k + 1] = Scans!Plus(V[k], f[k])
  <2>1. k \in Nat /\ k + 1 \in Nat /\ k < K
    OBVIOUS
  <2>2. ASSUME NEW b \in Scans!Blocks PROVE Added(b)[k + 1] = Added(b)[k] + f[k][b]
    BY <1>1, <2>1
  <2>3. QED
    BY <2>1, <2>2 DEF Scans!Plus
<1> HIDE DEF V
<1>4. ASSUME NEW n \in 0 .. K PROVE Scans!PlusAll(f, n) = V[n]
  <2> DEFINE F(s) == [k \in 0 .. n |-> IF k = 0 THEN Scans!Zero ELSE Scans!Plus(s[k - 1], f[k - 1])]
             X == [k \in 0 .. n |-> V[k]]
             s == CHOOSE s : s = F(s)
             T == {k \in Nat : k <= n => s[k] = V[k]}
  <2>1. X = F(X)
    <3> SUFFICES ASSUME NEW k \in 0 .. n
                 PROVE  X[k] = IF k = 0 THEN Scans!Zero ELSE Scans!Plus(X[k - 1], f[k - 1])
      OBVIOUS
    <3>1. CASE k = 0
      BY <1>2, <3>1
    <3>2. CASE k # 0
      <4>1. k - 1 \in 0 .. K - 1 /\ k - 1 \in 0 .. n /\ k - 1 + 1 = k
        BY <3>2
      <4>2. V[k] = Scans!Plus(V[k - 1], f[k - 1])
        BY <1>3, <4>1
      <4>3. QED
        BY <3>2, <4>1, <4>2
    <3>3. QED
      BY <3>1, <3>2
  <2>2. s = F(s)
    <3> HIDE DEF F, X
    <3>1. \E x : x = F(x)
      BY <2>1
    <3>2. QED
      BY <3>1
  <2>3. Scans!PlusAll(f, n) = s[n]
    BY DEF Scans!PlusAll
  <2>4. n \in T
    <3> HIDE DEF s
    <3>1. 0 \in T
      BY <1>2, <2>2
    <3>2. ASSUME NEW k \in Nat, k \in T PROVE k + 1 \in T
      <4> SUFFICES ASSUME k + 1 <= n PROVE s[k + 1] = V[k + 1]
        OBVIOUS
      <4>1. k + 1 \in 0 .. n /\ k + 1 # 0 /\ k + 1 - 1 = k /\ k \in 0 .. K - 1
        OBVIOUS
      <4>2. s[k + 1] = Scans!Plus(s[k], f[k])
        BY <2>2, <4>1
      <4>3. QED
        BY <1>3, <3>2, <4>1, <4>2
    <3>3. Nat \subseteq T
      <4> HIDE DEF T
      <4>1. QED
        BY <3>1, <3>2, Induction
    <3>4. QED
      BY <3>3
  <2>5. QED
    <3> HIDE DEF s
    <3>1. QED
      BY <2>3, <2>4
<1>5. ASSUME NEW k \in 0 .. K - 1
      PROVE  Scans!PlusAll(f, k + 1) = Scans!Plus(Scans!PlusAll(f, k), f[k])
  <2>1. k \in 0 .. K /\ k + 1 \in 0 .. K
    OBVIOUS
  <2>2. QED
    BY <1>3, <1>4, <2>1
<1>6. QED
  BY <1>2, <1>4, <1>5

\* The sum of sets that do not meet is their union.
LEMMA ScUnions ==
  ASSUME NEW K \in Nat, NEW f, NEW Q, NEW U, U[0] = {},
         \A k \in 0 .. K - 1 :
           f[k] = Scans!Each(Q[k]) /\ U[k + 1] = U[k] \cup Q[k] /\ U[k] \cap Q[k] = {}
  PROVE  Scans!PlusAll(f, K) = Scans!Each(U[K])
<1>1. \A k \in 0 .. K - 1 : f[k] \in Scans!Bags
  BY ScEach
<1>2. /\ Scans!PlusAll(f, 0) = Scans!Zero
      /\ \A k \in 0 .. K - 1 :
           Scans!PlusAll(f, k + 1) = Scans!Plus(Scans!PlusAll(f, k), f[k])
  BY <1>1, ScSums
<1> DEFINE T == {k \in Nat : k <= K => Scans!PlusAll(f, k) = Scans!Each(U[k])}
<1>3. 0 \in T
  BY <1>2, ScEach
<1>4. ASSUME NEW k \in Nat, k \in T PROVE k + 1 \in T
  <2> SUFFICES ASSUME k + 1 <= K PROVE Scans!PlusAll(f, k + 1) = Scans!Each(U[k + 1])
    OBVIOUS
  <2>1. k \in 0 .. K - 1 /\ k <= K
    OBVIOUS
  <2>2. Scans!PlusAll(f, k + 1) = Scans!Plus(Scans!Each(U[k]), Scans!Each(Q[k]))
    BY <1>2, <1>4, <2>1
  <2>3. QED
    BY <2>1, <2>2, ScPlus
<1>5. Nat \subseteq T
  <2> HIDE DEF T
  <2>1. QED
    BY <1>3, <1>4, Induction
<1>6. QED
  BY <1>5

\* The sets of blocks grow block by block, round by round and DPU by DPU.
LEMMA ScSets ==
  ASSUME Scans!Sized, NEW d \in Scans!Dpus
  PROVE  /\ \A r \in 1 .. ScanRounds, t \in Scans!Tasklets :
              /\ <<d, r, t>> \in Scans!Blocks
              /\ \A S \in {Scans!InRoundBefore(d, r, t), Scans!OfTasklet(d, t, r)} :
                   S \cap {<<d, r, t>>} = {}
              /\ Scans!InRoundBefore(d, r, t + 1) = Scans!InRoundBefore(d, r, t) \cup {<<d, r, t>>}
              /\ Scans!OfTasklet(d, t, r + 1) = Scans!OfTasklet(d, t, r) \cup {<<d, r, t>>}
         /\ \A r \in 1 .. ScanRounds :
              /\ Scans!InRoundBefore(d, r, 0) = {}
              /\ Scans!OfRoundsBefore(d, r + 1) =
                   Scans!OfRoundsBefore(d, r) \cup Scans!InRoundBefore(d, r, ScanN)
              /\ Scans!OfRoundsBefore(d, r) \cap Scans!InRoundBefore(d, r, ScanN) = {}
              /\ Scans!OfRoundsBefore(d, r) \subseteq Scans!OfDpu(d)
              /\ \A t : Scans!InRoundBefore(d, r, t) \subseteq Scans!OfDpu(d)
         /\ Scans!OfRoundsBefore(d, 1) = {}
         /\ Scans!OfRoundsBefore(d, ScanRounds + 1) = Scans!OfDpu(d)
         /\ \A t \in Scans!Tasklets : Scans!OfTasklet(d, t, 1) = {}
         /\ \A S : S \subseteq Scans!OfDpu(d) => Scans!OfDpusBefore(d) \cap S = {}
<1>1. \A b \in Scans!Blocks :
        b = <<b[1], b[2], b[3]>> /\ b[1] \in Scans!Dpus /\ b[2] \in 1 .. ScanRounds /\ b[3] \in Scans!Tasklets
  BY DEF Scans!Blocks
<1>2. \A r \in 1 .. ScanRounds, t \in Scans!Tasklets :
        /\ <<d, r, t>> \in Scans!Blocks /\ <<d, r, t>>[1] = d /\ <<d, r, t>>[2] = r
        /\ <<d, r, t>>[3] = t
  BY DEF Scans!Blocks
<1>3. /\ ScanN \in Nat \ {0} /\ ScanRounds \in Nat \ {0} /\ Scans!Tasklets = 0 .. ScanN - 1
      /\ Scans!Dpus = 0 .. ScanD - 1
  BY ScNumbers
<1>4. ASSUME NEW r \in 1 .. ScanRounds, NEW t \in Scans!Tasklets
      PROVE  /\ \A S \in {Scans!InRoundBefore(d, r, t), Scans!OfTasklet(d, t, r)} :
                  S \cap {<<d, r, t>>} = {}
             /\ Scans!InRoundBefore(d, r, t + 1) = Scans!InRoundBefore(d, r, t) \cup {<<d, r, t>>}
             /\ Scans!OfTasklet(d, t, r + 1) = Scans!OfTasklet(d, t, r) \cup {<<d, r, t>>}
  <2>1. <<d, r, t>> \notin Scans!InRoundBefore(d, r, t)
    BY <1>2, <1>3 DEF Scans!InRoundBefore
  <2>2. <<d, r, t>> \notin Scans!OfTasklet(d, t, r)
    BY <1>2, <1>3 DEF Scans!OfTasklet
  <2>3. ASSUME NEW b \in Scans!Blocks
        PROVE  b \in Scans!InRoundBefore(d, r, t + 1) <=>
                 b \in Scans!InRoundBefore(d, r, t) \/ b = <<d, r, t>>
    <3>1. b[3] < t + 1 <=> b[3] < t \/ b[3] = t
      BY <1>1, <1>3
    <3>2. QED
      BY <1>1, <1>2, <3>1 DEF Scans!InRoundBefore, Scans!OfDpu
  <2>4. ASSUME NEW b \in Scans!Blocks
        PROVE  b \in Scans!OfTasklet(d, t, r + 1) <=>
                 b \in Scans!OfTasklet(d, t, r) \/ b = <<d, r, t>>
    <3>1. b[2] < r + 1 <=> b[2] < r \/ b[2] = r
      BY <1>1, <1>3
    <3>2. QED
      BY <1>1, <1>2, <3>1 DEF Scans!OfTasklet, Scans!OfDpu
  <2>5. \A u, q : Scans!InRoundBefore(d, q, u) \subseteq Scans!Blocks /\ Scans!OfTasklet(d, u, q) \subseteq Scans!Blocks
    BY DEF Scans!InRoundBefore, Scans!OfTasklet, Scans!OfDpu
  <2>6. <<d, r, t>> \in Scans!Blocks
    BY <1>2
  <2>7. QED
    BY <2>1, <2>2, <2>3, <2>4, <2>5, <2>6
<1>5. ASSUME NEW r \in 1 .. ScanRounds
      PROVE  /\ Scans!InRoundBefore(d, r, 0) = {}
             /\ Scans!OfRoundsBefore(d, r + 1) =
                  Scans!OfRoundsBefore(d, r) \cup Scans!InRoundBefore(d, r, ScanN)
             /\ Scans!OfRoundsBefore(d, r) \cap Scans!InRoundBefore(d, r, ScanN) = {}
             /\ Scans!OfRoundsBefore(d, r) \subseteq Scans!OfDpu(d)
             /\ \A t : Scans!InRoundBefore(d, r, t) \subseteq Scans!OfDpu(d)
  <2>1. \A b \in Scans!Blocks : ~ (b[3] < 0) /\ b[3] < ScanN
    BY <1>1, <1>3
  <2>2. \A b \in Scans!Blocks : (b[2] < r + 1 <=> b[2] < r \/ b[2] = r) /\ ~ (b[2] < r /\ b[2] = r)
    BY <1>1, <1>3
  <2>3. QED
    BY <2>1, <2>2 DEF Scans!InRoundBefore, Scans!OfRoundsBefore, Scans!OfDpu
<1>6. /\ Scans!OfRoundsBefore(d, 1) = {}
      /\ Scans!OfRoundsBefore(d, ScanRounds + 1) = Scans!OfDpu(d)
      /\ \A t \in Scans!Tasklets : Scans!OfTasklet(d, t, 1) = {}
  <2>1. \A b \in Scans!Blocks : ~ (b[2] < 1) /\ b[2] < ScanRounds + 1
    BY <1>1, <1>3
  <2>2. QED
    BY <2>1 DEF Scans!OfRoundsBefore, Scans!OfTasklet, Scans!OfDpu
<1>7. \A S : S \subseteq Scans!OfDpu(d) => Scans!OfDpusBefore(d) \cap S = {}
  BY <1>3 DEF Scans!OfDpu, Scans!OfDpusBefore
<1>8. QED
  BY <1>2, <1>4, <1>5, <1>6, <1>7

\* What the host adds up, and what tasklet 0 does.
LEMMA ScTotals ==
  ASSUME Scans!Sized, NEW d \in Scans!Dpus
  PROVE  /\ \A f : (\A e \in Scans!Dpus : f[e] = Scans!Each(Scans!OfDpu(e))) =>
              Scans!PlusAll(f, d) = Scans!Each(Scans!OfDpusBefore(d))
         /\ \A f : (\A t \in Scans!Tasklets :
                      f[t] = Scans!Each(Scans!OfTasklet(d, t, ScanRounds + 1))) =>
              Scans!PlusAll(f, ScanN) = Scans!Each(Scans!OfDpu(d))
<1>1. \A b \in Scans!Blocks :
        b[1] \in 0 .. ScanD - 1 /\ b[2] \in 1 .. ScanRounds /\ b[3] \in 0 .. ScanN - 1
  BY ScNumbers DEF Scans!Blocks
<1>2. /\ ScanD \in Nat /\ ScanN \in Nat \ {0} /\ ScanRounds \in Nat \ {0} /\ d \in 0 .. ScanD - 1
      /\ Scans!Dpus = 0 .. ScanD - 1 /\ Scans!Tasklets = 0 .. ScanN - 1
  BY ScNumbers
<1>3. ASSUME NEW f, \A e \in Scans!Dpus : f[e] = Scans!Each(Scans!OfDpu(e))
      PROVE  Scans!PlusAll(f, d) = Scans!Each(Scans!OfDpusBefore(d))
  <2> DEFINE Q == [e \in 0 .. d |-> Scans!OfDpu(e)]
             U == [e \in 0 .. d |-> Scans!OfDpusBefore(e)]
  <2>1. U[0] = {}
    BY <1>1, <1>2 DEF Scans!OfDpusBefore
  <2>2. ASSUME NEW k \in 0 .. d - 1
        PROVE  f[k] = Scans!Each(Q[k]) /\ U[k + 1] = U[k] \cup Q[k] /\ U[k] \cap Q[k] = {}
    <3>1. k \in 0 .. d /\ k + 1 \in 0 .. d /\ k \in Scans!Dpus
      BY <1>2
    <3>2. \A b \in Scans!Blocks : (b[1] < k + 1 <=> b[1] < k \/ b[1] = k) /\ ~ (b[1] < k /\ b[1] = k)
      BY <1>1, <1>2
    <3>3. Scans!OfDpusBefore(k + 1) = Scans!OfDpusBefore(k) \cup Scans!OfDpu(k)
      BY <3>2 DEF Scans!OfDpusBefore, Scans!OfDpu
    <3>4. Scans!OfDpusBefore(k) \cap Scans!OfDpu(k) = {}
      BY <3>2 DEF Scans!OfDpusBefore, Scans!OfDpu
    <3>5. QED
      BY <1>3, <3>1, <3>3, <3>4
  <2>3. d \in Nat /\ U[d] = Scans!OfDpusBefore(d)
    BY <1>2
  <2> HIDE DEF Q, U
  <2>4. \A k \in 0 .. d - 1 :
          f[k] = Scans!Each(Q[k]) /\ U[k + 1] = U[k] \cup Q[k] /\ U[k] \cap Q[k] = {}
    BY <2>2
  <2>5. d \in Nat
    BY <2>3
  <2> SUFFICES Scans!PlusAll(f, d) = Scans!Each(U[d])
    BY <2>3
  <2>6. QED
    BY ONLY <2>1, <2>4, <2>5, ScUnions
<1>4. ASSUME NEW f,
             \A t \in Scans!Tasklets : f[t] = Scans!Each(Scans!OfTasklet(d, t, ScanRounds + 1))
      PROVE  Scans!PlusAll(f, ScanN) = Scans!Each(Scans!OfDpu(d))
  <2> DEFINE Q == [t \in 0 .. ScanN |-> Scans!OfTasklet(d, t, ScanRounds + 1)]
             U == [t \in 0 .. ScanN |-> {b \in Scans!OfDpu(d) : b[3] < t}]
  <2>1. U[0] = {}
    BY <1>1, <1>2 DEF Scans!OfDpu
  <2>2. ASSUME NEW k \in 0 .. ScanN - 1
        PROVE  f[k] = Scans!Each(Q[k]) /\ U[k + 1] = U[k] \cup Q[k] /\ U[k] \cap Q[k] = {}
    <3>1. k \in 0 .. ScanN /\ k + 1 \in 0 .. ScanN /\ k \in Scans!Tasklets
      BY <1>2
    <3>2. \A b \in Scans!Blocks : /\ b[3] < k + 1 <=> b[3] < k \/ b[3] = k
                                  /\ ~ (b[3] < k /\ b[3] = k) /\ b[2] < ScanRounds + 1
      BY <1>1, <1>2
    <3>3. U[k + 1] = U[k] \cup Q[k] /\ U[k] \cap Q[k] = {}
      BY <3>1, <3>2 DEF Scans!OfTasklet, Scans!OfDpu
    <3>4. QED
      BY <1>4, <3>1, <3>3
  <2>3. ScanN \in Nat /\ U[ScanN] = Scans!OfDpu(d)
    BY <1>1, <1>2 DEF Scans!OfDpu
  <2> HIDE DEF Q, U
  <2>4. QED
    BY <2>1, <2>2, <2>3, ScUnions
<1>5. QED
  BY <1>3, <1>4

\* What a block got besides depends on whether its tasklet was overtaken.
LEMMA ScExtra ==
  ASSUME NEW c, c \in scLate' <=> c \in scLate
  PROVE  Scans!Extra(c)' = Scans!Extra(c)
BY DEF Scans!Extra, Scans!Each, Scans!InRoundOf

\* A DPU is what its own variables and blocks are.
LEMMA ScFrame ==
  ASSUME NEW e \in Scans!Dpus, Scans!DpuOK(e), UNCHANGED <<scAlg, scKernel>>,
         scAt'[e] = scAt[e], scRound'[e] = scRound[e], scEpoch'[e] = scEpoch[e],
         scBox'[e] = scBox[e], scOwn'[e] = scOwn[e], scBefore'[e] = scBefore[e],
         scAccum'[e] = scAccum[e], scPartial'[e] = scPartial[e], scLog'[e] = scLog[e],
         \A c \in Scans!OfDpu(e) : scOut'[c] = scOut[c] /\ (c \in scLate' <=> c \in scLate)
  PROVE  Scans!DpuOK(e)'
<1>1. Scans!Scans' = Scans!Scans /\ \A g : Scans!From(g)' = Scans!From(g)
  BY DEF Scans!Scans, Scans!From
<1>2. \A r : Scans!SoFar(e, r)' = Scans!SoFar(e, r)
  BY <1>1 DEF Scans!SoFar, Scans!From
<1>10. /\ \A c \in Scans!OfDpu(e) : Scans!Extra(c)' = Scans!Extra(c)
       /\ Scans!NoneOvertaken(e)' = Scans!NoneOvertaken(e)
       /\ Scans!OutOnDpu(e)' = Scans!OutOnDpu(e) /\ Scans!OutOnAll(e)' = Scans!OutOnAll(e)
  <2>1. \A c \in Scans!OfDpu(e) : Scans!Extra(c)' = Scans!Extra(c)
    BY ScExtra
  <2>2. Scans!NoneOvertaken(e)' = Scans!NoneOvertaken(e)
    BY DEF Scans!NoneOvertaken
  <2>3. QED
    BY <2>1, <2>2 DEF Scans!OutOnDpu, Scans!OutOnAll, Scans!Holds
<1>3. Scans!Waiting(e) => Scans!Waiting(e)'
  BY <1>10 DEF Scans!Waiting
<1>4. Scans!AtEnd(e) => Scans!AtEnd(e)'
  BY <1>10 DEF Scans!AtEnd
<1>5. \A t : Scans!DoneBefore(e, t)' = Scans!DoneBefore(e, t)
  BY DEF Scans!DoneBefore
<1>6. Scans!InBlocks(e) => Scans!InBlocks(e)'
  BY <1>1, <1>5, <1>10 DEF Scans!InBlocks, Scans!DoneBefore, Scans!Holds
<1>7. ASSUME NEW r \in 1 .. ScanRounds
      PROVE  /\ Scans!ScanOK(e, r) => Scans!ScanOK(e, r)'
             /\ Scans!Starting(e, r) => Scans!Starting(e, r)'
             /\ Scans!Syncing(e, r) => Scans!Syncing(e, r)'
             /\ Scans!Adding(e, r) => Scans!Adding(e, r)'
  <2>1. Scans!ScanOK(e, r) => Scans!ScanOK(e, r)'
    BY <1>1, <1>10 DEF Scans!ScanOK, Scans!From, Scans!Holds
  <2>2. Scans!Starting(e, r) => Scans!Starting(e, r)'
    BY <1>2 DEF Scans!Starting, Scans!SoFar
  <2>3. Scans!Syncing(e, r) => Scans!Syncing(e, r)'
    BY <1>2 DEF Scans!Syncing, Scans!SyncOK, Scans!SoFar
  <2>4. Scans!Adding(e, r) => Scans!Adding(e, r)'
    <3>1. \A t \in Scans!Tasklets : <<e, r, t>> \in scLate' <=> <<e, r, t>> \in scLate
      BY DEF Scans!OfDpu, Scans!Blocks
    <3>2. QED
      BY <1>2, <3>1 DEF Scans!Adding
  <2>5. QED
    BY <2>1, <2>2, <2>3, <2>4
<1>8. Scans!Scanning(e) => Scans!Scanning(e)'
  BY <1>7 DEF Scans!Scanning
<1>9. QED
  BY <1>3, <1>4, <1>6, <1>8 DEF Scans!DpuOK

\* A step of one DPU leaves the others as they are.
LEMMA ScStep ==
  ASSUME Scans!ScanInv, Scans!TypeOK', NEW d \in Scans!Dpus, UNCHANGED <<scAlg, scKernel>>,
         Scans!DpuOK(d)',
         \A e \in Scans!Dpus : e # d =>
           /\ scAt'[e] = scAt[e] /\ scRound'[e] = scRound[e] /\ scEpoch'[e] = scEpoch[e]
           /\ scBox'[e] = scBox[e] /\ scOwn'[e] = scOwn[e] /\ scBefore'[e] = scBefore[e]
           /\ scAccum'[e] = scAccum[e] /\ scPartial'[e] = scPartial[e] /\ scLog'[e] = scLog[e],
         \A c \in Scans!Blocks : c[1] # d => scOut'[c] = scOut[c] /\ (c \in scLate' <=> c \in scLate)
  PROVE  Scans!ScanInv'
<1>1. ASSUME NEW e \in Scans!Dpus, e # d PROVE Scans!DpuOK(e)'
  <2>1. Scans!DpuOK(e)
    BY DEF Scans!ScanInv
  <2>2. \A c \in Scans!OfDpu(e) : scOut'[c] = scOut[c] /\ (c \in scLate' <=> c \in scLate)
    BY <1>1 DEF Scans!OfDpu
  <2>3. /\ scAt'[e] = scAt[e] /\ scRound'[e] = scRound[e] /\ scEpoch'[e] = scEpoch[e]
        /\ scBox'[e] = scBox[e] /\ scOwn'[e] = scOwn[e] /\ scBefore'[e] = scBefore[e]
        /\ scAccum'[e] = scAccum[e] /\ scPartial'[e] = scPartial[e] /\ scLog'[e] = scLog[e]
    BY <1>1
  <2>4. QED
    BY <2>1, <2>2, <2>3, ScFrame
<1>2. QED
  BY <1>1 DEF Scans!ScanInv

\* A scan goes on when nobody adds or updates.
LEMMA ScKeeps ==
  ASSUME Scans!Sized, NEW d \in Scans!Dpus, NEW r, Scans!ScanOK(d, r),
         UNCHANGED <<scAlg, scKernel, scRound, scOut, scLate>>,
         \A t \in Scans!Tasklets :
           scAt'[d][t] \in {"update", "barrier3"} => scAt[d][t] \in {"update", "barrier3"},
         scAt[d][Scans!Last] # "barrier3"
  PROVE  Scans!ScanOK(d, r)'
<1>1. /\ Scans!Scans' = Scans!Scans /\ Scans!From(d)' = Scans!From(d)
      /\ \A c : Scans!Extra(c)' = Scans!Extra(c)
  BY ScExtra DEF Scans!Scans, Scans!From
<1>2. \A c \in Scans!OfDpu(d) : c[3] \in Scans!Tasklets
  BY DEF Scans!OfDpu, Scans!Blocks
<1>3. ASSUME NEW c \in Scans!OfDpu(d),
             c[2] < r \/ (c[2] = r /\ scAt'[d][c[3]] \in {"update", "barrier3"})
      PROVE  scOut'[c] = Scans!Plus(Scans!Each(Scans!From(d) \cup Scans!BeforeOnDpu(c)), Scans!Extra(c))
  BY <1>2, <1>3 DEF Scans!ScanOK, Scans!Holds
<1>4. QED
  BY <1>1, <1>3 DEF Scans!ScanOK, Scans!Holds

\* What t_count and the first rounds stand for.
LEMMA ScFirst ==
  ASSUME Scans!Sized, NEW d \in Scans!Dpus
  PROVE  /\ Scans!SoFar(d, 1) = Scans!Each(Scans!From(d))
         /\ Scans!From(d) \cap Scans!OfDpu(d) = {}
         /\ \A r \in 1 .. ScanRounds :
              Scans!Plus(Scans!SoFar(d, r), Scans!Each(Scans!InRoundBefore(d, r, ScanN)))
                = Scans!SoFar(d, r + 1)
         /\ \A c \in Scans!OfDpu(d) :
              Scans!Plus(Scans!SoFar(d, c[2]), Scans!Each(Scans!InRoundBefore(d, c[2], c[3])))
                = Scans!Each(Scans!From(d) \cup Scans!BeforeOnDpu(c))
<1>1. Scans!From(d) \cap Scans!OfDpu(d) = {}
  BY ScSets DEF Scans!From
<1>2. Scans!SoFar(d, 1) = Scans!Each(Scans!From(d))
  <2>1. Scans!OfRoundsBefore(d, 1) = {}
    BY ScSets
  <2>2. Scans!From(d) \cup {} = Scans!From(d)
    OBVIOUS
  <2>3. QED
    BY <2>1, <2>2 DEF Scans!SoFar
<1>3. ASSUME NEW r \in 1 .. ScanRounds
      PROVE  Scans!Plus(Scans!SoFar(d, r), Scans!Each(Scans!InRoundBefore(d, r, ScanN)))
               = Scans!SoFar(d, r + 1)
  <2> DEFINE A1 == Scans!From(d)
             B1 == Scans!OfRoundsBefore(d, r)
             C1 == Scans!InRoundBefore(d, r, ScanN)
  <2>1. Scans!OfRoundsBefore(d, r + 1) = B1 \cup C1 /\ B1 \cap C1 = {} /\ C1 \subseteq Scans!OfDpu(d)
    BY ScSets
  <2>2. (A1 \cup B1) \cap C1 = {} /\ (A1 \cup B1) \cup C1 = A1 \cup (B1 \cup C1)
    <3> HIDE DEF A1, B1, C1
    <3>1. A1 \cap Scans!OfDpu(d) = {}
      BY <1>1 DEF A1
    <3>2. QED
      BY <2>1, <3>1
  <2>3. Scans!SoFar(d, r) = Scans!Each(A1 \cup B1)
    BY DEF Scans!SoFar
  <2>4. Scans!SoFar(d, r + 1) = Scans!Each(A1 \cup (B1 \cup C1))
    BY <2>1 DEF Scans!SoFar
  <2> HIDE DEF A1, B1
  <2>5. QED
    BY <2>2, <2>3, <2>4, ScPlus
<1>4. ASSUME NEW c \in Scans!OfDpu(d)
      PROVE  Scans!Plus(Scans!SoFar(d, c[2]), Scans!Each(Scans!InRoundBefore(d, c[2], c[3])))
               = Scans!Each(Scans!From(d) \cup Scans!BeforeOnDpu(c))
  <2> DEFINE A1 == Scans!From(d)
             B1 == Scans!OfRoundsBefore(d, c[2])
             C1 == Scans!InRoundBefore(d, c[2], c[3])
  <2>1. c[1] = d
    BY DEF Scans!OfDpu
  <2>2. B1 \cap C1 = {} /\ C1 \subseteq Scans!OfDpu(d)
    <3>1. \A b \in Scans!Blocks : b[2] \in Int
      BY ScNumbers DEF Scans!Blocks
    <3>2. c[2] \in Int
      BY <3>1 DEF Scans!OfDpu
    <3>3. QED
      BY <3>1, <3>2 DEF Scans!OfRoundsBefore, Scans!InRoundBefore, Scans!OfDpu
  <2>3. (A1 \cup B1) \cap C1 = {} /\ (A1 \cup B1) \cup C1 = A1 \cup (B1 \cup C1)
    <3> HIDE DEF A1, B1, C1
    <3>1. A1 \cap Scans!OfDpu(d) = {}
      BY <1>1 DEF A1
    <3>2. QED
      BY <2>2, <3>1
  <2>4. Scans!SoFar(d, c[2]) = Scans!Each(A1 \cup B1)
    BY DEF Scans!SoFar
  <2>5. Scans!BeforeOnDpu(c) = B1 \cup C1
    BY <2>1 DEF Scans!BeforeOnDpu
  <2> HIDE DEF A1, B1
  <2>6. Scans!Plus(Scans!Each(A1 \cup B1), Scans!Each(C1)) = Scans!Each(A1 \cup (B1 \cup C1))
    BY <2>3, ScPlus
  <2>7. QED
    BY <2>4, <2>5, <2>6 DEF A1
<1>5. QED
  BY <1>1, <1>2, <1>3, <1>4

\* What a tasklet that was overtaken adds: the blocks of its round twice.
LEMMA ScTwice ==
  ASSUME Scans!Sized, NEW d \in Scans!Dpus, NEW c \in Scans!OfDpu(d)
  PROVE  Scans!Plus(Scans!SoFar(d, c[2] + 1), Scans!Each(Scans!InRoundBefore(d, c[2], c[3])))
           = Scans!Plus(Scans!Each(Scans!From(d) \cup Scans!BeforeOnDpu(c)),
                        Scans!Each({b \in Scans!Blocks : Scans!InRoundOf(b, c)}))
<1>1. \A x, y, z \in Scans!Bags :
        Scans!Plus(Scans!Plus(x, y), z) = Scans!Plus(Scans!Plus(x, z), y)
  BY DEF Scans!Bags, Scans!Plus
<1>2. c[1] = d /\ c[2] \in 1 .. ScanRounds
  BY DEF Scans!OfDpu, Scans!Blocks
<1>3. {b \in Scans!Blocks : Scans!InRoundOf(b, c)} = Scans!InRoundBefore(d, c[2], ScanN)
  <2>1. \A b \in Scans!Blocks : b[3] < ScanN
    BY ScNumbers DEF Scans!Blocks
  <2>2. QED
    BY <1>2, <2>1 DEF Scans!InRoundOf, Scans!InRoundBefore, Scans!OfDpu
<1> DEFINE x == Scans!SoFar(d, c[2])
           y == Scans!Each(Scans!InRoundBefore(d, c[2], ScanN))
           z == Scans!Each(Scans!InRoundBefore(d, c[2], c[3]))
<1>4. x \in Scans!Bags /\ y \in Scans!Bags /\ z \in Scans!Bags
  BY ScEach DEF Scans!SoFar
<1>5. /\ Scans!SoFar(d, c[2] + 1) = Scans!Plus(x, y)
      /\ Scans!Each(Scans!From(d) \cup Scans!BeforeOnDpu(c)) = Scans!Plus(x, z)
  BY <1>2, ScFirst
<1> HIDE DEF x, y, z
<1>6. Scans!Plus(Scans!Plus(x, y), z) = Scans!Plus(Scans!Plus(x, z), y)
  BY <1>1, <1>4
<1>7. QED
  BY <1>3, <1>5, <1>6 DEF y, z

\* Nothing was added besides to a block in time.
LEMMA ScInTime ==
  ASSUME NEW c, c \notin scLate
  PROVE  \A S : Scans!Plus(Scans!Each(S), Scans!Extra(c)) = Scans!Each(S)
<1>1. {b \in Scans!Blocks : c \in scLate /\ Scans!InRoundOf(b, c)} = {}
  OBVIOUS
<1>2. Scans!Extra(c) = Scans!Each({})
  BY <1>1 DEF Scans!Extra
<1>3. \A S : S \cap {} = {} /\ S \cup {} = S
  OBVIOUS
<1>4. QED
  BY <1>2, <1>3, ScPlus

LEMMA ScInit ==
  ASSUME Scans!Sized, Scans!Init
  PROVE  Scans!ScanInv
<1>1. \A d \in Scans!Dpus : Scans!From(d) = {}
  BY DEF Scans!Init, Scans!From
<1>2. Scans!TypeOK
  <2>1. Scans!Zero \in Scans!Bags /\ 1 \in 1 .. ScanRounds
    BY ScEach, ScNumbers
  <2>2. scFrom = [d \in Scans!Dpus |-> Scans!Each(Scans!From(d))]
    BY <1>1, ScEach DEF Scans!Init, Scans!ZeroPerDpu
  <2>3. QED
    BY <2>1, <2>2 DEF Scans!Init, Scans!TypeOK, Scans!AtStart, Scans!NoMessages, Scans!ZeroPerDpu,
      Scans!Locations
<1>3. \A d \in Scans!Dpus : Scans!Waiting(d)
  BY DEF Scans!Init, Scans!AtStart, Scans!Waiting, Scans!NoneOvertaken
<1>4. QED
  BY <1>2, <1>3 DEF Scans!ScanInv, Scans!DpuOK

\* Where a tasklet is tells what its DPU does.
LEMMA ScWhere ==
  ASSUME Scans!Sized, Scans!ScanInv, NEW d \in Scans!Dpus, NEW t \in Scans!Tasklets
  PROVE  /\ scAt[d][t] = "start" => Scans!Waiting(d)
         /\ scAt[d][t] \in {"each", "total"} => Scans!InBlocks(d)
         /\ scAt[d][t] = "end" => Scans!AtEnd(d)
         /\ scAt[d][t] \in {"bump", "barrier1", "sync", "barrier2", "add", "update", "barrier3"} =>
              \E r \in 1 .. ScanRounds :
                /\ Scans!ScanOK(d, r)
                /\ scAt[d][t] \in {"bump", "barrier1"} => Scans!Starting(d, r)
                /\ scAt[d][t] \in {"sync", "barrier2"} => Scans!Syncing(d, r)
                /\ scAt[d][t] \in {"add", "update", "barrier3"} => Scans!Adding(d, r)
<1>1. Scans!DpuOK(d)
  BY DEF Scans!ScanInv
<1>2. \A r : /\ Scans!Starting(d, r) => scAt[d][t] \in {"bump", "barrier1"}
             /\ Scans!Syncing(d, r) => scAt[d][t] \in {"sync", "barrier2"}
             /\ Scans!Adding(d, r) => scAt[d][t] \in {"add", "update", "barrier3"}
  BY DEF Scans!Starting, Scans!Syncing, Scans!Adding
<1>3. /\ Scans!Waiting(d) => scAt[d][t] = "start"
      /\ Scans!InBlocks(d) => scAt[d][t] \in {"each", "total"}
      /\ Scans!AtEnd(d) => scAt[d][t] = "end"
  BY DEF Scans!Waiting, Scans!InBlocks, Scans!AtEnd
<1>4. CASE Scans!Waiting(d)
  BY <1>3, <1>4
<1>5. CASE Scans!InBlocks(d)
  BY <1>3, <1>5
<1>6. CASE Scans!AtEnd(d)
  BY <1>3, <1>6
<1>7. CASE Scans!Scanning(d)
  <2>1. PICK r \in 1 .. ScanRounds :
          Scans!ScanOK(d, r) /\ (Scans!Starting(d, r) \/ Scans!Syncing(d, r) \/ Scans!Adding(d, r))
    BY <1>7 DEF Scans!Scanning
  <2>2. QED
    BY <1>2, <2>1
<1>8. QED
  BY <1>1, <1>4, <1>5, <1>6, <1>7 DEF Scans!DpuOK

LEMMA ScStarts ==
  ASSUME Scans!Sized, Scans!ScanInv, NEW d \in Scans!Dpus, Scans!Start(d)
  PROVE  Scans!ScanInv'
<1> DEFINE nextAt == [t \in Scans!Tasklets |-> Scans!Enter(t)]
<1>1. /\ \A t \in Scans!Tasklets : scAt[d][t] = "start"
      /\ scAt' = [scAt EXCEPT ![d] = nextAt]
      /\ scRound' = [scRound EXCEPT ![d] = [t \in Scans!Tasklets |-> 1]]
      /\ scEpoch' = [scEpoch EXCEPT ![d] = 1]
      /\ scBox' = [scBox EXCEPT ![d] = Scans!NoMessages]
      /\ scPartial' = [scPartial EXCEPT ![d] = scFrom[d]]
      /\ scOwn' = [scOwn EXCEPT ![d] = [t \in Scans!Tasklets |-> Scans!Zero]]
      /\ UNCHANGED <<scAlg, scKernel, scFrom, scBefore, scAccum, scOut, scLog, scLate>>
  BY DEF Scans!Start, Scans!Barrier, Scans!fixed
<1>2. Scans!TypeOK
  BY DEF Scans!ScanInv
<1>3. Scans!Waiting(d)
  BY <1>1, ScWhere, ScNumbers
<1>4. scFrom[d] = Scans!Each(Scans!From(d)) /\ scFrom[d] \in Scans!Bags /\ Scans!Zero \in Scans!Bags
  BY <1>2, ScEach DEF Scans!TypeOK
<1>5. nextAt \in [Scans!Tasklets -> Scans!Locations]
  BY DEF Scans!Enter, Scans!Locations
<1>6. Scans!TypeOK'
  <2>1. 1 \in 1 .. ScanRounds
    BY ScNumbers
  <2>2. scAt' \in [Scans!Dpus -> [Scans!Tasklets -> Scans!Locations]]
    <3> HIDE DEF nextAt
    <3>1. QED
      BY <1>1, <1>2, <1>5 DEF Scans!TypeOK
  <2>3. scRound' \in [Scans!Dpus -> [Scans!Tasklets -> 1 .. ScanRounds]]
    BY <1>1, <1>2, <2>1 DEF Scans!TypeOK
  <2>4. scEpoch' \in [Scans!Dpus -> Nat] /\ scPartial' \in [Scans!Dpus -> Scans!Bags]
    BY <1>1, <1>2, <1>4 DEF Scans!TypeOK
  <2>5. scOwn' \in [Scans!Dpus -> [Scans!Tasklets -> Scans!Bags]]
    BY <1>1, <1>2, <1>4 DEF Scans!TypeOK
  <2>6. Scans!NoMessages \in [Scans!Tasklets -> [val : Scans!Bags, epoch : Nat]]
    BY <1>4 DEF Scans!NoMessages
  <2>7. scBox' \in [Scans!Dpus -> [Scans!Tasklets -> [val : Scans!Bags, epoch : Nat]]]
    BY <1>1, <1>2, <2>6 DEF Scans!TypeOK
  <2>8. QED
    BY <1>1, <1>2, <2>2, <2>3, <2>4, <2>5, <2>7 DEF Scans!TypeOK, Scans!From
<1>7. /\ \A t \in Scans!Tasklets : scAt'[d][t] = Scans!Enter(t)
      /\ \A t \in Scans!Tasklets : scRound'[d][t] = 1 /\ scOwn'[d][t] = Scans!Zero
      /\ scEpoch'[d] = 1 /\ scPartial'[d] = scFrom[d]
      /\ \A t \in Scans!Tasklets : scBox'[d][t].epoch = 0
  BY <1>1, <1>2 DEF Scans!TypeOK, Scans!NoMessages
<1>8. ScanRounds \in Nat \ {0} /\ 1 \in 1 .. ScanRounds /\ 0 \in Scans!Tasklets
  BY ScNumbers
<1>9. CASE Scans!Scans
  <2>1. Scans!Scans' /\ Scans!From(d)' = Scans!From(d)
    BY <1>1, <1>9 DEF Scans!Scans, Scans!From
  <2>2. \A t \in Scans!Tasklets : scAt'[d][t] = IF t = 0 THEN "bump" ELSE "barrier1"
    BY <1>7, <1>9 DEF Scans!Enter
  <2>3. \A b \in Scans!OfDpu(d) : b[2] \in 1 .. ScanRounds /\ b[3] \in Scans!Tasklets
    BY DEF Scans!OfDpu, Scans!Blocks
  <2>8. Scans!NoneOvertaken(d)
    BY <1>2, <1>3, <1>9 DEF Scans!Waiting, Scans!Scans, Scans!TypeOK
  <2>4. Scans!ScanOK(d, 1)'
    <3>1. \A c \in Scans!OfDpu(d) : /\ ~ (c[2] < 1) /\ scAt'[d][c[3]] \notin {"update", "barrier3"}
                                    /\ c \notin scLate'
      BY <1>1, <2>2, <2>3, <2>8 DEF Scans!NoneOvertaken
    <3>2. QED
      BY <1>7, <2>1, <3>1 DEF Scans!ScanOK
  <2>5. Scans!SoFar(d, 1)' = Scans!Each(Scans!From(d))
    BY <2>1, ScFirst DEF Scans!SoFar
  <2>6. Scans!Starting(d, 1)'
    BY <1>4, <1>7, <1>8, <2>2, <2>5 DEF Scans!Starting
  <2>7. QED
    BY <1>1, <1>2, <1>6, <1>8, <2>4, <2>6, ScStep DEF Scans!DpuOK, Scans!Scanning, Scans!TypeOK
<1>10. CASE ~ Scans!Scans
  <2>1. ~ Scans!Scans' /\ (scAlg # "RSS" => scAlg = "SSA" /\ scKernel = 2)
    BY <1>1, <1>2, <1>10 DEF Scans!Scans, Scans!TypeOK
  <2>2. \A t \in Scans!Tasklets : scAt'[d][t] = "each"
    BY <1>7, <1>10 DEF Scans!Enter
  <2>3. \A t \in Scans!Tasklets : Scans!DoneBefore(d, t)' = 1
    BY <1>7, <2>2 DEF Scans!DoneBefore
  <2>4. \A c \in Scans!OfDpu(d) : c[3] \in Scans!Tasklets /\ ~ (c[2] < 1)
    BY ScNumbers DEF Scans!OfDpu, Scans!Blocks
  <2>5. \A t \in Scans!Tasklets : Scans!Each(Scans!OfTasklet(d, t, 1)) = Scans!Zero
    BY ScSets, ScEach
  <2>6. scAlg = "RSS" => \A t \in Scans!Tasklets :
          scOwn'[d][t] = Scans!Each(Scans!OfTasklet(d, t, Scans!DoneBefore(d, t)'))
    BY <1>7, <2>3, <2>5
  <2>7. scAlg # "RSS" => \A c \in Scans!OfDpu(d) :
          Scans!Holds(c, IF c[2] < Scans!DoneBefore(d, c[3]) THEN Scans!BeforeOnAll(c)
                         ELSE Scans!BeforeOnDpu(c))'
    <3> SUFFICES ASSUME scAlg # "RSS", NEW c \in Scans!OfDpu(d)
                 PROVE  Scans!Holds(c, IF c[2] < Scans!DoneBefore(d, c[3]) THEN Scans!BeforeOnAll(c)
                                       ELSE Scans!BeforeOnDpu(c))'
      OBVIOUS
    <3>1. Scans!Holds(c, Scans!BeforeOnDpu(c))
      BY <1>3, <2>1 DEF Scans!Waiting, Scans!OutOnDpu
    <3>2. Scans!Extra(c)' = Scans!Extra(c)
      BY <1>1, ScExtra
    <3>3. ~ (c[2] < Scans!DoneBefore(d, c[3])')
      BY <2>3, <2>4
    <3>4. QED
      BY <1>1, <3>1, <3>2, <3>3 DEF Scans!Holds
  <2>10. scAlg = "RSS" => Scans!NoneOvertaken(d)'
    BY <1>1, <1>3 DEF Scans!Waiting, Scans!NoneOvertaken
  <2>8. Scans!InBlocks(d)'
    BY <1>1, <2>1, <2>2, <2>6, <2>7, <2>10 DEF Scans!InBlocks
  <2>9. QED
    BY <1>1, <1>2, <1>6, <2>8, ScStep DEF Scans!DpuOK, Scans!TypeOK
<1>11. QED
  BY <1>9, <1>10

LEMMA ScBumps ==
  ASSUME Scans!Sized, Scans!ScanInv, NEW d \in Scans!Dpus, Scans!Bump(d)
  PROVE  Scans!ScanInv'
<1>1. /\ scAt[d][0] = "bump" /\ scAt' = [scAt EXCEPT ![d][0] = "barrier1"]
      /\ scEpoch' = [scEpoch EXCEPT ![d] = scEpoch[d] + 1]
      /\ UNCHANGED <<scAlg, scKernel, scFrom, scRound, scBox, scOwn, scBefore, scAccum>>
      /\ UNCHANGED <<scPartial, scOut, scLog, scLate>>
  BY DEF Scans!Bump, Scans!Goto, Scans!fixed
<1>2. Scans!TypeOK /\ 0 \in Scans!Tasklets
  BY ScNumbers DEF Scans!ScanInv
<1>3. PICK r \in 1 .. ScanRounds : Scans!ScanOK(d, r) /\ Scans!Starting(d, r)
  BY <1>1, <1>2, ScWhere
<1>4. Scans!TypeOK'
  <2>1. scAt' \in [Scans!Dpus -> [Scans!Tasklets -> Scans!Locations]]
    BY <1>1, <1>2 DEF Scans!TypeOK, Scans!Locations
  <2>2. scEpoch' \in [Scans!Dpus -> Nat]
    BY <1>1, <1>2 DEF Scans!TypeOK
  <2>3. QED
    BY <1>1, <1>2, <2>1, <2>2 DEF Scans!TypeOK, Scans!From
<1>5. /\ scAt'[d][0] = "barrier1" /\ \A t \in Scans!Tasklets : t # 0 => scAt'[d][t] = scAt[d][t]
      /\ scEpoch'[d] = scEpoch[d] + 1
  BY <1>1, <1>2 DEF Scans!TypeOK
<1>6. /\ Scans!Scans' = Scans!Scans /\ Scans!From(d)' = Scans!From(d)
      /\ Scans!SoFar(d, r)' = Scans!SoFar(d, r)
  BY <1>1 DEF Scans!Scans, Scans!From, Scans!SoFar
<1>7. Scans!ScanOK(d, r)'
  <2>2. \A t \in Scans!Tasklets : scAt'[d][t] \in {"update", "barrier3"} => scAt[d][t] \in {"update", "barrier3"}
    BY <1>5
  <2>3. QED
    BY <1>1, <1>2, <1>3, <2>2, ScKeeps, ScNumbers DEF Scans!Starting
<1>8. Scans!Starting(d, r)'
  BY <1>1, <1>3, <1>5, <1>6 DEF Scans!Starting
<1>9. QED
  BY <1>1, <1>2, <1>4, <1>7, <1>8, ScStep DEF Scans!DpuOK, Scans!Scanning, Scans!TypeOK

LEMMA ScMeets ==
  ASSUME Scans!Sized, Scans!ScanInv, NEW d \in Scans!Dpus, Scans!BeforeScan(d) \/ Scans!BeforeAdd(d)
  PROVE  Scans!ScanInv'
<1> DEFINE l == IF Scans!BeforeScan(d) THEN "sync" ELSE "add"
           m == IF Scans!BeforeScan(d) THEN "barrier1" ELSE "barrier2"
<1>1. /\ \A t \in Scans!Tasklets : scAt[d][t] = m
      /\ scAt' = [scAt EXCEPT ![d] = [t \in Scans!Tasklets |-> l]]
      /\ UNCHANGED <<scAlg, scKernel, scFrom, scRound, scEpoch, scBox, scOwn, scBefore, scAccum>>
      /\ UNCHANGED <<scPartial, scOut, scLog, scLate>>
  BY DEF Scans!BeforeScan, Scans!BeforeAdd, Scans!Barrier, Scans!fixed, Scans!sync
<1>2. Scans!TypeOK /\ 0 \in Scans!Tasklets /\ Scans!Last \in Scans!Tasklets
  BY ScNumbers DEF Scans!ScanInv
<1>3. l \in {"sync", "add"} /\ (l = "sync" <=> m = "barrier1") /\ (l = "add" <=> m = "barrier2")
  OBVIOUS
<1> HIDE DEF l, m
<1>4. PICK r \in 1 .. ScanRounds :
        /\ Scans!ScanOK(d, r)
        /\ l = "sync" => Scans!Starting(d, r)
        /\ l = "add" => Scans!Syncing(d, r)
  <2>1. CASE l = "sync"
    BY <1>1, <1>2, <1>3, <2>1, ScWhere
  <2>2. CASE l = "add"
    BY <1>1, <1>2, <1>3, <2>2, ScWhere
  <2>3. QED
    BY <1>3, <2>1, <2>2
<1>5. scAt' \in [Scans!Dpus -> [Scans!Tasklets -> Scans!Locations]]
  BY <1>1, <1>2, <1>3 DEF Scans!TypeOK, Scans!Locations
<1>6. Scans!TypeOK'
  BY <1>1, <1>2, <1>5 DEF Scans!TypeOK, Scans!From
<1>7. \A t \in Scans!Tasklets : scAt'[d][t] = l
  BY <1>1, <1>2 DEF Scans!TypeOK
<1>8. /\ Scans!Scans' = Scans!Scans /\ Scans!From(d)' = Scans!From(d)
      /\ Scans!SoFar(d, r)' = Scans!SoFar(d, r)
  BY <1>1 DEF Scans!Scans, Scans!From, Scans!SoFar
<1>9. Scans!ScanOK(d, r)'
  <2>1. scAt[d][Scans!Last] # "barrier3"
    BY <1>1, <1>2, <1>3
  <2>2. \A t \in Scans!Tasklets : scAt'[d][t] \notin {"update", "barrier3"}
    BY <1>3, <1>7
  <2>3. QED
    BY <1>1, <1>4, <2>1, <2>2, ScKeeps
<1>10. l = "sync" => Scans!Syncing(d, r)'
  <2> SUFFICES ASSUME l = "sync" PROVE Scans!Syncing(d, r)'
    OBVIOUS
  <2>1. Scans!Starting(d, r) /\ scAt[d][0] = "barrier1"
    BY <1>1, <1>2, <1>3, <1>4
  <2>2. ASSUME NEW t \in Scans!Tasklets PROVE Scans!SyncOK(d, r, t)'
    <3>1. t # 0 => t - 1 \in Scans!Tasklets /\ scBox'[d][t].epoch <= r
      BY <1>1, <2>1, ScNumbers DEF Scans!Starting
    <3>2. QED
      BY <1>7, <3>1 DEF Scans!SyncOK
  <2>3. QED
    BY <1>1, <1>2, <1>7, <1>8, <2>1, <2>2 DEF Scans!Syncing, Scans!Starting
<1>11. l = "add" => Scans!Adding(d, r)'
  <2> SUFFICES ASSUME l = "add" PROVE Scans!Adding(d, r)'
    OBVIOUS
  <2>1. Scans!Syncing(d, r) /\ \A t \in Scans!Tasklets : scAt[d][t] = "barrier2"
    BY <1>1, <1>3, <1>4
  <2>2. ASSUME NEW t \in Scans!Tasklets
        PROVE  /\ scBefore[d][t] = Scans!Each(Scans!InRoundBefore(d, r, t))
               /\ t # 0 => scBox[d][t].epoch <= r + 1
    <3>1. Scans!SyncOK(d, r, t) /\ (t # 0 => t - 1 \in Scans!Tasklets)
      BY <2>1, ScNumbers DEF Scans!Syncing
    <3>2. t # 0 => scBox[d][t].epoch = r + 1
      BY <2>1, <3>1 DEF Scans!SyncOK
    <3>3. QED
      BY <2>1, <3>1, <3>2 DEF Scans!SyncOK
  <2>3. QED
    BY <1>1, <1>2, <1>7, <1>8, <2>1, <2>2 DEF Scans!Adding, Scans!Syncing
<1>12. QED
  BY <1>1, <1>2, <1>3, <1>6, <1>9, <1>10, <1>11, ScStep DEF Scans!DpuOK, Scans!Scanning, Scans!TypeOK

\* A tasklet receives the sum before it, and hands on the sum behind it.
LEMMA ScSyncs ==
  ASSUME Scans!Sized, Scans!ScanInv, NEW d \in Scans!Dpus, NEW t \in Scans!Tasklets,
         Scans!Sync(d, t)
  PROVE  Scans!ScanInv'
<1> DEFINE p == IF t = 0 THEN Scans!Zero ELSE scBox[d][t].val
           s == Scans!Plus(p, Scans!Only(<<d, scRound[d][t], t>>))
<1>1. /\ scAt[d][t] = "sync" /\ scAt' = [scAt EXCEPT ![d][t] = "barrier2"]
      /\ t # 0 => scBox[d][t].epoch = scEpoch[d]
      /\ scBefore' = [scBefore EXCEPT ![d][t] = p]
      /\ t # Scans!Last => /\ scBox' = [scBox EXCEPT ![d][t + 1] = [val |-> s, epoch |-> scEpoch[d]]]
                           /\ scAccum' = scAccum
      /\ t = Scans!Last => scAccum' = [scAccum EXCEPT ![d] = s] /\ scBox' = scBox
      /\ UNCHANGED <<scAlg, scKernel, scFrom, scRound, scEpoch, scOwn, scPartial, scOut, scLog>>
      /\ scLate' = scLate
  BY DEF Scans!Sync, Scans!Goto, Scans!fixed, Scans!Message
<1>2. Scans!TypeOK
  BY DEF Scans!ScanInv
<1>3. PICK r \in 1 .. ScanRounds : Scans!ScanOK(d, r) /\ Scans!Syncing(d, r)
  BY <1>1, ScWhere
<1>4. /\ ScanN \in Nat \ {0} /\ Scans!Tasklets = 0 .. ScanN - 1 /\ Scans!Last = ScanN - 1
      /\ Scans!Last \in Scans!Tasklets /\ r \in Nat
  BY ScNumbers
<1>5. Scans!SyncOK(d, r, t) /\ scEpoch[d] = r + 1 /\ scRound[d][t] = r
  BY <1>3 DEF Scans!Syncing, Scans!ScanOK
<1>6. t # 0 => t - 1 \in Scans!Tasklets /\ scAt[d][t - 1] = "barrier2"
  <2> SUFFICES ASSUME t # 0 PROVE t - 1 \in Scans!Tasklets /\ scAt[d][t - 1] = "barrier2"
    OBVIOUS
  <2>1. scBox[d][t].epoch = r + 1
    BY <1>1, <1>5
  <2>2. QED
    BY <1>4, <1>5, <2>1 DEF Scans!SyncOK
<1>7. p = Scans!Each(Scans!InRoundBefore(d, r, t))
  <2>1. CASE t = 0
    BY <2>1, ScSets, ScEach
  <2>2. CASE t # 0
    BY <1>5, <1>6, <2>2 DEF Scans!SyncOK
  <2>3. QED
    BY <2>1, <2>2
<1>8. s = Scans!Each(Scans!InRoundBefore(d, r, t + 1))
  <2> DEFINE S1 == Scans!InRoundBefore(d, r, t)
             T1 == {<<d, r, t>>}
  <2>1. S1 \cap T1 = {} /\ Scans!InRoundBefore(d, r, t + 1) = S1 \cup T1 /\ <<d, r, t>> \in Scans!Blocks
    BY ScSets
  <2>2. Scans!Only(<<d, r, t>>) = Scans!Each(T1)
    BY <2>1, ScEach
  <2>3. s = Scans!Plus(Scans!Each(S1), Scans!Each(T1))
    BY <1>5, <1>7, <2>2
  <2> HIDE DEF S1, T1, s
  <2>4. QED
    BY <2>1, <2>3, ScPlus
<1>9. p \in Scans!Bags /\ s \in Scans!Bags
  BY <1>7, <1>8, ScEach
<1> HIDE DEF p, s
<1>10. \A u \in Scans!Tasklets : u < t => scAt[d][u] = "barrier2"
  <2> SUFFICES ASSUME NEW u \in Scans!Tasklets, u < t PROVE scAt[d][u] = "barrier2"
    OBVIOUS
  <2>1. t # 0
    BY <1>4
  <2>2. Scans!SyncOK(d, r, t - 1) /\ scAt[d][t - 1] = "barrier2"
    BY <1>3, <1>6, <2>1 DEF Scans!Syncing
  <2>3. u = t - 1 \/ u < t - 1
    BY <1>4
  <2>4. QED
    BY <2>2, <2>3 DEF Scans!SyncOK
<1>11. Scans!TypeOK'
  <2>1. scAt' \in [Scans!Dpus -> [Scans!Tasklets -> Scans!Locations]]
    BY <1>1, <1>2 DEF Scans!TypeOK, Scans!Locations
  <2>2. scBefore' \in [Scans!Dpus -> [Scans!Tasklets -> Scans!Bags]]
    BY <1>1, <1>2, <1>9 DEF Scans!TypeOK
  <2>3. scAccum' \in [Scans!Dpus -> Scans!Bags]
    BY <1>1, <1>2, <1>9 DEF Scans!TypeOK
  <2>4. scBox' \in [Scans!Dpus -> [Scans!Tasklets -> [val : Scans!Bags, epoch : Nat]]]
    <3>1. CASE t = Scans!Last
      BY <1>1, <1>2, <3>1 DEF Scans!TypeOK
    <3>2. CASE t # Scans!Last
      <4>1. [val |-> s, epoch |-> scEpoch[d]] \in [val : Scans!Bags, epoch : Nat]
        BY <1>2, <1>9 DEF Scans!TypeOK
      <4>2. scBox' = [scBox EXCEPT ![d][t + 1] = [val |-> s, epoch |-> scEpoch[d]]]
        BY <1>1, <3>2
      <4>3. QED
        BY <1>2, <4>1, <4>2 DEF Scans!TypeOK
    <3>3. QED
      BY <3>1, <3>2
  <2>5. QED
    BY <1>1, <1>2, <2>1, <2>2, <2>3, <2>4 DEF Scans!TypeOK, Scans!From
<1>12. /\ scAt'[d][t] = "barrier2" /\ \A u \in Scans!Tasklets : u # t => scAt'[d][u] = scAt[d][u]
       /\ scBefore'[d][t] = p /\ \A u \in Scans!Tasklets : u # t => scBefore'[d][u] = scBefore[d][u]
  BY <1>1, <1>2 DEF Scans!TypeOK
<1>13. /\ \A u \in Scans!Tasklets : u # t + 1 => scBox'[d][u] = scBox[d][u]
       /\ t # Scans!Last => scBox'[d][t + 1] = [val |-> s, epoch |-> r + 1]
  <2>1. CASE t = Scans!Last
    BY <1>1, <2>1
  <2>2. CASE t # Scans!Last
    <3>1. t + 1 \in Scans!Tasklets
      BY <1>4, <2>2
    <3>2. QED
      BY <1>1, <1>2, <1>5, <2>2, <3>1 DEF Scans!TypeOK
  <2>3. QED
    BY <2>1, <2>2
<1>14. /\ Scans!Scans' = Scans!Scans /\ Scans!From(d)' = Scans!From(d)
       /\ Scans!SoFar(d, r)' = Scans!SoFar(d, r)
  BY <1>1 DEF Scans!Scans, Scans!From, Scans!SoFar
<1>15. Scans!ScanOK(d, r)'
  <2>1. scAt[d][Scans!Last] # "barrier3"
    BY <1>3, <1>4 DEF Scans!Syncing
  <2>2. \A u \in Scans!Tasklets : scAt'[d][u] \in {"update", "barrier3"} => scAt[d][u] \in {"update", "barrier3"}
    BY <1>12
  <2>3. QED
    BY <1>1, <1>3, <2>1, <2>2, ScKeeps
<1>16. ASSUME NEW u \in Scans!Tasklets PROVE Scans!SyncOK(d, r, u)'
  <2>1. Scans!SyncOK(d, r, u)
    BY <1>3 DEF Scans!Syncing
  <2>2. scAt'[d][u] = "barrier2" =>
          /\ \A w \in Scans!Tasklets : w < u => scAt'[d][w] = "barrier2"
          /\ scBefore'[d][u] = Scans!Each(Scans!InRoundBefore(d, r, u))
    <3>1. CASE u = t
      BY <1>4, <1>7, <1>10, <1>12, <3>1
    <3>2. CASE u # t
      BY <1>12, <2>1, <3>2 DEF Scans!SyncOK
    <3>3. QED
      BY <3>1, <3>2
  <2>3. ASSUME u # 0
        PROVE  IF scAt'[d][u - 1] = "barrier2"
               THEN scBox'[d][u] = [val |-> Scans!Each(Scans!InRoundBefore(d, r, u)), epoch |-> r + 1]
               ELSE scBox'[d][u].epoch <= r
    <3>1. u - 1 \in Scans!Tasklets
      BY <1>4, <2>3
    <3>2. CASE u = t + 1
      <4>1. t # Scans!Last /\ u - 1 = t
        BY <1>4, <3>2
      <4>2. QED
        BY <1>8, <1>12, <1>13, <3>2, <4>1
    <3>3. CASE u # t + 1
      <4>1. u - 1 # t
        BY <1>4, <3>3
      <4>2. QED
        BY <1>12, <1>13, <2>1, <2>3, <3>1, <3>3, <4>1 DEF Scans!SyncOK
    <3>4. QED
      BY <3>2, <3>3
  <2>4. QED
    BY <2>2, <2>3 DEF Scans!SyncOK
<1>17. scAt'[d][Scans!Last] = "barrier2" => scAccum'[d] = Scans!Each(Scans!InRoundBefore(d, r, ScanN))
  <2>1. CASE t = Scans!Last
    <3>1. t + 1 = ScanN
      BY <1>4, <2>1
    <3>2. QED
      BY <1>1, <1>2, <1>8, <2>1, <3>1 DEF Scans!TypeOK
  <2>2. CASE t # Scans!Last
    BY <1>1, <1>3, <1>4, <1>12, <2>2 DEF Scans!Syncing
  <2>3. QED
    BY <2>1, <2>2
<1>18. Scans!Syncing(d, r)'
  BY <1>1, <1>3, <1>12, <1>14, <1>16, <1>17 DEF Scans!Syncing
<1>19. Scans!DpuOK(d)'
  BY <1>15, <1>18 DEF Scans!DpuOK, Scans!Scanning
<1>20. \A e \in Scans!Dpus : e # d =>
         /\ scAt'[e] = scAt[e] /\ scBefore'[e] = scBefore[e] /\ scBox'[e] = scBox[e]
         /\ scAccum'[e] = scAccum[e]
  BY <1>1, <1>2 DEF Scans!TypeOK
<1>21. QED
  BY <1>1, <1>11, <1>19, <1>20, ScStep

\* A tasklet adds what lies before its block and writes the block.
LEMMA ScAdds ==
  ASSUME Scans!Sized, Scans!ScanInv, NEW d \in Scans!Dpus, NEW t \in Scans!Tasklets,
         Scans!Add(d, t)
  PROVE  Scans!ScanInv'
<1> DEFINE l == IF t = Scans!Last THEN "update" ELSE "barrier3"
           x == Scans!Plus(scPartial[d], scBefore[d][t])
<1>1. /\ scAt[d][t] = "add" /\ scAt' = [scAt EXCEPT ![d][t] = l]
      /\ scOut' = [scOut EXCEPT ![<<d, scRound[d][t], t>>] = x]
      /\ UNCHANGED <<scAlg, scKernel, scFrom, scRound, scEpoch, scBox, scOwn, scBefore, scAccum>>
      /\ UNCHANGED <<scPartial, scLog, scLate>>
  BY DEF Scans!Add, Scans!Goto, Scans!fixed, Scans!sync
<1>2. Scans!TypeOK
  BY DEF Scans!ScanInv
<1>3. PICK r \in 1 .. ScanRounds : Scans!ScanOK(d, r) /\ Scans!Adding(d, r)
  BY <1>1, ScWhere
<1>4. l \in Scans!Locations /\ l \in {"update", "barrier3"} /\ (l = "update" <=> t = Scans!Last)
  BY DEF Scans!Locations
<1>5. scRound[d][t] = r /\ scBefore[d][t] = Scans!Each(Scans!InRoundBefore(d, r, t))
  BY <1>1, <1>3 DEF Scans!Adding, Scans!ScanOK
<1> DEFINE b == <<d, r, t>>
<1>6. b \in Scans!OfDpu(d) /\ b[1] = d /\ b[2] = r /\ b[3] = t
  BY ScSets DEF Scans!OfDpu
<1>7. x = Scans!Plus(Scans!Each(Scans!From(d) \cup Scans!BeforeOnDpu(b)), Scans!Extra(b))
  <2>1. CASE scAt[d][Scans!Last] # "barrier3"
    <3>1. b \notin scLate
      BY <1>3, <1>6, <2>1 DEF Scans!ScanOK
    <3>2. x = Scans!Plus(Scans!SoFar(d, b[2]), Scans!Each(Scans!InRoundBefore(d, b[2], b[3])))
      BY <1>3, <1>5, <1>6, <2>1 DEF Scans!Adding
    <3> HIDE DEF x, b
    <3>3. x = Scans!Each(Scans!From(d) \cup Scans!BeforeOnDpu(b))
      BY <1>6, <3>2, ScFirst
    <3>4. QED
      BY <3>1, <3>3, ScInTime
  <2>2. CASE scAt[d][Scans!Last] = "barrier3"
    <3>1. b \in scLate /\ scPartial[d] = Scans!SoFar(d, r + 1)
      BY <1>1, <1>3, <2>2 DEF Scans!Adding
    <3>2. x = Scans!Plus(Scans!SoFar(d, b[2] + 1), Scans!Each(Scans!InRoundBefore(d, b[2], b[3])))
      BY <1>5, <1>6, <3>1
    <3> HIDE DEF x, b
    <3>3. {c \in Scans!Blocks : b \in scLate /\ Scans!InRoundOf(c, b)} =
            {c \in Scans!Blocks : Scans!InRoundOf(c, b)}
      BY <3>1
    <3>4. Scans!Extra(b) = Scans!Each({c \in Scans!Blocks : Scans!InRoundOf(c, b)})
      BY <3>3 DEF Scans!Extra
    <3>5. QED
      BY <1>6, <3>2, <3>4, ScTwice
  <2>3. QED
    BY <2>1, <2>2
<1>8. x \in Scans!Bags
  BY <1>7, ScEach DEF Scans!Extra
<1> HIDE DEF l, x
<1>9. \A c \in Scans!Blocks : scOut'[c] = IF c = b THEN x ELSE scOut[c]
  BY <1>1, <1>2, <1>5 DEF Scans!TypeOK
<1>10. Scans!TypeOK'
  <2>1. scAt' \in [Scans!Dpus -> [Scans!Tasklets -> Scans!Locations]]
    BY <1>1, <1>2, <1>4 DEF Scans!TypeOK
  <2>2. scOut' \in [Scans!Blocks -> Scans!Bags]
    BY <1>1, <1>2, <1>8 DEF Scans!TypeOK
  <2>3. QED
    BY <1>1, <1>2, <2>1, <2>2 DEF Scans!TypeOK, Scans!From
<1>11. /\ scAt'[d][t] = l /\ \A u \in Scans!Tasklets : u # t => scAt'[d][u] = scAt[d][u]
       /\ \A e \in Scans!Dpus : e # d => scAt'[e] = scAt[e]
  BY <1>1, <1>2 DEF Scans!TypeOK
<1>12. /\ Scans!Scans' = Scans!Scans /\ Scans!From(d)' = Scans!From(d)
       /\ Scans!SoFar(d, r)' = Scans!SoFar(d, r)
  BY <1>1 DEF Scans!Scans, Scans!From, Scans!SoFar
<1>13. \A c \in Scans!OfDpu(d) :
         /\ c \in Scans!Blocks /\ c[3] \in Scans!Tasklets /\ c = <<d, c[2], c[3]>>
  BY DEF Scans!OfDpu, Scans!Blocks
<1>19. scAt'[d][Scans!Last] = "barrier3" <=> scAt[d][Scans!Last] = "barrier3"
  BY <1>1, <1>4, <1>11, ScNumbers
<1>20. \A c : Scans!Extra(c)' = Scans!Extra(c)
  BY <1>1, ScExtra
<1>14. Scans!ScanOK(d, r)'
  <2> SUFFICES ASSUME NEW c \in Scans!OfDpu(d),
                      c[2] < r \/ (c[2] = r /\ scAt'[d][c[3]] \in {"update", "barrier3"})
               PROVE  scOut'[c] = Scans!Plus(Scans!Each(Scans!From(d) \cup Scans!BeforeOnDpu(c)),
                                             Scans!Extra(c))
    BY <1>1, <1>3, <1>12, <1>19, <1>20 DEF Scans!ScanOK, Scans!Holds
  <2>1. CASE c = b
    BY <1>7, <1>9, <1>13, <2>1
  <2>2. CASE c # b
    <3>1. scOut'[c] = scOut[c] /\ (c[2] = r => c[3] # t)
      BY <1>9, <1>13, <2>2
    <3>2. c[2] = r => scAt'[d][c[3]] = scAt[d][c[3]]
      BY <1>11, <1>13, <3>1
    <3>3. QED
      BY <1>3, <3>1, <3>2 DEF Scans!ScanOK, Scans!Holds
  <2>3. QED
    BY <2>1, <2>2
<1>15. Scans!Adding(d, r)'
  <2>1. \A u \in Scans!Tasklets : scAt'[d][u] \in {"add", "barrier3"} \/ (u = Scans!Last /\ scAt'[d][u] = "update")
    BY <1>3, <1>4, <1>11 DEF Scans!Adding
  <2>2. Scans!SoFar(d, r + 1)' = Scans!SoFar(d, r + 1)
    BY <1>1 DEF Scans!SoFar, Scans!From
  <2>3. \A u \in Scans!Tasklets : scAt'[d][u] = "add" => scAt[d][u] = "add"
    BY <1>4, <1>11
  <2>4. QED
    BY <1>1, <1>3, <1>12, <1>19, <2>1, <2>2, <2>3 DEF Scans!Adding
<1>16. Scans!DpuOK(d)'
  BY <1>14, <1>15 DEF Scans!DpuOK, Scans!Scanning
<1>17. \A c \in Scans!Blocks : c[1] # d => scOut'[c] = scOut[c]
  BY <1>6, <1>9
<1>18. QED
  BY <1>1, <1>10, <1>11, <1>16, <1>17, ScStep

\* The last tasklet adds the sum of the round.
LEMMA ScUpdates ==
  ASSUME Scans!Sized, Scans!ScanInv, NEW d \in Scans!Dpus, Scans!Update(d)
  PROVE  Scans!ScanInv'
<1>1. /\ scAt[d][Scans!Last] = "update"
      /\ scLate' = scLate \cup
           {<<d, scRound[d][t], t>> : t \in {u \in Scans!Tasklets : scAt[d][u] = "add"}}
      /\ scAt' = [scAt EXCEPT ![d][Scans!Last] = "barrier3"]
      /\ scPartial' = [scPartial EXCEPT ![d] = Scans!Plus(scPartial[d], scAccum[d])]
      /\ UNCHANGED <<scAlg, scKernel, scFrom, scRound, scEpoch, scBox, scOwn, scBefore, scAccum>>
      /\ UNCHANGED <<scOut, scLog>>
  BY DEF Scans!Update, Scans!Overtaken, Scans!Goto, Scans!fixed
<1>2. Scans!TypeOK /\ Scans!Last \in Scans!Tasklets
  BY ScNumbers DEF Scans!ScanInv
<1>3. PICK r \in 1 .. ScanRounds : Scans!ScanOK(d, r) /\ Scans!Adding(d, r)
  BY <1>1, <1>2, ScWhere
<1>4. Scans!Plus(scPartial[d], scAccum[d]) = Scans!SoFar(d, r + 1)
  <2>1. scPartial[d] = Scans!SoFar(d, r) /\ scAccum[d] = Scans!Each(Scans!InRoundBefore(d, r, ScanN))
    BY <1>1, <1>3 DEF Scans!Adding
  <2>2. QED
    BY <2>1, ScFirst
<1>5. Scans!SoFar(d, r + 1) \in Scans!Bags
  BY ScEach DEF Scans!SoFar
<1>6. Scans!TypeOK'
  <2>1. scAt' \in [Scans!Dpus -> [Scans!Tasklets -> Scans!Locations]]
    BY <1>1, <1>2 DEF Scans!TypeOK, Scans!Locations
  <2>2. scPartial' \in [Scans!Dpus -> Scans!Bags]
    BY <1>1, <1>2, <1>4, <1>5 DEF Scans!TypeOK
  <2>3. QED
    BY <1>1, <1>2, <2>1, <2>2 DEF Scans!TypeOK, Scans!From
<1>7. /\ scAt'[d][Scans!Last] = "barrier3"
      /\ \A t \in Scans!Tasklets : t # Scans!Last => scAt'[d][t] = scAt[d][t]
      /\ scPartial'[d] = Scans!SoFar(d, r + 1)
      /\ \A e \in Scans!Dpus : e # d => scAt'[e] = scAt[e] /\ scPartial'[e] = scPartial[e]
  BY <1>1, <1>2, <1>4 DEF Scans!TypeOK
<1>8. /\ Scans!Scans' = Scans!Scans /\ Scans!From(d)' = Scans!From(d)
      /\ Scans!SoFar(d, r + 1)' = Scans!SoFar(d, r + 1)
  BY <1>1 DEF Scans!Scans, Scans!From, Scans!SoFar
<1>9. \A t \in Scans!Tasklets : /\ scAt'[d][t] \in {"add", "barrier3"}
                                /\ scAt[d][t] = "add" <=> scAt'[d][t] = "add"
                                /\ scAt[d][t] # "add" => scAt[d][t] \in {"update", "barrier3"}
  BY <1>1, <1>3, <1>7 DEF Scans!Adding
<1>14. /\ \A c \in scLate' : c \in scLate \/ (c[1] = d /\ c[2] = r /\ scAt[d][c[3]] = "add")
       /\ \A t \in Scans!Tasklets : scAt[d][t] = "add" => <<d, r, t>> \in scLate'
       /\ scLate \subseteq scLate'
  <2>1. \A t \in Scans!Tasklets : scRound[d][t] = r
    BY <1>3 DEF Scans!ScanOK
  <2>2. \A t : <<d, r, t>>[1] = d /\ <<d, r, t>>[2] = r /\ <<d, r, t>>[3] = t
    OBVIOUS
  <2>3. QED
    BY <1>1, <2>1, <2>2
<1>10. Scans!ScanOK(d, r)'
  <2>1. \A c \in Scans!OfDpu(d) : c[3] \in Scans!Tasklets /\ c[2] \in Int
    BY ScNumbers DEF Scans!OfDpu, Scans!Blocks
  <2>2. ASSUME NEW c \in Scans!OfDpu(d),
               c[2] < r \/ (c[2] = r /\ scAt'[d][c[3]] \in {"update", "barrier3"})
        PROVE  Scans!Holds(c, Scans!From(d) \cup Scans!BeforeOnDpu(c))'
    <3>1. c[2] < r \/ (c[2] = r /\ scAt[d][c[3]] \in {"update", "barrier3"})
      BY <1>9, <2>1, <2>2
    <3>2. c \in scLate' <=> c \in scLate
      BY <1>14, <2>1, <3>1
    <3>3. Scans!Extra(c)' = Scans!Extra(c)
      BY <3>2, ScExtra
    <3>4. Scans!Holds(c, Scans!From(d) \cup Scans!BeforeOnDpu(c))
      BY <1>3, <3>1 DEF Scans!ScanOK
    <3>5. QED
      BY <1>1, <1>8, <3>3, <3>4 DEF Scans!Holds
  <2>3. \A c \in Scans!OfDpu(d) \cap scLate' : c[2] < r \/ (c[2] = r /\ scAt'[d][Scans!Last] = "barrier3")
    BY <1>1, <1>3, <1>7, <1>14 DEF Scans!ScanOK
  <2>4. QED
    BY <1>1, <1>3, <1>8, <2>2, <2>3 DEF Scans!ScanOK
<1>11. Scans!Adding(d, r)'
  BY <1>1, <1>2, <1>3, <1>7, <1>8, <1>9, <1>14 DEF Scans!Adding
<1>15. \A c \in Scans!Blocks : c[1] # d => scOut'[c] = scOut[c] /\ (c \in scLate' <=> c \in scLate)
  BY <1>1, <1>14
<1>12. Scans!DpuOK(d)'
  BY <1>10, <1>11 DEF Scans!DpuOK, Scans!Scanning
<1>13. QED
  BY <1>1, <1>6, <1>7, <1>12, <1>15, ScStep

\* All meet behind a round: on to the next, or to the end.
LEMMA ScTurns ==
  ASSUME Scans!Sized, Scans!ScanInv, NEW d \in Scans!Dpus, Scans!AfterRound(d)
  PROVE  Scans!ScanInv'
<1> DEFINE more == scRound[d][0] < ScanRounds
           nextAt == [t \in Scans!Tasklets |-> IF more THEN Scans!Enter(t) ELSE "end"]
           nextRound == [t \in Scans!Tasklets |-> IF more THEN scRound[d][t] + 1 ELSE scRound[d][t]]
           nextLog == IF more THEN scLog[d] ELSE scPartial[d]
<1>1. /\ \A t \in Scans!Tasklets : scAt[d][t] = "barrier3"
      /\ scAt' = [scAt EXCEPT ![d] = nextAt]
      /\ scRound' = [scRound EXCEPT ![d] = nextRound]
      /\ scLog' = [scLog EXCEPT ![d] = nextLog]
      /\ UNCHANGED <<scAlg, scKernel, scFrom, scEpoch, scBox, scOwn, scBefore, scAccum>>
      /\ UNCHANGED <<scPartial, scOut, scLate>>
  BY DEF Scans!AfterRound, Scans!Barrier, Scans!fixed, Scans!sync
<1>2. Scans!TypeOK /\ 0 \in Scans!Tasklets /\ Scans!Last \in Scans!Tasklets /\ ScanRounds \in Nat \ {0}
  BY ScNumbers DEF Scans!ScanInv
<1>3. PICK r \in 1 .. ScanRounds : Scans!ScanOK(d, r) /\ Scans!Adding(d, r)
  BY <1>1, <1>2, ScWhere
<1>4. /\ Scans!Scans /\ \A t \in Scans!Tasklets : scRound[d][t] = r
      /\ scPartial[d] = Scans!SoFar(d, r + 1) /\ scEpoch[d] = r + 1
      /\ \A t \in Scans!Tasklets : t # 0 => scBox[d][t].epoch <= r + 1
  BY <1>1, <1>2, <1>3 DEF Scans!ScanOK, Scans!Adding
<1>5. more <=> r < ScanRounds
  BY <1>2, <1>4
<1> HIDE DEF more
<1>6. Scans!TypeOK'
  <2>1. nextAt \in [Scans!Tasklets -> Scans!Locations]
    BY DEF Scans!Enter, Scans!Locations
  <2>2. nextRound \in [Scans!Tasklets -> 1 .. ScanRounds]
    BY <1>2, <1>4, <1>5
  <2>3. nextLog \in Scans!Bags
    BY <1>2 DEF Scans!TypeOK
  <2> HIDE DEF nextAt, nextRound, nextLog
  <2>4. scAt' \in [Scans!Dpus -> [Scans!Tasklets -> Scans!Locations]]
    BY <1>1, <1>2, <2>1 DEF Scans!TypeOK
  <2>5. scRound' \in [Scans!Dpus -> [Scans!Tasklets -> 1 .. ScanRounds]]
    BY <1>1, <1>2, <2>2 DEF Scans!TypeOK
  <2>6. scLog' \in [Scans!Dpus -> Scans!Bags]
    BY <1>1, <1>2, <2>3 DEF Scans!TypeOK
  <2>7. QED
    BY <1>1, <1>2, <2>4, <2>5, <2>6 DEF Scans!TypeOK, Scans!From
<1>7. /\ scAt'[d] = nextAt /\ scRound'[d] = nextRound /\ scLog'[d] = nextLog
      /\ \A e \in Scans!Dpus : e # d =>
           scAt'[e] = scAt[e] /\ scRound'[e] = scRound[e] /\ scLog'[e] = scLog[e]
  BY <1>1, <1>2 DEF Scans!TypeOK
<1>8. /\ Scans!Scans' = Scans!Scans /\ Scans!From(d)' = Scans!From(d)
      /\ \A q : Scans!SoFar(d, q)' = Scans!SoFar(d, q)
  BY <1>1 DEF Scans!Scans, Scans!From, Scans!SoFar
<1>9. \A c \in Scans!OfDpu(d) :
        /\ c[1] = d /\ c[2] \in 1 .. ScanRounds /\ c[3] \in Scans!Tasklets
        /\ c[2] < r + 1 =>
             scOut[c] = Scans!Plus(Scans!Each(Scans!From(d) \cup Scans!BeforeOnDpu(c)), Scans!Extra(c))
        /\ c \in scLate => c[2] < r + 1
  <2>1. \A c \in Scans!OfDpu(d) : c[1] = d /\ c[2] \in 1 .. ScanRounds /\ c[3] \in Scans!Tasklets
    BY DEF Scans!OfDpu, Scans!Blocks
  <2>2. ASSUME NEW c \in Scans!OfDpu(d), c[2] < r + 1
        PROVE  scOut[c] = Scans!Plus(Scans!Each(Scans!From(d) \cup Scans!BeforeOnDpu(c)), Scans!Extra(c))
    <3>1. c[2] < r \/ (c[2] = r /\ scAt[d][c[3]] = "barrier3")
      BY <1>1, <1>2, <2>1, <2>2
    <3>2. QED
      BY <1>3, <3>1 DEF Scans!ScanOK, Scans!Holds
  <2>4. \A c \in Scans!OfDpu(d) : c \in scLate => c[2] < r + 1
    BY <1>3, <2>1 DEF Scans!ScanOK
  <2>3. QED
    BY <2>1, <2>2, <2>4
<1>13. \A c : Scans!Extra(c)' = Scans!Extra(c)
  BY <1>1, ScExtra
<1>10. CASE more
  <2>1. r + 1 \in 1 .. ScanRounds
    BY <1>2, <1>5, <1>10
  <2>2. \A t \in Scans!Tasklets : /\ scAt'[d][t] = IF t = 0 THEN "bump" ELSE "barrier1"
                                  /\ scRound'[d][t] = r + 1
    BY <1>4, <1>7, <1>10 DEF Scans!Enter
  <2>3. Scans!ScanOK(d, r + 1)'
    <3>1. ASSUME NEW c \in Scans!OfDpu(d)
          PROVE  /\ c[2] < r + 1 => Scans!Holds(c, Scans!From(d) \cup Scans!BeforeOnDpu(c))'
                 /\ scAt'[d][c[3]] \notin {"update", "barrier3"}
                 /\ c \in scLate' => c[2] < r + 1
      <4>1. c[2] < r + 1 => Scans!Holds(c, Scans!From(d) \cup Scans!BeforeOnDpu(c))'
        BY <1>1, <1>8, <1>9, <1>13 DEF Scans!Holds
      <4>2. c[3] \in Scans!Tasklets /\ (c \in scLate' => c[2] < r + 1)
        BY <1>1, <1>9
      <4>3. QED
        BY <2>2, <4>1, <4>2
    <3>2. QED
      BY <1>4, <1>8, <2>2, <3>1 DEF Scans!ScanOK
  <2>4. Scans!Starting(d, r + 1)'
    BY <1>1, <1>2, <1>4, <1>8, <2>2 DEF Scans!Starting, Scans!SoFar
  <2>5. Scans!DpuOK(d)'
    BY <2>1, <2>3, <2>4 DEF Scans!DpuOK, Scans!Scanning
  <2>6. QED
    BY <1>1, <1>6, <1>7, <2>5, ScStep
<1>11. CASE ~ more
  <2>1. r = ScanRounds
    BY <1>2, <1>5, <1>11
  <2>2. \A t \in Scans!Tasklets : scAt'[d][t] = "end"
    BY <1>7, <1>11
  <2>3. \A c \in Scans!OfDpu(d) :
          scOut'[c] = Scans!Plus(Scans!Each(Scans!From(d) \cup Scans!BeforeOnDpu(c)), Scans!Extra(c)')
    BY <1>1, <1>2, <1>9, <1>13, <2>1
  <2>4. scLog'[d] = Scans!Each(Scans!From(d) \cup Scans!OfDpu(d))
    <3>1. Scans!OfRoundsBefore(d, r + 1) = Scans!OfDpu(d)
      BY <2>1, ScSets
    <3>2. QED
      BY <1>4, <1>7, <1>11, <3>1 DEF Scans!SoFar
  <2>5. scKernel = 1 => /\ scAlg = "SSA" /\ scLog'[d] = Scans!Each(Scans!OfDpu(d))
                        /\ Scans!OutOnDpu(d)'
    <3> SUFFICES ASSUME scKernel = 1
                 PROVE  /\ scAlg = "SSA" /\ scLog'[d] = Scans!Each(Scans!OfDpu(d))
                        /\ Scans!OutOnDpu(d)'
      OBVIOUS
    <3>1. Scans!From(d) = {}
      BY DEF Scans!From
    <3>2. \A S : Scans!From(d) \cup S = S
      BY <3>1
    <3>3. QED
      BY <1>4, <2>3, <2>4, <3>2 DEF Scans!OutOnDpu, Scans!Holds, Scans!Scans
  <2>6. scKernel = 2 => Scans!OutOnAll(d)'
    <3> SUFFICES ASSUME scKernel = 2 PROVE Scans!OutOnAll(d)'
      OBVIOUS
    <3>1. Scans!From(d) = Scans!OfDpusBefore(d)
      BY DEF Scans!From
    <3>2. \A c \in Scans!OfDpu(d) : Scans!From(d) \cup Scans!BeforeOnDpu(c) = Scans!BeforeOnAll(c)
      BY <1>9, <3>1 DEF Scans!BeforeOnAll
    <3>3. QED
      BY <2>3, <3>2 DEF Scans!OutOnAll, Scans!Holds
  <2>7. Scans!AtEnd(d)'
    BY <1>1, <2>2, <2>5, <2>6 DEF Scans!AtEnd
  <2>8. Scans!DpuOK(d)'
    BY <2>7 DEF Scans!DpuOK
  <2>9. QED
    BY <1>1, <1>6, <1>7, <2>8, ScStep
<1>12. QED
  BY <1>10, <1>11

\* A block of a kernel without handshake.
LEMMA ScBlocks ==
  ASSUME Scans!Sized, Scans!ScanInv, NEW d \in Scans!Dpus, NEW t \in Scans!Tasklets,
         Scans!EachBlock(d, t)
  PROVE  Scans!ScanInv'
<1> DEFINE r == scRound[d][t]
           b == <<d, r, t>>
           ends == ~ (scRound[d][t] < ScanRounds)
<1>1. /\ scAt[d][t] = "each"
      /\ scAlg = "RSS" =>
           /\ scOwn' = [scOwn EXCEPT ![d][t] = Scans!Plus(scOwn[d][t], Scans!Only(b))]
           /\ scOut' = scOut
      /\ scAlg # "RSS" =>
           scOut' = [scOut EXCEPT ![b] = Scans!Plus(scOut[b], scFrom[d])] /\ scOwn' = scOwn
      /\ ends => scAt' = [scAt EXCEPT ![d][t] = "total"] /\ scRound' = scRound
      /\ ~ ends => scRound' = [scRound EXCEPT ![d][t] = r + 1] /\ scAt' = scAt
      /\ UNCHANGED <<scAlg, scKernel, scFrom, scEpoch, scBox, scBefore, scAccum>>
      /\ UNCHANGED <<scPartial, scLog, scLate>>
  BY DEF Scans!EachBlock, Scans!Goto, Scans!fixed, Scans!sync
<1>2. Scans!TypeOK
  BY DEF Scans!ScanInv
<1>3. Scans!InBlocks(d)
  BY <1>1, ScWhere
<1>4. /\ r \in 1 .. ScanRounds /\ ScanRounds \in Nat \ {0} /\ Scans!DoneBefore(d, t) = r
      /\ (~ ends => r + 1 \in 1 .. ScanRounds) /\ (ends => r = ScanRounds)
  <2>1. r \in 1 .. ScanRounds /\ ScanRounds \in Nat \ {0}
    BY <1>2, ScNumbers DEF Scans!TypeOK
  <2>2. Scans!DoneBefore(d, t) = r
    BY <1>1 DEF Scans!DoneBefore
  <2>3. ends <=> ~ (r < ScanRounds)
    OBVIOUS
  <2> HIDE DEF r, ends
  <2>4. QED
    BY ONLY <2>1, <2>2, <2>3
<1>5. b \in Scans!OfDpu(d) /\ b \in Scans!Blocks /\ b[1] = d /\ b[2] = r /\ b[3] = t
  BY <1>4, ScSets DEF Scans!OfDpu
<1>6. scAlg # "RSS" => scAlg = "SSA" /\ scKernel = 2 /\ scFrom[d] = Scans!Each(Scans!OfDpusBefore(d))
  BY <1>2, <1>3 DEF Scans!TypeOK, Scans!InBlocks, Scans!Scans, Scans!From
<1>7. scAlg = "RSS" =>
        Scans!Plus(scOwn[d][t], Scans!Only(b)) = Scans!Each(Scans!OfTasklet(d, t, r + 1))
  <2> SUFFICES ASSUME scAlg = "RSS"
               PROVE  Scans!Plus(scOwn[d][t], Scans!Only(b)) = Scans!Each(Scans!OfTasklet(d, t, r + 1))
    OBVIOUS
  <2>1. scOwn[d][t] = Scans!Each(Scans!OfTasklet(d, t, r))
    BY <1>3, <1>4 DEF Scans!InBlocks
  <2>2. Scans!Only(b) = Scans!Each({b})
    BY <1>5, ScEach
  <2>3. /\ Scans!OfTasklet(d, t, r) \cap {b} = {}
        /\ Scans!OfTasklet(d, t, r + 1) = Scans!OfTasklet(d, t, r) \cup {b}
    <3>1. r \in 1 .. ScanRounds /\ t \in Scans!Tasklets
      BY ONLY <1>4
    <3>2. \A q \in 1 .. ScanRounds, u \in Scans!Tasklets :
            /\ Scans!OfTasklet(d, u, q) \cap {<<d, q, u>>} = {}
            /\ Scans!OfTasklet(d, u, q + 1) = Scans!OfTasklet(d, u, q) \cup {<<d, q, u>>}
      <4>1. Scans!Sized
        OBVIOUS
      <4>2. QED
        BY ONLY <4>1, ScSets
    <3> HIDE DEF r
    <3>3. QED
      BY ONLY <3>1, <3>2 DEF b
  <2> HIDE DEF b, r
  <2>4. QED
    BY <2>1, <2>2, <2>3, ScPlus
<1>8. scAlg # "RSS" =>
        Scans!Plus(scOut[b], scFrom[d]) = Scans!Plus(Scans!Each(Scans!BeforeOnAll(b)), Scans!Extra(b))
  <2> SUFFICES ASSUME scAlg # "RSS"
               PROVE  Scans!Plus(scOut[b], scFrom[d]) =
                        Scans!Plus(Scans!Each(Scans!BeforeOnAll(b)), Scans!Extra(b))
    OBVIOUS
  <2>1. scOut[b] = Scans!Plus(Scans!Each(Scans!BeforeOnDpu(b)), Scans!Extra(b))
    <3>1. Scans!DoneBefore(d, b[3]) = b[2] /\ ~ (b[2] < b[2])
      BY <1>4, <1>5
    <3>2. QED
      BY <1>3, <1>5, <3>1 DEF Scans!InBlocks, Scans!Holds
  <2>2. Scans!BeforeOnDpu(b) \subseteq Scans!OfDpu(d)
    BY <1>5 DEF Scans!BeforeOnDpu, Scans!OfRoundsBefore, Scans!InRoundBefore
  <2>3. Scans!OfDpusBefore(d) \cap Scans!BeforeOnDpu(b) = {}
    BY <2>2, ScSets
  <2>4. Scans!BeforeOnAll(b) = Scans!BeforeOnDpu(b) \cup Scans!OfDpusBefore(d)
    BY <1>5 DEF Scans!BeforeOnAll
  <2>5. Scans!BeforeOnDpu(b) \cap Scans!OfDpusBefore(d) = {}
    BY <2>3
  <2>6. \A x, y, z \in Scans!Bags :
          Scans!Plus(Scans!Plus(x, y), z) = Scans!Plus(Scans!Plus(x, z), y)
    BY DEF Scans!Bags, Scans!Plus
  <2> HIDE DEF b
  <2> DEFINE x == Scans!Each(Scans!BeforeOnDpu(b))
             z == Scans!Each(Scans!OfDpusBefore(d))
  <2>7. Scans!Plus(x, z) = Scans!Each(Scans!BeforeOnAll(b))
    BY <2>4, <2>5, ScPlus
  <2>8. x \in Scans!Bags /\ Scans!Extra(b) \in Scans!Bags /\ z \in Scans!Bags
    BY ScEach DEF Scans!Extra
  <2>9. scOut[b] = Scans!Plus(x, Scans!Extra(b)) /\ scFrom[d] = z
    BY <1>6, <2>1
  <2> HIDE DEF x, z
  <2>10. QED
    BY <2>6, <2>7, <2>8, <2>9
<1> HIDE DEF r, b, ends
<1>9. Scans!TypeOK'
  <2>1. scAt' \in [Scans!Dpus -> [Scans!Tasklets -> Scans!Locations]]
    <3>1. scAt' = scAt \/ scAt' = [scAt EXCEPT ![d][t] = "total"]
      BY <1>1
    <3>2. CASE scAt' = scAt
      BY <1>2, <3>2 DEF Scans!TypeOK
    <3>3. CASE scAt' = [scAt EXCEPT ![d][t] = "total"]
      BY <1>2, <3>3 DEF Scans!TypeOK, Scans!Locations
    <3>4. QED
      BY <3>1, <3>2, <3>3
  <2>2. scRound' \in [Scans!Dpus -> [Scans!Tasklets -> 1 .. ScanRounds]]
    <3>1. scRound' = scRound \/ (r + 1 \in 1 .. ScanRounds /\ scRound' = [scRound EXCEPT ![d][t] = r + 1])
      BY <1>1, <1>4
    <3>2. CASE scRound' = scRound
      BY <1>2, <3>2 DEF Scans!TypeOK
    <3>3. CASE r + 1 \in 1 .. ScanRounds /\ scRound' = [scRound EXCEPT ![d][t] = r + 1]
      BY <1>2, <3>3 DEF Scans!TypeOK
    <3>4. QED
      BY <3>1, <3>2, <3>3
  <2>3. scOwn' \in [Scans!Dpus -> [Scans!Tasklets -> Scans!Bags]]
    <3>1. CASE scAlg = "RSS"
      <4>1. scOwn' = [scOwn EXCEPT ![d][t] = Scans!Each(Scans!OfTasklet(d, t, r + 1))]
        BY <1>1, <1>7, <3>1
      <4>2. Scans!Each(Scans!OfTasklet(d, t, r + 1)) \in Scans!Bags
        BY ScEach
      <4>3. QED
        BY <1>2, <4>1, <4>2 DEF Scans!TypeOK
    <3>2. CASE scAlg # "RSS"
      BY <1>1, <1>2, <3>2 DEF Scans!TypeOK
    <3>3. QED
      BY <3>1, <3>2
  <2>4. scOut' \in [Scans!Blocks -> Scans!Bags]
    <3>1. CASE scAlg = "RSS"
      BY <1>1, <1>2, <3>1 DEF Scans!TypeOK
    <3>2. CASE scAlg # "RSS"
      <4>1. scOut' = [scOut EXCEPT ![b] = Scans!Plus(Scans!Each(Scans!BeforeOnAll(b)), Scans!Extra(b))]
        BY <1>1, <1>8, <3>2
      <4>2. Scans!Plus(Scans!Each(Scans!BeforeOnAll(b)), Scans!Extra(b)) \in Scans!Bags
        BY ScEach DEF Scans!Extra
      <4>3. QED
        BY <1>2, <4>1, <4>2 DEF Scans!TypeOK
    <3>3. QED
      BY <3>1, <3>2
  <2>5. QED
    BY <1>1, <1>2, <2>1, <2>2, <2>3, <2>4 DEF Scans!TypeOK, Scans!From
<1>10. \A e \in Scans!Dpus : e # d => scAt'[e] = scAt[e] /\ scRound'[e] = scRound[e]
  BY <1>1, <1>2 DEF Scans!TypeOK
<1>11. \A e \in Scans!Dpus : e # d => scOwn'[e] = scOwn[e]
  BY <1>1, <1>2 DEF Scans!TypeOK
<1>12. \A u \in Scans!Tasklets : u # t =>
         scAt'[d][u] = scAt[d][u] /\ scRound'[d][u] = scRound[d][u] /\ scOwn'[d][u] = scOwn[d][u]
  <2>1. \A u \in Scans!Tasklets : u # t => scAt'[d][u] = scAt[d][u] /\ scRound'[d][u] = scRound[d][u]
    BY <1>1, <1>2 DEF Scans!TypeOK
  <2>2. \A u \in Scans!Tasklets : u # t => scOwn'[d][u] = scOwn[d][u]
    BY <1>1, <1>2 DEF Scans!TypeOK
  <2>3. QED
    BY <2>1, <2>2
<1>13. scAt'[d][t] \in {"each", "total"} /\ Scans!DoneBefore(d, t)' = r + 1
  <2>1. CASE ends
    BY <1>1, <1>2, <1>4, <2>1 DEF Scans!DoneBefore, Scans!TypeOK
  <2>2. CASE ~ ends
    BY <1>1, <1>2, <1>4, <2>2 DEF Scans!DoneBefore, Scans!TypeOK
  <2>3. QED
    BY <2>1, <2>2
<1>14. \A u \in Scans!Tasklets : u # t => Scans!DoneBefore(d, u)' = Scans!DoneBefore(d, u)
  BY <1>12 DEF Scans!DoneBefore
<1>15. scAlg = "RSS" => \A u \in Scans!Tasklets :
         scOwn'[d][u] = Scans!Each(Scans!OfTasklet(d, u, Scans!DoneBefore(d, u)'))
  <2> SUFFICES ASSUME scAlg = "RSS", NEW u \in Scans!Tasklets
               PROVE  scOwn'[d][u] = Scans!Each(Scans!OfTasklet(d, u, Scans!DoneBefore(d, u)'))
    OBVIOUS
  <2>1. CASE u = t
    BY <1>1, <1>2, <1>7, <1>13, <2>1 DEF Scans!TypeOK
  <2>2. CASE u # t
    BY <1>3, <1>12, <1>14, <2>2 DEF Scans!InBlocks
  <2>3. QED
    BY <2>1, <2>2
<1>21. \A c : Scans!Extra(c)' = Scans!Extra(c)
  BY <1>1, ScExtra
<1>16. scAlg # "RSS" => \A c \in Scans!OfDpu(d) :
         scOut'[c] = Scans!Plus(Scans!Each(IF c[2] < Scans!DoneBefore(d, c[3])' THEN Scans!BeforeOnAll(c)
                                           ELSE Scans!BeforeOnDpu(c)), Scans!Extra(c))
  <2> SUFFICES ASSUME scAlg # "RSS", NEW c \in Scans!OfDpu(d)
               PROVE  scOut'[c] =
                        Scans!Plus(Scans!Each(IF c[2] < Scans!DoneBefore(d, c[3])' THEN Scans!BeforeOnAll(c)
                                              ELSE Scans!BeforeOnDpu(c)), Scans!Extra(c))
    OBVIOUS
  <2>1. c \in Scans!Blocks /\ c[2] \in Int /\ c[3] \in Scans!Tasklets /\ c = <<d, c[2], c[3]>>
    BY ScNumbers DEF Scans!OfDpu, Scans!Blocks
  <2>2. scOut[c] = Scans!Plus(Scans!Each(IF c[2] < Scans!DoneBefore(d, c[3]) THEN Scans!BeforeOnAll(c)
                                         ELSE Scans!BeforeOnDpu(c)), Scans!Extra(c))
    BY <1>3 DEF Scans!InBlocks, Scans!Holds
  <2>3. CASE c = b
    <3>1. c[2] < Scans!DoneBefore(d, c[3])'
      BY <1>4, <1>5, <1>13, <2>3
    <3>2. scOut'[c] = Scans!Plus(Scans!Each(Scans!BeforeOnAll(c)), Scans!Extra(c))
      BY <1>1, <1>2, <1>5, <1>8, <2>3 DEF Scans!TypeOK
    <3>3. QED
      BY <3>1, <3>2
  <2>4. CASE c # b
    <3>1. scOut'[c] = scOut[c]
      BY <1>1, <1>2, <2>1, <2>4 DEF Scans!TypeOK
    <3>2. CASE c[3] = t
      <4>1. c[2] # r
        BY <2>1, <2>4, <3>2 DEF b
      <4>2. c[2] < r + 1 <=> c[2] < r
        BY <1>4, <2>1, <4>1
      <4>3. QED
        BY <1>4, <1>13, <2>2, <3>1, <3>2, <4>2
    <3>3. CASE c[3] # t
      BY <1>14, <2>1, <2>2, <3>1, <3>3
    <3>4. QED
      BY <3>2, <3>3
  <2>5. QED
    BY <2>3, <2>4
<1>22. scAlg = "RSS" => Scans!NoneOvertaken(d)'
  BY <1>1, <1>3 DEF Scans!InBlocks, Scans!NoneOvertaken
<1>17. Scans!InBlocks(d)'
  <2>1. ~ Scans!Scans' /\ \A u \in Scans!Tasklets : scAt'[d][u] \in {"each", "total"}
    BY <1>1, <1>3, <1>12, <1>13 DEF Scans!InBlocks, Scans!Scans
  <2>2. QED
    BY <1>1, <1>15, <1>16, <1>21, <1>22, <2>1 DEF Scans!InBlocks, Scans!DoneBefore, Scans!Holds
<1>18. Scans!DpuOK(d)'
  BY <1>17 DEF Scans!DpuOK
<1>19. \A c \in Scans!Blocks : c[1] # d => scOut'[c] = scOut[c]
  BY <1>1, <1>2, <1>5 DEF Scans!TypeOK
<1>20. QED
  BY <1>1, <1>9, <1>10, <1>11, <1>18, <1>19, ScStep

\* Tasklet 0 adds up the sums of the tasklets.
LEMMA ScReduces ==
  ASSUME Scans!Sized, Scans!ScanInv, NEW d \in Scans!Dpus, Scans!Total(d)
  PROVE  Scans!ScanInv'
<1>1. /\ \A t \in Scans!Tasklets : scAt[d][t] = "total"
      /\ scAt' = [scAt EXCEPT ![d] = [t \in Scans!Tasklets |-> "end"]]
      /\ scLog' = [scLog EXCEPT ![d] = Scans!PlusAll(scOwn[d], ScanN)]
      /\ UNCHANGED <<scAlg, scKernel, scFrom, scRound, scEpoch, scBox, scOwn, scBefore, scAccum>>
      /\ UNCHANGED <<scPartial, scOut, scLate>>
  BY DEF Scans!Total, Scans!Barrier, Scans!fixed, Scans!sync
<1>2. Scans!TypeOK /\ 0 \in Scans!Tasklets
  BY ScNumbers DEF Scans!ScanInv
<1>3. Scans!InBlocks(d)
  BY <1>1, <1>2, ScWhere
<1>4. \A t \in Scans!Tasklets : Scans!DoneBefore(d, t) = ScanRounds + 1
  BY <1>1 DEF Scans!DoneBefore
<1>5. Scans!PlusAll(scOwn[d], ScanN) \in Scans!Bags
  <2>1. ScanN \in Nat /\ ScanN \in 0 .. ScanN /\ Scans!Tasklets = 0 .. ScanN - 1
    BY ScNumbers
  <2>2. \A k \in 0 .. ScanN - 1 : scOwn[d][k] \in Scans!Bags
    BY <1>2, <2>1 DEF Scans!TypeOK
  <2>3. QED
    BY <2>1, <2>2, ScSums
<1>6. Scans!TypeOK'
  <2>1. scAt' \in [Scans!Dpus -> [Scans!Tasklets -> Scans!Locations]]
    BY <1>1, <1>2 DEF Scans!TypeOK, Scans!Locations
  <2>2. scLog' \in [Scans!Dpus -> Scans!Bags]
    BY <1>1, <1>2, <1>5 DEF Scans!TypeOK
  <2>3. QED
    BY <1>1, <1>2, <2>1, <2>2 DEF Scans!TypeOK, Scans!From
<1>7. /\ \A t \in Scans!Tasklets : scAt'[d][t] = "end"
      /\ scLog'[d] = Scans!PlusAll(scOwn[d], ScanN)
      /\ \A e \in Scans!Dpus : e # d => scAt'[e] = scAt[e] /\ scLog'[e] = scLog[e]
  BY <1>1, <1>2 DEF Scans!TypeOK
<1>8. CASE scAlg = "RSS"
  <2>1. scKernel # 2
    BY <1>2, <1>3, <1>8 DEF Scans!InBlocks, Scans!Scans, Scans!TypeOK
  <2>2. \A t \in Scans!Tasklets : scOwn[d][t] = Scans!Each(Scans!OfTasklet(d, t, ScanRounds + 1))
    BY <1>3, <1>4, <1>8 DEF Scans!InBlocks
  <2>3. Scans!PlusAll(scOwn[d], ScanN) = Scans!Each(Scans!OfDpu(d))
    BY <2>2, ScTotals
  <2>7. Scans!NoneOvertaken(d)'
    BY <1>1, <1>3, <1>8 DEF Scans!InBlocks, Scans!NoneOvertaken
  <2>4. Scans!AtEnd(d)'
    BY <1>1, <1>7, <1>8, <2>1, <2>3, <2>7 DEF Scans!AtEnd
  <2>5. Scans!DpuOK(d)'
    BY <2>4 DEF Scans!DpuOK
  <2>6. QED
    BY <1>1, <1>6, <1>7, <2>5, ScStep
<1>9. CASE scAlg # "RSS"
  <2>1. scKernel # 1
    BY <1>2, <1>3, <1>9 DEF Scans!InBlocks, Scans!Scans, Scans!TypeOK
  <2>2. \A c \in Scans!OfDpu(d) : c[2] < ScanRounds + 1 /\ c[3] \in Scans!Tasklets
    BY ScNumbers DEF Scans!OfDpu, Scans!Blocks
  <2>3. Scans!OutOnAll(d)
    BY <1>3, <1>4, <1>9, <2>2 DEF Scans!InBlocks, Scans!OutOnAll
  <2>7. \A c : Scans!Extra(c)' = Scans!Extra(c)
    BY <1>1, ScExtra
  <2>4. Scans!AtEnd(d)'
    BY <1>1, <1>7, <2>1, <2>3, <2>7 DEF Scans!AtEnd, Scans!OutOnAll, Scans!Holds
  <2>5. Scans!DpuOK(d)'
    BY <2>4 DEF Scans!DpuOK
  <2>6. QED
    BY <1>1, <1>6, <1>7, <2>5, ScStep
<1>10. QED
  BY <1>8, <1>9

\* The host gives every DPU the sum of the DPUs before it.
LEMMA ScSecond ==
  ASSUME Scans!Sized, Scans!ScanInv, Scans!HostStartsSecond
  PROVE  Scans!ScanInv'
<1>1. /\ Scans!Ended /\ scKernel = 1 /\ scKernel' = 2 /\ scAt' = Scans!AtStart
      /\ scFrom' = [d \in Scans!Dpus |-> Scans!PlusAll(scLog, d)]
      /\ UNCHANGED <<scAlg, scRound, scEpoch, scBox, scOwn, scBefore, scAccum, scPartial>>
      /\ UNCHANGED <<scOut, scLog, scLate>>
  BY DEF Scans!HostStartsSecond, Scans!sync
<1>2. Scans!TypeOK /\ 0 \in Scans!Tasklets
  BY ScNumbers DEF Scans!ScanInv
<1>3. ASSUME NEW d \in Scans!Dpus
      PROVE  /\ scLog[d] = Scans!Each(Scans!OfDpu(d))
             /\ IF scAlg = "SSA" THEN Scans!OutOnDpu(d) ELSE Scans!NoneOvertaken(d)
  <2>1. Scans!AtEnd(d)
    BY <1>1, <1>2, ScWhere DEF Scans!Ended
  <2>2. QED
    BY <1>1, <2>1 DEF Scans!AtEnd
<1>4. ASSUME NEW d \in Scans!Dpus
      PROVE  Scans!PlusAll(scLog, d) = Scans!Each(Scans!OfDpusBefore(d))
  BY <1>3, ScTotals
<1>5. scFrom' = [d \in Scans!Dpus |-> Scans!Each(Scans!From(d)')]
  BY <1>1, <1>4 DEF Scans!From
<1>6. scAt' \in [Scans!Dpus -> [Scans!Tasklets -> Scans!Locations]]
  BY <1>1 DEF Scans!AtStart, Scans!Locations
<1>7. Scans!TypeOK'
  BY <1>1, <1>2, <1>5, <1>6 DEF Scans!TypeOK
<1>8. ASSUME NEW d \in Scans!Dpus PROVE Scans!Waiting(d)'
  <2>1. \A c : Scans!Extra(c)' = Scans!Extra(c)
    BY <1>1, ScExtra
  <2>2. QED
    BY <1>1, <1>3, <2>1
    DEF Scans!Waiting, Scans!AtStart, Scans!OutOnDpu, Scans!Holds, Scans!NoneOvertaken
<1>9. QED
  BY <1>7, <1>8 DEF Scans!ScanInv, Scans!DpuOK

LEMMA ScPreserves ==
  ASSUME Scans!Sized, Scans!ScanInv, [Scans!Next]_(Scans!vars)
  PROVE  Scans!ScanInv'
<1>1. ASSUME NEW d \in Scans!Dpus, Scans!Dpu(d) PROVE Scans!ScanInv'
  BY <1>1, ScStarts, ScBumps, ScMeets, ScUpdates, ScTurns, ScReduces, ScSyncs, ScAdds, ScBlocks
  DEF Scans!Dpu
<1>2. CASE UNCHANGED Scans!vars
  <2>1. UNCHANGED <<scAlg, scKernel, scAt, scRound, scEpoch, scBox, scOwn, scBefore, scAccum,
                    scPartial, scFrom, scOut, scLog, scLate>>
    BY <1>2 DEF Scans!vars
  <2>2. Scans!TypeOK'
    BY <2>1 DEF Scans!ScanInv, Scans!TypeOK, Scans!From
  <2>3. ASSUME NEW e \in Scans!Dpus PROVE Scans!DpuOK(e)'
    BY <2>1, ScFrame DEF Scans!ScanInv
  <2>4. QED
    BY <2>2, <2>3 DEF Scans!ScanInv
<1>3. QED
  BY <1>1, <1>2, ScSecond DEF Scans!Next

LEMMA ScSafe ==
  ASSUME Scans!Sized, Scans!ScanInv
  PROVE  Scans!Scanned
<1> SUFFICES ASSUME Scans!Done, NEW c \in Scans!Blocks
             PROVE  scOut[c] = [b \in Scans!Blocks |->
                                  (IF Scans!Before(b, c) THEN 1 ELSE 0)
                                + (IF c \in scLate /\ Scans!InRoundOf(b, c) THEN 1 ELSE 0)]
  BY DEF Scans!Scanned
<1>1. c[1] \in Scans!Dpus /\ c \in Scans!OfDpu(c[1]) /\ 0 \in Scans!Tasklets
  BY ScNumbers DEF Scans!Blocks, Scans!OfDpu
<1>2. Scans!AtEnd(c[1])
  BY <1>1, ScWhere DEF Scans!Done, Scans!Ended
<1>3. scOut[c] = Scans!Plus(Scans!Each(Scans!BeforeOnAll(c)), Scans!Extra(c))
  BY <1>1, <1>2 DEF Scans!AtEnd, Scans!Done, Scans!OutOnAll, Scans!Holds
<1>4. ASSUME NEW b \in Scans!Blocks
      PROVE  /\ Scans!Each(Scans!BeforeOnAll(c))[b] = IF Scans!Before(b, c) THEN 1 ELSE 0
             /\ Scans!Extra(c)[b] = IF c \in scLate /\ Scans!InRoundOf(b, c) THEN 1 ELSE 0
  <2>1. b \in Scans!BeforeOnAll(c) <=> Scans!Before(b, c)
    BY DEF Scans!BeforeOnAll, Scans!OfDpusBefore, Scans!BeforeOnDpu, Scans!OfRoundsBefore,
      Scans!InRoundBefore, Scans!OfDpu, Scans!Before
  <2>2. QED
    BY <2>1 DEF Scans!Each, Scans!Extra
<1>5. QED
  BY <1>3, <1>4 DEF Scans!Plus

-----------------------------------------------------------------------------
(* UNI: the blocks without their repeated neighbours make up the input      *)
(* without its own.                                                         *)

unAt == m1
unRound == m2
unInput == m3
unEpoch == m4
unBox == m5
unCache == m6
unPo == m7
unPartial == m8
unLast == m9
unOutput == m10
unTotal == m11
unLate == m12
USE DEF unAt, unRound, unInput, unEpoch, unBox, unCache, unPo, unPartial, unLast, unOutput, unTotal,
  unLate

UnBlocks == UniN * UniRounds

LEMMA UnNumbers ==
  ASSUME Uni!Sized
  PROVE  /\ UniN \in Nat \ {0} /\ UniRounds \in Nat \ {0} /\ UnBlocks \in Nat \ {0}
         /\ Uni!Tasklets = 0 .. UniN - 1 /\ Uni!LastTasklet = UniN - 1
         /\ 0 \in Uni!Tasklets /\ Uni!LastTasklet \in Uni!Tasklets
<1>1. UniN \in Nat \ {0} /\ UniRounds \in Nat \ {0}
  BY DEF Uni!Sized
<1>2. UniRounds = 1 + (UniRounds - 1) /\ UniRounds - 1 \in Nat
  BY <1>1
<1>3. UniN * UniRounds = UniN + UniN * (UniRounds - 1)
  BY <1>1, <1>2
<1>4. UniN * (UniRounds - 1) \in Nat
  BY <1>1, <1>2
<1>5. QED
  BY <1>1, <1>3, <1>4 DEF Uni!Tasklets, Uni!LastTasklet, UnBlocks

\* A sequence made step by step has a value after every number of steps.
LEMMA StepByStep ==
  ASSUME NEW h \in [Nat -> [Seq(Nat) -> Seq(Nat)]]
  PROVE  \E w \in [Nat -> Seq(Nat)] : w[0] = <<>> /\ \A k \in Nat : w[k + 1] = h[k][w[k]]
<1> DEFINE X == Seq(Nat)
           x0 == <<>>
<1>0. x0 \in X /\ h \in [Nat -> [X -> X]]
  OBVIOUS
<1> HIDE DEF X, x0
<1> DEFINE Upto(l, f) == f[0] = x0 /\ \A k \in Nat : k < l => f[k + 1] = h[k][f[k]]
           T == {l \in Nat : \E f \in [Nat -> X] : Upto(l, f)}
           F == [l \in Nat |-> CHOOSE f \in [Nat -> X] : Upto(l, f)]
           w == [k \in Nat |-> F[k][k]]
<1>1. 0 \in T
  <2>1. [k \in Nat |-> x0] \in [Nat -> X] /\ Upto(0, [k \in Nat |-> x0])
    BY <1>0
  <2>2. QED
    BY <2>1
<1>2. ASSUME NEW l \in Nat, l \in T PROVE l + 1 \in T
  <2>1. PICK f \in [Nat -> X] : Upto(l, f)
    BY <1>2
  <2> DEFINE g == [f EXCEPT ![l + 1] = h[l][f[l]]]
  <2>2. g \in [Nat -> X] /\ (\A k \in Nat : k <= l => g[k] = f[k]) /\ g[l + 1] = h[l][f[l]]
    <3>1. h[l][f[l]] \in X
      BY <1>0
    <3>2. QED
      BY <3>1
  <2> HIDE DEF g
  <2>3. g[0] = x0
    BY <2>1, <2>2
  <2>4. ASSUME NEW k \in Nat, k < l + 1 PROVE g[k + 1] = h[k][g[k]]
    <3>1. CASE k = l
      BY <2>2, <3>1
    <3>2. CASE k < l
      <4>1. g[k + 1] = f[k + 1] /\ g[k] = f[k]
        BY <2>2, <3>2
      <4>2. f[k + 1] = h[k][f[k]]
        BY <2>1, <3>2
      <4>3. QED
        BY <4>1, <4>2
    <3>3. QED
      BY <2>4, <3>1, <3>2
  <2>5. Upto(l + 1, g)
    BY <2>3, <2>4
  <2>6. QED
    <3> HIDE DEF Upto
    <3>1. l + 1 \in Nat /\ g \in [Nat -> X]
      BY <2>2
    <3>2. QED
      BY <2>5, <3>1
<1>3. \A l \in Nat : F[l] \in [Nat -> X] /\ Upto(l, F[l])
  <2>1. Nat \subseteq T
    <3> HIDE DEF T
    <3>1. QED
      BY <1>1, <1>2, Induction
  <2> HIDE DEF Upto
  <2>2. QED
    BY <2>1
<1> HIDE DEF F
<1>4. ASSUME NEW l \in Nat, NEW k \in Nat, k <= l PROVE F[l][k] = F[k][k]
  <2> DEFINE K == {j \in Nat : j <= k => F[l][j] = F[k][j]}
  <2>1. 0 \in K
    BY <1>3
  <2>2. ASSUME NEW j \in Nat, j \in K PROVE j + 1 \in K
    <3> SUFFICES ASSUME j + 1 <= k PROVE F[l][j + 1] = F[k][j + 1]
      OBVIOUS
    <3>1. F[l][j] = F[k][j]
      BY <2>2
    <3>2. F[l][j + 1] = h[j][F[l][j]]
      <4>1. j < l /\ Upto(l, F[l])
        BY <1>3, <1>4
      <4>2. QED
        BY <4>1
    <3>3. F[k][j + 1] = h[j][F[k][j]]
      BY <1>3
    <3>4. QED
      BY <3>1, <3>2, <3>3
  <2>3. Nat \subseteq K
    <3> HIDE DEF K
    <3>1. QED
      BY <2>1, <2>2, Induction
  <2>4. QED
    BY <2>3
<1>5. w \in [Nat -> X] /\ w[0] = x0
  BY <1>3
<1>6. ASSUME NEW k \in Nat PROVE w[k + 1] = h[k][w[k]]
  <2> DEFINE l == k + 1
  <2>1. l \in Nat /\ k < l /\ k <= l
    OBVIOUS
  <2>2. F[l][k] = F[k][k] /\ F[l][k + 1] = h[k][F[l][k]]
    <3> HIDE DEF l
    <3>1. QED
      BY <1>3, <1>4, <2>1
  <2>3. QED
    BY <2>2
<1> HIDE DEF w
<1>7. QED
  BY <1>5, <1>6 DEF X, x0

\* A sequence with one more element.
UnThen(s, x) == Append(s, x)

LEMMA UnThenIs ==
  ASSUME NEW s \in Seq(Nat), NEW x \in Nat
  PROVE  /\ UnThen(s, x) \in Seq(Nat) /\ UnThen(s, x) # <<>>
         /\ Len(UnThen(s, x)) = Len(s) + 1 /\ UnThen(s, x)[Len(s) + 1] = x
         /\ \A k \in 1 .. Len(s) : UnThen(s, x)[k] = s[k]
BY DEF UnThen

\* unique(), element by element.
LEMMA UnKept ==
  ASSUME NEW s \in Seq(Nat)
  PROVE  /\ Uni!UniqueTo(s, 0) = <<>>
         /\ \A k \in 0 .. Len(s) - 1 :
              Uni!UniqueTo(s, k + 1) =
                IF k > 0 /\ s[k] = s[k + 1] THEN Uni!UniqueTo(s, k)
                ELSE UnThen(Uni!UniqueTo(s, k), s[k + 1])
         /\ \A k \in 0 .. Len(s) : Uni!UniqueTo(s, k) \in Seq(Nat)
<1> DEFINE h == [k \in Nat |-> [x \in Seq(Nat) |->
                  IF k > 0 /\ s[k] = s[k + 1] THEN x
                  ELSE IF k < Len(s) THEN UnThen(x, s[k + 1]) ELSE x]]
<1>1. h \in [Nat -> [Seq(Nat) -> Seq(Nat)]]
  <2>1. ASSUME NEW k \in Nat, NEW x \in Seq(Nat), k < Len(s) PROVE UnThen(x, s[k + 1]) \in Seq(Nat)
    <3>1. k + 1 \in 1 .. Len(s)
      BY <2>1
    <3>2. s[k + 1] \in Nat
      BY <3>1
    <3>3. QED
      BY <3>2, UnThenIs
  <2>2. QED
    BY <2>1
<1>2. PICK v \in [Nat -> Seq(Nat)] : v[0] = <<>> /\ \A k \in Nat : v[k + 1] = h[k][v[k]]
  <2> HIDE DEF h
  <2>1. QED
    BY <1>1, StepByStep
<1>3. ASSUME NEW k \in Nat, k < Len(s)
      PROVE  v[k + 1] = IF k > 0 /\ s[k] = s[k + 1] THEN v[k] ELSE UnThen(v[k], s[k + 1])
  <2>1. v[k + 1] = h[k][v[k]] /\ v[k] \in Seq(Nat)
    BY <1>2
  <2>2. QED
    BY <1>3, <2>1
<1> HIDE DEF h
<1>4. ASSUME NEW n \in 0 .. Len(s) PROVE Uni!UniqueTo(s, n) = v[n]
  <2> DEFINE Q(k, x) == IF k > 1 /\ s[k - 1] = s[k] THEN x ELSE UnThen(x, s[k])
             F(z) == [k \in 0 .. n |-> IF k = 0 THEN <<>> ELSE Q(k, z[k - 1])]
             X == [k \in 0 .. n |-> v[k]]
             z == CHOOSE z : z = F(z)
             T == {k \in Nat : k <= n => z[k] = v[k]}
  <2>1. X = F(X)
    <3> SUFFICES ASSUME NEW k \in 0 .. n PROVE X[k] = IF k = 0 THEN <<>> ELSE Q(k, X[k - 1])
      OBVIOUS
    <3>1. CASE k = 0
      BY <1>2, <3>1
    <3>2. CASE k # 0
      <4>1. k - 1 \in Nat /\ k - 1 < Len(s) /\ k - 1 \in 0 .. n /\ k - 1 + 1 = k /\ (k - 1 > 0 <=> k > 1)
        BY <3>2
      <4>2. v[k] = Q(k, v[k - 1])
        BY <1>3, <4>1
      <4> HIDE DEF Q
      <4>3. QED
        BY <3>2, <4>1, <4>2
    <3>3. QED
      BY <3>1, <3>2
  <2>2. z = F(z)
    <3> HIDE DEF F, X
    <3>1. \E x : x = F(x)
      BY <2>1
    <3>2. QED
      BY <3>1
  <2>3. Uni!UniqueTo(s, n) = z[n]
    BY DEF Uni!UniqueTo, UnThen
  <2>4. n \in T
    <3> HIDE DEF z
    <3>1. 0 \in T
      BY <1>2, <2>2
    <3>2. ASSUME NEW k \in Nat, k \in T PROVE k + 1 \in T
      <4> SUFFICES ASSUME k + 1 <= n PROVE z[k + 1] = v[k + 1]
        OBVIOUS
      <4>1. k + 1 \in 0 .. n /\ k + 1 # 0 /\ k + 1 - 1 = k /\ k < Len(s) /\ (k > 0 <=> k + 1 > 1) /\ k <= n
        OBVIOUS
      <4>2. z[k + 1] = Q(k + 1, z[k])
        <5> HIDE DEF Q
        <5>1. \A l \in 0 .. n : z[l] = IF l = 0 THEN <<>> ELSE Q(l, z[l - 1])
          BY <2>2
        <5>2. z[k + 1] = Q(k + 1, z[k + 1 - 1])
          BY <4>1, <5>1
        <5>3. QED
          BY ONLY <4>1, <5>2
      <4>3. z[k] = v[k]
        BY <3>2, <4>1
      <4>4. QED
        BY <1>3, <4>1, <4>2, <4>3
    <3>3. Nat \subseteq T
      <4> HIDE DEF T
      <4>1. QED
        BY <3>1, <3>2, Induction
    <3>4. QED
      BY <3>3
  <2>5. QED
    <3> HIDE DEF z
    <3>1. QED
      BY <2>3, <2>4
<1>5. ASSUME NEW k \in 0 .. Len(s) - 1
      PROVE  Uni!UniqueTo(s, k + 1) =
                IF k > 0 /\ s[k] = s[k + 1] THEN Uni!UniqueTo(s, k)
                ELSE UnThen(Uni!UniqueTo(s, k), s[k + 1])
  <2>1. k \in 0 .. Len(s) /\ k + 1 \in 0 .. Len(s) /\ k \in Nat /\ k < Len(s)
    OBVIOUS
  <2>2. QED
    BY <1>3, <1>4, <2>1
<1>6. Uni!UniqueTo(s, 0) = <<>>
  <2>1. 0 \in 0 .. Len(s) /\ v[0] = <<>>
    BY <1>2
  <2>2. QED
    BY ONLY <1>4, <2>1
<1>7. \A k \in 0 .. Len(s) : Uni!UniqueTo(s, k) \in Seq(Nat)
  BY <1>4
<1>8. QED
  BY <1>5, <1>6, <1>7

\* The last element kept is the last one looked at; the first one is kept.
LEMMA UnEnds ==
  ASSUME NEW s \in Seq(Nat), NEW n \in 1 .. Len(s)
  PROVE  /\ Uni!UniqueTo(s, n) # <<>>
         /\ Uni!LastOf(Uni!UniqueTo(s, n)) = s[n]
         /\ Uni!UniqueTo(s, n)[1] = s[1]
<1> DEFINE u == [k \in 0 .. Len(s) |-> Uni!UniqueTo(s, k)]
           T == {k \in Nat : k \in 1 .. Len(s) =>
                   u[k] # <<>> /\ u[k][Len(u[k])] = s[k] /\ u[k][1] = s[1]}
<1>1. /\ u[0] = <<>>
      /\ \A k \in 0 .. Len(s) - 1 :
           u[k + 1] = IF k > 0 /\ s[k] = s[k + 1] THEN u[k] ELSE UnThen(u[k], s[k + 1])
      /\ \A k \in 0 .. Len(s) : u[k] \in Seq(Nat)
  BY UnKept
<1> HIDE DEF u
<1>2. 0 \in T
  OBVIOUS
<1>3. ASSUME NEW k \in Nat, k \in T PROVE k + 1 \in T
  <2> SUFFICES ASSUME k + 1 \in 1 .. Len(s)
               PROVE  u[k + 1] # <<>> /\ u[k + 1][Len(u[k + 1])] = s[k + 1] /\ u[k + 1][1] = s[1]
    OBVIOUS
  <2>1. k \in 0 .. Len(s) - 1 /\ k \in 0 .. Len(s) /\ s[k + 1] \in Nat
    OBVIOUS
  <2>2. u[k] \in Seq(Nat)
    BY <1>1, <2>1
  <2>3. CASE k = 0
    <3>1. u[k + 1] = UnThen(u[k], s[k + 1])
      BY <1>1, <2>1, <2>3
    <3>2. Len(u[k]) = 0
      BY <1>1, <2>3
    <3> DEFINE x == s[k + 1]
               y == u[k]
    <3>3. y \in Seq(Nat) /\ x \in Nat /\ u[k + 1] = UnThen(y, x) /\ Len(y) = 0
      BY <2>1, <2>2, <3>1, <3>2
    <3> HIDE DEF x, y
    <3>4. Len(UnThen(y, x)) = Len(y) + 1 /\ UnThen(y, x)[Len(y) + 1] = x /\ UnThen(y, x) # <<>>
      BY <3>3, UnThenIs
    <3>5. Len(u[k + 1]) = 1 /\ u[k + 1][1] = x /\ u[k + 1] # <<>>
      BY <3>3, <3>4
    <3>6. QED
      BY <2>3, <3>5 DEF x
  <2>4. CASE k > 0 /\ s[k] = s[k + 1]
    <3>1. u[k + 1] = u[k] /\ k \in 1 .. Len(s)
      BY <1>1, <2>1, <2>4
    <3>2. QED
      BY <1>3, <2>4, <3>1 DEF Uni!LastOf
  <2>5. CASE k > 0 /\ s[k] # s[k + 1]
    <3>0. k \in 1 .. Len(s)
      BY <2>1, <2>5
    <3>1. u[k + 1] = UnThen(u[k], s[k + 1])
      BY <1>1, <2>1, <2>5
    <3>2. u[k] # <<>> /\ u[k][1] = s[1]
      BY <1>3, <3>0
    <3>3. Len(u[k]) \in Nat \ {0}
      BY <2>2, <3>2
    <3>4. 1 \in 1 .. Len(u[k])
      BY <3>3
    <3> DEFINE x == s[k + 1]
               y == u[k]
    <3>5. y \in Seq(Nat) /\ x \in Nat /\ u[k + 1] = UnThen(y, x) /\ y[1] = s[1] /\ 1 \in 1 .. Len(y)
      BY <2>1, <2>2, <3>1, <3>2, <3>4
    <3> HIDE DEF x, y
    <3>6. /\ Len(UnThen(y, x)) = Len(y) + 1 /\ UnThen(y, x)[Len(y) + 1] = x
          /\ UnThen(y, x) # <<>> /\ \A q \in 1 .. Len(y) : UnThen(y, x)[q] = y[q]
      BY <3>5, UnThenIs
    <3>7. QED
      BY <3>5, <3>6 DEF x
  <2>6. QED
    BY <2>3, <2>4, <2>5
<1>4. Nat \subseteq T
  <2> HIDE DEF T
  <2>1. QED
    BY <1>2, <1>3, Induction
<1>5. n \in T
  BY <1>4
<1>6. QED
  BY <1>5 DEF u, Uni!LastOf

\* Only the elements looked at matter.
LEMMA UnPrefix ==
  ASSUME NEW a \in Seq(Nat), NEW b \in Seq(Nat)
  PROVE  Uni!UniqueTo(a \o b, Len(a)) = Uni!Unique(a)
<1> DEFINE c == a \o b
           T == {k \in Nat : k <= Len(a) => Uni!UniqueTo(c, k) = Uni!UniqueTo(a, k)}
<1>1. c \in Seq(Nat) /\ Len(c) = Len(a) + Len(b) /\ \A k \in 1 .. Len(a) : c[k] = a[k]
  OBVIOUS
<1> HIDE DEF c
<1>2. 0 \in T
  BY <1>1, UnKept
<1>3. ASSUME NEW k \in Nat, k \in T PROVE k + 1 \in T
  <2> SUFFICES ASSUME k + 1 <= Len(a) PROVE Uni!UniqueTo(c, k + 1) = Uni!UniqueTo(a, k + 1)
    OBVIOUS
  <2>0. Len(a) \in Nat /\ Len(b) \in Nat
    OBVIOUS
  <2>1. k \in 0 .. Len(a) - 1 /\ k \in 0 .. Len(c) - 1 /\ c[k + 1] = a[k + 1] /\ (k > 0 => c[k] = a[k])
    <3>1. k + 1 \in 1 .. Len(a) /\ k \in 0 .. Len(a) - 1 /\ (k > 0 => k \in 1 .. Len(a))
      BY <2>0
    <3>2. k \in 0 .. Len(c) - 1
      BY <1>1, <2>0
    <3>3. QED
      BY <1>1, <3>1, <3>2
  <2>2. Uni!UniqueTo(c, k) = Uni!UniqueTo(a, k)
    BY <1>3
  <2>3. Uni!UniqueTo(c, k + 1) = IF k > 0 /\ c[k] = c[k + 1] THEN Uni!UniqueTo(c, k)
                                 ELSE UnThen(Uni!UniqueTo(c, k), c[k + 1])
    BY <1>1, <2>1, UnKept
  <2>4. Uni!UniqueTo(a, k + 1) = IF k > 0 /\ a[k] = a[k + 1] THEN Uni!UniqueTo(a, k)
                                 ELSE UnThen(Uni!UniqueTo(a, k), a[k + 1])
    BY <2>1, UnKept
  <2>5. QED
    BY <2>1, <2>2, <2>3, <2>4
<1>4. Nat \subseteq T
  <2> HIDE DEF T
  <2>1. QED
    BY <1>2, <1>3, Induction
<1>5. QED
  BY <1>4 DEF c, Uni!Unique

\* What a block adds to what is kept of the elements before it: all that is
\* kept of its own, but the first if that is the last one before it.
LEMMA UnPlus ==
  ASSUME NEW a \in Seq(Nat), NEW b \in Seq(Nat), b # <<>>, NEW m \in {0, 1},
         m = 1 <=> Len(a) > 0 /\ Uni!LastOf(a) = b[1]
  PROVE  /\ Uni!Unique(a) \in Seq(Nat) /\ Uni!Unique(b) \in Seq(Nat) /\ Uni!Unique(a \o b) \in Seq(Nat)
         /\ Len(Uni!Unique(b)) >= 1
         /\ Len(Uni!Unique(a \o b)) = Len(Uni!Unique(a)) + Len(Uni!Unique(b)) - m
         /\ \A o \in 1 .. Len(Uni!Unique(a)) : Uni!Unique(a \o b)[o] = Uni!Unique(a)[o]
         /\ \A o \in 1 .. Len(Uni!Unique(b)) - m :
              Uni!Unique(a \o b)[Len(Uni!Unique(a)) + o] = Uni!Unique(b)[o + m]
<1> DEFINE c == a \o b
           ka == Uni!Unique(a)
           V == [k \in 0 .. Len(b) |-> Uni!UniqueTo(b, k)]
           Z == [k \in 0 .. Len(b) |-> Uni!UniqueTo(c, Len(a) + k)]
           After(k) == /\ Len(Z[k]) = Len(ka) + Len(V[k]) - m
                       /\ \A o \in 1 .. Len(ka) : Z[k][o] = ka[o]
                       /\ \A o \in 1 .. Len(V[k]) - m : Z[k][Len(ka) + o] = V[k][o + m]
           T == {k \in Nat : k + 1 <= Len(b) => After(k + 1)}
<1>1. c \in Seq(Nat) /\ Len(c) = Len(a) + Len(b) /\ \A k \in 1 .. Len(b) : c[Len(a) + k] = b[k] /\ b[k] \in Nat
  OBVIOUS
<1>2. Len(a) \in Nat /\ Len(b) \in Nat \ {0} /\ m \in {0, 1}
  OBVIOUS
<1>3. Len(a) > 0 => c[Len(a)] = Uni!LastOf(a)
  BY DEF Uni!LastOf
<1>4. Z[0] = ka
  <2>1. Len(a) + 0 = Len(a) /\ 0 \in 0 .. Len(b)
    BY <1>2
  <2>2. QED
    BY <2>1, UnPrefix
<1> HIDE DEF c
<1>5. /\ ka \in Seq(Nat) /\ ka = Uni!UniqueTo(a, Len(a))
      /\ \A k \in 0 .. Len(b) : Z[k] \in Seq(Nat) /\ V[k] \in Seq(Nat)
  <2>1. Len(a) \in 0 .. Len(a) /\ \A k \in 0 .. Len(b) : Len(a) + k \in 0 .. Len(c)
    BY <1>1, <1>2
  <2>2. ka = Uni!UniqueTo(a, Len(a)) /\ ka \in Seq(Nat)
    BY <2>1, UnKept DEF Uni!Unique
  <2>3. \A k \in 0 .. Len(b) : V[k] \in Seq(Nat)
    BY UnKept
  <2>4. \A k \in 0 .. Len(c) : Uni!UniqueTo(c, k) \in Seq(Nat)
    BY <1>1, UnKept
  <2>5. \A k \in 0 .. Len(b) : Z[k] \in Seq(Nat)
    BY <2>1, <2>4
  <2>6. QED
    BY <2>2, <2>3, <2>5
<1>6. \A k \in 0 .. Len(b) - 1 :
        /\ Z[k + 1] = IF Len(a) + k > 0 /\ c[Len(a) + k] = b[k + 1] THEN Z[k] ELSE UnThen(Z[k], b[k + 1])
        /\ V[k + 1] = IF k > 0 /\ b[k] = b[k + 1] THEN V[k] ELSE UnThen(V[k], b[k + 1])
  <2> TAKE k \in 0 .. Len(b) - 1
  <2>1. Len(a) + k \in 0 .. Len(c) - 1 /\ k + 1 \in 1 .. Len(b) /\ Len(a) + (k + 1) = (Len(a) + k) + 1
    <3>1. k \in 0 .. Len(b) - 1 /\ Len(c) = Len(a) + Len(b)
      BY <1>1
    <3>2. QED
      BY ONLY <1>2, <3>1
  <2>2. c[(Len(a) + k) + 1] = b[k + 1]
    BY <1>1, <2>1
  <2>3. V[k + 1] = IF k > 0 /\ b[k] = b[k + 1] THEN V[k] ELSE UnThen(V[k], b[k + 1])
    <3>1. k \in 0 .. Len(b) /\ k + 1 \in 0 .. Len(b)
      BY <1>2
    <3>2. QED
      BY <3>1, UnKept
  <2>4. Z[k + 1] = Uni!UniqueTo(c, (Len(a) + k) + 1) /\ Z[k] = Uni!UniqueTo(c, Len(a) + k)
    BY <1>2, <2>1
  <2> HIDE DEF V, Z
  <2>5. Z[k + 1] = IF Len(a) + k > 0 /\ c[Len(a) + k] = b[k + 1] THEN Z[k] ELSE UnThen(Z[k], b[k + 1])
    <3> DEFINE q == Len(a) + k
    <3>1. q \in 0 .. Len(c) - 1 /\ c[q + 1] = b[k + 1] /\ Z[k + 1] = Uni!UniqueTo(c, q + 1) /\ Z[k] = Uni!UniqueTo(c, q)
      BY <2>1, <2>2, <2>4
    <3> HIDE DEF q
    <3>2. Z[k + 1] = IF q > 0 /\ c[q] = b[k + 1] THEN Z[k] ELSE UnThen(Z[k], b[k + 1])
      BY <1>1, <3>1, UnKept
    <3>3. QED
      BY <3>2 DEF q
  <2>6. QED
    BY <2>3, <2>5
<1>7. V[0] = <<>>
  BY UnKept
<1> HIDE DEF ka, V, Z
<1>8. 0 \in T
  <2> SUFFICES After(0 + 1)
    OBVIOUS
  <2>0. 0 \in 0 .. Len(b) - 1 /\ 0 + 1 = 1 /\ 1 \in 1 .. Len(b) /\ <<>> \in Seq(Nat) /\ Len(<<>>) = 0
    BY <1>2
  <2>1. V[0 + 1] = UnThen(V[0], b[0 + 1])
    BY <1>6, <2>0
  <2>2. Len(V[0 + 1]) = 1 /\ V[0 + 1][1] = b[1] /\ b[1] \in Nat
    <3>1. V[0 + 1] = UnThen(<<>>, b[1]) /\ b[1] \in Nat
      BY <1>1, <1>7, <2>0, <2>1
    <3> DEFINE x == b[1]
               y == <<>>
    <3>2. x \in Nat /\ y \in Seq(Nat) /\ Len(y) = 0 /\ V[0 + 1] = UnThen(y, x)
      BY <2>0, <3>1
    <3> HIDE DEF x, y
    <3>3. Len(UnThen(y, x)) = Len(y) + 1 /\ UnThen(y, x)[Len(y) + 1] = x
      BY <3>2, UnThenIs
    <3>4. Len(V[0 + 1]) = 1 /\ V[0 + 1][1] = x
      BY <3>2, <3>3
    <3>5. QED
      BY <3>2, <3>4 DEF x
  <2>3. Z[0 + 1] = IF m = 1 THEN ka ELSE UnThen(ka, b[1])
    <3>1. Len(a) + 0 = Len(a)
      BY <1>2
    <3>2. (Len(a) > 0 /\ c[Len(a)] = b[1]) <=> m = 1
      BY <1>2, <1>3
    <3>3. 0 \in 0 .. Len(b) - 1 /\ 0 + 1 = 1
      BY <1>2
    <3>4. QED
      BY <1>4, <1>6, <3>1, <3>2, <3>3
  <2>4. CASE m = 1
    <3>1. Z[0 + 1] = ka /\ Len(ka) \in Nat
      BY <1>5, <2>3, <2>4
    <3>2. QED
      BY <2>2, <2>4, <3>1
  <2>5. CASE m = 0
    <3>1. Z[0 + 1] = UnThen(ka, b[1])
      BY <2>3, <2>5
    <3>2. Len(UnThen(ka, b[1])) = Len(ka) + 1 /\ UnThen(ka, b[1])[Len(ka) + 1] = b[1]
          /\ \A o \in 1 .. Len(ka) : UnThen(ka, b[1])[o] = ka[o]
      BY <1>5, <2>2, UnThenIs
    <3>3. Len(ka) \in Nat
      BY <1>5
    <3>4. /\ Len(Z[0 + 1]) = Len(ka) + Len(V[0 + 1]) - m
          /\ \A o \in 1 .. Len(ka) : Z[0 + 1][o] = ka[o]
      BY <2>2, <2>5, <3>1, <3>2, <3>3
    <3>5. ASSUME NEW o \in 1 .. Len(V[0 + 1]) - m PROVE Z[0 + 1][Len(ka) + o] = V[0 + 1][o + m]
      <4>1. o = 1 /\ o + m = 1
        BY <2>2, <2>5
      <4>2. QED
        BY <2>2, <3>1, <3>2, <4>1
    <3>6. QED
      BY <3>4, <3>5
  <2>6. QED
    BY <1>2, <2>4, <2>5
<1>9. ASSUME NEW k \in Nat, k \in T PROVE (k + 1) \in T
  <2> DEFINE j == k + 1
  <2> SUFFICES ASSUME j + 1 <= Len(b) PROVE After(j + 1)
    BY <1>9
  <2>0. j \in 1 .. Len(b) /\ j \in 0 .. Len(b) /\ j \in 0 .. Len(b) - 1 /\ j + 1 \in 1 .. Len(b) /\ j > 0
    BY <1>2
  <2>1. After(j) /\ j \in 1 .. Len(b) /\ j \in 0 .. Len(b) /\ j \in 0 .. Len(b) - 1 /\ j + 1 \in 1 .. Len(b) /\ j > 0
    <3>1. k + 1 <= Len(b)
      BY <1>2, <2>0
    <3> HIDE DEF After
    <3>2. After(k + 1)
      BY <1>9, <3>1
    <3>3. QED
      BY <2>0, <3>2
  <2> HIDE DEF j
  <2>2. c[Len(a) + j] = b[j] /\ Len(a) + j > 0 /\ b[j + 1] \in Nat
    BY <1>1, <1>2, <2>1
  <2>3. Z[j] \in Seq(Nat) /\ V[j] \in Seq(Nat)
    BY <1>5, <2>1
  <2>4. Z[j + 1] = IF b[j] = b[j + 1] THEN Z[j] ELSE UnThen(Z[j], b[j + 1])
    BY <1>6, <2>1, <2>2
  <2>5. V[j + 1] = IF b[j] = b[j + 1] THEN V[j] ELSE UnThen(V[j], b[j + 1])
    BY <1>6, <2>1
  <2>6. CASE b[j] = b[j + 1]
    BY <2>1, <2>4, <2>5, <2>6
  <2>7. CASE b[j] # b[j + 1]
    <3> DEFINE x == b[j + 1]
               y == Z[j]
               v == V[j]
    <3>1. y \in Seq(Nat) /\ v \in Seq(Nat) /\ x \in Nat /\ ka \in Seq(Nat)
          /\ Len(y) = Len(ka) + Len(v) - m
          /\ (\A o \in 1 .. Len(ka) : y[o] = ka[o])
          /\ \A o \in 1 .. Len(v) - m : y[Len(ka) + o] = v[o + m]
      BY <1>5, <2>1, <2>2, <2>3
    <3>2. Z[j + 1] = UnThen(y, x) /\ V[j + 1] = UnThen(v, x)
      BY <2>4, <2>5, <2>7
    <3> HIDE DEF x, y, v
    <3>a. /\ Len(UnThen(y, x)) = Len(y) + 1 /\ UnThen(y, x)[Len(y) + 1] = x
          /\ \A o \in 1 .. Len(y) : UnThen(y, x)[o] = y[o]
      BY <3>1, UnThenIs
    <3>b. /\ Len(UnThen(v, x)) = Len(v) + 1 /\ UnThen(v, x)[Len(v) + 1] = x
          /\ \A o \in 1 .. Len(v) : UnThen(v, x)[o] = v[o]
      BY <3>1, UnThenIs
    <3>c. Len(v) \in Nat /\ Len(y) \in Nat /\ Len(ka) \in Nat
      BY <3>1
    <3>3. /\ Len(UnThen(y, x)) = Len(y) + 1 /\ UnThen(y, x)[Len(y) + 1] = x
          /\ \A o \in 1 .. Len(y) : UnThen(y, x)[o] = y[o]
          /\ Len(UnThen(v, x)) = Len(v) + 1 /\ UnThen(v, x)[Len(v) + 1] = x
          /\ \A o \in 1 .. Len(v) : UnThen(v, x)[o] = v[o]
          /\ Len(v) \in Nat /\ Len(y) \in Nat /\ Len(ka) \in Nat
      BY <3>a, <3>b, <3>c
    <3>4. Len(v) >= m
      <4>1. V[j] # <<>>
        BY <2>1, UnEnds DEF V
      <4>2. QED
        BY <1>2, <2>3, <4>1 DEF v
    <3>5. \A o \in 1 .. Len(ka) : UnThen(y, x)[o] = ka[o]
      BY <3>1, <3>3, <3>4
    <3>6. ASSUME NEW o \in 1 .. Len(v) + 1 - m PROVE UnThen(y, x)[Len(ka) + o] = UnThen(v, x)[o + m]
      <4>1. CASE o = Len(v) + 1 - m
        <5>1. Len(ka) + o = Len(y) + 1 /\ o + m = Len(v) + 1
          BY <1>2, <3>1, <3>3, <4>1
        <5>2. QED
          BY <3>3, <5>1
      <4>2. CASE o <= Len(v) - m
        <5>1. Len(ka) + o \in 1 .. Len(y) /\ o + m \in 1 .. Len(v) /\ o \in 1 .. Len(v) - m
          <6>1. Len(y) = Len(ka) + Len(v) - m /\ Len(v) \in Nat /\ Len(ka) \in Nat /\ m \in {0, 1}
            BY <1>2, <3>1, <3>c
          <6>2. QED
            BY <4>2, <6>1
        <5>2. QED
          BY <3>1, <3>3, <5>1
      <4>3. QED
        BY <1>2, <3>3, <4>1, <4>2
    <3>7. /\ Len(Z[j + 1]) = Len(ka) + Len(V[j + 1]) - m
          /\ \A o \in 1 .. Len(ka) : Z[j + 1][o] = ka[o]
      BY <1>2, <3>1, <3>2, <3>3, <3>5
    <3>8. \A o \in 1 .. Len(V[j + 1]) - m : Z[j + 1][Len(ka) + o] = V[j + 1][o + m]
      BY <3>2, <3>3, <3>6
    <3>9. QED
      BY <3>7, <3>8
  <2>8. QED
    BY <2>6, <2>7
<1>10. Nat \subseteq T
  <2> HIDE DEF T
  <2>1. QED
    BY <1>8, <1>9, Induction
<1>11. After(Len(b))
  <2>1. Len(b) - 1 \in Nat /\ Len(b) - 1 + 1 = Len(b)
    BY <1>2
  <2>2. QED
    <3>1. Len(b) - 1 \in T
      BY <1>10, <2>1
    <3> HIDE DEF After
    <3>2. After(Len(b) - 1 + 1)
      BY <2>1, <3>1
    <3>3. QED
      BY <2>1, <3>2
<1>12. Z[Len(b)] = Uni!Unique(a \o b) /\ V[Len(b)] = Uni!Unique(b)
  <2>1. Len(a) + Len(b) = Len(a \o b)
    OBVIOUS
  <2>2. QED
    BY <2>1 DEF c, V, Z, Uni!Unique
<1>13. Len(Uni!Unique(b)) >= 1
  <2>1. Len(b) \in 1 .. Len(b) /\ Len(b) \in 0 .. Len(b)
    BY <1>2
  <2>2. V[Len(b)] \in Seq(Nat) /\ V[Len(b)] # <<>>
    BY <1>5, <2>1, UnEnds DEF V
  <2>3. QED
    BY <1>12, <2>2
<1>14. Uni!Unique(a \o b) \in Seq(Nat) /\ Uni!Unique(b) \in Seq(Nat)
  <2>1. Len(b) \in 0 .. Len(b)
    BY <1>2
  <2>2. QED
    BY <1>5, <1>12, <2>1
<1>15. QED
  BY <1>5, <1>11, <1>12, <1>13, <1>14 DEF ka

\* The blocks one after another.
UnWith(s, b) == s \o b

UnInputs == unInput \in [1 .. UniN * UniRounds -> UniContents]

LEMMA UnBlock ==
  ASSUME Uni!Sized, UnInputs, NEW k \in 1 .. UnBlocks
  PROVE  /\ unInput[k] \in Seq(Nat) /\ Len(unInput[k]) \in Nat \ {0} /\ unInput[k] # <<>>
         /\ unInput[k][1] \in Nat /\ unInput[k][1] # UniSentinel
         /\ Uni!LastOf(unInput[k]) \in Nat
<1>1. unInput[k] \in UniContents
  BY DEF UnInputs, UnBlocks
<1> DEFINE b == unInput[k]
<1>2. b \in Seq(Nat) /\ b # <<>> /\ \A x \in 1 .. Len(b) : b[x] # UniSentinel
  BY <1>1 DEF Uni!Sized
<1> HIDE DEF b
<1>3. Len(b) \in Nat \ {0}
  BY <1>2
<1>4. 1 \in 1 .. Len(b) /\ Len(b) \in 1 .. Len(b)
  BY <1>3
<1>5. b[1] \in Nat /\ b[Len(b)] \in Nat
  BY <1>2, <1>4
<1>6. QED
  BY <1>2, <1>3, <1>4, <1>5 DEF b, Uni!LastOf

LEMMA UnFlat ==
  ASSUME Uni!Sized, UnInputs
  PROVE  /\ Uni!FlatTo(0) = <<>>
         /\ \A k \in 0 .. UnBlocks - 1 : Uni!FlatTo(k + 1) = UnWith(Uni!FlatTo(k), unInput[k + 1])
         /\ \A k \in 0 .. UnBlocks : Uni!FlatTo(k) \in Seq(Nat)
<1> DEFINE h == [k \in Nat |-> [x \in Seq(Nat) |->
                  IF k < UnBlocks THEN UnWith(x, unInput[k + 1]) ELSE x]]
<1>0. UnBlocks \in Nat
  BY UnNumbers
<1>1. h \in [Nat -> [Seq(Nat) -> Seq(Nat)]]
  <2>1. ASSUME NEW k \in Nat, NEW x \in Seq(Nat), k < UnBlocks PROVE UnWith(x, unInput[k + 1]) \in Seq(Nat)
    <3>1. k + 1 \in 1 .. UnBlocks
      BY <1>0, <2>1
    <3>2. unInput[k + 1] \in Seq(Nat)
      BY <3>1, UnBlock
    <3>3. QED
      BY <3>2 DEF UnWith
  <2>2. QED
    BY <2>1
<1>2. PICK v \in [Nat -> Seq(Nat)] : v[0] = <<>> /\ \A k \in Nat : v[k + 1] = h[k][v[k]]
  <2> HIDE DEF h
  <2>1. QED
    BY <1>1, StepByStep
<1>3. ASSUME NEW k \in Nat, k < UnBlocks
      PROVE  v[k + 1] = UnWith(v[k], unInput[k + 1])
  <2>1. v[k + 1] = h[k][v[k]] /\ v[k] \in Seq(Nat)
    BY <1>2
  <2>2. QED
    BY <1>3, <2>1
<1> HIDE DEF h
<1>4. ASSUME NEW n \in 0 .. UnBlocks PROVE Uni!FlatTo(n) = v[n]
  <2> DEFINE F(z) == [k \in 0 .. n |-> IF k = 0 THEN <<>> ELSE UnWith(z[k - 1], unInput[k])]
             X == [k \in 0 .. n |-> v[k]]
             z == CHOOSE z : z = F(z)
             T == {k \in Nat : k <= n => z[k] = v[k]}
  <2>1. X = F(X)
    <3> SUFFICES ASSUME NEW k \in 0 .. n
                 PROVE  X[k] = IF k = 0 THEN <<>> ELSE UnWith(X[k - 1], unInput[k])
      OBVIOUS
    <3>1. CASE k = 0
      BY <1>2, <3>1
    <3>2. CASE k # 0
      <4>1. k - 1 \in Nat /\ k - 1 < UnBlocks /\ k - 1 \in 0 .. n /\ k - 1 + 1 = k
        BY <1>0, <3>2
      <4>2. v[k] = UnWith(v[k - 1], unInput[k])
        BY <1>3, <4>1
      <4>3. QED
        BY <3>2, <4>1, <4>2
    <3>3. QED
      BY <3>1, <3>2
  <2>2. z = F(z)
    <3> HIDE DEF F, X
    <3>1. \E x : x = F(x)
      BY <2>1
    <3>2. QED
      BY <3>1
  <2>3. Uni!FlatTo(n) = z[n]
    BY DEF Uni!FlatTo, UnWith
  <2>4. n \in T
    <3> HIDE DEF z
    <3>1. 0 \in T
      BY <1>2, <2>2
    <3>2. ASSUME NEW k \in Nat, k \in T PROVE k + 1 \in T
      <4> SUFFICES ASSUME k + 1 <= n PROVE z[k + 1] = v[k + 1]
        OBVIOUS
      <4>1. k + 1 \in 0 .. n /\ k + 1 # 0 /\ k + 1 - 1 = k /\ k < UnBlocks /\ k <= n
        BY <1>0
      <4>2. z[k + 1] = UnWith(z[k], unInput[k + 1])
        <5>1. \A l \in 0 .. n : z[l] = IF l = 0 THEN <<>> ELSE UnWith(z[l - 1], unInput[l])
          BY <2>2
        <5>2. z[k + 1] = UnWith(z[k + 1 - 1], unInput[k + 1])
          BY <4>1, <5>1
        <5>3. QED
          BY ONLY <4>1, <5>2
      <4>3. z[k] = v[k]
        BY <3>2, <4>1
      <4>4. QED
        BY <1>3, <4>1, <4>2, <4>3
    <3>3. Nat \subseteq T
      <4> HIDE DEF T
      <4>1. QED
        BY <3>1, <3>2, Induction
    <3>4. QED
      BY <3>3
  <2>5. QED
    <3> HIDE DEF z
    <3>1. QED
      BY <2>3, <2>4
<1>5. ASSUME NEW k \in 0 .. UnBlocks - 1
      PROVE  Uni!FlatTo(k + 1) = UnWith(Uni!FlatTo(k), unInput[k + 1])
  <2>1. k \in 0 .. UnBlocks /\ k + 1 \in 0 .. UnBlocks /\ k \in Nat /\ k < UnBlocks
    BY <1>0
  <2>2. QED
    BY <1>3, <1>4, <2>1
<1>6. Uni!FlatTo(0) = <<>>
  BY <1>0, <1>2, <1>4
<1>7. \A k \in 0 .. UnBlocks : Uni!FlatTo(k) \in Seq(Nat)
  BY <1>4
<1>8. QED
  BY <1>5, <1>6, <1>7

\* They end as the last of them does.
LEMMA UnLastOfFlat ==
  ASSUME Uni!Sized, UnInputs, NEW k \in 1 .. UnBlocks
  PROVE  /\ Len(Uni!FlatTo(k)) > 0 /\ Uni!LastOf(Uni!FlatTo(k)) = Uni!LastOf(unInput[k])
<1> DEFINE j == k - 1
           s == Uni!FlatTo(j)
           b == unInput[k]
<1>1. j \in 0 .. UnBlocks - 1 /\ j \in 0 .. UnBlocks /\ j + 1 = k
  BY UnNumbers
<1>2. s \in Seq(Nat) /\ b \in Seq(Nat) /\ Len(b) \in Nat \ {0}
  <2> HIDE DEF j
  <2>1. QED
    BY <1>1, UnFlat, UnBlock
<1>3. Uni!FlatTo(k) = UnWith(s, b)
  <2>1. Uni!FlatTo(j + 1) = UnWith(s, unInput[j + 1])
    <3> HIDE DEF j
    <3>1. QED
      BY <1>1, UnFlat
  <2>2. QED
    BY ONLY <1>1, <2>1
<1> HIDE DEF s, b
<1>4. Len(s \o b) = Len(s) + Len(b) /\ (s \o b)[Len(s) + Len(b)] = b[Len(b)] /\ Len(s) \in Nat
  BY <1>2
<1>5. QED
  BY <1>2, <1>3, <1>4 DEF UnWith, Uni!LastOf, b

\* How the result grows by a block.
LEMMA UnGrows ==
  ASSUME Uni!Sized, UnInputs, NEW k \in 0 .. UnBlocks - 1
  PROVE  /\ Uni!Same(k + 1) \in {0, 1} /\ Len(Uni!Unique(unInput[k + 1])) \in Nat \ {0}
         /\ Uni!Unique(unInput[k + 1]) \in Seq(Nat)
         /\ Uni!Size(k) \in Nat /\ Uni!Size(k + 1) \in Nat
         /\ Uni!Size(k + 1) = Uni!Size(k) + Len(Uni!Unique(unInput[k + 1])) - Uni!Same(k + 1)
         /\ \A o \in 1 .. Uni!Size(k) : Uni!Result(k + 1)[o] = Uni!Result(k)[o]
         /\ \A o \in 1 .. Len(Uni!Unique(unInput[k + 1])) - Uni!Same(k + 1) :
              Uni!Result(k + 1)[Uni!Size(k) + o] = Uni!Unique(unInput[k + 1])[o + Uni!Same(k + 1)]
<1> DEFINE s == Uni!FlatTo(k)
           b == unInput[k + 1]
           m == Uni!Same(k + 1)
<1>1. k \in 0 .. UnBlocks /\ k + 1 \in 1 .. UnBlocks /\ k \in Nat /\ (k > 0 <=> k + 1 > 1) /\ k + 1 - 1 = k
  BY UnNumbers
<1>2. s \in Seq(Nat) /\ b \in Seq(Nat) /\ b # <<>>
  BY <1>1, UnFlat, UnBlock
<1>3. m \in {0, 1} /\ (m = 1 <=> k > 0 /\ Uni!LastOf(unInput[k]) = b[1])
  BY <1>1 DEF Uni!Same
<1>4. m = 1 <=> Len(s) > 0 /\ Uni!LastOf(s) = b[1]
  <2>1. CASE k = 0
    <3>1. s = <<>>
      BY <2>1, UnFlat
    <3>2. Len(s) = 0
      BY <3>1
    <3>3. QED
      BY <1>3, <2>1, <3>2
  <2>2. CASE k > 0
    <3>1. Len(s) > 0 /\ Uni!LastOf(s) = Uni!LastOf(unInput[k])
      <4>1. k \in 1 .. UnBlocks
        BY <1>1, <2>2
      <4>2. QED
        BY <4>1, UnLastOfFlat
    <3>2. QED
      BY <1>3, <2>2, <3>1
  <2>3. QED
    BY <1>1, <2>1, <2>2
<1>5. Uni!FlatTo(k + 1) = s \o b
  BY UnFlat DEF UnWith
<1> HIDE DEF s, b, m
<1>6. /\ Uni!Unique(s) \in Seq(Nat) /\ Uni!Unique(b) \in Seq(Nat) /\ Uni!Unique(s \o b) \in Seq(Nat)
      /\ Len(Uni!Unique(b)) >= 1
      /\ Len(Uni!Unique(s \o b)) = Len(Uni!Unique(s)) + Len(Uni!Unique(b)) - m
      /\ \A o \in 1 .. Len(Uni!Unique(s)) : Uni!Unique(s \o b)[o] = Uni!Unique(s)[o]
      /\ \A o \in 1 .. Len(Uni!Unique(b)) - m :
           Uni!Unique(s \o b)[Len(Uni!Unique(s)) + o] = Uni!Unique(b)[o + m]
  BY <1>2, <1>3, <1>4, UnPlus
<1>7. Uni!Result(k + 1) = Uni!Unique(s \o b) /\ Uni!Result(k) = Uni!Unique(s)
  BY <1>5 DEF Uni!Result, s
<1>8. Uni!Size(k + 1) = Len(Uni!Unique(s \o b)) /\ Uni!Size(k) = Len(Uni!Unique(s))
  BY <1>7 DEF Uni!Size
<1>9. Len(Uni!Unique(b)) \in Nat \ {0} /\ Len(Uni!Unique(s)) \in Nat /\ Len(Uni!Unique(s \o b)) \in Nat
  BY <1>6
<1>10. QED
  <2>1. /\ m \in {0, 1} /\ Len(Uni!Unique(b)) \in Nat \ {0} /\ Uni!Unique(b) \in Seq(Nat)
        /\ Uni!Size(k) \in Nat /\ Uni!Size(k + 1) \in Nat
        /\ Uni!Size(k + 1) = Uni!Size(k) + Len(Uni!Unique(b)) - m
    BY <1>3, <1>6, <1>8, <1>9
  <2>2. /\ \A o \in 1 .. Uni!Size(k) : Uni!Result(k + 1)[o] = Uni!Result(k)[o]
        /\ \A o \in 1 .. Len(Uni!Unique(b)) - m : Uni!Result(k + 1)[Uni!Size(k) + o] = Uni!Unique(b)[o + m]
    BY <1>6, <1>7, <1>8
  <2>3. QED
    BY <2>1, <2>2 DEF b, m

LEMMA UnSizes ==
  ASSUME Uni!Sized, UnInputs
  PROVE  Uni!Size(0) = 0 /\ \A k \in 0 .. UnBlocks : Uni!Size(k) \in Nat
<1>1. Uni!FlatTo(0) = <<>>
  BY UnFlat
<1>2. Uni!UniqueTo(<<>>, 0) = <<>>
  <2>1. \A s \in Seq(Nat) : Uni!UniqueTo(s, 0) = <<>>
    BY UnKept
  <2>2. <<>> \in Seq(Nat)
    OBVIOUS
  <2>3. QED
    BY ONLY <2>1, <2>2
<1>3. Uni!Size(0) = 0
  BY <1>1, <1>2 DEF Uni!Size, Uni!Result, Uni!Unique
<1>4. ASSUME NEW k \in 0 .. UnBlocks PROVE Uni!Size(k) \in Nat
  <2>1. CASE k = UnBlocks
    <3>1. k - 1 \in 0 .. UnBlocks - 1 /\ k - 1 + 1 = k
      BY <2>1, UnNumbers
    <3> DEFINE j == k - 1
    <3>2. Uni!Size(j + 1) \in Nat
      <4> HIDE DEF j
      <4>1. j \in 0 .. UnBlocks - 1
        BY <3>1 DEF j
      <4>2. QED
        BY <4>1, UnGrows
    <3>3. QED
      BY ONLY <3>1, <3>2
  <2>2. CASE k # UnBlocks
    <3>1. k \in 0 .. UnBlocks - 1
      BY <2>2, UnNumbers
    <3>2. QED
      BY <3>1, UnGrows
  <2>3. QED
    BY <2>1, <2>2
<1>5. QED
  BY <1>3, <1>4

\* What is found so far is the beginning of the whole result.
LEMMA UnBegins ==
  ASSUME Uni!Sized, UnInputs, NEW k \in 0 .. UnBlocks
  PROVE  /\ Uni!Size(k) <= Uni!Size(UnBlocks)
         /\ \A o \in 1 .. Uni!Size(k) : Uni!Result(k)[o] = Uni!Unique(Uni!Flat)[o]
<1> DEFINE z == [q \in 0 .. UnBlocks |-> Uni!Size(q)]
           f == [q \in 0 .. UnBlocks |-> Uni!Result(q)]
           T == {j \in Nat : k + j <= UnBlocks =>
                   z[k] <= z[k + j] /\ \A o \in 1 .. z[k] : f[k + j][o] = f[k][o]}
<1>1. UnBlocks \in Nat
  BY UnNumbers
<1>2. \A q \in 0 .. UnBlocks : z[q] \in Nat
  BY UnSizes
<1>3. \A q \in 0 .. UnBlocks - 1 :
        z[q] <= z[q + 1] /\ \A o \in 1 .. z[q] : f[q + 1][o] = f[q][o]
  <2> TAKE q \in 0 .. UnBlocks - 1
  <2>1. /\ Uni!Size(q + 1) = Uni!Size(q) + Len(Uni!Unique(unInput[q + 1])) - Uni!Same(q + 1)
        /\ Uni!Same(q + 1) \in {0, 1} /\ Len(Uni!Unique(unInput[q + 1])) \in Nat \ {0}
        /\ Uni!Size(q) \in Nat
        /\ \A o \in 1 .. Uni!Size(q) : Uni!Result(q + 1)[o] = Uni!Result(q)[o]
    BY UnGrows
  <2>2. Uni!Size(q) <= Uni!Size(q + 1)
    BY <2>1
  <2>3. q \in 0 .. UnBlocks /\ q + 1 \in 0 .. UnBlocks
    BY <1>1
  <2>4. QED
    BY <2>1, <2>2, <2>3
<1> HIDE DEF z, f
<1>4. 0 \in T
  <2>1. k + 0 = k
    OBVIOUS
  <2>2. QED
    BY <1>2, <2>1
<1>5. ASSUME NEW j \in Nat, j \in T PROVE j + 1 \in T
  <2> DEFINE q == k + j
  <2> SUFFICES ASSUME q + 1 <= UnBlocks
               PROVE  z[k] <= z[q + 1] /\ \A o \in 1 .. z[k] : f[q + 1][o] = f[k][o]
    <3>1. k + (j + 1) = q + 1
      OBVIOUS
    <3> HIDE DEF q
    <3>2. QED
      BY <3>1
  <2>1. z[k] <= z[q] /\ \A o \in 1 .. z[k] : f[q][o] = f[k][o]
    BY <1>1, <1>5
  <2>2. q \in 0 .. UnBlocks - 1 /\ q \in 0 .. UnBlocks /\ q + 1 \in 0 .. UnBlocks
    BY <1>1
  <2> HIDE DEF q
  <2>3. z[k] \in Nat /\ z[q] \in Nat /\ z[q + 1] \in Nat
    BY <1>2, <2>2
  <2>4. QED
    BY <1>3, <2>1, <2>2, <2>3
<1>6. Nat \subseteq T
  <2> HIDE DEF T
  <2>1. QED
    BY <1>4, <1>5, Induction
<1>7. z[k] <= z[UnBlocks] /\ \A o \in 1 .. z[k] : f[UnBlocks][o] = f[k][o]
  <2>1. UnBlocks - k \in T /\ k + (UnBlocks - k) = UnBlocks
    BY <1>1, <1>6
  <2>2. QED
    BY <2>1
<1>8. UnBlocks \in 0 .. UnBlocks
  BY <1>1
<1>9. f[UnBlocks] = Uni!Unique(Uni!Flat)
  BY <1>8 DEF f, Uni!Result, Uni!Flat, UnBlocks
<1>10. f[k] = Uni!Result(k) /\ z[k] = Uni!Size(k) /\ z[UnBlocks] = Uni!Size(UnBlocks)
  BY <1>8 DEF f, z
<1>11. QED
  BY <1>7, <1>9, <1>10

\* The places of a block: what is written there.
LEMMA UnPlaces ==
  ASSUME Uni!Sized, UnInputs, NEW k \in 1 .. UnBlocks
  PROVE  /\ Uni!Size(k - 1) \in Nat /\ Uni!Size(k) \in Nat /\ Uni!Same(k) \in {0, 1}
         /\ Uni!Unique(unInput[k]) \in Seq(Nat) /\ Len(Uni!Unique(unInput[k])) \in Nat \ {0}
         /\ Uni!Size(k) = Uni!Size(k - 1) + Len(Uni!Unique(unInput[k])) - Uni!Same(k)
         /\ Uni!Places(k) = Uni!Size(k - 1) .. Uni!Size(k) - 1
         /\ \A o \in Uni!Size(k - 1) .. Uni!Size(k) - 1 :
              Uni!Unique(unInput[k])[o - Uni!Size(k - 1) + Uni!Same(k) + 1] = Uni!Unique(Uni!Flat)[o + 1]
<1> DEFINE j == k - 1
           b == Uni!Unique(unInput[k])
           m == Uni!Same(k)
           z == Uni!Size(j)
           y == Uni!Size(k)
<1>1. j \in 0 .. UnBlocks - 1 /\ j \in 0 .. UnBlocks /\ k \in 0 .. UnBlocks /\ j + 1 = k
  BY UnNumbers
<1>2. /\ m \in {0, 1} /\ Len(b) \in Nat \ {0} /\ b \in Seq(Nat) /\ z \in Nat /\ y \in Nat
      /\ y = z + Len(b) - m
      /\ \A o \in 1 .. Len(b) - m : Uni!Result(k)[z + o] = b[o + m]
  <2>1. /\ Uni!Same(j + 1) \in {0, 1} /\ Len(Uni!Unique(unInput[j + 1])) \in Nat \ {0}
        /\ Uni!Unique(unInput[j + 1]) \in Seq(Nat)
        /\ Uni!Size(j) \in Nat /\ Uni!Size(j + 1) \in Nat
        /\ Uni!Size(j + 1) = Uni!Size(j) + Len(Uni!Unique(unInput[j + 1])) - Uni!Same(j + 1)
        /\ \A o \in 1 .. Len(Uni!Unique(unInput[j + 1])) - Uni!Same(j + 1) :
              Uni!Result(j + 1)[Uni!Size(j) + o] = Uni!Unique(unInput[j + 1])[o + Uni!Same(j + 1)]
    <3> HIDE DEF j
    <3>1. QED
      BY <1>1, UnGrows
  <2>2. QED
    BY ONLY <1>1, <2>1
<1>3. \A o \in 1 .. y : Uni!Result(k)[o] = Uni!Unique(Uni!Flat)[o]
  BY <1>1, UnBegins
<1>4. Uni!Places(k) = z .. y - 1
  BY DEF Uni!Places
<1> HIDE DEF b, m, z, y
<1>5. ASSUME NEW o \in z .. y - 1 PROVE b[o - z + m + 1] = Uni!Unique(Uni!Flat)[o + 1]
  <2> DEFINE p == o - z + 1
  <2>1. p \in 1 .. Len(b) - m /\ z + p = o + 1 /\ p + m = o - z + m + 1 /\ o + 1 \in 1 .. y
    BY <1>2
  <2> HIDE DEF p
  <2>2. Uni!Result(k)[z + p] = b[p + m]
    BY <1>2, <2>1
  <2>3. Uni!Result(k)[o + 1] = b[o - z + m + 1]
    BY ONLY <2>1, <2>2
  <2>4. QED
    BY <1>3, <2>1, <2>3
<1>6. QED
  BY <1>2, <1>4, <1>5 DEF b, m, z, y

\* The places of the blocks follow on one another.
LEMMA UnUnion ==
  ASSUME Uni!Sized, UnInputs, NEW n \in 0 .. UnBlocks
  PROVE  UNION {Uni!Places(k) : k \in 1 .. n} = 0 .. Uni!Size(n) - 1
<1> DEFINE U(k) == UNION {Uni!Places(x) : x \in 1 .. k}
           T == {k \in Nat : k <= UnBlocks => U(k) = 0 .. Uni!Size(k) - 1}
<1>1. UnBlocks \in Nat
  BY UnNumbers
<1>2. 0 \in T
  <2>1. Uni!Size(0) = 0
    BY UnSizes
  <2>2. QED
    BY <2>1
<1>3. ASSUME NEW k \in Nat, k \in T PROVE k + 1 \in T
  <2> SUFFICES ASSUME k + 1 <= UnBlocks PROVE U(k + 1) = 0 .. Uni!Size(k + 1) - 1
    OBVIOUS
  <2>1. U(k) = 0 .. Uni!Size(k) - 1
    BY <1>1, <1>3
  <2>2. k + 1 \in 1 .. UnBlocks /\ k + 1 - 1 = k
    BY <1>1
  <2>3. /\ Uni!Size(k) \in Nat /\ Uni!Size(k + 1) \in Nat /\ Uni!Size(k) <= Uni!Size(k + 1)
        /\ Uni!Places(k + 1) = Uni!Size(k) .. Uni!Size(k + 1) - 1
    <3> DEFINE j == k + 1
    <3>1. j \in 1 .. UnBlocks /\ j - 1 = k
      BY <2>2
    <3>2. /\ Uni!Size(j - 1) \in Nat /\ Uni!Size(j) \in Nat /\ Uni!Same(j) \in {0, 1}
          /\ Len(Uni!Unique(unInput[j])) \in Nat \ {0}
          /\ Uni!Size(j) = Uni!Size(j - 1) + Len(Uni!Unique(unInput[j])) - Uni!Same(j)
          /\ Uni!Places(j) = Uni!Size(j - 1) .. Uni!Size(j) - 1
      <4> HIDE DEF j
      <4>1. QED
        BY <3>1, UnPlaces
    <3> HIDE DEF j
    <3>3. /\ Uni!Size(k) \in Nat /\ Uni!Size(j) \in Nat /\ Uni!Size(k) <= Uni!Size(j)
          /\ Uni!Places(j) = Uni!Size(k) .. Uni!Size(j) - 1
      BY <3>1, <3>2
    <3>4. QED
      BY <3>3 DEF j
  <2>4. U(k + 1) = U(k) \cup Uni!Places(k + 1)
    <3>1. 1 .. k + 1 = (1 .. k) \cup {k + 1}
      OBVIOUS
    <3>2. QED
      BY <3>1
  <2> HIDE DEF U
  <2>5. (0 .. Uni!Size(k) - 1) \cup (Uni!Size(k) .. Uni!Size(k + 1) - 1) = 0 .. Uni!Size(k + 1) - 1
    BY <2>3
  <2>6. QED
    BY <2>1, <2>3, <2>4, <2>5
<1>4. Nat \subseteq T
  <2> HIDE DEF T
  <2>1. QED
    BY <1>2, <1>3, Induction
<1>5. n \in T /\ n <= UnBlocks
  BY <1>1, <1>4
<1>6. QED
  BY <1>5

\* Blocks and tasklets.
LEMMA UnOwn ==
  ASSUME Uni!Sized, unRound \in 1 .. UniRounds
  PROVE  /\ Uni!Base \in Nat /\ Uni!Base + UniN <= UnBlocks
         /\ unRound = UniRounds => Uni!Base + UniN = UnBlocks
         /\ unRound = 1 => Uni!Base = 0
         /\ ((unRound + 1) - 1) * UniN = Uni!Base + UniN
         /\ \A t \in Uni!Tasklets :
              Uni!Own(t) = Uni!Base + t + 1 /\ Uni!Own(t) \in 1 .. UnBlocks
<1> DEFINE r == unRound - 1
           q == UniRounds - 1
<1>1. UniN \in Nat \ {0} /\ r \in Nat /\ q \in Nat /\ r <= q /\ unRound \in Nat
  BY UnNumbers
<1>2. UnBlocks = q * UniN + UniN
  <2>1. UniRounds = q + 1
    BY UnNumbers
  <2> HIDE DEF q
  <2>2. UniN * UniRounds = UniN * q + UniN
    BY <1>1, <2>1
  <2>3. UniN * q = q * UniN
    BY <1>1
  <2>4. QED
    BY <2>2, <2>3 DEF UnBlocks
<1>3. Uni!Base = r * UniN
  BY DEF Uni!Base
<1>4. ((unRound + 1) - 1) * UniN = r * UniN + UniN
  <2>1. (unRound + 1) - 1 = r + 1
    BY <1>1
  <2> HIDE DEF r
  <2>2. (r + 1) * UniN = r * UniN + UniN
    BY <1>1
  <2>3. QED
    BY <2>1, <2>2
<1>5. unRound = UniRounds => r = q
  OBVIOUS
<1>6. unRound = 1 => r = 0
  OBVIOUS
<1>7. \A t \in Uni!Tasklets : Uni!Own(t) = r * UniN + t + 1 /\ t \in 0 .. UniN - 1
  BY UnNumbers DEF Uni!Own, Uni!BlockOf
<1> HIDE DEF r, q
<1>8. r * UniN <= q * UniN /\ r * UniN \in Nat /\ q * UniN \in Nat
  BY <1>1, ProductsGrow
<1>9. r = 0 => r * UniN = 0
  BY <1>1
<1> DEFINE x == r * UniN
           y == q * UniN
<1>10. \A t \in Uni!Tasklets : Uni!Own(t) = x + t + 1 /\ Uni!Own(t) \in 1 .. y + UniN
  <2>1. x \in Nat /\ y \in Nat /\ x <= y
    BY <1>8
  <2>2. \A t \in Uni!Tasklets : Uni!Own(t) = x + t + 1 /\ t \in 0 .. UniN - 1
    BY <1>7
  <2> HIDE DEF x, y
  <2>3. QED
    BY <1>1, <2>1, <2>2
<1>11. QED
  <2>1. Uni!Base = x /\ UnBlocks = y + UniN /\ x \in Nat /\ y \in Nat /\ x <= y /\ (r = q => x = y)
        /\ (r = 0 => x = 0)
    BY <1>2, <1>3, <1>8, <1>9
  <2>2. ((unRound + 1) - 1) * UniN = x + UniN
    BY <1>4
  <2> HIDE DEF x, y
  <2>3. QED
    BY <1>1, <1>5, <1>6, <1>10, <2>1, <2>2

\* What depends on the input alone, as functions of it.
UnFlatOf(f, n) ==
  LET flat[k \in 0 .. n] == IF k = 0 THEN <<>> ELSE flat[k - 1] \o f[k]
  IN  flat[n]

LEMMA UnFixed ==
  ASSUME unInput' = unInput
  PROVE  /\ \A k : Uni!Size(k)' = Uni!Size(k)
         /\ \A k : Uni!Places(k)' = Uni!Places(k)
         /\ \A k : Uni!Same(k)' = Uni!Same(k)
         /\ Uni!Unique(Uni!Flat)' = Uni!Unique(Uni!Flat)
<1>1. \A k : Uni!FlatTo(k) = UnFlatOf(unInput, k)
  BY DEF Uni!FlatTo, UnFlatOf
<1>2. \A k : Uni!FlatTo(k)' = UnFlatOf(unInput', k)
  BY DEF Uni!FlatTo, UnFlatOf
<1>3. \A k : Uni!FlatTo(k)' = Uni!FlatTo(k)
  BY <1>1, <1>2
<1>4. \A k : Uni!Size(k)' = Uni!Size(k)
  BY <1>3 DEF Uni!Size, Uni!Result
<1>5. \A k : Uni!Places(k)' = Uni!Places(k)
  BY <1>4 DEF Uni!Places
<1>6. \A k : Uni!Same(k)' = Uni!Same(k)
  BY DEF Uni!Same
<1>7. Uni!Unique(Uni!Flat)' = Uni!Unique(Uni!Flat)
  BY <1>3 DEF Uni!Flat
<1>8. QED
  BY <1>4, <1>5, <1>6, <1>7

\* In which part of a round it is.
LEMMA UnWhere ==
  ASSUME Uni!Sized, Uni!UniqueInv
  PROVE  /\ Uni!TypeOK /\ Uni!OutputOK /\ UnInputs
         /\ \A t \in Uni!Tasklets :
              /\ unAt[t] \in {"bump", "barrier1"} => Uni!Starting
              /\ unAt[t] \in {"unique", "receive", "send", "write", "update", "barrier2"} => Uni!Running
              /\ unAt[t] \in {"report", "end"} => Uni!Closing
<1>1. Uni!TypeOK /\ Uni!OutputOK /\ (Uni!Starting \/ Uni!Running \/ Uni!Closing)
  BY DEF Uni!UniqueInv
<1>2. UnInputs
  BY <1>1 DEF Uni!TypeOK, UnInputs
<1>3. Uni!Starting => \A t \in Uni!Tasklets : unAt[t] \in {"bump", "barrier1"}
  BY DEF Uni!Starting
<1>4. Uni!Running => \A t \in Uni!Tasklets : unAt[t] \in {"unique", "receive", "send", "write", "update", "barrier2"}
  BY DEF Uni!Running
<1>5. Uni!Closing => \A t \in Uni!Tasklets : unAt[t] \in {"report", "end"}
  BY DEF Uni!Closing
<1>6. QED
  BY <1>1, <1>2, <1>3, <1>4, <1>5

LEMMA UnInit ==
  ASSUME Uni!Sized, Uni!Init
  PROVE  Uni!UniqueInv
<1>1. /\ unAt = [t \in Uni!Tasklets |-> Uni!RoundStart(t)] /\ unRound = 1 /\ unEpoch = 1
      /\ unInput \in [1 .. UniN * UniRounds -> UniContents]
      /\ unBox = [t \in Uni!Tasklets |-> [count |-> 0, last |-> 0, off |-> 0, epoch |-> 0]]
      /\ unCache = [t \in Uni!Tasklets |-> <<>>]
      /\ unPo = [t \in Uni!Tasklets |-> [count |-> 0, off |-> 0, same |-> 0]]
      /\ unPartial = 0 /\ unLast = UniSentinel /\ unOutput = <<>> /\ unLate = {}
  BY DEF Uni!Init
<1>2. UnInputs /\ unRound \in 1 .. UniRounds /\ 0 \in Uni!Tasklets /\ UniSentinel \in Nat
  BY <1>1, UnNumbers DEF UnInputs, Uni!Sized
<1>3. \A t \in Uni!Tasklets : unAt[t] = IF t = 0 THEN "bump" ELSE "barrier1"
  BY <1>1 DEF Uni!RoundStart
<1>4. Uni!TypeOK
  <2>1. unAt \in [Uni!Tasklets -> Uni!Locations]
    BY <1>1, <1>3 DEF Uni!Locations
  <2>2. unBox \in [Uni!Tasklets -> [count : Int, last : Nat, off : Int, epoch : Nat]]
    BY <1>1
  <2>3. unPo \in [Uni!Tasklets -> [count : Int, off : Int, same : {0, 1}]]
    BY <1>1
  <2>4. unCache \in [Uni!Tasklets -> Seq(Nat)]
    <3>1. <<>> \in Seq(Nat)
      OBVIOUS
    <3>2. QED
      BY <1>1, <3>1
  <2>5. QED
    BY <1>1, <1>2, <2>1, <2>2, <2>3, <2>4 DEF Uni!TypeOK
<1>5. Uni!Base = 0 /\ Uni!Size(0) = 0
  BY <1>1, <1>2, UnOwn, UnSizes
<1>6. Uni!OutputOK
  <2>1. {u \in Uni!Tasklets : unAt[u] \in {"update", "barrier2", "report", "end"}} = {}
    BY <1>3
  <2>2. Uni!Written = 1 .. 0
    BY <1>5, <2>1 DEF Uni!Written
  <2>3. 1 .. 0 = {} /\ DOMAIN unOutput = {}
    BY <1>1
  <2>4. QED
    BY <2>2, <2>3 DEF Uni!OutputOK
<1>7. Uni!Starting
  <2>1. Uni!SoFar(Uni!Base)
    BY <1>1, <1>5 DEF Uni!SoFar
  <2>2. \A t \in Uni!Tasklets \ {0} : unBox[t].epoch <= unRound
    BY <1>1
  <2>3. unEpoch = IF unAt[0] = "bump" THEN unRound ELSE unRound + 1
    BY <1>1, <1>2, <1>3
  <2>4. QED
    BY <1>3, <2>1, <2>2, <2>3 DEF Uni!Starting
<1>8. QED
  BY <1>4, <1>6, <1>7 DEF Uni!UniqueInv

\* What is written stays right as long as nobody has written and no round ends.
LEMMA UnUnwritten ==
  ASSUME Uni!OutputOK, UNCHANGED <<unInput, unOutput, unRound, unLate>>,
         \A t \in Uni!Tasklets : unAt'[t] \in {"update", "barrier2", "report", "end"} <=>
                                   unAt[t] \in {"update", "barrier2", "report", "end"}
  PROVE  Uni!OutputOK'
<1>1. Uni!Base' = Uni!Base /\ \A t \in Uni!Tasklets : Uni!Own(t)' = Uni!Own(t)
  BY DEF Uni!Base, Uni!Own, Uni!BlockOf
<1>2. Uni!Written' = Uni!Written
  BY <1>1 DEF Uni!Written
<1>3. UNION {Uni!Places(k) : k \in Uni!Written}' = UNION {Uni!Places(k) : k \in Uni!Written}
  BY <1>2, UnFixed
<1>4. /\ \A q : Uni!Places(q)' = Uni!Places(q)
      /\ Uni!Unique(Uni!Flat)' = Uni!Unique(Uni!Flat)
  BY UnFixed
<1>5. QED
  BY <1>2, <1>3, <1>4 DEF Uni!OutputOK

LEMMA UnSoFar ==
  ASSUME unInput' = unInput, UNCHANGED <<unPartial, unLast>>, NEW k, Uni!SoFar(k)
  PROVE  Uni!SoFar(k)'
BY UnFixed DEF Uni!SoFar

LEMMA UnBumps ==
  ASSUME Uni!Sized, Uni!UniqueInv, Uni!Bump
  PROVE  Uni!UniqueInv'
<1>1. /\ unAt[0] = "bump" /\ unAt' = [unAt EXCEPT ![0] = "barrier1"] /\ unEpoch' = unEpoch + 1
      /\ UNCHANGED <<unRound, unInput, unBox, unCache, unPo, unPartial, unLast, unOutput, unLate>>
  BY DEF Uni!Bump, Uni!Goto
<1>2. 0 \in Uni!Tasklets
  BY UnNumbers
<1>3. Uni!TypeOK /\ Uni!OutputOK /\ Uni!Starting
  BY <1>1, <1>2, UnWhere
<1>4. unAt'[0] = "barrier1" /\ \A t \in Uni!Tasklets : t # 0 => unAt'[t] = unAt[t]
  BY <1>1, <1>2, <1>3 DEF Uni!TypeOK
<1>5. Uni!TypeOK'
  <2>1. unAt' \in [Uni!Tasklets -> Uni!Locations]
    BY <1>1, <1>3 DEF Uni!TypeOK, Uni!Locations
  <2>2. unEpoch' \in Nat
    BY <1>1, <1>3 DEF Uni!TypeOK
  <2>3. QED
    BY <1>1, <1>3, <2>1, <2>2 DEF Uni!TypeOK
<1>6. Uni!OutputOK'
  <2>1. \A t \in Uni!Tasklets : unAt'[t] \in {"update", "barrier2", "report", "end"} <=>
                                   unAt[t] \in {"update", "barrier2", "report", "end"}
    BY <1>1, <1>4
  <2>2. QED
    BY <1>1, <1>3, <2>1, UnUnwritten
<1>7. Uni!Starting'
  <2>1. Uni!Base' = Uni!Base
    BY <1>1 DEF Uni!Base
  <2>2. Uni!SoFar(Uni!Base)'
    BY <1>1, <1>3, <2>1, UnSoFar DEF Uni!Starting, Uni!SoFar
  <2>3. \A t \in Uni!Tasklets : unAt'[t] = "barrier1"
    BY <1>3, <1>4 DEF Uni!Starting
  <2>4. unEpoch' = unRound' + 1
    BY <1>1, <1>3 DEF Uni!Starting
  <2>5. QED
    BY <1>1, <1>2, <1>3, <2>2, <2>3, <2>4 DEF Uni!Starting
<1>8. QED
  BY <1>5, <1>6, <1>7 DEF Uni!UniqueInv

LEMMA UnBegin ==
  ASSUME Uni!Sized, Uni!UniqueInv, Uni!BeforeBlock
  PROVE  Uni!UniqueInv'
<1>1. /\ \A t \in Uni!Tasklets : unAt[t] = "barrier1"
      /\ unAt' = [t \in Uni!Tasklets |-> "unique"]
      /\ UNCHANGED <<unRound, unInput, unEpoch, unBox, unCache, unPo, unPartial, unLast, unOutput, unLate>>
  BY DEF Uni!BeforeBlock, Uni!Barrier
<1>2. 0 \in Uni!Tasklets /\ Uni!LastTasklet \in Uni!Tasklets
  BY UnNumbers
<1>3. Uni!TypeOK /\ Uni!OutputOK /\ Uni!Starting
  BY <1>1, <1>2, UnWhere
<1>4. \A t \in Uni!Tasklets : unAt'[t] = "unique"
  BY <1>1
<1>5. Uni!TypeOK'
  BY <1>1, <1>3 DEF Uni!TypeOK, Uni!Locations
<1>6. Uni!OutputOK'
  BY <1>1, <1>3, <1>4, UnUnwritten
<1>7. Uni!Running'
  <2>1. unEpoch = unRound + 1
    BY <1>1, <1>2, <1>3 DEF Uni!Starting
  <2>2. \A t \in Uni!Tasklets : Uni!KnowsOK(t)'
    BY <1>4 DEF Uni!KnowsOK
  <2>3. \A t \in Uni!Tasklets : t # 0 => Uni!BoxOK(t)'
    <3> SUFFICES ASSUME NEW t \in Uni!Tasklets, t # 0 PROVE Uni!BoxOK(t)'
      OBVIOUS
    <3>1. t - 1 \in Uni!Tasklets
      BY UnNumbers
    <3>2. ~ Uni!Sent(t - 1)'
      BY <1>4, <3>1 DEF Uni!Sent
    <3>3. unBox'[t].epoch <= unRound'
      BY <1>1, <1>3 DEF Uni!Starting
    <3>4. QED
      BY <3>2, <3>3 DEF Uni!BoxOK
  <2>4. Uni!SoFar(Uni!Base)'
    <3>1. Uni!Base' = Uni!Base
      BY <1>1 DEF Uni!Base
    <3>2. QED
      BY <1>1, <1>3, <3>1, UnSoFar DEF Uni!Starting, Uni!SoFar
  <2>5. QED
    BY <1>1, <1>2, <1>4, <2>1, <2>2, <2>3, <2>4 DEF Uni!Running
<1>8. QED
  BY <1>5, <1>6, <1>7 DEF Uni!UniqueInv

\* Once all have written their block, all blocks of the round are written.
LEMMA UnRoundIsWritten ==
  ASSUME Uni!Sized, unRound \in 1 .. UniRounds,
         \A t \in Uni!Tasklets : unAt[t] \in {"update", "barrier2", "report", "end"}
  PROVE  Uni!Written = 1 .. Uni!Base + UniN
<1>1. {u \in Uni!Tasklets : unAt[u] \in {"update", "barrier2", "report", "end"}} = Uni!Tasklets
  OBVIOUS
<1>2. Uni!Written = 1 .. Uni!Base \cup {Uni!Own(t) : t \in Uni!Tasklets}
  BY <1>1 DEF Uni!Written
<1>3. Uni!Base \in Nat /\ UniN \in Nat /\ Uni!Tasklets = 0 .. UniN - 1
      /\ \A t \in Uni!Tasklets : Uni!Own(t) = Uni!Base + t + 1
  BY UnNumbers, UnOwn
<1>4. ASSUME NEW x PROVE x \in Uni!Written <=> x \in 1 .. Uni!Base + UniN
  <2>1. CASE x \in Uni!Written
    <3>1. x \in 1 .. Uni!Base \/ \E t \in 0 .. UniN - 1 : x = Uni!Base + t + 1
      BY <1>2, <1>3, <2>1
    <3>2. QED
      BY <1>3, <2>1, <3>1
  <2>2. CASE x \in 1 .. Uni!Base + UniN
    <3>1. CASE x <= Uni!Base
      BY <1>2, <1>3, <2>2, <3>1
    <3>2. CASE x > Uni!Base
      <4>1. x - Uni!Base - 1 \in 0 .. UniN - 1 /\ x = Uni!Base + (x - Uni!Base - 1) + 1
        BY <1>3, <2>2, <3>2
      <4>2. QED
        BY <1>2, <1>3, <2>2, <4>1
    <3>3. QED
      BY <1>3, <2>2, <3>1, <3>2
  <2>3. QED
    BY <2>1, <2>2
<1>5. QED
  BY <1>4

LEMMA UnRoundEnds ==
  ASSUME Uni!Sized, Uni!UniqueInv, Uni!AfterBlock
  PROVE  Uni!UniqueInv'
<1> DEFINE l == [t \in Uni!Tasklets |-> IF unRound < UniRounds THEN Uni!RoundStart(t) ELSE "report"]
<1>1. /\ \A t \in Uni!Tasklets : unAt[t] = "barrier2"
      /\ unAt' = l
      /\ unRound' = IF unRound < UniRounds THEN unRound + 1 ELSE unRound
      /\ UNCHANGED <<unInput, unEpoch, unBox, unCache, unPo, unPartial, unLast, unOutput, unLate>>
  BY DEF Uni!AfterBlock, Uni!Barrier
<1>2. /\ 0 \in Uni!Tasklets /\ Uni!LastTasklet \in Uni!Tasklets /\ UniRounds \in Nat \ {0}
      /\ UniN \in Nat \ {0}
  BY UnNumbers
<1>3. Uni!TypeOK /\ Uni!OutputOK /\ Uni!Running
  BY <1>1, <1>2, UnWhere
<1>4. unRound \in 1 .. UniRounds
  BY <1>3 DEF Uni!TypeOK
<1>5. \A t \in Uni!Tasklets :
        unAt'[t] = IF unRound < UniRounds THEN IF t = 0 THEN "bump" ELSE "barrier1" ELSE "report"
  BY <1>1 DEF Uni!RoundStart
<1>6. Uni!TypeOK'
  <2>1. unAt' \in [Uni!Tasklets -> Uni!Locations]
    BY <1>1 DEF Uni!RoundStart, Uni!Locations
  <2>2. unRound' \in 1 .. UniRounds
    BY <1>1, <1>2, <1>4
  <2> HIDE DEF l
  <2>3. QED
    BY <1>1, <1>3, <2>1, <2>2 DEF Uni!TypeOK
<1> HIDE DEF l
<1>7. Uni!SoFar(Uni!Base + UniN) /\ unEpoch = unRound + 1
  BY <1>1, <1>2, <1>3 DEF Uni!Running
<1>8. Uni!Written = 1 .. Uni!Base + UniN
  BY <1>1, <1>4, UnRoundIsWritten
<1>9. Uni!OutputOK /\ Uni!Base \in Nat
  BY <1>3, <1>4, UnOwn
<1>10. CASE unRound < UniRounds
  <2>1. Uni!Base' = Uni!Base + UniN
    <3>1. unRound' = unRound + 1
      BY <1>1, <1>10
    <3>2. QED
      BY <1>4, <3>1, UnOwn DEF Uni!Base
  <2>2. Uni!Written' = 1 .. Uni!Base + UniN
    <3>1. {u \in Uni!Tasklets : unAt'[u] \in {"update", "barrier2", "report", "end"}} = {}
      BY <1>5, <1>10
    <3>2. QED
      BY <2>1, <3>1 DEF Uni!Written
  <2>3. Uni!OutputOK'
    <3>1. Uni!Written' = Uni!Written /\ unOutput' = unOutput /\ unLate' = unLate
      BY <1>1, <1>8, <2>2
    <3>2. /\ \A q : Uni!Places(q)' = Uni!Places(q)
          /\ Uni!Unique(Uni!Flat)' = Uni!Unique(Uni!Flat)
      BY <1>1, UnFixed
    <3>3. QED
      BY <1>9, <3>1, <3>2 DEF Uni!OutputOK
  <2>4. \A t \in Uni!Tasklets \ {0} : unBox'[t].epoch <= unRound'
    <3> TAKE t \in Uni!Tasklets \ {0}
    <3>1. t - 1 \in Uni!Tasklets
      BY UnNumbers
    <3>2. Uni!BoxOK(t) /\ Uni!Sent(t - 1)
      BY <1>1, <1>3, <3>1 DEF Uni!Running, Uni!Sent
    <3>3. unBox[t].epoch = unRound + 1
      BY <3>2 DEF Uni!BoxOK
    <3>4. QED
      BY <1>1, <1>4, <1>10, <3>3
  <2>5. Uni!SoFar(Uni!Base)'
    BY <1>1, <1>7, <2>1, UnSoFar DEF Uni!SoFar
  <2>6. unAt'[0] = "bump" /\ unEpoch' = unRound'
    BY <1>1, <1>2, <1>5, <1>7, <1>10
  <2>7. Uni!Starting'
    BY <1>5, <1>10, <2>4, <2>5, <2>6 DEF Uni!Starting
  <2>8. QED
    BY <1>6, <2>3, <2>7 DEF Uni!UniqueInv
<1>11. CASE ~ (unRound < UniRounds)
  <2>1. unRound = UniRounds /\ unRound' = unRound
    BY <1>1, <1>2, <1>4, <1>11
  <2>2. \A t \in Uni!Tasklets : unAt'[t] = "report"
    BY <1>5, <1>11
  <2>3. Uni!OutputOK'
    BY <1>1, <1>3, <2>1, <2>2, UnUnwritten
  <2>4. Uni!Base + UniN = UniN * UniRounds
    BY <1>4, <2>1, UnOwn DEF UnBlocks
  <2>5. Uni!SoFar(UniN * UniRounds)'
    BY <1>1, <1>7, <2>4, UnSoFar
  <2>6. Uni!Closing'
    BY <2>1, <2>2, <2>5 DEF Uni!Closing
  <2>7. QED
    BY <1>6, <2>3, <2>6 DEF Uni!UniqueInv
<1>12. QED
  BY <1>10, <1>11

LEMMA UnReports ==
  ASSUME Uni!Sized, Uni!UniqueInv, Uni!Report
  PROVE  Uni!UniqueInv'
<1>1. /\ \A t \in Uni!Tasklets : unAt[t] = "report"
      /\ unAt' = [t \in Uni!Tasklets |-> "end"] /\ unTotal' = unPartial
      /\ UNCHANGED <<unRound, unInput, unEpoch, unBox, unCache, unPo, unPartial, unLast, unOutput, unLate>>
  BY DEF Uni!Report, Uni!Barrier
<1>2. 0 \in Uni!Tasklets
  BY UnNumbers
<1>3. Uni!TypeOK /\ Uni!OutputOK /\ Uni!Closing
  BY <1>1, <1>2, UnWhere
<1>4. \A t \in Uni!Tasklets : unAt'[t] = "end"
  BY <1>1
<1>5. Uni!TypeOK'
  BY <1>1, <1>3 DEF Uni!TypeOK, Uni!Locations
<1>6. Uni!OutputOK'
  BY <1>1, <1>3, <1>4, UnUnwritten
<1>7. Uni!SoFar(UniN * UniRounds) /\ unRound = UniRounds
  BY <1>1, <1>2, <1>3 DEF Uni!Closing
<1>8. unTotal' = Uni!Size(UniN * UniRounds)'
  BY <1>1, <1>7, UnFixed DEF Uni!SoFar
<1>9. Uni!Closing'
  BY <1>1, <1>4, <1>7, <1>8 DEF Uni!Closing
<1>10. QED
  BY <1>5, <1>6, <1>9 DEF Uni!UniqueInv

\* The last tasklet updates when all before it have their message.
LEMMA UnLastIsLast ==
  ASSUME Uni!Sized, Uni!Running, NEW t \in Uni!Tasklets, unAt[t] \in {"unique", "receive", "send"}
  PROVE  unAt[Uni!LastTasklet] # "barrier2" /\ Uni!SoFar(Uni!Base)
<1> DEFINE l == Uni!LastTasklet
<1>1. l \in Uni!Tasklets /\ t \in 0 .. UniN - 1 /\ l = UniN - 1 /\ UniN \in Nat
  BY UnNumbers
<1>2. ASSUME unAt[l] = "barrier2" PROVE FALSE
  <2>1. t < l
    BY <1>1, <1>2
  <2>2. Uni!KnowsOK(l)
    BY <1>1 DEF Uni!Running
  <2>3. Uni!Sent(t)
    BY <1>2, <2>1, <2>2 DEF Uni!KnowsOK
  <2>4. QED
    BY <2>1, <2>3 DEF Uni!Sent
<1>3. QED
  BY <1>2 DEF Uni!Running

\* A box stays right while neither it nor its sender changes.
LEMMA UnBoxKept ==
  ASSUME Uni!Sized, unRound \in 1 .. UniRounds, UNCHANGED <<unInput, unRound>>,
         NEW t \in Uni!Tasklets, t # 0, Uni!BoxOK(t), unBox'[t] = unBox[t],
         Uni!Sent(t - 1)' <=> Uni!Sent(t - 1)
  PROVE  Uni!BoxOK(t)'
<1>1. Uni!Base' = Uni!Base /\ Uni!Own(t)' = Uni!Own(t)
  BY DEF Uni!Base, Uni!Own, Uni!BlockOf
<1>2. /\ Uni!Size(Uni!Own(t) - 1)' = Uni!Size(Uni!Own(t) - 1)
      /\ Uni!Size(Uni!Base)' = Uni!Size(Uni!Base)
  BY <1>1, UnFixed
<1>3. QED
  BY <1>1, <1>2 DEF Uni!BoxOK

\* So does what a tasklet knows.
LEMMA UnKnowsKept ==
  ASSUME Uni!Sized, UNCHANGED <<unInput, unRound>>, NEW t \in Uni!Tasklets, Uni!KnowsOK(t),
         unAt'[t] = unAt[t], unCache'[t] = unCache[t], unPo'[t] = unPo[t],
         \A u \in Uni!Tasklets : u < t /\ Uni!Sent(u) => Uni!Sent(u)'
  PROVE  Uni!KnowsOK(t)'
<1>1. Uni!Base' = Uni!Base /\ Uni!Own(t)' = Uni!Own(t)
  BY DEF Uni!Base, Uni!Own, Uni!BlockOf
<1>2. /\ Uni!Size(Uni!Own(t) - 1)' = Uni!Size(Uni!Own(t) - 1)
      /\ Uni!Size(Uni!Base)' = Uni!Size(Uni!Base)
      /\ Uni!Same(Uni!Own(t))' = Uni!Same(Uni!Own(t))
  BY <1>1, UnFixed
<1>3. QED
  BY <1>1, <1>2 DEF Uni!KnowsOK

\* A step of one tasklet within a round.
LEMMA UnMoves ==
  ASSUME Uni!Sized, unRound \in 1 .. UniRounds, Uni!Running, NEW t \in Uni!Tasklets,
         UNCHANGED <<unInput, unRound, unEpoch, unPartial, unLast, unLate>>,
         unAt[t] \in {"unique", "receive", "send", "write"},
         unAt'[t] \in {"receive", "send", "write"} \/ (t = Uni!LastTasklet /\ unAt'[t] = "update")
           \/ (t # Uni!LastTasklet /\ unAt'[t] = "barrier2"),
         unAt[t] = "unique" => unAt'[t] = "receive",
         \A u \in Uni!Tasklets : u # t =>
           unAt'[u] = unAt[u] /\ unCache'[u] = unCache[u] /\ unPo'[u] = unPo[u],
         t # Uni!LastTasklet => (Uni!Sent(t) => Uni!Sent(t)'),
         Uni!KnowsOK(t)', \A u \in Uni!Tasklets : u # 0 => Uni!BoxOK(u)'
  PROVE  Uni!Running'
<1> DEFINE l == Uni!LastTasklet
<1>1. l \in Uni!Tasklets /\ l = UniN - 1 /\ Uni!Tasklets = 0 .. UniN - 1 /\ UniN \in Nat
  BY UnNumbers
<1>2. \A u \in Uni!Tasklets :
        \/ unAt'[u] \in {"unique", "receive", "send", "write", "barrier2"}
        \/ u = Uni!LastTasklet /\ unAt'[u] = "update"
  BY DEF Uni!Running
<1>3. \A u \in Uni!Tasklets : u # t => (Uni!Sent(u)' <=> Uni!Sent(u))
  BY DEF Uni!Sent
<1>4. ASSUME NEW u \in Uni!Tasklets PROVE Uni!KnowsOK(u)'
  <2>1. CASE u = t
    BY <2>1
  <2>2. CASE u # t
    <3>1. \A w \in Uni!Tasklets : w < u /\ Uni!Sent(w) => Uni!Sent(w)'
      BY <1>1, <1>3
    <3>2. Uni!KnowsOK(u)
      BY DEF Uni!Running
    <3>3. QED
      BY <2>2, <3>1, <3>2, UnKnowsKept
  <2>3. QED
    BY <2>1, <2>2
<1>5. unAt'[l] = "barrier2" => unAt[l] = "barrier2"
  BY <1>1
<1>6. Uni!Base' = Uni!Base
  BY DEF Uni!Base
<1>7. IF unAt'[l] = "barrier2"
      THEN Uni!SoFar(Uni!Base + UniN)' /\ \A u \in Uni!Tasklets : unAt'[u] = "write" => Uni!Own(u)' \in unLate'
      ELSE Uni!SoFar(Uni!Base)'
  <2>1. CASE unAt'[l] = "barrier2"
    <3>1. unAt[l] = "barrier2"
      BY <1>5, <2>1
    <3>2. /\ Uni!SoFar(Uni!Base + UniN)
          /\ \A u \in Uni!Tasklets : unAt[u] = "write" => Uni!Own(u) \in unLate
      BY <3>1 DEF Uni!Running
    <3>3. unAt[t] = "write"
      BY <3>1, UnLastIsLast
    <3>4. \A u \in Uni!Tasklets : Uni!Own(u)' = Uni!Own(u)
      BY DEF Uni!Own, Uni!BlockOf
    <3>5. Uni!SoFar(Uni!Base + UniN)'
      BY <1>6, <3>2, UnSoFar DEF Uni!SoFar
    <3>6. QED
      BY <2>1, <3>2, <3>3, <3>4, <3>5
  <2>2. CASE unAt'[l] # "barrier2"
    <3>1. unAt[l] # "barrier2"
      <4>1. CASE t = l
        BY <4>1
      <4>2. CASE t # l
        BY <1>1, <2>2, <4>2
      <4>3. QED
        BY <4>1, <4>2
    <3>2. Uni!SoFar(Uni!Base)
      BY <3>1 DEF Uni!Running
    <3>3. Uni!SoFar(Uni!Base)'
      BY <1>6, <3>2, UnSoFar DEF Uni!SoFar
    <3>4. QED
      BY <2>2, <3>3
  <2>3. QED
    BY <2>1, <2>2
<1>8. unEpoch' = unRound' + 1
  BY DEF Uni!Running
<1>9. QED
  BY <1>2, <1>4, <1>7, <1>8 DEF Uni!Running

LEMMA UnDrops ==
  ASSUME Uni!Sized, Uni!UniqueInv, NEW t \in Uni!Tasklets, Uni!Kept(t)
  PROVE  Uni!UniqueInv'
<1>1. /\ unAt[t] = "unique" /\ unAt' = [unAt EXCEPT ![t] = "receive"]
      /\ unCache' = [unCache EXCEPT ![t] = Uni!Unique(unInput[Uni!Own(t)])]
      /\ UNCHANGED <<unRound, unInput, unEpoch, unBox, unPo, unPartial, unLast, unOutput, unLate>>
  BY DEF Uni!Kept, Uni!Goto, Uni!Own
<1>2. Uni!TypeOK /\ Uni!OutputOK /\ Uni!Running /\ UnInputs /\ unRound \in 1 .. UniRounds
  BY <1>1, UnWhere DEF Uni!TypeOK
<1>3. Uni!Unique(unInput[Uni!Own(t)]) \in Seq(Nat)
  <2>1. Uni!Own(t) \in 1 .. UnBlocks
    BY <1>2, UnOwn
  <2>2. QED
    BY <1>2, <2>1, UnPlaces
<1>4. /\ unAt'[t] = "receive" /\ unCache'[t] = Uni!Unique(unInput[Uni!Own(t)])
      /\ \A u \in Uni!Tasklets : u # t => unAt'[u] = unAt[u] /\ unCache'[u] = unCache[u]
  BY <1>1, <1>2 DEF Uni!TypeOK
<1>5. Uni!TypeOK'
  <2>1. unAt' \in [Uni!Tasklets -> Uni!Locations]
    BY <1>1, <1>2 DEF Uni!TypeOK, Uni!Locations
  <2>2. unCache' \in [Uni!Tasklets -> Seq(Nat)]
    BY <1>1, <1>2, <1>3 DEF Uni!TypeOK
  <2>3. QED
    BY <1>1, <1>2, <2>1, <2>2 DEF Uni!TypeOK
<1>6. Uni!OutputOK'
  <2>1. \A u \in Uni!Tasklets : unAt'[u] \in {"update", "barrier2", "report", "end"} <=>
                                   unAt[u] \in {"update", "barrier2", "report", "end"}
    BY <1>1, <1>4
  <2>2. QED
    BY <1>1, <1>2, <2>1, UnUnwritten
<1>7. Uni!KnowsOK(t)'
  <2>1. Uni!Own(t)' = Uni!Own(t)
    BY <1>1 DEF Uni!Own, Uni!BlockOf
  <2>2. QED
    BY <1>1, <1>4, <2>1 DEF Uni!KnowsOK
<1>8. \A u \in Uni!Tasklets : Uni!Sent(u)' <=> Uni!Sent(u)
  BY <1>1, <1>4 DEF Uni!Sent
<1>9. ASSUME NEW u \in Uni!Tasklets, u # 0 PROVE Uni!BoxOK(u)'
  <2>1. u - 1 \in Uni!Tasklets
    BY <1>9, UnNumbers
  <2>2. Uni!BoxOK(u) /\ (Uni!Sent(u - 1)' <=> Uni!Sent(u - 1))
    BY <1>2, <1>8, <1>9, <2>1 DEF Uni!Running
  <2>3. QED
    BY <1>1, <1>2, <1>9, <2>2, UnBoxKept
<1>10. Uni!Running'
  <2>1. t # Uni!LastTasklet => (Uni!Sent(t) => Uni!Sent(t)')
    BY <1>8
  <2>2. \A u \in Uni!Tasklets : u # t =>
           unAt'[u] = unAt[u] /\ unCache'[u] = unCache[u] /\ unPo'[u] = unPo[u]
    BY <1>1, <1>4
  <2>3. unAt[t] \in {"unique", "receive", "send", "write"} /\ unAt'[t] \in {"receive", "send", "write"}
        /\ (unAt[t] = "unique" => unAt'[t] = "receive")
    BY <1>1, <1>4
  <2>4. UNCHANGED <<unInput, unRound, unEpoch, unPartial, unLast, unLate>>
    BY <1>1
  <2>5. QED
    BY <1>2, <1>7, <1>9, <2>1, <2>2, <2>3, <2>4, UnMoves
<1>11. QED
  BY <1>5, <1>6, <1>10 DEF Uni!UniqueInv

\* The first and the last element kept of a block.
LEMMA UnCacheEnds ==
  ASSUME Uni!Sized, UnInputs, NEW k \in 1 .. UnBlocks
  PROVE  /\ Uni!Unique(unInput[k])[1] = unInput[k][1]
         /\ Uni!LastOf(Uni!Unique(unInput[k])) = Uni!LastOf(unInput[k])
<1> DEFINE b == unInput[k]
<1>1. b \in Seq(Nat) /\ Len(b) \in Nat \ {0}
  BY UnBlock
<1> HIDE DEF b
<1>2. Len(b) \in 1 .. Len(b)
  BY <1>1
<1>3. /\ Uni!LastOf(Uni!UniqueTo(b, Len(b))) = b[Len(b)]
      /\ Uni!UniqueTo(b, Len(b))[1] = b[1]
  BY <1>1, <1>2, UnEnds
<1>4. QED
  BY <1>3 DEF b, Uni!Unique, Uni!LastOf

LEMMA UnReceives ==
  ASSUME Uni!Sized, Uni!UniqueInv, NEW t \in Uni!Tasklets, Uni!Receive(t)
  PROVE  Uni!UniqueInv'
<1> DEFINE l == IF t = Uni!LastTasklet THEN "write" ELSE "send"
           p == IF t = 0
                THEN [count |-> 0, off |-> 0, same |-> IF unLast = unCache[0][1] THEN 1 ELSE 0]
                ELSE [count |-> unBox[t].count, off |-> unBox[t].off,
                      same |-> IF unBox[t].last = unCache[t][1] THEN 1 ELSE 0]
           k == Uni!Own(t)
<1>1. /\ unAt[t] = "receive" /\ unAt' = [unAt EXCEPT ![t] = l]
      /\ t # 0 => unBox[t].epoch = unEpoch
      /\ unPo' = [unPo EXCEPT ![t] = p]
      /\ UNCHANGED <<unRound, unInput, unEpoch, unBox, unCache, unPartial, unLast, unOutput, unLate>>
  BY DEF Uni!Receive, Uni!Goto
<1>2. Uni!TypeOK /\ Uni!OutputOK /\ Uni!Running /\ UnInputs /\ unRound \in 1 .. UniRounds
  BY <1>1, UnWhere DEF Uni!TypeOK
<1>3. p \in [count : Int, off : Int, same : {0, 1}]
  BY <1>2 DEF Uni!TypeOK
<1>4. p.same = IF (IF t = 0 THEN unLast ELSE unBox[t].last) = unCache[t][1] THEN 1 ELSE 0
  OBVIOUS
<1>5. p.count - p.off = IF t = 0 THEN 0 ELSE unBox[t].count - unBox[t].off
  OBVIOUS
<1>6. l \in {"send", "write"} /\ (l = "send" => t # Uni!LastTasklet)
  OBVIOUS
<1> HIDE DEF l, p
<1>7. /\ unAt'[t] = l /\ unPo'[t] = p
      /\ \A u \in Uni!Tasklets : u # t => unAt'[u] = unAt[u] /\ unPo'[u] = unPo[u]
  BY <1>1, <1>2 DEF Uni!TypeOK
<1>8. Uni!TypeOK'
  <2>1. unAt' \in [Uni!Tasklets -> Uni!Locations]
    BY <1>1, <1>2, <1>6 DEF Uni!TypeOK, Uni!Locations
  <2>2. unPo' \in [Uni!Tasklets -> [count : Int, off : Int, same : {0, 1}]]
    BY <1>1, <1>2, <1>3 DEF Uni!TypeOK
  <2>3. QED
    BY <1>1, <1>2, <2>1, <2>2 DEF Uni!TypeOK
<1>9. Uni!OutputOK'
  <2>1. \A u \in Uni!Tasklets : unAt'[u] \in {"update", "barrier2", "report", "end"} <=>
                                   unAt[u] \in {"update", "barrier2", "report", "end"}
    BY <1>1, <1>6, <1>7
  <2>2. QED
    BY <1>1, <1>2, <2>1, UnUnwritten
<1>10. /\ k \in 1 .. UnBlocks /\ k = Uni!Base + t + 1 /\ Uni!Base \in Nat /\ t \in 0 .. UniN - 1
       /\ UniN \in Nat
  BY <1>2, UnNumbers, UnOwn
<1>11. /\ unCache[t] = Uni!Unique(unInput[k]) /\ unCache[t][1] = unInput[k][1]
       /\ unInput[k][1] # UniSentinel
  <2>1. unCache[t] = Uni!Unique(unInput[k])
    BY <1>1, <1>2 DEF Uni!Running, Uni!KnowsOK
  <2> HIDE DEF k
  <2>2. QED
    BY <1>2, <1>10, <2>1, UnCacheEnds, UnBlock
\* The tasklets before this one have sent.
<1>12. ASSUME NEW u \in Uni!Tasklets, u < t PROVE Uni!Sent(u)
  <2>1. t # 0 /\ t - 1 \in Uni!Tasklets /\ u \in Nat
    BY <1>12, UnNumbers
  <2>2. Uni!BoxOK(t) /\ unBox[t].epoch = unRound + 1
    BY <1>1, <1>2, <2>1 DEF Uni!Running
  <2>3. Uni!Sent(t - 1)
    BY <1>2, <2>2 DEF Uni!BoxOK
  <2>4. CASE u = t - 1
    BY <2>3, <2>4
  <2>5. CASE u # t - 1
    <3>1. u < t - 1
      BY <1>10, <1>12, <2>1, <2>5
    <3>2. Uni!KnowsOK(t - 1)
      BY <1>2, <2>1 DEF Uni!Running
    <3> DEFINE w == t - 1
    <3>3. w \in Uni!Tasklets /\ u < w /\ Uni!KnowsOK(w) /\ Uni!Sent(w)
      BY <2>1, <2>3, <3>1, <3>2
    <3> HIDE DEF w
    <3>4. QED
      BY <3>3 DEF Uni!KnowsOK, Uni!Sent
  <2>6. QED
    BY <2>4, <2>5
<1>13. p.count - p.off = Uni!Size(k - 1) - Uni!Size(Uni!Base) /\ p.same = Uni!Same(k)
  <2>1. CASE t = 0
    <3>1. k - 1 = Uni!Base /\ k = Uni!Base + 1 /\ (k > 1 <=> Uni!Base # 0)
      BY <1>10, <2>1
    <3>2. Uni!Size(Uni!Base) \in Nat
      <4>1. Uni!Base \in 0 .. UnBlocks
        BY <1>10, <3>1, UnNumbers
      <4>2. QED
        BY <1>2, <4>1, UnSizes
    <3>3. p.count - p.off = Uni!Size(k - 1) - Uni!Size(Uni!Base)
      BY <1>5, <2>1, <3>1, <3>2
    <3>4. unLast = IF Uni!Base = 0 THEN UniSentinel ELSE Uni!LastOf(unInput[Uni!Base])
      BY <1>1, <1>2, UnLastIsLast DEF Uni!SoFar
    <3>5. p.same = IF unLast = unInput[k][1] THEN 1 ELSE 0
      BY <1>4, <1>11, <2>1
    <3>6. p.same = Uni!Same(k)
      <4>1. Uni!Same(k) = IF Uni!Base # 0 /\ Uni!LastOf(unInput[Uni!Base]) = unInput[k][1] THEN 1 ELSE 0
        BY <3>1 DEF Uni!Same
      <4>2. QED
        BY <1>11, <3>4, <3>5, <4>1
    <3>7. QED
      BY <3>3, <3>6
  <2>2. CASE t # 0
    <3>1. t - 1 \in Uni!Tasklets /\ t - 1 < t /\ k > 1
      BY <1>10, <2>2, UnNumbers
    <3>2. Uni!BoxOK(t) /\ Uni!Sent(t - 1)
      BY <1>2, <1>12, <2>2, <3>1 DEF Uni!Running
    <3>3. /\ unBox[t].count - unBox[t].off = Uni!Size(k - 1) - Uni!Size(Uni!Base)
          /\ unBox[t].last = Uni!LastOf(unInput[k - 1])
      BY <3>2 DEF Uni!BoxOK
    <3>4. Uni!Same(k) = IF Uni!LastOf(unInput[k - 1]) = unInput[k][1] THEN 1 ELSE 0
      BY <3>1 DEF Uni!Same
    <3>5. QED
      BY <1>4, <1>5, <1>11, <2>2, <3>3, <3>4
  <2>3. QED
    BY <2>1, <2>2
<1>14. \A u \in Uni!Tasklets : u # t => (Uni!Sent(u)' <=> Uni!Sent(u))
  BY <1>7 DEF Uni!Sent
<1>15. Uni!KnowsOK(t)'
  <2>1. Uni!Base' = Uni!Base /\ Uni!Own(t)' = Uni!Own(t)
    BY <1>1 DEF Uni!Base, Uni!Own, Uni!BlockOf
  <2>2. /\ Uni!Size(Uni!Own(t) - 1)' = Uni!Size(Uni!Own(t) - 1)
        /\ Uni!Size(Uni!Base)' = Uni!Size(Uni!Base)
        /\ Uni!Same(Uni!Own(t))' = Uni!Same(Uni!Own(t))
    BY <1>1, <2>1, UnFixed
  <2>3. \A u \in Uni!Tasklets : u < t => Uni!Sent(u)'
    BY <1>10, <1>12, <1>14, UnNumbers
  <2>4. unCache'[t] = Uni!Unique(unInput'[Uni!Own(t)'])
    BY <1>1, <1>11, <2>1
  <2>5. QED
    BY <1>6, <1>7, <1>13, <2>1, <2>2, <2>3, <2>4 DEF Uni!KnowsOK
<1>16. ASSUME NEW u \in Uni!Tasklets, u # 0 PROVE Uni!BoxOK(u)'
  <2>1. u - 1 \in Uni!Tasklets /\ (u - 1 = t => t # Uni!LastTasklet)
    BY <1>16, UnNumbers
  <2>2. Uni!Sent(u - 1)' <=> Uni!Sent(u - 1)
    <3>1. CASE u - 1 = t
      <4>1. l = "send"
        BY <2>1, <3>1 DEF l
      <4>2. ~ Uni!Sent(t)' /\ ~ Uni!Sent(t)
        BY <1>1, <1>7, <4>1 DEF Uni!Sent
      <4> DEFINE w == u - 1
      <4>3. w = t
        BY <3>1
      <4> HIDE DEF w
      <4>4. Uni!Sent(w)' <=> Uni!Sent(w)
        BY <4>2, <4>3 DEF Uni!Sent
      <4>5. QED
        BY <4>4 DEF w
    <3>2. CASE u - 1 # t
      BY <1>14, <2>1, <3>2
    <3>3. QED
      BY <3>1, <3>2
  <2>3. Uni!BoxOK(u)
    BY <1>2, <1>16 DEF Uni!Running
  <2>4. QED
    BY <1>1, <1>2, <1>16, <2>2, <2>3, UnBoxKept
<1>17. Uni!Running'
  <2>1. ~ Uni!Sent(t)
    BY <1>1 DEF Uni!Sent
  <2>2. \A u \in Uni!Tasklets : u # t =>
           unAt'[u] = unAt[u] /\ unCache'[u] = unCache[u] /\ unPo'[u] = unPo[u]
    BY <1>1, <1>7
  <2>3. unAt[t] \in {"unique", "receive", "send", "write"} /\ unAt'[t] \in {"receive", "send", "write"}
        /\ (unAt[t] = "unique" => unAt'[t] = "receive")
    BY <1>1, <1>6, <1>7
  <2>4. UNCHANGED <<unInput, unRound, unEpoch, unPartial, unLast, unLate>>
    BY <1>1
  <2>5. QED
    BY <1>2, <1>15, <1>16, <2>1, <2>2, <2>3, <2>4, UnMoves
<1>18. QED
  BY <1>8, <1>9, <1>17 DEF Uni!UniqueInv

LEMMA UnSends ==
  ASSUME Uni!Sized, Uni!UniqueInv, NEW t \in Uni!Tasklets, Uni!Send(t)
  PROVE  Uni!UniqueInv'
<1> DEFINE p == [count |-> unPo[t].count + Len(unCache[t]), last |-> Uni!LastOf(unCache[t]),
                 off |-> Uni!Off(t), epoch |-> unEpoch]
<1>0. PICK k : k = Uni!Own(t)
  OBVIOUS
<1>1. /\ unAt[t] = "send" /\ unAt' = [unAt EXCEPT ![t] = "write"]
      /\ unBox' = [unBox EXCEPT ![t + 1] = p]
      /\ UNCHANGED <<unRound, unInput, unEpoch, unCache, unPo, unPartial, unLast, unOutput, unLate>>
  BY DEF Uni!Send, Uni!Goto, Uni!StampFor
<1>2. Uni!TypeOK /\ Uni!OutputOK /\ Uni!Running /\ UnInputs /\ unRound \in 1 .. UniRounds
  BY <1>1, UnWhere DEF Uni!TypeOK
<1>3. Uni!KnowsOK(t) /\ t # Uni!LastTasklet
  BY <1>1, <1>2 DEF Uni!Running, Uni!KnowsOK
<1>4. t + 1 \in Uni!Tasklets /\ t \in Nat
  BY <1>3, UnNumbers
<1>5. /\ k \in 1 .. UnBlocks /\ k = Uni!Base + t + 1 /\ Uni!Base \in Nat /\ Uni!Base \in 0 .. UnBlocks
  BY <1>0, <1>2, <1>4, UnNumbers, UnOwn
<1>6. /\ unCache[t] = Uni!Unique(unInput[k]) /\ Uni!LastOf(unCache[t]) = Uni!LastOf(unInput[k])
      /\ Uni!LastOf(unCache[t]) \in Nat
  <2>1. unCache[t] = Uni!Unique(unInput[k])
    BY <1>0, <1>1, <1>3 DEF Uni!KnowsOK
  <2>2. QED
    BY <1>2, <1>5, <2>1, UnCacheEnds, UnBlock
<1>7. /\ unPo[t].count \in Int /\ unPo[t].off \in Int /\ unPo[t].same \in {0, 1}
      /\ Len(unCache[t]) \in Nat /\ unEpoch \in Nat
  BY <1>2 DEF Uni!TypeOK
<1>8. p \in [count : Int, last : Nat, off : Int, epoch : Nat]
  BY <1>6, <1>7 DEF Uni!Off
<1>9. /\ p.count - p.off = Uni!Size(k) - Uni!Size(Uni!Base) /\ p.last = Uni!LastOf(unInput[k])
      /\ p.epoch = unRound + 1
  <2>1. /\ unPo[t].count - unPo[t].off = Uni!Size(k - 1) - Uni!Size(Uni!Base)
        /\ unPo[t].same = Uni!Same(k)
    BY <1>0, <1>1, <1>3 DEF Uni!KnowsOK
  <2>2. /\ Uni!Size(k - 1) \in Nat /\ Uni!Size(k) \in Nat
        /\ Uni!Size(k) = Uni!Size(k - 1) + Len(Uni!Unique(unInput[k])) - Uni!Same(k)
    BY <1>2, <1>5, UnPlaces
  <2>3. Uni!Size(Uni!Base) \in Nat
    BY <1>2, <1>5, UnSizes
  <2>4. p.count = unPo[t].count + Len(unCache[t]) /\ p.off = unPo[t].off + unPo[t].same
    BY DEF Uni!Off
  <2>5. p.count - p.off = Uni!Size(k) - Uni!Size(Uni!Base)
    <3> DEFINE b == Len(unCache[t])
               c == unPo[t].count
               o == unPo[t].off
               m == unPo[t].same
               x == Uni!Size(k - 1)
               y == Uni!Size(k)
               z == Uni!Size(Uni!Base)
    <3>1. /\ b \in Nat /\ c \in Int /\ o \in Int /\ m \in {0, 1} /\ x \in Nat /\ y \in Nat /\ z \in Nat
          /\ c - o = x - z /\ y = x + b - m /\ p.count = c + b /\ p.off = o + m
      BY <1>6, <1>7, <2>1, <2>2, <2>3, <2>4
    <3> HIDE DEF b, c, o, m, x, y, z, p
    <3>2. p.count - p.off = y - z
      BY <3>1
    <3>3. QED
      BY <3>2 DEF y, z
  <2>6. unEpoch = unRound + 1
    BY <1>2 DEF Uni!Running
  <2>7. QED
    BY <1>6, <2>5, <2>6
<1> HIDE DEF p
<1>10. /\ unAt'[t] = "write" /\ unBox'[t + 1] = p
       /\ \A u \in Uni!Tasklets : u # t => unAt'[u] = unAt[u]
       /\ \A u \in Uni!Tasklets : u # t + 1 => unBox'[u] = unBox[u]
  BY <1>1, <1>2, <1>4 DEF Uni!TypeOK
<1>11. Uni!TypeOK'
  <2>1. unAt' \in [Uni!Tasklets -> Uni!Locations]
    BY <1>1, <1>2 DEF Uni!TypeOK, Uni!Locations
  <2>2. unBox' \in [Uni!Tasklets -> [count : Int, last : Nat, off : Int, epoch : Nat]]
    BY <1>1, <1>2, <1>8 DEF Uni!TypeOK
  <2>3. QED
    BY <1>1, <1>2, <2>1, <2>2 DEF Uni!TypeOK
<1>12. Uni!OutputOK'
  <2>1. \A u \in Uni!Tasklets : unAt'[u] \in {"update", "barrier2", "report", "end"} <=>
                                   unAt[u] \in {"update", "barrier2", "report", "end"}
    BY <1>1, <1>10
  <2>2. QED
    BY <1>1, <1>2, <2>1, UnUnwritten
<1>13. /\ \A u \in Uni!Tasklets : u # t => (Uni!Sent(u)' <=> Uni!Sent(u))
       /\ Uni!Sent(t)'
  BY <1>10 DEF Uni!Sent
<1>14. Uni!Base' = Uni!Base /\ \A u \in Uni!Tasklets : Uni!Own(u)' = Uni!Own(u)
  BY <1>1 DEF Uni!Base, Uni!Own, Uni!BlockOf
<1>15. Uni!KnowsOK(t)'
  <2>1. /\ Uni!Size(Uni!Own(t) - 1)' = Uni!Size(Uni!Own(t) - 1)
        /\ Uni!Size(Uni!Base)' = Uni!Size(Uni!Base)
        /\ Uni!Same(Uni!Own(t))' = Uni!Same(Uni!Own(t))
    BY <1>1, <1>14, UnFixed
  <2>2. \A u \in Uni!Tasklets : u < t => Uni!Sent(u)'
    BY <1>1, <1>3, <1>13 DEF Uni!KnowsOK
  <2>3. QED
    BY <1>1, <1>3, <1>10, <1>14, <2>1, <2>2 DEF Uni!KnowsOK
<1>16. ASSUME NEW u \in Uni!Tasklets, u # 0 PROVE Uni!BoxOK(u)'
  <2>1. u - 1 \in Uni!Tasklets /\ (u - 1 = t <=> u = t + 1)
    BY <1>4, <1>16, UnNumbers
  <2>2. CASE u = t + 1
    <3>1. unBox'[u] = p
      BY <1>10, <2>2
    <3>2. Uni!Own(u)' - 1 = k
      <4>1. Uni!Own(u)' = Uni!Base + u + 1
        BY <1>2, <1>14, UnOwn
      <4>2. QED
        BY <1>4, <1>5, <2>2, <4>1
    <3>3. /\ Uni!Size(k)' = Uni!Size(k) /\ Uni!Size(Uni!Base)' = Uni!Size(Uni!Base)
      BY <1>1, <1>14, UnFixed
    <3>4. /\ unBox'[u].epoch = unRound' + 1
          /\ unBox'[u].count - unBox'[u].off = Uni!Size(k)' - Uni!Size(Uni!Base)'
          /\ unBox'[u].last = Uni!LastOf(unInput'[k])
      BY <1>1, <1>9, <3>1, <3>3
    <3>5. Uni!Sent(u - 1)'
      <4> DEFINE w == u - 1
      <4>1. w = t
        BY <2>1, <2>2
      <4> HIDE DEF w
      <4>2. Uni!Sent(w)'
        BY <1>13, <4>1 DEF Uni!Sent
      <4>3. QED
        BY <4>2 DEF w
    <3>6. Uni!Size(Uni!Own(u) - 1)' = Uni!Size(k)'
      <4>1. Uni!Size(Uni!Own(u) - 1)' = Uni!Size(Uni!Own(u) - 1)
        BY <1>1, <1>14, UnFixed
      <4>2. Uni!Own(u) - 1 = k
        BY <1>14, <3>2
      <4>3. QED
        BY <3>3, <4>1, <4>2
    <3>7. QED
      BY <3>2, <3>4, <3>5, <3>6 DEF Uni!BoxOK
  <2>3. CASE u # t + 1
    <3>1. Uni!BoxOK(u) /\ (Uni!Sent(u - 1)' <=> Uni!Sent(u - 1)) /\ unBox'[u] = unBox[u]
      BY <1>2, <1>10, <1>13, <1>16, <2>1, <2>3 DEF Uni!Running
    <3>2. QED
      BY <1>1, <1>2, <1>16, <3>1, UnBoxKept
  <2>4. QED
    BY <2>2, <2>3
<1>17. Uni!Running'
  <2>1. \A u \in Uni!Tasklets : u # t =>
           unAt'[u] = unAt[u] /\ unCache'[u] = unCache[u] /\ unPo'[u] = unPo[u]
    BY <1>1, <1>10
  <2>2. unAt[t] \in {"unique", "receive", "send", "write"} /\ unAt'[t] \in {"receive", "send", "write"}
        /\ (unAt[t] = "unique" => unAt'[t] = "receive")
    BY <1>1, <1>10
  <2>3. UNCHANGED <<unInput, unRound, unEpoch, unPartial, unLast, unLate>>
    BY <1>1
  <2>4. QED
    BY <1>2, <1>13, <1>15, <1>16, <2>1, <2>2, <2>3, UnMoves
<1>18. QED
  BY <1>11, <1>12, <1>17 DEF Uni!UniqueInv

LEMMA UnWrites ==
  ASSUME Uni!Sized, Uni!UniqueInv, NEW t \in Uni!Tasklets, Uni!Write(t)
  PROVE  Uni!UniqueInv'
<1> DEFINE l == IF t = Uni!LastTasklet THEN "update" ELSE "barrier2"
           s == Uni!Offset(t)
           e == Uni!Offset(t) + Len(unCache[t]) - unPo[t].same
           over == unAt[Uni!LastTasklet] = "barrier2"
<1>0. PICK k : k = Uni!Own(t)
  OBVIOUS
<1>1. /\ unAt[t] = "write" /\ unAt' = [unAt EXCEPT ![t] = l]
      /\ unOutput' =
           [o \in DOMAIN unOutput \cup s .. s + Len(unCache[t]) - unPo[t].same - 1 |->
             IF o >= s /\ o < s + Len(unCache[t]) - unPo[t].same
             THEN unCache[t][o - s + unPo[t].same + 1] ELSE unOutput[o]]
      /\ UNCHANGED <<unRound, unInput, unEpoch, unBox, unCache, unPo, unPartial, unLast, unLate>>
  BY DEF Uni!Write, Uni!Goto
<1>2. Uni!TypeOK /\ Uni!OutputOK /\ Uni!Running /\ UnInputs /\ unRound \in 1 .. UniRounds
  BY <1>1, UnWhere DEF Uni!TypeOK
<1>3. /\ Uni!KnowsOK(t) /\ (~ over => Uni!SoFar(Uni!Base))
      /\ over => Uni!SoFar(Uni!Base + UniN) /\ k \in unLate
  <2>1. Uni!KnowsOK(t) /\ unAt[t] = "write"
    BY <1>1, <1>2 DEF Uni!Running
  <2>2. /\ ~ over => Uni!SoFar(Uni!Base)
        /\ over => Uni!SoFar(Uni!Base + UniN) /\ Uni!Own(t) \in unLate
    BY <1>2, <2>1 DEF Uni!Running
  <2>3. QED
    BY <1>0, <2>1, <2>2
<1>4. /\ k \in 1 .. UnBlocks /\ Uni!Base \in 0 .. UnBlocks /\ Uni!Base + UniN \in 0 .. UnBlocks
      /\ k - 1 \in 0 .. UnBlocks /\ Uni!Base <= k - 1
      /\ \A u \in Uni!Tasklets : Uni!Own(u) \in 1 .. Uni!Base + UniN
  <2>1. /\ UniN \in Nat /\ UnBlocks \in Nat /\ Uni!Base \in Nat /\ Uni!Base + UniN <= UnBlocks
        /\ Uni!Tasklets = 0 .. UniN - 1 /\ \A u \in Uni!Tasklets : Uni!Own(u) = Uni!Base + u + 1
    BY <1>2, UnNumbers, UnOwn
  <2>2. \A u \in Uni!Tasklets :
          /\ Uni!Own(u) \in 1 .. Uni!Base + UniN /\ Uni!Own(u) \in 1 .. UnBlocks
          /\ Uni!Own(u) - 1 \in 0 .. UnBlocks /\ Uni!Base <= Uni!Own(u) - 1
    BY <2>1
  <2>3. QED
    BY <1>0, <2>1, <2>2
<1>5. /\ unPo[t].count \in Int /\ unPo[t].off \in Int /\ unPo[t].same \in {0, 1}
      /\ Len(unCache[t]) \in Nat
  BY <1>2 DEF Uni!TypeOK
<1>6. /\ unCache[t] = Uni!Unique(unInput[k]) /\ unPo[t].same = Uni!Same(k)
      /\ unPo[t].count - unPo[t].off = Uni!Size(k - 1) - Uni!Size(Uni!Base)
  BY <1>0, <1>1, <1>3 DEF Uni!KnowsOK
<1>7. /\ Uni!Size(k - 1) \in Nat /\ Uni!Size(k) \in Nat
      /\ Uni!Size(k) = Uni!Size(k - 1) + Len(Uni!Unique(unInput[k])) - Uni!Same(k)
      /\ Uni!Places(k) = Uni!Size(k - 1) .. Uni!Size(k) - 1
      /\ \A o \in Uni!Size(k - 1) .. Uni!Size(k) - 1 :
           Uni!Unique(unInput[k])[o - Uni!Size(k - 1) + Uni!Same(k) + 1] = Uni!Unique(Uni!Flat)[o + 1]
  BY <1>2, <1>4, UnPlaces
<1>19. Uni!Size(Uni!Base) <= Uni!Size(k - 1) /\ Uni!Size(Uni!Base) \in Nat
  <2> DEFINE j == k - 1
             x == Uni!Base
  <2>1. x \in 0 .. UnBlocks /\ j \in 0 .. UnBlocks /\ x <= j
    BY <1>4
  <2>2. Uni!Size(x) \in Nat /\ Uni!Size(j) \in Nat
    <3> HIDE DEF x, j
    <3>1. QED
      BY <1>2, <2>1, UnSizes
  <2>3. 0 .. Uni!Size(x) - 1 \subseteq 0 .. Uni!Size(j) - 1
    <3> HIDE DEF x, j
    <3>1. UNION {Uni!Places(o) : o \in 1 .. x} \subseteq UNION {Uni!Places(o) : o \in 1 .. j}
      <4>1. 1 .. x \subseteq 1 .. j
        BY <2>1
      <4>2. QED
        BY <4>1
    <3>2. QED
      BY <1>2, <2>1, <3>1, UnUnion
  <2> HIDE DEF x, j
  <2>4. Uni!Size(x) <= Uni!Size(j)
    <3>1. CASE Uni!Size(x) = 0
      BY <2>2, <3>1
    <3>2. CASE Uni!Size(x) # 0
      <4>1. Uni!Size(x) - 1 \in 0 .. Uni!Size(x) - 1
        BY <2>2, <3>2
      <4>2. Uni!Size(x) - 1 \in 0 .. Uni!Size(j) - 1
        BY <2>3, <4>1
      <4>3. QED
        BY <2>2, <4>2
    <3>3. QED
      BY <3>1, <3>2
  <2>5. QED
    BY <2>2, <2>4 DEF x, j
<1>8. /\ s \in Int /\ e \in Int
      /\ ~ over => s = Uni!Size(k - 1) /\ e = Uni!Size(k)
      /\ over => s >= Uni!Size(Uni!Base + UniN) /\ k \in unLate
  <2>1. s = unPartial + unPo[t].count - unPo[t].off /\ e = s + Len(unCache[t]) - unPo[t].same
    BY DEF Uni!Offset
  <2>2. unPartial \in Int
    BY <1>2 DEF Uni!TypeOK
  <2>3. Uni!Size(Uni!Base + UniN) \in Nat
    <3> DEFINE y == Uni!Base + UniN
    <3>1. y \in 0 .. UnBlocks
      BY <1>4
    <3> HIDE DEF y
    <3>2. Uni!Size(y) \in Nat
      BY <1>2, <3>1, UnSizes
    <3>3. QED
      BY <3>2 DEF y
  <2> HIDE DEF s, e
  <2>4. s \in Int /\ e \in Int
    BY <1>5, <2>1, <2>2
  <2>5. CASE ~ over
    <3>1. unPartial = Uni!Size(Uni!Base)
      BY <1>3, <2>5 DEF Uni!SoFar
    <3>2. s = Uni!Size(k - 1)
      BY <1>5, <1>6, <1>7, <1>19, <2>1, <3>1
    <3>3. e = Uni!Size(k)
      BY <1>5, <1>6, <1>7, <2>1, <3>2
    <3>4. QED
      BY <2>4, <2>5, <3>2, <3>3
  <2>6. CASE over
    <3>1. unPartial = Uni!Size(Uni!Base + UniN) /\ k \in unLate
      BY <1>3, <2>6 DEF Uni!SoFar
    <3>2. s >= unPartial
      BY <1>5, <1>6, <1>7, <1>19, <2>1, <2>2
    <3>3. QED
      BY <2>4, <2>6, <3>1, <3>2
  <2>7. QED
    BY <2>5, <2>6
<1> HIDE DEF s, e, l, over
<1>9. l \in {"update", "barrier2"} /\ (l = "update" => t = Uni!LastTasklet)
      /\ (l = "barrier2" => t # Uni!LastTasklet)
  BY DEF l
<1>10. unAt'[t] = l /\ \A u \in Uni!Tasklets : u # t => unAt'[u] = unAt[u]
  BY <1>1, <1>2 DEF Uni!TypeOK
<1>11. Uni!TypeOK'
  <2>1. unAt' \in [Uni!Tasklets -> Uni!Locations]
    BY <1>1, <1>2, <1>9 DEF Uni!TypeOK, Uni!Locations
  <2>2. QED
    BY <1>1, <1>2, <2>1 DEF Uni!TypeOK
<1>12. Uni!Base' = Uni!Base /\ \A u \in Uni!Tasklets : Uni!Own(u)' = Uni!Own(u)
  BY <1>1 DEF Uni!Base, Uni!Own, Uni!BlockOf
<1>13. Uni!OutputOK'
  <2>0. /\ DOMAIN unOutput' = DOMAIN unOutput \cup s .. e - 1
        /\ \A o \in DOMAIN unOutput' :
             unOutput'[o] = IF o >= s /\ o < e THEN unCache[t][o - s + unPo[t].same + 1] ELSE unOutput[o]
    <3> DEFINE w == Len(unCache[t]) - unPo[t].same
    <3>1. e = s + w
      BY DEF s, e
    <3>2. unOutput' = [o \in DOMAIN unOutput \cup s .. s + (w - 1) |->
             IF o >= s /\ o < s + w THEN unCache[t][o - s + unPo[t].same + 1] ELSE unOutput[o]]
      BY <1>1
    <3>3. w \in Int
      <4>1. unCache[t] \in Seq(Nat) /\ unPo[t] \in [count : Int, off : Int, same : {0, 1}]
        BY <1>2 DEF Uni!TypeOK
      <4>2. Len(unCache[t]) \in Nat /\ unPo[t].same \in {0, 1}
        BY <4>1
      <4>3. QED
        BY <4>2
    <3> HIDE DEF w
    <3>4. s + (w - 1) = e - 1
      BY <1>8, <3>1, <3>3
    <3>5. QED
      BY <3>1, <3>2, <3>4
  <2> DEFINE D == {u \in Uni!Tasklets : unAt[u] \in {"update", "barrier2", "report", "end"}}
  <2>1. {u \in Uni!Tasklets : unAt'[u] \in {"update", "barrier2", "report", "end"}} = D \cup {t}
    BY <1>9, <1>10
  <2>2. Uni!Written' = Uni!Written \cup {k}
    BY <1>0, <1>12, <2>1 DEF Uni!Written
  <2> DEFINE Z == UNION {Uni!Places(x) : x \in Uni!Written}
             V == UNION {Uni!Places(x)' : x \in Uni!Written'}
  <2>3. V = Z \cup Uni!Places(k)
    <3>1. \A x : Uni!Places(x)' = Uni!Places(x)
      BY <1>1, UnFixed
    <3>2. ASSUME NEW o \in V PROVE o \in Z \cup Uni!Places(k)
      <4>1. PICK x \in Uni!Written' : o \in Uni!Places(x)'
        OBVIOUS
      <4>2. x \in Uni!Written \cup {k} /\ o \in Uni!Places(x)
        BY <2>2, <3>1, <4>1
      <4>3. QED
        BY <4>2
    <3>3. ASSUME NEW o \in Z PROVE o \in V
      <4>1. PICK x \in Uni!Written : o \in Uni!Places(x)
        OBVIOUS
      <4>2. x \in Uni!Written' /\ o \in Uni!Places(x)'
        BY <2>2, <3>1, <4>1
      <4>3. QED
        BY <4>2
    <3>4. ASSUME NEW o \in Uni!Places(k) PROVE o \in V
      <4>1. k \in Uni!Written' /\ o \in Uni!Places(k)'
        BY <2>2, <3>1
      <4>2. QED
        BY <4>1
    <3> HIDE DEF V, Z
    <3>5. QED
      BY <3>2, <3>3, <3>4
  <2>4. unLate' = {} => DOMAIN unOutput' = V
    <3> SUFFICES ASSUME unLate' = {} PROVE DOMAIN unOutput' = V
      OBVIOUS
    <3>1. DOMAIN unOutput = Z /\ ~ over
      BY <1>1, <1>2, <1>3 DEF Uni!OutputOK
    <3> HIDE DEF V, Z
    <3>2. s .. e - 1 = Uni!Places(k)
      BY <1>7, <1>8, <3>1
    <3>3. DOMAIN unOutput' = DOMAIN unOutput \cup s .. e - 1
      BY <2>0
    <3>4. QED
      BY <2>3, <3>1, <3>2, <3>3
  <2> HIDE DEF V, Z
  <2>5. ASSUME NEW x \in Uni!Written' \ unLate, NEW o \in Uni!Places(x)
        PROVE  o \in DOMAIN unOutput' /\ unOutput'[o] = Uni!Unique(Uni!Flat)[o + 1]
    <3>1. x \in 1 .. Uni!Base + UniN
      <4>1. \A y \in 1 .. Uni!Base : y \in 1 .. Uni!Base + UniN
        BY <1>4, UnNumbers
      <4>2. \A y \in Uni!Written : y \in 1 .. Uni!Base + UniN
        BY <1>4, <4>1 DEF Uni!Written
      <4>3. k \in 1 .. Uni!Base + UniN
        BY <1>0, <1>4
      <4>4. QED
        BY <2>2, <4>2, <4>3
    <3>2. o \in 0 .. Uni!Size(Uni!Base + UniN) - 1
      <4> DEFINE y == Uni!Base + UniN
      <4>1. y \in 0 .. UnBlocks /\ x \in 1 .. y
        BY <1>4, <3>1
      <4>2. o \in UNION {Uni!Places(q) : q \in 1 .. y}
        BY <4>1
      <4> HIDE DEF y
      <4>3. o \in 0 .. Uni!Size(y) - 1
        BY <1>2, <4>1, <4>2, UnUnion
      <4>4. QED
        BY <4>3 DEF y
    <3>3. CASE o \in s .. e - 1
      <4>1. o >= s /\ o < e /\ ~ over
        <5> DEFINE y == Uni!Base + UniN
        <5>1. Uni!Size(y) \in Nat
          <6>1. y \in 0 .. UnBlocks
            BY <1>4
          <6> HIDE DEF y
          <6>2. QED
            BY <1>2, <6>1, UnSizes
        <5>2. o \in 0 .. Uni!Size(y) - 1 /\ (over => s >= Uni!Size(y))
          BY <1>8, <3>2
        <5> HIDE DEF y
        <5>3. o \in Int /\ o >= s /\ o < e /\ s \in Int
          BY <1>8, <3>3
        <5>4. QED
          BY <5>1, <5>2, <5>3
      <4>2. o \in DOMAIN unOutput' /\ unOutput'[o] = unCache[t][o - s + unPo[t].same + 1]
        BY <2>0, <3>3, <4>1
      <4>3. QED
        BY <1>6, <1>7, <1>8, <3>3, <4>1, <4>2
    <3>4. CASE o \notin s .. e - 1
      <4>1. x # k
        BY <1>7, <1>8, <3>4
      <4>2. o \in DOMAIN unOutput /\ unOutput[o] = Uni!Unique(Uni!Flat)[o + 1]
        BY <1>2, <2>2, <4>1 DEF Uni!OutputOK
      <4>3. unOutput'[o] = unOutput[o] /\ o \in DOMAIN unOutput'
        BY <1>8, <2>0, <3>2, <3>4, <4>2
      <4>4. QED
        BY <4>2, <4>3
    <3>5. QED
      BY <3>3, <3>4
  <2>6. /\ Uni!Unique(Uni!Flat)' = Uni!Unique(Uni!Flat) /\ unLate' = unLate
        /\ \A x : Uni!Places(x)' = Uni!Places(x)
    BY <1>1, UnFixed
  <2>7. \A x \in Uni!Written' \ unLate' : \A o \in Uni!Places(x)' :
          o \in DOMAIN unOutput' /\ unOutput'[o] = Uni!Unique(Uni!Flat)'[o + 1]
    BY <2>5, <2>6
  <2>8. QED
    BY <2>4, <2>7 DEF Uni!OutputOK, V
<1>14. \A u \in Uni!Tasklets : u # t \/ t # Uni!LastTasklet => (Uni!Sent(u)' <=> Uni!Sent(u))
  BY <1>1, <1>9, <1>10 DEF Uni!Sent
<1>15. Uni!KnowsOK(t)'
  <2>1. /\ Uni!Size(Uni!Own(t) - 1)' = Uni!Size(Uni!Own(t) - 1)
        /\ Uni!Size(Uni!Base)' = Uni!Size(Uni!Base)
        /\ Uni!Same(Uni!Own(t))' = Uni!Same(Uni!Own(t))
    BY <1>1, <1>12, UnFixed
  <2>2. \A u \in Uni!Tasklets : u < t => u # t
    BY UnNumbers
  <2>3. \A u \in Uni!Tasklets : u < t => Uni!Sent(u)'
    BY <1>1, <1>3, <1>14, <2>2 DEF Uni!KnowsOK
  <2>4. QED
    BY <1>1, <1>3, <1>9, <1>10, <1>12, <2>1, <2>3 DEF Uni!KnowsOK
<1>16. ASSUME NEW u \in Uni!Tasklets, u # 0 PROVE Uni!BoxOK(u)'
  <2>1. u - 1 \in Uni!Tasklets /\ (u - 1 # t \/ t # Uni!LastTasklet)
    BY <1>16, UnNumbers
  <2>2. Uni!Sent(u - 1)' <=> Uni!Sent(u - 1)
    BY <1>14, <2>1
  <2>3. Uni!BoxOK(u)
    BY <1>2, <1>16 DEF Uni!Running
  <2>4. QED
    BY <1>1, <1>2, <1>16, <2>2, <2>3, UnBoxKept
<1>17. Uni!Running'
  <2>1. \A u \in Uni!Tasklets : u # t =>
           unAt'[u] = unAt[u] /\ unCache'[u] = unCache[u] /\ unPo'[u] = unPo[u]
    BY <1>1, <1>10
  <2>2. unAt[t] \in {"unique", "receive", "send", "write"}
        /\ (unAt'[t] \in {"receive", "send", "write"} \/ (t = Uni!LastTasklet /\ unAt'[t] = "update")
             \/ (t # Uni!LastTasklet /\ unAt'[t] = "barrier2"))
        /\ (unAt[t] = "unique" => unAt'[t] = "receive")
    BY <1>1, <1>9, <1>10
  <2>3. UNCHANGED <<unInput, unRound, unEpoch, unPartial, unLast, unLate>>
    BY <1>1
  <2>4. t # Uni!LastTasklet => (Uni!Sent(t) => Uni!Sent(t)')
    BY <1>14
  <2>5. QED
    BY <1>2, <1>15, <1>16, <2>1, <2>2, <2>3, <2>4, UnMoves
<1>18. QED
  BY <1>11, <1>13, <1>17 DEF Uni!UniqueInv

LEMMA UnUpdates ==
  ASSUME Uni!Sized, Uni!UniqueInv, Uni!Update
  PROVE  Uni!UniqueInv'
<1> DEFINE l == Uni!LastTasklet
<1>1. /\ unAt[l] = "update"
      /\ unLate' = unLate \cup {Uni!Own(t) : t \in {u \in Uni!Tasklets : unAt[u] = "write"}}
      /\ unLast' = Uni!LastOf(unCache[l])
      /\ unPartial' = unPartial + unPo[l].count + Len(unCache[l]) - Uni!Off(l)
      /\ unAt' = [unAt EXCEPT ![l] = "barrier2"]
      /\ UNCHANGED <<unRound, unInput, unEpoch, unBox, unCache, unPo, unOutput>>
  BY DEF Uni!Update, Uni!Goto, Uni!Own
<1>2. /\ l \in Uni!Tasklets /\ l = UniN - 1 /\ Uni!Tasklets = 0 .. UniN - 1 /\ UniN \in Nat \ {0}
      /\ UnBlocks \in Nat
  BY UnNumbers
<1> HIDE DEF l
<1>3. Uni!TypeOK /\ Uni!OutputOK /\ Uni!Running /\ UnInputs /\ unRound \in 1 .. UniRounds
  BY <1>1, <1>2, UnWhere DEF Uni!TypeOK
<1>4. Uni!KnowsOK(l) /\ Uni!SoFar(Uni!Base)
  BY <1>1, <1>2, <1>3 DEF Uni!Running, l
<1>5. PICK k : k = Uni!Own(l)
  OBVIOUS
<1>6. /\ k \in 1 .. UnBlocks /\ k = Uni!Base + UniN /\ Uni!Base \in 0 .. UnBlocks /\ k # 0
  <2>1. Uni!Base \in Nat /\ Uni!Base + UniN <= UnBlocks /\ k = Uni!Base + l + 1 /\ k \in 1 .. UnBlocks
    BY <1>2, <1>3, <1>5, UnOwn
  <2>2. QED
    BY <1>2, <2>1
<1>7. /\ unPo[l].count \in Int /\ unPo[l].off \in Int /\ unPo[l].same \in {0, 1}
      /\ Len(unCache[l]) \in Nat
  BY <1>2, <1>3 DEF Uni!TypeOK
<1>8. /\ unCache[l] = Uni!Unique(unInput[k]) /\ unPo[l].same = Uni!Same(k)
      /\ unPo[l].count - unPo[l].off = Uni!Size(k - 1) - Uni!Size(Uni!Base)
  BY <1>1, <1>4, <1>5 DEF Uni!KnowsOK
<1>9. /\ Uni!Size(k - 1) \in Nat /\ Uni!Size(k) \in Nat
      /\ Uni!Size(k) = Uni!Size(k - 1) + Len(Uni!Unique(unInput[k])) - Uni!Same(k)
  BY <1>3, <1>6, UnPlaces
<1>10. unPartial' = Uni!Size(k)
  <2>1. Uni!Size(Uni!Base) \in Nat /\ unPartial = Uni!Size(Uni!Base)
    BY <1>3, <1>4, <1>6, UnSizes DEF Uni!SoFar
  <2>2. Uni!Off(l) = unPo[l].off + unPo[l].same
    BY DEF Uni!Off
  <2> DEFINE b == Len(unCache[l])
             c == unPo[l].count
             o == unPo[l].off
             m == unPo[l].same
             x == Uni!Size(k - 1)
             y == Uni!Size(k)
             z == Uni!Size(Uni!Base)
  <2>3. /\ b \in Nat /\ c \in Int /\ o \in Int /\ m \in {0, 1} /\ x \in Nat /\ y \in Nat /\ z \in Nat
        /\ c - o = x - z /\ y = x + b - m /\ unPartial' = z + c + b - (o + m)
    BY <1>1, <1>7, <1>8, <1>9, <2>1, <2>2
  <2> HIDE DEF b, c, o, m, x, y, z
  <2>4. unPartial' = y
    BY <2>3
  <2>5. QED
    BY <2>4 DEF y
<1>11. unLast' = Uni!LastOf(unInput[k]) /\ unLast' \in Nat
  BY <1>1, <1>3, <1>6, <1>8, UnCacheEnds, UnBlock
<1>12. unAt'[l] = "barrier2" /\ \A u \in Uni!Tasklets : u # l => unAt'[u] = unAt[u]
  BY <1>1, <1>2, <1>3 DEF Uni!TypeOK
<1>13. Uni!TypeOK'
  <2>1. unAt' \in [Uni!Tasklets -> Uni!Locations]
    BY <1>1, <1>3 DEF Uni!TypeOK, Uni!Locations
  <2>2. unPartial' \in Int
    BY <1>9, <1>10
  <2>3. QED
    BY <1>1, <1>3, <1>11, <2>1, <2>2 DEF Uni!TypeOK
<1>14. Uni!OutputOK'
  <2>1. \A u \in Uni!Tasklets : unAt'[u] \in {"update", "barrier2", "report", "end"} <=>
                                   unAt[u] \in {"update", "barrier2", "report", "end"}
    BY <1>1, <1>12
  <2>2. Uni!Base' = Uni!Base /\ \A u \in Uni!Tasklets : Uni!Own(u)' = Uni!Own(u)
    BY <1>1 DEF Uni!Base, Uni!Own, Uni!BlockOf
  <2>3. Uni!Written' = Uni!Written
    BY <2>1, <2>2 DEF Uni!Written
  <2>4. UNION {Uni!Places(x) : x \in Uni!Written}' = UNION {Uni!Places(x) : x \in Uni!Written}
    BY <1>1, <2>3, UnFixed
  <2>5. unLate \subseteq unLate'
    BY <1>1
  <2>6. /\ \A q : Uni!Places(q)' = Uni!Places(q)
        /\ Uni!Unique(Uni!Flat)' = Uni!Unique(Uni!Flat) /\ unOutput' = unOutput
    BY <1>1, UnFixed
  <2>7. \A q \in (Uni!Written \ unLate)' : \A o \in Uni!Places(q)' :
          o \in DOMAIN unOutput' /\ unOutput'[o] = Uni!Unique(Uni!Flat)'[o + 1]
    BY <1>3, <2>3, <2>5, <2>6 DEF Uni!OutputOK
  <2>8. unLate' = {} => DOMAIN unOutput' = UNION {Uni!Places(x) : x \in Uni!Written}'
    BY <1>3, <2>4, <2>5, <2>6 DEF Uni!OutputOK
  <2>9. QED
    BY <2>7, <2>8 DEF Uni!OutputOK
<1>15. \A u \in Uni!Tasklets : Uni!Sent(u) => Uni!Sent(u)'
  BY <1>1, <1>12 DEF Uni!Sent
<1>16. \A u \in Uni!Tasklets : u # l => (Uni!Sent(u)' <=> Uni!Sent(u))
  BY <1>12 DEF Uni!Sent
<1>17. Uni!Base' = Uni!Base /\ \A u \in Uni!Tasklets : Uni!Own(u)' = Uni!Own(u)
  BY <1>1 DEF Uni!Base, Uni!Own, Uni!BlockOf
<1>18. ASSUME NEW u \in Uni!Tasklets PROVE Uni!KnowsOK(u)'
  <2>1. CASE u = l
    <3>1. /\ Uni!Size(Uni!Own(u) - 1)' = Uni!Size(Uni!Own(u) - 1)
          /\ Uni!Size(Uni!Base)' = Uni!Size(Uni!Base)
          /\ Uni!Same(Uni!Own(u))' = Uni!Same(Uni!Own(u))
      BY <1>1, <1>17, UnFixed
    <3>2. \A w \in Uni!Tasklets : w < u => Uni!Sent(w)'
      BY <1>1, <1>4, <1>15, <2>1 DEF Uni!KnowsOK
    <3>3. QED
      BY <1>1, <1>4, <1>12, <1>17, <2>1, <3>1, <3>2 DEF Uni!KnowsOK
  <2>2. CASE u # l
    <3>1. Uni!KnowsOK(u)
      BY <1>3 DEF Uni!Running
    <3>2. QED
      BY <1>1, <1>12, <1>15, <2>2, <3>1, UnKnowsKept
  <2>3. QED
    BY <2>1, <2>2
<1>19. ASSUME NEW u \in Uni!Tasklets, u # 0 PROVE Uni!BoxOK(u)'
  <2>1. u - 1 \in Uni!Tasklets /\ u - 1 # l
    BY <1>2, <1>19
  <2>2. Uni!BoxOK(u) /\ (Uni!Sent(u - 1)' <=> Uni!Sent(u - 1))
    BY <1>3, <1>16, <1>19, <2>1 DEF Uni!Running
  <2>3. QED
    BY <1>1, <1>3, <1>19, <2>2, UnBoxKept
<1>20. Uni!Running'
  <2>1. \A u \in Uni!Tasklets :
          \/ unAt'[u] \in {"unique", "receive", "send", "write", "barrier2"}
          \/ u = Uni!LastTasklet /\ unAt'[u] = "update"
    BY <1>3, <1>12 DEF Uni!Running
  <2>2. unEpoch' = unRound' + 1
    BY <1>1, <1>3 DEF Uni!Running
  <2>3. \A u \in Uni!Tasklets : unAt'[u] = "write" => Uni!Own(u)' \in unLate'
    BY <1>1, <1>12, <1>17
  <2>4. Uni!SoFar(Uni!Base + UniN)'
    <3>1. Uni!Size(k)' = Uni!Size(k)
      BY <1>1, UnFixed
    <3>2. Uni!SoFar(k)'
      BY <1>1, <1>6, <1>10, <1>11, <3>1 DEF Uni!SoFar
    <3>3. (Uni!Base + UniN)' = k
      BY <1>6, <1>17
    <3>4. Uni!Size(Uni!Base + UniN)' = Uni!Size(k)'
      <4>1. Uni!Size(Uni!Base + UniN)' = Uni!Size(Uni!Base + UniN)
        BY <1>1, <1>17, UnFixed
      <4>2. QED
        BY <1>6, <3>1, <4>1
    <3>5. QED
      BY <3>2, <3>3, <3>4 DEF Uni!SoFar
  <2>5. unAt'[Uni!LastTasklet] = "barrier2"
    BY <1>12 DEF l
  <2>6. QED
    BY <1>18, <1>19, <2>1, <2>2, <2>3, <2>4, <2>5 DEF Uni!Running
<1>21. QED
  BY <1>13, <1>14, <1>20 DEF Uni!UniqueInv

LEMMA UnStutters ==
  ASSUME Uni!Sized, Uni!UniqueInv, UNCHANGED Uni!vars
  PROVE  Uni!UniqueInv'
<1>1. /\ UNCHANGED <<unAt, unRound, unInput, unEpoch, unBox, unCache, unPo, unPartial, unLast>>
      /\ UNCHANGED <<unOutput, unTotal, unLate>>
  BY DEF Uni!vars
<1>2. Uni!TypeOK /\ Uni!OutputOK /\ (Uni!Starting \/ Uni!Running \/ Uni!Closing)
  BY DEF Uni!UniqueInv
<1>3. Uni!TypeOK'
  BY <1>1, <1>2 DEF Uni!TypeOK
<1>4. Uni!OutputOK'
  BY <1>1, <1>2, UnUnwritten
<1>5. \A k : Uni!SoFar(k) => Uni!SoFar(k)'
  BY <1>1, UnSoFar
<1>6. Uni!Base' = Uni!Base
  BY <1>1 DEF Uni!Base
<1>7. Uni!Starting => Uni!Starting'
  BY <1>1, <1>5, <1>6, UnFixed DEF Uni!Starting, Uni!SoFar
<1>8. Uni!Closing => Uni!Closing'
  BY <1>1, <1>5, UnFixed DEF Uni!Closing, Uni!SoFar
<1>9. Uni!Running => Uni!Running'
  <2> SUFFICES ASSUME Uni!Running PROVE Uni!Running'
    OBVIOUS
  <2>1. \A t \in Uni!Tasklets : Uni!Sent(t) => Uni!Sent(t)'
    BY <1>1 DEF Uni!Sent
  <2>2. ASSUME NEW t \in Uni!Tasklets PROVE Uni!KnowsOK(t)'
    BY <1>1, <2>1, UnKnowsKept DEF Uni!Running
  <2>3. ASSUME NEW t \in Uni!Tasklets, t # 0 PROVE Uni!BoxOK(t)'
    <3>1. Uni!BoxOK(t) /\ (Uni!Sent(t - 1)' <=> Uni!Sent(t - 1)) /\ unRound \in 1 .. UniRounds
      BY <1>1, <1>2, <2>3 DEF Uni!Running, Uni!Sent, Uni!TypeOK
    <3>2. QED
      BY <1>1, <2>3, <3>1, UnBoxKept
  <2>4. IF unAt'[Uni!LastTasklet] = "barrier2"
        THEN /\ Uni!SoFar(Uni!Base + UniN)'
             /\ \A t \in Uni!Tasklets : unAt'[t] = "write" => Uni!Own(t)' \in unLate'
        ELSE Uni!SoFar(Uni!Base)'
    <3>1. \A k : Uni!Size(k)' = Uni!Size(k)
      BY <1>1, UnFixed
    <3>2. Uni!SoFar(Uni!Base + UniN) => Uni!SoFar(Uni!Base + UniN)'
      BY <1>1, <1>6, <3>1 DEF Uni!SoFar
    <3>3. Uni!SoFar(Uni!Base) => Uni!SoFar(Uni!Base)'
      BY <1>1, <1>6, <3>1 DEF Uni!SoFar
    <3>4. \A t \in Uni!Tasklets : Uni!Own(t)' = Uni!Own(t)
      BY <1>1 DEF Uni!Own, Uni!BlockOf
    <3>5. QED
      BY <1>1, <3>2, <3>3, <3>4 DEF Uni!Running
  <2>5. QED
    BY <1>1, <2>2, <2>3, <2>4 DEF Uni!Running
<1>10. QED
  BY <1>2, <1>3, <1>4, <1>7, <1>8, <1>9 DEF Uni!UniqueInv

LEMMA UnPreserves ==
  ASSUME Uni!Sized, Uni!UniqueInv, [Uni!Next]_(Uni!vars)
  PROVE  Uni!UniqueInv'
<1>1. CASE UNCHANGED Uni!vars
  BY <1>1, UnStutters
<1>2. CASE Uni!Together
  BY <1>2, UnBumps, UnBegin, UnUpdates, UnRoundEnds, UnReports DEF Uni!Together
<1>3. CASE \E t \in Uni!Tasklets : Uni!Tasklet(t)
  BY <1>3, UnDrops, UnReceives, UnSends, UnWrites DEF Uni!Tasklet
<1>4. QED
  BY <1>1, <1>2, <1>3 DEF Uni!Next

LEMMA UnSafe ==
  ASSUME Uni!Sized, Uni!UniqueInv
  PROVE  Uni!NeighboursDropped
<1> SUFFICES ASSUME Uni!Ended
             PROVE  /\ unTotal = Len(Uni!Unique(Uni!Flat))
                    /\ \A k \in 1 .. UnBlocks : k \notin unLate => \A o \in Uni!Places(k) :
                         o \in DOMAIN unOutput /\ unOutput[o] = Uni!Unique(Uni!Flat)[o + 1]
                    /\ unLate = {} => DOMAIN unOutput = 0 .. unTotal - 1
  BY DEF Uni!NeighboursDropped, UnBlocks
<1>1. 0 \in Uni!Tasklets /\ \A t \in Uni!Tasklets : unAt[t] = "end"
  BY UnNumbers DEF Uni!Ended
<1>2. Uni!Closing /\ Uni!OutputOK /\ UnInputs /\ Uni!TypeOK
  BY <1>1, UnWhere
<1>3. unRound = UniRounds /\ unRound \in 1 .. UniRounds /\ unTotal = Uni!Size(UnBlocks)
  BY <1>1, <1>2 DEF Uni!Closing, Uni!TypeOK, UnBlocks
<1>4. Uni!Written = 1 .. UnBlocks
  BY <1>1, <1>3, UnRoundIsWritten, UnOwn
<1>5. UNION {Uni!Places(k) : k \in 1 .. UnBlocks} = 0 .. unTotal - 1
  <2>1. UnBlocks \in 0 .. UnBlocks
    BY UnNumbers
  <2>2. QED
    BY <1>2, <1>3, <2>1, UnUnion
<1>6. Uni!Size(UnBlocks) = Len(Uni!Unique(Uni!Flat))
  BY DEF Uni!Size, Uni!Result, Uni!Flat, UnBlocks
<1>7. QED
  BY <1>2, <1>3, <1>4, <1>5, <1>6 DEF Uni!OutputOK

-----------------------------------------------------------------------------
(***************************************************************************)
(* What a handshake tells a tasklet is of this round and the prefix it     *)
(* stands for, so SEL compacts, UNI keeps equal neighbours once and the    *)
(* scans add what lies before a block.  For every number of tasklets, of   *)
(* rounds and of DPUs, and any contents of the blocks; a tasklet that is   *)
(* overtaken by the update of the sum, or in SEL keeps nothing, harms only *)
(* the places that the properties of the modules name.                     *)
(***************************************************************************)
THEOREM PrefixesStayRight == MCSpec => []PrefixesAreRight
<1> DEFINE Inv == /\ kernel = "SEL" => Sel!SelectInv
                  /\ kernel = "SCAN" => Scans!ScanInv
                  /\ kernel = "UNI" => Uni!UniqueInv
<1>1. MCInit => Inv
  BY SelAssumption, SelInit, ScanAssumption, ScInit, UniAssumption, UnInit DEF MCInit, KernelInit
<1>2. Inv /\ [MCNext]_all => Inv'
  <2> SUFFICES ASSUME Inv, [MCNext]_all PROVE Inv'
    OBVIOUS
  <2>1. CASE kernel' = "SEL"
    <3>1. kernel = "SEL" /\ [Sel!Next]_(Sel!vars)
      BY <2>1 DEF MCNext, all, group, Sel!vars
    <3>2. QED
      BY <2>1, <3>1, SelAssumption, SelPreserves
  <2>2. CASE kernel' = "SCAN"
    <3>1. kernel = "SCAN" /\ [Scans!Next]_(Scans!vars)
      BY <2>2 DEF MCNext, all, group, Scans!vars
    <3>2. QED
      BY <2>2, <3>1, ScanAssumption, ScPreserves
  <2>3. CASE kernel' = "UNI"
    <3>1. kernel = "UNI" /\ [Uni!Next]_(Uni!vars)
      BY <2>3 DEF MCNext, all, group, Uni!vars
    <3>2. QED
      BY <2>3, <3>1, UniAssumption, UnPreserves
  <2>4. QED
    BY <2>1, <2>2, <2>3
<1>3. Inv => PrefixesAreRight
  BY SelAssumption, SelSafe, ScanAssumption, ScSafe, UniAssumption, UnSafe DEF PrefixesAreRight
<1>4. QED
  BY <1>1, <1>2, <1>3, PTL DEF MCSpec

-----------------------------------------------------------------------------
at == m1

\* The first stage.
size == m2
tags == m3
run == m4
reg == m5
USE DEF at, size, tags, run, reg

\* The blocks from a to b, then those from b to c.
LEMMA BlocksJoin ==
  ASSUME NEW a \in Int, NEW b \in Int, NEW c \in Int, a <= b, b <= c
  PROVE  /\ First!Blocks(a, b) \in Seq(First!Symbols)
         /\ First!Blocks(a, b) \o First!Blocks(b, c) = First!Blocks(a, c)
<1> USE DEF First!Blocks
<1>1. \A x, y \in Int : x <= y =>
        /\ First!Blocks(x, y) \in Seq(First!Symbols) /\ Len(First!Blocks(x, y)) = y - x
        /\ \A k \in 1 .. y - x : First!Blocks(x, y)[k] = x + k - 1
  <2> SUFFICES ASSUME NEW x \in Int, NEW y \in Int, x <= y
               PROVE  /\ First!Blocks(x, y) \in Seq(First!Symbols) /\ Len(First!Blocks(x, y)) = y - x
                      /\ \A k \in 1 .. y - x : First!Blocks(x, y)[k] = x + k - 1
    OBVIOUS
  <2>1. y - x \in Nat /\ \A k \in 1 .. y - x : x + k - 1 \in First!Symbols
    BY DEF First!Symbols
  <2>2. [k \in 1 .. y - x |-> x + k - 1] \in Seq(First!Symbols)
    BY <2>1, IsASeq
  <2>3. QED
    BY <2>1, <2>2
<1> DEFINE s == First!Blocks(a, b)
           t == First!Blocks(b, c)
           u == First!Blocks(a, c)
<1>2. /\ s \in Seq(First!Symbols) /\ Len(s) = b - a /\ \A k \in 1 .. b - a : s[k] = a + k - 1
      /\ t \in Seq(First!Symbols) /\ Len(t) = c - b /\ \A k \in 1 .. c - b : t[k] = b + k - 1
      /\ u \in Seq(First!Symbols) /\ Len(u) = c - a /\ \A k \in 1 .. c - a : u[k] = a + k - 1
  <2> HIDE DEF First!Blocks
  <2>1. a <= c
    OBVIOUS
  <2>2. QED
    BY <1>1, <2>1
<1> HIDE DEF s, t, u
<1>3. /\ s \o t \in Seq(First!Symbols) /\ Len(s \o t) = Len(s) + Len(t)
      /\ \A k \in 1 .. Len(s) + Len(t) : (s \o t)[k] = IF k <= Len(s) THEN s[k] ELSE t[k - Len(s)]
  BY <1>2, ConcatProperties
<1>4. \A k \in 1 .. Len(s \o t) : (s \o t)[k] = u[k]
  BY <1>2, <1>3
<1>5. s \o t = u
  <2>1. \A v, w \in Seq(First!Symbols) :
          Len(v) = Len(w) /\ (\A k \in 1 .. Len(v) : v[k] = w[k]) => v = w
    BY SeqEqual
  <2>2. Len(s \o t) = Len(u)
    BY <1>2, <1>3
  <2>3. QED
    BY <1>2, <1>3, <1>4, <2>1, <2>2
<1>6. QED
  BY <1>2, <1>5 DEF s, t, u

\* The loader and the first stage feed the same blocks, whatever the size.
LEMMA SealedIsVerified ==
  ASSUME First!Sized, NEW p \in FslPages
  PROVE  LET b == First!Header + FslChunk * p
         IN  First!Sealed(b) = First!Verified(b) /\ First!Sealed(b) \in Seq(First!Symbols)
<1> DEFINE b == First!Header + FslChunk * p
           head == <<"magic", "zero">>
           last == <<b, 0>>
<1>1. FslChunk \in Nat \ {0} /\ p \in Nat /\ First!Header = 4 /\ b \in Int /\ b >= 4
  BY DEF First!Sized, First!Header
<1>2. First!Chunks(4, b) * FslChunk = b - 4
  <2>1. FslChunk * p \in Nat /\ b - 4 = FslChunk * p
    BY <1>1
  <2>2. (FslChunk * p) \div FslChunk = p
    BY <1>1
  <2>3. QED
    BY <1>1, <2>1, <2>2 DEF First!Chunks
<1>3. First!Sealed(b) = head \o First!Blocks(2, 4) \o First!Blocks(4, b) \o last
  <2>1. 4 + First!Chunks(4, b) * FslChunk = b
    BY <1>1, <1>2 DEF First!Chunks
  <2>2. QED
    BY <1>1, <2>1 DEF First!Sealed
<1>4. First!Verified(b) = head \o First!Blocks(2, b) \o last
  BY DEF First!Verified
<1>5. /\ First!Blocks(2, 4) \in Seq(First!Symbols) /\ First!Blocks(4, b) \in Seq(First!Symbols)
      /\ First!Blocks(2, 4) \o First!Blocks(4, b) = First!Blocks(2, b)
  BY <1>1, BlocksJoin
<1>6. head \in Seq(First!Symbols) /\ last \in Seq(First!Symbols)
  BY <1>1 DEF First!Symbols
<1> HIDE DEF head, last, b
<1>7. (head \o First!Blocks(2, 4)) \o First!Blocks(4, b) = head \o First!Blocks(2, b)
  <2>1. \A s, t, u \in Seq(First!Symbols) : (s \o t) \o u = s \o (t \o u)
    BY ConcatAssociative
  <2>2. (head \o First!Blocks(2, 4)) \o First!Blocks(4, b)
          = head \o (First!Blocks(2, 4) \o First!Blocks(4, b))
    BY <1>5, <1>6, <2>1, Zenon
  <2>3. QED
    BY <1>5, <2>2, Zenon
<1>8. First!Sealed(b) = First!Verified(b)
  BY <1>3, <1>4, <1>7
<1>9. First!Sealed(b) \in Seq(First!Symbols)
  BY <1>3, <1>5, <1>6, ConcatProperties
<1>10. QED
  BY <1>8, <1>9 DEF b

LEMMA FirstInit ==
  ASSUME First!Init
  PROVE  First!StageInv
<1> USE DEF First!Init, First!Nothing, First!Images
<1>1. First!SealOK
  BY DEF First!SealOK
<1>2. First!KeeperOK
  BY DEF First!KeeperOK
<1>3. QED
  BY <1>1, <1>2 DEF First!StageInv, First!SecretsInPlace

LEMMA FirstSeals ==
  ASSUME First!Sized, First!StageInv, First!Seal
  PROVE  First!StageInv'
<1>1. /\ at = "seal" /\ at' = "seal" /\ size' = size /\ run' = run /\ reg' = reg
      /\ tags' = Append(tags, First!Sealed(size[Len(tags) + 1]))
  BY DEF First!Seal
<1>0. Len(tags) \in Nat /\ Len(tags) <= 3
  BY DEF First!Seal, First!StageInv, First!SealOK, First!Images
<1>2. size[Len(tags) + 1] \in {First!Header + FslChunk * p : p \in FslPages}
  <2>1. Len(tags) + 1 \in First!Images
    BY <1>0 DEF First!Images
  <2>2. QED
    BY <2>1 DEF First!StageInv, First!SealOK
<1>3. PICK pages \in FslPages : size[Len(tags) + 1] = First!Header + FslChunk * pages
  BY <1>2
<1> DEFINE new == First!Sealed(size[Len(tags) + 1])
<1>4. new = First!Verified(size[Len(tags) + 1]) /\ new \in Seq(First!Symbols)
  BY <1>3, SealedIsVerified
<1>5. tags \in Seq(Seq(First!Symbols)) /\ \A k \in 1 .. Len(tags) : tags[k] = First!Verified(size[k])
  BY DEF First!StageInv, First!SealOK
<1> HIDE DEF new
<1>6. /\ tags' \in Seq(Seq(First!Symbols)) /\ Len(tags') = Len(tags) + 1
      /\ tags'[Len(tags) + 1] = new /\ \A k \in 1 .. Len(tags) : tags'[k] = tags[k]
  BY <1>1, <1>4, <1>5 DEF new
<1>7. \A k \in 1 .. Len(tags') : tags'[k] = First!Verified(size[k])
  <2>1. PICK l \in Nat : l = Len(tags) /\ Len(tags') = l + 1
    BY <1>0, <1>6
  <2>2. \A k \in 1 .. l : tags'[k] = First!Verified(size[k])
    BY <1>5, <1>6, <2>1
  <2>3. tags'[l + 1] = First!Verified(size[l + 1])
    BY <1>4, <1>6, <2>1
  <2>4. \A k \in 1 .. l + 1 : k \in 1 .. l \/ k = l + 1
    OBVIOUS
  <2>5. QED
    BY <2>1, <2>2, <2>3, <2>4
<1>8. First!SealOK'
  <2>1. Len(tags') <= 4
    BY <1>0, <1>6
  <2>2. size' \in [First!Images -> {First!Header + FslChunk * p : p \in FslPages}]
    BY <1>1 DEF First!StageInv, First!SealOK
  <2>3. QED
    BY <1>1, <1>6, <1>7, <2>1, <2>2 DEF First!SealOK
<1>9. First!KeeperOK' /\ First!SecretsInPlace'
  BY <1>1 DEF First!StageInv, First!KeeperOK, First!SecretsInPlace
<1>10. QED
  BY <1>8, <1>9 DEF First!StageInv

\* The steps after the images are sealed.
LEMMA FirstHandsOver ==
  ASSUME First!StageInv,
         \/ First!BootKeepers \/ First!Delay \/ First!Check
         \/ \E t \in First!Keepers : First!Load(t) \/ First!Stop(t)
  PROVE  First!StageInv'
<1> USE DEF First!StageInv, First!KeeperOK, First!SecretsInPlace
<1>1. Len(size) = 4
  BY DEF First!SealOK, First!Images
<1>2. size' = size /\ tags' = tags
  BY DEF First!BootKeepers, First!Delay, First!Check, First!Load, First!Stop
<1>3. (at' # "seal" => Len(tags) = 4)
  BY <1>1 DEF First!SealOK, First!BootKeepers, First!Delay, First!Check, First!Load, First!Stop
<1>4. First!SealOK'
  BY <1>2, <1>3 DEF First!SealOK
<1>5. CASE First!BootKeepers
  BY <1>4, <1>5 DEF First!BootKeepers
<1>6. CASE First!Delay
  BY <1>4, <1>6 DEF First!Delay
<1>7. CASE First!Check
  BY <1>4, <1>7 DEF First!Check, First!StillRun
<1>8. ASSUME NEW t \in First!Keepers, First!Load(t) PROVE First!StageInv'
  BY <1>4, <1>8 DEF First!Load
<1>9. ASSUME NEW t \in First!Keepers, First!Stop(t) PROVE First!StageInv'
  BY <1>4, <1>9 DEF First!Stop
<1>10. QED
  BY <1>5, <1>6, <1>7, <1>8, <1>9

LEMMA FirstPreserves ==
  ASSUME First!Sized, First!StageInv, [First!Next]_(First!vars)
  PROVE  First!StageInv'
<1>1. CASE UNCHANGED First!vars
  BY <1>1 DEF First!vars, First!StageInv, First!SealOK, First!KeeperOK, First!SecretsInPlace
<1>2. QED
  BY <1>1, FirstSeals, FirstHandsOver DEF First!Next

\* The invariant says what the run checks.
LEMMA FirstSafe ==
  ASSUME First!StageInv
  PROVE  First!ImagesAccepted /\ First!SecretsInPlace
BY DEF First!StageInv, First!SealOK, First!ImagesAccepted, First!Images

\* The loader accepts every image that the first stage has sealed, and finds the
\* key and the index of the counter, if it starts at all (fsl/main.c, boot.S).
THEOREM StageHandsOver == MCSpec => []HandedOver
<1> DEFINE Inv == kernel = "first stage" => First!StageInv
<1>1. MCInit => Inv
  BY FirstInit DEF MCInit, KernelInit
<1>2. Inv /\ [MCNext]_all => Inv'
  <2> SUFFICES ASSUME Inv, [MCNext]_all, kernel' = "first stage" PROVE First!StageInv'
    OBVIOUS
  <2>1. kernel = "first stage" /\ [First!Next]_(First!vars)
    BY DEF MCNext, all, group, First!vars
  <2>2. QED
    BY <2>1, FirstPreserves, FslAssumption
<1>3. Inv => HandedOver
  BY FirstSafe DEF HandedOver
<1>4. QED
  BY <1>1, <1>2, <1>3, PTL DEF MCSpec

-----------------------------------------------------------------------------
(* The counter: arithmetic. *)

thread == m2
ctr == m3
io == m4
flag == m5
issued == m6
USE DEF thread, ctr, io, flag, issued

Word == Ctr!Word
Words == Ctr!Words
Limit == Ctr!Limit
Step == CtrStep
USE DEF Word, Words, Limit, Step

\* A word has two halves of an even number of values.
LEMMA EvenStep ==
  ASSUME Ctr!Sized
  PROVE  \E h \in Nat \ {0} : Step = 2 * h /\ CtrD \in 0 .. h
<1> DEFINE half == Step \div 2
<1>1. Step \in Nat \ {0} /\ Step % 2 = 0 /\ CtrD \in 0 .. half
  BY DEF Ctr!Sized
<1>2. half \in Nat \ {0} /\ Step = 2 * half
  BY <1>1
<1> HIDE DEF half
<1>3. QED
  BY <1>1, <1>2

\* The sizes are positive.
LEMMA CtrSizes ==
  ASSUME Ctr!Sized
  PROVE  /\ Step \in Nat \ {0} /\ Word \in Nat \ {0} /\ Word * Word \in Nat \ {0}
         /\ Limit \in Nat \ {0} /\ Step <= Word
         /\ Ctr!Dpus \subseteq Nat /\ \A d \in Ctr!Dpus : 2 * d + 1 < Step
<1>1. PICK h \in Nat \ {0} : Step = 2 * h /\ CtrD \in 0 .. h
  BY EvenStep
<1>2. Step \in Nat \ {0} /\ Step * Step \in Nat
  BY <1>1
<1>3. Step * Step >= Step
  <2>1. Step * Step = Step + (Step - 1) * Step
    BY <1>2
  <2>2. (Step - 1) * Step \in Nat
    BY <1>2
  <2>3. QED
    BY <1>2, <2>1, <2>2
<1>4. ASSUME NEW a \in Nat \ {0}, NEW b \in Nat \ {0} PROVE a * b \in Nat \ {0}
  <2>1. a * b = b + (a - 1) * b /\ (a - 1) * b \in Nat
    OBVIOUS
  <2>2. QED
    BY <2>1
<1>5. Word \in Nat \ {0} /\ Step <= Word
  BY <1>2, <1>3 DEF Ctr!Word
<1>6. Word * Word \in Nat \ {0}
  BY <1>4, <1>5
<1>7. Word * Word * Word \in Nat \ {0}
  BY <1>4, <1>5, <1>6
<1>8. QED
  BY <1>1, <1>2, <1>5, <1>6, <1>7 DEF Ctr!Limit, Ctr!Dpus

\* A number below twice the modulus.
LEMMA Modulo ==
  ASSUME NEW b \in Nat \ {0}, NEW a \in 0 .. 2 * b - 1
  PROVE  a % b = IF a < b THEN a ELSE a - b
OBVIOUS

\* A word plus what fits into a word and a carry.
LEMMA WordSum ==
  ASSUME Ctr!Sized, NEW x \in 0 .. Word - 1, NEW y \in 0 .. Word
  PROVE  (x + y) % Word = IF x + y < Word THEN x + y ELSE x + y - Word
<1>1. Word \in Nat \ {0} /\ x + y \in 0 .. 2 * Word - 1
  BY CtrSizes
<1>2. \A a \in 0 .. 2 * Word - 1 : a % Word = IF a < Word THEN a ELSE a - Word
  BY <1>1, Modulo
<1>3. QED
  BY <1>1, <1>2

\* Three digits stand for a number below Limit.
LEMMA ValueBound ==
  ASSUME Ctr!Sized, NEW x \in Words, NEW y \in Words, NEW z \in Words
  PROVE  x + Word * y + Word * Word * z \in 0 .. Limit - 1
<1>1. Word \in Nat \ {0} /\ Word * Word \in Nat
  BY CtrSizes
<1>2. Word * y \in Nat /\ Word * (Word - 1 - y) \in Nat
  BY <1>1 DEF Ctr!Words
<1>3. Word * y + Word * (Word - 1 - y) = Word * Word - Word
  BY <1>1 DEF Ctr!Words
<1>4. Word * Word * z \in Nat /\ Word * Word * (Word - 1 - z) \in Nat
  BY <1>1 DEF Ctr!Words
<1>5. Word * Word * z + Word * Word * (Word - 1 - z) = Limit - Word * Word
  BY <1>1 DEF Ctr!Words, Ctr!Limit
<1>6. Limit \in Nat
  BY CtrSizes
<1>7. QED
  BY <1>1, <1>2, <1>3, <1>4, <1>5, <1>6 DEF Ctr!Words

\* The words of a sum, one by one.
LEMMA SumWords ==
  ASSUME Ctr!Sized, NEW c \in [1 .. 4 -> Words]
  PROVE  LET w == Ctr!Sum(c).words
             full1 == c[1] + Step >= Word
             full2 == full1 /\ c[2] = Word - 1
         IN  /\ w \in [1 .. 4 -> Words]
             /\ w[1] = IF full1 THEN c[1] + Step - Word ELSE c[1] + Step
             /\ w[2] = IF full1 THEN (IF full2 THEN 0 ELSE c[2] + 1) ELSE c[2]
             /\ w[3] = IF full2 THEN (IF c[3] = Word - 1 THEN 0 ELSE c[3] + 1) ELSE c[3]
<1> DEFINE w == Ctr!Sum(c).words
           full1 == c[1] + Step >= Word
           full2 == full1 /\ c[2] = Word - 1
<1>1. Word \in Nat \ {0} /\ Step \in Nat \ {0} /\ Step <= Word
  BY CtrSizes
<1>2. \A k \in 1 .. 4 : c[k] \in 0 .. Word - 1
  BY DEF Ctr!Words
<1>3. w = [k \in 1 .. 4 |-> (c[k] + Ctr!Addend(c, k)) % Word]
  BY DEF Ctr!Sum
<1>4. \A k \in 1 .. 4 : Ctr!Addend(c, k) \in 0 .. Word
  BY <1>1 DEF Ctr!Addend
<1>5. \A k \in 1 .. 4 : w[k] = IF c[k] + Ctr!Addend(c, k) < Word THEN c[k] + Ctr!Addend(c, k)
                               ELSE c[k] + Ctr!Addend(c, k) - Word
  <2>1. \A k \in 1 .. 4 : w[k] = (c[k] + Ctr!Addend(c, k)) % Word
    BY <1>3
  <2> HIDE DEF w
  <2>2. QED
    BY <1>2, <1>4, <2>1, WordSum
<1>6. w \in [1 .. 4 -> Words]
  <2>1. \A k \in 1 .. 4 : w[k] \in Words
    <3> TAKE k \in 1 .. 4
    <3> HIDE DEF w
    <3>1. c[k] \in 0 .. Word - 1 /\ Ctr!Addend(c, k) \in 0 .. Word
      BY <1>2, <1>4
    <3>2. QED
      BY <1>1, <1>5, <3>1 DEF Ctr!Words
  <2>2. QED
    BY <1>3, <2>1
<1>7. Ctr!Addend(c, 1) = Step
  BY DEF Ctr!Addend
<1>8. Ctr!Addend(c, 2) = IF full1 THEN 1 ELSE 0
  BY DEF Ctr!Addend
<1>9. Ctr!Addend(c, 3) = IF full2 THEN 1 ELSE 0
  BY DEF Ctr!Addend
<1> HIDE DEF w
<1>10. w[1] = IF full1 THEN c[1] + Step - Word ELSE c[1] + Step
  BY <1>1, <1>2, <1>5, <1>7
<1>11. w[2] = IF full1 THEN (IF full2 THEN 0 ELSE c[2] + 1) ELSE c[2]
  BY <1>1, <1>2, <1>5, <1>8
<1>12. w[3] = IF full2 THEN (IF c[3] = Word - 1 THEN 0 ELSE c[3] + 1) ELSE c[3]
  BY <1>1, <1>2, <1>5, <1>9
<1>13. QED
  BY <1>6, <1>10, <1>11, <1>12 DEF w

\* The carries make the three words one number.
LEMMA SumAdds ==
  ASSUME Ctr!Sized, NEW c \in [1 .. 4 -> Words]
  PROVE  /\ Ctr!Value(c) \in 0 .. Limit - 1 /\ Ctr!Value(Ctr!Sum(c).words) \in 0 .. Limit - 1
         /\ Ctr!Reduces(Ctr!Value(Ctr!Sum(c).words), Ctr!Value(c) + Step)
<1> DEFINE w == Ctr!Sum(c).words
           full1 == c[1] + Step >= Word
           full2 == full1 /\ c[2] = Word - 1
<1>1. Word \in Nat \ {0} /\ Step \in Nat \ {0} /\ Word * Word \in Nat /\ Limit \in Nat
  BY CtrSizes
<1>2. /\ w \in [1 .. 4 -> Words]
      /\ w[1] = IF full1 THEN c[1] + Step - Word ELSE c[1] + Step
      /\ w[2] = IF full1 THEN (IF full2 THEN 0 ELSE c[2] + 1) ELSE c[2]
      /\ w[3] = IF full2 THEN (IF c[3] = Word - 1 THEN 0 ELSE c[3] + 1) ELSE c[3]
  BY SumWords
<1> HIDE DEF w
<1>3. \A k \in 1 .. 4 : c[k] \in Int
  BY <1>1 DEF Ctr!Words
<1>4. Ctr!Value(c) \in 0 .. Limit - 1 /\ Ctr!Value(w) \in 0 .. Limit - 1
  BY <1>2, ValueBound DEF Ctr!Value
<1>5. Ctr!Value(w) = Ctr!Value(c) + Step \/ Ctr!Value(w) = Ctr!Value(c) + Step - Limit
  <2>1. CASE ~ full1
    BY <1>1, <1>2, <1>3, <2>1 DEF Ctr!Value
  <2>2. CASE full1 /\ ~ full2
    <3>1. w[1] = c[1] + Step - Word /\ w[2] = c[2] + 1 /\ w[3] = c[3]
      BY <1>2, <2>2
    <3>2. Word * (c[2] + 1) = Word * c[2] + Word
      BY <1>1, <1>3
    <3>3. Word * c[2] \in Int /\ Word * Word * c[3] \in Int
      BY <1>1, <1>3
    <3>4. QED
      BY <1>1, <1>3, <3>1, <3>2, <3>3 DEF Ctr!Value
  <2>3. CASE full2 /\ c[3] # Word - 1
    <3>1. w[1] = c[1] + Step - Word /\ w[2] = 0 /\ c[2] = Word - 1 /\ w[3] = c[3] + 1
      BY <1>2, <2>3
    <3>2. Word * Word * (c[3] + 1) = Word * Word * c[3] + Word * Word
      BY <1>1, <1>3
    <3>3. Word * (Word - 1) = Word * Word - Word /\ Word * 0 = 0
      BY <1>1
    <3>4. Word * Word * c[3] \in Int
      BY <1>1, <1>3
    <3>5. QED
      BY <1>1, <1>3, <3>1, <3>2, <3>3, <3>4 DEF Ctr!Value
  <2>4. CASE full2 /\ c[3] = Word - 1
    <3>1. w[1] = c[1] + Step - Word /\ w[2] = 0 /\ c[2] = Word - 1 /\ w[3] = 0
      BY <1>2, <2>4
    <3>2. Word * Word * (Word - 1) = Limit - Word * Word /\ Word * Word * 0 = 0
      BY <1>1 DEF Ctr!Limit
    <3>3. Word * (Word - 1) = Word * Word - Word /\ Word * 0 = 0
      BY <1>1
    <3>4. QED
      BY <1>1, <1>3, <2>4, <3>1, <3>2, <3>3 DEF Ctr!Value
  <2>5. QED
    BY <2>1, <2>2, <2>3, <2>4
<1>6. Ctr!Reduces(Ctr!Value(w), Ctr!Value(c) + Step)
  BY <1>1, <1>4, <1>5 DEF Ctr!Reduces
<1>7. QED
  BY <1>4, <1>6 DEF w

\* The lower half of the first word stays.
LEMMA IndexKept ==
  ASSUME Ctr!Sized, NEW c \in [1 .. 4 -> Words], NEW d \in Ctr!Dpus, Ctr!Index(c[1], d)
  PROVE  Ctr!Index(Ctr!Sum(c).words[1], d)
<1> DEFINE w == Ctr!Sum(c).words[1]
<1>1. /\ Step \in Nat \ {0} /\ Ctr!LowerHalf(d) \in Int
      /\ Step * Step \in Nat /\ Word = Step * Step
  BY CtrSizes DEF Ctr!LowerHalf, Ctr!Word
<1>2. w = IF c[1] + Step >= Word THEN c[1] + Step - Word ELSE c[1] + Step
  BY SumWords
<1>3. w \in 0 .. Word - 1
  BY SumWords DEF Ctr!Words
<1>4. PICK q \in 0 .. Step - 1 : c[1] = q * Step + Ctr!LowerHalf(d)
  BY DEF Ctr!Index
<1> HIDE DEF w
<1>5. Ctr!LowerHalf(d) \in 1 .. Step
  BY <1>1, CtrSizes DEF Ctr!LowerHalf
<1>6. (q + 1) * Step = q * Step + Step /\ q * Step \in Nat
  BY <1>1
<1>7. CASE q + 1 < Step
  <2>1. (q + 1) * Step + (Step - q - 1) * Step = Step * Step /\ (Step - q - 2) * Step \in Nat
    BY <1>1, <1>7
  <2>2. (Step - q - 1) * Step = (Step - q - 2) * Step + Step
    BY <1>1
  <2>3. Ctr!LowerHalf(d) < Step
    <3>1. 2 * d + 1 < Step /\ d \in Nat
      BY CtrSizes
    <3>2. 2 * d \in 0 .. 2 * Step - 1 /\ 2 * d < Step
      BY <1>1, <3>1
    <3>3. (2 * d) % Step = 2 * d
      BY <1>1, <3>2, Modulo
    <3>4. QED
      BY <3>1, <3>3 DEF Ctr!LowerHalf
  <2>4. c[1] + Step < Word
    BY <1>1, <1>4, <1>5, <1>6, <2>1, <2>2, <2>3
  <2>5. w = (q + 1) * Step + Ctr!LowerHalf(d)
    BY <1>1, <1>2, <1>4, <1>6, <2>4
  <2>6. q + 1 \in 0 .. Step - 1
    BY <1>1, <1>7
  <2>7. Ctr!Index(w, d)
    BY <2>5, <2>6 DEF Ctr!Index
  <2>8. QED
    BY <2>7 DEF w
<1>8. CASE q + 1 = Step
  <2>1. (q + 1) * Step = Word
    BY <1>1, <1>8
  <2>2. w = 0 * Step + Ctr!LowerHalf(d)
    BY <1>1, <1>2, <1>4, <1>5, <1>6, <2>1
  <2>3. 0 \in 0 .. Step - 1
    BY <1>1
  <2>4. Ctr!Index(w, d)
    BY <2>2, <2>3 DEF Ctr!Index
  <2>5. QED
    BY <2>4 DEF w
<1>9. QED
  BY <1>1, <1>7, <1>8

-----------------------------------------------------------------------------
(* The invariant. *)

DpuInv(d) == Ctr!ControlOK(d) /\ Ctr!IndexOK(d) /\ Ctr!CountOK(d)

\* What a step of another DPU leaves alone.
Untouched(d) ==
  /\ at'[d] = at[d] /\ thread'[d] = thread[d] /\ ctr'[d] = ctr[d]
  /\ io'[d] = io[d] /\ flag'[d] = flag[d] /\ issued'[d] = issued[d]

LEMMA UntouchedKeeps ==
  ASSUME NEW d, DpuInv(d), Untouched(d)
  PROVE  DpuInv(d)'
<1>1. Ctr!ControlOK(d)'
  BY DEF DpuInv, Untouched, Ctr!ControlOK
<1>2. Ctr!IndexOK(d)'
  BY DEF DpuInv, Untouched, Ctr!IndexOK, Ctr!Index
<1>3. Ctr!Additions(d)' = Ctr!Additions(d) /\ Ctr!Value(ctr[d])' = Ctr!Value(ctr[d])
  BY DEF Untouched, Ctr!Additions, Ctr!Fresh, Ctr!Value
<1>4. Ctr!CountOK(d)'
  BY <1>3 DEF DpuInv, Untouched, Ctr!CountOK, Ctr!Reduces, Ctr!Value
<1>5. QED
  BY <1>1, <1>2, <1>4 DEF DpuInv

\* Only the DPU that moves has to be looked at.
LEMMA OneMoves ==
  ASSUME Ctr!CounterInv, NEW d \in Ctr!Dpus, Ctr!TypeOK', DpuInv(d)',
         \A e \in Ctr!Dpus \ {d} : Untouched(e)
  PROVE  Ctr!CounterInv'
<1>1. \A e \in Ctr!Dpus : DpuInv(e)'
  <2> TAKE e \in Ctr!Dpus
  <2>1. CASE e = d
    BY <2>1
  <2>2. CASE e # d
    BY <2>2, UntouchedKeeps DEF Ctr!CounterInv, DpuInv
  <2>3. QED
    BY <2>1, <2>2
<1>2. QED
  BY <1>1 DEF Ctr!CounterInv, DpuInv

\* The numbers of a step that neither adds nor takes.
LEMMA NothingCounted ==
  ASSUME NEW d, Ctr!IndexOK(d), Ctr!CountOK(d), ctr'[d] = ctr[d], issued'[d] = issued[d],
         Ctr!Fresh(d)' = Ctr!Fresh(d), at'[d] # "fault", at[d] # "fault"
  PROVE  Ctr!IndexOK(d)' /\ Ctr!CountOK(d)'
<1>1. Ctr!IndexOK(d)'
  BY DEF Ctr!IndexOK, Ctr!Index
<1>2. Ctr!Additions(d)' = Ctr!Additions(d) /\ Ctr!Value(ctr[d])' = Ctr!Value(ctr[d])
  BY DEF Ctr!Additions, Ctr!Value
<1>3. Ctr!CountOK(d)'
  BY <1>2 DEF Ctr!CountOK, Ctr!Reduces, Ctr!Value
<1>4. QED
  BY <1>1, <1>3

\* The lower half of a first word is less than Step.
LEMMA LowerHalfBound ==
  ASSUME Ctr!Sized, NEW d \in Ctr!Dpus
  PROVE  Ctr!LowerHalf(d) = 2 * d + 1 /\ Ctr!LowerHalf(d) \in 1 .. Step - 1
<1>1. Step \in Nat \ {0} /\ 2 * d + 1 < Step /\ d \in Nat
  BY CtrSizes
<1>2. 2 * d \in 0 .. 2 * Step - 1 /\ 2 * d < Step
  BY <1>1
<1>3. (2 * d) % Step = 2 * d
  BY <1>1, <1>2, Modulo
<1>4. QED
  BY <1>1, <1>3 DEF Ctr!LowerHalf

\* Two halves make a word.
LEMMA Halves ==
  ASSUME Ctr!Sized, NEW q \in 0 .. Step - 1, NEW l \in 0 .. Step - 1
  PROVE  q * Step + l \in Words
<1>1. Step \in Nat \ {0} /\ Word = Step * Step
  BY CtrSizes DEF Ctr!Word
<1>2. (Step - 1 - q) * Step \in Nat /\ q * Step \in Nat
  BY <1>1
<1>3. (Step - 1 - q) * Step + q * Step = Step * Step - Step
  BY <1>1
<1>4. Step * Step \in Nat
  BY <1>1
<1>5. QED
  BY <1>1, <1>2, <1>3, <1>4 DEF Ctr!Words

\* No call of a session takes the counter around.
LEMMA StepsFit ==
  ASSUME Ctr!Sized, NEW n \in Nat, n < CtrCalls
  PROVE  (n + 1) * Step <= Limit
<1> DEFINE W3 == Word * Word * Step
<1>1. Step \in Nat /\ Word \in Nat /\ Word = Step * Step /\ Word * Word \in Nat
  BY CtrSizes DEF Ctr!Word
<1>2. W3 \in Nat /\ W3 * Step = Limit
  BY <1>1 DEF Ctr!Limit
<1>3. n + 1 <= W3
  BY <1>2 DEF Ctr!Sized
<1> HIDE DEF W3
<1>4. W3 - (n + 1) \in Nat /\ (W3 - (n + 1)) * Step \in Nat
  BY <1>1, <1>2, <1>3
<1>5. (W3 - (n + 1)) * Step = W3 * Step - (n + 1) * Step
  BY <1>1, <1>2
<1>6. W3 * Step \in Nat /\ (n + 1) * Step \in Nat
  BY <1>1, <1>2
<1>7. QED
  BY <1>2, <1>4, <1>5, <1>6

LEMMA CtrInit ==
  ASSUME Ctr!Sized
  PROVE  Ctr!Init => Ctr!CounterInv
<1> SUFFICES ASSUME Ctr!Init PROVE Ctr!CounterInv
  OBVIOUS
<1>1. Step \in Nat \ {0} /\ Word \in Nat \ {0} /\ CtrCalls \in Nat
  BY CtrSizes DEF Ctr!Sized
<1>2. PICK s \in CtrStarts : ctr = [d \in Ctr!Dpus |-> <<s[1] * Step + Ctr!LowerHalf(d), s[2], s[3], s[4]>>]
  BY DEF Ctr!Init
<1>3. s[1] \in 0 .. Step - 1 /\ s[2] \in Words /\ s[3] \in Words /\ s[4] \in Words
  BY DEF Ctr!Sized, Ctr!Words
<1>4. \A d \in Ctr!Dpus : s[1] * Step + Ctr!LowerHalf(d) \in Words
  <2> TAKE d \in Ctr!Dpus
  <2>1. Ctr!LowerHalf(d) \in 0 .. Step - 1
    BY <1>1, LowerHalfBound
  <2> DEFINE l == Ctr!LowerHalf(d)
  <2> HIDE DEF l
  <2>2. s[1] * Step + l \in Words
    BY <1>3, <2>1, Halves DEF l
  <2>3. QED
    BY <2>2 DEF l
<1>5. \A d \in Ctr!Dpus : ctr[d] \in [1 .. 4 -> Words]
  BY <1>2, <1>3, <1>4
<1>6. Ctr!TypeOK
  <2>1. ctr \in [Ctr!Dpus -> [1 .. 4 -> Words]]
    BY <1>2, <1>5
  <2>2. <<0, 0, 0, 0>> \in [1 .. 4 -> Words]
    BY <1>1 DEF Ctr!Words
  <2>3. io \in [Ctr!Dpus -> [1 .. 4 -> Words]]
    BY <2>2 DEF Ctr!Init
  <2>4. issued \in [Ctr!Dpus -> Seq([1 .. 3 -> Words])]
    <3>1. <<>> \in Seq([1 .. 3 -> Words])
      OBVIOUS
    <3>2. QED
      BY <3>1 DEF Ctr!Init
  <2>5. /\ at \in [Ctr!Dpus -> {"app", "boot", "poll", "end", "fault"}]
        /\ thread \in [Ctr!Dpus -> {"off", "add", "store", "stop", "fault"}]
        /\ flag \in [Ctr!Dpus -> BOOLEAN]
    BY DEF Ctr!Init
  <2>6. QED
    BY <2>1, <2>3, <2>4, <2>5 DEF Ctr!TypeOK
<1>7. ASSUME NEW d \in Ctr!Dpus PROVE DpuInv(d)
  <2>1. /\ at[d] = "app" /\ thread[d] = "off" /\ issued[d] = <<>>
        /\ Len(issued[d]) = 0 /\ ~ Ctr!Fresh(d)
    BY DEF Ctr!Init, Ctr!Fresh
  <2>2. Ctr!ControlOK(d)
    BY <1>1, <2>1 DEF Ctr!ControlOK
  <2>3. Ctr!IndexOK(d)
    BY <1>2, <1>3, <2>1 DEF Ctr!IndexOK, Ctr!Index
  <2>4. Ctr!Value(ctr[d]) \in 0 .. Limit - 1 /\ Limit \in Nat /\ Ctr!Additions(d) = 0
    <3>1. ctr[d][1] \in Words /\ ctr[d][2] \in Words /\ ctr[d][3] \in Words
      BY <1>5
    <3>2. Ctr!Value(ctr[d]) \in 0 .. Limit - 1
      BY <3>1, ValueBound DEF Ctr!Value
    <3>3. Ctr!Additions(d) = 0
      BY <2>1 DEF Ctr!Additions
    <3>4. QED
      BY <3>2, <3>3, CtrSizes
  <2>5. Ctr!Value(ctr[d]) = Ctr!Value(ctr[d]) + Ctr!Additions(d) * Step
    BY <1>1, <2>4
  <2>6. Ctr!CountOK(d)
    BY <2>1, <2>4, <2>5 DEF Ctr!CountOK, Ctr!Reduces
  <2>7. QED
    BY <2>2, <2>3, <2>6 DEF DpuInv
<1>8. QED
  BY <1>6, <1>7 DEF Ctr!CounterInv, DpuInv

-----------------------------------------------------------------------------
(* One lemma per step of a DPU. *)

LEMMA RaisePreserves ==
  ASSUME Ctr!CounterInv, NEW d \in Ctr!Dpus, Ctr!Raise(d)
  PROVE  Ctr!CounterInv'
<1>1. Ctr!TypeOK' /\ \A e \in Ctr!Dpus \ {d} : Untouched(e)
  BY DEF Ctr!CounterInv, Ctr!TypeOK, Ctr!Raise, Untouched
<1>2. Ctr!ControlOK(d)'
  BY DEF Ctr!CounterInv, Ctr!TypeOK, Ctr!Raise, Ctr!ControlOK
<1>3. Ctr!IndexOK(d)' /\ Ctr!CountOK(d)'
  <2>1. /\ ctr'[d] = ctr[d] /\ issued'[d] = issued[d] /\ Ctr!Fresh(d)' = Ctr!Fresh(d)
        /\ at'[d] # "fault" /\ at[d] # "fault"
    BY DEF Ctr!CounterInv, Ctr!TypeOK, Ctr!Raise, Ctr!Fresh
  <2>2. QED
    BY <2>1, NothingCounted DEF Ctr!CounterInv
<1>4. QED
  BY <1>1, <1>2, <1>3, OneMoves DEF DpuInv

LEMMA BootPreserves ==
  ASSUME Ctr!CounterInv, NEW d \in Ctr!Dpus, Ctr!Boot(d)
  PROVE  Ctr!CounterInv'
<1>1. Ctr!TypeOK' /\ \A e \in Ctr!Dpus \ {d} : Untouched(e)
  BY DEF Ctr!CounterInv, Ctr!TypeOK, Ctr!Boot, Untouched
<1>2. Ctr!ControlOK(d)'
  BY DEF Ctr!CounterInv, Ctr!TypeOK, Ctr!Boot, Ctr!ControlOK
<1>3. Ctr!IndexOK(d)' /\ Ctr!CountOK(d)'
  <2>1. /\ ctr'[d] = ctr[d] /\ issued'[d] = issued[d] /\ Ctr!Fresh(d)' = Ctr!Fresh(d)
        /\ at'[d] # "fault" /\ at[d] # "fault"
    BY DEF Ctr!CounterInv, Ctr!TypeOK, Ctr!Boot, Ctr!Fresh
  <2>2. QED
    BY <2>1, NothingCounted DEF Ctr!CounterInv
<1>4. QED
  BY <1>1, <1>2, <1>3, OneMoves DEF DpuInv

LEMMA StorePreserves ==
  ASSUME Ctr!CounterInv, NEW d \in Ctr!Dpus, Ctr!Store(d)
  PROVE  Ctr!CounterInv'
<1>1. Ctr!TypeOK'
  <2>1. PICK n \in 1 .. 4 : /\ io' = [io EXCEPT ![d][n] = ctr[d][n]]
                            /\ flag' = [flag EXCEPT ![d] = Ctr!FlagAfter(d, n)]
    BY DEF Ctr!Store
  <2>2. io' \in [Ctr!Dpus -> [1 .. 4 -> Words]]
    BY <2>1 DEF Ctr!CounterInv, Ctr!TypeOK
  <2>3. QED
    BY <2>1, <2>2 DEF Ctr!CounterInv, Ctr!TypeOK, Ctr!Store, Ctr!FlagAfter
<1>2. \A e \in Ctr!Dpus \ {d} : Untouched(e)
  BY DEF Ctr!CounterInv, Ctr!TypeOK, Ctr!Store, Untouched
<1>3. flag'[d] = flag[d] /\ at' = at /\ thread' = thread /\ thread[d] = "store" /\ issued' = issued
  BY DEF Ctr!CounterInv, Ctr!TypeOK, Ctr!Store, Ctr!FlagAfter
<1>4. Ctr!ControlOK(d)'
  BY <1>3 DEF Ctr!CounterInv, Ctr!ControlOK
<1>5. Ctr!IndexOK(d)' /\ Ctr!CountOK(d)'
  <2>1. at[d] = "poll"
    BY <1>3 DEF Ctr!CounterInv, Ctr!ControlOK
  <2>2. ctr'[d] = ctr[d] /\ issued'[d] = issued[d] /\ Ctr!Fresh(d)' = Ctr!Fresh(d)
    BY DEF Ctr!Store, Ctr!Fresh
  <2>3. QED
    BY <1>3, <2>1, <2>2, NothingCounted DEF Ctr!CounterInv
<1>6. QED
  BY <1>1, <1>2, <1>4, <1>5, OneMoves DEF DpuInv

LEMMA LowerPreserves ==
  ASSUME Ctr!CounterInv, NEW d \in Ctr!Dpus, Ctr!Lower(d)
  PROVE  Ctr!CounterInv'
<1>1. Ctr!TypeOK' /\ \A e \in Ctr!Dpus \ {d} : Untouched(e)
  BY DEF Ctr!CounterInv, Ctr!TypeOK, Ctr!Lower, Ctr!Lowered, Untouched
<1>2. at[d] = "poll"
  BY DEF Ctr!CounterInv, Ctr!ControlOK, Ctr!Lower
<1>3. Ctr!ControlOK(d)'
  BY <1>2 DEF Ctr!CounterInv, Ctr!TypeOK, Ctr!Lower, Ctr!ControlOK
<1>4. Ctr!IndexOK(d)' /\ Ctr!CountOK(d)'
  <2>1. /\ ctr'[d] = ctr[d] /\ issued'[d] = issued[d] /\ Ctr!Fresh(d)' = Ctr!Fresh(d)
        /\ at'[d] # "fault" /\ at[d] # "fault"
    BY <1>2 DEF Ctr!CounterInv, Ctr!TypeOK, Ctr!Lower, Ctr!Fresh
  <2>2. QED
    BY <2>1, NothingCounted DEF Ctr!CounterInv
<1>5. QED
  BY <1>1, <1>3, <1>4, OneMoves DEF DpuInv

\* Thread 23 stops while thread 0 polls, or after that.
LEMMA StopPreserves ==
  ASSUME Ctr!CounterInv, NEW d \in Ctr!Dpus, Ctr!Stop(d)
  PROVE  Ctr!CounterInv'
<1>1. Ctr!TypeOK' /\ \A e \in Ctr!Dpus \ {d} : Untouched(e)
  BY DEF Ctr!CounterInv, Ctr!TypeOK, Ctr!Stop, Untouched
<1>2. Ctr!ControlOK(d)'
  BY DEF Ctr!CounterInv, Ctr!TypeOK, Ctr!Stop, Ctr!ControlOK
<1>3. Ctr!IndexOK(d)' /\ Ctr!CountOK(d)'
  <2>1. ctr' = ctr /\ issued' = issued /\ at' = at /\ Ctr!Fresh(d)' = Ctr!Fresh(d)
    BY DEF Ctr!CounterInv, Ctr!TypeOK, Ctr!Stop, Ctr!Fresh
  <2>2. Ctr!Additions(d)' = Ctr!Additions(d)
    BY <2>1 DEF Ctr!Additions
  <2>3. Ctr!IndexOK(d)'
    BY <2>1 DEF Ctr!CounterInv, Ctr!IndexOK, Ctr!Index
  <2>4. Ctr!CountOK(d)'
    BY <2>1, <2>2 DEF Ctr!CounterInv, Ctr!CountOK, Ctr!Reduces, Ctr!Value
  <2>5. QED
    BY <2>3, <2>4
<1>4. QED
  BY <1>1, <1>2, <1>3, OneMoves DEF DpuInv

\* The counter goes up by Step, and the call has its addition.
LEMMA AddPreserves ==
  ASSUME Ctr!Sized, Ctr!CounterInv, NEW d \in Ctr!Dpus, Ctr!Add(d)
  PROVE  Ctr!CounterInv'
<1> DEFINE c == ctr[d]
           w == Ctr!Sum(ctr[d]).words
<1>1. c \in [1 .. 4 -> Words] /\ w \in [1 .. 4 -> Words]
  <2>1. ctr[d] \in [1 .. 4 -> Words]
    BY DEF Ctr!CounterInv, Ctr!TypeOK
  <2>2. QED
    BY <2>1, SumWords
<1>2. ctr' = [ctr EXCEPT ![d] = w] /\ ctr'[d] = w
  BY DEF Ctr!CounterInv, Ctr!TypeOK, Ctr!Add
<1>3. io' = io /\ flag' = flag /\ issued' = issued /\ thread[d] = "add"
  BY DEF Ctr!Add
<1>4. Ctr!ControlOK(d) /\ Ctr!IndexOK(d) /\ Ctr!CountOK(d) /\ at[d] = "poll" /\ flag[d]
  BY <1>3 DEF Ctr!CounterInv, Ctr!ControlOK
<1>5. \/ thread' = [thread EXCEPT ![d] = "fault"] /\ at' = [at EXCEPT ![d] = "fault"]
      \/ thread' = [thread EXCEPT ![d] = "store"] /\ at' = at
  BY DEF Ctr!Add
<1>6. Ctr!TypeOK'
  <2>1. ctr' \in [Ctr!Dpus -> [1 .. 4 -> Words]]
    BY <1>1, <1>2 DEF Ctr!CounterInv, Ctr!TypeOK
  <2>2. QED
    BY <1>3, <1>5, <2>1 DEF Ctr!CounterInv, Ctr!TypeOK
<1>7. \A e \in Ctr!Dpus \ {d} : Untouched(e)
  BY <1>2, <1>3, <1>5 DEF Ctr!CounterInv, Ctr!TypeOK, Untouched
<1>8. \/ thread'[d] = "fault" /\ at'[d] = "fault"
      \/ thread'[d] = "store" /\ at'[d] = "poll"
  BY <1>4, <1>5 DEF Ctr!CounterInv, Ctr!TypeOK
<1>9. Ctr!ControlOK(d)'
  BY <1>3, <1>4, <1>8 DEF Ctr!ControlOK
<1>10. Ctr!IndexOK(d)'
  <2>1. Ctr!Index(c[1], d)
    BY <1>4 DEF Ctr!IndexOK
  <2>2. Ctr!Index(w[1], d)
    BY <1>1, <2>1, IndexKept
  <2>3. \A x \in 1 .. Len(issued[d]) : Ctr!Index(issued[d][x][1], d)
    BY <1>4 DEF Ctr!IndexOK
  <2> HIDE DEF w, c
  <2>4. QED
    BY <1>2, <1>3, <2>2, <2>3 DEF Ctr!IndexOK, Ctr!Index
<1>11. Ctr!CountOK(d)'
  <2>1. Ctr!Additions(d) = Len(issued[d])
    BY <1>3 DEF Ctr!Additions, Ctr!Fresh
  <2>2. Len(issued[d]) \in Nat
    BY DEF Ctr!CounterInv, Ctr!TypeOK
  <2>3. PICK v \in 0 .. Limit - 1 :
          /\ Ctr!Reduces(Ctr!Value(c), v + Len(issued[d]) * Step)
          /\ \A x \in 1 .. Len(issued[d]) : Ctr!Reduces(Ctr!Value(issued[d][x]), v + x * Step)
    BY <1>4, <2>1 DEF Ctr!CountOK
  <2>4. /\ Ctr!Value(c) \in 0 .. Limit - 1 /\ Ctr!Value(w) \in 0 .. Limit - 1
        /\ Ctr!Reduces(Ctr!Value(w), Ctr!Value(c) + Step)
    BY <1>1, SumAdds
  <2>5. at'[d] # "fault" => Ctr!Reduces(Ctr!Value(w), v + (Len(issued[d]) + 1) * Step)
    <3>1. (Len(issued[d]) + 1) * Step <= Limit
      BY <1>4, <2>2, StepsFit DEF Ctr!ControlOK
    <3>2. (Len(issued[d]) + 1) * Step = Len(issued[d]) * Step + Step
      BY <2>2, CtrSizes
    <3>3. Limit \in Nat /\ Step \in Nat /\ Len(issued[d]) * Step \in Nat
      BY <2>2, CtrSizes
    <3> DEFINE n == Len(issued[d]) * Step
               vc == Ctr!Value(c)
               vw == Ctr!Value(w)
    <3> HIDE DEF n, vc, vw
    <3>4. /\ n \in Nat /\ Step \in Nat /\ Limit \in Nat /\ n + Step <= Limit
          /\ vc \in 0 .. Limit - 1 /\ vw \in 0 .. Limit - 1
          /\ vc = v + n \/ vc = v + n - Limit
          /\ vw = vc + Step \/ vw = vc + Step - Limit
      BY <2>3, <2>4, <3>1, <3>2, <3>3 DEF n, vc, vw, Ctr!Reduces
    <3>5. vw = v + n + Step \/ vw = v + n + Step - Limit
      BY <3>4
    <3>6. QED
      BY <3>2, <3>3, <3>4, <3>5 DEF n, vw, Ctr!Reduces
  <2>6. Ctr!Additions(d)' = Len(issued[d]) + 1 \/ at'[d] = "fault"
    BY <1>3, <1>8 DEF Ctr!Additions, Ctr!Fresh
  <2>7. Ctr!Value(ctr[d])' = Ctr!Value(w)
    BY <1>2 DEF Ctr!Value
  <2> HIDE DEF w, c
  <2>8. QED
    BY <1>3, <2>3, <2>5, <2>6, <2>7 DEF Ctr!CountOK, Ctr!Reduces, Ctr!Value
<1>12. QED
  BY <1>6, <1>7, <1>9, <1>10, <1>11, OneMoves DEF DpuInv

\* The IV is the value of the counter.
LEMMA TakePreserves ==
  ASSUME Ctr!Sized, Ctr!CounterInv, NEW d \in Ctr!Dpus, Ctr!Take(d)
  PROVE  Ctr!CounterInv'
<1> DEFINE iv == [n \in 1 .. 3 |-> io[d][n]]
<1>1. /\ at[d] = "poll" /\ ~ flag[d] /\ thread' = thread /\ ctr' = ctr /\ io' = io /\ flag' = flag
      /\ issued' = [issued EXCEPT ![d] = Append(issued[d], iv)]
      /\ at' = [at EXCEPT ![d] = IF Len(issued[d]) + 1 < CtrCalls THEN "app" ELSE "end"]
  BY DEF Ctr!Take
<1>2. Ctr!ControlOK(d) /\ Ctr!IndexOK(d) /\ Ctr!CountOK(d)
  BY DEF Ctr!CounterInv
<1>3. thread[d] \in {"stop", "off"} /\ io[d] = ctr[d] /\ Len(issued[d]) < CtrCalls
  BY <1>1, <1>2 DEF Ctr!ControlOK
<1>4. ctr[d] \in [1 .. 4 -> Words] /\ issued[d] \in Seq([1 .. 3 -> Words])
  BY DEF Ctr!CounterInv, Ctr!TypeOK
<1>5. iv \in [1 .. 3 -> Words] /\ iv[1] = ctr[d][1] /\ iv[2] = ctr[d][2] /\ iv[3] = ctr[d][3]
  BY <1>3, <1>4
<1> HIDE DEF iv
<1>6. /\ Append(issued[d], iv) \in Seq([1 .. 3 -> Words])
      /\ Len(Append(issued[d], iv)) = Len(issued[d]) + 1 /\ Len(issued[d]) \in Nat
      /\ Append(issued[d], iv)[Len(issued[d]) + 1] = iv
      /\ \A x \in 1 .. Len(issued[d]) : Append(issued[d], iv)[x] = issued[d][x]
  BY <1>4, <1>5
<1>7. issued'[d] = Append(issued[d], iv) /\ at'[d] \in {"app", "end"}
  BY <1>1 DEF Ctr!CounterInv, Ctr!TypeOK
<1>8. Ctr!TypeOK'
  <2>1. issued' \in [Ctr!Dpus -> Seq([1 .. 3 -> Words])]
    BY <1>1, <1>6 DEF Ctr!CounterInv, Ctr!TypeOK
  <2>2. QED
    BY <1>1, <2>1 DEF Ctr!CounterInv, Ctr!TypeOK
<1>9. \A e \in Ctr!Dpus \ {d} : Untouched(e)
  BY <1>1 DEF Ctr!CounterInv, Ctr!TypeOK, Untouched
<1>10. Ctr!ControlOK(d)'
  <2>1. Len(issued[d])' = Len(issued[d]) + 1
    BY <1>6, <1>7
  <2>2. CtrCalls \in Int
    BY CtrSizes DEF Ctr!Sized
  <2>3. QED
    BY <1>1, <1>2, <1>3, <1>6, <1>7, <2>1, <2>2 DEF Ctr!ControlOK
<1>11. Ctr!IndexOK(d)'
  <2>1. Ctr!Index(ctr[d][1], d) /\ \A x \in 1 .. Len(issued[d]) : Ctr!Index(issued[d][x][1], d)
    BY <1>2 DEF Ctr!IndexOK
  <2>2. ASSUME NEW x \in 1 .. Len(issued[d]) + 1 PROVE Ctr!Index(issued'[d][x][1], d)
    <3>1. CASE x = Len(issued[d]) + 1
      BY <1>5, <1>6, <1>7, <2>1, <3>1
    <3>2. CASE x \in 1 .. Len(issued[d])
      BY <1>6, <1>7, <2>1, <3>2
    <3>3. QED
      BY <1>6, <3>1, <3>2
  <2>3. QED
    BY <1>1, <1>6, <1>7, <2>1, <2>2 DEF Ctr!IndexOK, Ctr!Index
<1>12. Ctr!CountOK(d)'
  <2>1. Ctr!Fresh(d) /\ ~ Ctr!Fresh(d)'
    BY <1>1, <1>3, <1>7 DEF Ctr!Fresh
  <2>2. Ctr!Additions(d) = Len(issued[d]) + 1 /\ Ctr!Additions(d)' = Len(issued[d]) + 1
    BY <1>6, <1>7, <2>1 DEF Ctr!Additions
  <2>3. PICK v \in 0 .. Limit - 1 :
          /\ Ctr!Reduces(Ctr!Value(ctr[d]), v + (Len(issued[d]) + 1) * Step)
          /\ \A x \in 1 .. Len(issued[d]) : Ctr!Reduces(Ctr!Value(issued[d][x]), v + x * Step)
    BY <1>1, <1>2, <2>2 DEF Ctr!CountOK
  <2>4. Ctr!Value(iv) = Ctr!Value(ctr[d])
    BY <1>5 DEF Ctr!Value
  <2>5. ASSUME NEW x \in 1 .. Len(issued[d]) + 1
        PROVE  Ctr!Reduces(Ctr!Value(issued'[d][x]), v + x * Step)
    <3>1. CASE x = Len(issued[d]) + 1
      BY <1>6, <1>7, <2>3, <2>4, <3>1
    <3>2. CASE x \in 1 .. Len(issued[d])
      BY <1>6, <1>7, <2>3, <3>2
    <3>3. QED
      BY <1>6, <3>1, <3>2
  <2>6. Ctr!Value(ctr[d])' = Ctr!Value(ctr[d])
    BY <1>1
  <2>7. QED
    BY <1>6, <1>7, <2>2, <2>3, <2>5, <2>6 DEF Ctr!CountOK, Ctr!Reduces, Ctr!Value
<1>13. QED
  BY <1>8, <1>9, <1>10, <1>11, <1>12, OneMoves DEF DpuInv

-----------------------------------------------------------------------------
(* The theorems. *)

LEMMA CtrPreserves ==
  ASSUME Ctr!Sized, Ctr!CounterInv, [Ctr!Next]_(Ctr!vars)
  PROVE  Ctr!CounterInv'
<1>1. CASE \E d \in Ctr!Dpus : Ctr!Dpu(d)
  <2>1. PICK d \in Ctr!Dpus : Ctr!Dpu(d)
    BY <1>1
  <2>2. QED
    BY <2>1, RaisePreserves, BootPreserves, TakePreserves, AddPreserves, StorePreserves,
       LowerPreserves, StopPreserves DEF Ctr!Dpu
<1>2. CASE UNCHANGED Ctr!vars
  <2>1. Ctr!TypeOK' /\ \A d \in Ctr!Dpus : Untouched(d)
    BY <1>2 DEF Ctr!CounterInv, Ctr!TypeOK, Ctr!vars, Untouched
  <2>2. \A d \in Ctr!Dpus : DpuInv(d)'
    BY <2>1, UntouchedKeeps DEF Ctr!CounterInv, DpuInv
  <2>3. QED
    BY <2>1, <2>2 DEF Ctr!CounterInv, DpuInv
<1>3. QED
  BY <1>1, <1>2 DEF Ctr!Next

\* Thread 0 takes the words of an addition of its own, whole, and the counter
\* has been raised by Step once for every IV (core.s:45-99).
THEOREM CounterInvariant == Ctr!Spec => []Ctr!CounterInv
<1>1. Ctr!Init => Ctr!CounterInv
  BY CtrInit, CtrAssumption
<1>2. Ctr!CounterInv /\ [Ctr!Next]_(Ctr!vars) => Ctr!CounterInv'
  BY CtrPreserves, CtrAssumption
<1>3. QED
  BY <1>1, <1>2, PTL DEF Ctr!Spec

\* Words with the same lower half are of the same DPU.
LEMMA IndexTells ==
  ASSUME Ctr!Sized, NEW d \in Ctr!Dpus, NEW e \in Ctr!Dpus, NEW w,
         Ctr!Index(w, d), Ctr!Index(w, e)
  PROVE  d = e /\ w % 2 = 1
<1>1. PICK p \in 0 .. Step - 1 : w = p * Step + Ctr!LowerHalf(d)
  BY DEF Ctr!Index
<1>2. PICK q \in 0 .. Step - 1 : w = q * Step + Ctr!LowerHalf(e)
  BY DEF Ctr!Index
<1>3. /\ Ctr!LowerHalf(d) = 2 * d + 1 /\ Ctr!LowerHalf(d) \in 1 .. Step - 1
      /\ Ctr!LowerHalf(e) = 2 * e + 1 /\ Ctr!LowerHalf(e) \in 1 .. Step - 1
  BY LowerHalfBound
<1>4. Step \in Nat \ {0} /\ d \in Nat /\ e \in Nat
  BY CtrSizes
<1>5. ASSUME NEW a \in Nat, NEW b \in Nat, a < b PROVE a * Step + Step <= b * Step
  <2>1. (b - a - 1) * Step \in Nat /\ a * Step \in Nat /\ b * Step \in Nat
    BY <1>4, <1>5
  <2>2. (b - a - 1) * Step = b * Step - a * Step - Step
    BY <1>4, <1>5
  <2>3. QED
    BY <1>4, <2>1, <2>2
<1>6. p * Step \in Nat /\ q * Step \in Nat
  BY <1>4
<1>7. ~ (p < q) /\ ~ (q < p)
  <2>1. p < q => p * Step + Step <= q * Step
    BY <1>5
  <2>2. q < p => q * Step + Step <= p * Step
    BY <1>5
  <2>3. QED
    BY <1>1, <1>2, <1>3, <1>4, <1>6, <2>1, <2>2
<1>8. p = q
  BY <1>7
<1>9. d = e
  BY <1>1, <1>2, <1>3, <1>4, <1>6, <1>8
<1>10. PICK h \in Nat \ {0} : Step = 2 * h
  BY EvenStep
<1>11. w = 2 * (p * h + d) + 1 /\ p * h + d \in Nat
  <2>1. p * (2 * h) = 2 * (p * h) /\ p * h \in Nat
    OBVIOUS
  <2>2. QED
    BY <1>1, <1>3, <1>4, <1>10, <2>1
<1>12. w % 2 = 1
  BY <1>11
<1>13. QED
  BY <1>9, <1>12

\* Two calls of a DPU are a multiple of Step apart, which is less than Limit.
LEMMA CallsApart ==
  ASSUME Ctr!Sized, Ctr!CounterInv, NEW d \in Ctr!Dpus,
         NEW x \in 1 .. Len(issued[d]), NEW y \in 1 .. Len(issued[d]), x < y
  PROVE  issued[d][x] # issued[d][y]
<1>1. PICK v \in 0 .. Limit - 1 :
        \A n \in 1 .. Len(issued[d]) : Ctr!Reduces(Ctr!Value(issued[d][n]), v + n * Step)
  BY DEF Ctr!CounterInv, Ctr!CountOK
<1>2. Len(issued[d]) \in Nat /\ Len(issued[d]) <= CtrCalls /\ CtrCalls \in Int
  BY CtrSizes DEF Ctr!CounterInv, Ctr!TypeOK, Ctr!ControlOK, Ctr!Sized
<1>3. Step \in Nat \ {0} /\ Limit \in Nat
  BY CtrSizes
<1>4. (y - x + 1) * Step <= Limit
  <2>1. y - x \in Nat /\ y - x < CtrCalls
    BY <1>2
  <2>2. \A n \in Nat : n < CtrCalls => (n + 1) * Step <= Limit
    BY StepsFit
  <2>3. QED
    BY <2>1, <2>2
<1>5. /\ (y - x + 1) * Step = y * Step - x * Step + Step
      /\ y * Step = x * Step + (y - x - 1) * Step + Step
      /\ (y - x - 1) * Step \in Nat /\ x * Step \in Nat /\ y * Step \in Nat
  BY <1>3
<1>6. /\ Ctr!Reduces(Ctr!Value(issued[d][x]), v + x * Step)
      /\ Ctr!Reduces(Ctr!Value(issued[d][y]), v + y * Step)
  BY <1>1, Zenon
<1> SUFFICES ASSUME issued[d][x] = issued[d][y] PROVE FALSE
  OBVIOUS
<1>7. Ctr!Reduces(Ctr!Value(issued[d][x]), v + y * Step)
  BY <1>6
<1> DEFINE m == x * Step
           n == y * Step
           g == (y - x - 1) * Step
<1> HIDE DEF m, n, g
<1>8. m \in Nat /\ n \in Nat /\ g \in Nat /\ n = m + g + Step
  BY <1>3, <1>5 DEF m, n, g
<1>9. n - m + Step <= Limit
  BY <1>4, <1>5 DEF m, n
<1>10. v + m = v + n \/ v + m = v + n - Limit \/ v + n = v + m - Limit
  <2>1. /\ Ctr!Reduces(Ctr!Value(issued[d][x]), v + m)
        /\ Ctr!Reduces(Ctr!Value(issued[d][x]), v + n)
    BY <1>6, <1>7, Zenon DEF m, n
  <2>2. ASSUME NEW a, Ctr!Reduces(a, v + m), Ctr!Reduces(a, v + n)
        PROVE  v + m = v + n \/ v + m = v + n - Limit \/ v + n = v + m - Limit
    <3>1. a = v + m \/ a = v + m - Limit
      BY <1>3, <1>8, <2>2 DEF Ctr!Reduces
    <3>2. a = v + n \/ a = v + n - Limit
      BY <1>3, <1>8, <2>2 DEF Ctr!Reduces
    <3>3. v \in Int /\ Limit \in Int /\ m \in Int /\ n \in Int
      BY <1>3, <1>8
    <3>4. QED
      BY ONLY <3>1, <3>2, <3>3
  <2>3. QED
    BY <2>1, <2>2, Zenon
<1>11. QED
  BY <1>3, <1>8, <1>9, <1>10

\* The invariant says what the run checks.
LEMMA CtrSafe ==
  ASSUME Ctr!Sized, Ctr!CounterInv
  PROVE  Ctr!IVsAreDistinct
<1> SUFFICES ASSUME NEW d \in Ctr!Dpus, NEW e \in Ctr!Dpus, NEW x \in 1 .. Len(issued[d])
             PROVE  /\ issued[d][x][1] % 2 = 1
                    /\ \A y \in 1 .. Len(issued[e]) :
                         issued[d][x] = issued[e][y] => d = e /\ x = y
  BY DEF Ctr!IVsAreDistinct
<1>1. Ctr!Index(issued[d][x][1], d)
  BY DEF Ctr!CounterInv, Ctr!IndexOK
<1>2. issued[d][x][1] % 2 = 1
  BY <1>1, IndexTells
<1>3. ASSUME NEW y \in 1 .. Len(issued[e]), issued[d][x] = issued[e][y]
      PROVE  d = e /\ x = y
  <2>1. Ctr!Index(issued[d][x][1], e)
    BY <1>3 DEF Ctr!CounterInv, Ctr!IndexOK
  <2>2. d = e
    BY <1>1, <2>1, IndexTells
  <2>3. ~ (x < y) /\ ~ (y < x)
    BY <1>3, <2>2, CallsApart
  <2>4. x \in Int /\ y \in Int
    BY DEF Ctr!CounterInv, Ctr!TypeOK
  <2>5. QED
    BY <2>2, <2>3, <2>4
<1>4. QED
  BY <1>2, <1>3

\* No IV is issued twice, whatever the DPUs and the calls, and all are odd:
\* the IV of aead.c:107 is new with every call of core_on_counter.
THEOREM IVsNeverRepeat == MCSpec => []IVsAreDistinct
<1> DEFINE Inv == kernel = "counter" => Ctr!CounterInv
<1>1. MCInit => Inv
  BY CtrInit, CtrAssumption DEF MCInit, KernelInit
<1>2. Inv /\ [MCNext]_all => Inv'
  <2> SUFFICES ASSUME Inv, [MCNext]_all, kernel' = "counter" PROVE Ctr!CounterInv'
    OBVIOUS
  <2>1. kernel = "counter" /\ [Ctr!Next]_(Ctr!vars)
    BY DEF MCNext, all, group, Ctr!vars
  <2>2. QED
    BY <2>1, CtrPreserves, CtrAssumption
<1>3. Inv => IVsAreDistinct
  BY CtrSafe, CtrAssumption DEF IVsAreDistinct
<1>4. QED
  BY <1>1, <1>2, <1>3, PTL DEF MCSpec

-----------------------------------------------------------------------------
(* The runtime's cipher. *)

call == m2
counter == m3
kind == m4
place == m5
len == m6
iv == m7
mem == m8
tag == m9
way == m10
before == m11
used == m12
USE DEF call, counter, kind, place, len, iv, mem, tag, way, before, used

\* A message has its units, the first of them unit 0.
LEMMA CipherSizes ==
  /\ AeadSizes \subseteq Nat \ {0} /\ AeadCalls \in Nat
  /\ \A l \in AeadSizes : \A u \in 0 .. l - 1 : u \in Cipher!Units
  /\ Cipher!Units \subseteq Nat /\ 0 \in Cipher!Units
<1>1. /\ AeadSizes # {} /\ AeadSizes \subseteq Nat \ {0} /\ AeadCalls \in Nat
      /\ \E l \in AeadSizes : \A k \in AeadSizes : k <= l
  BY AeadAssumption DEF Cipher!Sized
<1> DEFINE m == Cipher!Max(AeadSizes)
<1>2. m \in AeadSizes /\ \A k \in AeadSizes : k <= m
  <2>1. \E l \in AeadSizes : \A k \in AeadSizes : l >= k
    BY <1>1
  <2>2. m = CHOOSE l \in AeadSizes : \A k \in AeadSizes : l >= k
    BY DEF Cipher!Max
  <2>3. m \in AeadSizes /\ \A k \in AeadSizes : m >= k
    BY <2>1, <2>2
  <2>4. QED
    BY <1>1, <2>3
<1>3. Cipher!Units = 0 .. m - 1
  BY DEF Cipher!Units
<1> HIDE DEF m
<1>4. QED
  BY <1>1, <1>2, <1>3

LEMMA CipherInit ==
  ASSUME Cipher!Init
  PROVE  Cipher!CipherInv
<1> USE DEF Cipher!Init
<1>1. Cipher!TypeOK
  BY DEF Cipher!TypeOK, Cipher!Garbage, Cipher!Changed, Cipher!Places, Cipher!Ways
<1>2. Cipher!StreamsOK /\ Cipher!SealingOK
  BY DEF Cipher!StreamsOK, Cipher!SealingOK
<1>3. Cipher!MessageOK /\ Cipher!OpenedOrUntouched
  BY DEF Cipher!MessageOK, Cipher!OpenedOrUntouched
<1>4. QED
  BY <1>1, <1>2, <1>3 DEF Cipher!CipherInv

\* A new message: its IV is in no stream.
LEMMA SealCallPreserves ==
  ASSUME Cipher!CipherInv, Cipher!SealCall
  PROVE  Cipher!CipherInv'
<1> USE DEF Cipher!CipherInv
<1>1. /\ call \in Nat /\ counter \in Nat /\ call' = call + 1 /\ at' = "crypt" /\ used' = used
      /\ \/ iv' = 2 * counter + 1 /\ counter' = counter + 1
         \/ iv' = 2 * (call + 1) /\ counter' = counter
  BY DEF Cipher!SealCall, Cipher!TypeOK, Cipher!FromCounter, Cipher!OfCaller
<1>2. Cipher!TypeOK'
  <2>1. mem' \in [Cipher!Places -> [Cipher!Units -> SUBSET (Nat \X Nat)]]
    BY DEF Cipher!SealCall, Cipher!Plain, Cipher!Garbage, Cipher!Changed
  <2>2. QED
    BY <1>1, <2>1 DEF Cipher!SealCall, Cipher!TypeOK
<1>3. Cipher!StreamsOK'
  <2>1. \A v, c : Cipher!IVOf(v, c) => Cipher!IVOf(v, c)'
    <3>1. \A q \in 0 .. counter - 1 : q \in 0 .. counter' - 1
      BY <1>1
    <3>2. QED
      BY <3>1 DEF Cipher!IVOf
  <2>2. \A x \in used : x[1] \in Nat /\ x[4] \in Nat
    BY DEF Cipher!StreamsOK
  <2>3. QED
    BY <1>1, <2>1, <2>2 DEF Cipher!StreamsOK
<1>4. Cipher!SealingOK'
  <2>1. Cipher!IVOf(iv, call)'
    <3>1. CASE iv' = 2 * counter + 1 /\ counter' = counter + 1
      <4>1. counter \in 0 .. counter' - 1
        BY <1>1, <3>1
      <4>2. QED
        BY <3>1, <4>1 DEF Cipher!IVOf
    <3>2. CASE iv' = 2 * (call + 1)
      BY <1>1, <3>2 DEF Cipher!IVOf
    <3>3. QED
      BY <1>1, <3>1, <3>2
  <2>2. \A x \in used : x[4] # call'
    BY <1>1 DEF Cipher!StreamsOK
  <2>3. \A x \in used : x[1] # iv'
    <3> SUFFICES ASSUME NEW x \in used PROVE x[1] # iv'
      OBVIOUS
    <3>1. Cipher!IVOf(x[1], x[4]) /\ x[4] <= call /\ x[4] \in Nat /\ x[1] \in Nat
      BY DEF Cipher!StreamsOK
    <3>2. CASE x[1] = 2 * x[4]
      BY <1>1, <3>1, <3>2
    <3>3. CASE \E q \in 0 .. counter - 1 : x[1] = 2 * q + 1
      BY <1>1, <3>1, <3>3
    <3>4. QED
      BY <3>1, <3>2, <3>3 DEF Cipher!IVOf
  <2>4. \A x \in used' : x[1] # iv' /\ x[4] # call'
    BY <1>1, <2>2, <2>3
  <2>5. QED
    BY <2>1, <2>4 DEF Cipher!SealingOK
<1>5. Cipher!MessageOK' /\ Cipher!OpenedOrUntouched'
  BY <1>1 DEF Cipher!SealCall, Cipher!MessageOK, Cipher!OpenedOrUntouched, Cipher!Places
<1>6. QED
  BY <1>2, <1>3, <1>4, <1>5

\* What a pass of the stream does to the units of a message.
LEMMA CryptedUnits ==
  ASSUME Cipher!TypeOK, len \in AeadSizes, NEW v \in Nat, NEW p \in Cipher!Places
  PROVE  /\ Cipher!Crypted(v, "buf", p) \in [Cipher!Places -> [Cipher!Units -> SUBSET (Nat \X Nat)]]
         /\ \A u \in 0 .. len - 1 :
              Cipher!Crypted(v, "buf", p)[p][u] = Cipher!Xor(mem["buf"][u], {<<v, Cipher!Block(u)>>})
<1> DEFINE new == [u \in Cipher!Units |->
             IF u < len THEN Cipher!Xor(mem["buf"][u], {<<v, Cipher!Block(u)>>}) ELSE mem[p][u]]
<1>1. /\ "buf" \in Cipher!Places /\ len \in Nat
      /\ \A u \in Cipher!Units : Cipher!Block(u) \in Nat
      /\ \A u \in 0 .. len - 1 : u \in Cipher!Units /\ u < len
  BY CipherSizes DEF Cipher!Places, Cipher!Block
<1>2. mem \in [Cipher!Places -> [Cipher!Units -> SUBSET (Nat \X Nat)]]
  BY DEF Cipher!TypeOK
<1>3. Cipher!Crypted(v, "buf", p) = [mem EXCEPT ![p] = new]
  BY <1>2 DEF Cipher!Crypted
<1>4. new \in [Cipher!Units -> SUBSET (Nat \X Nat)]
  <2>1. \A u \in Cipher!Units : mem["buf"][u] \in SUBSET (Nat \X Nat) /\ mem[p][u] \in SUBSET (Nat \X Nat)
    BY <1>1, <1>2
  <2>2. \A u \in Cipher!Units : Cipher!Xor(mem["buf"][u], {<<v, Cipher!Block(u)>>}) \in SUBSET (Nat \X Nat)
    BY <1>1, <2>1 DEF Cipher!Xor
  <2>3. QED
    BY <2>1, <2>2
<1>5. \A u \in 0 .. len - 1 : new[u] = Cipher!Xor(mem["buf"][u], {<<v, Cipher!Block(u)>>})
  BY <1>1
<1> HIDE DEF new
<1>6. QED
  BY <1>2, <1>3, <1>4, <1>5

LEMMA EncryptPreserves ==
  ASSUME Cipher!CipherInv, Cipher!Encrypt
  PROVE  Cipher!CipherInv'
<1> USE DEF Cipher!CipherInv
<1>1. /\ at = "crypt" /\ UNCHANGED <<call, counter, kind, place, len, iv, tag, way, before>>
      /\ mem' = Cipher!Crypted(iv, "buf", place)
      /\ used' = used \cup {<<iv, Cipher!Block(u), "data", call>> : u \in 0 .. len - 1}
      /\ at' = IF kind = "aead" THEN "auth" ELSE "sealed"
      /\ len \in AeadSizes /\ mem["buf"] = Cipher!Plain
      /\ iv \in Nat /\ call \in Nat /\ place \in Cipher!Places
  BY DEF Cipher!Encrypt, Cipher!message, Cipher!MessageOK, Cipher!TypeOK
<1>2. Cipher!TypeOK'
  BY <1>1, CryptedUnits DEF Cipher!TypeOK
<1>3. \A u \in 0 .. len - 1 : Cipher!Block(u) \in Nat \ {0}
  BY <1>1, CipherSizes DEF Cipher!Block
<1>4. Cipher!StreamsOK' /\ Cipher!SealingOK'
  <2>1. \A x \in used' \ used : \E u \in 0 .. len - 1 : x = <<iv, Cipher!Block(u), "data", call>>
    BY <1>1
  <2>2. \A x \in used' \ used : /\ x \in Nat \X Nat \X {"data", "tag"} \X Nat
                                 /\ x[1] = iv /\ x[4] = call /\ x[2] # 0 /\ x[3] = "data"
    BY <1>1, <1>3, <2>1
  <2>3. \A v, c : Cipher!IVOf(v, c)' <=> Cipher!IVOf(v, c)
    BY <1>1 DEF Cipher!IVOf
  <2>4. Cipher!IVOf(iv, call) /\ \A x \in used : x[1] # iv /\ x[4] # call
    BY <1>1 DEF Cipher!SealingOK
  <2>5. \A x \in used' : x \in used \/ x \in used' \ used
    OBVIOUS
  <2>6. used' \subseteq Nat \X Nat \X {"data", "tag"} \X Nat
    BY <2>2, <2>5 DEF Cipher!StreamsOK
  <2>7. \A x \in used' : Cipher!IVOf(x[1], x[4])' /\ x[4] <= call' /\ (x[2] = 0 <=> x[3] = "tag")
    BY <1>1, <2>2, <2>3, <2>4, <2>5 DEF Cipher!StreamsOK
  <2>8. \A x, y \in used' : x[1] = y[1] => x[4] = y[4]
    BY <2>2, <2>4, <2>5 DEF Cipher!StreamsOK
  <2>9. \A x \in used' : x[1] = iv <=> x[4] = call
    BY <2>2, <2>4, <2>5
  <2>10. QED
    BY <1>1, <2>3, <2>4, <2>6, <2>7, <2>8, <2>9 DEF Cipher!StreamsOK, Cipher!SealingOK
<1>5. Cipher!Encrypted(place)'
  <2>1. \A u \in 0 .. len - 1 : mem["buf"][u] = {}
    BY <1>1, CipherSizes DEF Cipher!Plain
  <2>2. \A u \in 0 .. len - 1 :
          mem'[place][u] = Cipher!Xor(mem["buf"][u], {<<iv, Cipher!Block(u)>>})
    BY <1>1, CryptedUnits
  <2>3. \A s : Cipher!Xor({}, s) = s
    BY DEF Cipher!Xor
  <2>4. \A u \in 0 .. len - 1 : mem'[place][u] = {<<iv, Cipher!Block(u)>>}
    BY <2>1, <2>2, <2>3
  <2>5. QED
    BY <1>1, <2>4 DEF Cipher!Encrypted, Cipher!Block
<1>6. Cipher!MessageOK' /\ Cipher!OpenedOrUntouched'
  BY <1>1, <1>5 DEF Cipher!MessageOK, Cipher!OpenedOrUntouched
<1>7. QED
  BY <1>2, <1>4, <1>6

LEMMA AuthenticatePreserves ==
  ASSUME Cipher!CipherInv, Cipher!Authenticate
  PROVE  Cipher!CipherInv'
<1> USE DEF Cipher!CipherInv
<1>1. /\ at = "auth" /\ UNCHANGED <<call, counter, kind, place, len, iv, mem, way, before>>
      /\ tag' = Cipher!Tag(iv, place)
      /\ used' = used \cup {<<iv, 0, "tag", call>>} /\ at' = "sealed"
      /\ iv \in Nat /\ call \in Nat
  BY DEF Cipher!Authenticate, Cipher!Authenticated, Cipher!message, Cipher!TypeOK
<1>2. Cipher!TypeOK'
  BY <1>1 DEF Cipher!TypeOK
<1>3. Cipher!StreamsOK'
  <2> DEFINE z == <<iv, 0, "tag", call>>
  <2>1. z \in Nat \X Nat \X {"data", "tag"} \X Nat /\ z[1] = iv /\ z[2] = 0 /\ z[3] = "tag" /\ z[4] = call
    BY <1>1
  <2>2. \A x \in used' : x \in used \/ x = z
    BY <1>1
  <2> HIDE DEF z
  <2>3. \A v, c : Cipher!IVOf(v, c)' <=> Cipher!IVOf(v, c)
    BY <1>1 DEF Cipher!IVOf
  <2>4. Cipher!IVOf(iv, call) /\ \A x \in used : x[1] = iv <=> x[4] = call
    BY <1>1 DEF Cipher!SealingOK
  <2>5. used' \subseteq Nat \X Nat \X {"data", "tag"} \X Nat
    BY <2>1, <2>2 DEF Cipher!StreamsOK
  <2>6. \A x \in used' : Cipher!IVOf(x[1], x[4])' /\ x[4] <= call' /\ (x[2] = 0 <=> x[3] = "tag")
    BY <1>1, <2>1, <2>2, <2>3, <2>4 DEF Cipher!StreamsOK
  <2>7. \A x, y \in used' : x[1] = y[1] => x[4] = y[4]
    BY <2>1, <2>2, <2>4 DEF Cipher!StreamsOK
  <2>8. QED
    BY <2>5, <2>6, <2>7 DEF Cipher!StreamsOK
<1>4. Cipher!SealingOK' /\ Cipher!OpenedOrUntouched'
  BY <1>1 DEF Cipher!SealingOK, Cipher!OpenedOrUntouched
<1>5. Cipher!MessageOK'
  BY <1>1 DEF Cipher!MessageOK, Cipher!Encrypted, Cipher!Tag
<1>6. QED
  BY <1>2, <1>3, <1>4, <1>5

\* The message on its way: a change anywhere makes the tag wrong.
LEMMA DeliverPreserves ==
  ASSUME Cipher!CipherInv, Cipher!Deliver
  PROVE  Cipher!CipherInv'
<1> USE DEF Cipher!CipherInv
<1> DEFINE sealed == mem[place]
           received == IF way' = "data" THEN [sealed EXCEPT ![0] = Cipher!Xor(sealed[0], Cipher!Changed)]
                    ELSE sealed
<1>1. /\ at = "sealed" /\ UNCHANGED <<call, counter, kind, used>>
      /\ mem' = [p \in Cipher!Places |-> IF p = "buf" THEN received ELSE Cipher!Garbage]
      /\ tag' = [tag EXCEPT !.forged = (way' = "tag")]
      /\ iv' = IF way' = "iv" THEN iv + 2 * AeadCalls + 2 ELSE iv
      /\ IF way' = "length" THEN len' \in AeadSizes \ {len} ELSE len' = len
      /\ before' = mem' /\ at' = IF kind = "aead" THEN "verify" ELSE "open"
      /\ place' \in Cipher!Places /\ way' \in Cipher!Ways
  BY DEF Cipher!Deliver
<1>2. /\ len \in AeadSizes /\ iv \in Nat /\ place \in Cipher!Places
      /\ sealed \in [Cipher!Units -> SUBSET (Nat \X Nat)]
      /\ \A u \in 0 .. len - 1 : sealed[u] = {<<iv, Cipher!Block(u)>>}
      /\ kind \in {"aead", "chacha"}
  BY <1>1 DEF Cipher!TypeOK, Cipher!MessageOK, Cipher!Encrypted
<1>3. received \in [Cipher!Units -> SUBSET (Nat \X Nat)]
  <2>1. Cipher!Xor(sealed[0], Cipher!Changed) \in SUBSET (Nat \X Nat)
    BY <1>2, CipherSizes DEF Cipher!Xor, Cipher!Changed
  <2>2. QED
    BY <1>2, <2>1
<1>4. mem'["buf"] = received
  BY <1>1 DEF Cipher!Places
<1>5. /\ Cipher!TypeOK' /\ len' \in AeadSizes
  <2>1. len' \in AeadSizes /\ iv' \in Nat
    BY <1>1, <1>2, CipherSizes
  <2>2. Cipher!Garbage \in [Cipher!Units -> SUBSET (Nat \X Nat)]
    BY DEF Cipher!Garbage, Cipher!Changed
  <2>3. mem' \in [Cipher!Places -> [Cipher!Units -> SUBSET (Nat \X Nat)]]
    BY <1>1, <1>3, <2>2
  <2>4. QED
    BY <1>1, <2>1, <2>3 DEF Cipher!TypeOK
<1>6. Cipher!StreamsOK' /\ Cipher!SealingOK' /\ Cipher!OpenedOrUntouched'
  <2>1. \A v, c : Cipher!IVOf(v, c)' <=> Cipher!IVOf(v, c)
    BY <1>1 DEF Cipher!IVOf
  <2>2. QED
    BY <1>1, <2>1 DEF Cipher!StreamsOK, Cipher!SealingOK, Cipher!OpenedOrUntouched
<1>7. way' = "none" => iv' = iv /\ len' = len /\ received = sealed
  BY <1>1
<1>8. way' = "none" => Cipher!Encrypted("buf")'
  BY <1>2, <1>4, <1>7 DEF Cipher!Encrypted, Cipher!Block
<1>9. kind = "aead" => (tag' = Cipher!Tag(iv, "buf")' <=> way' = "none")
  <2> SUFFICES ASSUME kind = "aead"
               PROVE  tag' = Cipher!Tag(iv, "buf")' <=> way' = "none"
    OBVIOUS
  <2> DEFINE fed == [u \in 0 .. len - 1 |-> sealed[u]]
             fed2 == [u \in 0 .. len' - 1 |-> received[u]]
  <2>1. tag = [iv |-> iv, fed |-> fed, len |-> len, forged |-> FALSE]
    BY <1>1 DEF Cipher!MessageOK, Cipher!Tag
  <2>2. Cipher!Tag(iv, "buf")' = [iv |-> iv', fed |-> fed2, len |-> len', forged |-> FALSE]
    BY <1>4 DEF Cipher!Tag
  <2>3. way' = "data" => fed # fed2
    <3> SUFFICES ASSUME way' = "data" PROVE fed # fed2
      OBVIOUS
    <3>1. 0 \in 0 .. len - 1 /\ 0 \in Cipher!Units /\ len' = len
      BY <1>1, <1>2, CipherSizes
    <3>2. sealed[0] = {<<iv, Cipher!Block(0)>>} /\ Cipher!Block(0) = 1
      BY <1>2, <3>1 DEF Cipher!Block
    <3>3. received[0] = Cipher!Xor(sealed[0], {<<0, 0>>})
      BY <1>2, <3>1 DEF Cipher!Changed
    <3>4. <<0, 0>> \in received[0] /\ <<0, 0>> \notin sealed[0]
      BY <3>2, <3>3 DEF Cipher!Xor
    <3>5. fed[0] = sealed[0] /\ fed2[0] = received[0]
      BY <3>1
    <3>6. QED
      BY <3>4, <3>5
  <2>4. way' = "none" => fed2 = fed
    BY <1>7
  <2>5. way' = "iv" => iv' # iv
    BY <1>1, <1>2, CipherSizes
  <2>6. way' = "length" => len' # len
    BY <1>1
  <2> HIDE DEF fed, fed2, sealed, received
  <2>7. CASE way' = "tag"
    <3>1. tag' = [iv |-> iv, fed |-> fed, len |-> len, forged |-> TRUE]
      BY <1>1, <2>1, <2>7
    <3>2. QED
      BY <2>2, <2>7, <3>1
  <2>8. CASE way' # "tag"
    <3>1. tag' = [iv |-> iv, fed |-> fed, len |-> len, forged |-> FALSE]
      BY <1>1, <2>1, <2>8
    <3>2. tag' = Cipher!Tag(iv, "buf")' <=> iv' = iv /\ fed2 = fed /\ len' = len
      BY <2>2, <3>1
    <3>3. way' \in {"none", "data", "iv", "length"}
      BY <1>1, <2>8 DEF Cipher!Ways
    <3>4. QED
      BY <1>7, <2>3, <2>4, <2>5, <2>6, <3>2, <3>3
  <2>9. QED
    BY <2>7, <2>8
<1> HIDE DEF received, sealed
<1>10. Cipher!MessageOK'
  BY <1>1, <1>2, <1>5, <1>8, <1>9 DEF Cipher!MessageOK
<1>11. QED
  BY <1>5, <1>6, <1>10

LEMMA VerifyPreserves ==
  ASSUME Cipher!CipherInv, Cipher!Verify
  PROVE  Cipher!CipherInv'
<1> USE DEF Cipher!CipherInv
<1>1. /\ at = "verify"
      /\ UNCHANGED <<call, counter, kind, place, len, iv, mem, tag, way, before, used>>
      /\ at' = IF Cipher!Tag(iv, "buf") = tag THEN "open" ELSE "refused"
  BY DEF Cipher!Verify, Cipher!message
<1>2. tag = Cipher!Tag(iv, "buf") <=> way = "none"
  BY <1>1 DEF Cipher!MessageOK
<1>3. at' = IF way = "none" THEN "open" ELSE "refused"
  BY <1>1, <1>2
<1>4. Cipher!TypeOK'
  BY <1>1 DEF Cipher!TypeOK
<1>5. Cipher!StreamsOK' /\ Cipher!SealingOK'
  <2>1. \A v, c : Cipher!IVOf(v, c)' <=> Cipher!IVOf(v, c)
    BY <1>1 DEF Cipher!IVOf
  <2>2. QED
    BY <1>1, <1>3, <2>1 DEF Cipher!StreamsOK, Cipher!SealingOK
<1>6. Cipher!MessageOK' /\ Cipher!OpenedOrUntouched'
  BY <1>1, <1>3 DEF Cipher!MessageOK, Cipher!OpenedOrUntouched, Cipher!Encrypted, Cipher!Block
<1>7. QED
  BY <1>4, <1>5, <1>6

LEMMA OpenPreserves ==
  ASSUME Cipher!CipherInv, Cipher!Open
  PROVE  Cipher!CipherInv'
<1> USE DEF Cipher!CipherInv
<1>1. /\ at = "open" /\ at' = "opened"
      /\ UNCHANGED <<call, counter, kind, place, len, iv, tag, way, before, used>>
      /\ mem' = Cipher!Crypted(iv, "buf", place)
      /\ len \in AeadSizes /\ iv \in Nat /\ place \in Cipher!Places
  BY DEF Cipher!Open, Cipher!message, Cipher!MessageOK, Cipher!TypeOK
<1>2. Cipher!TypeOK'
  BY <1>1, CryptedUnits DEF Cipher!TypeOK
<1>3. Cipher!StreamsOK' /\ Cipher!SealingOK' /\ Cipher!MessageOK'
  <2>1. \A v, c : Cipher!IVOf(v, c)' <=> Cipher!IVOf(v, c)
    BY <1>1 DEF Cipher!IVOf
  <2>2. QED
    BY <1>1, <2>1 DEF Cipher!StreamsOK, Cipher!SealingOK, Cipher!MessageOK
<1>4. way = "none" => \A u \in 0 .. len - 1 : mem'[place][u] = {}
  <2>1. \A u \in 0 .. len - 1 :
          mem'[place][u] = Cipher!Xor(mem["buf"][u], {<<iv, Cipher!Block(u)>>})
    BY <1>1, CryptedUnits
  <2>2. \A s : Cipher!Xor(s, s) = {}
    BY DEF Cipher!Xor
  <2>3. QED
    BY <1>1, <2>1, <2>2 DEF Cipher!MessageOK, Cipher!Encrypted
<1>5. Cipher!OpenedOrUntouched'
  BY <1>1, <1>4 DEF Cipher!OpenedOrUntouched, Cipher!MessageOK
<1>6. QED
  BY <1>2, <1>3, <1>5

LEMMA NextMessagePreserves ==
  ASSUME Cipher!CipherInv, Cipher!NextMessage \/ Cipher!Done \/ UNCHANGED Cipher!vars
  PROVE  Cipher!CipherInv'
<1> USE DEF Cipher!CipherInv
<1>1. /\ UNCHANGED <<call, counter, kind, place, len, iv, mem, tag, way, before, used>>
      /\ at' \in {at, "app"}
  BY DEF Cipher!NextMessage, Cipher!Done, Cipher!vars, Cipher!message
<1>2. Cipher!TypeOK'
  BY <1>1 DEF Cipher!TypeOK
<1>3. Cipher!StreamsOK' /\ Cipher!SealingOK'
  <2>1. \A v, c : Cipher!IVOf(v, c)' <=> Cipher!IVOf(v, c)
    BY <1>1 DEF Cipher!IVOf
  <2>2. QED
    BY <1>1, <2>1 DEF Cipher!StreamsOK, Cipher!SealingOK
<1>4. Cipher!MessageOK' /\ Cipher!OpenedOrUntouched'
  <2>1. CASE at' = "app"
    BY <2>1 DEF Cipher!MessageOK, Cipher!OpenedOrUntouched
  <2>2. CASE at' = at
    <3>1. \A v, p : Cipher!Tag(v, p)' = Cipher!Tag(v, p) /\ Cipher!Encrypted(p)' = Cipher!Encrypted(p)
      BY <1>1 DEF Cipher!Tag, Cipher!Encrypted, Cipher!Block
    <3>2. QED
      BY <1>1, <2>2, <3>1
        DEF Cipher!MessageOK, Cipher!OpenedOrUntouched, Cipher!Tag, Cipher!Encrypted, Cipher!Block
  <2>3. QED
    BY <1>1, <2>1, <2>2
<1>5. QED
  BY <1>2, <1>3, <1>4

\* The invariant says what the run checks: one IV is that of one message, and
\* in it the block tells what the stream is for.
LEMMA CipherSafe ==
  ASSUME Cipher!CipherInv
  PROVE  Cipher!OpenedOrUntouched /\ Cipher!StreamsApart
<1>1. Cipher!StreamsOK /\ Cipher!OpenedOrUntouched
  BY DEF Cipher!CipherInv
<1>2. ASSUME NEW x \in used, NEW y \in used, x[1] = y[1], x[2] = y[2]
      PROVE  x = y
  <2>1. x \in Nat \X Nat \X {"data", "tag"} \X Nat /\ y \in Nat \X Nat \X {"data", "tag"} \X Nat
    BY <1>1 DEF Cipher!StreamsOK
  <2>2. x[4] = y[4]
    BY <1>1, <1>2 DEF Cipher!StreamsOK
  <2>3. (x[2] = 0 <=> x[3] = "tag") /\ (y[2] = 0 <=> y[3] = "tag")
    BY <1>1 DEF Cipher!StreamsOK
  <2>4. x[3] = y[3]
    BY <1>2, <2>1, <2>3
  <2>5. QED
    BY <1>2, <2>1, <2>2, <2>4
<1>3. QED
  BY <1>1, <1>2 DEF Cipher!StreamsApart

\* What ime_aead_dec() opens is what was sealed, a call that it refuses has
\* changed nothing, and no block of key stream serves twice, for any number of
\* messages of any lengths (aead.c).
THEOREM CipherSound == MCSpec => []CipherIsSound
<1> DEFINE Inv == kernel = "aead" => Cipher!CipherInv
<1>1. MCInit => Inv
  BY CipherInit DEF MCInit, KernelInit
<1>2. Inv /\ [MCNext]_all => Inv'
  <2> SUFFICES ASSUME Inv, [MCNext]_all, kernel' = "aead" PROVE Cipher!CipherInv'
    OBVIOUS
  <2>1. kernel = "aead" /\ [Cipher!Next]_(Cipher!vars)
    BY DEF MCNext, all, group, Cipher!vars
  <2>2. QED
    BY <2>1, SealCallPreserves, EncryptPreserves, AuthenticatePreserves, DeliverPreserves,
       VerifyPreserves, OpenPreserves, NextMessagePreserves DEF Cipher!Next
<1>3. Inv => CipherIsSound
  BY CipherSafe DEF CipherIsSound
<1>4. QED
  BY <1>1, <1>2, <1>3, PTL DEF MCSpec

-----------------------------------------------------------------------------
(* mbench: its barrier. *)

release == m2
slot == m3
want == m4
scanned == m5
waits == m6
exits == m7
USE DEF release, slot, want, scanned, waits, exits

LEMMA MbInit ==
  ASSUME Mb!Init
  PROVE  Mb!EpochInv
<1>1. 0 \in Mb!Tasklets
  BY NAssumption DEF Mb!Tasklets
<1>2. QED
  BY <1>1 DEF Mb!Init, Mb!EpochInv, Mb!TypeOK, Mb!Booting, Mb!BootOK, Mb!LeaderOK,
    Mb!OthersOK, Mb!Behind, Mb!Tasklets

\* mybarrier_init() of mbench.
LEMMA MbBoots ==
  ASSUME Mb!EpochInv, Mb!InitSlot \/ Mb!InitRelease
  PROVE  Mb!EpochInv'
<1> USE DEF Mb!EpochInv, Mb!Booting
<1>0. N \in Nat \ {0} /\ 0 \in Mb!Tasklets /\ \A t \in Mb!Tasklets : t \in Nat /\ t < N
  BY NAssumption DEF Mb!Tasklets
<1>1. CASE Mb!InitSlot
  <2>1. scanned \in Mb!Tasklets /\ (scanned + 1 < N => scanned + 1 \in Mb!Tasklets)
    BY <1>0 DEF Mb!TypeOK, Mb!Tasklets
  <2>2. Mb!TypeOK'
    BY <1>0, <1>1, <2>1 DEF Mb!InitSlot, Mb!Goto, Mb!TypeOK
  <2>3. Mb!BootOK' /\ Mb!LeaderOK'
    BY <1>0, <1>1, <2>1 DEF Mb!InitSlot, Mb!Goto, Mb!BootOK, Mb!LeaderOK, Mb!TypeOK
  <2>4. Mb!OthersOK'
    <3> SUFFICES ASSUME NEW t \in Mb!Tasklets \ {0}
                 PROVE  (Mb!Behind(t) \/ Mb!Ahead(t) \/ Mb!Freed(t) \/ Mb!Lost(t))'
      BY DEF Mb!OthersOK
    <3>1. /\ release = 0 /\ release' = 0 /\ slot'[t] \in {slot[t], 0} /\ at'[t] = at[t]
          /\ UNCHANGED <<want, waits, exits>>
      BY <1>0, <1>1 DEF Mb!InitSlot, Mb!Goto, Mb!BootOK, Mb!TypeOK
    <3>2. ~ Mb!Freed(t)
      BY <3>1 DEF Mb!Freed, Mb!TypeOK
    <3>3. QED
      BY <3>1, <3>2 DEF Mb!OthersOK, Mb!Behind, Mb!Ahead, Mb!Lost
  <2>5. QED
    BY <2>2, <2>3, <2>4
<1>2. CASE Mb!InitRelease
  <2>1. Mb!TypeOK' /\ Mb!BootOK'
    BY <1>0, <1>2 DEF Mb!InitRelease, Mb!Goto, Mb!TypeOK, Mb!BootOK
  <2>2. Mb!LeaderOK'
    BY <1>0, <1>2 DEF Mb!InitRelease, Mb!Goto, Mb!TypeOK, Mb!LeaderOK, Mb!BootOK
  <2>3. Mb!OthersOK'
    BY <1>0, <1>2 DEF Mb!InitRelease, Mb!Goto, Mb!TypeOK, Mb!OthersOK, Mb!BootOK, Mb!Behind,
      Mb!Ahead, Mb!Freed, Mb!Lost
  <2>4. QED
    BY <2>1, <2>2, <2>3
<1>3. QED
  BY <1>1, <1>2

\* A tasklet computes the round, announces it, or sees it released.
LEMMA MbWaits ==
  ASSUME Mb!EpochInv, NEW t \in Mb!Tasklets, Mb!Tasklet(t)
  PROVE  Mb!EpochInv'
<1> USE DEF Mb!EpochInv
<1>0. N \in Nat \ {0} /\ 0 \in Mb!Tasklets /\ \A s \in Mb!Tasklets : s \in Nat /\ s < N
  BY NAssumption DEF Mb!Tasklets
<1>1. /\ release' = release /\ scanned' = scanned /\ release \in Nat
      /\ \A s \in Mb!Tasklets \ {t} :
           /\ at'[s] = at[s] /\ slot'[s] = slot[s] /\ want'[s] = want[s]
           /\ waits'[s] = waits[s] /\ exits'[s] = exits[s]
  BY DEF Mb!Tasklet, Mb!Enter, Mb!Announce, Mb!Poll, Mb!Goto, Mb!TypeOK
<1>2. Mb!TypeOK'
  <2>1. CASE Mb!Enter(t)
    BY <2>1 DEF Mb!Enter, Mb!Goto, Mb!TypeOK, Mb!Want
  <2>2. CASE Mb!Announce(t) \/ Mb!Poll(t)
    BY <2>2 DEF Mb!Announce, Mb!Poll, Mb!Goto, Mb!TypeOK
  <2>3. QED
    BY <2>1, <2>2 DEF Mb!Tasklet
<1>3. t = 0 => ~ Mb!Booting /\ ~ Mb!Booting'
  BY <1>0 DEF Mb!Tasklet, Mb!Enter, Mb!Announce, Mb!Poll, Mb!Goto, Mb!TypeOK, Mb!Booting
<1>4. Mb!BootOK'
  BY <1>0, <1>1, <1>3 DEF Mb!BootOK, Mb!Booting
<1>5. CASE t = 0
  <2>1. /\ \/ at[0] = "app" /\ at'[0] = "announce" /\ waits'[0] = waits[0] + 1
              /\ want'[0] = release + 1 /\ exits' = exits /\ slot' = slot
           \/ at[0] = "announce" /\ at'[0] = "scan" /\ slot'[0] = want[0]
              /\ want' = want /\ waits' = waits /\ exits' = exits
    BY <1>0, <1>5 DEF Mb!Tasklet, Mb!Enter, Mb!Announce, Mb!Poll, Mb!Goto, Mb!TypeOK, Mb!Want,
      Mb!LeaderOK
  <2>2. Mb!LeaderOK'
    BY <1>0, <1>1, <1>5, <2>1 DEF Mb!LeaderOK
  <2>3. Mb!OthersOK'
    BY <1>0, <1>1, <1>5 DEF Mb!OthersOK, Mb!Behind, Mb!Ahead, Mb!Freed, Mb!Lost
  <2>4. QED
    BY <1>2, <1>4, <2>2, <2>3
<1>6. CASE t # 0
  <2>1. \/ at[t] = "app" /\ at'[t] = "announce" /\ waits'[t] = waits[t] + 1
           /\ want'[t] = release + 1 /\ exits' = exits /\ slot' = slot
        \/ at[t] = "announce" /\ at'[t] = "poll" /\ slot'[t] = want[t]
           /\ want' = want /\ waits' = waits /\ exits' = exits
        \/ at[t] = "poll" /\ at'[t] = "app" /\ release = want[t] /\ exits'[t] = exits[t] + 1
           /\ want' = want /\ waits' = waits /\ slot' = slot
    BY <1>0, <1>6 DEF Mb!Tasklet, Mb!Enter, Mb!Announce, Mb!Poll, Mb!Goto, Mb!TypeOK, Mb!Want
  <2>2. Mb!Behind(t) \/ Mb!Ahead(t) \/ Mb!Freed(t) \/ Mb!Lost(t)
    BY <1>6 DEF Mb!OthersOK
  <2>3. slot[t] = release + 1 => slot'[t] = release + 1
    BY <1>1, <2>1, <2>2 DEF Mb!Behind, Mb!Ahead, Mb!Freed, Mb!Lost
  <2>4. Mb!LeaderOK'
    BY <1>0, <1>1, <1>6, <2>3 DEF Mb!LeaderOK
  <2>5. (Mb!Behind(t) \/ Mb!Ahead(t) \/ Mb!Freed(t) \/ Mb!Lost(t))'
    BY <1>1, <2>1, <2>2 DEF Mb!Behind, Mb!Ahead, Mb!Freed, Mb!Lost, Mb!TypeOK
  <2>6. Mb!OthersOK'
    BY <1>1, <2>5 DEF Mb!OthersOK, Mb!Behind, Mb!Ahead, Mb!Freed, Mb!Lost
  <2>7. QED
    BY <1>2, <1>4, <2>4, <2>6
<1>7. QED
  BY <1>5, <1>6

\* Tasklet 0 looks at the slots and releases the round.
LEMMA MbReleases ==
  ASSUME Mb!EpochInv, Mb!Scan \/ Mb!Open
  PROVE  Mb!EpochInv'
<1> USE DEF Mb!EpochInv, Mb!Booting
<1>0. N \in Nat \ {0} /\ 0 \in Mb!Tasklets /\ \A t \in Mb!Tasklets : t \in Nat /\ t < N
  BY NAssumption DEF Mb!Tasklets
<1>1. CASE Mb!Scan
  <2>1. scanned \in Mb!Tasklets /\ (scanned + 1 < N => scanned + 1 \in Mb!Tasklets)
    BY <1>0 DEF Mb!TypeOK, Mb!Tasklets
  <2>2. Mb!TypeOK' /\ Mb!BootOK'
    BY <1>0, <1>1, <2>1 DEF Mb!Scan, Mb!Goto, Mb!TypeOK, Mb!BootOK
  <2>3. \A t \in Mb!Tasklets : t < scanned + 1 => slot[t] = release + 1
    BY <1>0, <1>1, <2>1 DEF Mb!Scan, Mb!LeaderOK, Mb!TypeOK
  <2>4. scanned + 1 < N \/ \A t \in Mb!Tasklets : t < scanned + 1
    BY <1>0, <2>1
  <2>5. Mb!LeaderOK'
    BY <1>0, <1>1, <2>1, <2>3, <2>4 DEF Mb!Scan, Mb!Goto, Mb!LeaderOK, Mb!TypeOK
  <2>6. Mb!OthersOK'
    BY <1>0, <1>1 DEF Mb!Scan, Mb!Goto, Mb!OthersOK, Mb!TypeOK, Mb!Behind, Mb!Ahead, Mb!Freed,
      Mb!Lost
  <2>7. QED
    BY <2>2, <2>5, <2>6
<1>2. CASE Mb!Open
  <2>1. release \in Nat /\ want[0] = release + 1 /\ release' = release + 1
    BY <1>0, <1>2 DEF Mb!Open, Mb!LeaderOK, Mb!TypeOK
  <2>2. Mb!TypeOK' /\ Mb!BootOK'
    BY <1>0, <1>2, <2>1 DEF Mb!Open, Mb!Goto, Mb!TypeOK, Mb!BootOK
  <2>3. Mb!LeaderOK'
    BY <1>0, <1>2, <2>1 DEF Mb!Open, Mb!Goto, Mb!TypeOK, Mb!LeaderOK
  <2>4. \A t \in Mb!Tasklets \ {0} : Mb!Ahead(t)
    BY <1>0, <1>2, <2>1 DEF Mb!Open, Mb!LeaderOK, Mb!OthersOK, Mb!Behind, Mb!Freed, Mb!Lost
  <2>5. \A t \in Mb!Tasklets \ {0} : Mb!Freed(t)'
    BY <1>0, <1>2, <2>1, <2>4 DEF Mb!Open, Mb!Goto, Mb!Ahead, Mb!Freed, Mb!TypeOK
  <2>6. QED
    BY <2>2, <2>3, <2>5 DEF Mb!OthersOK
<1>3. QED
  BY <1>1, <1>2

LEMMA MbPreserves ==
  ASSUME Mb!EpochInv, [Mb!Next]_(Mb!vars)
  PROVE  Mb!EpochInv'
<1>1. CASE UNCHANGED Mb!vars
  BY <1>1 DEF Mb!vars, Mb!EpochInv, Mb!TypeOK, Mb!Booting, Mb!BootOK, Mb!LeaderOK,
    Mb!OthersOK, Mb!Behind, Mb!Ahead, Mb!Freed, Mb!Lost
<1>2. QED
  BY <1>1, MbBoots, MbWaits, MbReleases DEF Mb!Next, Mb!Leader

\* The invariant says what the run checks.
LEMMA MbSafe ==
  ASSUME Mb!EpochInv
  PROVE  Mb!EpochIntegrity
<1> USE DEF Mb!EpochInv
<1>1. 0 \in Mb!Tasklets
  BY NAssumption DEF Mb!Tasklets
<1>2. release \in Nat /\ exits[0] = release /\ waits[0] \in {release, release + 1}
  BY <1>1 DEF Mb!TypeOK, Mb!LeaderOK, Mb!BootOK, Mb!Booting
<1>3. \A t \in Mb!Tasklets : exits[t] <= release /\ waits[t] >= release
  BY <1>1, <1>2 DEF Mb!TypeOK, Mb!OthersOK, Mb!Behind, Mb!Ahead, Mb!Freed, Mb!Lost
<1>4. QED
  BY <1>2, <1>3 DEF Mb!EpochIntegrity, Mb!TypeOK

\* Nobody leaves a round of mbench before all have entered it, whichever
\* tasklet comes to it first, and though the words are cleared while others
\* may have announced themselves (mbench/main.c:37-61, 84-98).
THEOREM EpochInvariant == Mb!Spec => []Mb!EpochInv
<1>1. QED
  BY MbInit, MbPreserves, PTL DEF Mb!Spec

-----------------------------------------------------------------------------
(* mybarrier_wait(), in both versions: what SenseBarrierProofs says, of    *)
(* the instances that MCKernels runs.                                      *)

FlagProofs == INSTANCE SenseBarrierProofs WITH
  N <- BarrierN, Rounds <- BarrierRounds, SlotInit <- 0, InitFlag <- TRUE,
  pc <- m1, sense <- m2, arrive <- m3, initDone <- m4, nextS <- m5,
  i <- m6, entered <- m7, left <- m8, late <- m9

\* The version of MLP is the one proved about.
LEMMA FlagSame ==
  /\ Flag!Init <=> FlagProofs!Init
  /\ Flag!Next <=> FlagProofs!Next
  /\ Flag!vars = FlagProofs!vars /\ Flag!vars' = FlagProofs!vars'
  /\ Flag!SenseInv <=> FlagProofs!SenseInv
  /\ Flag!SenseInv' <=> FlagProofs!SenseInv'
  /\ Flag!RoundIntegrity <=> FlagProofs!RoundIntegrity
<1>1. Flag!Init <=> FlagProofs!Init
  BY DEF
    Flag!Init, FlagProofs!Init, Flag!Tasklets, FlagProofs!Tasklets
<1>2. /\ Flag!Next <=> FlagProofs!Next
      /\ Flag!vars = FlagProofs!vars
      /\ Flag!vars' = FlagProofs!vars'
  BY DEF
    Flag!Next, FlagProofs!Next, Flag!Tasklet0, FlagProofs!Tasklet0, Flag!Tasklet,
    FlagProofs!Tasklet, Flag!Finished, FlagProofs!Finished, Flag!InitSense,
    FlagProofs!InitSense, Flag!InitUnflag, FlagProofs!InitUnflag, Flag!InitSlot,
    FlagProofs!InitSlot, Flag!InitRaiseFlag, FlagProofs!InitRaiseFlag, Flag!Scan,
    FlagProofs!Scan, Flag!Flip, FlagProofs!Flip, Flag!Wait, FlagProofs!Wait, Flag!Gate,
    FlagProofs!Gate, Flag!Snap, FlagProofs!Snap, Flag!Announce, FlagProofs!Announce,
    Flag!Poll, FlagProofs!Poll, Flag!Goto, FlagProofs!Goto, Flag!shared, FlagProofs!shared,
    Flag!counts, FlagProofs!counts, Flag!Returned, FlagProofs!Returned,
    Flag!Lag, FlagProofs!Lag, Flag!vars, FlagProofs!vars, Flag!Tasklets,
    FlagProofs!Tasklets
<1>3. /\ Flag!SenseInv <=> FlagProofs!SenseInv
      /\ Flag!SenseInv' <=> FlagProofs!SenseInv'
      /\ Flag!RoundIntegrity <=> FlagProofs!RoundIntegrity
  BY DEF
    Flag!SenseInv, FlagProofs!SenseInv, Flag!TypeOK, FlagProofs!TypeOK, Flag!LeaderOK,
    FlagProofs!LeaderOK, Flag!OthersOK, FlagProofs!OthersOK, Flag!ScanOK,
    FlagProofs!ScanOK, Flag!GateOK, FlagProofs!GateOK, Flag!InitLocations,
    FlagProofs!InitLocations, Flag!Locations, FlagProofs!Locations, Flag!Tasklets,
    FlagProofs!Tasklets, Flag!Behind, FlagProofs!Behind, Flag!Ahead, FlagProofs!Ahead,
    Flag!Freed, FlagProofs!Freed, Flag!Punctual, FlagProofs!Punctual, Flag!Lag, FlagProofs!Lag, Flag!RoundIntegrity,
    FlagProofs!RoundIntegrity
<1>4. QED
  BY <1>1, <1>2, <1>3

LEMMA FlagHolds ==
  /\ Flag!Init => Flag!SenseInv
  /\ Flag!SenseInv /\ [Flag!Next]_(Flag!vars) => Flag!SenseInv'
  /\ Flag!SenseInv => Flag!RoundIntegrity
<1>1. BarrierN \in Nat \ {0} /\ BarrierRounds \in Nat
  BY BarrierAssumption
<1>2. 0 \in {0, 1} /\ TRUE \in BOOLEAN /\ FALSE \in BOOLEAN /\ FlagProofs!Sound
  BY DEF FlagProofs!Sound
<1>3. FlagProofs!Init => FlagProofs!SenseInv
  BY <1>1, <1>2, FlagProofs!InitOK
<1>4. ASSUME FlagProofs!SenseInv, [FlagProofs!Next]_(FlagProofs!vars)
      PROVE  FlagProofs!SenseInv'
  BY <1>1, <1>2, <1>4, FlagProofs!NextPreserves
<1>5. FlagProofs!SenseInv => FlagProofs!RoundIntegrity
  BY <1>1, <1>2, FlagProofs!InvIsSafe
<1>6. QED
  BY <1>3, <1>4, <1>5, FlagSame

SlotsProofs == INSTANCE SenseBarrierProofs WITH
  N <- BarrierN, Rounds <- BarrierRounds, SlotInit <- 1, InitFlag <- FALSE,
  pc <- m1, sense <- m2, arrive <- m3, initDone <- m4, nextS <- m5,
  i <- m6, entered <- m7, left <- m8, late <- m9

\* So is the other.
LEMMA SlotsSame ==
  /\ Slots!Init <=> SlotsProofs!Init
  /\ Slots!Next <=> SlotsProofs!Next
  /\ Slots!vars = SlotsProofs!vars /\ Slots!vars' = SlotsProofs!vars'
  /\ Slots!SenseInv <=> SlotsProofs!SenseInv
  /\ Slots!SenseInv' <=> SlotsProofs!SenseInv'
  /\ Slots!RoundIntegrity <=> SlotsProofs!RoundIntegrity
<1>1. Slots!Init <=> SlotsProofs!Init
  BY DEF
    Slots!Init, SlotsProofs!Init, Slots!Tasklets, SlotsProofs!Tasklets
<1>2. /\ Slots!Next <=> SlotsProofs!Next
      /\ Slots!vars = SlotsProofs!vars
      /\ Slots!vars' = SlotsProofs!vars'
  BY DEF
    Slots!Next, SlotsProofs!Next, Slots!Tasklet0, SlotsProofs!Tasklet0, Slots!Tasklet,
    SlotsProofs!Tasklet, Slots!Finished, SlotsProofs!Finished, Slots!InitSense,
    SlotsProofs!InitSense, Slots!InitUnflag, SlotsProofs!InitUnflag, Slots!InitSlot,
    SlotsProofs!InitSlot, Slots!InitRaiseFlag, SlotsProofs!InitRaiseFlag, Slots!Scan,
    SlotsProofs!Scan, Slots!Flip, SlotsProofs!Flip, Slots!Wait, SlotsProofs!Wait,
    Slots!Gate, SlotsProofs!Gate, Slots!Snap, SlotsProofs!Snap, Slots!Announce,
    SlotsProofs!Announce, Slots!Poll, SlotsProofs!Poll, Slots!Goto, SlotsProofs!Goto,
    Slots!shared, SlotsProofs!shared, Slots!counts, SlotsProofs!counts, Slots!Returned,
    SlotsProofs!Returned, Slots!Lag, SlotsProofs!Lag, Slots!vars,
    SlotsProofs!vars, Slots!Tasklets, SlotsProofs!Tasklets
<1>3. /\ Slots!SenseInv <=> SlotsProofs!SenseInv
      /\ Slots!SenseInv' <=> SlotsProofs!SenseInv'
      /\ Slots!RoundIntegrity <=> SlotsProofs!RoundIntegrity
  BY DEF
    Slots!SenseInv, SlotsProofs!SenseInv, Slots!TypeOK, SlotsProofs!TypeOK, Slots!LeaderOK,
    SlotsProofs!LeaderOK, Slots!OthersOK, SlotsProofs!OthersOK, Slots!ScanOK,
    SlotsProofs!ScanOK, Slots!GateOK, SlotsProofs!GateOK, Slots!InitLocations,
    SlotsProofs!InitLocations, Slots!Locations, SlotsProofs!Locations, Slots!Tasklets,
    SlotsProofs!Tasklets, Slots!Behind, SlotsProofs!Behind, Slots!Ahead, SlotsProofs!Ahead,
    Slots!Freed, SlotsProofs!Freed, Slots!Punctual, SlotsProofs!Punctual, Slots!Lag, SlotsProofs!Lag,
    Slots!RoundIntegrity, SlotsProofs!RoundIntegrity
<1>4. QED
  BY <1>1, <1>2, <1>3

LEMMA SlotsHolds ==
  /\ Slots!Init => Slots!SenseInv
  /\ Slots!SenseInv /\ [Slots!Next]_(Slots!vars) => Slots!SenseInv'
  /\ Slots!SenseInv => Slots!RoundIntegrity
<1>1. BarrierN \in Nat \ {0} /\ BarrierRounds \in Nat
  BY BarrierAssumption
<1>2. 1 \in {0, 1} /\ FALSE \in BOOLEAN /\ TRUE \in BOOLEAN /\ SlotsProofs!Sound
  BY DEF SlotsProofs!Sound
<1>3. SlotsProofs!Init => SlotsProofs!SenseInv
  BY <1>1, <1>2, SlotsProofs!InitOK
<1>4. ASSUME SlotsProofs!SenseInv, [SlotsProofs!Next]_(SlotsProofs!vars)
      PROVE  SlotsProofs!SenseInv'
  BY <1>1, <1>2, <1>4, SlotsProofs!NextPreserves
<1>5. SlotsProofs!SenseInv => SlotsProofs!RoundIntegrity
  BY <1>1, <1>2, SlotsProofs!InvIsSafe
<1>6. QED
  BY <1>3, <1>4, <1>5, SlotsSame

(***************************************************************************)
(* Both versions of mybarrier_wait(), and the barrier of mbench: no        *)
(* tasklet leaves a round before all have entered it, for every number of  *)
(* tasklets and of waits, in whichever order they come to the first one.   *)
(* In the version whose slots start at 1 a tasklet that comes too late is  *)
(* one round behind from then on; in the one of MLP that cannot happen.    *)
(***************************************************************************)
THEOREM BarriersAlwaysHold == MCSpec => []BarriersHold
<1> DEFINE Inv == /\ kernel = "MLP barrier" => Flag!SenseInv
                  /\ kernel = "barrier" => Slots!SenseInv
                  /\ kernel = "mbench" => Mb!EpochInv
<1>1. MCInit => Inv
  BY FlagHolds, SlotsHolds, MbInit DEF MCInit, KernelInit
<1>2. Inv /\ [MCNext]_all => Inv'
  <2> SUFFICES ASSUME Inv, [MCNext]_all PROVE Inv'
    OBVIOUS
  <2>1. CASE kernel' = "MLP barrier"
    <3>1. kernel = "MLP barrier" /\ [Flag!Next]_(Flag!vars)
      BY <2>1 DEF MCNext, all, group, Flag!vars
    <3>2. QED
      BY <2>1, <3>1, FlagHolds
  <2>2. CASE kernel' = "barrier"
    <3>1. kernel = "barrier" /\ [Slots!Next]_(Slots!vars)
      BY <2>2 DEF MCNext, all, group, Slots!vars
    <3>2. QED
      BY <2>2, <3>1, SlotsHolds
  <2>3. CASE kernel' = "mbench"
    <3>1. kernel = "mbench" /\ [Mb!Next]_(Mb!vars)
      BY <2>3 DEF MCNext, all, group, Mb!vars
    <3>2. QED
      BY <2>3, <3>1, MbPreserves
  <2>4. QED
    BY <2>1, <2>2, <2>3
<1>3. Inv => BarriersHold
  BY FlagHolds, SlotsHolds, MbSafe DEF BarriersHold
<1>4. QED
  BY <1>1, <1>2, <1>3, PTL DEF MCSpec

=============================================================================
