--------------------------- MODULE KernelProofs ----------------------------
(***************************************************************************)
(* Theorems about the parallel kernels, as MCKernels composes them, for    *)
(* every value of the constants it declares.  Each section gives the       *)
(* shared variables the names they have in the kernel it is about.         *)
(***************************************************************************)
EXTENDS MCKernels, SenseBarrierProofs, WellFoundedInduction, FiniteSetTheorems, SequenceTheorems, TLAPS

-----------------------------------------------------------------------------
(* Numbers. *)

\* A product of two sizes bounds row * columns + column.
LEMMA Products ==
  ASSUME NEW a \in Nat, NEW b \in Nat, NEW q \in 0 .. a-1, NEW r \in 0 .. b-1
  PROVE  q * b + r \in 0 .. a * b - 1
<1>1. a = q + 1 + (a - q - 1) /\ a - q - 1 \in Nat
  OBVIOUS
<1>2. a * b = q * b + b + (a - q - 1) * b
  BY <1>1
<1>3. (a - q - 1) * b \in Nat /\ q * b \in Nat
  BY <1>1
<1>4. QED
  BY <1>2, <1>3

\* A product grows with its factors.
LEMMA ProductsGrow ==
  ASSUME NEW x \in Nat, NEW y \in Nat, NEW z \in Nat, x <= y
  PROVE  x * z <= y * z /\ x * z \in Nat /\ y * z \in Nat
<1>1. y = x + (y - x) /\ y - x \in Nat
  OBVIOUS
<1>2. y * z = x * z + (y - x) * z
  BY <1>1
<1>3. (y - x) * z \in Nat /\ x * z \in Nat /\ y * z \in Nat
  BY <1>1
<1>4. QED
  BY <1>2, <1>3

\* Quotient and remainder are unique.
LEMMA Division ==
  ASSUME NEW b \in Nat \ {0}, NEW q \in Nat, NEW r \in 0 .. b-1
  PROVE  (q * b + r) \div b = q
<1> DEFINE d == (q * b + r) \div b
<1>1. q * b \in Nat
  OBVIOUS
<1>2. d \in Int /\ d * b <= q * b + r /\ q * b + r < d * b + b
  BY <1>1
<1>3. QED
  BY <1>1, <1>2

\* Induction, over a set in place of a predicate.
LEMMA Least ==
  ASSUME NEW T \in SUBSET Nat, T # {}
  PROVE  \E x \in T : \A y \in T : x <= y
<1>1. PICK x \in T : \A y \in T : ~ (<<y, x>> \in OpToRel(<, Nat))
  BY NatLessThanWellFounded, WFMin
<1>2. \A y \in T : ~ (y < x)
  BY <1>1 DEF OpToRel
<1>3. QED
  BY <1>2

LEMMA Induction ==
  ASSUME NEW T, 0 \in T, \A n \in Nat : n \in T => n + 1 \in T
  PROVE  Nat \subseteq T
<1> SUFFICES ASSUME Nat \ T # {} PROVE FALSE
  OBVIOUS
<1>1. PICK x \in Nat \ T : \A y \in Nat \ T : x <= y
  BY Least
<1>2. x - 1 \in Nat
  BY <1>1
<1>3. QED
  BY <1>1, <1>2

\* A set of integers with an upper bound has a largest element.
LEMMA Largest ==
  ASSUME NEW T \in SUBSET Int, T # {}, NEW b \in Int, \A x \in T : x <= b
  PROVE  \E x \in T : \A y \in T : y <= x
<1> DEFINE U == {n \in Nat : b - n \in T}
<1>1. U \in SUBSET Nat /\ U # {}
  <2>1. PICK x \in T : TRUE
    OBVIOUS
  <2>2. b - x \in U
    BY <2>1
  <2>3. QED
    BY <2>2
<1>2. PICK u \in U : \A v \in U : u <= v
  BY <1>1, Least
<1>3. b - u \in T
  BY <1>2
<1>4. ASSUME NEW y \in T PROVE y <= b - u
  <2>1. b - y \in U /\ y \in Int /\ u \in Nat
    OBVIOUS
  <2>2. u <= b - y
    BY <1>2, <2>1
  <2>3. QED
    BY <2>1, <2>2
<1>5. QED
  BY <1>3, <1>4

LEMMA DivMod ==
  ASSUME NEW a \in Nat, NEW b \in Nat \ {0}
  PROVE  /\ a \div b \in Nat /\ a % b \in 0 .. b - 1
         /\ a = b * (a \div b) + (a % b)
OBVIOUS

LEMMA Multiple ==
  ASSUME NEW n \in Nat, NEW b \in Nat \ {0}
  PROVE  (n * b) % b = 0
<1> DEFINE q == (n * b) \div b
           r == (n * b) % b
<1>1. n * b \in Nat
  OBVIOUS
<1>2. q \in Nat /\ r \in 0 .. b - 1 /\ n * b = b * q + r
  BY <1>1, DivMod
<1> HIDE DEF q, r
<1>3. b * q = q * b /\ (n - q) * b = r
  BY <1>2
<1>4. CASE n - q >= 1
  <2>1. (n - q) * b = b + (n - q - 1) * b /\ (n - q - 1) * b \in Nat
    BY <1>2, <1>4
  <2>2. QED
    BY <1>2, <1>3, <2>1
<1>5. CASE n - q <= -1
  <2>1. (q - n) * b = b + (q - n - 1) * b /\ (q - n - 1) * b \in Nat /\ (n - q) * b = - ((q - n) * b)
    BY <1>2, <1>5
  <2>2. QED
    BY <1>2, <1>3, <2>1
<1>6. CASE n = q
  BY <1>2, <1>3, <1>6
<1>7. QED
  BY <1>2, <1>4, <1>5, <1>6 DEF r

\* Who moves on by b has passed one more of the numbers that are his.
LEMMA Turns ==
  ASSUME NEW b \in Nat \ {0}, NEW x \in Nat
  PROVE  /\ x % b \in 0 .. b - 1 /\ ~ (x < x % b)
         /\ (x + b) % b = x % b
         /\ \A y \in Nat : y % b = x % b => (y < x + b <=> y < x \/ y = x)
<1> DEFINE q == x \div b
           m == x % b
<1>1. q \in Nat /\ m \in 0 .. b - 1 /\ x = b * q + m
  BY DivMod
<1> HIDE DEF q, m
<1>2. b * q \in Nat /\ q * b = b * q
  BY <1>1
<1>3. ~ (x < m)
  BY <1>1, <1>2
<1>4. (x + b) % b = m
  <2> DEFINE z == x + b
  <2>1. z \in Nat
    OBVIOUS
  <2>2. (q + 1) * b + m = z /\ q + 1 \in Nat
    BY <1>1, <1>2
  <2>3. z \div b = q + 1
    <3> HIDE DEF z
    <3>1. QED
      BY <1>1, <2>2, Division
  <2>4. z % b \in 0 .. b - 1 /\ z = b * (z \div b) + (z % b)
    <3> HIDE DEF z
    <3>1. QED
      BY <2>1, DivMod
  <2> DEFINE u == z % b
  <2>5. b * (q + 1) = b * q + b
    BY <1>1
  <2>6. u \in Int /\ z = b * q + b + u
    <3>1. u \in Int /\ z = b * (q + 1) + u
      <4> HIDE DEF z
      <4>1. QED
        BY <2>3, <2>4
    <3> HIDE DEF u, z
    <3>2. QED
      BY <2>5, <3>1
  <2>7. z = b * q + b + m
    BY <1>1, <1>2
  <2> HIDE DEF z, u
  <2>8. u = m
    <3> DEFINE v == b * q
    <3>1. v \in Nat /\ z = v + b + u /\ z = v + b + m
      BY <1>2, <2>6, <2>7
    <3> HIDE DEF v
    <3>2. QED
      BY <1>1, <2>6, <3>1
  <2>9. QED
    BY <2>8 DEF u, z
<1>5. ASSUME NEW y \in Nat, y % b = m
      PROVE  y < x + b <=> y < x \/ y = x
  <2> DEFINE k == y \div b
  <2>1. k \in Nat /\ y = b * k + m
    BY <1>5, DivMod
  <2> HIDE DEF k
  <2>2. b * k \in Nat /\ k * b = b * k
    BY <2>1
  <2>3. CASE k <= q
    <3>1. k * b <= q * b
      BY <1>1, <2>1, <2>3, ProductsGrow
    <3>2. y <= x
      BY <1>1, <1>2, <2>1, <2>2, <3>1
    <3>3. QED
      BY <3>2
  <2>4. CASE q < k
    <3>1. q + 1 <= k /\ q + 1 \in Nat /\ (q + 1) * b = b * q + b
      BY <1>1, <2>1, <2>4
    <3>2. (q + 1) * b <= k * b
      BY <2>1, <3>1, ProductsGrow
    <3> DEFINE v == b * q
               u == b * k
    <3>3. v \in Nat /\ u \in Nat /\ x = v + m /\ y = u + m /\ v + b <= u
      BY <1>1, <1>2, <2>1, <2>2, <3>1, <3>2
    <3> HIDE DEF v, u
    <3>4. y >= x + b
      BY <1>1, <3>3
    <3>5. QED
      BY <3>4
  <2>5. QED
    BY <1>1, <2>1, <2>3, <2>4
<1>6. QED
  BY <1>1, <1>3, <1>4, <1>5 DEF m

\* A sequence grown by its next element.
LEMMA Grown ==
  ASSUME NEW D, NEW n \in Nat, NEW S \in [1 .. n -> D], NEW W \in [1 .. n + 1 -> D],
         \A k \in 1 .. n : S[k] = W[k]
  PROVE  Append(S, W[n + 1]) = W
<1> DEFINE e == W[n + 1]
           V == Append(S, e)
<1>1. S \in Seq(D) /\ Len(S) = n /\ e \in D
  OBVIOUS
<1> HIDE DEF e
<1>2. V \in Seq(D) /\ Len(V) = n + 1 /\ V[n + 1] = e /\ \A k \in 1 .. n : V[k] = S[k]
  BY <1>1, AppendProperties
<1> HIDE DEF V
<1>3. V \in [1 .. n + 1 -> D]
  BY <1>2, LenProperties
<1>4. \A k \in 1 .. n + 1 : V[k] = W[k]
  BY <1>2 DEF e
<1>5. V = W
  BY <1>3, <1>4
<1>6. QED
  BY <1>5 DEF V, e

LEMMA Remainder ==
  ASSUME NEW b \in Nat \ {0}, NEW q \in Nat, NEW r \in 0 .. b-1
  PROVE  (q * b + r) % b = r
<1> DEFINE x == q * b + r
           u == x % b
<1>1. q * b \in Nat /\ x \in Nat
  OBVIOUS
<1>2. x \div b = q
  BY Division
<1>3. u \in 0 .. b - 1 /\ x = b * (x \div b) + u
  <2> HIDE DEF x
  <2>1. QED
    BY <1>1, DivMod
<1>4. x = b * q + u /\ b * q = q * b
  <2>1. b * q = q * b
    OBVIOUS
  <2> HIDE DEF x, u
  <2>2. QED
    BY <1>2, <1>3, <2>1
<1> DEFINE v == q * b
<1>5. x = v + u /\ x = v + r /\ v \in Nat
  BY <1>1, <1>4
<1> HIDE DEF x, u, v
<1>6. u = r
  BY <1>3, <1>5
<1>7. QED
  BY <1>6 DEF u, x

LEMMA NextRemainder ==
  ASSUME NEW b \in Nat \ {0}, NEW x \in Nat
  PROVE  (x + 1) % b = IF (x % b) = b - 1 THEN 0 ELSE (x % b) + 1
<1> DEFINE q == x \div b
           m == x % b
<1>1. q \in Nat /\ m \in 0 .. b - 1 /\ x = b * q + m /\ b * q = q * b /\ q * b \in Nat
  <2>1. q \in Nat /\ m \in 0 .. b - 1 /\ x = b * q + m
    BY DivMod
  <2> HIDE DEF q, m
  <2>2. QED
    BY <2>1
<1> HIDE DEF q, m
<1>2. CASE m = b - 1
  <2>1. x + 1 = (q + 1) * b + 0 /\ q + 1 \in Nat /\ 0 \in 0 .. b - 1
    <3>1. (q + 1) * b = q * b + b
      BY <1>1
    <3>2. QED
      BY <1>1, <1>2, <3>1
  <2>2. (x + 1) % b = 0
    BY <2>1, Remainder
  <2>3. QED
    BY <1>2, <2>2 DEF m
<1>3. CASE m # b - 1
  <2>1. x + 1 = q * b + (m + 1) /\ m + 1 \in 0 .. b - 1
    BY <1>1, <1>3
  <2>2. (x + 1) % b = m + 1
    BY <1>1, <2>1, Remainder
  <2>3. QED
    BY <1>3, <2>2 DEF m
<1>4. QED
  BY <1>2, <1>3

at == m1
USE DEF at

-----------------------------------------------------------------------------
(* TRNS: the expression of TRNS/main.c is the transposition, and the       *)
(* tasklets move every tile to its place.                                  *)

curr == m2
tile == m3
next == m4
data == m5
backup == m6
A == m7
done == m8
USE DEF curr, tile, next, data, backup, A, done

Tiles == Trns!Tiles
TileMax == Trns!TileMax
NextInCycle(x) == Trns!NextInCycle(x)
USE DEF Tiles, TileMax, NextInCycle

(***************************************************************************)
(* The element in row q and column r goes to row r and column q: what the  *)
(* index expressions at TRNS/main.c:85 and :148 compute.                   *)
(***************************************************************************)
THEOREM StepTransposes ==
  ASSUME NEW rows \in Nat \ {0}, NEW columns \in Nat \ {0},
         NEW q \in 0 .. rows-1, NEW r \in 0 .. columns-1
  PROVE  Trns!Step(rows, columns, q * columns + r) = r * rows + q
<1>1. (q * columns + r) \div columns = q
  BY Division
<1>2. (q * columns + r) * rows = q * columns * rows + r * rows
  OBVIOUS
<1>3. (rows * columns - 1) * q = q * columns * rows - q
  OBVIOUS
<1>4. Trns!Step(rows, columns, q * columns + r) =
        (q * columns + r) * rows - (rows * columns - 1) * q
  BY <1>1 DEF Trns!Step
<1>5. q * columns * rows \in Int /\ r * rows \in Int /\ q \in Int
  OBVIOUS
<1>6. QED
  BY <1>2, <1>3, <1>4, <1>5

\* Every element is in a row and a column.
LEMMA RowAndColumn ==
  ASSUME NEW rows \in Nat \ {0}, NEW columns \in Nat \ {0}, NEW x \in 0 .. rows * columns - 1
  PROVE  \E q \in 0 .. rows-1, r \in 0 .. columns-1 : x = q * columns + r
<1> DEFINE q == x \div columns
           r == x % columns
<1>1. x \in Nat /\ rows * columns \in Nat
  OBVIOUS
<1>2. q \in Nat /\ r \in 0 .. columns-1 /\ x = q * columns + r
  BY <1>1
<1>3. q * columns < rows * columns
  BY <1>1, <1>2
<1>4. q < rows
  <2> SUFFICES ASSUME rows <= q PROVE FALSE
    BY <1>2
  <2>1. q = rows + (q - rows) /\ q - rows \in Nat
    BY <1>2
  <2>2. q * columns = rows * columns + (q - rows) * columns
    BY <2>1
  <2>3. (q - rows) * columns \in Nat
    BY <2>1
  <2>4. QED
    BY <1>1, <1>3, <2>2, <2>3
<1>5. q \in 0 .. rows-1 /\ r \in 0 .. columns-1 /\ x = q * columns + r
  BY <1>2, <1>4
<1> HIDE DEF q, r
<1>6. QED
  BY <1>5

\* The step is a permutation of the tiles that leaves the last one alone.
LEMMA TrnsStepFacts ==
  ASSUME Trns!Sized
  PROVE  /\ TrnsM * TrnsN \in Nat \ {0} /\ TileMax \in Tiles /\ Tiles \subseteq Nat
         /\ \A x \in Tiles : NextInCycle(x) \in Tiles
         /\ \A y \in Tiles : \E x \in Tiles : NextInCycle(x) = y
         /\ \A x, y \in Tiles : NextInCycle(x) = NextInCycle(y) => x = y
         /\ NextInCycle(TileMax) = TileMax
<1>0. TrnsM \in Nat \ {0} /\ TrnsN \in Nat \ {0}
  BY DEF Trns!Sized
<1> USE <1>0
<1>1. TrnsM * TrnsN \in Nat \ {0} /\ TileMax \in Tiles /\ Tiles \subseteq Nat /\ TrnsM * TrnsN = TrnsN * TrnsM
  BY DEF Trns!TileMax, Trns!Tiles
<1>2. ASSUME NEW x \in Tiles
      PROVE  \E q \in 0 .. TrnsM-1, r \in 0 .. TrnsN-1 : x = q * TrnsN + r /\ NextInCycle(x) = r * TrnsM + q
  <2>1. PICK q \in 0 .. TrnsM-1, r \in 0 .. TrnsN-1 : x = q * TrnsN + r
    BY <1>2, RowAndColumn DEF Trns!Tiles
  <2>2. NextInCycle(x) = r * TrnsM + q
    BY <2>1, StepTransposes DEF Trns!NextInCycle
  <2>3. QED
    BY <2>1, <2>2
<1>3. \A x \in Tiles : NextInCycle(x) \in Tiles
  <2> TAKE x \in Tiles
  <2>1. PICK q \in 0 .. TrnsM-1, r \in 0 .. TrnsN-1 : NextInCycle(x) = r * TrnsM + q
    BY <1>2
  <2>2. r * TrnsM + q \in 0 .. TrnsN * TrnsM - 1
    BY Products
  <2>3. QED
    BY <1>1, <2>1, <2>2 DEF Trns!Tiles
<1>4. \A y \in Tiles : \E x \in Tiles : NextInCycle(x) = y
  <2> TAKE y \in Tiles
  <2>0. y \in 0 .. TrnsN * TrnsM - 1
    BY <1>1 DEF Trns!Tiles
  <2>1. PICK r \in 0 .. TrnsN-1, q \in 0 .. TrnsM-1 : y = r * TrnsM + q
    BY <2>0, RowAndColumn
  <2>2. q * TrnsN + r \in Tiles
    BY Products DEF Trns!Tiles
  <2>3. NextInCycle(q * TrnsN + r) = r * TrnsM + q
    BY StepTransposes DEF Trns!NextInCycle
  <2>4. QED
    BY <2>1, <2>2, <2>3
<1>5. \A x, y \in Tiles : NextInCycle(x) = NextInCycle(y) => x = y
  <2> SUFFICES ASSUME NEW x \in Tiles, NEW y \in Tiles, NextInCycle(x) = NextInCycle(y)
               PROVE  x = y
    OBVIOUS
  <2>1. PICK q \in 0 .. TrnsM-1, r \in 0 .. TrnsN-1 : x = q * TrnsN + r /\ NextInCycle(x) = r * TrnsM + q
    BY <1>2
  <2>2. PICK p \in 0 .. TrnsM-1, s \in 0 .. TrnsN-1 : y = p * TrnsN + s /\ NextInCycle(y) = s * TrnsM + p
    BY <1>2
  <2>3. r * TrnsM + q = s * TrnsM + p
    BY <2>1, <2>2
  <2>4. (r * TrnsM + q) \div TrnsM = r /\ (s * TrnsM + p) \div TrnsM = s
    BY Division
  <2>5. r = s
    BY <2>3, <2>4
  <2>6. r * TrnsM \in Int
    OBVIOUS
  <2>7. q = p
    BY <2>3, <2>5, <2>6
  <2>8. QED
    BY <2>1, <2>2, <2>5, <2>7
<1>6. NextInCycle(TileMax) = TileMax
  <2>1. (TrnsM-1) * TrnsN + (TrnsN-1) = TrnsM * TrnsN - 1 /\ (TrnsN-1) * TrnsM + (TrnsM-1) = TrnsM * TrnsN - 1
    OBVIOUS
  <2>2. TrnsM-1 \in 0 .. TrnsM-1 /\ TrnsN-1 \in 0 .. TrnsN-1
    OBVIOUS
  <2>3. NextInCycle((TrnsM-1) * TrnsN + (TrnsN-1)) = (TrnsN-1) * TrnsM + (TrnsM-1)
    BY <2>2, StepTransposes DEF Trns!NextInCycle
  <2>4. QED
    BY <2>1, <2>3 DEF Trns!TileMax
<1>7. QED
  BY <1>1, <1>3, <1>4, <1>5, <1>6

-----------------------------------------------------------------------------
LEMMA TrnsInit ==
  ASSUME Trns!Sized, Trns!Init
  PROVE  Trns!MoveInv
<1>1. Trns!TypeOK
  BY TrnsStepFacts DEF Trns!Init, Trns!TypeOK, Trns!Locations, Trns!Tiles, Trns!TileMax
<1>2. Trns!ContentOK /\ Trns!CarryOK /\ Trns!OneWriter /\ Trns!AllHandedOut
  BY DEF Trns!Init, Trns!ContentOK, Trns!Pending, Trns!CarryOK, Trns!OneWriter, Trns!AllHandedOut
<1>3. Trns!CycleOK
  BY TrnsStepFacts DEF Trns!Init, Trns!CycleOK
<1>4. QED
  BY <1>1, <1>2, <1>3 DEF Trns!MoveInv

LEMMA GetTilePreserves ==
  ASSUME Trns!Sized, Trns!MoveInv, NEW t \in TrnsTasklets, Trns!GetTile(t)
  PROVE  Trns!MoveInv'
<1> USE DEF Trns!MoveInv
<1>1. /\ UNCHANGED <<data, backup, A, done>> /\ at[t] = "get"
      /\ tile'[t] = curr /\ curr' = curr + 1 /\ curr \in Nat
      /\ \A s \in TrnsTasklets \ {t} : at'[s] = at[s] /\ tile'[s] = tile[s] /\ next'[s] = next[s]
  BY DEF Trns!GetTile, Trns!Goto, Trns!TypeOK
<1>2. curr < TileMax => curr \in Tiles /\ NextInCycle(curr) \in Tiles
  BY <1>1, TrnsStepFacts DEF Trns!TileMax, Trns!Tiles
<1>3. \/ /\ curr < TileMax /\ next'[t] = NextInCycle(curr)
         /\ at'[t] = IF NextInCycle(curr) = curr THEN "get" ELSE "first"
      \/ ~ (curr < TileMax) /\ next' = next /\ at'[t] = "end"
  BY DEF Trns!GetTile, Trns!Goto, Trns!TypeOK
<1>4. Trns!TypeOK'
  <2>1. tile' \in [TrnsTasklets -> Nat] /\ curr' \in Nat
    BY <1>1 DEF Trns!GetTile, Trns!TypeOK
  <2>2. at' \in [TrnsTasklets -> Trns!Locations]
    BY DEF Trns!GetTile, Trns!Goto, Trns!TypeOK, Trns!Locations
  <2>3. next' \in [TrnsTasklets -> Tiles]
    BY <1>2 DEF Trns!GetTile, Trns!TypeOK
  <2>4. QED
    BY <1>1, <2>1, <2>2, <2>3 DEF Trns!TypeOK
<1>5. \A x \in Tiles : (Trns!Pending(x)' <=> Trns!Pending(x)) /\ (Trns!Followed(x)' <=> Trns!Followed(x))
  BY <1>1, <1>3 DEF Trns!Pending, Trns!Followed
<1>6. Trns!ContentOK' /\ Trns!OneWriter'
  BY <1>1, <1>3, <1>5 DEF Trns!ContentOK, Trns!OneWriter
<1>7. Trns!CarryOK'
  BY <1>1, <1>2, <1>3 DEF Trns!CarryOK
<1>8. Trns!CycleOK'
  <2> SUFFICES ASSUME NEW x \in Tiles, x < curr + 1, x < TileMax, NextInCycle(x) # x
               PROVE  NextInCycle(x) \in done \/ Trns!Followed(x) \/ Trns!Started(x)'
    BY <1>1, <1>5 DEF Trns!CycleOK
  <2>1. CASE x = curr
    BY <1>1, <1>3, <2>1 DEF Trns!Started
  <2>2. CASE x < curr
    <3>1. Trns!Started(x) => Trns!Started(x)'
      BY <1>1 DEF Trns!Started
    <3>2. QED
      BY <2>2, <3>1 DEF Trns!CycleOK
  <2>3. QED
    BY <1>1, <2>1, <2>2, TrnsStepFacts
<1>9. Trns!AllHandedOut'
  <2>1. TileMax \in Nat
    BY TrnsStepFacts
  <2>2. QED
    BY <1>1, <1>3, <2>1 DEF Trns!AllHandedOut
<1>10. QED
  BY <1>4, <1>6, <1>7, <1>8, <1>9

(***************************************************************************)
(* ReadFirst and ReadNext keep a tasklet's part in the argument: it goes   *)
(* on holding a tile it was handed, or following a cycle.                  *)
(***************************************************************************)
SamePart(p, q) ==
  /\ p = "write" <=> q = "write"
  /\ p = "end" <=> q = "end"
  /\ p \in {"read", "claim"} <=> q \in {"read", "claim"}
  /\ p \in {"first", "probe"} <=> q \in {"first", "probe"}

LEMMA PartIsKept ==
  /\ SamePart("probe", "first")
  /\ SamePart("claim", "read")
  /\ \A l : SamePart(l, l)
BY DEF SamePart

LEMMA ReadFirstPreserves ==
  ASSUME Trns!MoveInv, NEW t \in TrnsTasklets, Trns!ReadFirst(t)
  PROVE  Trns!MoveInv'
<1> USE DEF Trns!MoveInv
<1>1. /\ UNCHANGED <<curr, tile, next, backup, A, done>> /\ at[t] = "first" /\ at'[t] = "probe"
      /\ data'[t] = A[tile[t]]
      /\ \A s \in TrnsTasklets \ {t} : at'[s] = at[s] /\ data'[s] = data[s]
  BY DEF Trns!ReadFirst, Trns!Goto, Trns!TypeOK
<1>2. tile[t] \in Tiles
  BY <1>1 DEF Trns!CarryOK
<1>3. Trns!TypeOK'
  BY <1>2 DEF Trns!TypeOK, Trns!ReadFirst, Trns!Goto, Trns!Locations
<1>4. \A s \in TrnsTasklets : SamePart(at'[s], at[s])
  BY <1>1, PartIsKept
<1>5. Trns!ContentOK' /\ Trns!OneWriter' /\ Trns!CycleOK' /\ Trns!AllHandedOut'
  <2>1. \A x \in Tiles : Trns!Pending(x)' <=> Trns!Pending(x)
    BY <1>1, <1>4 DEF Trns!Pending, SamePart
  <2>2. \A x \in Tiles : Trns!Followed(x)' <=> Trns!Followed(x)
    BY <1>1, <1>4 DEF Trns!Followed, SamePart
  <2>3. \A x \in Tiles : Trns!Started(x)' <=> Trns!Started(x)
    BY <1>1, <1>4 DEF Trns!Started, SamePart
  <2>4. Trns!ContentOK'
    BY <1>1, <2>1 DEF Trns!ContentOK
  <2>5. Trns!OneWriter'
    BY <1>1, <1>4 DEF Trns!OneWriter, SamePart
  <2>6. Trns!CycleOK'
    BY <1>1, <2>2, <2>3 DEF Trns!CycleOK
  <2>7. Trns!AllHandedOut'
    BY <1>1, <1>4 DEF Trns!AllHandedOut, SamePart
  <2>8. QED
    BY <2>4, <2>5, <2>6, <2>7
<1>6. Trns!CarryOK'
  BY <1>1, <1>2 DEF Trns!CarryOK, Trns!ContentOK
<1>7. QED
  BY <1>3, <1>5, <1>6

LEMMA ProbePreserves ==
  ASSUME Trns!MoveInv, NEW t \in TrnsTasklets, Trns!Probe(t)
  PROVE  Trns!MoveInv'
<1> USE DEF Trns!MoveInv
<1>1. /\ UNCHANGED <<curr, tile, next, data, backup, A, done>> /\ at[t] = "probe"
      /\ at'[t] = IF tile[t] \in done THEN "get" ELSE "read"
      /\ \A s \in TrnsTasklets \ {t} : at'[s] = at[s]
  BY DEF Trns!Probe, Trns!Goto, Trns!TypeOK
<1>2. tile[t] \in Tiles /\ next[t] = NextInCycle(tile[t])
  BY <1>1 DEF Trns!CarryOK
<1>3. Trns!TypeOK'
  BY DEF Trns!TypeOK, Trns!Probe, Trns!Goto, Trns!Locations
<1>4. \A x \in Tiles : Trns!Pending(x)' <=> Trns!Pending(x)
  BY <1>1 DEF Trns!Pending
<1>5. Trns!ContentOK' /\ Trns!OneWriter' /\ Trns!AllHandedOut'
  BY <1>1, <1>4 DEF Trns!ContentOK, Trns!OneWriter, Trns!AllHandedOut
<1>6. Trns!CarryOK'
  BY <1>1, <1>2 DEF Trns!CarryOK
<1>7. Trns!CycleOK'
  <2>1. \A x \in Tiles : Trns!Followed(x) => Trns!Followed(x)'
    BY <1>1 DEF Trns!Followed
  <2>2. \A x \in Tiles : Trns!Started(x) => x \in done \/ Trns!Followed(x)' \/ Trns!Started(x)'
    BY <1>1, <1>2 DEF Trns!Followed, Trns!Started
  <2>3. QED
    BY <1>1, <2>1, <2>2 DEF Trns!CycleOK
<1>8. QED
  BY <1>3, <1>5, <1>6, <1>7

LEMMA ReadNextPreserves ==
  ASSUME Trns!MoveInv, NEW t \in TrnsTasklets, Trns!ReadNext(t)
  PROVE  Trns!MoveInv'
<1> USE DEF Trns!MoveInv
<1>1. /\ UNCHANGED <<curr, tile, next, data, A, done>> /\ at[t] = "read" /\ at'[t] = "claim"
      /\ backup'[t] = A[next[t]] /\ next[t] \in Tiles
      /\ \A s \in TrnsTasklets \ {t} : at'[s] = at[s] /\ backup'[s] = backup[s]
  BY DEF Trns!ReadNext, Trns!Goto, Trns!TypeOK
<1>2. Trns!TypeOK'
  BY DEF Trns!TypeOK, Trns!ReadNext, Trns!Goto, Trns!Locations
<1>3. \A s \in TrnsTasklets : SamePart(at'[s], at[s])
  BY <1>1, PartIsKept
<1>4. Trns!ContentOK' /\ Trns!OneWriter' /\ Trns!CycleOK' /\ Trns!AllHandedOut'
  <2>1. \A x \in Tiles : Trns!Pending(x)' <=> Trns!Pending(x)
    BY <1>1, <1>3 DEF Trns!Pending, SamePart
  <2>2. \A x \in Tiles : Trns!Followed(x)' <=> Trns!Followed(x)
    BY <1>1, <1>3 DEF Trns!Followed, SamePart
  <2>3. \A x \in Tiles : Trns!Started(x)' <=> Trns!Started(x)
    BY <1>1, <1>3 DEF Trns!Started, SamePart
  <2>4. Trns!ContentOK'
    BY <1>1, <2>1 DEF Trns!ContentOK
  <2>5. Trns!OneWriter'
    BY <1>1, <1>3 DEF Trns!OneWriter, SamePart
  <2>6. Trns!CycleOK'
    BY <1>1, <2>2, <2>3 DEF Trns!CycleOK
  <2>7. Trns!AllHandedOut'
    BY <1>1, <1>3 DEF Trns!AllHandedOut, SamePart
  <2>8. QED
    BY <2>4, <2>5, <2>6, <2>7
<1>5. Trns!CarryOK'
  BY <1>1 DEF Trns!CarryOK, Trns!ContentOK
<1>6. QED
  BY <1>2, <1>4, <1>5

LEMMA ClaimPreserves ==
  ASSUME Trns!MoveInv, NEW t \in TrnsTasklets, Trns!Claim(t)
  PROVE  Trns!MoveInv'
<1> USE DEF Trns!MoveInv
<1> DEFINE y == next[t]
<1>1. /\ UNCHANGED <<curr, tile, next, data, backup, A>> /\ at[t] = "claim"
      /\ done' = done \cup {y} /\ y \in Tiles
      /\ at'[t] = IF y \in done THEN "get" ELSE "write"
      /\ \A s \in TrnsTasklets \ {t} : at'[s] = at[s]
  BY DEF Trns!Claim, Trns!Goto, Trns!TypeOK
<1>2. Trns!TypeOK'
  BY <1>1 DEF Trns!TypeOK, Trns!Claim, Trns!Goto, Trns!Locations
<1>3. \A s \in TrnsTasklets : at[s] = "write" => next[s] \in done
  BY DEF Trns!CarryOK
<1>4. Trns!ContentOK'
  <2> SUFFICES ASSUME NEW x \in Tiles
               PROVE  IF x \notin done' \/ Trns!Pending(x)' THEN A[x] = x ELSE NextInCycle(A[x]) = x
    BY <1>1 DEF Trns!ContentOK
  <2>1. CASE x = y /\ y \notin done
    BY <1>1, <2>1 DEF Trns!ContentOK, Trns!Pending
  <2>2. CASE ~ (x = y /\ y \notin done)
    <3>1. (Trns!Pending(x)' <=> Trns!Pending(x)) /\ (x \in done' <=> x \in done)
      BY <1>1, <2>2 DEF Trns!Pending
    <3>2. QED
      BY <3>1 DEF Trns!ContentOK
  <2>3. QED
    BY <2>1, <2>2
<1>5. Trns!OneWriter'
  BY <1>1, <1>3 DEF Trns!OneWriter
<1>6. Trns!CarryOK'
  BY <1>1 DEF Trns!CarryOK
<1>7. Trns!CycleOK'
  <2>1. \A x \in Tiles : Trns!Followed(x) => NextInCycle(x) \in done' \/ Trns!Followed(x)'
    BY <1>1 DEF Trns!Followed
  <2>2. \A x \in Tiles : Trns!Started(x) <=> Trns!Started(x)'
    BY <1>1 DEF Trns!Started
  <2>3. y \notin done => Trns!Followed(y)'
    BY <1>1 DEF Trns!Followed
  <2>4. QED
    BY <1>1, <2>1, <2>2, <2>3 DEF Trns!CycleOK
<1>8. Trns!AllHandedOut'
  BY <1>1 DEF Trns!AllHandedOut
<1>9. QED
  BY <1>2, <1>4, <1>5, <1>6, <1>7, <1>8

LEMMA WritePreserves ==
  ASSUME Trns!Sized, Trns!MoveInv, NEW t \in TrnsTasklets, Trns!Write(t)
  PROVE  Trns!MoveInv'
<1> USE DEF Trns!MoveInv
<1> DEFINE y == next[t]
<1>1. /\ UNCHANGED <<curr, tile, backup, done>> /\ at[t] = "write" /\ at'[t] = "read"
      /\ y \in Tiles /\ A'[y] = data[t] /\ (\A x \in Tiles \ {y} : A'[x] = A[x])
      /\ data'[t] = backup[t] /\ next'[t] = NextInCycle(y)
      /\ \A s \in TrnsTasklets \ {t} : at'[s] = at[s] /\ data'[s] = data[s] /\ next'[s] = next[s]
  BY DEF Trns!Write, Trns!Goto, Trns!TypeOK
<1>2. NextInCycle(data[t]) = y /\ backup[t] = y /\ y \in done
  BY <1>1 DEF Trns!CarryOK
<1>3. Trns!TypeOK'
  <2>1. next' \in [TrnsTasklets -> Tiles]
    BY <1>1, TrnsStepFacts DEF Trns!TypeOK, Trns!Write
  <2>2. QED
    BY <2>1 DEF Trns!TypeOK, Trns!Write, Trns!Goto, Trns!Locations
<1>4. Trns!ContentOK'
  <2> SUFFICES ASSUME NEW x \in Tiles
               PROVE  IF x \notin done \/ Trns!Pending(x)' THEN A'[x] = x ELSE NextInCycle(A'[x]) = x
    BY <1>1 DEF Trns!ContentOK
  <2>1. CASE x = y
    <3>1. ~ Trns!Pending(x)'
      BY <1>1, <2>1 DEF Trns!Pending, Trns!OneWriter
    <3>2. QED
      BY <1>1, <1>2, <2>1, <3>1
  <2>2. CASE x # y
    <3>1. Trns!Pending(x)' <=> Trns!Pending(x)
      BY <1>1, <2>2 DEF Trns!Pending
    <3>2. QED
      BY <1>1, <2>2, <3>1 DEF Trns!ContentOK
  <2>3. QED
    BY <2>1, <2>2
<1>5. Trns!OneWriter'
  BY <1>1 DEF Trns!OneWriter
<1>6. Trns!CarryOK'
  BY <1>1, <1>2 DEF Trns!CarryOK
<1>7. Trns!CycleOK'
  <2>1. \A x \in Tiles : Trns!Followed(x) => Trns!Followed(x)'
    BY <1>1 DEF Trns!Followed
  <2>2. \A x \in Tiles : Trns!Started(x) <=> Trns!Started(x)'
    BY <1>1 DEF Trns!Started
  <2>3. QED
    BY <1>1, <2>1, <2>2 DEF Trns!CycleOK
<1>8. Trns!AllHandedOut'
  BY <1>1 DEF Trns!AllHandedOut
<1>9. QED
  BY <1>3, <1>4, <1>5, <1>6, <1>7, <1>8

LEMMA TrnsPreserves ==
  ASSUME Trns!Sized, Trns!MoveInv, [Trns!Next]_(Trns!vars)
  PROVE  Trns!MoveInv'
<1>1. ASSUME NEW t \in TrnsTasklets, Trns!Tasklet(t) PROVE Trns!MoveInv'
  BY <1>1, GetTilePreserves, ReadFirstPreserves, ProbePreserves, ReadNextPreserves,
     ClaimPreserves, WritePreserves DEF Trns!Tasklet
<1>2. CASE UNCHANGED Trns!vars
  BY <1>2 DEF Trns!vars, Trns!MoveInv, Trns!TypeOK, Trns!ContentOK, Trns!Pending,
              Trns!CarryOK, Trns!OneWriter, Trns!CycleOK, Trns!Followed, Trns!Started,
              Trns!AllHandedOut
<1>3. QED
  BY <1>1, <1>2 DEF Trns!Next, Trns!Finished

(***************************************************************************)
(* The argument behind it: a tile not claimed is as it was, a claimed one  *)
(* has its new content or exactly one tasklet on the way with it, and no   *)
(* cycle is abandoned between get_done() and get_and_set_done().           *)
(***************************************************************************)
THEOREM MoveInvariant == Trns!Spec => []Trns!MoveInv
<1>1. Trns!Init => Trns!MoveInv
  BY TrnsInit, TrnsAssumption
<1>2. Trns!MoveInv /\ [Trns!Next]_(Trns!vars) => Trns!MoveInv'
  BY TrnsPreserves, TrnsAssumption
<1>3. QED
  BY <1>1, <1>2, PTL DEF Trns!Spec

\* When all have ended, no tile is waited for: each is where it belongs.
LEMMA TrnsSafe ==
  ASSUME Trns!Sized, Trns!MoveInv
  PROVE  Trns!Transposed
<1> SUFFICES ASSUME \A t \in TrnsTasklets : at[t] = "end", NEW y \in Tiles
             PROVE  NextInCycle(A[y]) = y
  BY DEF Trns!Transposed
<1> USE DEF Trns!MoveInv
<1>1. \A x \in Tiles : ~ Trns!Pending(x) /\ ~ Trns!Followed(x) /\ ~ Trns!Started(x)
  BY DEF Trns!Pending, Trns!Followed, Trns!Started
<1>2. curr >= TileMax /\ curr \in Nat /\ TileMax \in Nat
  BY TrnsStepFacts DEF Trns!Sized, Trns!AllHandedOut, Trns!TypeOK
<1>3. PICK x \in Tiles : NextInCycle(x) = y
  BY TrnsStepFacts
<1>4. CASE x = y
  BY <1>1, <1>3, <1>4 DEF Trns!ContentOK
<1>5. CASE x # y
  <2>1. x # TileMax
    BY <1>3, <1>5, TrnsStepFacts
  <2>2. x < TileMax
    BY <2>1, TrnsStepFacts DEF Trns!Tiles, Trns!TileMax
  <2>3. y \in done
    BY <1>1, <1>2, <1>3, <1>5, <2>2, TrnsStepFacts DEF Trns!CycleOK
  <2>4. QED
    BY <1>1, <2>3 DEF Trns!ContentOK
<1>6. QED
  BY <1>4, <1>5

(***************************************************************************)
(* When the tasklets are through, every tile is in its place: whatever the *)
(* sizes, the number of tasklets and the order of their steps.             *)
(***************************************************************************)
THEOREM EveryTileArrives == MCSpec => []TilesArrive
<1> DEFINE Inv == kernel = "TRNS" => Trns!MoveInv
<1>1. MCInit => Inv
  BY TrnsInit, TrnsAssumption DEF MCInit, KernelInit
<1>2. Inv /\ [MCNext]_all => Inv'
  <2> SUFFICES ASSUME Inv, [MCNext]_all, kernel' = "TRNS" PROVE Trns!MoveInv'
    OBVIOUS
  <2>1. kernel = "TRNS" /\ [Trns!Next]_(Trns!vars)
    BY DEF MCNext, all, group, Trns!vars
  <2>2. QED
    BY <2>1, TrnsPreserves, TrnsAssumption
<1>3. Inv => TilesArrive
  BY TrnsSafe, TrnsAssumption DEF TilesArrive
<1>4. QED
  BY <1>1, <1>2, <1>3, PTL DEF MCSpec

-----------------------------------------------------------------------------
(* BS. *)

items == m1
array == m2
query == m3
where == m4
count == m5
lo == m6
hi == m7
found == m8
maxf == m9
USE DEF items, array, query, where, count, lo, hi, found, maxf

LEMMA BsInit ==
  ASSUME Bs!Init
  PROVE  Bs!SearchInv
<1>1. items \in BsSizes /\ DOMAIN array = 0 .. items - 1 /\ array \in BsArrays
  BY DEF Bs!Init
<1>2. /\ array \in [0 .. items - 1 -> Int] /\ items \in Nat
      /\ \A x, y \in 0 .. items - 1 : x <= y => array[x] <= array[y]
      /\ BsQ \in Nat
  BY <1>1, BsAssumption DEF Bs!Sized
<1>3. /\ query \in [Bs!Tasklets -> [1 .. BsQ -> BsValues]]
      /\ where = [t \in Bs!Tasklets |-> "next"] /\ count = [t \in Bs!Tasklets |-> 0]
      /\ lo = [t \in Bs!Tasklets |-> 0] /\ hi = [t \in Bs!Tasklets |-> items]
      /\ found = [t \in Bs!Tasklets |-> -1] /\ maxf = -1
  BY DEF Bs!Init
<1>4. Bs!TypeOK
  BY <1>1, <1>2, <1>3 DEF Bs!TypeOK
<1>5. Bs!Bracket
  BY <1>3 DEF Bs!Bracket
<1>6. Bs!QueriesOK
  <2>1. \A t \in Bs!Tasklets : Bs!ResultOK(t)
    BY <1>3 DEF Bs!ResultOK, Bs!QueriesDone
  <2>2. QED
    BY <1>3, <2>1 DEF Bs!QueriesOK
<1>7. QED
  BY <1>4, <1>5, <1>6 DEF Bs!SearchInv

\* search() gives an index at which the value is.
LEMMA FirstHitIsOne ==
  ASSUME Bs!TypeOK, NEW t \in Bs!Tasklets, NEW from \in Nat, NEW l \in Int,
         from + l <= items, Bs!Hit(t, from, l)
  PROVE  Bs!FirstHit(t, from) \in 0 .. items - 1 /\ array[Bs!FirstHit(t, from)] = Bs!X(t)
<1> DEFINE T == {j \in Nat : from <= j /\ j < items /\ array[j] = Bs!X(t)}
           Hits(j) == j >= from /\ array[j] = Bs!X(t) /\ \A h \in from .. j - 1 : array[h] # Bs!X(t)
<1>1. items \in Nat /\ DOMAIN array = 0 .. items - 1
  BY BsAssumption DEF Bs!TypeOK, Bs!Sized
<1>2. T # {}
  <2>1. PICK j \in from .. from + l - 1 : array[j] = Bs!X(t)
    BY DEF Bs!Hit
  <2>2. j \in T
    BY <1>1, <2>1
  <2>3. QED
    BY <2>2
<1>3. PICK j \in T : \A h \in T : j <= h
  BY <1>2, Least
<1>4. j \in DOMAIN array /\ Hits(j)
  BY <1>1, <1>3
<1>5. Bs!FirstHit(t, from) = CHOOSE h \in DOMAIN array : Hits(h)
  BY DEF Bs!FirstHit
<1>6. QED
  BY <1>1, <1>4, <1>5

\* A step of t leaves the results of the others.
LEMMA BsOthers ==
  ASSUME NEW u, Bs!ResultOK(u), UNCHANGED <<array, query>>,
         where'[u] = where[u], count'[u] = count[u], found'[u] = found[u]
  PROVE  Bs!ResultOK(u)'
BY DEF Bs!ResultOK, Bs!QueriesDone, Bs!InArray

LEMMA BsQueries ==
  ASSUME Bs!SearchInv, NEW t \in Bs!Tasklets, Bs!Query(t)
  PROVE  Bs!SearchInv'
<1> USE DEF Bs!SearchInv
<1>1. /\ where[t] = "next" /\ UNCHANGED <<items, array, query, found, maxf>>
      /\ \/ /\ count[t] < BsQ /\ count' = [count EXCEPT ![t] = @ + 1]
            /\ lo' = [lo EXCEPT ![t] = 0] /\ hi' = [hi EXCEPT ![t] = items]
            /\ where' = [where EXCEPT ![t] = "probe"]
         \/ /\ ~ (count[t] < BsQ) /\ UNCHANGED <<count, lo, hi>>
            /\ where' = [where EXCEPT ![t] = "barrier"]
  BY DEF Bs!Query, Bs!Goto
<1>2. /\ items \in Nat /\ BsB \in Nat /\ BsB <= items /\ BsQ \in Nat
      /\ \A u \in Bs!Tasklets : count[u] \in 0 .. BsQ
      /\ DOMAIN array = 0 .. items - 1
  BY BsAssumption DEF Bs!TypeOK, Bs!Sized
<1>3. Bs!TypeOK'
  <2>1. /\ count' \in [Bs!Tasklets -> 0 .. BsQ] /\ lo' \in [Bs!Tasklets -> Nat]
        /\ hi' \in [Bs!Tasklets -> Nat]
        /\ where' \in [Bs!Tasklets -> {"next", "probe", "barrier", "end"}]
    <3>1. CASE /\ count[t] < BsQ /\ count' = [count EXCEPT ![t] = count[t] + 1]
               /\ lo' = [lo EXCEPT ![t] = 0] /\ hi' = [hi EXCEPT ![t] = items]
               /\ where' = [where EXCEPT ![t] = "probe"]
      <4>1. count[t] + 1 \in 0 .. BsQ
        BY <1>2, <3>1
      <4>2. QED
        BY <1>2, <3>1, <4>1 DEF Bs!TypeOK
    <3>2. CASE UNCHANGED <<count, lo, hi>> /\ where' = [where EXCEPT ![t] = "barrier"]
      BY <3>2 DEF Bs!TypeOK
    <3>3. QED
      BY <1>1, <3>1, <3>2
  <2>2. QED
    BY <1>1, <2>1 DEF Bs!TypeOK
<1>4. Bs!Bracket'
  <2> SUFFICES ASSUME NEW u \in Bs!Tasklets, where'[u] = "probe"
               PROVE  /\ 0 <= lo'[u] /\ lo'[u] + BsB <= hi'[u] /\ hi'[u] <= items
                      /\ \A x \in DOMAIN array : array[x] = Bs!X(u)' =>
                           \E j \in lo'[u] .. hi'[u] - 1 : array[j] = Bs!X(u)'
    BY <1>1 DEF Bs!Bracket
  <2>1. CASE u = t
    <3>1. lo'[t] = 0 /\ hi'[t] = items
      BY <1>1, <2>1 DEF Bs!TypeOK
    <3>2. QED
      BY <1>2, <2>1, <3>1
  <2>2. CASE u # t
    <3>1. where[u] = "probe" /\ lo'[u] = lo[u] /\ hi'[u] = hi[u] /\ Bs!X(u)' = Bs!X(u)
      BY <1>1, <2>2 DEF Bs!TypeOK, Bs!X
    <3>2. QED
      BY <3>1 DEF Bs!Bracket
  <2>3. QED
    BY <2>1, <2>2
<1>5. Bs!QueriesOK'
  <2>1. \A u \in Bs!Tasklets : Bs!ResultOK(u)'
    <3> TAKE u \in Bs!Tasklets
    <3>0. Bs!ResultOK(u)
      BY DEF Bs!QueriesOK
    <3>1. CASE u = t
      <4>1. Bs!QueriesDone(t)' = Bs!QueriesDone(t)
        BY <1>1, <1>2 DEF Bs!QueriesDone, Bs!TypeOK
      <4>2. QED
        BY <1>1, <3>0, <3>1, <4>1 DEF Bs!ResultOK, Bs!InArray
    <3>2. CASE u # t
      BY <1>1, <3>0, <3>2, BsOthers DEF Bs!TypeOK
    <3>3. QED
      BY <3>1, <3>2
  <2>2. \A u \in Bs!Tasklets : /\ where'[u] = "probe" => count'[u] > 0
                               /\ where'[u] \in {"barrier", "end"} => count'[u] = BsQ
    BY <1>1, <1>2 DEF Bs!QueriesOK, Bs!TypeOK
  <2>3. \A u \in Bs!Tasklets : where[u] # "end" /\ where'[u] # "end"
    BY <1>1 DEF Bs!QueriesOK, Bs!TypeOK
  <2>4. QED
    BY <2>1, <2>2, <2>3 DEF Bs!QueriesOK
<1>6. QED
  BY <1>3, <1>4, <1>5

\* A hit ends the query: its index is the result.
LEMMA BsReports ==
  ASSUME Bs!SearchInv, NEW t \in Bs!Tasklets, where[t] = "probe", NEW h \in 0 .. items - 1,
         array[h] = Bs!X(t), Bs!Report(t, h), UNCHANGED <<items, array, query, count, maxf>>
  PROVE  Bs!SearchInv'
<1> USE DEF Bs!SearchInv
<1>1. /\ found' = [found EXCEPT ![t] = h] /\ where' = [where EXCEPT ![t] = "next"]
      /\ UNCHANGED <<lo, hi>>
  BY DEF Bs!Report, Bs!Goto
<1>2. /\ items \in Nat /\ count[t] \in 1 .. BsQ /\ BsQ \in Nat /\ DOMAIN array = 0 .. items - 1
  BY BsAssumption DEF Bs!TypeOK, Bs!Sized, Bs!QueriesOK
<1>3. Bs!TypeOK'
  BY <1>1, <1>2 DEF Bs!TypeOK
<1>4. Bs!Bracket'
  BY <1>1 DEF Bs!Bracket, Bs!X, Bs!TypeOK
<1>5. \A u \in Bs!Tasklets : Bs!ResultOK(u)'
  <2> TAKE u \in Bs!Tasklets
  <2>0. Bs!ResultOK(u)
    BY DEF Bs!QueriesOK
  <2>1. CASE u = t
    <3>1. Bs!QueriesDone(t)' = 1 .. count[t] /\ found'[t] = h
      BY <1>1 DEF Bs!QueriesDone, Bs!TypeOK
    <3>2. count[t] \in 1 .. count[t] /\ array[h] = query[t][count[t]]
      BY <1>2 DEF Bs!X
    <3>3. \A p \in 1 .. count[t] : ~ (p > count[t])
      BY <1>2
    <3>4. QED
      BY <1>2, <2>1, <3>1, <3>2, <3>3 DEF Bs!ResultOK
  <2>2. CASE u # t
    BY <1>1, <2>0, <2>2, BsOthers DEF Bs!TypeOK
  <2>3. QED
    BY <2>1, <2>2
<1>6. Bs!QueriesOK'
  <2>2. \A u \in Bs!Tasklets : /\ where'[u] = "probe" => count'[u] > 0
                               /\ where'[u] \in {"barrier", "end"} => count'[u] = BsQ
    BY <1>1, <1>2 DEF Bs!QueriesOK, Bs!TypeOK
  <2>3. \A u \in Bs!Tasklets : where[u] # "end" /\ where'[u] # "end"
    BY <1>1 DEF Bs!QueriesOK, Bs!TypeOK
  <2>4. QED
    BY <1>5, <2>2, <2>3 DEF Bs!QueriesOK
<1>7. QED
  BY <1>3, <1>4, <1>6

\* A probe in the middle: one side is left, and the value is on the other.
LEMMA BsProbesMiddle ==
  ASSUME Bs!SearchInv, NEW t \in Bs!Tasklets, Bs!ProbeMiddle(t)
  PROVE  Bs!SearchInv'
<1> USE DEF Bs!SearchInv
<1> DEFINE m == Bs!Mid(t)
<1>1. /\ where[t] = "probe" /\ ~ Bs!NearEnd(t) /\ UNCHANGED <<items, array, query, count, maxf>>
      /\ \/ Bs!Hit(t, m, BsB) /\ Bs!Report(t, Bs!FirstHit(t, m))
         \/ /\ ~ Bs!Hit(t, m, BsB) /\ UNCHANGED <<where, found>>
            /\ \/ array[m] <= Bs!X(t) /\ lo' = [lo EXCEPT ![t] = m] /\ hi' = hi
               \/ ~ (array[m] <= Bs!X(t)) /\ hi' = [hi EXCEPT ![t] = m] /\ lo' = lo
  BY DEF Bs!ProbeMiddle, Bs!Left
<1>2. /\ items \in Nat /\ BsB \in Nat \ {0} /\ lo[t] \in Nat /\ hi[t] \in Nat
      /\ DOMAIN array = 0 .. items - 1 /\ \A x \in 0 .. items - 1 : array[x] \in Int
      /\ \A x, y \in 0 .. items - 1 : x <= y => array[x] <= array[y]
  BY BsAssumption DEF Bs!TypeOK, Bs!Sized
<1>3. /\ lo[t] + BsB <= hi[t] /\ hi[t] <= items
      /\ \A x \in DOMAIN array : array[x] = Bs!X(t) => \E j \in lo[t] .. hi[t] - 1 : array[j] = Bs!X(t)
  BY <1>1 DEF Bs!Bracket
<1>4. m \in Nat /\ lo[t] + BsB <= m /\ m + BsB <= hi[t]
  <2>1. 2 * m <= lo[t] + hi[t] /\ m \in Int /\ lo[t] + BsB <= m
    BY <1>1, <1>2 DEF Bs!Mid, Bs!NearEnd
  <2>2. QED
    BY <1>2, <2>1
<1>5. Bs!X(t) \in Int
  <2>1. count[t] \in 1 .. BsQ /\ BsValues \subseteq Int
    BY <1>1, BsAssumption DEF Bs!QueriesOK, Bs!TypeOK, Bs!Sized
  <2>2. QED
    BY <2>1 DEF Bs!TypeOK, Bs!X
<1> HIDE DEF m
<1>6. CASE Bs!Hit(t, m, BsB) /\ Bs!Report(t, Bs!FirstHit(t, m))
  <2>1. m + BsB <= items
    BY <1>2, <1>3, <1>4
  <2>2. Bs!FirstHit(t, m) \in 0 .. items - 1 /\ array[Bs!FirstHit(t, m)] = Bs!X(t)
    BY <1>2, <1>4, <1>6, <2>1, FirstHitIsOne
  <2>3. QED
    BY <1>1, <1>6, <2>2, BsReports
<1>7. CASE ~ Bs!Hit(t, m, BsB)
  <2>1. UNCHANGED <<where, found>>
    BY <1>1, <1>7
  <2>2. Bs!TypeOK'
    BY <1>1, <1>4, <1>7, <2>1 DEF Bs!TypeOK
  <2>3. Bs!QueriesOK'
    BY <1>1, <2>1 DEF Bs!QueriesOK, Bs!ResultOK, Bs!QueriesDone, Bs!InArray
  <2>4. /\ 0 <= lo'[t] /\ lo'[t] + BsB <= hi'[t] /\ hi'[t] <= items
        /\ \A x \in DOMAIN array : array[x] = Bs!X(t) => \E j \in lo'[t] .. hi'[t] - 1 : array[j] = Bs!X(t)
    <3>1. CASE array[m] <= Bs!X(t) /\ lo' = [lo EXCEPT ![t] = m] /\ hi' = hi
      <4>1. lo'[t] = m /\ hi'[t] = hi[t]
        BY <3>1 DEF Bs!TypeOK
      <4>2. array[m] # Bs!X(t)
        BY <1>2, <1>4, <1>7, <3>1 DEF Bs!Hit
      <4>3. \A j \in lo[t] .. hi[t] - 1 : array[j] = Bs!X(t) => j >= m
        <5> SUFFICES ASSUME NEW j \in lo[t] .. hi[t] - 1, array[j] = Bs!X(t), j < m PROVE FALSE
          BY <1>2, <1>4
        <5>1. j \in 0 .. items - 1 /\ m \in 0 .. items - 1 /\ j <= m
          BY <1>2, <1>3, <1>4
        <5>2. array[j] <= array[m] /\ array[m] \in Int
          BY <1>2, <5>1
        <5>3. QED
          BY <1>5, <3>1, <4>2, <5>2
      <4>4. QED
        BY <1>2, <1>3, <1>4, <4>1, <4>3
    <3>2. CASE ~ (array[m] <= Bs!X(t)) /\ hi' = [hi EXCEPT ![t] = m] /\ lo' = lo
      <4>1. lo'[t] = lo[t] /\ hi'[t] = m
        BY <3>2 DEF Bs!TypeOK
      <4>2. \A j \in lo[t] .. hi[t] - 1 : array[j] = Bs!X(t) => j < m
        <5> SUFFICES ASSUME NEW j \in lo[t] .. hi[t] - 1, array[j] = Bs!X(t), m <= j PROVE FALSE
          BY <1>2, <1>4
        <5>1. j \in 0 .. items - 1 /\ m \in 0 .. items - 1 /\ m <= j
          BY <1>2, <1>3, <1>4
        <5>2. array[m] <= array[j] /\ array[m] \in Int
          BY <1>2, <5>1
        <5>3. QED
          BY <1>5, <3>2, <5>2
      <4>3. QED
        BY <1>2, <1>3, <1>4, <4>1, <4>2
    <3>3. QED
      BY <1>1, <1>7, <3>1, <3>2
  <2>5. Bs!Bracket'
    <3> SUFFICES ASSUME NEW u \in Bs!Tasklets, where'[u] = "probe"
                 PROVE  /\ 0 <= lo'[u] /\ lo'[u] + BsB <= hi'[u] /\ hi'[u] <= items
                        /\ \A x \in DOMAIN array : array[x] = Bs!X(u)' =>
                             \E j \in lo'[u] .. hi'[u] - 1 : array[j] = Bs!X(u)'
      BY <1>1 DEF Bs!Bracket
    <3>1. Bs!X(u)' = Bs!X(u)
      BY <1>1 DEF Bs!X
    <3>2. CASE u = t
      BY <2>4, <3>1, <3>2
    <3>3. CASE u # t
      <4>1. where[u] = "probe" /\ lo'[u] = lo[u] /\ hi'[u] = hi[u]
        BY <1>1, <1>7, <2>1, <3>3 DEF Bs!TypeOK
      <4>2. QED
        BY <3>1, <4>1 DEF Bs!Bracket
    <3>4. QED
      BY <3>2, <3>3
  <2>6. QED
    BY <2>2, <2>3, <2>5
<1>8. QED
  BY <1>1, <1>6, <1>7

\* The end: the block and the remainder are all that is left.
LEMMA BsProbesEnd ==
  ASSUME Bs!SearchInv, NEW t \in Bs!Tasklets, Bs!ProbeEnd(t)
  PROVE  Bs!SearchInv'
<1> USE DEF Bs!SearchInv
<1>1. /\ where[t] = "probe" /\ UNCHANGED <<items, array, query, count, maxf>>
      /\ \/ Bs!Hit(t, lo[t], BsB) /\ Bs!Report(t, Bs!FirstHit(t, lo[t]))
         \/ /\ Bs!Hit(t, lo[t] + BsB, Bs!Rest(t))
            /\ Bs!Report(t, Bs!FirstHit(t, lo[t] + BsB))
         \/ /\ ~ Bs!Hit(t, lo[t], BsB) /\ ~ Bs!Hit(t, lo[t] + BsB, Bs!Rest(t))
            /\ where' = [where EXCEPT ![t] = "next"] /\ UNCHANGED <<lo, hi, found>>
  BY DEF Bs!ProbeEnd, Bs!Goto
<1>2. /\ items \in Nat /\ BsB \in Nat \ {0} /\ lo[t] \in Nat /\ hi[t] \in Nat
      /\ DOMAIN array = 0 .. items - 1 /\ \A x \in 0 .. items - 1 : array[x] \in Int
      /\ \A x, y \in 0 .. items - 1 : x <= y => array[x] <= array[y]
      /\ count[t] \in 1 .. BsQ /\ BsQ \in Nat
  BY <1>1, BsAssumption DEF Bs!TypeOK, Bs!Sized, Bs!QueriesOK
<1>3. /\ lo[t] + BsB <= hi[t] /\ hi[t] <= items
      /\ \A x \in DOMAIN array : array[x] = Bs!X(t) => \E j \in lo[t] .. hi[t] - 1 : array[j] = Bs!X(t)
  BY <1>1 DEF Bs!Bracket
<1>4. CASE Bs!Hit(t, lo[t], BsB) /\ Bs!Report(t, Bs!FirstHit(t, lo[t]))
  <2>1. Bs!FirstHit(t, lo[t]) \in 0 .. items - 1 /\ array[Bs!FirstHit(t, lo[t])] = Bs!X(t)
    BY <1>2, <1>3, <1>4, FirstHitIsOne
  <2>2. QED
    BY <1>1, <1>4, <2>1, BsReports
<1>5. CASE Bs!Hit(t, lo[t] + BsB, Bs!Rest(t)) /\ Bs!Report(t, Bs!FirstHit(t, lo[t] + BsB))
  <2>1. Bs!Rest(t) \in Int /\ lo[t] + BsB \in Nat /\ lo[t] + BsB + Bs!Rest(t) <= items
    BY <1>2, <1>3 DEF Bs!Rest
  <2>2. Bs!FirstHit(t, lo[t] + BsB) \in 0 .. items - 1 /\ array[Bs!FirstHit(t, lo[t] + BsB)] = Bs!X(t)
    BY <1>5, <2>1, FirstHitIsOne
  <2>3. QED
    BY <1>1, <1>5, <2>2, BsReports
<1>6. CASE /\ ~ Bs!Hit(t, lo[t], BsB) /\ ~ Bs!Hit(t, lo[t] + BsB, Bs!Rest(t))
           /\ where' = [where EXCEPT ![t] = "next"] /\ UNCHANGED <<lo, hi, found>>
  <2>1. ~ Bs!InArray(Bs!X(t))
    <3> SUFFICES ASSUME NEW x \in DOMAIN array, array[x] = Bs!X(t) PROVE FALSE
      BY DEF Bs!InArray
    <3>1. PICK j \in lo[t] .. hi[t] - 1 : array[j] = Bs!X(t)
      BY <1>3
    <3>2. array[lo[t]] <= Bs!X(t)
      <4>1. lo[t] \in 0 .. items - 1 /\ j \in 0 .. items - 1 /\ lo[t] <= j
        <5>1. lo[t] \in Nat /\ hi[t] \in Nat /\ items \in Nat /\ hi[t] <= items
          BY <1>2, <1>3
        <5>2. QED
          BY ONLY <3>1, <5>1
      <4>2. \A k, l \in 0 .. items - 1 : k <= l => array[k] <= array[l]
        BY <1>2
      <4>3. array[lo[t]] <= array[j]
        BY ONLY <4>1, <4>2
      <4>4. QED
        BY ONLY <3>1, <4>3
    <3>3. j \notin lo[t] .. lo[t] + BsB - 1
      BY <1>2, <1>6, <3>1, <3>2 DEF Bs!Hit
    <3>4. j >= lo[t] + BsB /\ Bs!Rest(t) > 0 /\ j \in lo[t] + BsB .. lo[t] + BsB + Bs!Rest(t) - 1
      <4>1. /\ lo[t] \in Nat /\ hi[t] \in Nat /\ BsB \in Nat /\ j \in lo[t] .. hi[t] - 1
            /\ j \notin lo[t] .. lo[t] + BsB - 1 /\ Bs!Rest(t) = hi[t] - (lo[t] + BsB)
        BY <1>2, <3>1, <3>3 DEF Bs!Rest
      <4>2. QED
        BY <4>1
    <3>5. array[lo[t] + BsB] <= Bs!X(t)
      <4>1. /\ items \in Nat /\ lo[t] \in Nat /\ hi[t] \in Nat /\ BsB \in Nat /\ hi[t] <= items
            /\ j \in lo[t] .. hi[t] - 1 /\ j >= lo[t] + BsB
        BY <1>2, <1>3, <3>4
      <4>2. lo[t] + BsB \in 0 .. items - 1 /\ j \in 0 .. items - 1 /\ lo[t] + BsB <= j
        BY <4>1
      <4>3. QED
        BY <1>2, <3>1, <4>2
    <3>6. QED
      BY <1>6, <3>1, <3>4, <3>5 DEF Bs!Hit
  <2>2. Bs!TypeOK'
    BY <1>1, <1>6 DEF Bs!TypeOK
  <2>3. Bs!Bracket'
    BY <1>1, <1>6 DEF Bs!Bracket, Bs!X, Bs!TypeOK
  <2>4. \A u \in Bs!Tasklets : Bs!ResultOK(u)'
    <3> TAKE u \in Bs!Tasklets
    <3>0. Bs!ResultOK(u)
      BY DEF Bs!QueriesOK
    <3>1. CASE u = t
      <4>1. Bs!QueriesDone(t)' = 1 .. count[t] /\ Bs!QueriesDone(t) = 1 .. count[t] - 1
        BY <1>1, <1>6 DEF Bs!QueriesDone, Bs!TypeOK
      <4>2. \A q \in 1 .. count[t] : q \in 1 .. count[t] - 1 \/ q = count[t]
        BY <1>2
      <4>3. ~ Bs!InArray(query[t][count[t]])
        BY <2>1 DEF Bs!X
      <4>4. 1 .. count[t] - 1 \subseteq 1 .. count[t]
        BY <1>2
      <4>5. QED
        BY <1>1, <1>6, <3>0, <3>1, <4>1, <4>2, <4>3, <4>4 DEF Bs!ResultOK, Bs!InArray
    <3>2. CASE u # t
      BY <1>1, <1>6, <3>0, <3>2, BsOthers DEF Bs!TypeOK
    <3>3. QED
      BY <3>1, <3>2
  <2>5. Bs!QueriesOK'
    <3>2. \A u \in Bs!Tasklets : /\ where'[u] = "probe" => count'[u] > 0
                                 /\ where'[u] \in {"barrier", "end"} => count'[u] = BsQ
      BY <1>1, <1>2, <1>6 DEF Bs!QueriesOK, Bs!TypeOK
    <3>3. \A u \in Bs!Tasklets : where[u] # "end" /\ where'[u] # "end"
      BY <1>1, <1>6 DEF Bs!QueriesOK, Bs!TypeOK
    <3>4. QED
      BY <2>4, <3>2, <3>3 DEF Bs!QueriesOK
  <2>6. QED
    BY <2>2, <2>3, <2>5
<1>7. QED
  BY <1>1, <1>4, <1>5, <1>6

LEMMA BsPublishes ==
  ASSUME Bs!SearchInv, Bs!Publish
  PROVE  Bs!SearchInv'
<1> USE DEF Bs!SearchInv
<1> DEFINE F == {found[t] : t \in Bs!Tasklets}
<1>1. /\ \A t \in Bs!Tasklets : where[t] = "barrier"
      /\ where' = [t \in Bs!Tasklets |-> "end"]
      /\ maxf' = CHOOSE f \in F : \A t \in Bs!Tasklets : found[t] <= f
      /\ UNCHANGED <<items, array, query, count, lo, hi, found>>
  BY DEF Bs!Publish
<1>2. maxf' \in F /\ \A t \in Bs!Tasklets : found[t] <= maxf'
  <2>1. items \in Nat /\ F \subseteq Int /\ \A f \in F : f <= items
    BY BsAssumption DEF Bs!TypeOK, Bs!Sized
  <2>2. F # {}
    <3>1. 0 \in Bs!Tasklets
      BY BsAssumption DEF Bs!Sized, Bs!Tasklets
    <3>2. found[0] \in F
      BY <3>1
    <3>3. QED
      BY <3>2
  <2>3. \E f \in F : \A g \in F : g <= f
    <3>1. F \in SUBSET Int /\ items \in Int
      BY <2>1
    <3> HIDE DEF F
    <3>2. QED
      BY <2>1, <2>2, <3>1, Largest, Zenon
  <2>4. \E f \in F : \A t \in Bs!Tasklets : found[t] <= f
    BY <2>3
  <2>5. QED
    BY <1>1, <2>4
<1>3. Bs!TypeOK'
  <2>1. maxf' \in Int
    BY <1>2, BsAssumption DEF Bs!TypeOK, Bs!Sized
  <2>2. QED
    BY <1>1, <2>1 DEF Bs!TypeOK
<1>4. Bs!Bracket'
  BY <1>1 DEF Bs!Bracket
<1>5. Bs!QueriesOK'
  <2>1. \A u \in Bs!Tasklets : Bs!ResultOK(u)'
    <3> TAKE u \in Bs!Tasklets
    <3>1. Bs!ResultOK(u) /\ Bs!QueriesDone(u)' = Bs!QueriesDone(u)
      BY <1>1 DEF Bs!QueriesOK, Bs!QueriesDone
    <3>2. QED
      BY <1>1, <3>1 DEF Bs!ResultOK, Bs!InArray
  <2>2. QED
    BY <1>1, <1>2, <2>1 DEF Bs!QueriesOK
<1>6. QED
  BY <1>3, <1>4, <1>5

LEMMA BsPreserves ==
  ASSUME Bs!SearchInv, [Bs!Next]_(Bs!vars)
  PROVE  Bs!SearchInv'
<1>1. CASE UNCHANGED Bs!vars
  BY <1>1 DEF Bs!vars, Bs!SearchInv, Bs!TypeOK, Bs!Bracket, Bs!X, Bs!QueriesOK, Bs!ResultOK,
    Bs!QueriesDone, Bs!InArray
<1>2. QED
  BY <1>1, BsQueries, BsProbesMiddle, BsProbesEnd, BsPublishes DEF Bs!Next, Bs!Tasklet

\* The invariant says what the run checks.
LEMMA BsSafe ==
  ASSUME Bs!SearchInv
  PROVE  Bs!Bracket /\ Bs!LastHitsPublished
<1> USE DEF Bs!SearchInv
<1>1. ASSUME Bs!Ended, NEW t \in Bs!Tasklets
      PROVE  IF Bs!Hits(t) = {} THEN found[t] = -1
             ELSE found[t] \in DOMAIN array /\ array[found[t]] = query[t][Bs!LastHit(t)]
  <2>1. where[t] = "end" /\ count[t] = BsQ /\ Bs!ResultOK(t)
    BY <1>1 DEF Bs!Ended, Bs!QueriesOK
  <2>2. Bs!QueriesDone(t) = 1 .. BsQ
    BY <2>1 DEF Bs!QueriesDone
  <2>3. Bs!Hits(t) = {q \in 1 .. BsQ : Bs!InArray(query[t][q])}
    BY DEF Bs!Hits, Bs!InArray
  <2>4. CASE found[t] = -1 /\ \A q \in 1 .. BsQ : ~ Bs!InArray(query[t][q])
    BY <2>3, <2>4
  <2>5. CASE \E q \in 1 .. BsQ :
               /\ found[t] \in DOMAIN array /\ array[found[t]] = query[t][q]
               /\ \A p \in 1 .. BsQ : p > q => ~ Bs!InArray(query[t][p])
    <3>1. PICK q \in 1 .. BsQ :
               /\ found[t] \in DOMAIN array /\ array[found[t]] = query[t][q]
               /\ \A p \in 1 .. BsQ : p > q => ~ Bs!InArray(query[t][p])
      BY <2>5
    <3>2. q \in Bs!Hits(t) /\ \A p \in Bs!Hits(t) : p <= q
      BY <2>3, <3>1, BsAssumption DEF Bs!InArray, Bs!Sized
    <3>3. \A z \in Bs!Hits(t) : (\A p \in Bs!Hits(t) : p <= z) => z = q
      <4>1. \A z \in Bs!Hits(t) : z \in Int
        BY <2>3
      <4>2. QED
        BY <3>2, <4>1
    <3>4. Bs!LastHit(t) = q
      BY <3>2, <3>3 DEF Bs!LastHit
    <3>5. QED
      BY <3>1, <3>2, <3>4
  <2>6. QED
    BY <2>1, <2>2, <2>4, <2>5 DEF Bs!ResultOK
<1>2. ASSUME Bs!Ended
      PROVE  /\ \A t \in Bs!Tasklets : found[t] <= maxf
             /\ \E t \in Bs!Tasklets : found[t] = maxf
  <2>1. 0 \in Bs!Tasklets
    BY BsAssumption DEF Bs!Sized, Bs!Tasklets
  <2>2. QED
    BY <1>2, <2>1 DEF Bs!Ended, Bs!QueriesOK
<1>3. QED
  BY <1>1, <1>2 DEF Bs!LastHitsPublished

-----------------------------------------------------------------------------
(* TS. *)

slice == m1
length == m2
best == m3
base == m5
least == m6
results == m7
USE DEF slice, length, best, where, base, least, results

\* A share is a whole number of blocks.
LEMMA TsShare ==
  ASSUME slice \in TsSlices
  PROVE  /\ TsN \in Nat \ {0} /\ TsW \in Nat \ {0, 1} /\ slice \in Nat
         /\ \E c \in Nat : slice \div TsN = c * TsW /\ slice = TsN * (c * TsW)
<1>1. TsN \in Nat \ {0} /\ TsW \in Nat \ {0, 1} /\ slice \in Nat /\ slice % (TsN * TsW) = 0
  BY TsAssumption DEF Ts!Sized
<1>2. TsN * TsW \in Nat \ {0}
  <2>1. TsN * TsW = TsW + (TsN - 1) * TsW /\ (TsN - 1) * TsW \in Nat
    BY <1>1
  <2>2. QED
    BY <1>1, <2>1
<1>3. PICK c \in Nat : slice = (TsN * TsW) * c
  <2> DEFINE M == TsN * TsW
             c == slice \div M
  <2> HIDE DEF M
  <2>1. c \in Nat /\ slice = M * c + (slice % M) /\ M \in Nat
    BY <1>1, <1>2, DivMod DEF M
  <2>2. slice % M = 0
    BY <1>1 DEF M
  <2> HIDE DEF c
  <2>3. slice = M * c
    BY <2>1, <2>2
  <2>4. QED
    BY <2>1, <2>3 DEF M
<1>4. c * TsW \in Nat /\ slice = TsN * (c * TsW)
  BY <1>1, <1>3
<1>5. slice \div TsN = c * TsW
  <2>1. \A x \in Nat : (x * TsN + 0) \div TsN = x
    BY <1>1, Division
  <2>2. slice = (c * TsW) * TsN
    BY <1>1, <1>4
  <2>3. QED
    BY <1>4, <2>1, <2>2
<1>6. QED
  BY <1>1, <1>4, <1>5

LEMMA TsInit ==
  ASSUME Ts!Init
  PROVE  Ts!WindowInv
<1>1. /\ slice \in TsSlices /\ length \in TsQueries /\ best \in 0 .. slice - length - 1
      /\ where = [t \in Ts!Tasklets |-> "block"]
      /\ base = [t \in Ts!Tasklets |-> Ts!Start(t)]
      /\ least = [t \in Ts!Tasklets |-> [value |-> 2, index |-> 0]]
  BY DEF Ts!Init, Ts!Max
<1>2. TsN \in Nat \ {0} /\ TsW \in Nat \ {0, 1} /\ \E c \in Nat : slice \div TsN = c
  <2>1. \E c \in Nat : slice \div TsN = c * TsW
    BY <1>1, TsShare
  <2>2. QED
    BY <1>1, <2>1, TsShare
<1>3. \A t \in Ts!Tasklets : Ts!Start(t) \in Nat
  BY <1>2 DEF Ts!Start, Ts!Tasklets
<1>4. Ts!TypeOK
  BY <1>1, <1>3 DEF Ts!TypeOK, Ts!Max
<1>5. Ts!PlacesOK
  <2>1. 0 % TsW = 0
    BY <1>2
  <2>2. \A t \in Ts!Tasklets : base[t] - Ts!Start(t) = 0
    BY <1>1, <1>3
  <2>3. QED
    BY <1>1, <1>3, <2>1, <2>2 DEF Ts!PlacesOK
<1>6. Ts!MinimumOK
  BY <1>1, <1>3 DEF Ts!MinimumOK
<1>7. Ts!ResultsOK
  BY <1>1 DEF Ts!ResultsOK
<1>8. QED
  BY <1>4, <1>5, <1>6, <1>7 DEF Ts!WindowInv

\* The dot products of a block have the right terms: the window has distance 0.
LEMMA TsDistance ==
  ASSUME Ts!TypeOK, NEW b \in Nat, NEW k \in Nat
  PROVE  Ts!Distance(b, k) = IF b + k = best THEN 0 ELSE 1
<1>1. length \in Nat /\ TsW \in Nat \ {0}
  BY TsAssumption DEF Ts!TypeOK, Ts!Sized
<1>2. \A q \in 0 .. length - 1 : Ts!Partner(b, k, q) = b + k + q
  <2> TAKE q \in 0 .. length - 1
  <2>1. q \div TsW \in Nat /\ q % TsW \in Nat /\ q = TsW * (q \div TsW) + (q % TsW)
    BY <1>1, DivMod
  <2>2. (q \div TsW) * TsW = TsW * (q \div TsW) /\ (q \div TsW) * TsW \in Nat
    BY <1>1, <2>1
  <2>3. QED
    BY <1>1, <2>1, <2>2 DEF Ts!Partner, Ts!Aux
<1>3. QED
  BY <1>2 DEF Ts!Distance

LEMMA TsSearches ==
  ASSUME Ts!WindowInv, NEW t \in Ts!Tasklets, Ts!SearchBlock(t)
  PROVE  Ts!WindowInv'
<1> USE DEF Ts!WindowInv
<1> DEFINE d(k) == Ts!Distance(base[t], k)
           Low(k) == (\A j \in 0 .. TsW - 1 : d(k) <= d(j)) /\ \A j \in 0 .. k - 1 : d(k) < d(j)
           low == CHOOSE k \in 0 .. TsW - 1 : Low(k)
<1>1. /\ where[t] = "block" /\ UNCHANGED <<slice, length, best, where, results>>
      /\ least' = IF d(low) < least[t].value
                  THEN [least EXCEPT ![t] = [value |-> d(low), index |-> base[t] + low]] ELSE least
      /\ base' = [base EXCEPT ![t] = base[t] + TsW]
  BY DEF Ts!SearchBlock
<1>2. /\ base[t] \in Nat /\ TsW \in Nat \ {0, 1} /\ best \in Nat
      /\ least[t].value \in 0 .. 2 /\ least[t].index \in Nat
  BY TsAssumption DEF Ts!TypeOK, Ts!Sized, Ts!Max
<1>3. \A k \in 0 .. TsW - 1 : d(k) = IF base[t] + k = best THEN 0 ELSE 1
  <2> SUFFICES ASSUME NEW k \in 0 .. TsW - 1
               PROVE  d(k) = IF base[t] + k = best THEN 0 ELSE 1
    OBVIOUS
  <2> HIDE DEF Low, low
  <2>1. k \in Nat /\ base[t] \in Nat
    BY <1>2
  <2>2. QED
    BY <2>1, TsDistance
<1> HIDE DEF d
<1>4. \E k \in 0 .. TsW - 1 : Low(k)
  <2>1. CASE base[t] <= best /\ best < base[t] + TsW
    <3>1. best - base[t] \in 0 .. TsW - 1
      BY <1>2, <2>1
    <3>2. Low(best - base[t])
      BY <1>2, <1>3, <3>1
    <3>3. QED
      BY <3>1, <3>2
  <2>2. CASE ~ (base[t] <= best /\ best < base[t] + TsW)
    <3>1. \A k \in 0 .. TsW - 1 : d(k) = 1
      BY <1>2, <1>3, <2>2
    <3>2. 0 \in 0 .. TsW - 1 /\ Low(0)
      BY <1>2, <3>1
    <3>3. QED
      BY <3>2
  <2>3. QED
    BY <2>1, <2>2
<1>5. low \in 0 .. TsW - 1 /\ Low(low)
  <2> HIDE DEF Low
  <2>1. QED
    BY <1>4
<1> HIDE DEF low
<1>6. /\ d(low) \in 0 .. 1 /\ (d(low) = 0 => base[t] + low = best)
      /\ base[t] <= best /\ best < base[t] + TsW => d(low) = 0
  <2>1. base[t] <= best /\ best < base[t] + TsW => best - base[t] \in 0 .. TsW - 1 /\ d(best - base[t]) = 0
    BY <1>2, <1>3
  <2>2. QED
    BY <1>2, <1>3, <1>5, <2>1
<1>7. \A u \in Ts!Tasklets : u # t => base'[u] = base[u] /\ least'[u] = least[u]
  BY <1>1 DEF Ts!TypeOK
<1>8. base'[t] = base[t] + TsW
  BY <1>1 DEF Ts!TypeOK
<1>9. least'[t] = IF d(low) < least[t].value THEN [value |-> d(low), index |-> base[t] + low] ELSE least[t]
  BY <1>1 DEF Ts!TypeOK
<1>10. Ts!TypeOK'
  <2>1. base' \in [Ts!Tasklets -> Nat]
    BY <1>1, <1>2 DEF Ts!TypeOK
  <2>2. base[t] + low \in Nat /\ d(low) \in 0 .. 2
    BY <1>2, <1>5, <1>6
  <2>3. least' \in [Ts!Tasklets -> [value : 0 .. 2, index : Nat]]
    BY <1>1, <2>2 DEF Ts!TypeOK, Ts!Max
  <2>4. QED
    BY <1>1, <2>1, <2>3 DEF Ts!TypeOK, Ts!Max
<1>11. \A u : Ts!Start(u)' = Ts!Start(u) /\ Ts!End(u)' = Ts!End(u)
  BY <1>1 DEF Ts!Start, Ts!End
<1>12. Ts!PlacesOK'
  <2> SUFFICES ASSUME NEW u \in Ts!Tasklets
               PROVE  /\ base'[u] >= Ts!Start(u) /\ (base'[u] - Ts!Start(u)) % TsW = 0
                      /\ where[u] \in {"barrier", "end"} => base'[u] >= Ts!End(u)
    BY <1>1, <1>11 DEF Ts!PlacesOK
  <2>1. CASE u # t
    BY <1>7, <2>1 DEF Ts!PlacesOK
  <2>2. CASE u = t
    <3>1. base[t] >= Ts!Start(t) /\ (base[t] - Ts!Start(t)) % TsW = 0 /\ Ts!Start(t) \in Int
      <4>1. slice \div TsN \in Int
        BY TsAssumption DEF Ts!TypeOK, Ts!Sized
      <4>2. QED
        BY <4>1 DEF Ts!PlacesOK, Ts!Start, Ts!Tasklets
    <3> DEFINE x == base[t] - Ts!Start(t)
    <3>2. x \in Nat /\ x % TsW = 0 /\ base'[t] - Ts!Start(t) = x + TsW
      BY <1>2, <1>8, <3>1
    <3> HIDE DEF x
    <3>3. x = (x \div TsW) * TsW /\ x \div TsW \in Nat
      <4>1. x \div TsW \in Nat /\ x = TsW * (x \div TsW) + (x % TsW)
        BY <1>2, <3>2, DivMod
      <4>2. \A v \in Nat : TsW * v = v * TsW /\ TsW * v + 0 = TsW * v
        BY <1>2
      <4>3. QED
        BY <3>2, <4>1, <4>2
    <3>4. x + TsW = (x \div TsW + 1) * TsW
      BY <1>2, <3>3
    <3>5. (x + TsW) % TsW = 0
      BY <1>2, <3>3, <3>4, Multiple
    <3>6. (base'[t] - Ts!Start(t)) % TsW = 0 /\ base'[t] >= Ts!Start(t)
      BY <1>2, <1>8, <3>1, <3>2, <3>5
    <3>7. QED
      BY <1>1, <2>2, <3>6
  <2>3. QED
    BY <2>1, <2>2
<1>13. Ts!MinimumOK'
  <2> SUFFICES ASSUME NEW u \in Ts!Tasklets
               PROVE  /\ least'[u].value = 0 => least'[u].index = best
                      /\ Ts!Start(u) <= best /\ best < base'[u] => least'[u].value = 0
    BY <1>1, <1>11 DEF Ts!MinimumOK
  <2>1. CASE u # t
    BY <1>7, <2>1 DEF Ts!MinimumOK
  <2>2. CASE u = t
    <3>1. /\ least[t].value = 0 => least[t].index = best
          /\ Ts!Start(t) <= best /\ best < base[t] => least[t].value = 0
      BY DEF Ts!MinimumOK
    <3>2. CASE d(low) < least[t].value
      <4>1. least'[t].value = d(low) /\ least'[t].index = base[t] + low
        BY <1>9, <3>2
      <4>2. QED
        BY <1>2, <1>6, <1>8, <2>2, <3>1, <3>2, <4>1
    <3>3. CASE ~ (d(low) < least[t].value)
      <4>1. least'[t] = least[t]
        BY <1>9, <3>3
      <4>2. QED
        BY <1>2, <1>6, <1>8, <2>2, <3>1, <3>3, <4>1
    <3>4. QED
      BY <3>2, <3>3
  <2>3. QED
    BY <2>1, <2>2
<1>14. Ts!ResultsOK'
  <2>1. \A u \in Ts!Tasklets : where[u] # "end"
    BY <1>1 DEF Ts!ResultsOK
  <2>2. QED
    BY <1>1, <2>1 DEF Ts!ResultsOK
<1>15. QED
  BY <1>10, <1>12, <1>13, <1>14

LEMMA TsOtherSteps ==
  ASSUME Ts!WindowInv,
         \/ \E t \in Ts!Tasklets : Ts!ShareDone(t)
         \/ Ts!WriteResults \/ UNCHANGED Ts!vars
  PROVE  Ts!WindowInv'
<1> USE DEF Ts!WindowInv
<1>1. \A u : UNCHANGED slice => Ts!Start(u)' = Ts!Start(u)
  BY DEF Ts!Start
<1>2. \A u : UNCHANGED <<slice, length>> => Ts!End(u)' = Ts!End(u)
  BY <1>1 DEF Ts!End, Ts!Start
<1>3. ASSUME NEW t \in Ts!Tasklets, Ts!ShareDone(t)
      PROVE  Ts!WindowInv'
  <2>1. /\ base[t] >= Ts!End(t) /\ where[t] = "block" /\ where' = [where EXCEPT ![t] = "barrier"]
        /\ UNCHANGED <<slice, length, best, base, least, results>>
    BY <1>3 DEF Ts!ShareDone
  <2>2. Ts!TypeOK'
    BY <2>1 DEF Ts!TypeOK
  <2>3. Ts!PlacesOK'
    BY <1>1, <1>2, <2>1 DEF Ts!PlacesOK, Ts!TypeOK
  <2>4. Ts!MinimumOK' /\ Ts!ResultsOK'
    BY <1>1, <2>1 DEF Ts!MinimumOK, Ts!ResultsOK, Ts!TypeOK
  <2>5. QED
    BY <2>2, <2>3, <2>4
<1>4. CASE Ts!WriteResults
  <2>1. /\ \A t \in Ts!Tasklets : where[t] = "barrier"
        /\ where' = [t \in Ts!Tasklets |-> "end"] /\ results' = least
        /\ UNCHANGED <<slice, length, best, base, least>>
    BY <1>4 DEF Ts!WriteResults
  <2>2. Ts!TypeOK'
    BY <2>1 DEF Ts!TypeOK
  <2>3. Ts!PlacesOK'
    BY <1>1, <1>2, <2>1 DEF Ts!PlacesOK
  <2>4. Ts!MinimumOK' /\ Ts!ResultsOK'
    BY <1>1, <2>1 DEF Ts!MinimumOK, Ts!ResultsOK
  <2>5. QED
    BY <2>2, <2>3, <2>4
<1>5. CASE UNCHANGED Ts!vars
  BY <1>1, <1>2, <1>5 DEF Ts!vars, Ts!TypeOK, Ts!PlacesOK, Ts!MinimumOK, Ts!ResultsOK
<1>6. QED
  BY <1>3, <1>4, <1>5

\* The window is in the share of one tasklet, which has gone past it.
LEMMA TsSafe ==
  ASSUME Ts!WindowInv
  PROVE  Ts!ClosestFound
<1> USE DEF Ts!WindowInv
<1> SUFFICES ASSUME Ts!Ended
             PROVE  \E t \in Ts!Tasklets : results[t] = [value |-> 0, index |-> best]
  BY DEF Ts!ClosestFound
<1>1. /\ TsN \in Nat \ {0} /\ TsW \in Nat \ {0, 1} /\ slice \in Nat /\ length \in Nat
      /\ best \in 0 .. slice - length - 1
  BY TsShare, TsAssumption DEF Ts!TypeOK, Ts!Sized
<1>2. PICK c \in Nat : slice \div TsN = c * TsW /\ slice = TsN * (c * TsW)
  BY TsShare DEF Ts!TypeOK
<1> DEFINE share == c * TsW
           t == best \div share
<1>3. share \in Nat \ {0}
  <2>1. share \in Nat /\ slice = TsN * share
    BY <1>1, <1>2
  <2>2. slice > 0
    BY <1>1
  <2>3. QED
    BY <1>1, <2>1, <2>2
<1>4. slice = TsN * share /\ \A u : Ts!Start(u) = u * share
  BY <1>2 DEF Ts!Start
<1> HIDE DEF share
<1>5. t \in Nat /\ t * share <= best /\ best < t * share + share
  <2>1. best \in Nat
    BY <1>1
  <2>2. PICK r \in 0 .. share - 1 : t \in Nat /\ best = share * t + r
    BY <1>3, <2>1, DivMod
  <2> HIDE DEF t
  <2>3. share * t = t * share /\ t * share \in Nat
    BY <1>3, <2>2
  <2>4. QED
    BY <1>3, <2>2, <2>3
<1> HIDE DEF t
<1>6. t \in Ts!Tasklets
  <2>1. CASE t >= TsN
    <3>1. t * share = TsN * share + (t - TsN) * share /\ (t - TsN) * share \in Nat
      BY <1>1, <1>3, <1>5, <2>1
    <3>2. QED
      BY <1>1, <1>3, <1>4, <1>5, <3>1
  <2>2. QED
    BY <1>1, <1>5, <2>1 DEF Ts!Tasklets
<1>7. /\ where[t] = "end" /\ base[t] \in Nat /\ base[t] >= Ts!Start(t) /\ base[t] >= Ts!End(t)
      /\ (base[t] - Ts!Start(t)) % TsW = 0 /\ results = least
  BY <1>6 DEF Ts!Ended, Ts!PlacesOK, Ts!TypeOK, Ts!ResultsOK
<1>8. best < base[t]
  <2>1. CASE Ts!End(t) = slice - length
    BY <1>1, <1>7, <2>1
  <2>2. CASE Ts!End(t) = Ts!Start(t) + share - 1
    <3> DEFINE x == base[t] - Ts!Start(t)
               n == x \div TsW
    <3>1. x \in Nat /\ x >= share - 1 /\ x % TsW = 0
      BY <1>3, <1>4, <1>5, <1>7, <2>2
    <3> HIDE DEF x
    <3>2. n \in Nat /\ x = n * TsW
      BY <1>1, <3>1, DivMod
    <3> HIDE DEF n
    <3>3. n >= c
      <4>1. CASE n <= c - 1
        <5>1. c * TsW = n * TsW + TsW + (c - 1 - n) * TsW /\ (c - 1 - n) * TsW \in Nat
          BY <1>1, <1>2, <3>2, <4>1
        <5>2. QED
          BY <1>1, <3>1, <3>2, <5>1 DEF share
      <4>2. QED
        BY <1>2, <3>2, <4>1
    <3>4. n * TsW = c * TsW + (n - c) * TsW /\ (n - c) * TsW \in Nat
      BY <1>1, <1>2, <3>2, <3>3
    <3>5. x >= share /\ share \in Nat
      BY <1>1, <1>2, <3>2, <3>4 DEF share
    <3>6. Ts!Start(t) \in Nat /\ Ts!Start(t) = t * share
      BY <1>3, <1>4, <1>5
    <3>7. QED
      BY <1>1, <1>5, <1>7, <3>5, <3>6 DEF x
  <2>3. QED
    BY <1>1, <1>2, <2>1, <2>2 DEF Ts!End, share
<1>9. least[t].value = 0 /\ least[t].index = best
  BY <1>4, <1>5, <1>6, <1>8 DEF Ts!MinimumOK
<1>10. least[t] = [value |-> 0, index |-> best]
  BY <1>6, <1>9 DEF Ts!TypeOK
<1>11. QED
  BY <1>6, <1>7, <1>10

(***************************************************************************)
(* BS: no probe reads outside its bracket, the value is never outside it,  *)
(* and the results are those of the last hits.  TS: the closest window is  *)
(* found.  For every number of tasklets, block size and input.             *)
(***************************************************************************)
THEOREM SearchesSucceed == MCSpec => []SearchesFind
<1> DEFINE Inv == (kernel = "BS" => Bs!SearchInv) /\ (kernel = "TS" => Ts!WindowInv)
<1>1. MCInit => Inv
  BY BsInit, TsInit DEF MCInit, KernelInit
<1>2. Inv /\ [MCNext]_all => Inv'
  <2> SUFFICES ASSUME Inv, [MCNext]_all PROVE Inv'
    OBVIOUS
  <2>1. ASSUME kernel' = "BS" PROVE Bs!SearchInv'
    <3>1. kernel = "BS" /\ [Bs!Next]_(Bs!vars)
      BY <2>1 DEF MCNext, all, group, Bs!vars
    <3>2. QED
      BY <3>1, BsPreserves
  <2>2. ASSUME kernel' = "TS" PROVE Ts!WindowInv'
    <3>1. kernel = "TS" /\ [Ts!Next]_(Ts!vars)
      BY <2>2 DEF MCNext, all, group, Ts!vars
    <3>2. QED
      BY <3>1, TsSearches, TsOtherSteps DEF Ts!Next, Ts!vars
  <2>3. QED
    BY <2>1, <2>2
<1>3. Inv => SearchesFind
  BY BsSafe, TsSafe DEF SearchesFind
<1>4. QED
  BY <1>1, <1>2, <1>3, PTL DEF MCSpec

-----------------------------------------------------------------------------
(* NW: what is computed of a matrix grows block by block along the         *)
(* diagonals, and what is copied back beside a block hits no cell that is  *)
(* needed.                                                                 *)

cmd == m2
phase == m3
job == m4
size == m5
bl == m6
diag == m7
idx == m8
row == m9
cache == m10
matrix == m11
USE DEF cmd, phase, job, size, bl, diag, idx, row, cache, matrix

\* The shares of a diagonal: tasklet t has the blocks from First(t) up to
\* First(t + 1), and these are the blocks from 0 up to the length.
LEMMA NwShares ==
  ASSUME Nw!Sized, NEW d \in 0 .. Nw!LastDiag
  PROVE  /\ Nw!Length(d) \in Nat
         /\ \A t \in Nw!Tasklets :
              /\ Nw!Chunks(d, t) \in Nat /\ Nw!StartOf(d, t) \in Nat
              /\ Nw!StartOf(d, t) + Nw!Chunks(d, t) <= Nw!Length(d)
         /\ \A g \in 0 .. Nw!Length(d) - 1 : \E t \in Nw!Tasklets :
              g - Nw!StartOf(d, t) \in 0 .. Nw!Chunks(d, t) - 1
<1> DEFINE len == Nw!Length(d)
           q == len \div NwN
           m == len % NwN
           S(x) == x * q + (IF x < m THEN x ELSE m)
<1>0. NwN \in Nat \ {0} /\ NwRep \in Nat \ {0} /\ d \in Int
  BY DEF Nw!Sized, Nw!LastDiag
<1>1. len \in Nat
  BY <1>0 DEF Nw!Length, Nw!First, Nw!Blk, Nw!LastDiag
<1>2. q \in Nat /\ m \in 0 .. NwN - 1 /\ len = NwN * q + m
  BY <1>0, <1>1, DivMod
<1>3. ASSUME NEW t \in Nw!Tasklets
      PROVE  /\ t \in 0 .. NwN - 1
             /\ Nw!Chunks(d, t) = q + (IF t < m THEN 1 ELSE 0)
             /\ Nw!StartOf(d, t) = S(t)
             /\ S(t) \in Nat
             /\ S(t + 1) = Nw!StartOf(d, t) + Nw!Chunks(d, t)
  <2>1. t \in 0 .. NwN - 1
    BY <1>3 DEF Nw!Tasklets
  <2>2. Nw!Chunks(d, t) = q + (IF t < m THEN 1 ELSE 0)
    BY DEF Nw!Chunks, Nw!Mod
  <2>3. Nw!Mod(d) = m
    BY DEF Nw!Mod
  <2> HIDE DEF q, m, len
  <2>4. Nw!StartOf(d, t) = S(t)
    <3>1. CASE m > 0 /\ t >= m
      <4>1. Nw!StartOf(d, t) = m * (q + 1) + (t - m) * q
        BY <2>1, <2>2, <2>3, <1>2, <3>1 DEF Nw!StartOf
      <4>2. m * (q + 1) + (t - m) * q = t * q + m
        BY <1>2, <2>1
      <4>3. QED
        BY <4>1, <4>2, <3>1, <1>2, <2>1
    <3>2. CASE t < m
      <4>1. Nw!StartOf(d, t) = t * (q + 1)
        BY <2>1, <2>2, <2>3, <1>2, <3>2 DEF Nw!StartOf
      <4>2. t * (q + 1) = t * q + t
        BY <1>2, <2>1
      <4>3. QED
        BY <4>1, <4>2, <3>2, <1>2, <2>1
    <3>3. CASE m = 0
      <4>1. Nw!StartOf(d, t) = t * q
        BY <2>1, <2>2, <2>3, <1>2, <3>3 DEF Nw!StartOf
      <4>2. t * q \in Nat
        BY <1>2, <2>1
      <4>3. QED
        BY <4>1, <4>2, <3>3, <1>2, <2>1
    <3>4. QED
      BY <1>2, <2>1, <3>1, <3>2, <3>3
  <2>5. t * q \in Nat /\ (t + 1) * q = t * q + q
    BY <1>2, <2>1
  <2>6. QED
    BY <1>2, <2>1, <2>2, <2>4, <2>5
<1>4. S(NwN) = len /\ S(0) = 0
  BY <1>0, <1>2
<1>5. ASSUME NEW t \in Nw!Tasklets PROVE S(t + 1) <= len
  <2>1. t + 1 \in Nat /\ t + 1 <= NwN /\ q \in Nat /\ NwN \in Nat
    BY <1>0, <1>2, <1>3
  <2> HIDE DEF q, m, len
  <2>2. (t + 1) * q <= NwN * q /\ (t + 1) * q \in Nat /\ NwN * q \in Nat
    BY <2>1, ProductsGrow
  <2>3. QED
    BY <1>2, <2>1, <2>2
<1>6. ASSUME NEW g \in 0 .. len - 1
      PROVE  \E t \in Nw!Tasklets : g - Nw!StartOf(d, t) \in 0 .. Nw!Chunks(d, t) - 1
  <2> DEFINE T == {x \in 0 .. NwN : S(x) <= g}
  <2>1. 0 \in T /\ T \in SUBSET Int /\ (\A x \in T : x <= NwN) /\ NwN \in Int
    BY <1>0, <1>4
  <2>2. PICK x \in T : \A y \in T : y <= x
    <3> HIDE DEF T
    <3>1. QED
      BY <2>1, Largest
  <2>3. x \in 0 .. NwN /\ S(x) <= g /\ x # NwN
    BY <2>2, <1>4, <1>1, <1>6
  <2>4. x \in Nw!Tasklets /\ x + 1 \in 0 .. NwN /\ ~ (x + 1 \in T)
    BY <2>2, <2>3, <1>0 DEF Nw!Tasklets
  <2>5. ~ (S(x + 1) <= g)
    BY <2>4
  <2>6. /\ Nw!StartOf(d, x) = S(x) /\ S(x) \in Nat /\ S(x + 1) = S(x) + Nw!Chunks(d, x)
        /\ Nw!Chunks(d, x) = q + (IF x < m THEN 1 ELSE 0)
    BY <1>3, <2>4
  <2> HIDE DEF S, q, m, len, T
  <2>7. g - Nw!StartOf(d, x) \in 0 .. Nw!Chunks(d, x) - 1
    BY <2>3, <2>5, <2>6, <1>1, <1>2, <1>6
  <2>8. QED
    BY <2>4, <2>7
<1> HIDE DEF S, q, m
<1>7. ASSUME NEW t \in Nw!Tasklets
      PROVE  /\ Nw!Chunks(d, t) \in Nat /\ Nw!StartOf(d, t) \in Nat
             /\ Nw!StartOf(d, t) + Nw!Chunks(d, t) <= len
  BY <1>2, <1>3, <1>5
<1>8. QED
  BY <1>1, <1>6, <1>7

\* What a tasklet is given of a diagonal are blocks of it, and every block of
\* it is given to a tasklet.
LEMMA NwBlocks ==
  ASSUME Nw!Sized, NEW d \in 0 .. Nw!LastDiag
  PROVE  /\ \A t \in Nw!Tasklets : \A k \in 0 .. Nw!Chunks(d, t) - 1 :
              Nw!BlockOf(d, t, k) \in Nw!Blocks /\ Nw!DiagOf(Nw!BlockOf(d, t, k)) = d
         /\ \A p \in Nw!Blocks : Nw!DiagOf(p) = d =>
              \E t \in Nw!Tasklets : \E k \in 0 .. Nw!Chunks(d, t) - 1 : p = Nw!BlockOf(d, t, k)
<1>0. NwRep \in Nat \ {0} /\ d \in Nat /\ d <= 2 * NwRep - 1
  BY DEF Nw!Sized, Nw!LastDiag
<1>1. ASSUME NEW t \in Nw!Tasklets, NEW k \in 0 .. Nw!Chunks(d, t) - 1
      PROVE  Nw!BlockOf(d, t, k) \in Nw!Blocks /\ Nw!DiagOf(Nw!BlockOf(d, t, k)) = d
  <2> DEFINE s == Nw!StartOf(d, t)
  <2>1. /\ s \in Nat /\ k \in Nat /\ s + k < Nw!Length(d)
    <3>1. Nw!Chunks(d, t) \in Nat /\ s \in Nat /\ s + Nw!Chunks(d, t) <= Nw!Length(d) /\ Nw!Length(d) \in Nat
      BY NwShares
    <3>2. QED
      BY <3>1
  <2>2. Nw!X(d, t, k) \in 0 .. NwRep - 1 /\ Nw!Y(d, t, k) = d - 1 - Nw!X(d, t, k) /\ Nw!Y(d, t, k) \in 0 .. NwRep - 1
    BY <1>0, <2>1 DEF Nw!X, Nw!Y, Nw!Length, Nw!Blk, Nw!First
  <2>3. QED
    BY <2>2, <1>0 DEF Nw!BlockOf, Nw!Blocks, Nw!DiagOf
<1>2. ASSUME NEW p \in Nw!Blocks, Nw!DiagOf(p) = d
      PROVE  \E t \in Nw!Tasklets : \E k \in 0 .. Nw!Chunks(d, t) - 1 : p = Nw!BlockOf(d, t, k)
  <2> DEFINE g == p[1] - (IF Nw!First(d) THEN 0 ELSE Nw!Blk(d) - 1)
  <2>1. p = <<p[1], p[2]>> /\ p[1] \in 0 .. NwRep - 1 /\ p[2] \in 0 .. NwRep - 1 /\ p[1] + p[2] + 1 = d
    BY <1>2 DEF Nw!Blocks, Nw!DiagOf
  <2>2. g \in 0 .. Nw!Length(d) - 1
    BY <1>0, <2>1 DEF Nw!Length, Nw!Blk, Nw!First
  <2>3. PICK t \in Nw!Tasklets : g - Nw!StartOf(d, t) \in 0 .. Nw!Chunks(d, t) - 1
    BY <2>2, NwShares
  <2>4. Nw!StartOf(d, t) \in Nat
    BY NwShares
  <2>5. p[1] = Nw!X(d, t, g - Nw!StartOf(d, t)) /\ p[2] = Nw!Y(d, t, g - Nw!StartOf(d, t))
    BY <1>0, <2>1, <2>4 DEF Nw!X, Nw!Y, Nw!Blk, Nw!First
  <2>6. QED
    BY <2>1, <2>3, <2>5 DEF Nw!BlockOf
<1>3. QED
  BY <1>1, <1>2

\* A cell is in one block.
LEMMA NwOneBlock ==
  ASSUME Nw!Sized, NEW c \in Nw!Cells, NEW p \in Nw!Blocks, NEW q \in Nw!Blocks,
         Nw!InBlock(p, c), Nw!InBlock(q, c)
  PROVE  p = q
<1>0. NwB \in Nat \ {0} /\ NwRep \in Nat \ {0}
  BY DEF Nw!Sized
<1>1. ASSUME NEW x \in Nat, NEW y \in Nat, NEW n \in Int, n - x * NwB \in 1 .. NwB, n - y * NwB \in 1 .. NwB
      PROVE  ~ (x < y)
  <2> SUFFICES ASSUME x < y PROVE FALSE
    OBVIOUS
  <2>1. x + 1 <= y /\ x + 1 \in Nat /\ (x + 1) * NwB = x * NwB + NwB
    BY <1>0
  <2>2. (x + 1) * NwB <= y * NwB /\ y * NwB \in Nat /\ x * NwB \in Nat
    BY <1>0, <2>1, ProductsGrow
  <2>3. QED
    BY <1>0, <1>1, <2>1, <2>2
<1>2. /\ p = <<p[1], p[2]>> /\ q = <<q[1], q[2]>>
      /\ p[1] \in Nat /\ p[2] \in Nat /\ q[1] \in Nat /\ q[2] \in Nat
  BY <1>0 DEF Nw!Blocks
<1>3. c[1] \in Int /\ c[2] \in Int
  BY <1>0 DEF Nw!Cells, Nw!Rows, Nw!Columns
<1>4. ~ (p[1] < q[1]) /\ ~ (q[1] < p[1])
  BY <1>1, <1>2, <1>3 DEF Nw!InBlock
<1>5. ~ (p[2] < q[2]) /\ ~ (q[2] < p[2])
  BY <1>1, <1>2, <1>3 DEF Nw!InBlock
<1>6. QED
  BY <1>2, <1>4, <1>5

\* A cell that is not on the border is in the block its indices divide to.
LEMMA NwSomeBlock ==
  ASSUME Nw!Sized, NEW c \in Nw!Cells, c[2] <= NwRep * NwB, ~ Nw!Border(c)
  PROVE  \E p \in Nw!Blocks : Nw!InBlock(p, c)
<1>0. NwB \in Nat \ {0} /\ NwRep \in Nat \ {0} /\ NwRep * NwB \in Nat
  BY DEF Nw!Sized
<1>1. c[1] \in 1 .. NwRep * NwB /\ c[2] \in 1 .. NwRep * NwB
  BY <1>0 DEF Nw!Cells, Nw!Rows, Nw!Columns, Nw!Border
<1>2. ASSUME NEW n \in 1 .. NwRep * NwB
      PROVE  \E x \in 0 .. NwRep - 1 : n - x * NwB \in 1 .. NwB
  <2> DEFINE x == (n - 1) \div NwB
             m == (n - 1) % NwB
  <2>0. n - 1 \in Nat
    BY <1>0
  <2>1. x \in Nat /\ m \in 0 .. NwB - 1 /\ n - 1 = NwB * x + m
    BY <1>0, <2>0, DivMod
  <2> HIDE DEF x, m
  <2>2. NwB * x = x * NwB /\ x * NwB \in Nat
    BY <1>0, <2>1
  <2>3. ASSUME NwRep <= x PROVE FALSE
    <3>1. NwRep * NwB <= x * NwB
      BY <1>0, <2>1, <2>3, ProductsGrow
    <3>2. QED
      BY <1>0, <2>1, <2>2, <3>1
  <2>4. x \in 0 .. NwRep - 1 /\ n - x * NwB \in 1 .. NwB
    BY <1>0, <2>1, <2>2, <2>3
  <2>5. QED
    BY <2>4
<1>3. PICK x \in 0 .. NwRep - 1 : c[1] - x * NwB \in 1 .. NwB
  BY <1>1, <1>2
<1>4. PICK y \in 0 .. NwRep - 1 : c[2] - y * NwB \in 1 .. NwB
  BY <1>1, <1>2
<1>5. <<x, y>> \in Nw!Blocks /\ Nw!InBlock(<<x, y>>, c)
  BY <1>3, <1>4 DEF Nw!Blocks, Nw!InBlock
<1>6. QED
  BY <1>5

\* The cells a tasklet copies are cells of the matrix.
LEMMA NwAt ==
  ASSUME Nw!Sized, Nw!TypeOK, NEW t \in Nw!Tasklets, idx[t] < Nw!Chunks(diag, t),
         NEW m \in Nw!InWram
  PROVE  /\ Nw!At(t, m[1], m[2]) \in Nw!Cells
         /\ Nw!At(t, m[1], m[2]) =
              <<Nw!BlockOf(diag, t, idx[t])[1] * NwB + m[1], Nw!BlockOf(diag, t, idx[t])[2] * NwB + m[2]>>
         /\ Nw!At(t, m[1], m[2]) # Nw!Junk
<1> DEFINE p == Nw!BlockOf(diag, t, idx[t])
<1>0. NwB \in Nat \ {0} /\ NwRep \in Nat \ {0} /\ NwRep * NwB \in Nat
  BY DEF Nw!Sized
<1>1. diag \in 0 .. Nw!LastDiag /\ idx[t] \in 0 .. Nw!Chunks(diag, t) - 1
  <2>1. diag \in 0 .. Nw!LastDiag /\ idx[t] \in Nat
    BY DEF Nw!TypeOK
  <2>2. Nw!Chunks(diag, t) \in Nat
    BY <2>1, NwShares
  <2>3. QED
    BY <2>1, <2>2
<1>2. p \in Nw!Blocks
  BY <1>1, NwBlocks
<1>3. Nw!At(t, m[1], m[2]) = <<p[1] * NwB + m[1], p[2] * NwB + m[2]>>
  BY DEF Nw!At, Nw!Corner, Nw!BlockOf
<1> HIDE DEF p
<1>4. p[1] \in 0 .. NwRep - 1 /\ p[2] \in 0 .. NwRep - 1
  BY <1>2 DEF Nw!Blocks
<1>5. m[1] \in 0 .. NwB /\ m[2] \in 0 .. NwB + 1
  BY DEF Nw!InWram
<1>6. ASSUME NEW x \in 0 .. NwRep - 1 PROVE x * NwB \in Nat /\ x * NwB + NwB <= NwRep * NwB
  <2>1. x + 1 \in Nat /\ x + 1 <= NwRep /\ (x + 1) * NwB = x * NwB + NwB /\ x * NwB \in Nat
    BY <1>0
  <2>2. (x + 1) * NwB <= NwRep * NwB
    BY <1>0, <2>1, ProductsGrow
  <2>3. QED
    BY <2>1, <2>2
<1>7. p[1] * NwB + m[1] \in 0 .. NwRep * NwB /\ p[2] * NwB + m[2] \in 0 .. NwRep * NwB + 1
  BY <1>0, <1>4, <1>5, <1>6
<1>8. Nw!At(t, m[1], m[2]) \in Nw!Cells
  BY <1>3, <1>7 DEF Nw!Cells, Nw!Rows, Nw!Columns
<1>9. <<p[1] * NwB + m[1], p[2] * NwB + m[2]>> # <<>>
  OBVIOUS
<1>10. QED
  BY <1>3, <1>8, <1>9 DEF Nw!Junk, p

\* Of what a tasklet reads, the cells it computes from are finished.
LEMMA NwNeighbours ==
  ASSUME Nw!Sized, Nw!TypeOK, NEW t \in Nw!Tasklets, idx[t] < Nw!Chunks(diag, t),
         NEW m \in Nw!InWram, m[2] = 0 \/ (m[1] = 0 /\ m[2] <= NwB)
  PROVE  Nw!Finished(Nw!At(t, m[1], m[2]))
<1> DEFINE p == Nw!BlockOf(diag, t, idx[t])
           c == Nw!At(t, m[1], m[2])
<1>0. NwB \in Nat \ {0} /\ NwRep \in Nat \ {0}
  BY DEF Nw!Sized
<1>1. diag \in 0 .. Nw!LastDiag /\ idx[t] \in 0 .. Nw!Chunks(diag, t) - 1
  <2>1. diag \in 0 .. Nw!LastDiag /\ idx[t] \in Nat
    BY DEF Nw!TypeOK
  <2>2. Nw!Chunks(diag, t) \in Nat
    BY <2>1, NwShares
  <2>3. QED
    BY <2>1, <2>2
<1>2. p \in Nw!Blocks /\ Nw!DiagOf(p) = diag
  BY <1>1, NwBlocks
<1>3. c = <<p[1] * NwB + m[1], p[2] * NwB + m[2]>>
  BY NwAt
<1> HIDE DEF p, c
<1>4. p[1] \in 0 .. NwRep - 1 /\ p[2] \in 0 .. NwRep - 1 /\ p[1] + p[2] + 1 = diag
  BY <1>2 DEF Nw!Blocks, Nw!DiagOf
<1>5. m[1] \in 0 .. NwB /\ m[2] \in 0 .. NwB
  BY <1>0 DEF Nw!InWram
\* The block a neighbour is in: one up, to the left, or both.
<1> DEFINE back(x, n) == IF n = 0 THEN x - 1 ELSE x
           q == <<back(p[1], m[1]), back(p[2], m[2])>>
<1>6. ASSUME NEW x \in 0 .. NwRep - 1, NEW n \in 0 .. NwB, ~ (x = 0 /\ n = 0)
      PROVE  /\ back(x, n) \in 0 .. NwRep - 1 /\ back(x, n) <= x
             /\ (x * NwB + n) - back(x, n) * NwB \in 1 .. NwB
  <2>1. (x - 1) * NwB = x * NwB - NwB /\ x * NwB \in Nat
    BY <1>0
  <2>2. QED
    BY <1>0, <1>6, <2>1
<1>7. CASE (p[1] = 0 /\ m[1] = 0) \/ (p[2] = 0 /\ m[2] = 0)
  <2>1. c[1] = 0 \/ c[2] = 0
    BY <1>0, <1>3, <1>7
  <2>2. QED
    BY <2>1 DEF Nw!Finished, Nw!Border, c
<1>8. CASE ~ (p[1] = 0 /\ m[1] = 0) /\ ~ (p[2] = 0 /\ m[2] = 0)
  <2>1. /\ back(p[1], m[1]) \in 0 .. NwRep - 1 /\ back(p[2], m[2]) \in 0 .. NwRep - 1
        /\ back(p[1], m[1]) <= p[1] /\ back(p[2], m[2]) <= p[2]
        /\ (p[1] * NwB + m[1]) - back(p[1], m[1]) * NwB \in 1 .. NwB
        /\ (p[2] * NwB + m[2]) - back(p[2], m[2]) * NwB \in 1 .. NwB
    BY <1>4, <1>5, <1>6, <1>8
  <2>2. back(p[1], m[1]) < p[1] \/ back(p[2], m[2]) < p[2]
    BY <1>4
  <2>3. q \in Nw!Blocks
    BY <2>1 DEF Nw!Blocks
  <2>4. Nw!InBlock(q, c)
    BY <1>3, <2>1 DEF Nw!InBlock
  <2>5. Nw!DiagOf(q) < diag
    BY <1>4, <2>1, <2>2 DEF Nw!DiagOf
  <2>6. QED
    BY <2>3, <2>4, <2>5 DEF Nw!Finished, Nw!CopiedBack, c
<1>9. QED
  BY <1>7, <1>8

\* A block computed in full from what was read is right, but for its last
\* column, which is copied back as it was.
LEMMA NwComputed ==
  ASSUME Nw!Sized, Nw!CacheOK, NEW t \in Nw!Tasklets, at[t] = "write",
         NEW m \in Nw!InWram, m[1] > 0
  PROVE  Nw!Computed(t)[m] = IF m[2] = NwB + 1 THEN Nw!Junk ELSE Nw!At(t, m[1], m[2])
<1> DEFINE Here(n) == Nw!At(t, n[1], n[2])
           Near(n) == {<<n[1] - 1, n[2] - 1>>, <<n[1], n[2] - 1>>, <<n[1] - 1, n[2]>>}
           Edge(n) == n[1] = 0 \/ n[2] \in {0, NwB + 1}
           Body(f, n) == IF Edge(n) THEN cache[t][n]
                         ELSE IF \A k \in Near(n) : f[k] = Here(k) THEN Here(n) ELSE Nw!Junk
           g == [n \in Nw!InWram |-> IF Edge(n) THEN cache[t][n] ELSE Here(n)]
<1>0. NwB \in Nat \ {0}
  BY DEF Nw!Sized
<1>1. ASSUME NEW n \in Nw!InWram
      PROVE  /\ n = <<n[1], n[2]>> /\ n[1] \in 0 .. NwB /\ n[2] \in 0 .. NwB + 1
             /\ n[2] <= NwB => g[n] = Here(n)
             /\ n[1] > 0 /\ n[2] = NwB + 1 => g[n] = Nw!Junk
  <2>1. n = <<n[1], n[2]>> /\ n[1] \in 0 .. NwB /\ n[2] \in 0 .. NwB + 1
    BY DEF Nw!InWram
  <2>2. CASE ~ Edge(n)
    BY <1>0, <2>1, <2>2
  <2>3. CASE n[2] = 0 \/ (n[1] = 0 /\ n[2] <= NwB)
    <3>1. cache[t][n] = Here(n)
      BY <2>3 DEF Nw!CacheOK
    <3>2. QED
      BY <1>0, <2>1, <2>3, <3>1
  <2>4. CASE n[2] = NwB + 1
    <3>1. n[1] > 0 => cache[t][n] = Nw!Junk
      BY <2>4 DEF Nw!CacheOK
    <3>2. QED
      BY <1>0, <2>1, <2>4, <3>1
  <2>5. QED
    BY <1>0, <2>1, <2>2, <2>3, <2>4
<1>2. ASSUME NEW n \in Nw!InWram, ~ Edge(n), NEW k \in Near(n)
      PROVE  k \in Nw!InWram /\ k[2] <= NwB /\ k[1] + k[2] < n[1] + n[2]
  <2>1. n[1] \in 1 .. NwB /\ n[2] \in 1 .. NwB
    BY <1>0, <1>1, <1>2
  <2>2. QED
    BY <1>0, <1>2, <2>1 DEF Nw!InWram
<1>3. g = [n \in Nw!InWram |-> Body(g, n)]
  <2>1. ASSUME NEW n \in Nw!InWram PROVE g[n] = Body(g, n)
    <3>1. CASE Edge(n)
      BY <3>1
    <3>2. CASE ~ Edge(n)
      <4>1. \A k \in Near(n) : g[k] = Here(k)
        BY <1>1, <1>2, <3>2
      <4>2. g[n] = Here(n)
        BY <3>2
      <4> HIDE DEF g, Near, Here, Edge
      <4>3. QED
        BY <3>2, <4>1, <4>2
    <3>3. QED
      BY <3>1, <3>2
  <2>2. g = [n \in Nw!InWram |-> g[n]]
    OBVIOUS
  <2> HIDE DEF Body, g
  <2>3. QED
    BY <2>1, <2>2
<1> DEFINE v == CHOOSE f : f = [n \in Nw!InWram |-> Body(f, n)]
<1>4. Nw!Computed(t) = v
  BY DEF Nw!Computed
<1>5. v = [n \in Nw!InWram |-> Body(v, n)]
  <2> HIDE DEF Body, g
  <2>1. QED
    BY <1>3
<1>6. ASSUME NEW n \in Nw!InWram, v[n] # g[n] PROVE FALSE
  <2> DEFINE Bad == {s \in Nat : \E k \in Nw!InWram : s = k[1] + k[2] /\ v[k] # g[k]}
  <2> HIDE DEF v, g
  <2>1. n[1] + n[2] \in Bad
    BY <1>0, <1>1, <1>6
  <2>2. PICK s \in Bad : \A u \in Bad : s <= u
    <3> HIDE DEF Bad
    <3>1. Bad \in SUBSET Nat
      BY DEF Bad
    <3>2. QED
      BY <2>1, <3>1, Least
  <2>3. PICK k \in Nw!InWram : s = k[1] + k[2] /\ v[k] # g[k] /\ s \in Nat
    BY <2>2
  <2>4. ASSUME ~ Edge(k), NEW l \in Near(k) PROVE v[l] = g[l]
    <3>1. l \in Nw!InWram /\ l[1] + l[2] < s
      BY <1>2, <2>3, <2>4
    <3>2. l[1] + l[2] \in Nat
      BY <1>0, <1>1, <3>1
    <3>3. l[1] + l[2] \notin Bad
      BY <2>2, <2>3, <3>1, <3>2
    <3>4. QED
      BY <3>1, <3>2, <3>3
  <2>5. v[k] = Body(v, k) /\ g[k] = Body(g, k)
    <3> HIDE DEF Body
    <3>1. QED
      BY <1>3, <1>5, <2>3
  <2>6. Body(v, k) = Body(g, k)
    <3> HIDE DEF Edge, Near, Here
    <3>1. QED
      BY <2>4
  <2>7. QED
    BY <2>3, <2>5, <2>6
<1>7. v[m] = g[m]
  BY <1>6
<1> HIDE DEF v, g
<1>8. QED
  BY <1>0, <1>1, <1>4, <1>7

\* Finished cells are not of a later diagonal.
LEMMA NwApart ==
  ASSUME Nw!Sized, Nw!TypeOK, NEW c \in Nw!Cells, Nw!Finished(c)
  PROVE  ~ Nw!Later(c)
<1> SUFFICES ASSUME NEW q \in Nw!Blocks, Nw!InBlock(q, c), Nw!DiagOf(q) > diag PROVE FALSE
  BY DEF Nw!Later
<1>0. NwB \in Nat \ {0} /\ NwRep \in Nat \ {0} /\ diag \in Nat /\ q[1] * NwB \in Nat /\ q[2] * NwB \in Nat
  BY DEF Nw!Sized, Nw!TypeOK, Nw!Blocks
<1>1. ~ Nw!Border(c)
  BY <1>0 DEF Nw!Border, Nw!InBlock
<1>2. PICK p \in Nw!Blocks : Nw!InBlock(p, c) /\ Nw!CopiedBack(p, c)
  BY <1>1 DEF Nw!Finished
<1>3. p = q
  BY <1>2, NwOneBlock
<1>4. ASSUME NEW t \in Nw!Tasklets, NEW k \in Nat PROVE Nw!DiagOf(Nw!BlockOf(diag, t, k)) = diag
  <2>1. Nw!StartOf(diag, t) \in Nat
    <3>1. diag \in 0 .. Nw!LastDiag
      BY DEF Nw!TypeOK
    <3>2. QED
      BY <3>1, NwShares
  <2>2. Nw!X(diag, t, k) \in Int
    BY <1>0, <2>1 DEF Nw!X, Nw!Blk
  <2>3. QED
    BY <1>0, <2>2 DEF Nw!BlockOf, Nw!DiagOf, Nw!Y, Nw!Blk
<1>5. idx \in [Nw!Tasklets -> Nat]
  BY DEF Nw!TypeOK
<1>6. CASE Nw!DiagOf(p) < diag
  <2>1. Nw!DiagOf(q) \in Int
    BY <1>0 DEF Nw!DiagOf, Nw!Blocks
  <2>2. QED
    BY <1>0, <1>3, <1>6, <2>1
<1>7. CASE \E t \in Nw!Tasklets : \E k \in Nat : p = Nw!BlockOf(diag, t, k)
  BY <1>0, <1>3, <1>4, <1>7
<1>8. QED
  BY <1>2, <1>5, <1>6, <1>7 DEF Nw!CopiedBack

\* Nothing of the padding is finished, nor of a later diagonal.
LEMMA NwPadding ==
  ASSUME Nw!Sized, NEW c \in Nw!Cells, c[2] > NwRep * NwB
  PROVE  ~ (\E p \in Nw!Blocks : Nw!InBlock(p, c))
<1> SUFFICES ASSUME NEW p \in Nw!Blocks, Nw!InBlock(p, c) PROVE FALSE
  OBVIOUS
<1>0. NwB \in Nat \ {0} /\ NwRep \in Nat \ {0} /\ p[2] \in 0 .. NwRep - 1 /\ NwRep * NwB \in Nat
  BY DEF Nw!Sized, Nw!Blocks
<1>1. p[2] + 1 \in Nat /\ p[2] + 1 <= NwRep /\ (p[2] + 1) * NwB = p[2] * NwB + NwB /\ p[2] * NwB \in Nat
  BY <1>0
<1>2. (p[2] + 1) * NwB <= NwRep * NwB
  BY <1>0, <1>1, ProductsGrow
<1>3. c[2] \in Int
  BY <1>0 DEF Nw!Cells, Nw!Columns
<1>4. QED
  BY <1>0, <1>1, <1>2, <1>3 DEF Nw!InBlock

\* Where all tasklets are, by where one of them is.
LEMMA NwModes ==
  ASSUME Nw!Sized, Nw!TypeOK, Nw!ControlOK, NEW t \in Nw!Tasklets
  PROVE  /\ 0 \in Nw!Tasklets
         /\ at[t] \in Nw!Waiting => \A s \in Nw!Tasklets : at[s] \in Nw!Waiting
         /\ at[t] \in Nw!Running => /\ \A s \in Nw!Tasklets : at[s] \in Nw!Running
                                    /\ bl \in 0 .. size - 1 /\ size > 0 /\ bl < size
                                    /\ matrix \in [0 .. size - 1 -> [Nw!Cells -> Nw!Cells \cup {Nw!Junk}]]
<1>1. 0 \in Nw!Tasklets
  BY DEF Nw!Sized, Nw!Tasklets
<1>2. bl \in Nat /\ size \in Nat
  BY DEF Nw!TypeOK
<1>3. at[t] \in Nw!Waiting => \A s \in Nw!Tasklets : at[s] \in Nw!Waiting
  BY DEF Nw!ControlOK, Nw!Waiting, Nw!Running
<1>4. at[t] \in Nw!Running => (\A s \in Nw!Tasklets : at[s] \in Nw!Running) /\ bl < size
  BY DEF Nw!ControlOK, Nw!Waiting, Nw!Running
<1>5. at[t] \in Nw!Running => bl \in 0 .. size - 1 /\ size > 0
  BY <1>2, <1>4
<1>6. at[t] \in Nw!Running => matrix \in [0 .. size - 1 -> [Nw!Cells -> Nw!Cells \cup {Nw!Junk}]]
  BY <1>5 DEF Nw!TypeOK
<1>7. QED
  BY <1>1, <1>3, <1>4, <1>5, <1>6

LEMMA NwInit ==
  ASSUME Nw!Sized, Nw!Init
  PROVE  Nw!MatrixInv
<1>0. NwN \in Nat \ {0} /\ NwRep \in Nat \ {0} /\ NwB \in Nat \ {0} /\ 0 \in Nw!Tasklets
  BY DEF Nw!Sized, Nw!Tasklets
<1>1. Nw!TypeOK
  BY <1>0 DEF Nw!Init, Nw!TypeOK, Nw!Waiting, Nw!LastDiag
<1>2. Nw!ControlOK
  BY <1>0 DEF Nw!Init, Nw!ControlOK, Nw!Waiting
<1>3. Nw!MatrixOK
  BY <1>0 DEF Nw!Init, Nw!MatrixOK, Nw!Running
<1>4. Nw!CacheOK
  BY <1>0 DEF Nw!Init, Nw!CacheOK
<1>5. QED
  BY <1>1, <1>2, <1>3, <1>4 DEF Nw!MatrixInv

\* Between jobs.
LEMMA NwWaits ==
  ASSUME Nw!Sized, Nw!MatrixInv, Nw!Fetch \/ Nw!GoToHost \/ \E t \in Nw!Tasklets : Nw!Park(t)
  PROVE  Nw!MatrixInv'
<1> USE DEF Nw!MatrixInv
<1>0. 0 \in Nw!Tasklets /\ NwRep \in Nat \ {0} /\ NwB \in Nat \ {0}
  BY DEF Nw!Sized, Nw!Tasklets
<1>1. PICK u \in Nw!Tasklets : /\ at[u] \in Nw!Waiting
                               /\ at' = [at EXCEPT ![u] = at'[u]] /\ at'[u] \in Nw!Waiting
                               /\ u # 0 => at'[u] = "fetched"
  BY <1>0 DEF Nw!TypeOK, Nw!Fetch, Nw!HostAnswers, Nw!GoToHost, Nw!Park, Nw!Goto, Nw!Waiting
<1>2. /\ at \in [Nw!Tasklets -> Nw!Waiting \cup Nw!Running \cup {"end"}]
      /\ \A s \in Nw!Tasklets : at[s] \in Nw!Waiting
  BY <1>1, NwModes DEF Nw!TypeOK
<1>3. at' \in [Nw!Tasklets -> Nw!Waiting]
  BY <1>1, <1>2
<1>4. UNCHANGED <<bl, diag, idx, row, cache>>
  BY DEF Nw!Fetch, Nw!HostAnswers, Nw!GoToHost, Nw!Park, Nw!control
<1>5. \/ UNCHANGED <<cmd, job, size, matrix>>
      \/ cmd' = "exit" /\ UNCHANGED <<job, size, matrix>>
      \/ cmd' = "run" /\ job' = job + 1 /\ size' \in Nat
         /\ matrix' \in [0 .. size' - 1 -> [Nw!Cells -> Nw!Cells \cup {Nw!Junk}]]
  <2>1. CASE Nw!Fetch
    <3>1. CASE job < NwJobs
      <4>1. PICK s \in NwSizes : /\ size' = s
                 /\ matrix' = [b \in 0 .. s - 1 |->
                              [c \in Nw!Cells |-> IF Nw!Border(c) THEN c ELSE Nw!Junk]]
        BY <2>1, <3>1 DEF Nw!Fetch, Nw!HostAnswers
      <4>2. s \in Nat
        BY DEF Nw!Sized
      <4>3. cmd' = "run" /\ job' = job + 1
        BY <2>1, <3>1 DEF Nw!Fetch, Nw!HostAnswers
      <4>4. QED
        BY <4>1, <4>2, <4>3
    <3>2. CASE ~ (job < NwJobs)
      BY <2>1, <3>2 DEF Nw!Fetch, Nw!HostAnswers
    <3>3. QED
      BY <3>1, <3>2
  <2>2. CASE ~ Nw!Fetch
    BY <2>2 DEF Nw!GoToHost, Nw!Park, Nw!control
  <2>3. QED
    BY <2>1, <2>2
<1>6. phase' \in {0, 1}
  BY DEF Nw!TypeOK, Nw!Fetch, Nw!GoToHost, Nw!Park, Nw!control
<1>7. Nw!TypeOK'
  BY <1>3, <1>4, <1>5, <1>6 DEF Nw!TypeOK
<1>8. Nw!ControlOK'
  <2>1. ASSUME NEW s \in Nw!Tasklets, s # 0 PROVE at'[s] # "host"
    BY <1>1, <1>2, <2>1 DEF Nw!ControlOK, Nw!Waiting
  <2>2. at'[0] = "fetched" => cmd' \in {"run", "exit"}
    <3>1. CASE Nw!Fetch
      BY <3>1 DEF Nw!Fetch, Nw!HostAnswers
    <3>2. CASE ~ Nw!Fetch
      <4>1. at'[0] = "fetched" => at[0] = "fetched"
        BY <1>0, <1>2, <3>2 DEF Nw!GoToHost, Nw!Park, Nw!Goto, Nw!control
      <4>2. cmd' = cmd
        BY <3>2 DEF Nw!GoToHost, Nw!Park, Nw!control
      <4>3. QED
        BY <4>1, <4>2 DEF Nw!ControlOK
    <3>3. QED
      BY <3>1, <3>2
  <2>3. QED
    BY <1>3, <2>1, <2>2 DEF Nw!ControlOK, Nw!Waiting
<1>9. Nw!MatrixOK'
  <2>1. at'[0] \notin Nw!Running
    BY <1>0, <1>3 DEF Nw!Waiting, Nw!Running
  <2>2. CASE Nw!Fetch
    <3>1. at'[0] = "fetched"
      BY <1>0, <1>2, <2>2 DEF Nw!Fetch, Nw!HostAnswers, Nw!Goto
    <3>2. ASSUME cmd' = "run" PROVE \A b \in 0 .. size' - 1 : Nw!Fresh(b)'
      <4>1. PICK s \in NwSizes : /\ size' = s
                 /\ matrix' = [b \in 0 .. s - 1 |->
                              [c \in Nw!Cells |-> IF Nw!Border(c) THEN c ELSE Nw!Junk]]
        BY <2>2, <3>2 DEF Nw!Fetch, Nw!HostAnswers
      <4>2. \A c \in Nw!Cells : c # Nw!Junk
        BY DEF Nw!Cells, Nw!Junk
      <4>3. QED
        BY <4>1, <4>2 DEF Nw!Fresh
    <3>3. QED
      BY <2>1, <3>1, <3>2 DEF Nw!MatrixOK
  <2>3. CASE ~ Nw!Fetch
    <3>1. /\ at'[0] \in {"park", "host"} => at[0] \in {"park", "host"}
          /\ at'[0] = "fetched" => at[0] = "fetched"
      BY <1>0, <1>2, <2>3 DEF Nw!GoToHost, Nw!Park, Nw!Goto, Nw!control
    <3>2. UNCHANGED <<cmd, size, matrix>>
      BY <2>3 DEF Nw!GoToHost, Nw!Park, Nw!control
    <3>3. \A b \in 0 .. size - 1 : (Nw!Complete(b)' <=> Nw!Complete(b)) /\ (Nw!Fresh(b)' <=> Nw!Fresh(b))
      BY <3>2 DEF Nw!Complete, Nw!Fresh
    <3>4. QED
      BY <2>1, <3>1, <3>2, <3>3 DEF Nw!MatrixOK
  <2>4. QED
    BY <2>2, <2>3
<1>10. Nw!CacheOK'
  BY <1>3, <1>4 DEF Nw!CacheOK, Nw!Waiting
<1>11. QED
  BY <1>7, <1>8, <1>9, <1>10

\* A matrix on its first diagonal: only the borders are there.
LEMMA NwStarts ==
  ASSUME Nw!Sized, Nw!Fresh(bl)', diag' = 0, idx' = [t \in Nw!Tasklets |-> 0],
         \A t \in Nw!Tasklets : at'[t] # "write", NEW c \in Nw!Cells
  PROVE  /\ Nw!Finished(c)' => matrix'[bl'][c] = c
         /\ Nw!Later(c)' => matrix'[bl'][c] # c
<1>0. NwB \in Nat \ {0} /\ NwRep \in Nat \ {0}
  BY DEF Nw!Sized
<1>1. ASSUME NEW p \in Nw!Blocks PROVE ~ Nw!CopiedBack(p, c)'
  <2>1. Nw!DiagOf(p) >= 0
    BY <1>0 DEF Nw!DiagOf, Nw!Blocks
  <2>2. Nw!DiagOf(p) \in Int
    BY <1>0 DEF Nw!DiagOf, Nw!Blocks
  <2>3. QED
    BY <2>1, <2>2 DEF Nw!CopiedBack
<1>2. Nw!Finished(c)' => Nw!Border(c)
  BY <1>1 DEF Nw!Finished
<1>3. ASSUME NEW p \in Nw!Blocks, Nw!InBlock(p, c) PROVE ~ Nw!Border(c)
  <2>1. p[1] * NwB \in Nat /\ p[2] * NwB \in Nat
    BY <1>0 DEF Nw!Blocks
  <2>2. QED
    BY <1>0, <1>3, <2>1 DEF Nw!Border, Nw!InBlock
<1>4. Nw!Later(c)' => ~ Nw!Border(c)
  BY <1>3 DEF Nw!Later
<1>5. QED
  BY <1>2, <1>4 DEF Nw!Fresh

LEMMA NwJobStarts ==
  ASSUME Nw!Sized, Nw!MatrixInv, Nw!StartJob
  PROVE  Nw!MatrixInv'
<1> USE DEF Nw!MatrixInv
<1>0. 0 \in Nw!Tasklets /\ NwRep \in Nat \ {0} /\ NwB \in Nat \ {0} /\ size \in Nat
  BY DEF Nw!Sized, Nw!Tasklets, Nw!TypeOK
<1> DEFINE l == IF cmd = "exit" THEN "end" ELSE IF size = 0 THEN "park" ELSE "block"
<1>1. /\ at[0] = "fetched" /\ at' = [t \in Nw!Tasklets |-> l]
      /\ bl' = 0 /\ diag' = 0 /\ idx' = [t \in Nw!Tasklets |-> 0]
      /\ UNCHANGED <<cmd, phase, job, size, row, cache, matrix>>
  BY <1>0 DEF Nw!StartJob, Nw!Barrier
<1>2. l = "end" \/ (l = "park" /\ size = 0) \/ (l = "block" /\ size > 0 /\ cmd = "run")
  BY <1>0, <1>1 DEF Nw!ControlOK
<1> HIDE DEF l
<1>3. Nw!TypeOK'
  <2>1. l \in {"end", "park", "block"}
    BY <1>2
  <2>2. 0 \in 0 .. Nw!LastDiag
    BY <1>0 DEF Nw!LastDiag
  <2>3. QED
    BY <1>1, <2>1, <2>2 DEF Nw!TypeOK, Nw!Waiting, Nw!Running
<1>4. Nw!ControlOK'
  BY <1>0, <1>1, <1>2 DEF Nw!ControlOK, Nw!Waiting, Nw!Running
<1>5. Nw!CacheOK'
  BY <1>1, <1>2 DEF Nw!CacheOK
<1>6. Nw!MatrixOK'
  <2>1. CASE l = "end" \/ (l = "park" /\ size = 0)
    <3>1. at'[0] = l
      BY <1>0, <1>1
    <3>2. QED
      BY <1>1, <2>1, <3>1 DEF Nw!MatrixOK, Nw!Running
  <2>2. CASE l = "block" /\ size > 0 /\ cmd = "run"
    <3>1. at'[0] = "block"
      BY <1>0, <1>1, <2>2
    <3>2. \A b \in 0 .. size - 1 : Nw!Fresh(b)
      BY <1>1, <2>2 DEF Nw!MatrixOK
    <3>3. \A b \in 0 .. size - 1 : Nw!Fresh(b)'
      BY <1>1, <3>2 DEF Nw!Fresh
    <3>4. Nw!Fresh(bl)'
      <4>1. Nw!Fresh(0)'
        BY <1>0, <2>2, <3>3
      <4>2. QED
        BY <1>1, <4>1 DEF Nw!Fresh
    <3>5. \A t \in Nw!Tasklets : at'[t] # "write"
      BY <1>1, <2>2
    <3>6. \A c \in Nw!Cells : /\ Nw!Finished(c)' => matrix'[bl'][c] = c
                              /\ Nw!Later(c)' => matrix'[bl'][c] # c
      BY <1>1, <3>4, <3>5, NwStarts
    <3>7. (\A b \in 0 .. bl' - 1 : Nw!Complete(b)') /\ (\A b \in bl' + 1 .. size' - 1 : Nw!Fresh(b)')
      BY <1>0, <1>1, <3>3
    <3>8. QED
      BY <3>1, <3>6, <3>7 DEF Nw!MatrixOK
  <2>3. QED
    BY <1>2, <2>1, <2>2
<1>7. QED
  BY <1>3, <1>4, <1>5, <1>6

\* The blocks of the diagonal are all done when everybody is at the barrier.
LEMMA NwDiagonalEnds ==
  ASSUME Nw!Sized, Nw!MatrixInv, \A t \in Nw!Tasklets : at[t] = "barrier",
         NEW p \in Nw!Blocks, Nw!DiagOf(p) <= diag, NEW c
  PROVE  Nw!CopiedBack(p, c)
<1>0. diag \in 0 .. Nw!LastDiag /\ Nw!DiagOf(p) \in Int /\ diag \in Int
  BY DEF Nw!MatrixInv, Nw!TypeOK, Nw!DiagOf, Nw!Blocks, Nw!Sized
<1>1. CASE Nw!DiagOf(p) < diag
  BY <1>1 DEF Nw!CopiedBack
<1>2. CASE Nw!DiagOf(p) = diag
  <2>1. PICK t \in Nw!Tasklets : \E k \in 0 .. Nw!Chunks(diag, t) - 1 : p = Nw!BlockOf(diag, t, k)
    BY <1>0, <1>2, NwBlocks
  <2>2. PICK k \in 0 .. Nw!Chunks(diag, t) - 1 : p = Nw!BlockOf(diag, t, k)
    BY <2>1
  <2>3. idx[t] >= Nw!Chunks(diag, t) /\ idx[t] \in Nat
    BY DEF Nw!MatrixInv, Nw!ControlOK, Nw!TypeOK
  <2>4. Nw!Chunks(diag, t) \in Nat
    BY <1>0, NwShares
  <2>5. k \in 0 .. idx[t] - 1
    BY <2>3, <2>4
  <2>6. QED
    BY <2>2, <2>5 DEF Nw!CopiedBack
<1>3. QED
  BY <1>0, <1>1, <1>2

LEMMA NwDiagonals ==
  ASSUME Nw!Sized, Nw!MatrixInv, Nw!NextDiagonal
  PROVE  Nw!MatrixInv'
<1> USE DEF Nw!MatrixInv
<1>0. 0 \in Nw!Tasklets /\ NwRep \in Nat \ {0} /\ NwB \in Nat \ {0} /\ diag \in 0 .. Nw!LastDiag
  BY DEF Nw!Sized, Nw!Tasklets, Nw!TypeOK
<1> DEFINE l == IF diag < Nw!LastDiag \/ bl + 1 < size THEN "block" ELSE "park"
<1>1. /\ \A t \in Nw!Tasklets : at[t] = "barrier"
      /\ at' = [t \in Nw!Tasklets |-> l]
      /\ bl' = (IF diag < Nw!LastDiag THEN bl ELSE bl + 1)
      /\ diag' = (IF diag < Nw!LastDiag THEN diag + 1 ELSE 0)
      /\ idx' = [t \in Nw!Tasklets |-> 0]
      /\ UNCHANGED <<cmd, phase, job, size, row, cache, matrix>>
  BY DEF Nw!NextDiagonal, Nw!Barrier
<1>2. /\ at[0] \in Nw!Running /\ bl \in 0 .. size - 1 /\ size \in Nat /\ Nw!LastDiag \in Nat
      /\ l \in {"block", "park"}
  <2>1. at[0] \in Nw!Running
    BY <1>0, <1>1 DEF Nw!Running
  <2>2. bl \in 0 .. size - 1
    BY <1>0, <2>1, NwModes
  <2>3. QED
    BY <1>0, <2>1, <2>2 DEF Nw!TypeOK, Nw!LastDiag
<1> HIDE DEF l
<1>3. Nw!TypeOK'
  <2>1. bl' \in Nat /\ diag' \in 0 .. Nw!LastDiag
    BY <1>0, <1>1, <1>2
  <2>2. QED
    BY <1>1, <1>2, <2>1 DEF Nw!TypeOK, Nw!Waiting, Nw!Running
<1>4. Nw!ControlOK'
  <2>1. l = "block" => bl' < size'
    BY <1>0, <1>1, <1>2 DEF l
  <2>2. QED
    BY <1>0, <1>1, <1>2, <2>1 DEF Nw!ControlOK, Nw!Waiting, Nw!Running
<1>5. Nw!CacheOK'
  BY <1>1, <1>2 DEF Nw!CacheOK
<1>6. at'[0] = l
  BY <1>0, <1>1
<1>7. /\ \A b \in 0 .. bl - 1 : Nw!Complete(b)
      /\ \A b \in bl + 1 .. size - 1 : Nw!Fresh(b)
      /\ \A c \in Nw!Cells : Nw!Finished(c) => matrix[bl][c] = c
      /\ \A c \in Nw!Cells : Nw!Later(c) => matrix[bl][c] # c
  BY <1>2 DEF Nw!MatrixOK
<1>8. \A b \in Nat : (Nw!Complete(b)' <=> Nw!Complete(b)) /\ (Nw!Fresh(b)' <=> Nw!Fresh(b))
  BY <1>1 DEF Nw!Complete, Nw!Fresh
<1>9. CASE diag < Nw!LastDiag
  <2>1. l = "block" /\ bl' = bl /\ diag' = diag + 1
    BY <1>1, <1>9 DEF l
  <2>2. ASSUME NEW c \in Nw!Cells, Nw!Finished(c)' PROVE Nw!Finished(c)
    <3>1. CASE Nw!Border(c)
      BY <3>1 DEF Nw!Finished
    <3>2. CASE ~ Nw!Border(c)
      <4>1. PICK p \in Nw!Blocks : Nw!InBlock(p, c) /\ Nw!CopiedBack(p, c)'
        BY <2>2, <3>2 DEF Nw!Finished
      <4>2. Nw!DiagOf(p) < diag + 1
        BY <1>1, <2>1, <4>1 DEF Nw!CopiedBack
      <4>3. Nw!DiagOf(p) \in Int /\ diag \in Int
        BY <1>0 DEF Nw!DiagOf, Nw!Blocks
      <4>4. Nw!CopiedBack(p, c)
        BY <1>1, <4>2, <4>3, NwDiagonalEnds
      <4>5. QED
        BY <4>1, <4>4 DEF Nw!Finished
    <3>3. QED
      BY <3>1, <3>2
  <2>3. ASSUME NEW c \in Nw!Cells, Nw!Later(c)' PROVE Nw!Later(c)
    <3>1. PICK p \in Nw!Blocks : Nw!InBlock(p, c) /\ Nw!DiagOf(p) > diag + 1
      BY <2>1, <2>3 DEF Nw!Later
    <3>2. Nw!DiagOf(p) > diag
      BY <1>0, <3>1 DEF Nw!DiagOf, Nw!Blocks
    <3>3. QED
      BY <3>1, <3>2 DEF Nw!Later
  <2>4. /\ \A c \in Nw!Cells : Nw!Finished(c)' => matrix'[bl'][c] = c
        /\ \A c \in Nw!Cells : Nw!Later(c)' => matrix'[bl'][c] # c
    BY <1>1, <1>7, <2>1, <2>2, <2>3
  <2>5. /\ \A b \in 0 .. bl' - 1 : Nw!Complete(b)'
        /\ \A b \in bl' + 1 .. size' - 1 : Nw!Fresh(b)'
    BY <1>1, <1>2, <1>7, <1>8, <2>1
  <2>6. Nw!MatrixOK'
    BY <1>6, <2>1, <2>4, <2>5 DEF Nw!MatrixOK
  <2>7. QED
    BY <1>3, <1>4, <1>5, <2>6
<1>10. CASE ~ (diag < Nw!LastDiag)
  <2>1. diag = Nw!LastDiag /\ bl' = bl + 1 /\ diag' = 0
    BY <1>0, <1>1, <1>2, <1>10
  <2>2. Nw!Complete(bl)
    <3> SUFFICES ASSUME NEW c \in Nw!Cells, c[2] <= NwRep * NwB, ~ Nw!Border(c) PROVE Nw!Finished(c)
      BY <1>7 DEF Nw!Complete, Nw!Finished
    <3>1. PICK p \in Nw!Blocks : Nw!InBlock(p, c)
      BY NwSomeBlock
    <3>2. Nw!DiagOf(p) <= diag
      BY <1>0, <2>1 DEF Nw!DiagOf, Nw!Blocks, Nw!LastDiag
    <3>3. Nw!CopiedBack(p, c)
      BY <1>1, <3>2, NwDiagonalEnds
    <3>4. QED
      BY <3>1, <3>3 DEF Nw!Finished
  <2>3. \A b \in 0 .. bl : Nw!Complete(b)'
    BY <1>2, <1>7, <1>8, <2>2
  <2>4. CASE bl + 1 < size
    <3>1. l = "block"
      BY <2>4 DEF l
    <3>2. bl + 1 \in bl + 1 .. size - 1 /\ bl + 1 \in Nat
      BY <1>2, <2>4
    <3>3. Nw!Fresh(bl + 1)
      BY <1>7, <3>2
    <3>4. Nw!Fresh(bl)'
      BY <1>1, <2>1, <3>3 DEF Nw!Fresh
    <3>5. \A c \in Nw!Cells : /\ Nw!Finished(c)' => matrix'[bl'][c] = c
                              /\ Nw!Later(c)' => matrix'[bl'][c] # c
      BY <1>1, <2>1, <3>1, <3>4, NwStarts
    <3>6. /\ \A b \in 0 .. bl' - 1 : Nw!Complete(b)'
          /\ \A b \in bl' + 1 .. size' - 1 : Nw!Fresh(b)'
      BY <1>1, <1>2, <1>7, <1>8, <2>1, <2>3
    <3>7. Nw!MatrixOK'
      BY <1>6, <3>1, <3>5, <3>6 DEF Nw!MatrixOK
    <3>8. QED
      BY <1>3, <1>4, <1>5, <3>7
  <2>5. CASE ~ (bl + 1 < size)
    <3>1. l = "park"
      BY <1>10, <2>5 DEF l
    <3>2. \A b \in 0 .. size' - 1 : Nw!Complete(b)'
      BY <1>1, <1>2, <2>3, <2>5
    <3>3. Nw!MatrixOK'
      BY <1>6, <3>1, <3>2 DEF Nw!MatrixOK, Nw!Running
    <3>4. QED
      BY <1>3, <1>4, <1>5, <3>3
  <2>6. QED
    BY <2>4, <2>5
<1>11. QED
  BY <1>9, <1>10

LEMMA NwTakesBlock ==
  ASSUME Nw!Sized, Nw!MatrixInv, NEW t \in Nw!Tasklets, Nw!Block(t)
  PROVE  Nw!MatrixInv'
<1> USE DEF Nw!MatrixInv
<1>0. 0 \in Nw!Tasklets /\ NwB \in Nat \ {0} /\ idx[t] \in Nat /\ Nw!Chunks(diag, t) \in Nat
  <2>1. diag \in 0 .. Nw!LastDiag
    BY DEF Nw!TypeOK
  <2>2. Nw!Chunks(diag, t) \in Nat
    BY <2>1, NwShares
  <2>3. QED
    BY <2>2 DEF Nw!Sized, Nw!Tasklets, Nw!TypeOK
<1>1. /\ at[t] = "block" /\ at' = [at EXCEPT ![t] = at'[t]]
      /\ \/ idx[t] < Nw!Chunks(diag, t) /\ row' = [row EXCEPT ![t] = 0] /\ at'[t] = "read"
         \/ idx[t] >= Nw!Chunks(diag, t) /\ UNCHANGED row /\ at'[t] = "barrier"
      /\ UNCHANGED <<cmd, phase, job, size, bl, diag, idx, cache, matrix>>
  BY <1>0 DEF Nw!Block, Nw!Goto, Nw!control, Nw!TypeOK
<1>2. /\ \A s \in Nw!Tasklets : at[s] \in Nw!Running
      /\ bl \in 0 .. size - 1 /\ bl < size
  BY <1>1, NwModes DEF Nw!Running
<1>3. \A s \in Nw!Tasklets : s # t => at'[s] = at[s] /\ row'[s] = row[s]
  BY <1>1 DEF Nw!TypeOK
<1>4. Nw!TypeOK'
  <2>1. row \in [Nw!Tasklets -> 0 .. NwB] /\ 0 \in 0 .. NwB
    BY <1>0 DEF Nw!TypeOK
  <2>2. row' \in [Nw!Tasklets -> 0 .. NwB]
    BY <1>1, <2>1
  <2>3. at' \in [Nw!Tasklets -> Nw!Waiting \cup Nw!Running \cup {"end"}]
    BY <1>1 DEF Nw!TypeOK, Nw!Running
  <2>4. QED
    BY <1>1, <2>2, <2>3 DEF Nw!TypeOK
<1>5. Nw!ControlOK'
  <2>1. \A s \in Nw!Tasklets : at'[s] \in Nw!Running
    BY <1>1, <1>2, <1>3 DEF Nw!Running
  <2>2. \A s \in Nw!Tasklets :
          /\ at'[s] \in {"read", "write"} => idx[s] < Nw!Chunks(diag, s)
          /\ at'[s] = "write" => row'[s] > 0
          /\ at'[s] = "barrier" => idx[s] >= Nw!Chunks(diag, s)
    BY <1>1, <1>3 DEF Nw!ControlOK
  <2>3. bl < size /\ at'[0] # "fetched" /\ \A s \in Nw!Tasklets : at'[s] # "host"
    BY <1>0, <1>2, <2>1 DEF Nw!Running
  <2>4. QED
    BY <1>1, <2>1, <2>2, <2>3 DEF Nw!ControlOK
<1>6. Nw!CacheOK'
  <2> SUFFICES ASSUME NEW s \in Nw!Tasklets, NEW m \in Nw!InWram
               PROVE  /\ m[1] > 0 /\ m[2] = NwB + 1 => cache[s][m] = Nw!Junk
                      /\ /\ at'[s] = "write" \/ (at'[s] = "read" /\ m[1] < row'[s])
                         /\ m[2] = 0 \/ (m[1] = 0 /\ m[2] <= NwB)
                         => cache[s][m] = Nw!At(s, m[1], m[2])'
    BY <1>1 DEF Nw!CacheOK
  <2>1. Nw!At(s, m[1], m[2])' = Nw!At(s, m[1], m[2])
    BY <1>1 DEF Nw!At, Nw!Corner
  <2>2. CASE s # t
    BY <1>3, <2>1, <2>2 DEF Nw!CacheOK
  <2>3. CASE s = t
    <3>1. ~ (at'[t] = "write" \/ (at'[t] = "read" /\ m[1] < row'[t]))
      BY <1>1 DEF Nw!InWram, Nw!TypeOK
    <3>2. QED
      BY <2>3, <3>1 DEF Nw!CacheOK
  <2>4. QED
    BY <2>2, <2>3
<1>7. Nw!MatrixOK'
  <2>1. at'[0] \in Nw!Running /\ at[0] \in Nw!Running
    BY <1>0, <1>1, <1>2, <1>3 DEF Nw!Running
  <2>2. \A p \in Nw!Blocks, c \in Nw!Cells : Nw!CopiedBack(p, c)' => Nw!CopiedBack(p, c)
    BY <1>1, <1>3 DEF Nw!CopiedBack
  <2>3. \A c \in Nw!Cells : (Nw!Finished(c)' => Nw!Finished(c)) /\ (Nw!Later(c)' <=> Nw!Later(c))
    BY <1>1, <2>2 DEF Nw!Finished, Nw!Later
  <2>4. \A b \in Nat : (Nw!Complete(b)' <=> Nw!Complete(b)) /\ (Nw!Fresh(b)' <=> Nw!Fresh(b))
    BY <1>1 DEF Nw!Complete, Nw!Fresh
  <2>5. bl \in Nat /\ size \in Nat
    BY DEF Nw!TypeOK
  <2>6. (\A b \in 0 .. bl - 1 : Nw!Complete(b)') /\ (\A b \in bl + 1 .. size - 1 : Nw!Fresh(b)')
    BY <2>1, <2>4, <2>5 DEF Nw!MatrixOK
  <2>7. /\ \A c \in Nw!Cells : Nw!Finished(c)' => matrix'[bl'][c] = c
        /\ \A c \in Nw!Cells : Nw!Later(c)' => matrix'[bl'][c] # c
    BY <1>1, <2>1, <2>3 DEF Nw!MatrixOK
  <2>8. at'[0] \notin {"park", "host", "fetched"}
    BY <2>1 DEF Nw!Running
  <2>9. QED
    BY <1>1, <2>6, <2>7, <2>8 DEF Nw!MatrixOK
<1>8. QED
  BY <1>4, <1>5, <1>6, <1>7

LEMMA NwReads ==
  ASSUME Nw!Sized, Nw!MatrixInv, NEW t \in Nw!Tasklets, Nw!Read(t)
  PROVE  Nw!MatrixInv'
<1> USE DEF Nw!MatrixInv
<1> DEFINE width == IF row[t] = 0 THEN NwB + 1 ELSE 1
<1>0. 0 \in Nw!Tasklets /\ NwB \in Nat \ {0} /\ idx[t] \in Nat /\ row[t] \in 0 .. NwB
  BY DEF Nw!Sized, Nw!Tasklets, Nw!TypeOK
<1>1. /\ at[t] = "read" /\ at' = [at EXCEPT ![t] = at'[t]] /\ row' = [row EXCEPT ![t] = row'[t]]
      /\ \/ row[t] < NwB /\ row'[t] = row[t] + 1 /\ at'[t] = "read"
         \/ row[t] = NwB /\ row'[t] = 1 /\ at'[t] = "write"
      /\ UNCHANGED <<cmd, phase, job, size, bl, diag, idx, matrix>>
  BY <1>0 DEF Nw!Read, Nw!Goto, Nw!control, Nw!TypeOK
<1>2. /\ \A s \in Nw!Tasklets : at[s] \in Nw!Running
      /\ bl \in 0 .. size - 1 /\ size > 0 /\ bl < size
      /\ matrix \in [0 .. size - 1 -> [Nw!Cells -> Nw!Cells \cup {Nw!Junk}]]
  BY <1>1, NwModes DEF Nw!Running
<1>3. \A s \in Nw!Tasklets : s # t => at'[s] = at[s] /\ row'[s] = row[s] /\ cache'[s] = cache[s]
  BY <1>1 DEF Nw!TypeOK, Nw!Read
<1>4. /\ DOMAIN cache[t] = Nw!InWram
      /\ cache' = [cache EXCEPT ![t] = [c \in Nw!InWram |->
           IF c[1] = row[t] /\ c[2] <= width THEN matrix[bl][Nw!At(t, c[1], c[2])] ELSE cache[t][c]]]
      /\ \A m \in Nw!InWram : cache'[t][m] =
           IF m[1] = row[t] /\ m[2] <= width THEN matrix[bl][Nw!At(t, m[1], m[2])] ELSE cache[t][m]
  BY DEF Nw!TypeOK, Nw!Read
<1>5. idx[t] < Nw!Chunks(diag, t)
  BY <1>1 DEF Nw!ControlOK
<1>6. Nw!TypeOK'
  <2>1. \A m \in Nw!InWram : cache'[t][m] \in Nw!Cells \cup {Nw!Junk}
    BY <1>2, <1>4, <1>5, NwAt DEF Nw!TypeOK
  <2>2. cache' \in [Nw!Tasklets -> [Nw!InWram -> Nw!Cells \cup {Nw!Junk}]]
    <3> DEFINE new == [c \in Nw!InWram |->
           IF c[1] = row[t] /\ c[2] <= width THEN matrix[bl][Nw!At(t, c[1], c[2])] ELSE cache[t][c]]
    <3>1. \A m \in Nw!InWram : new[m] = cache'[t][m]
      BY <1>4
    <3>2. new \in [Nw!InWram -> Nw!Cells \cup {Nw!Junk}]
      BY <2>1, <3>1
    <3>3. cache' = [cache EXCEPT ![t] = new]
      BY <1>4
    <3> HIDE DEF new
    <3>4. QED
      BY <3>2, <3>3 DEF Nw!TypeOK
  <2>3. row' \in [Nw!Tasklets -> 0 .. NwB]
    <3>1. row'[t] \in 0 .. NwB
      BY <1>0, <1>1
    <3>2. row \in [Nw!Tasklets -> 0 .. NwB]
      BY DEF Nw!TypeOK
    <3>3. QED
      BY <1>1, <3>1, <3>2
  <2>4. at' \in [Nw!Tasklets -> Nw!Waiting \cup Nw!Running \cup {"end"}]
    BY <1>1 DEF Nw!TypeOK, Nw!Running
  <2>5. QED
    BY <1>1, <2>2, <2>3, <2>4 DEF Nw!TypeOK
<1>7. Nw!ControlOK'
  <2>1. \A s \in Nw!Tasklets : at'[s] \in Nw!Running
    BY <1>1, <1>2, <1>3 DEF Nw!Running
  <2>2. \A s \in Nw!Tasklets :
          /\ at'[s] \in {"read", "write"} => idx[s] < Nw!Chunks(diag, s)
          /\ at'[s] = "write" => row'[s] > 0
          /\ at'[s] = "barrier" => idx[s] >= Nw!Chunks(diag, s)
    BY <1>1, <1>3, <1>5 DEF Nw!ControlOK
  <2>3. bl < size /\ at'[0] # "fetched" /\ \A s \in Nw!Tasklets : at'[s] # "host"
    BY <1>0, <1>2, <2>1 DEF Nw!Running
  <2>4. QED
    BY <1>1, <2>1, <2>2, <2>3 DEF Nw!ControlOK
<1>8. Nw!CacheOK'
  <2> SUFFICES ASSUME NEW s \in Nw!Tasklets, NEW m \in Nw!InWram
               PROVE  /\ m[1] > 0 /\ m[2] = NwB + 1 => cache'[s][m] = Nw!Junk
                      /\ /\ at'[s] = "write" \/ (at'[s] = "read" /\ m[1] < row'[s])
                         /\ m[2] = 0 \/ (m[1] = 0 /\ m[2] <= NwB)
                         => cache'[s][m] = Nw!At(s, m[1], m[2])'
    BY DEF Nw!CacheOK
  <2>1. Nw!At(s, m[1], m[2])' = Nw!At(s, m[1], m[2])
    BY <1>1 DEF Nw!At, Nw!Corner
  <2>2. CASE s # t
    BY <1>3, <2>1, <2>2 DEF Nw!CacheOK
  <2>3. CASE s = t
    <3>0. m[1] \in 0 .. NwB /\ m[2] \in 0 .. NwB + 1
      BY DEF Nw!InWram
    <3>1. m[1] > 0 /\ m[2] = NwB + 1 => cache'[t][m] = Nw!Junk
      <4>1. m[1] > 0 /\ m[2] = NwB + 1 => ~ (m[1] = row[t] /\ m[2] <= width)
        BY <1>0, <3>0
      <4>2. QED
        BY <1>4, <4>1 DEF Nw!CacheOK
    <3>2. ASSUME at'[t] = "write" \/ (at'[t] = "read" /\ m[1] < row'[t]),
                 m[2] = 0 \/ (m[1] = 0 /\ m[2] <= NwB)
          PROVE  cache'[t][m] = Nw!At(t, m[1], m[2])
      <4>1. m[1] < row[t] \/ m[1] = row[t]
        BY <1>0, <1>1, <3>0, <3>2
      <4>2. CASE m[1] < row[t]
        <5>1. cache'[t][m] = cache[t][m]
          BY <1>0, <1>4, <3>0, <4>2
        <5>2. QED
          BY <1>1, <3>2, <4>2, <5>1 DEF Nw!CacheOK
      <4>3. CASE m[1] = row[t]
        <5>1. m[2] <= width
          BY <1>0, <3>0, <3>2, <4>3
        <5>2. cache'[t][m] = matrix[bl][Nw!At(t, m[1], m[2])]
          BY <1>4, <4>3, <5>1
        <5>3. Nw!Finished(Nw!At(t, m[1], m[2])) /\ Nw!At(t, m[1], m[2]) \in Nw!Cells
          BY <1>5, <3>2, NwNeighbours, NwAt
        <5>4. QED
          BY <1>0, <1>2, <5>2, <5>3 DEF Nw!MatrixOK
      <4>4. QED
        BY <4>1, <4>2, <4>3
    <3>3. QED
      BY <2>1, <2>3, <3>1, <3>2
  <2>4. QED
    BY <2>2, <2>3
<1>9. Nw!MatrixOK'
  <2>1. at'[0] \in Nw!Running /\ at[0] \in Nw!Running
    BY <1>0, <1>1, <1>2, <1>3 DEF Nw!Running
  <2>2. ASSUME NEW p \in Nw!Blocks, NEW c \in Nw!Cells, Nw!InBlock(p, c), Nw!CopiedBack(p, c)'
        PROVE  Nw!CopiedBack(p, c)
    <3>1. ~ (c[1] - p[1] * NwB < 1)
      BY <2>2, <1>0 DEF Nw!InBlock
    <3>2. ~ (at'[t] = "write" /\ c[1] - p[1] * NwB < row'[t])
      BY <1>1, <3>1
    <3>3. QED
      BY <1>1, <1>3, <2>2, <3>2 DEF Nw!CopiedBack
  <2>3. \A c \in Nw!Cells : (Nw!Finished(c)' => Nw!Finished(c)) /\ (Nw!Later(c)' <=> Nw!Later(c))
    BY <1>1, <2>2 DEF Nw!Finished, Nw!Later
  <2>4. \A b \in Nat : (Nw!Complete(b)' <=> Nw!Complete(b)) /\ (Nw!Fresh(b)' <=> Nw!Fresh(b))
    BY <1>1 DEF Nw!Complete, Nw!Fresh
  <2>5. bl \in Nat /\ size \in Nat
    BY DEF Nw!TypeOK
  <2>6. (\A b \in 0 .. bl - 1 : Nw!Complete(b)') /\ (\A b \in bl + 1 .. size - 1 : Nw!Fresh(b)')
    BY <2>1, <2>4, <2>5 DEF Nw!MatrixOK
  <2>7. /\ \A c \in Nw!Cells : Nw!Finished(c)' => matrix'[bl'][c] = c
        /\ \A c \in Nw!Cells : Nw!Later(c)' => matrix'[bl'][c] # c
    BY <1>1, <2>1, <2>3 DEF Nw!MatrixOK
  <2>8. at'[0] \notin {"park", "host", "fetched"}
    BY <2>1 DEF Nw!Running
  <2>9. QED
    BY <1>1, <2>6, <2>7, <2>8 DEF Nw!MatrixOK
<1>10. QED
  BY <1>6, <1>7, <1>8, <1>9

\* What copying a row back does to a cell: it is left alone, or it gets its
\* value, or it is a cell beside the block, which nothing needs yet.
LEMMA NwWritten ==
  ASSUME Nw!Sized, Nw!MatrixInv, NEW t \in Nw!Tasklets, Nw!Write(t), NEW c \in Nw!Cells,
         NEW p, p = Nw!BlockOf(diag, t, idx[t])
  PROVE  \/ matrix'[bl][c] = matrix[bl][c] /\ ~ (Nw!InBlock(p, c) /\ c[1] - p[1] * NwB = row[t])
         \/ matrix'[bl][c] = c /\ ~ Nw!Later(c)
         \/ /\ matrix'[bl][c] = Nw!Junk /\ ~ Nw!Finished(c) /\ ~ Nw!InBlock(p, c)
            /\ c[2] > NwRep * NwB \/ Nw!Later(c)
<1> USE DEF Nw!MatrixInv
<1> DEFINE r == row[t]
           j == c[2] - Nw!Corner(t)[2] + 0
<1>0. /\ NwB \in Nat \ {0} /\ NwRep \in Nat \ {0} /\ NwRep * NwB \in Nat
      /\ diag \in 0 .. Nw!LastDiag /\ diag \in Nat /\ idx[t] \in Nat /\ r \in 0 .. NwB
  BY DEF Nw!Sized, Nw!TypeOK, Nw!LastDiag
<1>1. at[t] = "write" /\ idx[t] < Nw!Chunks(diag, t) /\ r > 0
  BY DEF Nw!Write, Nw!CopyBack, Nw!ControlOK
<1>2. p \in Nw!Blocks /\ Nw!DiagOf(p) = diag
  <2>1. Nw!Chunks(diag, t) \in Nat
    BY <1>0, NwShares
  <2>2. idx[t] \in 0 .. Nw!Chunks(diag, t) - 1
    BY <1>0, <1>1, <2>1
  <2>3. QED
    BY <1>0, <2>2, NwBlocks
<1>3. Nw!Corner(t) = <<p[1] * NwB, p[2] * NwB>>
  BY DEF Nw!Corner, Nw!BlockOf
<1>4. /\ p[1] \in 0 .. NwRep - 1 /\ p[2] \in 0 .. NwRep - 1 /\ p[1] + p[2] + 1 = diag
      /\ p[1] * NwB \in Nat /\ p[2] * NwB \in Nat
  BY <1>0, <1>2 DEF Nw!Blocks, Nw!DiagOf
<1>5. c = <<c[1], c[2]>> /\ c[1] \in Nat /\ c[2] \in 0 .. NwRep * NwB + 1
  BY <1>0 DEF Nw!Cells, Nw!Rows, Nw!Columns
<1>6. matrix'[bl][c] = IF c[1] = p[1] * NwB + r /\ j \in 0 .. NwB + 1
                       THEN Nw!Computed(t)[<<r, j>>] ELSE matrix[bl][c]
  <2>1. /\ bl \in 0 .. size - 1
        /\ matrix \in [0 .. size - 1 -> [Nw!Cells -> Nw!Cells \cup {Nw!Junk}]]
    BY <1>1, NwModes DEF Nw!Running
  <2>2. matrix'[bl] = [d \in Nw!Cells |->
          LET k == d[2] - Nw!Corner(t)[2] + 0
          IN  IF d[1] = Nw!Corner(t)[1] + row[t] /\ k \in 0 .. NwB + 1
              THEN Nw!Computed(t)[<<row[t], k>>] ELSE matrix[bl][d]]
    BY <2>1 DEF Nw!Write, Nw!CopyBack
  <2>3. QED
    BY <1>3, <2>2
<1>7. j = c[2] - p[2] * NwB
  BY <1>3, <1>4, <1>5
<1> HIDE DEF j, r
<1>8. CASE ~ (c[1] = p[1] * NwB + r /\ j \in 0 .. NwB + 1)
  <2>1. ~ (Nw!InBlock(p, c) /\ c[1] - p[1] * NwB = r)
    BY <1>0, <1>4, <1>5, <1>7, <1>8 DEF Nw!InBlock
  <2>2. QED
    BY <1>6, <1>8, <2>1 DEF r
<1>9. CASE c[1] = p[1] * NwB + r /\ j \in 0 .. NwB
  <2>1. <<r, j>> \in Nw!InWram /\ r > 0 /\ j # NwB + 1 /\ j \in 0 .. NwB + 1
    BY <1>0, <1>1, <1>9 DEF Nw!InWram
  <2>2. Nw!Computed(t)[<<r, j>>] = Nw!At(t, r, j)
    BY <1>1, <2>1, NwComputed
  <2>3. Nw!At(t, r, j) = <<p[1] * NwB + r, p[2] * NwB + j>>
    BY <1>1, <2>1, NwAt
  <2>4. p[2] * NwB + j = c[2]
    BY <1>4, <1>5, <1>7
  <2>5. Nw!At(t, r, j) = c
    BY <1>5, <1>9, <2>3, <2>4
  <2>6. ~ Nw!Later(c)
    <3>1. CASE j = 0
      <4>1. Nw!Finished(Nw!At(t, r, j))
        BY <1>1, <2>1, <3>1, NwNeighbours
      <4>2. QED
        BY <2>5, <4>1, NwApart
    <3>2. CASE j # 0
      <4>1. Nw!InBlock(p, c)
        BY <1>0, <1>4, <1>5, <1>7, <1>9, <2>1, <3>2 DEF Nw!InBlock
      <4>2. \A q \in Nw!Blocks : Nw!InBlock(q, c) => q = p
        BY <1>2, <4>1, NwOneBlock
      <4>3. QED
        BY <1>0, <1>2, <4>2 DEF Nw!Later
    <3>3. QED
      BY <3>1, <3>2
  <2>7. QED
    BY <1>6, <1>9, <2>1, <2>2, <2>5, <2>6
<1>10. CASE c[1] = p[1] * NwB + r /\ j = NwB + 1
  <2>1. <<r, j>> \in Nw!InWram /\ r > 0 /\ j \in 0 .. NwB + 1
    BY <1>0, <1>1, <1>10 DEF Nw!InWram
  <2>2. Nw!Computed(t)[<<r, j>>] = Nw!Junk
    BY <1>1, <1>10, <2>1, NwComputed
  <2>3. c[2] = p[2] * NwB + NwB + 1 /\ c[1] - p[1] * NwB \in 1 .. NwB
    <3>1. \A a, x, y, n \in Int : (x = a + y => x - a = y) /\ (x - a = n + 1 => x = a + n + 1)
      OBVIOUS
    <3>2. c[2] - p[2] * NwB = NwB + 1
      BY <1>7, <1>10
    <3>3. c[1] \in Int /\ c[2] \in Int /\ p[1] * NwB \in Int /\ p[2] * NwB \in Int /\ NwB \in Int /\ r \in Int
      BY <1>0, <1>4, <1>5
    <3>4. c[2] = p[2] * NwB + NwB + 1 /\ c[1] - p[1] * NwB = r
      BY <1>10, <3>1, <3>2, <3>3
    <3>5. r \in 1 .. NwB
      BY <1>0, <2>1
    <3>6. QED
      BY <3>4, <3>5
  <2>4. ~ Nw!InBlock(p, c)
    BY <1>0, <1>4, <2>3 DEF Nw!InBlock
  <2>5. CASE p[2] = NwRep - 1
    <3>1. p[2] * NwB + NwB = NwRep * NwB
      BY <1>0, <2>5
    <3>2. c[2] > NwRep * NwB
      BY <1>0, <2>3, <3>1
    <3>3. ~ Nw!Border(c)
      BY <1>0, <1>4, <1>5, <2>3 DEF Nw!Border
    <3>4. ~ Nw!Finished(c)
      BY <3>2, <3>3, NwPadding DEF Nw!Finished
    <3>5. QED
      BY <1>6, <1>10, <2>1, <2>2, <2>4, <3>2, <3>4
  <2>6. CASE p[2] # NwRep - 1
    <3> DEFINE q == <<p[1], p[2] + 1>>
    <3>1. q \in Nw!Blocks /\ Nw!DiagOf(q) = diag + 1
      BY <1>0, <1>4, <2>6 DEF Nw!Blocks, Nw!DiagOf
    <3>2. (p[2] + 1) * NwB = p[2] * NwB + NwB
      BY <1>0, <1>4
    <3>3. Nw!InBlock(q, c)
      <4>1. \A a, x, n \in Int : x = a + n + 1 => x - (a + n) = 1
        OBVIOUS
      <4>2. c[2] \in Int /\ p[2] * NwB \in Int /\ NwB \in Int /\ 1 \in 1 .. NwB
        BY <1>0, <1>4, <1>5
      <4>3. c[2] - q[2] * NwB = 1
        BY <2>3, <3>2, <4>1, <4>2
      <4>4. QED
        BY <2>3, <4>2, <4>3 DEF Nw!InBlock
    <3>4. Nw!Later(c)
      BY <1>0, <3>1, <3>3 DEF Nw!Later
    <3>5. ~ Nw!Finished(c)
      BY <3>4, NwApart
    <3>6. QED
      BY <1>6, <1>10, <2>1, <2>2, <2>4, <3>4, <3>5
  <2>7. QED
    BY <2>5, <2>6
<1>11. j \in 0 .. NwB + 1 => j \in 0 .. NwB \/ j = NwB + 1
  BY <1>0
<1>12. QED
  BY <1>8, <1>9, <1>10, <1>11

LEMMA NwWrites ==
  ASSUME Nw!Sized, Nw!MatrixInv, NEW t \in Nw!Tasklets, Nw!Write(t)
  PROVE  Nw!MatrixInv'
<1> USE DEF Nw!MatrixInv
<1> DEFINE p == Nw!BlockOf(diag, t, idx[t])
<1>0. 0 \in Nw!Tasklets /\ NwB \in Nat \ {0} /\ idx[t] \in Nat /\ row[t] \in 0 .. NwB
  BY DEF Nw!Sized, Nw!Tasklets, Nw!TypeOK
<1>1. /\ at[t] = "write" /\ at' = [at EXCEPT ![t] = at'[t]] /\ row' = [row EXCEPT ![t] = row'[t]]
      /\ idx' = [idx EXCEPT ![t] = idx'[t]]
      /\ \/ row[t] < NwB /\ row'[t] = row[t] + 1 /\ at'[t] = "write" /\ idx'[t] = idx[t]
         \/ row[t] = NwB /\ row'[t] = row[t] /\ at'[t] = "block" /\ idx'[t] = idx[t] + 1
      /\ UNCHANGED <<cmd, phase, job, size, bl, diag, cache>>
  BY <1>0 DEF Nw!Write, Nw!CopyBack, Nw!Goto, Nw!control, Nw!TypeOK
<1>2. /\ \A s \in Nw!Tasklets : at[s] \in Nw!Running
      /\ bl \in 0 .. size - 1 /\ size > 0 /\ bl < size
      /\ matrix \in [0 .. size - 1 -> [Nw!Cells -> Nw!Cells \cup {Nw!Junk}]]
  BY <1>1, NwModes DEF Nw!Running
<1>3. \A s \in Nw!Tasklets : s # t => at'[s] = at[s] /\ row'[s] = row[s] /\ idx'[s] = idx[s]
  BY <1>1 DEF Nw!TypeOK
<1>4. matrix' = [matrix EXCEPT ![bl] = matrix'[bl]]
  BY <1>2 DEF Nw!Write, Nw!CopyBack
<1>5. idx[t] < Nw!Chunks(diag, t) /\ row[t] > 0
  BY <1>1 DEF Nw!ControlOK
<1>6. \A c \in Nw!Cells :
         \/ matrix'[bl][c] = matrix[bl][c] /\ ~ (Nw!InBlock(p, c) /\ c[1] - p[1] * NwB = row[t])
         \/ matrix'[bl][c] = c /\ ~ Nw!Later(c)
         \/ /\ matrix'[bl][c] = Nw!Junk /\ ~ Nw!Finished(c) /\ ~ Nw!InBlock(p, c)
            /\ c[2] > NwRep * NwB \/ Nw!Later(c)
  BY NwWritten
<1> HIDE DEF p
<1>7. Nw!TypeOK'
  <2>1. matrix'[bl] \in [Nw!Cells -> Nw!Cells \cup {Nw!Junk}]
    <3>1. matrix'[bl] = [c \in Nw!Cells |-> matrix'[bl][c]]
      BY <1>2 DEF Nw!Write, Nw!CopyBack
    <3>2. \A c \in Nw!Cells : matrix'[bl][c] \in Nw!Cells \cup {Nw!Junk}
      BY <1>2, <1>6
    <3>3. QED
      BY <3>1, <3>2
  <2>2. matrix' \in [0 .. size - 1 -> [Nw!Cells -> Nw!Cells \cup {Nw!Junk}]]
    BY <1>2, <1>4, <2>1
  <2>3. row' \in [Nw!Tasklets -> 0 .. NwB]
    <3>1. row'[t] \in 0 .. NwB
      BY <1>0, <1>1
    <3>2. row \in [Nw!Tasklets -> 0 .. NwB]
      BY DEF Nw!TypeOK
    <3>3. QED
      BY <1>1, <3>1, <3>2
  <2>4. idx' \in [Nw!Tasklets -> Nat]
    <3>1. idx'[t] \in Nat
      BY <1>0, <1>1
    <3>2. QED
      BY <1>1, <3>1 DEF Nw!TypeOK
  <2>5. at' \in [Nw!Tasklets -> Nw!Waiting \cup Nw!Running \cup {"end"}]
    BY <1>1 DEF Nw!TypeOK, Nw!Running
  <2>6. QED
    BY <1>1, <2>2, <2>3, <2>4, <2>5 DEF Nw!TypeOK
<1>8. Nw!ControlOK'
  <2>1. \A s \in Nw!Tasklets : at'[s] \in Nw!Running
    BY <1>1, <1>2, <1>3 DEF Nw!Running
  <2>2. \A s \in Nw!Tasklets :
          /\ at'[s] \in {"read", "write"} => idx'[s] < Nw!Chunks(diag, s)
          /\ at'[s] = "write" => row'[s] > 0
          /\ at'[s] = "barrier" => idx'[s] >= Nw!Chunks(diag, s)
    BY <1>0, <1>1, <1>3, <1>5 DEF Nw!ControlOK
  <2>3. bl < size /\ at'[0] # "fetched" /\ \A s \in Nw!Tasklets : at'[s] # "host"
    BY <1>0, <1>2, <2>1 DEF Nw!Running
  <2>4. QED
    BY <1>1, <2>1, <2>2, <2>3 DEF Nw!ControlOK
<1>9. Nw!CacheOK'
  <2> SUFFICES ASSUME NEW s \in Nw!Tasklets, NEW m \in Nw!InWram
               PROVE  /\ m[1] > 0 /\ m[2] = NwB + 1 => cache[s][m] = Nw!Junk
                      /\ /\ at'[s] = "write" \/ (at'[s] = "read" /\ m[1] < row'[s])
                         /\ m[2] = 0 \/ (m[1] = 0 /\ m[2] <= NwB)
                         => cache[s][m] = Nw!At(s, m[1], m[2])'
    BY <1>1 DEF Nw!CacheOK
  <2>1. idx'[s] = idx[s] => Nw!At(s, m[1], m[2])' = Nw!At(s, m[1], m[2])
    BY <1>1 DEF Nw!At, Nw!Corner
  <2>2. at'[s] \in {"read", "write"} => idx'[s] = idx[s] /\ at[s] = at'[s] /\ (at[s] = "read" => row'[s] = row[s])
    BY <1>1, <1>3
  <2>3. QED
    BY <2>1, <2>2 DEF Nw!CacheOK
<1>10. Nw!MatrixOK'
  <2>1. at'[0] \in Nw!Running /\ at[0] \in Nw!Running
    BY <1>0, <1>1, <1>2, <1>3 DEF Nw!Running
  <2>2. ASSUME NEW q \in Nw!Blocks, NEW c \in Nw!Cells, Nw!InBlock(q, c), Nw!CopiedBack(q, c)'
        PROVE  Nw!CopiedBack(q, c) \/ (q = p /\ c[1] - q[1] * NwB = row[t])
    <3>0. c[1] - q[1] * NwB \in 1 .. NwB
      BY <2>2 DEF Nw!InBlock
    <3>1. CASE Nw!DiagOf(q) < diag
      BY <3>1 DEF Nw!CopiedBack
    <3>2. CASE \E s \in Nw!Tasklets : \E k \in 0 .. idx'[s] - 1 : q = Nw!BlockOf(diag, s, k)
      <4>1. PICK s \in Nw!Tasklets : \E k \in 0 .. idx'[s] - 1 : q = Nw!BlockOf(diag, s, k)
        BY <3>2
      <4>2. PICK k \in 0 .. idx'[s] - 1 : q = Nw!BlockOf(diag, s, k)
        BY <4>1
      <4>3. CASE k \in 0 .. idx[s] - 1
        BY <4>2, <4>3 DEF Nw!CopiedBack
      <4>4. CASE k \notin 0 .. idx[s] - 1
        <5>1. s = t
          BY <1>3, <4>2, <4>4
        <5>2. k = idx[t] /\ row[t] = NwB
          BY <1>0, <1>1, <4>2, <4>4, <5>1
        <5>3. q = p
          BY <4>2, <5>1, <5>2 DEF p
        <5>4. c[1] - q[1] * NwB < row[t] \/ c[1] - q[1] * NwB = row[t]
          BY <1>0, <3>0, <5>2
        <5>5. QED
          BY <1>1, <5>3, <5>4 DEF Nw!CopiedBack, p
      <4>5. QED
        BY <4>3, <4>4
    <3>3. CASE \E s \in Nw!Tasklets : /\ at'[s] = "write" /\ q = Nw!BlockOf(diag, s, idx'[s])
                                      /\ c[1] - q[1] * NwB < row'[s]
      <4>1. PICK s \in Nw!Tasklets : /\ at'[s] = "write" /\ q = Nw!BlockOf(diag, s, idx'[s])
                                     /\ c[1] - q[1] * NwB < row'[s]
        BY <3>3
      <4>2. CASE s # t
        BY <1>3, <4>1, <4>2 DEF Nw!CopiedBack
      <4>3. CASE s = t
        <5>1. q = p /\ row'[t] = row[t] + 1
          BY <1>1, <4>1, <4>3 DEF p
        <5>2. c[1] - q[1] * NwB < row[t] \/ c[1] - q[1] * NwB = row[t]
          BY <1>0, <3>0, <4>1, <4>3, <5>1
        <5>3. QED
          BY <1>1, <5>1, <5>2 DEF Nw!CopiedBack, p
      <4>4. QED
        BY <4>2, <4>3
    <3>4. QED
      BY <1>1, <2>2, <3>1, <3>2, <3>3 DEF Nw!CopiedBack
  <2>3. ASSUME NEW c \in Nw!Cells, Nw!Finished(c)' PROVE matrix'[bl][c] = c
    <3>1. CASE Nw!Finished(c)
      <4>1. matrix[bl][c] = c
        BY <2>1, <3>1 DEF Nw!MatrixOK
      <4>2. QED
        BY <1>6, <3>1, <4>1
    <3>2. CASE ~ Nw!Finished(c)
      <4>1. PICK q \in Nw!Blocks : Nw!InBlock(q, c) /\ Nw!CopiedBack(q, c)'
        BY <2>3, <3>2 DEF Nw!Finished
      <4>2. Nw!InBlock(p, c) /\ c[1] - p[1] * NwB = row[t]
        BY <2>2, <3>2, <4>1 DEF Nw!Finished
      <4>3. QED
        BY <1>6, <4>2
    <3>3. QED
      BY <3>1, <3>2
  <2>4. ASSUME NEW c \in Nw!Cells, Nw!Later(c)' PROVE matrix'[bl][c] # c
    <3>1. Nw!Later(c)
      BY <1>1, <2>4 DEF Nw!Later
    <3>2. matrix[bl][c] # c /\ c # Nw!Junk
      <4>1. c # <<>>
        BY DEF Nw!Cells
      <4>2. QED
        BY <2>1, <3>1, <4>1 DEF Nw!MatrixOK, Nw!Junk
    <3>3. QED
      BY <1>6, <3>1, <3>2
  <2>5. bl \in Nat /\ size \in Nat
    BY DEF Nw!TypeOK
  <2>6. \A b \in 0 .. size - 1 : b # bl => (Nw!Complete(b)' <=> Nw!Complete(b)) /\ (Nw!Fresh(b)' <=> Nw!Fresh(b))
    BY <1>2, <1>4 DEF Nw!Complete, Nw!Fresh
  <2>7. (\A b \in 0 .. bl - 1 : Nw!Complete(b)') /\ (\A b \in bl + 1 .. size - 1 : Nw!Fresh(b)')
    <3>1. \A b \in 0 .. bl - 1 : b \in 0 .. size - 1 /\ b # bl
      BY <1>2, <2>5
    <3>2. \A b \in bl + 1 .. size - 1 : b \in 0 .. size - 1 /\ b # bl
      BY <1>2, <2>5
    <3>3. QED
      BY <2>1, <2>6, <3>1, <3>2 DEF Nw!MatrixOK
  <2>8. at'[0] \notin {"park", "host", "fetched"}
    BY <2>1 DEF Nw!Running
  <2>9. QED
    BY <1>1, <2>3, <2>4, <2>7, <2>8 DEF Nw!MatrixOK
<1>11. QED
  BY <1>7, <1>8, <1>9, <1>10

\* A cell that has its value keeps it.
LEMMA NwKeeps ==
  ASSUME Nw!Sized, Nw!MatrixInv, [Nw!Next]_(Nw!vars)
  PROVE  Nw!FinalKept
<1> USE DEF Nw!MatrixInv
<1> SUFFICES ASSUME job' = job, NEW b \in 0 .. size - 1, NEW c \in Nw!Cells,
                    c[2] <= NwRep * NwB, matrix[b][c] = c
             PROVE  matrix'[b][c] = c
  BY DEF Nw!FinalKept
<1>1. CASE \E t \in Nw!Tasklets : Nw!Write(t)
  <2>1. PICK t \in Nw!Tasklets : Nw!Write(t)
    BY <1>1
  <2>2. at[t] = "write"
    BY <2>1 DEF Nw!Write, Nw!CopyBack
  <2>3. /\ bl \in 0 .. size - 1 /\ at[0] \in Nw!Running
        /\ matrix \in [0 .. size - 1 -> [Nw!Cells -> Nw!Cells \cup {Nw!Junk}]]
    BY <2>2, NwModes DEF Nw!Running
  <2>4. CASE b # bl
    BY <2>1, <2>3, <2>4 DEF Nw!Write, Nw!CopyBack
  <2>5. CASE b = bl
    <3>1. NwRep * NwB \in Int /\ c[2] \in Int
      BY DEF Nw!Sized, Nw!Cells, Nw!Columns
    <3>2. ~ (c[2] > NwRep * NwB)
      BY <3>1
    <3>3. ~ Nw!Later(c)
      BY <2>3, <2>5 DEF Nw!MatrixOK
    <3>4. QED
      BY <2>1, <2>5, <3>2, <3>3, NwWritten
  <2>6. QED
    BY <2>4, <2>5
<1>2. CASE Nw!Fetch
  <2>1. job \in Nat
    BY DEF Nw!TypeOK
  <2>2. matrix' = matrix
    BY <1>2, <2>1 DEF Nw!Fetch, Nw!HostAnswers
  <2>3. QED
    BY <2>2
<1>3. CASE UNCHANGED matrix
  BY <1>3
<1>4. QED
  BY <1>1, <1>2, <1>3
  DEF Nw!Next, Nw!Together, Nw!Tasklet, Nw!GoToHost, Nw!StartJob, Nw!NextDiagonal, Nw!Park,
      Nw!Block, Nw!Read, Nw!vars

LEMMA NwPreserves ==
  ASSUME Nw!Sized, Nw!MatrixInv, [Nw!Next]_(Nw!vars)
  PROVE  Nw!MatrixInv'
<1>1. CASE UNCHANGED Nw!vars
  BY <1>1
  DEF Nw!vars, Nw!MatrixInv, Nw!TypeOK, Nw!ControlOK, Nw!MatrixOK, Nw!CacheOK, Nw!Complete, Nw!Fresh,
      Nw!Finished, Nw!Later, Nw!CopiedBack, Nw!At, Nw!Corner
<1>2. CASE Nw!Next
  <2>1. CASE Nw!Together
    BY <2>1, NwWaits, NwJobStarts, NwDiagonals DEF Nw!Together
  <2>2. ASSUME NEW t \in Nw!Tasklets, Nw!Tasklet(t) PROVE Nw!MatrixInv'
    BY <2>2, NwWaits, NwTakesBlock, NwReads, NwWrites DEF Nw!Tasklet
  <2>3. CASE UNCHANGED Nw!vars
    BY <1>1, <2>3
  <2>4. QED
    BY <1>2, <2>1, <2>2, <2>3 DEF Nw!Next
<1>3. QED
  BY <1>1, <1>2

\* The inductive invariant of NW is one of every behaviour.
THEOREM MatrixInvariant == MCSpec => [](kernel = "NW" => Nw!MatrixInv)
<1> DEFINE Inv == kernel = "NW" => Nw!MatrixInv
<1>1. MCInit => Inv
  BY NwAssumption, NwInit DEF MCInit, KernelInit
<1>2. Inv /\ [MCNext]_all => Inv'
  <2> SUFFICES ASSUME Inv, [MCNext]_all, kernel' = "NW" PROVE Nw!MatrixInv'
    OBVIOUS
  <2>1. kernel = "NW" /\ [Nw!Next]_(Nw!vars)
    BY DEF MCNext, all, group, Nw!vars
  <2>2. QED
    BY <2>1, NwAssumption, NwPreserves
<1>3. QED
  BY <1>1, <1>2, PTL DEF MCSpec

(***************************************************************************)
(* NW: when the host gets the DPU back, every matrix of the job is         *)
(* complete.  For every number of tasklets, every number and size of the   *)
(* blocks, and any jobs.                                                   *)
(***************************************************************************)
THEOREM MatricesAreFilled == MCSpec => []Filled
<1>1. (kernel = "NW" => Nw!MatrixInv) => Filled
  BY DEF Filled, Nw!Filled, Nw!MatrixInv, Nw!MatrixOK, Nw!Complete
<1>2. QED
  BY <1>1, MatrixInvariant, PTL

-----------------------------------------------------------------------------
(* BFS: a step of a DPU leaves what the others know alone, and the two     *)
(* halves of a level take the frontier one step further.                   *)

net == m1
spot == m2
pos == m3
nbs == m4
word == m5
lock == m6
current == m7
visited == m8
frontier == m9
level == m10
levels == m11
USE DEF net, spot, pos, nbs, word, lock, current, visited, frontier, level, levels

LEMMA BfsNumbers ==
  ASSUME Bfs!Sized
  PROVE  /\ BfsDpus \in Nat \ {0} /\ BfsN \in Nat \ {0} /\ BfsW \in Nat \ {0} /\ BfsLocal \in Nat \ {0}
         /\ BfsDpus * BfsLocal \in Nat /\ Bfs!Nodes \subseteq Nat /\ Bfs!Words \subseteq Nat
         /\ Bfs!DPU = 0 .. BfsDpus - 1 /\ Bfs!Tasklets = 0 .. BfsN - 1
         /\ 0 \in Bfs!DPU /\ 0 \in Bfs!Tasklets
BY DEF Bfs!Sized, Bfs!Nodes, Bfs!Words, Bfs!DPU, Bfs!Tasklets

\* The word of a node is a word.
LEMMA BfsWordOf ==
  ASSUME Bfs!Sized, NEW x \in Bfs!Nodes
  PROVE  x \div BfsW \in Bfs!Words
<1> DEFINE q == BfsLocal \div BfsW
           y == x \div BfsW
           m == x % BfsW
<1>0. BfsW \in Nat \ {0} /\ BfsLocal \in Nat /\ BfsLocal % BfsW = 0
  BY DEF Bfs!Sized
<1>1. q \in Nat /\ BfsLocal = BfsW * q
  <2>1. q \in Nat /\ BfsLocal = BfsW * q + (BfsLocal % BfsW)
    BY <1>0, DivMod
  <2> HIDE DEF q
  <2>2. BfsW * q \in Nat
    BY <1>0, <2>1
  <2>3. QED
    BY <1>0, <2>1, <2>2
<1> USE BfsNumbers
<1>2. x \in Nat /\ x < BfsDpus * BfsLocal
  BY DEF Bfs!Nodes
<1>3. y \in Nat /\ m \in 0 .. BfsW - 1 /\ x = BfsW * y + m
  BY <1>2, DivMod
<1> HIDE DEF q, y, m
<1> DEFINE n == BfsDpus * q
<1>4. n \in Nat /\ BfsDpus * BfsLocal = n * BfsW
  BY <1>1
<1>5. (n * BfsW + 0) \div BfsW = n
  <2>1. 0 \in 0 .. BfsW - 1
    OBVIOUS
  <2> HIDE DEF n
  <2>2. QED
    BY <1>4, <2>1, Division
<1>6. (BfsDpus * BfsLocal) \div BfsW = n
  <2> HIDE DEF n
  <2>1. n * BfsW + 0 = n * BfsW
    BY <1>4
  <2>2. QED
    BY <1>4, <1>5, <2>1
<1> HIDE DEF n
<1>7. ASSUME n <= y PROVE FALSE
  <2>1. n \in Nat /\ y \in Nat /\ BfsW \in Nat
    BY <1>3, <1>4
  <2>2. n * BfsW <= y * BfsW
    BY ONLY <1>7, <2>1, ProductsGrow
  <2>3. y * BfsW = BfsW * y /\ BfsW * y \in Nat
    BY ONLY <2>1
  <2> DEFINE a == n * BfsW
             b == BfsW * y
  <2>4. a <= b /\ b \in Nat /\ x = b + m /\ x < a /\ m \in 0 .. BfsW - 1
    <3>1. x = b + m /\ x < a
      BY ONLY <1>2, <1>3, <1>4
    <3>2. QED
      BY ONLY <1>3, <2>2, <2>3, <3>1
  <2> HIDE DEF a, b
  <2>5. a \in Nat
    BY <1>4 DEF a
  <2>6. QED
    BY ONLY <2>4, <2>5
<1>8. y \in 0 .. n - 1
  BY <1>3, <1>4, <1>7
<1>9. QED
  BY <1>6, <1>8 DEF Bfs!Words, y

\* Every node is a local node of one DPU.
LEMMA BfsOwner ==
  ASSUME Bfs!Sized
  PROVE  /\ \A e \in Bfs!DPU, j \in 0 .. BfsLocal - 1 :
              /\ j + Bfs!Start(e) \in Bfs!Nodes
              /\ (j + Bfs!Start(e)) \div BfsLocal = e /\ (j + Bfs!Start(e)) % BfsLocal = j
         /\ \A x \in Bfs!Nodes : \E e \in Bfs!DPU, j \in 0 .. BfsLocal - 1 : x = j + Bfs!Start(e)
<1> USE BfsNumbers
<1>1. ASSUME NEW e \in Bfs!DPU, NEW j \in 0 .. BfsLocal - 1
      PROVE  /\ j + Bfs!Start(e) \in Bfs!Nodes
             /\ (j + Bfs!Start(e)) \div BfsLocal = e /\ (j + Bfs!Start(e)) % BfsLocal = j
  <2>1. e \in 0 .. BfsDpus - 1 /\ e \in Nat /\ e * BfsLocal \in Nat
    OBVIOUS
  <2>2. j + Bfs!Start(e) = e * BfsLocal + j
    BY <2>1 DEF Bfs!Start
  <2>3. e * BfsLocal + j \in 0 .. BfsDpus * BfsLocal - 1
    BY <2>1, Products
  <2>4. (e * BfsLocal + j) \div BfsLocal = e
    BY <2>1, Division
  <2>5. (e * BfsLocal + j) % BfsLocal = j
    <3> DEFINE y == e * BfsLocal + j
    <3>1. y \in Nat
      BY <2>1
    <3> HIDE DEF y
    <3>2. y % BfsLocal \in 0 .. BfsLocal - 1 /\ y = BfsLocal * (y \div BfsLocal) + (y % BfsLocal)
      BY <3>1, DivMod
    <3>3. y = BfsLocal * e + (y % BfsLocal)
      BY <2>4, <3>2 DEF y
    <3>4. BfsLocal * e = e * BfsLocal
      BY <2>1
    <3> DEFINE f == e * BfsLocal
               z == y % BfsLocal
    <3>5. f + j = f + z /\ f \in Nat /\ j \in Nat /\ z \in Nat
      BY <2>1, <3>2, <3>3, <3>4 DEF y
    <3> HIDE DEF f, z
    <3>6. z = j
      BY ONLY <3>5
    <3>7. QED
      BY <3>6 DEF y, z
  <2>6. QED
    BY <2>2, <2>3, <2>4, <2>5 DEF Bfs!Nodes
<1>2. ASSUME NEW x \in Bfs!Nodes
      PROVE  \E e \in Bfs!DPU, j \in 0 .. BfsLocal - 1 : x = j + Bfs!Start(e)
  <2>1. PICK e \in 0 .. BfsDpus - 1, j \in 0 .. BfsLocal - 1 : x = e * BfsLocal + j
    BY RowAndColumn DEF Bfs!Nodes
  <2>2. x = j + Bfs!Start(e)
    BY <2>1 DEF Bfs!Start
  <2>3. QED
    BY <2>2
<1>3. QED
  BY <1>1, <1>2

\* The shares of the tasklets cover the nodes of a DPU, and a tasklet that is
\* past its share has been through all of it.
LEMMA BfsShares ==
  ASSUME Bfs!Sized
  PROVE  /\ Bfs!PerTasklet \in Nat
         /\ \A j \in 0 .. BfsLocal - 1 : \E t \in Bfs!Tasklets : j \in Bfs!Share(t)
         /\ \A t \in Bfs!Tasklets, n \in Nat, j \in 0 .. BfsLocal - 1 :
              n >= t * Bfs!PerTasklet /\ n \notin Bfs!Share(t) /\ j \in Bfs!Share(t) => j < n
         /\ \A t \in Bfs!Tasklets : t * Bfs!PerTasklet \in Nat
         /\ \A t \in Bfs!Tasklets : \A j \in Bfs!Share(t) :
              j \in 0 .. BfsLocal - 1 /\ ~ (j < t * Bfs!PerTasklet)
<1> USE BfsNumbers
<1> DEFINE p == Bfs!PerTasklet
<1>1. p \in Nat /\ BfsLocal <= BfsN * p /\ BfsN * p \in Nat
  <2>1. BfsLocal + BfsN - 1 \in Nat
    OBVIOUS
  <2> DEFINE m == (BfsLocal + BfsN - 1) % BfsN
  <2>2. p \in Nat /\ m \in 0 .. BfsN - 1 /\ BfsLocal + BfsN - 1 = BfsN * p + m
    BY <2>1, DivMod DEF Bfs!PerTasklet
  <2> HIDE DEF p, m
  <2>3. BfsN * p \in Nat
    BY <2>2
  <2>4. QED
    BY <2>2, <2>3
<1> HIDE DEF p
<1>2. \A t \in Bfs!Tasklets : Bfs!Share(t) = {j \in 0 .. BfsLocal - 1 : t * p <= j /\ j < (t + 1) * p}
  BY DEF Bfs!Share, p
<1>3. \A t \in Bfs!Tasklets : t * p \in Nat /\ (t + 1) * p = t * p + p
  BY <1>1
<1>4. ASSUME NEW j \in 0 .. BfsLocal - 1 PROVE \E t \in Bfs!Tasklets : j \in Bfs!Share(t)
  <2> DEFINE T == {x \in Bfs!Tasklets : x * p <= j}
  <2>1. 0 \in T /\ T \in SUBSET Int /\ BfsN \in Int /\ \A x \in T : x <= BfsN
    BY <1>1, <1>4
  <2>2. PICK x \in T : \A y \in T : y <= x
    <3> HIDE DEF T
    <3>1. QED
      BY <2>1, Largest
  <2>3. x \in 0 .. BfsN - 1 /\ x * p <= j /\ ~ (x + 1 \in T)
    BY <2>2
  <2>4. j < (x + 1) * p
    <3>1. CASE x + 1 \in Bfs!Tasklets
      <4>1. (x + 1) * p \in Nat
        BY <1>1, <2>3
      <4>2. QED
        BY <2>3, <3>1, <4>1
    <3>2. CASE x + 1 = BfsN
      BY <1>1, <1>4, <3>2
    <3>3. QED
      BY <2>3, <3>1, <3>2
  <2>5. QED
    BY <1>2, <2>3, <2>4
<1>5. ASSUME NEW t \in Bfs!Tasklets, NEW n \in Nat, NEW j \in 0 .. BfsLocal - 1,
             n >= t * p, n \notin Bfs!Share(t), j \in Bfs!Share(t)
      PROVE  j < n
  <2> DEFINE low == t * p
             high == (t + 1) * p
  <2>1. low \in Nat /\ high \in Nat
    <3>1. low \in Nat /\ high = low + p
      BY ONLY <1>3, <1>5
    <3> HIDE DEF low, high
    <3>2. QED
      BY ONLY <1>1, <3>1
  <2>2. Bfs!Share(t) = {x \in 0 .. BfsLocal - 1 : low <= x /\ x < high}
    BY <1>2
  <2>3. n \in Nat /\ j \in 0 .. BfsLocal - 1 /\ n >= low /\ n \notin Bfs!Share(t) /\ j \in Bfs!Share(t)
    BY <1>5
  <2> HIDE DEF low, high
  <2>4. j < high /\ (n \notin 0 .. BfsLocal - 1 \/ ~ (n < high))
    BY ONLY <2>1, <2>2, <2>3
  <2>5. BfsLocal \in Nat
    OBVIOUS
  <2>6. QED
    BY ONLY <2>1, <2>3, <2>4, <2>5
<1>6. ASSUME NEW t \in Bfs!Tasklets, NEW j \in Bfs!Share(t)
      PROVE  j \in 0 .. BfsLocal - 1 /\ ~ (j < t * p)
  BY <1>2, <1>3, <1>6
<1>7. QED
  BY <1>1, <1>3, <1>4, <1>5, <1>6 DEF p

\* Ball is the function its definition describes; it depends on the graph only.
LEMMA BfsBall ==
  /\ Bfs!Ball[0] = {BfsSource}
  /\ \A k \in Nat \ {0} : Bfs!Ball[k] = Bfs!Ball[k - 1] \cup UNION {net[x] : x \in Bfs!Ball[k - 1]}
<1> DEFINE More(X) == X \cup UNION {net[x] : x \in X}
           Body(f, k) == IF k = 0 THEN {BfsSource} ELSE More(f[k - 1])
           Upto(l, f) == f = [k \in 0 .. l |-> Body(f, k)]
           T == {l \in Nat : \E f : Upto(l, f)}
           G == [l \in Nat |-> CHOOSE f : Upto(l, f)]
           w == [k \in Nat |-> G[k][k]]
           v == CHOOSE f : f = [k \in Nat |-> Body(f, k)]
<1>1. 0 \in T
  <2> DEFINE f == [k \in 0 .. 0 |-> {BfsSource}]
  <2>1. f = [k \in 0 .. 0 |-> Body(f, k)]
    OBVIOUS
  <2>2. QED
    BY <2>1
<1>2. ASSUME NEW l \in Nat, l \in T PROVE l + 1 \in T
  <2>1. PICK f : Upto(l, f)
    BY <1>2
  <2> HIDE DEF More
  <2> DEFINE g == [k \in 0 .. l + 1 |-> Body(f, k)]
  <2>2. \A k \in 0 .. l : f[k] = Body(f, k)
    BY <2>1
  <2>3. \A k \in 0 .. l : g[k] = Body(f, k)
    OBVIOUS
  <2>4. \A k \in 0 .. l + 1 : k = 0 \/ k - 1 \in 0 .. l
    OBVIOUS
  <2> HIDE DEF g
  <2>5. \A k \in 0 .. l + 1 : Body(g, k) = Body(f, k)
    <3> SUFFICES ASSUME NEW k \in 0 .. l + 1 PROVE Body(g, k) = Body(f, k)
      OBVIOUS
    <3>1. CASE k = 0
      BY <3>1
    <3>2. CASE k - 1 \in 0 .. l
      <4>1. g[k - 1] = f[k - 1]
        <5> HIDE DEF Body
        <5>1. QED
          BY <2>2, <2>3, <3>2
      <4>2. QED
        BY <4>1
    <3>3. QED
      BY <2>4, <3>1, <3>2
  <2>6. Upto(l + 1, g)
    <3> HIDE DEF Body
    <3>1. g = [k \in 0 .. l + 1 |-> Body(f, k)]
      BY DEF g
    <3>2. [k \in 0 .. l + 1 |-> Body(f, k)] = [k \in 0 .. l + 1 |-> Body(g, k)]
      BY <2>5
    <3>3. QED
      BY <3>1, <3>2
  <2> HIDE DEF g, Upto
  <2>7. QED
    BY <2>6
<1>3. \A l \in Nat : Upto(l, G[l])
  <2>1. Nat \subseteq T
    <3> HIDE DEF T
    <3>1. QED
      BY <1>1, <1>2, Induction
  <2> HIDE DEF Upto
  <2>2. QED
    BY <2>1
<1>4. \A l \in Nat : \A k \in 0 .. l : G[l][k] = Body(G[l], k)
  <2> SUFFICES ASSUME NEW l \in Nat, NEW k \in 0 .. l PROVE G[l][k] = Body(G[l], k)
    OBVIOUS
  <2> DEFINE f == G[l]
  <2>1. Upto(l, f)
    BY <1>3
  <2> HIDE DEF f, Body
  <2>2. f[k] = Body(f, k)
    BY <2>1
  <2>3. QED
    BY <2>2 DEF f
<1> HIDE DEF G, More
<1>5. ASSUME NEW l \in Nat, NEW m \in Nat, l <= m PROVE \A k \in 0 .. l : G[l][k] = G[m][k]
  <2> DEFINE K == {k \in 0 .. l : G[l][k] # G[m][k]}
  <2>1. ASSUME NEW k \in K, \A y \in K : k <= y PROVE FALSE
    <3>1. k \in 0 .. l /\ k \in 0 .. m /\ k \in Nat /\ k - 1 \notin K
      BY <1>5, <2>1
    <3>2. G[l][k] = Body(G[l], k) /\ G[m][k] = Body(G[m], k)
      <4> HIDE DEF Body, K
      <4>1. QED
        BY <1>4, <3>1
    <3>3. CASE k = 0
      BY <2>1, <3>2, <3>3
    <3>4. CASE k # 0
      <4>1. k - 1 \in 0 .. l
        BY <3>1, <3>4
      <4>2. G[l][k - 1] = G[m][k - 1]
        BY <3>1, <4>1
      <4>3. QED
        BY <2>1, <3>2, <3>4, <4>2
    <3>5. QED
      BY <3>3, <3>4
  <2>2. K \in SUBSET Nat
    OBVIOUS
  <2>3. K = {}
    <3> HIDE DEF K
    <3>1. QED
      BY <2>1, <2>2, Least
  <2>4. QED
    BY <2>3
<1>6. ASSUME NEW k \in Nat PROVE w[k] = Body(w, k)
  <2>1. w[k] = G[k][k] /\ k \in 0 .. k
    OBVIOUS
  <2>2. G[k][k] = Body(G[k], k)
    <3> HIDE DEF Body
    <3>1. QED
      BY <1>4, <2>1
  <2>3. CASE k = 0
    BY <2>1, <2>2, <2>3
  <2>4. CASE k # 0
    <3>1. k - 1 \in Nat /\ k - 1 <= k /\ k - 1 \in 0 .. k - 1
      BY <2>4
    <3>2. G[k - 1][k - 1] = G[k][k - 1]
      BY <1>5, <3>1
    <3>3. w[k - 1] = G[k - 1][k - 1]
      BY <3>1
    <3>4. QED
      BY <2>1, <2>2, <2>4, <3>2, <3>3
  <2>5. QED
    BY <2>3, <2>4
<1>7. w = [k \in Nat |-> Body(w, k)]
  <2>1. w = [k \in Nat |-> w[k]]
    OBVIOUS
  <2> HIDE DEF w, Body
  <2>2. QED
    BY <1>6, <2>1
<1>8. v = [k \in Nat |-> Body(v, k)]
  <2> HIDE DEF w, Body
  <2>1. QED
    BY <1>7
<1>9. Bfs!Ball = v
  BY DEF Bfs!Ball, More
<1>10. \A k \in Nat : Bfs!Ball[k] = Body(Bfs!Ball, k)
  <2> HIDE DEF Body, v
  <2>1. QED
    BY <1>8, <1>9
<1>11. Bfs!Ball[0] = {BfsSource} /\ \A k \in Nat \ {0} : Bfs!Ball[k] = More(Bfs!Ball[k - 1])
  BY <1>10
<1>12. QED
  BY <1>11 DEF More

LEMMA BfsSameBall ==
  ASSUME net' = net
  PROVE  Bfs!Ball' = Bfs!Ball /\ \A k : Bfs!Ring(k)' = Bfs!Ring(k)
<1> DEFINE B(g) == CHOOSE f : f = [k \in Nat |->
                     IF k = 0 THEN {BfsSource} ELSE f[k - 1] \cup UNION {g[x] : x \in f[k - 1]}]
<1>1. Bfs!Ball = B(net) /\ Bfs!Ball' = B(net')
  BY DEF Bfs!Ball
<1> HIDE DEF B
<1>2. Bfs!Ball' = Bfs!Ball
  BY <1>1
<1>3. QED
  BY <1>2 DEF Bfs!Ring

LEMMA BfsNeighbour ==
  ASSUME NEW d, NEW t
  PROVE  /\ nbs[d][t] \subseteq Nat /\ nbs[d][t] # {} => Bfs!Neighbour(d, t) \in nbs[d][t]
         /\ nbs'[d][t] = nbs[d][t] => Bfs!Neighbour(d, t)' = Bfs!Neighbour(d, t)
<1> DEFINE LeastOf(S) == CHOOSE x \in S : \A y \in S : x <= y
<1>1. Bfs!Neighbour(d, t) = LeastOf(nbs[d][t]) /\ Bfs!Neighbour(d, t)' = LeastOf(nbs'[d][t])
  BY DEF Bfs!Neighbour
<1>2. ASSUME nbs[d][t] \subseteq Nat, nbs[d][t] # {} PROVE LeastOf(nbs[d][t]) \in nbs[d][t]
  BY <1>2, Least
<1> HIDE DEF LeastOf
<1>3. QED
  BY <1>1, <1>2

\* The tasklets of a DPU are in the same half of a level.
LEMMA BfsWhere ==
  ASSUME Bfs!Sized, NEW d \in Bfs!DPU, NEW t \in Bfs!Tasklets, Bfs!BitmapsOK(d)
  PROVE  /\ spot[d][t] \in Bfs!Expanding => Bfs!In(d, Bfs!Expanding)
         /\ spot[d][t] = "sweep" => Bfs!In(d, {"sweep"})
         /\ spot[d][t] = "host" => Bfs!In(d, {"host"})
         /\ Bfs!In(d, Bfs!Expanding) =>
              ~ Bfs!In(d, {"host"}) /\ ~ Bfs!In(d, {"exit"}) /\ ~ Bfs!In(d, {"sweep"})
         /\ Bfs!In(d, {"sweep"}) => ~ Bfs!In(d, {"host"}) /\ ~ Bfs!In(d, {"exit"})
         /\ Bfs!In(d, {"host"}) => ~ Bfs!In(d, {"exit"}) /\ ~ Bfs!In(d, {"sweep"})
BY DEF Bfs!BitmapsOK, Bfs!In, Bfs!Expanding

\* What a DPU leaves alone keeps its meaning.
LEMMA BfsOther ==
  ASSUME NEW e, net' = net, level' = level, spot'[e] = spot[e], pos'[e] = pos[e],
         nbs'[e] = nbs[e], word'[e] = word[e], lock'[e] = lock[e], current'[e] = current[e],
         visited'[e] = visited[e], frontier'[e] = frontier[e], levels'[e] = levels[e]
  PROVE  /\ \A S : Bfs!In(e, S)' <=> Bfs!In(e, S)
         /\ Bfs!Seen(e)' = Bfs!Seen(e)
         /\ Bfs!BitmapsOK(e)' <=> Bfs!BitmapsOK(e)
         /\ Bfs!MutexOK(e)' <=> Bfs!MutexOK(e)
         /\ Bfs!FrontierOK(e)' <=> Bfs!FrontierOK(e)
<1> DEFINE
     Where(p, S) == \A t \in Bfs!Tasklets : p[t] \in S
     Found(p, v, f) == v \cup (IF Where(p, {"sweep"}) THEN f ELSE {})
     Took(s, w) == w < s[w % BfsN]
     Bitmaps(p, s, v, f, l) ==
       /\ Where(p, {"host"}) \/ Where(p, {"exit"}) \/ Where(p, {"sweep"}) \/ Where(p, Bfs!Expanding)
       /\ f \cap v = {}
       /\ Where(p, {"sweep"}) =>
            /\ \A t \in Bfs!Tasklets : s[t] % BfsN = t
            /\ \A w \in Bfs!Words : Took(s, w) => f \cap Bfs!NodesOf(w) = {}
       /\ Where(p, Bfs!Expanding) => \A t \in Bfs!Tasklets : s[t] >= t * Bfs!PerTasklet
       /\ \A j \in 0 .. BfsLocal - 1 : l[j] # 0 <=> j + Bfs!Start(e) \in v
     LeastOf(S) == CHOOSE x \in S : \A y \in S : x <= y
     Mutex(p, n, w, k, v, f) ==
       \A t \in Bfs!Tasklets :
         /\ p[t] \in {"load", "store"} =>
              /\ k /\ n[t] # {} /\ LeastOf(n[t]) \notin v
              /\ \A u \in Bfs!Tasklets \ {t} : p[u] \notin {"load", "store"}
         /\ p[t] = "store" => w[t] = f \cap Bfs!NodesOf(LeastOf(n[t]) \div BfsW)
     Did(p, s, n, j, y) ==
       \E t \in Bfs!Tasklets : j \in Bfs!Share(t) /\
         (j < s[t] \/ (j = s[t] /\ p[t] # "node" /\ y \notin n[t]))
     Circle(B, k) == IF k = 0 THEN {BfsSource} ELSE B[k] \ B[k - 1]
     Front(B, g, h, p, s, n, c, v, f, l) ==
       /\ \A j \in 0 .. BfsLocal - 1 : l[j] # 0 =>
            l[j] <= h /\ j + Bfs!Start(e) \in Circle(B, l[j] - 1)
       /\ Where(p, {"sweep"}) =>
            /\ f = {x \in Circle(B, h - 1) : ~ Took(s, x \div BfsW)}
            /\ \A j \in 0 .. BfsLocal - 1 : Took(s, (j + Bfs!Start(e)) \div BfsW) =>
                 (j \in c <=> j + Bfs!Start(e) \in Circle(B, h - 1))
       /\ ~ Where(p, {"sweep"}) /\ h > 0 =>
            /\ \A j \in 0 .. BfsLocal - 1 : j \in c <=> j + Bfs!Start(e) \in Circle(B, h - 1)
            /\ f \subseteq B[h]
       /\ \A t \in Bfs!Tasklets : p[t] \in {"edge", "load", "store"} => n[t] \subseteq B[h]
       /\ Where(p, Bfs!Expanding) \/ (Where(p, {"host"}) /\ h > 0) =>
            \A j \in c : \A y \in g[j + Bfs!Start(e)] :
              Where(p, {"host"}) \/ Did(p, s, n, j, y) => y \in v \cup f
<1>1. Bfs!Ball' = Bfs!Ball
  BY BfsSameBall
<1>2. ASSUME NEW S PROVE Bfs!In(e, S)' <=> Bfs!In(e, S)
  <2>1. (Bfs!In(e, S) <=> Where(spot[e], S)) /\ (Bfs!In(e, S)' <=> Where(spot'[e], S))
    BY DEF Bfs!In
  <2>2. QED
    BY <2>1
<1>3. Bfs!Seen(e)' = Bfs!Seen(e)
  <2>1. /\ Bfs!Seen(e) = Found(spot[e], visited[e], frontier[e])
        /\ Bfs!Seen(e)' = Found(spot'[e], visited'[e], frontier'[e])
    BY DEF Bfs!Seen, Bfs!In
  <2> HIDE DEF Found
  <2>2. QED
    BY <2>1
<1>4. Bfs!BitmapsOK(e)' <=> Bfs!BitmapsOK(e)
  <2>1. /\ Bfs!BitmapsOK(e) <=> Bitmaps(spot[e], pos[e], visited[e], frontier[e], levels[e])
        /\ Bfs!BitmapsOK(e)' <=> Bitmaps(spot'[e], pos'[e], visited'[e], frontier'[e], levels'[e])
    BY Zenon DEF Bfs!BitmapsOK, Bfs!In, Bfs!Taken
  <2> HIDE DEF Bitmaps
  <2>2. QED
    BY <2>1
<1>5. Bfs!MutexOK(e)' <=> Bfs!MutexOK(e)
  <2>1. /\ Bfs!MutexOK(e) <=>
             Mutex(spot[e], nbs[e], word[e], lock[e], visited[e], frontier[e])
        /\ Bfs!MutexOK(e)' <=>
             Mutex(spot'[e], nbs'[e], word'[e], lock'[e], visited'[e], frontier'[e])
    BY Zenon DEF Bfs!MutexOK, Bfs!Neighbour
  <2> HIDE DEF Mutex
  <2>2. QED
    BY <2>1
<1>6. Bfs!FrontierOK(e)' <=> Bfs!FrontierOK(e)
  <2>1. /\ Bfs!FrontierOK(e) <=> Front(Bfs!Ball, net, level, spot[e], pos[e], nbs[e], current[e],
                                       visited[e], frontier[e], levels[e])
        /\ Bfs!FrontierOK(e)' <=> Front(Bfs!Ball', net', level', spot'[e], pos'[e], nbs'[e],
                                        current'[e], visited'[e], frontier'[e], levels'[e])
    BY Zenon DEF Bfs!FrontierOK, Bfs!In, Bfs!Taken, Bfs!Handled, Bfs!Ring
  <2> HIDE DEF Front
  <2>2. QED
    BY <1>1, <2>1
<1>7. QED
  BY <1>2, <1>3, <1>4, <1>5, <1>6

\* A step of one DPU.
LEMMA BfsStep ==
  ASSUME Bfs!Sized, Bfs!SearchInv, NEW d \in Bfs!DPU, net' = net, level' = level,
         \A e \in Bfs!DPU \ {d} :
           /\ spot'[e] = spot[e] /\ pos'[e] = pos[e] /\ nbs'[e] = nbs[e] /\ word'[e] = word[e]
           /\ lock'[e] = lock[e] /\ current'[e] = current[e] /\ visited'[e] = visited[e]
           /\ frontier'[e] = frontier[e] /\ levels'[e] = levels[e],
         Bfs!TypeOK', ~ Bfs!In(d, {"host"}), ~ Bfs!In(d, {"exit"}), ~ Bfs!In(d, {"exit"})',
         Bfs!Seen(d)' = Bfs!Seen(d), Bfs!BitmapsOK(d)', Bfs!MutexOK(d)',
         level > 0 /\ Bfs!Seen(d) = Bfs!Ball[level - 1]
           /\ Bfs!FrontierOK(d) => Bfs!FrontierOK(d)'
  PROVE  Bfs!SearchInv'
<1> USE DEF Bfs!SearchInv
<1>1. \A e \in Bfs!DPU \ {d} :
        /\ \A S : Bfs!In(e, S)' <=> Bfs!In(e, S)
        /\ Bfs!Seen(e)' = Bfs!Seen(e)
        /\ Bfs!BitmapsOK(e)' /\ Bfs!MutexOK(e)'
        /\ Bfs!FrontierOK(e)' <=> Bfs!FrontierOK(e)
  BY BfsOther
<1>2. level \in Nat /\ level > 0
  BY DEF Bfs!PhaseOK, Bfs!TypeOK
<1>3. \A e \in Bfs!DPU : ~ Bfs!In(e, {"exit"}) /\ ~ Bfs!In(e, {"exit"})'
  BY <1>1 DEF Bfs!PhaseOK
<1>4. Bfs!PhaseOK'
  <2>1. \A e, f \in Bfs!DPU : Bfs!Seen(e)' = Bfs!Seen(f)'
    BY <1>1 DEF Bfs!PhaseOK
  <2>2. QED
    BY <1>2, <1>3, <2>1 DEF Bfs!PhaseOK
<1>5. Bfs!DistancesOK'
  <2> SUFFICES \A e \in Bfs!DPU : Bfs!Seen(e)' = (Bfs!Ball[level - 1])' /\ Bfs!FrontierOK(e)'
    BY <1>2 DEF Bfs!DistancesOK
  <2>1. \A e \in Bfs!DPU : Bfs!Seen(e) = Bfs!Ball[level - 1] /\ Bfs!FrontierOK(e)
    BY <1>2, <1>3 DEF Bfs!DistancesOK
  <2>2. (Bfs!Ball[level - 1])' = Bfs!Ball[level - 1]
    BY BfsSameBall
  <2>3. QED
    BY <1>1, <1>2, <2>1, <2>2
<1>6. QED
  BY <1>1, <1>4, <1>5

\* Edges go one step out.
LEMMA BfsRings ==
  ASSUME Bfs!Sized, NEW k \in Nat \ {0}
  PROVE  /\ Bfs!Ring(k - 1) \subseteq Bfs!Ball[k - 1] /\ Bfs!Ball[k - 1] \subseteq Bfs!Ball[k]
         /\ \A x \in Bfs!Ball[k - 1] : net[x] \subseteq Bfs!Ball[k]
         /\ \A y \in Bfs!Ball[k] \ Bfs!Ball[k - 1] : \E x \in Bfs!Ring(k - 1) : y \in net[x]
<1>1. Bfs!Ball[k] = Bfs!Ball[k - 1] \cup UNION {net[x] : x \in Bfs!Ball[k - 1]}
  BY BfsBall
<1>2. CASE k = 1
  <2>1. Bfs!Ring(k - 1) = {BfsSource} /\ Bfs!Ball[k - 1] = {BfsSource}
    BY <1>2, BfsBall DEF Bfs!Ring
  <2>2. QED
    BY <1>1, <2>1
<1>3. CASE k # 1
  <2>1. k - 1 \in Nat \ {0} /\ k - 1 # 0
    BY <1>3, BfsNumbers
  <2>2. Bfs!Ball[k - 1] = Bfs!Ball[k - 2] \cup UNION {net[x] : x \in Bfs!Ball[k - 2]}
    <3> DEFINE j == k - 1
    <3>1. j \in Nat \ {0} /\ j - 1 = k - 2
      BY <2>1
    <3> HIDE DEF j
    <3>2. Bfs!Ball[j] = Bfs!Ball[j - 1] \cup UNION {net[x] : x \in Bfs!Ball[j - 1]}
      BY <3>1, BfsBall
    <3>3. QED
      BY <3>1, <3>2 DEF j
  <2>3. Bfs!Ring(k - 1) = Bfs!Ball[k - 1] \ Bfs!Ball[k - 2]
    <3>1. (k - 1) - 1 = k - 2
      OBVIOUS
    <3>2. QED
      BY <2>1, <3>1 DEF Bfs!Ring
  <2>4. QED
    BY <1>1, <2>2, <2>3
<1>4. QED
  BY <1>2, <1>3

\* A step of a tasklet that looks for neighbours.
LEMMA BfsExpands ==
  ASSUME Bfs!Sized, Bfs!SearchInv, NEW d \in Bfs!DPU, NEW t \in Bfs!Tasklets,
         net' = net, level' = level, current' = current, visited' = visited, levels' = levels,
         \A e \in Bfs!DPU \ {d} :
           /\ spot'[e] = spot[e] /\ pos'[e] = pos[e] /\ nbs'[e] = nbs[e] /\ word'[e] = word[e]
           /\ lock'[e] = lock[e] /\ frontier'[e] = frontier[e],
         \A u \in Bfs!Tasklets \ {t} :
           spot'[d][u] = spot[d][u] /\ pos'[d][u] = pos[d][u] /\ nbs'[d][u] = nbs[d][u],
         Bfs!TypeOK', spot[d][t] \in Bfs!Expanding, spot'[d][t] \in Bfs!Expanding,
         pos'[d][t] >= pos[d][t], frontier'[d] \cap visited[d] = {}, frontier[d] \subseteq frontier'[d],
         Bfs!MutexOK(d)',
         level > 0 /\ Bfs!FrontierOK(d) =>
           /\ frontier'[d] \subseteq Bfs!Ball[level]
           /\ spot'[d][t] # "node" => nbs'[d][t] \subseteq Bfs!Ball[level]
           /\ \A j \in current[d] : \A y \in net[j + Bfs!Start(d)] :
                j < pos'[d][t] \/ (j = pos'[d][t] /\ spot'[d][t] # "node" /\ y \notin nbs'[d][t]) =>
                  \/ y \in visited[d] \cup frontier'[d]
                  \/ j < pos[d][t] \/ (j = pos[d][t] /\ spot[d][t] # "node" /\ y \notin nbs[d][t])
  PROVE  Bfs!SearchInv'
<1> USE DEF Bfs!SearchInv
<1>1. /\ Bfs!In(d, Bfs!Expanding) /\ ~ Bfs!In(d, {"host"})
      /\ ~ Bfs!In(d, {"exit"}) /\ ~ Bfs!In(d, {"sweep"})
  BY BfsWhere
<1>2. /\ Bfs!In(d, Bfs!Expanding)' /\ ~ Bfs!In(d, {"host"})'
      /\ ~ Bfs!In(d, {"exit"})' /\ ~ Bfs!In(d, {"sweep"})'
  <2>1. spot'[d][t] \notin {"host", "exit", "sweep"}
    BY DEF Bfs!Expanding
  <2>2. QED
    BY <1>1, <2>1 DEF Bfs!In
<1>3. Bfs!Seen(d)' = Bfs!Seen(d)
  BY <1>1, <1>2 DEF Bfs!Seen
<1>4. Bfs!BitmapsOK(d)'
  <2>1. \A u \in Bfs!Tasklets : pos'[d][u] >= u * Bfs!PerTasklet
    <3>1. \A u \in Bfs!Tasklets : pos[d][u] >= u * Bfs!PerTasklet /\ pos[d][u] \in Nat /\ pos'[d][u] \in Nat
      BY <1>1 DEF Bfs!BitmapsOK, Bfs!TypeOK
    <3>2. \A u \in Bfs!Tasklets : u * Bfs!PerTasklet \in Nat
      BY BfsShares
    <3>3. pos'[d][t] >= t * Bfs!PerTasklet
      BY <3>1, <3>2
    <3>4. QED
      BY <3>1, <3>3
  <2>2. \A j \in 0 .. BfsLocal - 1 : levels[d][j] # 0 <=> j + Bfs!Start(d) \in visited[d]
    BY DEF Bfs!BitmapsOK
  <2>3. QED
    BY <1>2, <2>1, <2>2 DEF Bfs!BitmapsOK
<1>5. ASSUME level > 0, Bfs!FrontierOK(d) PROVE Bfs!FrontierOK(d)'
  <2>1. \A j \in 0 .. BfsLocal - 1 : levels[d][j] # 0 =>
          levels[d][j] <= level /\ j + Bfs!Start(d) \in Bfs!Ring(levels[d][j] - 1)'
    BY <1>5, BfsSameBall DEF Bfs!FrontierOK
  <2>2. \A j \in 0 .. BfsLocal - 1 : j \in current[d] <=> j + Bfs!Start(d) \in Bfs!Ring(level - 1)'
    BY <1>1, <1>5, BfsSameBall DEF Bfs!FrontierOK
  <2>3. Bfs!Ball' = Bfs!Ball
    BY BfsSameBall
  <2>4. \A u \in Bfs!Tasklets : spot'[d][u] \in {"edge", "load", "store"} => nbs'[d][u] \subseteq Bfs!Ball[level]
    BY <1>5 DEF Bfs!FrontierOK
  <2>5. ASSUME NEW j \in current[d], NEW y \in net[j + Bfs!Start(d)], Bfs!Handled(d, j, y)'
        PROVE  y \in visited[d] \cup frontier'[d]
    <3>1. PICK u \in Bfs!Tasklets : j \in Bfs!Share(u) /\
            (j < pos'[d][u] \/ (j = pos'[d][u] /\ spot'[d][u] # "node" /\ y \notin nbs'[d][u]))
      BY <2>5 DEF Bfs!Handled
    <3>2. \/ y \in visited[d] \cup frontier'[d]
          \/ j < pos[d][u] \/ (j = pos[d][u] /\ spot[d][u] # "node" /\ y \notin nbs[d][u])
      BY <1>5, <3>1
    <3>3. y \in visited[d] \cup frontier'[d] \/ Bfs!Handled(d, j, y)
      BY <3>1, <3>2 DEF Bfs!Handled
    <3>4. Bfs!Handled(d, j, y) => y \in visited[d] \cup frontier[d]
      BY <1>1, <1>5 DEF Bfs!FrontierOK
    <3>5. QED
      BY <3>3, <3>4
  <2>6. \A j \in current[d] : \A y \in net[j + Bfs!Start(d)] :
          Bfs!Handled(d, j, y)' => y \in visited[d] \cup frontier'[d]
    BY <2>5
  <2>7. QED
    BY <1>2, <1>5, <2>1, <2>2, <2>3, <2>4, <2>6 DEF Bfs!FrontierOK
<1>6. QED
  BY <1>1, <1>2, <1>3, <1>4, <1>5, BfsStep

LEMMA BfsNodes ==
  ASSUME Bfs!Sized, Bfs!SearchInv, NEW d \in Bfs!DPU, NEW t \in Bfs!Tasklets, Bfs!Node(d, t)
  PROVE  Bfs!SearchInv'
<1> USE DEF Bfs!SearchInv
<1>1. /\ spot[d][t] = "node" /\ pos[d][t] \in Bfs!Share(t)
      /\ spot' = [spot EXCEPT ![d][t] = "edge"]
      /\ nbs' = [nbs EXCEPT ![d][t] =
                   IF pos[d][t] \in current[d] THEN net[pos[d][t] + Bfs!Start(d)] ELSE {}]
      /\ UNCHANGED <<net, pos, word, lock, current, visited, frontier, level, levels>>
  BY DEF Bfs!Node, Bfs!Goto, Bfs!bitmaps, Bfs!results
<1>2. /\ spot \in [Bfs!DPU -> [Bfs!Tasklets -> {"host", "sweep", "exit"} \cup Bfs!Expanding]]
      /\ nbs \in [Bfs!DPU -> [Bfs!Tasklets -> SUBSET Bfs!Nodes]] /\ pos[d][t] \in Nat
      /\ net \in [Bfs!Nodes -> SUBSET Bfs!Nodes] /\ level \in Nat
  BY DEF Bfs!TypeOK, Bfs!Sized
<1>3. spot'[d][t] = "edge" /\ {"node", "edge"} \subseteq Bfs!Expanding
  BY <1>1, <1>2 DEF Bfs!Expanding
<1>4. nbs'[d][t] = IF pos[d][t] \in current[d] THEN net[pos[d][t] + Bfs!Start(d)] ELSE {}
  BY <1>1, <1>2
<1>5. pos[d][t] + Bfs!Start(d) \in Bfs!Nodes
  BY <1>1, BfsOwner, BfsShares
<1>6. Bfs!TypeOK'
  <2>1. nbs'[d][t] \subseteq Bfs!Nodes
    BY <1>2, <1>4, <1>5
  <2>2. nbs' \in [Bfs!DPU -> [Bfs!Tasklets -> SUBSET Bfs!Nodes]]
    BY <1>1, <1>2, <1>4, <2>1
  <2>3. spot' \in [Bfs!DPU -> [Bfs!Tasklets -> {"host", "sweep", "exit"} \cup Bfs!Expanding]]
    BY <1>1, <1>2, <1>3
  <2>4. QED
    BY <1>1, <2>2, <2>3 DEF Bfs!TypeOK
<1>7. \A u \in Bfs!Tasklets \ {t} :
        spot'[d][u] = spot[d][u] /\ pos'[d][u] = pos[d][u] /\ nbs'[d][u] = nbs[d][u]
  BY <1>1, <1>2
<1>8. \A e \in Bfs!DPU \ {d} : spot'[e] = spot[e] /\ nbs'[e] = nbs[e]
  BY <1>1, <1>2
<1>9. Bfs!MutexOK(d)'
  BY <1>1, <1>3, <1>7, BfsNeighbour DEF Bfs!MutexOK
<1>10. frontier[d] \cap visited[d] = {}
  BY DEF Bfs!BitmapsOK
<1>11. ASSUME level > 0, Bfs!FrontierOK(d)
       PROVE  frontier[d] \subseteq Bfs!Ball[level] /\ nbs'[d][t] \subseteq Bfs!Ball[level]
  <2>1. ~ Bfs!In(d, {"sweep"})
    BY <1>1 DEF Bfs!In
  <2>2. frontier[d] \subseteq Bfs!Ball[level]
    BY <1>11, <2>1 DEF Bfs!FrontierOK
  <2>3. pos[d][t] \in current[d] => pos[d][t] + Bfs!Start(d) \in Bfs!Ring(level - 1)
    BY <1>1, <1>11, <2>1, BfsShares DEF Bfs!FrontierOK
  <2>4. level \in Nat \ {0}
    BY <1>2, <1>11, BfsNumbers
  <2>5. QED
    BY <1>4, <2>2, <2>3, <2>4, BfsRings
<1>12. \A j \in current[d] : \A y \in net[j + Bfs!Start(d)] :
         j < pos'[d][t] \/ (j = pos'[d][t] /\ spot'[d][t] # "node" /\ y \notin nbs'[d][t]) =>
           j < pos[d][t]
  BY <1>1, <1>4
<1>13. pos'[d][t] >= pos[d][t]
  BY <1>1, <1>2
<1>14. QED
  BY <1>1, <1>3, <1>6, <1>7, <1>8, <1>9, <1>10, <1>11, <1>12, <1>13, BfsExpands

LEMMA BfsEdges ==
  ASSUME Bfs!Sized, Bfs!SearchInv, NEW d \in Bfs!DPU, NEW t \in Bfs!Tasklets, Bfs!EndOfEdges(d, t)
  PROVE  Bfs!SearchInv'
<1> USE DEF Bfs!SearchInv
<1>1. /\ spot[d][t] = "edge" /\ nbs[d][t] = {}
      /\ spot' = [spot EXCEPT ![d][t] = "node"]
      /\ pos' = [pos EXCEPT ![d][t] = @ + 1]
      /\ UNCHANGED <<net, nbs, word, lock, current, visited, frontier, level, levels>>
  BY DEF Bfs!EndOfEdges, Bfs!Goto, Bfs!bitmaps, Bfs!results
<1>2. /\ spot \in [Bfs!DPU -> [Bfs!Tasklets -> {"host", "sweep", "exit"} \cup Bfs!Expanding]]
      /\ pos \in [Bfs!DPU -> [Bfs!Tasklets -> Nat]] /\ pos[d][t] \in Nat
      /\ current[d] \subseteq 0 .. BfsLocal - 1 /\ BfsLocal \in Nat
  BY BfsNumbers DEF Bfs!TypeOK
<1>3. spot'[d][t] = "node" /\ pos'[d][t] = pos[d][t] + 1 /\ {"node", "edge"} \subseteq Bfs!Expanding
  BY <1>1, <1>2 DEF Bfs!Expanding
<1>4. Bfs!TypeOK'
  <2>1. spot' \in [Bfs!DPU -> [Bfs!Tasklets -> {"host", "sweep", "exit"} \cup Bfs!Expanding]]
    BY <1>1, <1>2, <1>3
  <2>2. pos' \in [Bfs!DPU -> [Bfs!Tasklets -> Nat]]
    BY <1>1, <1>2
  <2>3. QED
    BY <1>1, <2>1, <2>2 DEF Bfs!TypeOK
<1>5. \A u \in Bfs!Tasklets \ {t} :
        spot'[d][u] = spot[d][u] /\ pos'[d][u] = pos[d][u] /\ nbs'[d][u] = nbs[d][u]
  BY <1>1, <1>2
<1>6. \A e \in Bfs!DPU \ {d} : spot'[e] = spot[e] /\ pos'[e] = pos[e]
  BY <1>1, <1>2
<1>7. Bfs!MutexOK(d)'
  BY <1>1, <1>3, <1>5, BfsNeighbour DEF Bfs!MutexOK
<1>8. frontier[d] \cap visited[d] = {}
  BY DEF Bfs!BitmapsOK
<1>9. ASSUME level > 0, Bfs!FrontierOK(d) PROVE frontier[d] \subseteq Bfs!Ball[level]
  BY <1>1, <1>9 DEF Bfs!FrontierOK, Bfs!In
<1>10. \A j \in current[d] : \A y \in net[j + Bfs!Start(d)] :
         j < pos'[d][t] => j < pos[d][t] \/ (j = pos[d][t] /\ spot[d][t] # "node" /\ y \notin nbs[d][t])
  <2>1. ASSUME NEW j \in current[d], j < pos[d][t] + 1 PROVE j < pos[d][t] \/ j = pos[d][t]
    <3> DEFINE p == pos[d][t]
    <3>1. j \in Int /\ p \in Int /\ j < p + 1
      BY <1>2, <2>1
    <3> HIDE DEF p
    <3>2. j < p \/ j = p
      BY <3>1
    <3>3. QED
      BY <3>2 DEF p
  <2>2. QED
    BY <1>1, <1>3, <2>1
<1>11. pos'[d][t] >= pos[d][t]
  BY <1>2, <1>3
<1>12. QED
  BY <1>1, <1>3, <1>4, <1>5, <1>6, <1>7, <1>8, <1>9, <1>10, <1>11, BfsExpands

LEMMA BfsSkips ==
  ASSUME Bfs!Sized, Bfs!SearchInv, NEW d \in Bfs!DPU, NEW t \in Bfs!Tasklets, Bfs!Skip(d, t)
  PROVE  Bfs!SearchInv'
<1> USE DEF Bfs!SearchInv
<1> DEFINE x == Bfs!Neighbour(d, t)
<1>1. /\ spot[d][t] = "edge" /\ x \in visited[d]
      /\ nbs' = [nbs EXCEPT ![d][t] = @ \ {x}]
      /\ UNCHANGED <<net, spot, pos, word, lock, current, visited, frontier, level, levels>>
  BY DEF Bfs!Skip, Bfs!bitmaps, Bfs!results
<1> HIDE DEF x
<1>2. nbs \in [Bfs!DPU -> [Bfs!Tasklets -> SUBSET Bfs!Nodes]] /\ pos[d][t] \in Nat
  BY DEF Bfs!TypeOK
<1>3. nbs'[d][t] = nbs[d][t] \ {x} /\ "edge" \in Bfs!Expanding
  BY <1>1, <1>2 DEF Bfs!Expanding
<1>4. Bfs!TypeOK'
  <2>1. nbs' \in [Bfs!DPU -> [Bfs!Tasklets -> SUBSET Bfs!Nodes]]
    BY <1>1, <1>2
  <2>2. QED
    BY <1>1, <2>1 DEF Bfs!TypeOK
<1>5. \A u \in Bfs!Tasklets \ {t} : nbs'[d][u] = nbs[d][u]
  BY <1>1, <1>2
<1>6. \A e \in Bfs!DPU \ {d} : nbs'[e] = nbs[e]
  BY <1>1, <1>2
<1>7. Bfs!MutexOK(d)'
  BY <1>1, <1>5, BfsNeighbour DEF Bfs!MutexOK
<1>8. frontier[d] \cap visited[d] = {}
  BY DEF Bfs!BitmapsOK
<1>9. ASSUME level > 0, Bfs!FrontierOK(d)
      PROVE  frontier[d] \subseteq Bfs!Ball[level] /\ nbs'[d][t] \subseteq Bfs!Ball[level]
  BY <1>1, <1>3, <1>9 DEF Bfs!FrontierOK, Bfs!In
<1>10. \A j \in current[d] : \A y \in net[j + Bfs!Start(d)] :
         j = pos[d][t] /\ y \notin nbs'[d][t] =>
           y \in visited[d] \cup frontier[d] \/ (j = pos[d][t] /\ spot[d][t] # "node" /\ y \notin nbs[d][t])
  BY <1>1, <1>3
<1>11. pos'[d][t] >= pos[d][t]
  BY <1>1, <1>2
<1>12. QED
  BY <1>1, <1>3, <1>4, <1>5, <1>6, <1>7, <1>8, <1>9, <1>10, <1>11, BfsExpands

LEMMA BfsLocks ==
  ASSUME Bfs!Sized, Bfs!SearchInv, NEW d \in Bfs!DPU, NEW t \in Bfs!Tasklets,
         Bfs!Lock(d, t) \/ Bfs!Load(d, t)
  PROVE  Bfs!SearchInv'
<1> USE DEF Bfs!SearchInv
<1> DEFINE x == Bfs!Neighbour(d, t)
           l == IF spot[d][t] = "edge" THEN "load" ELSE "store"
<1>1. /\ spot[d][t] \in {"edge", "load"} /\ spot' = [spot EXCEPT ![d][t] = l]
      /\ UNCHANGED <<net, pos, nbs, current, visited, frontier, level, levels>>
      /\ spot[d][t] = "edge" =>
           /\ nbs[d][t] # {} /\ x \notin visited[d] /\ ~ lock[d]
           /\ lock' = [lock EXCEPT ![d] = TRUE] /\ word' = word
      /\ spot[d][t] = "load" =>
           /\ word' = [word EXCEPT ![d][t] = frontier[d] \cap Bfs!NodesOf(x \div BfsW)]
           /\ lock' = lock
  BY DEF Bfs!Lock, Bfs!Load, Bfs!Goto, Bfs!bitmaps, Bfs!results
<1> HIDE DEF x
<1>2. /\ spot \in [Bfs!DPU -> [Bfs!Tasklets -> {"host", "sweep", "exit"} \cup Bfs!Expanding]]
      /\ pos[d][t] \in Nat /\ lock \in [Bfs!DPU -> BOOLEAN]
      /\ word \in [Bfs!DPU -> [Bfs!Tasklets -> SUBSET Bfs!Nodes]]
      /\ frontier[d] \subseteq Bfs!Nodes
  BY DEF Bfs!TypeOK
<1>3. spot'[d][t] = l /\ {spot[d][t], l} \subseteq Bfs!Expanding
  BY <1>1, <1>2 DEF Bfs!Expanding
<1>4. Bfs!TypeOK'
  <2>1. spot' \in [Bfs!DPU -> [Bfs!Tasklets -> {"host", "sweep", "exit"} \cup Bfs!Expanding]]
    <3> HIDE DEF l
    <3>1. QED
      BY <1>1, <1>2, <1>3
  <2>2. lock' \in [Bfs!DPU -> BOOLEAN]
    BY <1>1, <1>2
  <2>3. word' \in [Bfs!DPU -> [Bfs!Tasklets -> SUBSET Bfs!Nodes]]
    <3>1. CASE word' = word
      BY <1>2, <3>1
    <3> DEFINE S == frontier[d] \cap Bfs!NodesOf(x \div BfsW)
    <3>2. CASE word' = [word EXCEPT ![d][t] = S]
      <4>1. S \in SUBSET Bfs!Nodes
        BY <1>2
      <4> HIDE DEF S
      <4>2. QED
        BY <1>2, <3>2, <4>1
    <3>3. QED
      BY <1>1, <3>1, <3>2
  <2>4. QED
    BY <1>1, <2>1, <2>2, <2>3 DEF Bfs!TypeOK
<1>5. \A u \in Bfs!Tasklets \ {t} : spot'[d][u] = spot[d][u] /\ word'[d][u] = word[d][u]
  BY <1>1, <1>2
<1>6. \A e \in Bfs!DPU \ {d} : spot'[e] = spot[e] /\ word'[e] = word[e] /\ lock'[e] = lock[e]
  BY <1>1, <1>2
<1>7. lock'[d] /\ nbs[d][t] # {} /\ x \notin visited[d]
  BY <1>1, <1>2 DEF Bfs!MutexOK, x
<1>8. \A u \in Bfs!Tasklets \ {t} : spot[d][u] \notin {"load", "store"}
  BY <1>1 DEF Bfs!MutexOK
<1>9. spot'[d][t] = "store" => word'[d][t] = frontier[d] \cap Bfs!NodesOf(x \div BfsW)
  BY <1>1, <1>2, <1>3
<1>10. Bfs!MutexOK(d)'
  BY <1>1, <1>5, <1>7, <1>8, <1>9, BfsNeighbour DEF Bfs!MutexOK, x
<1>11. frontier[d] \cap visited[d] = {}
  BY DEF Bfs!BitmapsOK
<1>12. ASSUME level > 0, Bfs!FrontierOK(d)
       PROVE  frontier[d] \subseteq Bfs!Ball[level] /\ nbs[d][t] \subseteq Bfs!Ball[level]
  BY <1>1, <1>12 DEF Bfs!FrontierOK, Bfs!In
<1>13. pos'[d][t] >= pos[d][t]
  BY <1>1, <1>2
<1>14. spot[d][t] # "node"
  BY <1>1
<1>15. QED
  BY <1>1, <1>3, <1>4, <1>5, <1>6, <1>10, <1>11, <1>12, <1>13, <1>14, BfsExpands

\* No bit that another tasklet has set is overwritten.
LEMMA BfsStores ==
  ASSUME Bfs!Sized, Bfs!SearchInv, NEW d \in Bfs!DPU, NEW t \in Bfs!Tasklets, Bfs!Store(d, t)
  PROVE  Bfs!SearchInv'
<1> USE DEF Bfs!SearchInv
<1> DEFINE x == Bfs!Neighbour(d, t)
<1>1. /\ spot[d][t] = "store" /\ spot' = [spot EXCEPT ![d][t] = "edge"]
      /\ frontier' = [frontier EXCEPT ![d] = (@ \ Bfs!NodesOf(x \div BfsW)) \cup word[d][t] \cup {x}]
      /\ nbs' = [nbs EXCEPT ![d][t] = @ \ {x}] /\ lock' = [lock EXCEPT ![d] = FALSE]
      /\ UNCHANGED <<net, pos, word, current, visited, level, levels>>
  BY DEF Bfs!Store, Bfs!Goto, Bfs!results
<1>2. /\ word[d][t] = frontier[d] \cap Bfs!NodesOf(x \div BfsW) /\ x \notin visited[d]
      /\ nbs[d][t] # {} /\ \A u \in Bfs!Tasklets \ {t} : spot[d][u] \notin {"load", "store"}
  BY <1>1 DEF Bfs!MutexOK
<1>3. x \in nbs[d][t] /\ x \in Bfs!Nodes
  <2>1. nbs[d][t] \subseteq Bfs!Nodes
    BY DEF Bfs!TypeOK
  <2>2. nbs[d][t] \subseteq Nat
    BY <2>1, BfsNumbers
  <2>3. QED
    BY <1>2, <2>1, <2>2, BfsNeighbour
<1> HIDE DEF x
<1>4. /\ spot \in [Bfs!DPU -> [Bfs!Tasklets -> {"host", "sweep", "exit"} \cup Bfs!Expanding]]
      /\ pos[d][t] \in Nat /\ lock \in [Bfs!DPU -> BOOLEAN]
      /\ nbs \in [Bfs!DPU -> [Bfs!Tasklets -> SUBSET Bfs!Nodes]]
      /\ frontier \in [Bfs!DPU -> SUBSET Bfs!Nodes]
  BY DEF Bfs!TypeOK
<1>5. frontier'[d] = frontier[d] \cup {x}
  BY <1>1, <1>2, <1>4
<1>6. spot'[d][t] = "edge" /\ nbs'[d][t] = nbs[d][t] \ {x} /\ {"store", "edge"} \subseteq Bfs!Expanding
  BY <1>1, <1>4 DEF Bfs!Expanding
<1>7. Bfs!TypeOK'
  <2>1. spot' \in [Bfs!DPU -> [Bfs!Tasklets -> {"host", "sweep", "exit"} \cup Bfs!Expanding]]
    BY <1>1, <1>4, <1>6
  <2>2. lock' \in [Bfs!DPU -> BOOLEAN] /\ nbs' \in [Bfs!DPU -> [Bfs!Tasklets -> SUBSET Bfs!Nodes]]
    BY <1>1, <1>4
  <2>3. frontier' \in [Bfs!DPU -> SUBSET Bfs!Nodes]
    <3>1. frontier'[d] \subseteq Bfs!Nodes
      BY <1>3, <1>4, <1>5
    <3>2. QED
      BY <1>1, <1>4, <3>1
  <2>4. QED
    BY <1>1, <2>1, <2>2, <2>3 DEF Bfs!TypeOK
<1>8. \A u \in Bfs!Tasklets \ {t} : spot'[d][u] = spot[d][u] /\ nbs'[d][u] = nbs[d][u]
  BY <1>1, <1>4
<1>9. \A e \in Bfs!DPU \ {d} : /\ spot'[e] = spot[e] /\ nbs'[e] = nbs[e] /\ lock'[e] = lock[e]
                               /\ frontier'[e] = frontier[e]
  BY <1>1, <1>4
<1>10. Bfs!MutexOK(d)'
  BY <1>2, <1>6, <1>8 DEF Bfs!MutexOK
<1>11. frontier'[d] \cap visited[d] = {}
  BY <1>2, <1>5 DEF Bfs!BitmapsOK
<1>12. ASSUME level > 0, Bfs!FrontierOK(d)
       PROVE  frontier'[d] \subseteq Bfs!Ball[level] /\ nbs'[d][t] \subseteq Bfs!Ball[level]
  BY <1>1, <1>3, <1>5, <1>6, <1>12 DEF Bfs!FrontierOK, Bfs!In
<1>13. \A j \in current[d] : \A y \in net[j + Bfs!Start(d)] :
         j = pos[d][t] /\ y \notin nbs'[d][t] =>
           y \in visited[d] \cup frontier'[d] \/ (j = pos[d][t] /\ spot[d][t] # "node" /\ y \notin nbs[d][t])
  BY <1>1, <1>5, <1>6
<1>14. pos'[d][t] >= pos[d][t] /\ frontier[d] \subseteq frontier'[d]
  BY <1>1, <1>4, <1>5
<1>15. \A j \in current[d] : \A y \in net[j + Bfs!Start(d)] :
         j < pos'[d][t] \/ (j = pos'[d][t] /\ spot'[d][t] # "node" /\ y \notin nbs'[d][t]) =>
           \/ y \in visited[d] \cup frontier'[d]
           \/ j < pos[d][t] \/ (j = pos[d][t] /\ spot[d][t] # "node" /\ y \notin nbs[d][t])
  BY <1>1, <1>13
<1>16. spot[d][t] \in Bfs!Expanding /\ spot'[d][t] \in Bfs!Expanding
  BY <1>1, <1>6
<1>17. UNCHANGED <<net, pos, word, current, visited, level, levels>>
  BY <1>1
<1>18. QED
  BY <1>7, <1>8, <1>9, <1>10, <1>11, <1>12, <1>14, <1>15, <1>16, <1>17, BfsExpands

\* A word of the frontier: its nodes become visited, current and levelled.
LEMMA BfsSweeps ==
  ASSUME Bfs!Sized, Bfs!SearchInv, NEW d \in Bfs!DPU, NEW t \in Bfs!Tasklets, Bfs!Sweep(d, t)
  PROVE  Bfs!SearchInv'
<1> USE DEF Bfs!SearchInv
<1> DEFINE w == pos[d][t]
           nf == frontier[d] \cap Bfs!NodesOf(w)
           own == {j \in 0 .. BfsLocal - 1 : j + Bfs!Start(d) \in Bfs!NodesOf(w)}
           new == {j \in own : j + Bfs!Start(d) \in nf}
           marks == [j \in DOMAIN levels[d] |-> IF j \in new THEN level ELSE levels[d][j]]
<1>1. /\ spot[d][t] = "sweep" /\ w \in Bfs!Words
      /\ frontier' = [frontier EXCEPT ![d] = @ \ nf]
      /\ current' = [current EXCEPT ![d] = (@ \ own) \cup new]
      /\ levels' = [levels EXCEPT ![d] = marks]
      /\ pos' = [pos EXCEPT ![d][t] = @ + BfsN]
      /\ visited' = [visited EXCEPT ![d] = @ \cup nf]
      /\ UNCHANGED <<net, spot, nbs, word, lock, level>>
  BY DEF Bfs!Sweep, Bfs!TakeWord
<1>2. /\ pos \in [Bfs!DPU -> [Bfs!Tasklets -> Nat]] /\ w \in Nat /\ level \in Nat
      /\ current \in [Bfs!DPU -> SUBSET (0 .. BfsLocal - 1)]
      /\ visited \in [Bfs!DPU -> SUBSET Bfs!Nodes] /\ frontier \in [Bfs!DPU -> SUBSET Bfs!Nodes]
      /\ levels \in [Bfs!DPU -> [0 .. BfsLocal - 1 -> Nat]]
  BY DEF Bfs!TypeOK
<1>3. Bfs!In(d, {"sweep"}) /\ ~ Bfs!In(d, {"host"}) /\ ~ Bfs!In(d, {"exit"})
  BY <1>1, BfsWhere
<1>4. Bfs!In(d, {"sweep"})' /\ ~ Bfs!In(d, {"exit"})' /\ \A u \in Bfs!Tasklets : spot'[d][u] = "sweep"
  BY <1>1, <1>3 DEF Bfs!In
<1>5. level # 0
  BY <1>3 DEF Bfs!PhaseOK
<1>6. w % BfsN = t
  BY <1>3 DEF Bfs!BitmapsOK
<1>7. /\ frontier'[d] = frontier[d] \ nf /\ visited'[d] = visited[d] \cup nf
      /\ current'[d] = (current[d] \ own) \cup new
  BY <1>1, <1>2
<1>8. levels'[d] = marks
  BY <1>1, <1>2
<1>9. \A j \in 0 .. BfsLocal - 1 : levels'[d][j] = IF j \in new THEN level ELSE levels[d][j]
  BY <1>2, <1>8
<1>10. pos'[d] = [pos[d] EXCEPT ![t] = w + BfsN]
  BY <1>1, <1>2
<1>11. \A u \in Bfs!Tasklets : pos'[d][u] = IF u = t THEN w + BfsN ELSE pos[d][u]
  <2>1. pos[d] \in [Bfs!Tasklets -> Nat]
    BY <1>2
  <2>2. QED
    BY <1>10, <2>1
<1>12. (w + BfsN) % BfsN = t /\ BfsN \in Nat \ {0} /\ w + BfsN \in Nat
  <2>1. BfsN \in Nat \ {0}
    BY BfsNumbers
  <2>2. w \in Nat
    BY <1>2
  <2> HIDE DEF w
  <2>3. (w + BfsN) % BfsN = w % BfsN
    BY <2>1, <2>2, Turns
  <2>4. QED
    BY <1>6, <2>1, <2>2, <2>3
<1>13. ASSUME NEW v \in Bfs!Words
       PROVE  /\ Bfs!Taken(d, v)' <=> Bfs!Taken(d, v) \/ v = w
              /\ ~ Bfs!Taken(d, w)
  <2>1. v \in Nat /\ v % BfsN \in Bfs!Tasklets
    <3>1. v \in Nat
      BY BfsNumbers
    <3>2. QED
      BY <1>12, <3>1, Turns, BfsNumbers
  <2>2. ~ Bfs!Taken(d, w)
    BY <1>2, <1>6 DEF Bfs!Taken
  <2>3. CASE v % BfsN = t
    <3>1. v < w + BfsN <=> v < w \/ v = w
      BY <1>2, <1>6, <1>12, <2>1, <2>3, Turns
    <3>2. pos'[d][t] = w + BfsN
      BY <1>11
    <3>3. (Bfs!Taken(d, v)' <=> v < w + BfsN) /\ (Bfs!Taken(d, v) <=> v < w)
      BY <2>3, <3>2 DEF Bfs!Taken
    <3>4. QED
      BY <2>2, <3>1, <3>3
  <2>4. CASE v % BfsN # t
    <3>1. pos'[d][v % BfsN] = pos[d][v % BfsN]
      BY <1>11, <2>1, <2>4
    <3>2. Bfs!Taken(d, v)' <=> Bfs!Taken(d, v)
      BY <3>1 DEF Bfs!Taken
    <3>3. QED
      BY <1>6, <2>2, <2>4, <3>2
  <2>5. QED
    BY <2>3, <2>4
<1> HIDE DEF marks
<1>14. Bfs!TypeOK'
  <2>1. pos' \in [Bfs!DPU -> [Bfs!Tasklets -> Nat]]
    <3>1. [pos[d] EXCEPT ![t] = w + BfsN] \in [Bfs!Tasklets -> Nat]
      BY <1>2, <1>12
    <3>2. pos' = [pos EXCEPT ![d] = [pos[d] EXCEPT ![t] = w + BfsN]]
      BY <1>1, <1>2
    <3>3. QED
      BY <1>2, <3>1, <3>2
  <2>2. current' \in [Bfs!DPU -> SUBSET (0 .. BfsLocal - 1)]
    <3>1. current'[d] \subseteq 0 .. BfsLocal - 1
      BY <1>2, <1>7
    <3>2. QED
      BY <1>1, <1>2, <1>7, <3>1
  <2>3. visited' \in [Bfs!DPU -> SUBSET Bfs!Nodes] /\ frontier' \in [Bfs!DPU -> SUBSET Bfs!Nodes]
    BY <1>1, <1>2
  <2>4. levels' \in [Bfs!DPU -> [0 .. BfsLocal - 1 -> Nat]]
    <3>1. marks \in [0 .. BfsLocal - 1 -> Nat]
      <4>1. levels[d] \in [0 .. BfsLocal - 1 -> Nat]
        BY <1>2
      <4>2. QED
        BY <1>2, <4>1 DEF marks
    <3>2. QED
      BY <1>1, <1>2, <3>1
  <2>5. QED
    BY <1>1, <2>1, <2>2, <2>3, <2>4 DEF Bfs!TypeOK
<1>15. \A e \in Bfs!DPU \ {d} :
         /\ pos'[e] = pos[e] /\ current'[e] = current[e] /\ visited'[e] = visited[e]
         /\ frontier'[e] = frontier[e] /\ levels'[e] = levels[e]
  BY <1>1, <1>2
<1>16. Bfs!Seen(d)' = Bfs!Seen(d)
  BY <1>3, <1>4, <1>7 DEF Bfs!Seen
<1>17. \A j \in 0 .. BfsLocal - 1 : /\ j \in own <=> (j + Bfs!Start(d)) \div BfsW = w
                                    /\ j \in new <=> j + Bfs!Start(d) \in nf
                                    /\ (j + Bfs!Start(d)) \div BfsW \in Bfs!Words
                                    /\ j + Bfs!Start(d) \in Bfs!Nodes
  BY BfsOwner, BfsWordOf DEF Bfs!NodesOf
<1> HIDE DEF own, new
<1>18. Bfs!BitmapsOK(d)'
  <2> USE DEF Bfs!BitmapsOK
  <2>1. frontier'[d] \cap visited'[d] = {}
    BY <1>7
  <2>2. \A u \in Bfs!Tasklets : pos'[d][u] % BfsN = u
    BY <1>3, <1>11, <1>12
  <2>3. ASSUME NEW v \in Bfs!Words, Bfs!Taken(d, v)' PROVE frontier'[d] \cap Bfs!NodesOf(v) = {}
    BY <1>3, <1>7, <1>13, <2>3
  <2>4. ASSUME NEW j \in 0 .. BfsLocal - 1
        PROVE  levels'[d][j] # 0 <=> j + Bfs!Start(d) \in visited'[d]
    BY <1>5, <1>7, <1>9, <1>17
  <2>5. ~ Bfs!In(d, Bfs!Expanding)'
    BY <1>4, BfsNumbers DEF Bfs!In, Bfs!Expanding
  <2>6. QED
    BY <1>4, <2>1, <2>2, <2>3, <2>4, <2>5
<1>19. Bfs!MutexOK(d)'
  BY <1>4 DEF Bfs!MutexOK
<1>20. ASSUME level > 0, Bfs!Seen(d) = Bfs!Ball[level - 1],
              Bfs!FrontierOK(d)
       PROVE  Bfs!FrontierOK(d)'
  <2> DEFINE R == Bfs!Ring(level - 1)
  <2>1. R \subseteq Bfs!Nodes
    <3>1. level \in Nat \ {0}
      BY <1>2, <1>20, BfsNumbers
    <3>2. R \subseteq Bfs!Ball[level - 1]
      BY <3>1, BfsRings
    <3>3. R \subseteq Bfs!Seen(d)
      BY ONLY <1>20, <3>2
    <3>4. Bfs!Seen(d) \subseteq Bfs!Nodes
      BY <1>2 DEF Bfs!Seen
    <3>5. QED
      BY ONLY <3>3, <3>4
  <2>2. R' = R /\ \A k : Bfs!Ring(k)' = Bfs!Ring(k)
    BY <1>1, BfsSameBall
  <2>3. frontier[d] = {x \in R : ~ Bfs!Taken(d, x \div BfsW)}
    BY <1>3, <1>20 DEF Bfs!FrontierOK
  <2>4. \A j \in 0 .. BfsLocal - 1 : Bfs!Taken(d, (j + Bfs!Start(d)) \div BfsW) =>
          (j \in current[d] <=> j + Bfs!Start(d) \in R)
    BY <1>3, <1>20 DEF Bfs!FrontierOK
  <2>5. \A j \in 0 .. BfsLocal - 1 : levels[d][j] # 0 =>
          levels[d][j] <= level /\ j + Bfs!Start(d) \in Bfs!Ring(levels[d][j] - 1)
    BY <1>20 DEF Bfs!FrontierOK
  <2> HIDE DEF R
  <2>6. ASSUME NEW j \in 0 .. BfsLocal - 1, levels'[d][j] # 0
        PROVE  levels'[d][j] <= level /\ j + Bfs!Start(d) \in Bfs!Ring(levels'[d][j] - 1)
    <3>1. CASE j \in new
      <4>1. levels'[d][j] = level /\ j + Bfs!Start(d) \in R
        BY <1>9, <1>17, <2>3, <3>1
      <4>2. QED
        BY <1>2, <4>1 DEF R
    <3>2. CASE j \notin new
      BY <1>9, <2>5, <2>6, <3>2
    <3>3. QED
      BY <3>1, <3>2
  <2>7. frontier'[d] = {x \in R : ~ Bfs!Taken(d, x \div BfsW)'}
    <3>1. \A x \in R : x \div BfsW \in Bfs!Words /\ (x \in Bfs!NodesOf(w) <=> x \div BfsW = w)
      BY <2>1, BfsWordOf DEF Bfs!NodesOf
    <3>2. \A x \in R : x \in nf <=> x \in frontier[d] /\ x \div BfsW = w
      BY <3>1
    <3>3. frontier'[d] \subseteq R
      BY <1>7, <2>3
    <3>4. ASSUME NEW x \in R PROVE x \in frontier'[d] <=> ~ Bfs!Taken(d, x \div BfsW)'
      <4>1. Bfs!Taken(d, x \div BfsW)' <=> Bfs!Taken(d, x \div BfsW) \/ x \div BfsW = w
        BY <1>13, <3>1
      <4>2. x \in frontier[d] <=> ~ Bfs!Taken(d, x \div BfsW)
        BY <2>3
      <4>3. QED
        BY <1>7, <3>2, <4>1, <4>2
    <3>5. QED
      BY <3>3, <3>4
  <2>8. ASSUME NEW j \in 0 .. BfsLocal - 1, Bfs!Taken(d, (j + Bfs!Start(d)) \div BfsW)'
        PROVE  j \in current'[d] <=> j + Bfs!Start(d) \in R
    <3> DEFINE x == j + Bfs!Start(d)
    <3>1. CASE x \div BfsW = w
      <4>1. j \in own /\ ~ Bfs!Taken(d, x \div BfsW)
        BY <1>1, <1>13, <1>17, <3>1
      <4>2. j \in current'[d] <=> x \in nf
        BY <1>7, <1>17, <4>1
      <4>3. x \in Bfs!NodesOf(w)
        BY <1>17, <3>1 DEF Bfs!NodesOf
      <4>4. x \in nf <=> x \in R
        BY <2>3, <4>1, <4>3
      <4>5. QED
        BY <4>2, <4>4
    <3>2. CASE x \div BfsW # w
      <4>1. Bfs!Taken(d, x \div BfsW) /\ j \notin own
        BY <1>13, <1>17, <2>8, <3>2
      <4>2. j \notin new
        BY <4>1 DEF new
      <4>3. QED
        BY <1>7, <2>4, <4>1, <4>2
    <3>3. QED
      BY <3>1, <3>2
  <2>9. ~ Bfs!In(d, {"host"})' /\ ~ Bfs!In(d, Bfs!Expanding)'
    BY <1>4, BfsNumbers DEF Bfs!In, Bfs!Expanding
  <2>10. QED
    BY <1>1, <1>4, <2>2, <2>6, <2>7, <2>8, <2>9 DEF Bfs!FrontierOK, R
<1>21. QED
  BY <1>1, <1>3, <1>4, <1>14, <1>15, <1>16, <1>18, <1>19, <1>20, BfsStep

\* When every word has been taken nothing is left of the next frontier.
LEMMA BfsSwept ==
  ASSUME Bfs!Sized, Bfs!SearchInv, NEW d \in Bfs!DPU, Bfs!SweepBarrier(d)
  PROVE  Bfs!SearchInv'
<1> USE DEF Bfs!SearchInv
<1>1. /\ \A t \in Bfs!Tasklets : spot[d][t] = "sweep" /\ pos[d][t] \notin Bfs!Words
      /\ spot' = [spot EXCEPT ![d] = [t \in Bfs!Tasklets |-> "node"]]
      /\ pos' = [pos EXCEPT ![d] = [t \in Bfs!Tasklets |-> t * Bfs!PerTasklet]]
      /\ UNCHANGED <<net, nbs, word, lock, current, visited, frontier, level, levels>>
  BY DEF Bfs!SweepBarrier, Bfs!bitmaps, Bfs!results
<1>2. /\ spot \in [Bfs!DPU -> [Bfs!Tasklets -> {"host", "sweep", "exit"} \cup Bfs!Expanding]]
      /\ pos \in [Bfs!DPU -> [Bfs!Tasklets -> Nat]] /\ frontier[d] \subseteq Bfs!Nodes
      /\ level \in Nat
  BY DEF Bfs!TypeOK
<1>3. Bfs!In(d, {"sweep"}) /\ ~ Bfs!In(d, {"host"}) /\ ~ Bfs!In(d, {"exit"})
  BY <1>1, BfsNumbers DEF Bfs!In
<1>4. \A t \in Bfs!Tasklets : spot'[d][t] = "node" /\ pos'[d][t] = t * Bfs!PerTasklet
  BY <1>1, <1>2
<1>5. /\ Bfs!In(d, Bfs!Expanding)' /\ ~ Bfs!In(d, {"host"})'
      /\ ~ Bfs!In(d, {"exit"})' /\ ~ Bfs!In(d, {"sweep"})'
  BY <1>4, BfsNumbers DEF Bfs!In, Bfs!Expanding
<1>6. ASSUME NEW w \in Bfs!Words PROVE Bfs!Taken(d, w)
  <2> DEFINE last == (BfsDpus * BfsLocal) \div BfsW - 1
             p == pos[d][w % BfsN]
  <2>1. Bfs!Words = 0 .. last
    BY DEF Bfs!Words
  <2>2. BfsW \in Nat \ {0} /\ BfsN \in Nat \ {0} /\ BfsDpus * BfsLocal \in Nat /\ w \in Nat
    BY BfsNumbers
  <2>3. last \in Int
    <3> DEFINE a == BfsDpus * BfsLocal
    <3>1. a \in Nat
      BY <2>2
    <3> HIDE DEF a
    <3>2. a \div BfsW \in Nat
      BY <2>2, <3>1, DivMod
    <3>3. QED
      BY <3>2 DEF a
  <2>4. w % BfsN \in Bfs!Tasklets
    BY <2>2, Turns, BfsNumbers
  <2>5. p \in Nat /\ p \notin Bfs!Words
    BY <1>1, <1>2, <2>4
  <2> HIDE DEF last, p
  <2>6. w < p
    BY <2>1, <2>2, <2>3, <2>5
  <2>7. QED
    BY <2>6 DEF p, Bfs!Taken
<1>7. frontier[d] = {}
  <2>1. ASSUME NEW x \in frontier[d] PROVE FALSE
    <3>1. x \div BfsW \in Bfs!Words /\ x \in Bfs!NodesOf(x \div BfsW)
      BY <1>2, BfsWordOf DEF Bfs!NodesOf
    <3>2. frontier[d] \cap Bfs!NodesOf(x \div BfsW) = {}
      BY <1>3, <1>6, <3>1 DEF Bfs!BitmapsOK
    <3>3. QED
      BY <3>1, <3>2
  <2>2. QED
    BY <2>1
<1>8. Bfs!TypeOK'
  <2>1. spot' \in [Bfs!DPU -> [Bfs!Tasklets -> {"host", "sweep", "exit"} \cup Bfs!Expanding]]
    BY <1>1, <1>2 DEF Bfs!Expanding
  <2>2. pos' \in [Bfs!DPU -> [Bfs!Tasklets -> Nat]]
    <3>1. [t \in Bfs!Tasklets |-> t * Bfs!PerTasklet] \in [Bfs!Tasklets -> Nat]
      BY BfsShares
    <3>2. QED
      BY <1>1, <1>2, <3>1
  <2>3. QED
    BY <1>1, <2>1, <2>2 DEF Bfs!TypeOK
<1>9. \A e \in Bfs!DPU \ {d} : spot'[e] = spot[e] /\ pos'[e] = pos[e]
  BY <1>1, <1>2
<1>10. Bfs!Seen(d)' = Bfs!Seen(d)
  BY <1>1, <1>3, <1>5, <1>7 DEF Bfs!Seen
<1>11. Bfs!BitmapsOK(d)'
  <2>1. \A t \in Bfs!Tasklets : pos'[d][t] >= t * Bfs!PerTasklet
    BY <1>4, BfsShares
  <2>2. \A j \in 0 .. BfsLocal - 1 : levels[d][j] # 0 <=> j + Bfs!Start(d) \in visited[d]
    BY DEF Bfs!BitmapsOK
  <2>3. QED
    BY <1>1, <1>5, <1>7, <2>1, <2>2 DEF Bfs!BitmapsOK
<1>12. Bfs!MutexOK(d)'
  BY <1>4 DEF Bfs!MutexOK
<1>13. ASSUME level > 0, Bfs!FrontierOK(d) PROVE Bfs!FrontierOK(d)'
  <2>1. /\ \A j \in 0 .. BfsLocal - 1 : levels[d][j] # 0 =>
             levels[d][j] <= level /\ j + Bfs!Start(d) \in Bfs!Ring(levels[d][j] - 1)
        /\ \A j \in 0 .. BfsLocal - 1 : Bfs!Taken(d, (j + Bfs!Start(d)) \div BfsW) =>
             (j \in current[d] <=> j + Bfs!Start(d) \in Bfs!Ring(level - 1))
    BY <1>3, <1>13 DEF Bfs!FrontierOK
  <2>2. \A j \in 0 .. BfsLocal - 1 : j \in current[d] <=> j + Bfs!Start(d) \in Bfs!Ring(level - 1)
    BY <1>6, <2>1, BfsOwner, BfsWordOf
  <2>3. \A j, y : ~ Bfs!Handled(d, j, y)'
    <3> SUFFICES ASSUME NEW j, NEW y, NEW t \in Bfs!Tasklets, j \in Bfs!Share(t)
                 PROVE  ~ (j < t * Bfs!PerTasklet)
      BY <1>4 DEF Bfs!Handled
    <3>1. QED
      BY BfsShares
  <2>4. \A k : Bfs!Ring(k)' = Bfs!Ring(k)
    BY <1>1, BfsSameBall
  <2>5. /\ \A j \in 0 .. BfsLocal - 1 : levels'[d][j] # 0 =>
             levels'[d][j] <= level' /\ j + Bfs!Start(d) \in Bfs!Ring(levels'[d][j] - 1)
        /\ \A j \in 0 .. BfsLocal - 1 : j \in current'[d] <=> j + Bfs!Start(d) \in Bfs!Ring(level' - 1)
    BY <1>1, <2>1, <2>2
  <2>6. frontier'[d] = {}
    BY <1>1, <1>7
  <2>7. \A t \in Bfs!Tasklets : spot'[d][t] \notin {"edge", "load", "store"}
    BY <1>4
  <2>8. QED
    BY <1>5, <2>3, <2>4, <2>5, <2>6, <2>7 DEF Bfs!FrontierOK
<1>14. QED
  BY <1>1, <1>3, <1>5, <1>8, <1>9, <1>10, <1>11, <1>12, <1>13, BfsStep

\* When every tasklet is through its nodes every edge has been looked at.
LEMMA BfsLevelEnds ==
  ASSUME Bfs!Sized, Bfs!SearchInv, NEW d \in Bfs!DPU, Bfs!LevelBarrier(d)
  PROVE  Bfs!SearchInv'
<1> USE DEF Bfs!SearchInv
<1>1. /\ \A t \in Bfs!Tasklets : spot[d][t] = "node" /\ pos[d][t] \notin Bfs!Share(t)
      /\ spot' = [spot EXCEPT ![d] = [t \in Bfs!Tasklets |-> "host"]]
      /\ UNCHANGED <<net, pos, nbs, word, lock, current, visited, frontier, level, levels>>
  BY DEF Bfs!LevelBarrier, Bfs!bitmaps, Bfs!results
<1>2. /\ spot \in [Bfs!DPU -> [Bfs!Tasklets -> {"host", "sweep", "exit"} \cup Bfs!Expanding]]
      /\ pos \in [Bfs!DPU -> [Bfs!Tasklets -> Nat]] /\ level \in Nat
      /\ current[d] \subseteq 0 .. BfsLocal - 1
  BY DEF Bfs!TypeOK
<1>3. /\ Bfs!In(d, Bfs!Expanding) /\ ~ Bfs!In(d, {"host"})
      /\ ~ Bfs!In(d, {"exit"}) /\ ~ Bfs!In(d, {"sweep"})
  BY <1>1, BfsNumbers DEF Bfs!In, Bfs!Expanding
<1>4. \A t \in Bfs!Tasklets : spot'[d][t] = "host"
  BY <1>1, <1>2
<1>5. /\ Bfs!In(d, {"host"})' /\ ~ Bfs!In(d, Bfs!Expanding)'
      /\ ~ Bfs!In(d, {"exit"})' /\ ~ Bfs!In(d, {"sweep"})'
  BY <1>4, BfsNumbers DEF Bfs!In, Bfs!Expanding
<1>6. Bfs!TypeOK'
  <2>1. spot' \in [Bfs!DPU -> [Bfs!Tasklets -> {"host", "sweep", "exit"} \cup Bfs!Expanding]]
    BY <1>1, <1>2
  <2>2. QED
    BY <1>1, <2>1 DEF Bfs!TypeOK
<1>7. \A e \in Bfs!DPU \ {d} : spot'[e] = spot[e]
  BY <1>1, <1>2
<1>8. Bfs!Seen(d)' = Bfs!Seen(d)
  BY <1>1, <1>3, <1>5 DEF Bfs!Seen
<1>9. Bfs!BitmapsOK(d)'
  <2>1. /\ frontier[d] \cap visited[d] = {}
        /\ \A j \in 0 .. BfsLocal - 1 : levels[d][j] # 0 <=> j + Bfs!Start(d) \in visited[d]
    BY DEF Bfs!BitmapsOK
  <2>2. QED
    BY <1>1, <1>5, <2>1 DEF Bfs!BitmapsOK
<1>10. Bfs!MutexOK(d)'
  BY <1>4 DEF Bfs!MutexOK
<1>11. ASSUME level > 0, Bfs!FrontierOK(d) PROVE Bfs!FrontierOK(d)'
  <2>1. ASSUME NEW j \in current[d], NEW y \in net[j + Bfs!Start(d)]
        PROVE  y \in visited[d] \cup frontier[d]
    <3>1. PICK t \in Bfs!Tasklets : j \in Bfs!Share(t)
      BY <1>2, BfsShares
    <3>2. pos[d][t] >= t * Bfs!PerTasklet /\ pos[d][t] \in Nat /\ pos[d][t] \notin Bfs!Share(t)
      BY <1>1, <1>2, <1>3 DEF Bfs!BitmapsOK
    <3>3. j < pos[d][t]
      BY <1>2, <3>1, <3>2, BfsShares
    <3>4. Bfs!Handled(d, j, y)
      BY <3>1, <3>3 DEF Bfs!Handled
    <3>5. QED
      BY <1>3, <1>11, <3>4 DEF Bfs!FrontierOK
  <2>2. /\ \A j \in 0 .. BfsLocal - 1 : levels[d][j] # 0 =>
             levels[d][j] <= level /\ j + Bfs!Start(d) \in Bfs!Ring(levels[d][j] - 1)
        /\ \A j \in 0 .. BfsLocal - 1 : j \in current[d] <=> j + Bfs!Start(d) \in Bfs!Ring(level - 1)
        /\ frontier[d] \subseteq Bfs!Ball[level]
    BY <1>3, <1>11 DEF Bfs!FrontierOK
  <2>3. /\ \A j \in 0 .. BfsLocal - 1 : levels'[d][j] # 0 =>
             levels'[d][j] <= level' /\ j + Bfs!Start(d) \in Bfs!Ring(levels'[d][j] - 1)
        /\ \A j \in 0 .. BfsLocal - 1 : j \in current'[d] <=> j + Bfs!Start(d) \in Bfs!Ring(level' - 1)
        /\ frontier'[d] \subseteq Bfs!Ball[level']
    BY <1>1, <2>2
  <2>4. \A j \in current'[d] : \A y \in net'[j + Bfs!Start(d)] : y \in visited'[d] \cup frontier'[d]
    BY <1>1, <2>1
  <2>5. \A t \in Bfs!Tasklets : spot'[d][t] \notin {"edge", "load", "store"}
    BY <1>4
  <2>6. (\A k : Bfs!Ring(k)' = Bfs!Ring(k)) /\ Bfs!Ball' = Bfs!Ball
    BY <1>1, BfsSameBall
  <2>7. QED
    BY <1>5, <2>3, <2>4, <2>5, <2>6 DEF Bfs!FrontierOK
<1>12. QED
  BY <1>1, <1>3, <1>5, <1>6, <1>7, <1>8, <1>9, <1>10, <1>11, BfsStep

\* Between two turns the frontiers together are the nodes one step further.
LEMMA BfsFound ==
  ASSUME Bfs!Sized, Bfs!SearchInv, \A d \in Bfs!DPU : Bfs!In(d, {"host"})
  PROVE  /\ \A d \in Bfs!DPU : visited[d] = (IF level = 0 THEN {} ELSE Bfs!Ball[level - 1])
         /\ Bfs!Found = Bfs!Ring(level)
         /\ Bfs!Found = Bfs!Ball[level] \ (IF level = 0 THEN {} ELSE Bfs!Ball[level - 1])
<1> USE DEF Bfs!SearchInv
<1>1. level \in Nat /\ net \in [Bfs!Nodes -> SUBSET Bfs!Nodes]
  BY BfsNumbers DEF Bfs!TypeOK, Bfs!Sized
<1>2. CASE level = 0
  BY <1>1, <1>2, BfsBall DEF Bfs!PhaseOK, Bfs!Ring
<1>3. CASE level # 0
  <2>1. level \in Nat \ {0}
    BY <1>1, <1>3
  <2>2. \A d \in Bfs!DPU : ~ Bfs!In(d, {"sweep"}) /\ ~ Bfs!In(d, {"exit"})
    BY BfsWhere, BfsNumbers
  <2>3. \A d \in Bfs!DPU : visited[d] = Bfs!Ball[level - 1] /\ Bfs!FrontierOK(d)
    <3>1. \A d \in Bfs!DPU : Bfs!Seen(d) = visited[d]
      BY <2>2 DEF Bfs!Seen
    <3>2. level > 0
      BY <2>1, <1>1
    <3>3. QED
      BY <2>2, <3>1, <3>2 DEF Bfs!DistancesOK
  <2>4. ASSUME NEW d \in Bfs!DPU
        PROVE  /\ \A j \in 0 .. BfsLocal - 1 :
                    j \in current[d] <=> j + Bfs!Start(d) \in Bfs!Ring(level - 1)
               /\ frontier[d] \subseteq Bfs!Ball[level]
               /\ \A j \in current[d] : \A y \in net[j + Bfs!Start(d)] : y \in visited[d] \cup frontier[d]
    BY <2>1, <2>2, <2>3 DEF Bfs!FrontierOK
  <2>5. Bfs!Found \subseteq Bfs!Ball[level] \ Bfs!Ball[level - 1]
    BY <2>3, <2>4 DEF Bfs!Found, Bfs!BitmapsOK
  <2>6. ASSUME NEW y \in Bfs!Ball[level] \ Bfs!Ball[level - 1] PROVE y \in Bfs!Found
    <3>1. PICK x \in Bfs!Ring(level - 1) : y \in net[x]
      BY <2>1, BfsRings
    <3>2. x \in Bfs!Nodes
      <4>1. x \in visited[0]
        BY <2>1, <2>3, BfsRings, BfsNumbers
      <4>2. QED
        BY <4>1, BfsNumbers DEF Bfs!TypeOK
    <3>3. PICK e \in Bfs!DPU, j \in 0 .. BfsLocal - 1 : x = j + Bfs!Start(e)
      BY <3>2, BfsOwner
    <3>4. y \in frontier[e]
      BY <2>3, <2>4, <3>1, <3>3
    <3>5. QED
      BY <3>4 DEF Bfs!Found
  <2>7. Bfs!Ring(level) = Bfs!Ball[level] \ Bfs!Ball[level - 1]
    BY <1>3 DEF Bfs!Ring
  <2>8. QED
    BY <1>1, <1>3, <2>3, <2>5, <2>6, <2>7
<1>4. QED
  BY <1>2, <1>3

LEMMA BfsTurns ==
  ASSUME Bfs!Sized, Bfs!SearchInv, Bfs!HostTurn
  PROVE  Bfs!SearchInv'
<1> USE DEF Bfs!SearchInv
<1> DEFINE l == IF Bfs!Found = {} THEN "exit" ELSE "sweep"
<1>1. /\ \A d \in Bfs!DPU : \A t \in Bfs!Tasklets : spot[d][t] = "host"
      /\ spot' = [d \in Bfs!DPU |-> [t \in Bfs!Tasklets |-> l]]
      /\ pos' = [d \in Bfs!DPU |-> [t \in Bfs!Tasklets |-> t]]
      /\ frontier' = [d \in Bfs!DPU |-> Bfs!Found] /\ level' = level + 1
      /\ UNCHANGED <<net, nbs, word, lock, current, visited, levels>>
  BY DEF Bfs!HostTurn
<1> HIDE DEF l
<1>2. /\ net \in [Bfs!Nodes -> SUBSET Bfs!Nodes] /\ level \in Nat
      /\ frontier \in [Bfs!DPU -> SUBSET Bfs!Nodes]
      /\ levels \in [Bfs!DPU -> [0 .. BfsLocal - 1 -> Nat]]
  BY DEF Bfs!TypeOK, Bfs!Sized
<1>3. \A d \in Bfs!DPU : Bfs!In(d, {"host"}) /\ ~ Bfs!In(d, {"exit"}) /\ ~ Bfs!In(d, {"sweep"})
  BY <1>1, BfsNumbers DEF Bfs!In
<1>4. l \in {"exit", "sweep"} /\ (l = "exit" <=> Bfs!Found = {})
  BY DEF l
<1>5. \A d \in Bfs!DPU : /\ \A t \in Bfs!Tasklets : spot'[d][t] = l /\ pos'[d][t] = t
                         /\ frontier'[d] = Bfs!Found
  BY <1>1
<1>6. \A d \in Bfs!DPU : /\ Bfs!In(d, {"exit"})' <=> l = "exit"
                         /\ Bfs!In(d, {"sweep"})' <=> l = "sweep"
                         /\ ~ Bfs!In(d, {"host"})' /\ ~ Bfs!In(d, Bfs!Expanding)'
  BY <1>4, <1>5, BfsNumbers DEF Bfs!In, Bfs!Expanding
<1>7. level' \in Nat /\ level' # 0 /\ level' > 0 /\ level' - 1 = level
  BY <1>1, <1>2
<1>8. Bfs!Found \subseteq Bfs!Nodes
  BY <1>2 DEF Bfs!Found
<1>9. Bfs!TypeOK'
  <2>1. spot' \in [Bfs!DPU -> [Bfs!Tasklets -> {"host", "sweep", "exit"} \cup Bfs!Expanding]]
    BY <1>1, <1>4
  <2>2. pos' \in [Bfs!DPU -> [Bfs!Tasklets -> Nat]]
    BY <1>1, BfsNumbers
  <2>3. frontier' \in [Bfs!DPU -> SUBSET Bfs!Nodes]
    BY <1>1, <1>8
  <2>4. QED
    BY <1>1, <1>7, <2>1, <2>2, <2>3 DEF Bfs!TypeOK
<1>10. \A d, e \in Bfs!DPU : visited[d] = visited[e]
  BY <1>3 DEF Bfs!PhaseOK, Bfs!Seen
<1>11. \A d \in Bfs!DPU : visited'[d] = visited[d] /\ Bfs!Seen(d)' = visited[d] \cup Bfs!Found
  <2>1. \A d \in Bfs!DPU : l = "exit" => Bfs!Seen(d)' = visited'[d] \cup {} /\ Bfs!Found = {}
    BY <1>4, <1>6 DEF Bfs!Seen
  <2>2. \A d \in Bfs!DPU : l = "sweep" => Bfs!Seen(d)' = visited'[d] \cup frontier'[d]
    BY <1>6 DEF Bfs!Seen
  <2>3. QED
    BY <1>1, <1>4, <1>5, <2>1, <2>2
<1>12. Bfs!PhaseOK'
  <2>1. (\A d \in Bfs!DPU : Bfs!In(d, {"exit"})') \/ (\A d \in Bfs!DPU : ~ Bfs!In(d, {"exit"})')
    BY <1>6
  <2>2. \A d, e \in Bfs!DPU : Bfs!Seen(d)' = Bfs!Seen(e)'
    BY <1>10, <1>11
  <2>3. QED
    BY <1>7, <2>1, <2>2 DEF Bfs!PhaseOK
<1>13. ASSUME NEW d \in Bfs!DPU, NEW w \in Bfs!Words PROVE ~ Bfs!Taken(d, w)'
  <2>1. BfsN \in Nat \ {0} /\ w \in Nat
    BY BfsNumbers
  <2>2. w % BfsN \in Bfs!Tasklets /\ ~ (w < w % BfsN)
    BY <2>1, Turns, BfsNumbers
  <2>3. pos'[d][w % BfsN] = w % BfsN
    BY <1>5, <2>2
  <2>4. QED
    BY <2>2, <2>3 DEF Bfs!Taken
<1>14. ASSUME NEW d \in Bfs!DPU PROVE Bfs!BitmapsOK(d)'
  <2>1. Bfs!Found \cap visited[d] = {}
    <3>1. \A e \in Bfs!DPU : frontier[e] \cap visited[d] = {}
      BY <1>10 DEF Bfs!BitmapsOK
    <3>2. QED
      BY <3>1 DEF Bfs!Found
  <2>2. \A t \in Bfs!Tasklets : t % BfsN = t
    <3> SUFFICES ASSUME NEW t \in Bfs!Tasklets PROVE t % BfsN = t
      OBVIOUS
    <3>1. BfsN \in Nat \ {0} /\ t \in 0 .. BfsN - 1
      BY BfsNumbers
    <3>2. QED
      BY <3>1
  <2>3. \A j \in 0 .. BfsLocal - 1 : levels[d][j] # 0 <=> j + Bfs!Start(d) \in visited[d]
    BY DEF Bfs!BitmapsOK
  <2>4. frontier'[d] \cap visited'[d] = {} /\ \A t \in Bfs!Tasklets : pos'[d][t] % BfsN = t
    BY <1>1, <1>5, <2>1, <2>2
  <2>5. \A w \in Bfs!Words : ~ Bfs!Taken(d, w)'
    BY <1>13
  <2>6. Bfs!In(d, {"exit"})' \/ Bfs!In(d, {"sweep"})'
    BY <1>4, <1>6
  <2>7. \A j \in 0 .. BfsLocal - 1 : levels'[d][j] # 0 <=> j + Bfs!Start(d) \in visited'[d]
    BY <1>1, <2>3
  <2>8. QED
    BY <1>6, <2>4, <2>5, <2>6, <2>7 DEF Bfs!BitmapsOK
<1>15. ASSUME NEW d \in Bfs!DPU PROVE Bfs!MutexOK(d)'
  BY <1>4, <1>5 DEF Bfs!MutexOK
<1>16. Bfs!DistancesOK'
  <2> SUFFICES ASSUME \A d \in Bfs!DPU : ~ Bfs!In(d, {"exit"})'
               PROVE  \A d \in Bfs!DPU : Bfs!Seen(d)' = (Bfs!Ball[level - 1])' /\ Bfs!FrontierOK(d)'
    BY <1>1 DEF Bfs!DistancesOK
  <2>2. /\ \A d \in Bfs!DPU : visited[d] = (IF level = 0 THEN {} ELSE Bfs!Ball[level - 1])
        /\ Bfs!Found = Bfs!Ring(level)
        /\ Bfs!Found = Bfs!Ball[level] \ (IF level = 0 THEN {} ELSE Bfs!Ball[level - 1])
    BY <1>3, BfsFound
  <2>3. Bfs!Ball' = Bfs!Ball /\ \A k : Bfs!Ring(k)' = Bfs!Ring(k)
    BY <1>1, BfsSameBall
  <2>4. level # 0 => Bfs!Ball[level - 1] \subseteq Bfs!Ball[level]
    <3>1. level # 0 => level \in Nat \ {0}
      BY <1>2
    <3>2. QED
      BY <3>1, BfsRings
  <2>5. (Bfs!Ball[level - 1])' = Bfs!Ball[level]
    BY <1>7, <2>3
  <2>6. ASSUME NEW d \in Bfs!DPU PROVE Bfs!Seen(d)' = (Bfs!Ball[level - 1])'
    <3> DEFINE B == IF level = 0 THEN {} ELSE Bfs!Ball[level - 1]
    <3>1. Bfs!Seen(d)' = visited[d] \cup Bfs!Found /\ visited[d] = B
      BY <1>11, <2>2
    <3>2. Bfs!Found = Bfs!Ball[level] \ B
      BY <2>2
    <3>3. B \subseteq Bfs!Ball[level]
      BY <2>4
    <3> HIDE DEF B
    <3>4. Bfs!Seen(d)' = Bfs!Ball[level]
      BY ONLY <3>1, <3>2, <3>3
    <3>5. QED
      BY ONLY <2>5, <3>4
  <2>7. ASSUME NEW d \in Bfs!DPU PROVE Bfs!FrontierOK(d)'
    <3>1. \A x \in Bfs!Ring(level) : ~ Bfs!Taken(d, x \div BfsW)'
      BY <1>8, <1>13, <2>2, BfsWordOf
    <3>2. frontier'[d] = {x \in Bfs!Ring(level) : ~ Bfs!Taken(d, x \div BfsW)'}
      BY <1>5, <2>2, <3>1
    <3>3. \A j \in 0 .. BfsLocal - 1 : ~ Bfs!Taken(d, (j + Bfs!Start(d)) \div BfsW)'
      BY <1>13, BfsOwner, BfsWordOf
    <3>4. ASSUME NEW j \in 0 .. BfsLocal - 1, levels'[d][j] # 0
          PROVE  levels'[d][j] <= level' /\ j + Bfs!Start(d) \in Bfs!Ring(levels'[d][j] - 1)
      <4>1. level # 0 /\ levels[d][j] # 0
        <5>1. j + Bfs!Start(d) \in visited[d]
          BY <1>1, <3>4 DEF Bfs!BitmapsOK
        <5>2. QED
          BY <1>1, <2>2, <3>4, <5>1
      <4>2. \A e \in Bfs!DPU : Bfs!FrontierOK(e)
        BY <1>3 DEF Bfs!DistancesOK
      <4>3. levels[d][j] <= level /\ j + Bfs!Start(d) \in Bfs!Ring(levels[d][j] - 1)
        BY <4>1, <4>2 DEF Bfs!FrontierOK
      <4>4. levels[d][j] \in Nat
        BY <1>2
      <4>5. QED
        BY <1>1, <1>2, <4>3, <4>4
    <3>5. \A t \in Bfs!Tasklets : spot'[d][t] \notin {"edge", "load", "store"}
      BY <1>4, <1>5
    <3>6. Bfs!In(d, {"sweep"})'
      BY <1>4, <1>6
    <3>7. (Bfs!Ring(level - 1))' = Bfs!Ring(level)
      BY <1>7, <2>3
    <3>8. QED
      BY <1>6, <1>7, <2>3, <3>2, <3>3, <3>4, <3>5, <3>6, <3>7 DEF Bfs!FrontierOK
  <2>8. QED
    BY <2>6, <2>7
<1>17. QED
  BY <1>9, <1>12, <1>14, <1>15, <1>16

LEMMA BfsInit ==
  ASSUME Bfs!Sized, Bfs!Init
  PROVE  Bfs!SearchInv
<1>1. BfsSource \in Bfs!Nodes /\ 0 \in Bfs!DPU /\ 0 \in Bfs!Tasklets /\ Bfs!Nodes \subseteq Nat
      /\ Bfs!Tasklets \subseteq Nat
  BY BfsNumbers DEF Bfs!Sized
<1>2. Bfs!TypeOK
  BY <1>1 DEF Bfs!Init, Bfs!TypeOK
<1>3. level = 0 /\ \A d \in Bfs!DPU : /\ Bfs!In(d, {"host"}) /\ ~ Bfs!In(d, {"sweep"})
                                      /\ ~ Bfs!In(d, {"exit"}) /\ ~ Bfs!In(d, Bfs!Expanding)
                                      /\ visited[d] = {} /\ lock[d] = FALSE
                                      /\ \A t \in Bfs!Tasklets : spot[d][t] = "host"
                                      /\ \A j \in 0 .. BfsLocal - 1 : levels[d][j] = 0
  BY <1>1 DEF Bfs!Init, Bfs!In, Bfs!Expanding
<1>4. Bfs!Found = {BfsSource}
  BY <1>1 DEF Bfs!Init, Bfs!Found
<1>5. Bfs!PhaseOK
  BY <1>3, <1>4 DEF Bfs!PhaseOK, Bfs!Seen
<1>6. \A d \in Bfs!DPU : Bfs!BitmapsOK(d) /\ Bfs!MutexOK(d)
  BY <1>3 DEF Bfs!BitmapsOK, Bfs!MutexOK
<1>7. Bfs!DistancesOK
  BY <1>3 DEF Bfs!DistancesOK, Bfs!FrontierOK
<1>8. QED
  BY <1>2, <1>5, <1>6, <1>7 DEF Bfs!SearchInv

LEMMA BfsPreserves ==
  ASSUME Bfs!Sized, Bfs!SearchInv, [Bfs!Next]_(Bfs!vars)
  PROVE  Bfs!SearchInv'
<1>1. CASE UNCHANGED Bfs!vars
  <2>1. UNCHANGED <<net, spot, pos, nbs, word, lock, current, visited, frontier, level, levels>>
    BY <1>1 DEF Bfs!vars
  <2>2. \A e \in Bfs!DPU :
          /\ \A S : Bfs!In(e, S)' <=> Bfs!In(e, S)
          /\ Bfs!Seen(e)' = Bfs!Seen(e)
          /\ Bfs!BitmapsOK(e)' <=> Bfs!BitmapsOK(e)
          /\ Bfs!MutexOK(e)' <=> Bfs!MutexOK(e)
          /\ Bfs!FrontierOK(e)' <=> Bfs!FrontierOK(e)
    BY <2>1, BfsOther
  <2>3. Bfs!Ball' = Bfs!Ball
    BY <2>1, BfsSameBall
  <2>4. Bfs!TypeOK'
    BY <2>1 DEF Bfs!SearchInv, Bfs!TypeOK
  <2>5. Bfs!PhaseOK'
    BY <2>1, <2>2 DEF Bfs!SearchInv, Bfs!PhaseOK, Bfs!Found
  <2>6. Bfs!DistancesOK'
    BY <2>1, <2>2, <2>3 DEF Bfs!SearchInv, Bfs!DistancesOK
  <2>7. QED
    BY <2>2, <2>4, <2>5, <2>6 DEF Bfs!SearchInv
<1>2. CASE Bfs!Next
  <2>1. ASSUME NEW d \in Bfs!DPU, NEW t \in Bfs!Tasklets, Bfs!Tasklet(d, t) PROVE Bfs!SearchInv'
    BY <2>1, BfsSweeps, BfsNodes, BfsEdges, BfsSkips, BfsLocks, BfsStores DEF Bfs!Tasklet
  <2>2. CASE Bfs!Together
    BY <2>2, BfsTurns, BfsSwept, BfsLevelEnds DEF Bfs!Together
  <2>3. QED
    BY <1>1, <1>2, <2>1, <2>2 DEF Bfs!Next
<1>3. QED
  BY <1>1, <1>2

\* Only nodes that have not been visited are given a level.
LEMMA BfsKeeps ==
  ASSUME Bfs!Sized, Bfs!SearchInv, [Bfs!Next]_(Bfs!vars)
  PROVE  Bfs!LevelKept
<1> USE DEF Bfs!SearchInv
<1>1. CASE UNCHANGED levels
  BY <1>1 DEF Bfs!LevelKept, Bfs!LevelOf
<1>2. ASSUME NEW d \in Bfs!DPU, NEW t \in Bfs!Tasklets, Bfs!Sweep(d, t) PROVE Bfs!LevelKept
  <2> SUFFICES ASSUME NEW x \in Bfs!Nodes, Bfs!LevelOf(x) # 0 PROVE Bfs!LevelOf(x)' = Bfs!LevelOf(x)
    BY DEF Bfs!LevelKept
  <2>1. PICK e \in Bfs!DPU, j \in 0 .. BfsLocal - 1 : x = j + Bfs!Start(e)
    BY BfsOwner
  <2>2. Bfs!LevelOf(x) = levels[e][j] /\ Bfs!LevelOf(x)' = levels'[e][j]
    BY <2>1, BfsOwner DEF Bfs!LevelOf
  <2>3. x \notin frontier[e]
    BY <2>1, <2>2 DEF Bfs!BitmapsOK
  <2>4. levels \in [Bfs!DPU -> [0 .. BfsLocal - 1 -> Nat]]
    BY DEF Bfs!TypeOK
  <2>5. levels'[e][j] = levels[e][j]
    BY <1>2, <2>1, <2>3, <2>4 DEF Bfs!Sweep, Bfs!TakeWord
  <2>6. QED
    BY <2>2, <2>5
<1>3. QED
  BY <1>1, <1>2
  DEF Bfs!Next, Bfs!Together, Bfs!Tasklet, Bfs!HostTurn, Bfs!SweepBarrier, Bfs!LevelBarrier, Bfs!Node,
      Bfs!EndOfEdges, Bfs!Skip, Bfs!Lock, Bfs!Load, Bfs!Store, Bfs!vars, Bfs!results

LEMMA BfsMeans ==
  ASSUME Bfs!Sized, Bfs!SearchInv
  PROVE  Bfs!LevelsAreDistances
<1> USE DEF Bfs!SearchInv
<1> SUFFICES ASSUME \A d \in Bfs!DPU : \A t \in Bfs!Tasklets : spot[d][t] = "host"
             PROVE  /\ \A x \in Bfs!Nodes :
                         IF level > 0 /\ x \in Bfs!Ball[level - 1]
                         THEN Bfs!LevelOf(x) \in 1 .. level /\ x \in Bfs!Ball[Bfs!LevelOf(x) - 1]
                              /\ (Bfs!LevelOf(x) > 1 => x \notin Bfs!Ball[Bfs!LevelOf(x) - 2])
                         ELSE Bfs!LevelOf(x) = 0
                    /\ \A d \in Bfs!DPU : visited[d] = IF level = 0 THEN {} ELSE Bfs!Ball[level - 1]
                    /\ Bfs!Found = Bfs!Ball[level] \ visited[0]
  BY DEF Bfs!LevelsAreDistances
<1>1. \A d \in Bfs!DPU : Bfs!In(d, {"host"}) /\ ~ Bfs!In(d, {"exit"})
  BY BfsNumbers DEF Bfs!In
<1>2. /\ \A d \in Bfs!DPU : visited[d] = (IF level = 0 THEN {} ELSE Bfs!Ball[level - 1])
      /\ Bfs!Found = Bfs!Ball[level] \ visited[0]
  BY <1>1, BfsFound, BfsNumbers
<1>3. ASSUME NEW x \in Bfs!Nodes
      PROVE  IF level > 0 /\ x \in Bfs!Ball[level - 1]
             THEN Bfs!LevelOf(x) \in 1 .. level /\ x \in Bfs!Ball[Bfs!LevelOf(x) - 1]
                  /\ (Bfs!LevelOf(x) > 1 => x \notin Bfs!Ball[Bfs!LevelOf(x) - 2])
             ELSE Bfs!LevelOf(x) = 0
  <2>1. PICK e \in Bfs!DPU, j \in 0 .. BfsLocal - 1 : x = j + Bfs!Start(e)
    BY BfsOwner
  <2> DEFINE h == levels[e][j]
  <2>2. Bfs!LevelOf(x) = h
    BY <2>1, BfsOwner DEF Bfs!LevelOf
  <2>3. h # 0 <=> x \in visited[e]
    BY <2>1 DEF Bfs!BitmapsOK
  <2>4. h # 0 => h <= level /\ x \in Bfs!Ring(h - 1)
    BY <1>1, <2>1 DEF Bfs!DistancesOK, Bfs!FrontierOK
  <2>5. h \in Nat /\ level \in Nat
    BY DEF Bfs!TypeOK
  <2> HIDE DEF h
  <2>6. ASSUME h # 0
        PROVE  h \in 1 .. level /\ x \in Bfs!Ball[h - 1] /\ (h > 1 => x \notin Bfs!Ball[h - 2])
    <3>1. h \in 1 .. level
      BY <2>4, <2>5, <2>6
    <3>2. CASE h = 1
      BY <2>4, <3>1, <3>2, BfsBall DEF Bfs!Ring
    <3>3. CASE h # 1
      <4>1. h - 1 # 0 /\ (h - 1) - 1 = h - 2
        BY <2>5, <3>3
      <4>2. QED
        BY <2>4, <2>6, <3>1, <4>1 DEF Bfs!Ring
    <3>4. QED
      BY <3>2, <3>3
  <2>7. x \in visited[e] <=> level > 0 /\ x \in Bfs!Ball[level - 1]
    BY <1>2, <2>5
  <2>8. QED
    BY <2>2, <2>3, <2>6, <2>7
<1>4. QED
  BY <1>2, <1>3

\* The inductive invariant of BFS is one of every behaviour.
THEOREM SearchInvariant == MCSpec => [](kernel = "BFS" => Bfs!SearchInv)
<1> DEFINE Inv == kernel = "BFS" => Bfs!SearchInv
<1>1. MCInit => Inv
  BY BfsAssumption, BfsInit DEF MCInit, KernelInit
<1>2. Inv /\ [MCNext]_all => Inv'
  <2> SUFFICES ASSUME Inv, [MCNext]_all, kernel' = "BFS" PROVE Bfs!SearchInv'
    OBVIOUS
  <2>1. kernel = "BFS" /\ [Bfs!Next]_(Bfs!vars)
    BY DEF MCNext, all, group, Bfs!vars
  <2>2. QED
    BY <2>1, BfsAssumption, BfsPreserves
<1>3. QED
  BY <1>1, <1>2, PTL DEF MCSpec

(***************************************************************************)
(* BFS: between two turns the nodes found so far have their distance from  *)
(* the source as their level, all DPUs have visited the same nodes, and    *)
(* the frontiers together are the nodes one step further.  For every       *)
(* number of DPUs and tasklets, every number of nodes a DPU has, every     *)
(* width of a word and any graphs.                                         *)
(***************************************************************************)
THEOREM LevelsAreRight == MCSpec => []LevelsAreDistances
<1>1. (kernel = "BFS" => Bfs!SearchInv) => LevelsAreDistances
  BY BfsAssumption, BfsMeans DEF LevelsAreDistances
<1>2. QED
  BY <1>1, SearchInvariant, PTL

(***************************************************************************)
(* BFS, NW: what one tasklet has written another does not spoil.  A level  *)
(* given to a node stays, and so does a cell that has its value.           *)
(***************************************************************************)
THEOREM ResultsAreKept == MCSpec => ResultsStay
<1> DEFINE NwInv == kernel = "NW" => Nw!MatrixInv
           BfsInv == kernel = "BFS" => Bfs!SearchInv
           Kept == (kernel = "BFS" => Bfs!LevelKept) /\ (kernel = "NW" => Nw!FinalKept)
<1>1. NwInv /\ BfsInv /\ [MCNext]_all => [Kept]_all
  <2> SUFFICES ASSUME NwInv, BfsInv, [MCNext]_all PROVE Kept
    OBVIOUS
  <2>1. CASE kernel = "BFS"
    <3>1. [Bfs!Next]_(Bfs!vars)
      BY <2>1 DEF MCNext, all, Bfs!vars
    <3>2. QED
      BY <2>1, <3>1, BfsAssumption, BfsKeeps
  <2>2. CASE kernel = "NW"
    <3>1. [Nw!Next]_(Nw!vars)
      BY <2>2 DEF MCNext, all, Nw!vars
    <3>2. QED
      BY <2>2, <3>1, NwAssumption, NwKeeps
  <2>3. QED
    BY <2>1, <2>2
<1>2. QED
  BY <1>1, SearchInvariant, MatrixInvariant, PTL DEF MCSpec, ResultsStay

-----------------------------------------------------------------------------
(* SpMV: the rows of the tasklets are all rows, and a row is added up      *)
(* nonzero by nonzero.                                                     *)

spRows == m1
spAt == m2
spRow == m3
nz == m4
sum == m5
inTile == m6
outTile == m7
vec == m8
inCache == m9
USE DEF spRows, spAt, spRow, nz, sum, inTile, outTile, vec, inCache

\* The shares of the tasklets lie one behind the other and hold every row.
LEMMA SpShares ==
  ASSUME Spmv!Sized, spRows \in Seq(Seq(Nat))
  PROVE  /\ \A t \in Spmv!Tasklets : Spmv!First(t) \in Nat /\ Spmv!RowsOf(t) \in Nat
         /\ \A t \in Spmv!Tasklets : \A k \in 0 .. Spmv!RowsOf(t) - 1 :
              Spmv!First(t) + k \in 0 .. Spmv!NumRows - 1
         /\ \A t, s \in Spmv!Tasklets :
              t < s /\ Spmv!RowsOf(s) > 0 => Spmv!First(t) + Spmv!RowsOf(t) <= Spmv!First(s)
         /\ \A r \in 0 .. Spmv!NumRows - 1 : \E t \in Spmv!Tasklets :
              Spmv!First(t) <= r /\ r < Spmv!First(t) + Spmv!RowsOf(t)
<1> DEFINE n == Spmv!NumRows
           p == Spmv!PerTasklet
<1>1. SpN \in Nat \ {0} /\ n \in Nat /\ Spmv!Tasklets = 0 .. SpN - 1
  BY DEF Spmv!Sized, Spmv!NumRows, Spmv!Tasklets
<1>2. p \in Nat /\ n <= p * SpN /\ (n > 0 => p > 0)
  <2>1. CASE n = 0
    BY <1>1, <2>1 DEF Spmv!PerTasklet
  <2>2. CASE n # 0
    <3> DEFINE a == n - 1
               q == a \div SpN
               m == a % SpN
    <3>0. a \in Nat
      BY <1>1, <2>2
    <3>1. q \in Nat /\ m \in 0 .. SpN - 1 /\ a = SpN * q + m
      <4> HIDE DEF a
      <4>1. QED
        BY <1>1, <3>0, DivMod
    <3>2. p = q + 1 + ((q + 1) % 2)
      BY <2>2 DEF Spmv!PerTasklet
    <3> HIDE DEF p, q, m
    <3>3. p \in Nat /\ q + 1 <= p /\ q + 1 \in Nat
      BY <3>1, <3>2
    <3>4. (q + 1) * SpN <= p * SpN
      BY <1>1, <3>3, ProductsGrow
    <3>5. (q + 1) * SpN = SpN * q + SpN
      BY <1>1, <3>1
    <3>6. n <= (q + 1) * SpN /\ (q + 1) * SpN \in Nat /\ p * SpN \in Nat
      BY <1>1, <3>1, <3>3, <3>5
    <3>7. QED
      BY <1>1, <3>3, <3>4, <3>6
  <2>3. QED
    BY <2>1, <2>2
<1>3. \A t \in Nat : Spmv!First(t) = t * p /\ t * p \in Nat
  BY <1>2 DEF Spmv!First
<1>4. \A t \in Nat : Spmv!RowsOf(t) =
        IF t * p > n THEN 0 ELSE IF t * p + p > n THEN n - t * p ELSE p
  BY <1>3 DEF Spmv!RowsOf
<1> HIDE DEF n, p
<1>5. \A t \in Nat : Spmv!RowsOf(t) \in Nat /\ Spmv!RowsOf(t) <= p
                     /\ (Spmv!RowsOf(t) > 0 => t * p + Spmv!RowsOf(t) <= n)
  <2> SUFFICES ASSUME NEW t \in Nat
               PROVE  /\ Spmv!RowsOf(t) \in Nat /\ Spmv!RowsOf(t) <= p
                      /\ Spmv!RowsOf(t) > 0 => t * p + Spmv!RowsOf(t) <= n
    OBVIOUS
  <2> DEFINE e == t * p
  <2>1. e \in Nat /\ Spmv!RowsOf(t) = IF e > n THEN 0 ELSE IF e + p > n THEN n - e ELSE p
    BY <1>3, <1>4
  <2> HIDE DEF e
  <2>2. /\ Spmv!RowsOf(t) \in Nat /\ Spmv!RowsOf(t) <= p
        /\ Spmv!RowsOf(t) > 0 => e + Spmv!RowsOf(t) <= n
    BY <1>1, <1>2, <2>1
  <2>3. QED
    BY <2>2 DEF e
<1>6. ASSUME NEW t \in Nat, NEW s \in Nat, t < s PROVE t * p + p <= s * p
  <2>1. (t + 1) * p <= s * p
    BY <1>2, <1>6, ProductsGrow
  <2>2. (t + 1) * p = t * p + p
    BY <1>2
  <2>3. QED
    BY <1>3, <2>1, <2>2
<1>7. ASSUME NEW r \in 0 .. n - 1
      PROVE  \E t \in 0 .. SpN - 1 : t * p <= r /\ r < t * p + Spmv!RowsOf(t)
  <2>1. n > 0 /\ p \in Nat \ {0} /\ r < p * SpN /\ r \in Nat
    BY <1>1, <1>2, <1>7
  <2> DEFINE q == r \div p
             m == r % p
  <2>2. q \in Nat /\ m \in 0 .. p - 1 /\ r = p * q + m
    BY <2>1, DivMod
  <2> HIDE DEF q, m
  <2>3. p * q = q * p /\ p * SpN = SpN * p /\ SpN * p \in Nat
    BY <1>1, <2>1, <2>2
  <2>4. q < SpN
    <3>1. SUFFICES ASSUME SpN <= q PROVE FALSE
      BY <1>1, <2>2
    <3>2. SpN * p <= q * p
      BY <1>1, <2>1, <2>2, <3>1, ProductsGrow
    <3>3. QED
      BY <1>3, <2>1, <2>2, <2>3, <3>2
  <2>5. q * p <= r /\ r < q * p + p /\ q * p \in Nat
    BY <1>3, <2>1, <2>2, <2>3
  <2>6. r < q * p + Spmv!RowsOf(q)
    BY <1>1, <1>4, <1>7, <2>1, <2>2, <2>5
  <2>7. q \in 0 .. SpN - 1
    BY <1>1, <2>2, <2>4
  <2>8. QED
    BY <2>5, <2>6, <2>7
<1>8. \A t \in Spmv!Tasklets : t \in Nat
  BY <1>1
<1>9. ASSUME NEW t \in Nat, NEW k \in 0 .. Spmv!RowsOf(t) - 1
      PROVE  t * p + k \in 0 .. n - 1
  <2> DEFINE e == t * p
  <2>1. e \in Nat /\ Spmv!RowsOf(t) \in Nat /\ (Spmv!RowsOf(t) > 0 => e + Spmv!RowsOf(t) <= n)
    BY <1>3, <1>5
  <2> HIDE DEF e
  <2>2. e + k \in 0 .. n - 1
    BY <1>1, <2>1
  <2>3. QED
    BY <2>2 DEF e
<1>10. ASSUME NEW t \in Nat, NEW s \in Nat, t < s
       PROVE  t * p + Spmv!RowsOf(t) <= s * p
  <2> DEFINE e == t * p
             f == s * p
  <2>1. e \in Nat /\ f \in Nat /\ e + p <= f
    BY <1>3, <1>6, <1>10
  <2>2. Spmv!RowsOf(t) \in Nat /\ Spmv!RowsOf(t) <= p
    BY <1>5
  <2> HIDE DEF e, f
  <2>3. e + Spmv!RowsOf(t) <= f
    BY <1>2, <2>1, <2>2
  <2>4. QED
    BY <2>3 DEF e, f
<1>11. \A t \in Spmv!Tasklets : Spmv!First(t) = t * p /\ Spmv!First(t) \in Nat /\ Spmv!RowsOf(t) \in Nat
  BY <1>3, <1>5, <1>8
<1>12. \A t \in Spmv!Tasklets : \A k \in 0 .. Spmv!RowsOf(t) - 1 : Spmv!First(t) + k \in 0 .. n - 1
  BY <1>8, <1>9, <1>11
<1>13. \A t, s \in Spmv!Tasklets : t < s => Spmv!First(t) + Spmv!RowsOf(t) <= Spmv!First(s)
  BY <1>8, <1>10, <1>11
<1>14. \A r \in 0 .. n - 1 : \E t \in Spmv!Tasklets :
         Spmv!First(t) <= r /\ r < Spmv!First(t) + Spmv!RowsOf(t)
  BY <1>1, <1>7, <1>11
<1>15. QED
  BY ONLY <1>11, <1>12, <1>13, <1>14 DEF n

LEMMA SpInit ==
  ASSUME Spmv!Sized, Spmv!Init
  PROVE  Spmv!RowsInv
<1>1. spRows \in Seq(Seq(Nat)) /\ SpTile \in Nat \ {0}
  BY DEF Spmv!Sized, Spmv!Init
<1>2. Spmv!TypeOK /\ \A t \in Spmv!Tasklets : Spmv!CacheOK(t)
  BY <1>1 DEF Spmv!Init, Spmv!TypeOK, Spmv!CacheOK
<1>3. ASSUME NEW t \in Spmv!Tasklets
      PROVE  Spmv!SumOK(t) /\ Spmv!TileOK(t) /\ Spmv!WrittenOK(t) /\ spAt[t] = "row"
  <2>1. spRow[t] = 0 /\ nz[t] = 0 /\ sum[t] = <<>> /\ spAt[t] = "row" /\ Spmv!RowsOf(t) \in Nat
        /\ Spmv!First(t) \in Nat
    BY <1>1, SpShares DEF Spmv!Init
  <2>2. 0 % SpTile = 0 /\ Spmv!TileStart(t) = 0
    BY <1>1, <2>1 DEF Spmv!TileStart
  <2>3. Spmv!SumOK(t)
    <3>1. CASE 0 < Spmv!RowsOf(t)
      <4>1. Spmv!First(t) \in 0 .. Spmv!NumRows - 1
        <5>1. 0 \in 0 .. Spmv!RowsOf(t) - 1 /\ Spmv!First(t) + 0 = Spmv!First(t)
          BY <2>1, <3>1
        <5>2. QED
          BY <1>1, <5>1, SpShares
      <4>2. Spmv!Columns(Spmv!First(t)) \in Seq(Nat)
        BY <1>1, <4>1 DEF Spmv!Columns, Spmv!NumRows
      <4>3. Spmv!Summed(Spmv!First(t), 0) = <<>>
        BY DEF Spmv!Summed
      <4>4. Spmv!First(t) + 0 = Spmv!First(t) /\ 0 <= Len(Spmv!Columns(Spmv!First(t)))
        BY <2>1, <4>2
      <4>5. QED
        BY <2>1, <4>3, <4>4, <3>1 DEF Spmv!SumOK
    <3>2. CASE Spmv!RowsOf(t) = 0
      BY <2>1, <3>2 DEF Spmv!SumOK
    <3>3. QED
      BY <2>1, <3>1, <3>2
  <2>4. Spmv!TileOK(t)
    BY <1>1, <2>1, <2>2 DEF Spmv!TileOK, Spmv!Init
  <2>5. Spmv!WrittenOK(t)
    BY <2>1, <2>2 DEF Spmv!WrittenOK
  <2>6. QED
    BY <2>1, <2>3, <2>4, <2>5
<1>4. QED
  BY <1>2, <1>3 DEF Spmv!RowsInv

LEMMA SpMultiplies ==
  ASSUME Spmv!Sized, Spmv!RowsInv, NEW t \in Spmv!Tasklets, Spmv!Multiply(t)
  PROVE  Spmv!RowsInv'
<1> USE DEF Spmv!RowsInv
<1> DEFINE r == Spmv!First(t) + spRow[t]
           c == Spmv!Columns(r)
           col == c[nz[t] + 1]
           T == Spmv!Loaded(t, col \div SpTile)
<1>1. /\ spAt[t] = "row" /\ spRow[t] < Spmv!RowsOf(t) /\ nz[t] < Len(c)
      /\ sum' = [sum EXCEPT ![t] = Append(@, <<r, nz[t] + 1, T[col % SpTile]>>)]
      /\ inTile' = [inTile EXCEPT ![t] = col \div SpTile]
      /\ inCache' = [inCache EXCEPT ![t] = T]
      /\ nz' = [nz EXCEPT ![t] = @ + 1]
      /\ UNCHANGED <<spRows, spAt, spRow, outTile, vec>>
  BY DEF Spmv!Multiply
<1>2. SpTile \in Nat \ {0} /\ spRows \in Seq(Seq(Nat)) /\ nz[t] \in Nat
  BY DEF Spmv!Sized, Spmv!TypeOK
<1>3. r \in 0 .. Spmv!NumRows - 1
  <2>1. spRow[t] \in 0 .. Spmv!RowsOf(t) - 1
    BY <1>1, <1>2, SpShares DEF Spmv!TypeOK
  <2>2. QED
    BY <1>2, <2>1, SpShares
<1>4. c \in Seq(Nat)
  BY <1>2, <1>3 DEF Spmv!Columns, Spmv!NumRows
<1> HIDE DEF c
<1>5. nz[t] + 1 \in 1 .. Len(c) /\ col \in Nat
  BY <1>1, <1>2, <1>4
<1>6. /\ col \div SpTile \in Nat /\ T = Spmv!TileAt(col \div SpTile)
      /\ T[col % SpTile] = col
  <2> HIDE DEF col
  <2>1. col \div SpTile \in Nat /\ col = SpTile * (col \div SpTile) + (col % SpTile)
    BY <1>2, <1>5, DivMod
  <2>2. SpTile * (col \div SpTile) = (col \div SpTile) * SpTile
    BY <1>2, <2>1
  <2>3. T = Spmv!TileAt(col \div SpTile)
    BY DEF Spmv!Loaded, Spmv!CacheOK
  <2>4. col % SpTile \in 0 .. SpTile - 1
    BY <1>2, <1>5, DivMod
  <2>5. T[col % SpTile] = (col \div SpTile) * SpTile + (col % SpTile)
    BY <2>3, <2>4 DEF Spmv!TileAt
  <2>6. QED
    BY <2>1, <2>2, <2>3, <2>5
<1> HIDE DEF T
<1>7. sum[t] = Spmv!Summed(r, nz[t]) /\ sum'[t] = Append(sum[t], <<r, nz[t] + 1, col>>)
  BY <1>1, <1>6 DEF Spmv!SumOK, Spmv!TypeOK
<1>8. sum'[t] = Spmv!Summed(r, nz[t] + 1)
  <2> DEFINE n == nz[t]
             D == {<<r, k, c[k]>> : k \in 1 .. n + 1}
             S == sum[t]
             e == <<r, n + 1, c[n + 1]>>
             W == [k \in 1 .. n + 1 |-> <<r, k, c[k]>>]
  <2>1. S = [k \in 1 .. n |-> <<r, k, c[k]>>]
    BY <1>7 DEF Spmv!Summed, c
  <2>2. n \in Nat /\ e \in D /\ \A k \in 1 .. n : <<r, k, c[k]>> \in D
    <3>1. n \in Nat
      BY <1>2
    <3> HIDE DEF n
    <3>2. n + 1 \in 1 .. n + 1 /\ \A k \in 1 .. n : k \in 1 .. n + 1
      BY <3>1
    <3> HIDE DEF r
    <3>3. QED
      BY <3>1, <3>2
  <2>3. S \in [1 .. n -> D]
    <3> HIDE DEF D, S, e, n
    <3>1. QED
      BY <2>1, <2>2
  <2>4. W \in [1 .. n + 1 -> D]
    OBVIOUS
  <2>5. Append(S, e) = W
    <3>1. (\A k \in 1 .. n : S[k] = W[k]) /\ e = W[n + 1]
      <4> HIDE DEF D, S, n
      <4>1. QED
        BY <2>1, <2>2
    <3> HIDE DEF D, S, W, e, n
    <3>2. QED
      BY <2>2, <2>3, <2>4, <3>1, Grown
  <2>6. W = Spmv!Summed(r, n + 1)
    BY DEF Spmv!Summed, c
  <2>7. sum'[t] = Append(S, e)
    BY <1>7
  <2>8. QED
    BY <2>5, <2>6, <2>7
<1> HIDE DEF col, r
<1>9. /\ \A s : Spmv!First(s)' = Spmv!First(s) /\ Spmv!RowsOf(s)' = Spmv!RowsOf(s)
      /\ \A s : Spmv!TileStart(s)' = Spmv!TileStart(s)
      /\ \A k : Spmv!Right(k)' = Spmv!Right(k)
      /\ \A k, m : Spmv!Summed(k, m)' = Spmv!Summed(k, m)
      /\ \A k : Spmv!Columns(k)' = Spmv!Columns(k)
  BY <1>1 DEF Spmv!First, Spmv!RowsOf, Spmv!PerTasklet, Spmv!NumRows, Spmv!TileStart, Spmv!Right,
    Spmv!Summed, Spmv!Columns
<1>10. ASSUME NEW s \in Spmv!Tasklets
       PROVE  /\ Spmv!CacheOK(s)' /\ Spmv!TileOK(s)' /\ Spmv!WrittenOK(s)'
              /\ s # t => Spmv!SumOK(s)'
  <2>1. Spmv!CacheOK(s)' /\ Spmv!TileOK(s)'
    <3>1. Spmv!CacheOK(s)'
      BY <1>1, <1>6 DEF Spmv!CacheOK, Spmv!TypeOK, Spmv!TileAt
    <3>2. Spmv!TileOK(s)'
      BY <1>1, <1>9 DEF Spmv!TileOK
    <3>3. QED
      BY <3>1, <3>2
  <2>2. Spmv!WrittenOK(s)'
    BY <1>1, <1>9 DEF Spmv!WrittenOK
  <2>3. ASSUME s # t PROVE Spmv!SumOK(s)'
    BY <1>1, <1>9, <2>3 DEF Spmv!SumOK, Spmv!TypeOK
  <2>4. QED
    BY <2>1, <2>2, <2>3
<1>11. Spmv!SumOK(t)'
  <2>1. /\ nz'[t] = nz[t] + 1 /\ spRow' = spRow /\ Spmv!First(t)' = Spmv!First(t)
        /\ Spmv!RowsOf(t)' = Spmv!RowsOf(t) /\ spRows' = spRows
    BY <1>1, <1>9 DEF Spmv!TypeOK
  <2>2. nz'[t] <= Len(c)
    BY <1>5, <2>1
  <2>3. sum'[t] = Spmv!Summed(r, nz'[t])
    BY <1>8, <2>1
  <2>4. QED
    BY <1>1, <2>1, <2>2, <2>3 DEF Spmv!SumOK, Spmv!Summed, Spmv!Columns, r, c
<1>12. Spmv!TypeOK'
  BY <1>1, <1>2, <1>6 DEF Spmv!TypeOK, Spmv!NumRows
<1>13. QED
  BY <1>1, <1>9, <1>10, <1>11, <1>12

LEMMA SpStores ==
  ASSUME Spmv!Sized, Spmv!RowsInv, NEW t \in Spmv!Tasklets, Spmv!Store(t)
  PROVE  Spmv!RowsInv'
<1> USE DEF Spmv!RowsInv
<1> DEFINE R == spRow[t]
           F == Spmv!First(t)
           Q == Spmv!RowsOf(t)
           o == R % SpTile
           s == R - o
           low == F + s
           full == [outTile[t] EXCEPT ![o] = sum[t]]
           width == IF o = SpTile - 1 THEN SpTile ELSE IF R = Q - 1 THEN Q % SpTile ELSE 0
<1>1. SpTile \in Nat \ {0} /\ spRows \in Seq(Seq(Nat)) /\ R \in Nat /\ nz[t] \in Nat
      /\ F \in Nat /\ Q \in Nat /\ R < Q
  BY SpShares DEF Spmv!Sized, Spmv!TypeOK, Spmv!Store
<1>2. o \in 0 .. SpTile - 1 /\ s \in Nat /\ (R \div SpTile) * SpTile = s
      /\ (R + 1) % SpTile = IF o = SpTile - 1 THEN 0 ELSE o + 1
  <2> HIDE DEF R
  <2> DEFINE q == R \div SpTile
  <2>1. q \in Nat /\ o \in 0 .. SpTile - 1 /\ R = SpTile * q + o
    BY <1>1, DivMod
  <2>2. (R + 1) % SpTile = IF o = SpTile - 1 THEN 0 ELSE o + 1
    BY <1>1, NextRemainder
  <2> HIDE DEF q, o
  <2>3. SpTile * q = q * SpTile /\ q * SpTile \in Nat
    BY <1>1, <2>1
  <2>4. s \in Nat /\ q * SpTile = s
    BY <1>1, <2>1, <2>3
  <2>5. QED
    BY <2>1, <2>2, <2>4 DEF q
<1>3. /\ spAt[t] = "row" /\ nz[t] >= Len(Spmv!Columns(F + R))
      /\ outTile' = [outTile EXCEPT ![t] = full]
      /\ vec' = [r \in DOMAIN vec \cup low .. low + width - 1 |->
                   IF r \in low .. low + width - 1 THEN full[r - low] ELSE vec[r]]
      /\ spRow' = [spRow EXCEPT ![t] = @ + 1]
      /\ nz' = [nz EXCEPT ![t] = 0] /\ sum' = [sum EXCEPT ![t] = <<>>]
      /\ UNCHANGED <<spRows, spAt, inTile, inCache>>
  BY <1>2 DEF Spmv!Store
<1>4. /\ \A u : Spmv!First(u)' = Spmv!First(u) /\ Spmv!RowsOf(u)' = Spmv!RowsOf(u)
      /\ \A k : Spmv!Right(k)' = Spmv!Right(k)
      /\ \A k, m : Spmv!Summed(k, m)' = Spmv!Summed(k, m)
      /\ \A k : Spmv!Columns(k)' = Spmv!Columns(k)
      /\ Spmv!NumRows' = Spmv!NumRows
  BY <1>3 DEF Spmv!First, Spmv!RowsOf, Spmv!PerTasklet, Spmv!NumRows, Spmv!Right,
    Spmv!Summed, Spmv!Columns
<1>5. spRow'[t] = R + 1 /\ Spmv!TileStart(t) = s /\ nz'[t] = 0 /\ sum'[t] = <<>>
      /\ outTile'[t] = full
  BY <1>3 DEF Spmv!TypeOK, Spmv!TileStart
<1>6. Spmv!TileStart(t)' = IF o = SpTile - 1 THEN R + 1 ELSE s
  <2>1. Spmv!TileStart(t)' = (R + 1) - ((R + 1) % SpTile)
    BY <1>3, <1>5 DEF Spmv!TileStart
  <2> DEFINE m == (R + 1) % SpTile
  <2>2. m = (IF o = SpTile - 1 THEN 0 ELSE o + 1) /\ s + o = R /\ Spmv!TileStart(t)' = (R + 1) - m
    <3>1. m = IF o = SpTile - 1 THEN 0 ELSE o + 1
      BY <1>2
    <3>2. s + o = R
      <4> HIDE DEF R, o
      <4>1. QED
        BY <1>1, <1>2 DEF s
    <3>3. QED
      BY <2>1, <3>1, <3>2
  <2> HIDE DEF R, o, s, m
  <2>3. R \in Int /\ o \in Int /\ s \in Int
    BY <1>1, <1>2, <2>2
  <2>4. QED
    BY ONLY <2>2, <2>3
<1>7. \A k \in 0 .. Q - 1 : F + k \in 0 .. Spmv!NumRows - 1
  BY <1>1, SpShares
<1>8. sum[t] = Spmv!Right(F + R)
  <2>1. F + R \in 0 .. Spmv!NumRows - 1
    BY <1>1, <1>7
  <2>2. Spmv!Columns(F + R) \in Seq(Nat)
    BY <1>1, <2>1 DEF Spmv!Columns, Spmv!NumRows
  <2>3. nz[t] <= Len(Spmv!Columns(F + R)) /\ sum[t] = Spmv!Summed(F + R, nz[t])
    BY <1>1 DEF Spmv!SumOK
  <2>4. nz[t] = Len(Spmv!Columns(F + R))
    BY <1>1, <1>3, <2>2, <2>3
  <2>5. QED
    BY <2>3, <2>4 DEF Spmv!Right
<1>9. width \in Nat /\ (width = 0 \/ (s + width = R + 1 /\ (o = SpTile - 1 \/ R + 1 = Q)))
      /\ (width = 0 => o # SpTile - 1 /\ R + 1 # Q)
  <2>1. CASE o = SpTile - 1
    BY <1>1, <1>2, <2>1
  <2>2. CASE o # SpTile - 1 /\ R = Q - 1
    <3>1. Q = R + 1
      BY <1>1, <2>2
    <3>2. width = o + 1
      BY <1>2, <2>2, <3>1
    <3>3. s + o = R
      <4> HIDE DEF R, o
      <4>1. QED
        BY <1>1, <1>2 DEF s
    <3> HIDE DEF R, o, s, width, Q
    <3>4. QED
      BY <1>1, <1>2, <2>2, <3>1, <3>2, <3>3
  <2>3. CASE o # SpTile - 1 /\ R # Q - 1
    BY <1>1, <2>3
  <2>4. QED
    BY <2>1, <2>2, <2>3
<1>10. DOMAIN full = 0 .. SpTile - 1
       /\ \A k \in 0 .. SpTile - 1 : k <= o => full[k] = Spmv!Right(F + s + k)
  <2>1. DOMAIN outTile[t] = 0 .. SpTile - 1
        /\ \A k \in 0 .. SpTile - 1 : k < o => outTile[t][k] = Spmv!Right(F + s + k)
    BY <1>5 DEF Spmv!TileOK
  <2>2. F + s + o = F + R
    <3>1. s + o = R
      <4> HIDE DEF R, o
      <4>1. QED
        BY <1>1, <1>2 DEF s
    <3> HIDE DEF o, s, F, R
    <3>2. QED
      BY <1>1, <1>2, <3>1
  <2>3. DOMAIN full = DOMAIN outTile[t]
        /\ \A k \in 0 .. SpTile - 1 : full[k] = IF k = o THEN sum[t] ELSE outTile[t][k]
    <3> HIDE DEF o
    <3>1. QED
      BY <2>1
  <2> HIDE DEF o, s, F, R, full
  <2>4. ASSUME NEW k \in 0 .. SpTile - 1, k <= o
        PROVE  full[k] = Spmv!Right(F + s + k)
    <3>1. CASE k = o
      BY <1>8, <2>2, <2>3, <3>1
    <3>2. CASE k < o
      BY <1>2, <2>1, <2>3, <3>2
    <3>3. QED
      BY <1>2, <2>4, <3>1, <3>2
  <2>5. QED
    BY <2>1, <2>3, <2>4
<1> HIDE DEF width, full, o, s, F, R, Q
<1>11. \A r \in DOMAIN vec : vec'[r] = IF r \in low .. low + width - 1 THEN full[r - low] ELSE vec[r]
  BY <1>3
<1>12. \A r \in low .. low + width - 1 : \E k \in 0 .. Q - 1 : r = F + k
  <2> SUFFICES ASSUME NEW r \in low .. low + width - 1 PROVE \E k \in 0 .. Q - 1 : r = F + k
    OBVIOUS
  <2>1. r - F \in 0 .. Q - 1 /\ r = F + (r - F)
    BY <1>1, <1>2, <1>9
  <2>2. QED
    BY <2>1
<1>13. DOMAIN vec = 0 .. Spmv!NumRows - 1
  BY DEF Spmv!TypeOK
<1>14. Spmv!TypeOK'
  <2>1. DOMAIN vec' = 0 .. Spmv!NumRows - 1
    <3>1. low .. low + width - 1 \subseteq 0 .. Spmv!NumRows - 1
      BY <1>7, <1>12
    <3>2. DOMAIN vec' = DOMAIN vec \cup low .. low + width - 1
      BY <1>3
    <3>3. QED
      BY <1>13, <3>1, <3>2
  <2>2. QED
    BY <1>1, <1>3, <1>4, <2>1 DEF Spmv!TypeOK
<1>15. \A k \in 0 .. Q - 1 : (k < s \/ width # 0) /\ k <= R => vec'[F + k] = Spmv!Right(F + k)
  <2> SUFFICES ASSUME NEW k \in 0 .. Q - 1, k < s \/ width # 0, k <= R
               PROVE  vec'[F + k] = Spmv!Right(F + k)
    OBVIOUS
  <2>1. F + k \in DOMAIN vec
    BY <1>7, <1>13
  <2>2. CASE k < s
    <3>1. F + k \notin low .. low + width - 1
      BY <1>1, <1>2, <2>2
    <3>2. vec[F + k] = Spmv!Right(F + k)
      BY <1>5, <2>2 DEF Spmv!WrittenOK, F, Q
    <3>3. QED
      BY <1>11, <2>1, <3>1, <3>2
  <2>3. CASE ~ (k < s)
    <3>1. F + k \in low .. low + width - 1 /\ k - s \in 0 .. SpTile - 1 /\ k - s <= o
          /\ F + k - low = k - s /\ F + s + (k - s) = F + k
      <4>1. s + o = R
        BY <1>1, <1>2 DEF s
      <4>2. k - s \in 0 .. SpTile - 1 /\ k - s <= o
        BY <1>1, <1>2, <2>3, <4>1
      <4>3. F + s + (k - s) = F + k
        BY <1>1, <1>2
      <4>4. F + k \in low .. low + width - 1 /\ F + k - low = k - s
        BY <1>1, <1>2, <1>9, <2>3, <4>1
      <4>5. QED
        BY <4>2, <4>3, <4>4
    <3>2. vec'[F + k] = full[k - s]
      <4> DEFINE j == F + k
      <4>1. j \in DOMAIN vec /\ j \in low .. low + width - 1 /\ j - low = k - s
        BY <1>1, <1>2, <1>9, <2>1, <3>1
      <4>2. vec'[j] = full[j - low]
        <5> HIDE DEF j, low
        <5>1. QED
          BY <1>11, <4>1
      <4>3. QED
        BY <4>1, <4>2
    <3>3. QED
      BY <1>10, <3>1, <3>2
  <2>4. QED
    BY <2>2, <2>3
<1>16. Spmv!WrittenOK(t)'
  <2> SUFFICES ASSUME NEW k \in 0 .. Q - 1, k < Spmv!TileStart(t)' \/ R + 1 = Q
               PROVE  vec'[F + k] = Spmv!Right(F + k)
    BY <1>4, <1>5 DEF Spmv!WrittenOK, F, Q
  <2>1. k <= R
    <3>1. CASE R + 1 = Q
      BY <1>1, <3>1
    <3>2. CASE k < Spmv!TileStart(t)'
      <4>1. Spmv!TileStart(t)' = R + 1 \/ Spmv!TileStart(t)' = s
        BY <1>6
      <4>2. s <= R
        BY <1>1, <1>2 DEF s
      <4>3. QED
        BY <1>1, <1>2, <3>2, <4>1, <4>2
    <3>3. QED
      BY <3>1, <3>2
  <2>2. k < s \/ width # 0
    <3>1. CASE width = 0
      BY <1>1, <1>6, <1>9, <3>1
    <3>2. QED
      BY <3>1
  <2>3. QED
    BY <1>15, <2>1, <2>2
<1>17. Spmv!TileOK(t)'
  <2> SUFFICES ASSUME NEW k \in 0 .. SpTile - 1, k < (R + 1) % SpTile
               PROVE  full[k] = Spmv!Right(F + Spmv!TileStart(t)' + k)
    BY <1>4, <1>5, <1>10 DEF Spmv!TileOK, F
  <2>1. k <= o /\ Spmv!TileStart(t)' = s
    BY <1>2, <1>6
  <2>2. QED
    BY <1>10, <2>1
<1>18. Spmv!SumOK(t)'
  <2>1. CASE R + 1 < Q
    <3>1. Spmv!Summed(F + (R + 1), 0) = <<>>
      BY DEF Spmv!Summed
    <3>2. Spmv!Columns(F + (R + 1)) \in Seq(Nat)
      <4>1. F + (R + 1) \in 0 .. Spmv!NumRows - 1
        <5>1. R + 1 \in 0 .. Q - 1
          BY <1>1, <2>1
        <5>2. QED
          BY <1>7, <5>1
      <4>2. QED
        BY <1>1, <4>1 DEF Spmv!Columns, Spmv!NumRows
    <3>3. 0 <= Len(Spmv!Columns(F + (R + 1)))
      BY <3>2
    <3>4. Spmv!SumOK(t)' <=>
            IF R + 1 < Q
            THEN 0 <= Len(Spmv!Columns(F + (R + 1))) /\ <<>> = Spmv!Summed(F + (R + 1), 0)
            ELSE R + 1 = Q /\ 0 = 0 /\ <<>> = <<>>
      BY <1>3, <1>4, <1>5 DEF Spmv!SumOK, Spmv!Summed, Spmv!Columns, F, Q
    <3>5. QED
      BY <2>1, <3>1, <3>3, <3>4
  <2>2. CASE ~ (R + 1 < Q)
    <3>1. R + 1 = Q
      BY <1>1, <2>2
    <3>2. Spmv!RowsOf(t)' = Q
      BY <1>4 DEF Q
    <3>3. QED
      BY <1>1, <1>5, <3>1, <3>2 DEF Spmv!SumOK
  <2>3. QED
    BY <2>1, <2>2
<1>19. ASSUME NEW u \in Spmv!Tasklets, u # t
       PROVE  Spmv!SumOK(u)' /\ Spmv!TileOK(u)' /\ Spmv!WrittenOK(u)'
  <2>1. spRow'[u] = spRow[u] /\ nz'[u] = nz[u] /\ sum'[u] = sum[u] /\ outTile'[u] = outTile[u]
    BY <1>3, <1>19 DEF Spmv!TypeOK
  <2>2. Spmv!TileStart(u)' = Spmv!TileStart(u)
    BY <2>1 DEF Spmv!TileStart
  <2>3. Spmv!SumOK(u)'
    BY <1>3, <1>4, <2>1 DEF Spmv!SumOK, Spmv!Summed, Spmv!Columns
  <2>4. Spmv!TileOK(u)'
    BY <1>3, <1>4, <2>1, <2>2 DEF Spmv!TileOK
  <2>5. ASSUME NEW k \in 0 .. Spmv!RowsOf(u) - 1
        PROVE  vec'[Spmv!First(u) + k] = vec[Spmv!First(u) + k]
    <3> DEFINE G == Spmv!First(u)
               P == Spmv!RowsOf(u)
    <3>1. G \in Nat /\ P \in Nat /\ P > 0 /\ G + k \in DOMAIN vec
      BY <1>1, <1>13, <2>5, SpShares
    <3>2. G + P <= F \/ F + Q <= G
      <4>1. u \in Int /\ t \in Int /\ Q > 0
        BY <1>1 DEF Spmv!Tasklets
      <4>2. u < t \/ t < u
        BY <1>19, <4>1
      <4>3. QED
        BY <1>1, <3>1, <4>1, <4>2, SpShares DEF F, Q
    <3> HIDE DEF G, P
    <3>3. G + k \notin low .. low + width - 1
      <4>1. ASSUME G + k \in low .. low + width - 1 PROVE FALSE
        <5>1. PICK m \in 0 .. Q - 1 : G + k = F + m
          BY <1>12, <4>1
        <5>2. k \in 0 .. P - 1
          BY DEF P
        <5>3. QED
          BY <1>1, <3>1, <3>2, <5>1, <5>2
      <4>2. QED
        BY <4>1
    <3>4. QED
      BY <1>11, <3>1, <3>3 DEF G
  <2>6. Spmv!WrittenOK(u)'
    BY <1>3, <1>4, <2>1, <2>2, <2>5 DEF Spmv!WrittenOK
  <2>7. QED
    BY <2>3, <2>4, <2>6
<1>20. \A u \in Spmv!Tasklets : spAt'[u] = "end" => spRow'[u] = Spmv!RowsOf(u)'
  BY <1>3, <1>4 DEF Spmv!TypeOK
<1>21. \A u \in Spmv!Tasklets : Spmv!CacheOK(u)'
  BY <1>3 DEF Spmv!CacheOK, Spmv!TileAt
<1>22. QED
  BY <1>14, <1>16, <1>17, <1>18, <1>19, <1>20, <1>21

LEMMA SpEnds ==
  ASSUME Spmv!Sized, Spmv!RowsInv, NEW t \in Spmv!Tasklets, Spmv!RowsDone(t)
  PROVE  Spmv!RowsInv'
<1> USE DEF Spmv!RowsInv
<1>1. UNCHANGED <<spRows, spRow, nz, sum, inTile, inCache, outTile, vec>> /\ spRow[t] = Spmv!RowsOf(t)
      /\ spAt' = [spAt EXCEPT ![t] = "end"]
  <2>1. UNCHANGED <<spRows, spRow, nz, sum, inTile, inCache, outTile, vec>> /\ spRow[t] >= Spmv!RowsOf(t)
        /\ spAt' = [spAt EXCEPT ![t] = "end"]
    BY DEF Spmv!RowsDone
  <2>2. spRow[t] \in Nat /\ Spmv!RowsOf(t) \in Nat
    BY SpShares DEF Spmv!TypeOK
  <2>3. Spmv!SumOK(t)
    OBVIOUS
  <2>4. spRow[t] = Spmv!RowsOf(t)
    BY <2>1, <2>2, <2>3 DEF Spmv!SumOK
  <2>5. QED
    BY <2>1, <2>4
<1>2. /\ \A u : Spmv!First(u)' = Spmv!First(u) /\ Spmv!RowsOf(u)' = Spmv!RowsOf(u)
      /\ \A u : Spmv!TileStart(u)' = Spmv!TileStart(u)
      /\ \A k : Spmv!Right(k)' = Spmv!Right(k)
  BY <1>1 DEF Spmv!First, Spmv!RowsOf, Spmv!PerTasklet, Spmv!NumRows, Spmv!TileStart, Spmv!Right,
    Spmv!Summed, Spmv!Columns
<1>3. Spmv!TypeOK'
  BY <1>1 DEF Spmv!TypeOK, Spmv!NumRows
<1>4. ASSUME NEW u \in Spmv!Tasklets
      PROVE  Spmv!SumOK(u)' /\ Spmv!CacheOK(u)' /\ Spmv!TileOK(u)' /\ Spmv!WrittenOK(u)'
             /\ (spAt'[u] = "end" => spRow'[u] = Spmv!RowsOf(u)')
  <2>1. Spmv!SumOK(u)'
    BY <1>1, <1>2 DEF Spmv!SumOK, Spmv!Summed, Spmv!Columns
  <2>2. Spmv!CacheOK(u)' /\ Spmv!TileOK(u)' /\ Spmv!WrittenOK(u)'
    BY <1>1, <1>2 DEF Spmv!CacheOK, Spmv!TileAt, Spmv!TileOK, Spmv!WrittenOK
  <2>3. spAt'[u] = "end" => spRow'[u] = Spmv!RowsOf(u)'
    BY <1>1, <1>2 DEF Spmv!TypeOK
  <2>4. QED
    BY <2>1, <2>2, <2>3
<1>5. QED
  BY <1>3, <1>4

LEMMA SpPreserves ==
  ASSUME Spmv!Sized, Spmv!RowsInv, [Spmv!Next]_(Spmv!vars)
  PROVE  Spmv!RowsInv'
<1>1. CASE \E t \in Spmv!Tasklets : Spmv!Multiply(t) \/ Spmv!Store(t) \/ Spmv!RowsDone(t)
  BY <1>1, SpMultiplies, SpStores, SpEnds
<1>2. CASE UNCHANGED Spmv!vars
  <2>1. UNCHANGED <<spRows, spAt, spRow, nz, sum, inTile, inCache, outTile, vec>>
    BY <1>2 DEF Spmv!vars
  <2>2. /\ \A u : Spmv!First(u)' = Spmv!First(u) /\ Spmv!RowsOf(u)' = Spmv!RowsOf(u)
        /\ \A u : Spmv!TileStart(u)' = Spmv!TileStart(u)
        /\ \A k : Spmv!Right(k)' = Spmv!Right(k)
    BY <2>1 DEF Spmv!First, Spmv!RowsOf, Spmv!PerTasklet, Spmv!NumRows, Spmv!TileStart, Spmv!Right,
      Spmv!Summed, Spmv!Columns
  <2>3. Spmv!TypeOK'
    BY <2>1 DEF Spmv!RowsInv, Spmv!TypeOK, Spmv!NumRows
  <2>4. ASSUME NEW u \in Spmv!Tasklets
        PROVE  Spmv!SumOK(u)' /\ Spmv!CacheOK(u)' /\ Spmv!TileOK(u)' /\ Spmv!WrittenOK(u)'
               /\ (spAt'[u] = "end" => spRow'[u] = Spmv!RowsOf(u)')
    <3>1. Spmv!SumOK(u)'
      BY <2>1, <2>2 DEF Spmv!RowsInv, Spmv!SumOK, Spmv!Summed, Spmv!Columns
    <3>2. Spmv!CacheOK(u)' /\ Spmv!TileOK(u)' /\ Spmv!WrittenOK(u)'
      BY <2>1, <2>2 DEF Spmv!RowsInv, Spmv!CacheOK, Spmv!TileAt, Spmv!TileOK, Spmv!WrittenOK
    <3>3. spAt'[u] = "end" => spRow'[u] = Spmv!RowsOf(u)'
      BY <2>1, <2>2 DEF Spmv!RowsInv
    <3>4. QED
      BY <3>1, <3>2, <3>3
  <2>5. QED
    BY <2>3, <2>4 DEF Spmv!RowsInv
<1>3. QED
  BY <1>1, <1>2 DEF Spmv!Next

LEMMA SpSafe ==
  ASSUME Spmv!Sized, Spmv!RowsInv
  PROVE  Spmv!RowsSummed
<1> SUFFICES ASSUME Spmv!Ended, NEW r \in 0 .. Spmv!NumRows - 1
             PROVE  vec[r] = Spmv!Right(r)
  BY DEF Spmv!RowsSummed, Spmv!Right, Spmv!Summed, Spmv!Columns
<1>1. spRows \in Seq(Seq(Nat))
  BY DEF Spmv!RowsInv, Spmv!TypeOK
<1>2. PICK t \in Spmv!Tasklets : Spmv!First(t) <= r /\ r < Spmv!First(t) + Spmv!RowsOf(t)
  BY <1>1, SpShares
<1>3. Spmv!First(t) \in Nat /\ Spmv!RowsOf(t) \in Nat
  BY <1>1, SpShares
<1>4. r - Spmv!First(t) \in 0 .. Spmv!RowsOf(t) - 1 /\ Spmv!First(t) + (r - Spmv!First(t)) = r
  BY <1>2, <1>3
<1>5. QED
  BY <1>4 DEF Spmv!RowsInv, Spmv!Ended, Spmv!WrittenOK

-----------------------------------------------------------------------------
(* gemv and MLP: the pairs of rows of the tasklets are all rows, and a row *)
(* is multiplied element by element, whatever its alignment.               *)

mvApp == m1
mvAt == m2
mvCmd == m3
mvJob == m4
nSize == m5
nrRows == m6
mvRow == m7
mvPos == m8
addrA == m9
offset == m10
cacheC == m11
mvC == m12
USE DEF mvApp, mvAt, mvCmd, mvJob, nSize, nrRows, mvRow, mvPos, addrA, offset, cacheC, mvC

\* The rows of the tasklets lie one behind the other, from even to even; only
\* the second row of the last pair may be none of the matrix.
LEMMA MvShares ==
  ASSUME Mv!Sized, mvApp \in {"gemv", "mlp"}, nrRows \in Nat
  PROVE  /\ \A t \in Mv!Tasklets :
              /\ Mv!StartRow(t) \in Nat /\ Mv!RowsOf(t) \in Nat
              /\ Mv!StartRow(t) % 2 = 0 /\ (Mv!StartRow(t) + Mv!RowsOf(t)) % 2 = 0
              /\ Mv!StartRow(t) + Mv!RowsOf(t) <= nrRows + (nrRows % 2)
         /\ \A t, s \in Mv!Tasklets : t < s => Mv!StartRow(t) + Mv!RowsOf(t) <= Mv!StartRow(s)
         /\ \A r \in 0 .. nrRows - 1 : \E t \in Mv!Tasklets :
              Mv!StartRow(t) <= r /\ r < Mv!StartRow(t) + Mv!RowsOf(t)
<1> DEFINE n == nrRows
           D == MvN * 2
           q == n \div D
           rest == n % D
           half == rest \div 2
           odd == rest % 2
           c == half + odd
           e == q * 2
           Low(t) == IF t < c THEN t ELSE c
           f(t) == t * e + Low(t) * 2
<1>1. MvN \in Nat \ {0} /\ n \in Nat /\ D \in Nat \ {0} /\ Mv!Tasklets = 0 .. MvN - 1
  BY DEF Mv!Sized, Mv!Tasklets
<1>2. q \in Nat /\ rest \in 0 .. D - 1 /\ n = D * q + rest
  <2> HIDE DEF D, n
  <2>1. QED
    BY <1>1, DivMod
<1>3. Mv!Rest = rest /\ Mv!Doubled = e
  BY DEF Mv!Rest, Mv!Doubled, Mv!Pair
<1> HIDE DEF n, q, rest
<1>4. half \in Nat /\ odd \in 0 .. 1 /\ rest = half * 2 + odd /\ c \in Nat /\ c <= MvN /\ e \in Nat
  BY <1>1, <1>2
<1>5. D * q = MvN * e /\ MvN * e \in Nat
  BY <1>1, <1>2
<1>6. \A t \in Nat : t * e \in Nat /\ (t + 1) * e = t * e + e /\ t * (e + 2) = t * e + t * 2
  BY <1>4
<1> HIDE DEF e, half, odd
<1>7. ASSUME NEW t \in Nat PROVE (t * 2 < rest <=> t < c)
  BY <1>1, <1>2, <1>4
<1>8. ASSUME NEW t \in Nat PROVE Mv!StartRow(t) = f(t)
  <2>1. Mv!StartGemv(t) = IF t * 2 < rest THEN t * (e + 2)
                          ELSE (IF odd # 0 THEN (half + 1) * 2 ELSE rest) + t * e
    BY <1>3 DEF Mv!StartGemv, Mv!Pair, half, odd
  <2>2. Mv!StartMLP(t) = IF t * 2 < rest THEN t * (e + 2)
                         ELSE IF odd = 1
                         THEN (half + 1) * (e + 2) + (t - 1 - half) * e
                         ELSE half * (e + 2) + (t - half) * e
    BY <1>3 DEF Mv!StartMLP, Mv!Pair, half, odd
  <2> DEFINE v == t * e
  <2>3. v \in Nat /\ t * (e + 2) = v + t * 2
    BY <1>6
  <2>4. (half + 1) * (e + 2) + (t - 1 - half) * e = v + (half + 1) * 2
    BY <1>4
  <2>5. half * (e + 2) + (t - half) * e = v + half * 2
    BY <1>4
  <2> HIDE DEF v
  <2>6. CASE t < c
    BY <1>4, <1>7, <2>1, <2>2, <2>3, <2>6 DEF Mv!StartRow, v
  <2>7. CASE ~ (t < c)
    <3>1. f(t) = v + c * 2
      BY <2>7 DEF v
    <3>2. Mv!StartGemv(t) = v + c * 2
      BY <1>2, <1>4, <1>7, <2>1, <2>3, <2>7 DEF v
    <3>3. Mv!StartMLP(t) = v + c * 2
      <4>1. CASE odd = 1
        BY <1>4, <1>7, <2>2, <2>3, <2>4, <2>7, <4>1
      <4>2. CASE odd = 0
        BY <1>4, <1>7, <2>2, <2>3, <2>5, <2>7, <4>2
      <4>3. QED
        BY <1>4, <4>1, <4>2
    <3>4. QED
      BY <3>1, <3>2, <3>3 DEF Mv!StartRow
  <2>8. QED
    BY <2>6, <2>7
<1>9. ASSUME NEW t \in Nat
      PROVE  /\ Mv!RowsOf(t) = e + (IF t < c THEN 2 ELSE 0)
             /\ f(t) \in Nat /\ f(t + 1) = f(t) + Mv!RowsOf(t) /\ Mv!RowsOf(t) \in Nat
             /\ f(t) % 2 = 0 /\ f(t + 1) % 2 = 0
  <2>1. Mv!RowsOf(t) = e + (IF t < c THEN 2 ELSE 0)
    BY <1>3, <1>7 DEF Mv!RowsOf, Mv!Pair
  <2> DEFINE v == t * e
             w == (t + 1) * e
             g == t * q
  <2>2. v \in Nat /\ w = v + e /\ v = g * 2 /\ g \in Nat /\ e = q * 2
    BY <1>2, <1>6 DEF e
  <2> HIDE DEF v, w, g
  <2>3. f(t) = v + Low(t) * 2 /\ f(t + 1) = w + Low(t + 1) * 2
    BY DEF v, w
  <2> DEFINE a == Low(t)
             b == Low(t + 1)
  <2>4. a \in Nat /\ b \in Nat /\ b = a + (IF t < c THEN 1 ELSE 0)
    BY <1>4
  <2> HIDE DEF a, b, c
  <2>5. f(t) = (g + a) * 2 /\ f(t + 1) = (g + q + b) * 2
    <3> HIDE DEF f
    <3>1. f(t) = v + a * 2 /\ f(t + 1) = w + b * 2
      BY <2>3 DEF a, b
    <3>2. QED
      BY <1>2, <2>2, <2>4, <3>1
  <2> HIDE DEF f
  <2>6. QED
    BY <1>2, <1>4, <2>1, <2>2, <2>3, <2>4, <2>5 DEF a, b
<1>10. f(MvN) = n + (n % 2) /\ f(0) = 0
  <2> DEFINE v == MvN * e
             g == MvN * q
  <2>1. v \in Nat /\ v = g * 2 /\ g \in Nat /\ n = v + rest
    BY <1>1, <1>2, <1>5 DEF e
  <2>2. f(MvN) = v + c * 2
    BY <1>1, <1>4
  <2> HIDE DEF v, g
  <2>3. v + c * 2 = n + (n % 2)
    BY <1>1, <1>2, <1>4, <2>1
  <2>4. f(0) = 0
    BY <1>4
  <2>5. QED
    BY <2>2, <2>3, <2>4
<1>11. ASSUME NEW t \in Nat, NEW s \in Nat, t < s PROVE f(t) + Mv!RowsOf(t) <= f(s)
  <2> DEFINE a == f(t + 1)
             b == f(s)
  <2>1. (t + 1) * e <= s * e /\ (t + 1) * e \in Nat /\ s * e \in Nat
    BY <1>4, <1>11, ProductsGrow
  <2>2. Low(t + 1) \in Nat /\ Low(s) \in Nat /\ Low(t + 1) <= Low(s)
    BY <1>4, <1>11
  <2>3. a = (t + 1) * e + Low(t + 1) * 2 /\ b = s * e + Low(s) * 2
    OBVIOUS
  <2> HIDE DEF Low, a, b
  <2>4. a <= b
    BY <2>1, <2>2, <2>3
  <2>5. QED
    BY <1>9, <2>4 DEF a, b
<1> HIDE DEF f
<1>12. ASSUME NEW r \in 0 .. n - 1
       PROVE  \E t \in 0 .. MvN - 1 : f(t) <= r /\ r < f(t) + Mv!RowsOf(t)
  <2> DEFINE T == {t \in 0 .. MvN - 1 : f(t) <= r}
  <2>1. 0 \in T /\ T \in SUBSET Int /\ \A t \in T : t <= MvN - 1
    BY <1>1, <1>10
  <2>2. PICK t \in T : \A s \in T : s <= t
    <3> DEFINE b == MvN - 1
    <3>1. b \in Int /\ \A t \in T : t <= b
      BY <1>1, <2>1
    <3> HIDE DEF T, b
    <3>2. T # {}
      BY <2>1
    <3>3. QED
      BY <2>1, <3>1, <3>2, Largest
  <2>3. r < f(t + 1)
    <3>1. CASE t + 1 = MvN
      BY <1>1, <1>10, <3>1
    <3>2. CASE t + 1 # MvN
      <4>1. t + 1 \in 0 .. MvN - 1 /\ t + 1 \notin T
        BY <1>1, <2>2, <3>2
      <4>2. ~ (f(t + 1) <= r)
        BY <4>1
      <4>3. f(t + 1) \in Nat
        BY <1>9
      <4>4. QED
        BY <4>2, <4>3
    <3>3. QED
      BY <3>1, <3>2
  <2>4. QED
    BY <1>9, <2>3
<1>13. ASSUME NEW t \in 0 .. MvN - 1
       PROVE  f(t) + Mv!RowsOf(t) <= n + (n % 2)
  <2>1. f(t) + Mv!RowsOf(t) <= f(MvN)
    BY <1>1, <1>11
  <2>2. QED
    BY <1>10, <2>1
<1>14. \A t \in 0 .. MvN - 1 : t \in Nat
  OBVIOUS
<1>15. ASSUME NEW t \in Mv!Tasklets
       PROVE  /\ Mv!StartRow(t) \in Nat /\ Mv!RowsOf(t) \in Nat
              /\ Mv!StartRow(t) % 2 = 0 /\ (Mv!StartRow(t) + Mv!RowsOf(t)) % 2 = 0
              /\ Mv!StartRow(t) + Mv!RowsOf(t) <= n + (n % 2)
  <2>1. t \in Nat /\ t \in 0 .. MvN - 1
    BY <1>1, <1>14
  <2>2. Mv!StartRow(t) = f(t) /\ f(t) \in Nat /\ f(t) % 2 = 0 /\ Mv!RowsOf(t) \in Nat
        /\ f(t + 1) = f(t) + Mv!RowsOf(t) /\ f(t + 1) % 2 = 0
    BY <1>8, <1>9, <2>1
  <2>3. f(t) + Mv!RowsOf(t) <= n + (n % 2)
    BY <1>13, <2>1
  <2>4. QED
    BY <2>2, <2>3
<1>16. \A t, s \in Mv!Tasklets : t < s => Mv!StartRow(t) + Mv!RowsOf(t) <= Mv!StartRow(s)
  BY <1>1, <1>8, <1>11, <1>14
<1>17. \A r \in 0 .. n - 1 : \E t \in Mv!Tasklets :
         Mv!StartRow(t) <= r /\ r < Mv!StartRow(t) + Mv!RowsOf(t)
  BY <1>1, <1>8, <1>12, <1>14
<1>18. QED
  BY <1>15, <1>16, <1>17 DEF n

\* A row is read and shifted so that element j of it meets element j of B.
LEMMA MvTerms ==
  ASSUME Mv!Sized, nSize \in Nat \ {0}, NEW a \in Nat
  PROVE  Mv!RowOfTerms(a, a % 2) = [j \in 0 .. nSize - 1 |-> a + j]
<1> DEFINE top == nSize - 1
           q == top \div MvW
           whole == q * MvW
           Block(j) == IF j < whole THEN (j \div MvW) * MvW ELSE whole
           o == a % 2
<1>1. MvW \in Nat \ {0} /\ top \in Nat
  BY DEF Mv!Sized
<1>2. PICK w \in Nat \ {0} : MvW = 2 * w
  BY <1>1 DEF Mv!Sized
<1>3. q \in Nat /\ top % MvW \in 0 .. MvW - 1 /\ top = MvW * q + (top % MvW)
  <2> HIDE DEF top
  <2>1. QED
    BY <1>1, DivMod
<1>4. MvW * q = whole /\ whole \in Nat /\ whole = 2 * (q * w) /\ q * w \in Nat
  <2> HIDE DEF q
  <2>1. QED
    BY <1>1, <1>2, <1>3
<1> HIDE DEF q, whole
<1>5. ASSUME NEW j \in 0 .. nSize - 1
      PROVE  Block(j) \in Nat /\ Block(j) % 2 = 0 /\ j - Block(j) \in 0 .. MvW - 1
  <2>1. CASE j < whole
    <3> DEFINE k == j \div MvW
               b == k * MvW
    <3>1. k \in Nat /\ j % MvW \in 0 .. MvW - 1 /\ j = MvW * k + (j % MvW)
      <4>1. j \in Nat
        OBVIOUS
      <4> HIDE DEF Block
      <4>2. QED
        BY <1>1, <4>1, DivMod
    <3> HIDE DEF k
    <3>2. MvW * k = b /\ b \in Nat /\ b = 2 * (k * w) /\ k * w \in Nat
      BY <1>1, <1>2, <3>1
    <3> DEFINE g == k * w
    <3> HIDE DEF b, g
    <3>3. b % 2 = 0 /\ j - b \in 0 .. MvW - 1
      <4>1. b = 2 * g /\ g \in Nat
        BY <3>2 DEF g
      <4>2. QED
        BY <1>1, <3>1, <3>2, <4>1
    <3>4. Block(j) = b
      BY <2>1 DEF b, k
    <3>5. QED
      BY <3>2, <3>3, <3>4
  <2>2. CASE ~ (j < whole)
    <3> DEFINE g == q * w
               m == top % MvW
    <3>1. whole = 2 * g /\ g \in Nat /\ Block(j) = whole
      BY <1>4, <2>2
    <3>2. m \in 0 .. MvW - 1 /\ top = whole + m /\ j <= top
      BY <1>3, <1>4
    <3> HIDE DEF g, m, top, Block
    <3>3. whole % 2 = 0 /\ j - whole \in 0 .. MvW - 1
      BY <1>1, <1>4, <2>2, <3>1, <3>2
    <3>4. QED
      BY <1>4, <3>1, <3>3
  <2>3. QED
    BY <2>1, <2>2
<1>6. ASSUME NEW b \in Nat, b % 2 = 0, NEW x \in 0 .. MvW - 1
      PROVE  Mv!Loaded(a + b, o)[x] = a + b + x
  <2>1. Mv!Loaded(a + b, o)[x] = IF o = 0 THEN (a + b) - ((a + b) % 2) + x
                                 ELSE IF x < MvW - 1 THEN (a + b) - ((a + b) % 2) + x + 1
                                 ELSE (a + b + MvW) - ((a + b + MvW) % 2)
    BY DEF Mv!Loaded, Mv!Aligned
  <2>2. o \in 0 .. 1 /\ (a + b) % 2 = o /\ (a + b + MvW) % 2 = o
    BY <1>1, <1>2, <1>6
  <2> HIDE DEF o
  <2>3. QED
    BY <1>1, <2>1, <2>2
<1>7. Mv!RowOfTerms(a, o) = [j \in 0 .. nSize - 1 |-> Mv!Loaded(a + Block(j), o)[j - Block(j)]]
  BY DEF Mv!RowOfTerms, whole, q
<1>8. \A j \in 0 .. nSize - 1 : Mv!Loaded(a + Block(j), o)[j - Block(j)] = a + j
  <2> SUFFICES ASSUME NEW j \in 0 .. nSize - 1
               PROVE  Mv!Loaded(a + Block(j), o)[j - Block(j)] = a + j
    OBVIOUS
  <2> DEFINE b == Block(j)
  <2>1. b \in Nat /\ b % 2 = 0 /\ j - b \in 0 .. MvW - 1
    BY <1>5
  <2> HIDE DEF b, o
  <2>2. Mv!Loaded(a + b, o)[j - b] = a + b + (j - b)
    BY <1>6, <2>1
  <2>3. a + b + (j - b) = a + j
    BY <2>1
  <2>4. QED
    BY <2>2, <2>3 DEF b
<1>9. QED
  BY <1>7, <1>8

LEMMA MvInit ==
  ASSUME Mv!Sized, Mv!Init
  PROVE  Mv!ProductInv
<1>1. 0 \in Mv!Tasklets
  BY DEF Mv!Sized, Mv!Tasklets
<1>2. Mv!TypeOK
  BY DEF Mv!Init, Mv!TypeOK
<1>3. Mv!PhaseOK
  BY DEF Mv!Init, Mv!PhaseOK, Mv!Complete
<1>4. \A t \in Mv!Tasklets : mvAt[t] \notin Mv!Working
  BY DEF Mv!Init, Mv!Working
<1>5. QED
  BY <1>2, <1>3, <1>4 DEF Mv!ProductInv

\* What the phases are apart from.
LEMMA MvPhases ==
  ASSUME Mv!Sized, Mv!PhaseOK
  PROVE  /\ 0 \in Mv!Tasklets
         /\ \A t \in Mv!Tasklets : mvAt[t] \in Mv!Working =>
              mvCmd = "run" /\ nSize > 0 /\ \A s \in Mv!Tasklets : mvAt[s] \in Mv!Working
         /\ mvAt[0] = "host" => mvCmd # "exit" /\ Mv!Complete
              /\ \A s \in Mv!Tasklets : mvAt[s] = IF s = 0 THEN "host" ELSE "fetched"
         /\ (\A t \in Mv!Tasklets : mvAt[t] = "end") => Mv!Complete
         /\ (\A t \in Mv!Tasklets : mvAt[t] = "fetched") =>
              (mvCmd = "run" /\ nSize > 0) \/ (mvCmd = "exit" /\ Mv!Complete)
<1>1. 0 \in Mv!Tasklets
  BY DEF Mv!Sized, Mv!Tasklets
<1>2. QED
  BY <1>1 DEF Mv!PhaseOK, Mv!Working

LEMMA MvHostAnswers ==
  ASSUME Mv!Sized, Mv!ProductInv, Mv!HostAnswers
  PROVE  Mv!ProductInv'
<1>1. mvAt[0] = "host" /\ mvCmd # "exit" /\ Mv!Complete /\ 0 \in Mv!Tasklets
      /\ \A s \in Mv!Tasklets : mvAt[s] = IF s = 0 THEN "host" ELSE "fetched"
  BY MvPhases DEF Mv!ProductInv, Mv!HostAnswers
<1>2. DOMAIN mvAt = Mv!Tasklets /\ mvAt' = [mvAt EXCEPT ![0] = "fetched"]
      /\ UNCHANGED <<mvApp, mvRow, mvPos, addrA, offset, cacheC>>
  BY DEF Mv!ProductInv, Mv!TypeOK, Mv!HostAnswers, Mv!Goto
<1>3. \A s \in Mv!Tasklets : mvAt'[s] = "fetched"
  BY <1>1, <1>2
<1>4. \/ /\ mvCmd' = "run" /\ nSize' \in Nat \ {0} /\ nrRows' \in Nat
         /\ mvC' = [r \in 0 .. nrRows' - 1 |-> Mv!Nothing]
      \/ mvCmd' = "exit" /\ UNCHANGED <<nSize, nrRows, mvC>>
  BY DEF Mv!HostAnswers, Mv!Sized
<1>5. Mv!TypeOK'
  BY <1>2, <1>4 DEF Mv!ProductInv, Mv!TypeOK
<1>6. Mv!PhaseOK'
  <2>1. CASE mvCmd' = "run"
    BY <1>3, <1>4, <2>1 DEF Mv!PhaseOK
  <2>2. CASE mvCmd' = "exit" /\ UNCHANGED <<nSize, nrRows, mvC>>
    <3>1. Mv!Complete'
      BY <1>1, <2>2 DEF Mv!Complete, Mv!Right
    <3>2. QED
      BY <1>3, <2>2, <3>1 DEF Mv!PhaseOK
  <2>3. QED
    BY <1>4, <2>1, <2>2
<1>7. \A s \in Mv!Tasklets : ~ (mvAt'[s] \in Mv!Working)
  BY <1>3 DEF Mv!Working
<1>8. QED
  BY <1>5, <1>6, <1>7 DEF Mv!ProductInv, Mv!Working

LEMMA MvStartsJob ==
  ASSUME Mv!Sized, Mv!ProductInv, Mv!StartJob
  PROVE  Mv!ProductInv'
<1>1. /\ \A t \in Mv!Tasklets : mvAt[t] = "fetched"
      /\ mvAt' = [t \in Mv!Tasklets |-> IF mvCmd = "exit" THEN "end" ELSE "pair"]
      /\ mvRow' = [t \in Mv!Tasklets |-> Mv!StartRow(t)]
      /\ offset' = [t \in Mv!Tasklets |-> 0]
      /\ UNCHANGED <<mvApp, mvCmd, mvJob, nSize, nrRows, mvPos, addrA, cacheC, mvC>>
  BY DEF Mv!StartJob, Mv!Barrier, Mv!args
<1>2. (mvCmd = "run" /\ nSize > 0) \/ (mvCmd = "exit" /\ Mv!Complete)
  BY <1>1, MvPhases DEF Mv!ProductInv
<1>3. mvApp \in {"gemv", "mlp"} /\ nrRows \in Nat
  BY DEF Mv!ProductInv, Mv!TypeOK
<1>4. \A t \in Mv!Tasklets : Mv!StartRow(t)' = Mv!StartRow(t) /\ Mv!RowsOf(t)' = Mv!RowsOf(t)
  BY <1>1 DEF Mv!StartRow, Mv!StartGemv, Mv!StartMLP, Mv!RowsOf, Mv!Rest, Mv!Doubled
<1>5. \A t \in Mv!Tasklets : Mv!StartRow(t) \in Nat /\ Mv!RowsOf(t) \in Nat /\ Mv!StartRow(t) % 2 = 0
  BY <1>3, MvShares
<1>6. Mv!TypeOK'
  BY <1>1, <1>5 DEF Mv!ProductInv, Mv!TypeOK
<1>7. Mv!PhaseOK'
  <2>1. CASE mvCmd = "run" /\ nSize > 0
    BY <1>1, <2>1 DEF Mv!PhaseOK, Mv!Working
  <2>2. CASE mvCmd = "exit" /\ Mv!Complete
    <3>1. Mv!Complete'
      BY <1>1, <2>2 DEF Mv!Complete, Mv!Right
    <3>2. QED
      BY <1>1, <2>2, <3>1 DEF Mv!PhaseOK
  <2>3. QED
    BY <1>2, <2>1, <2>2
<1>8. ASSUME NEW t \in Mv!Tasklets, mvAt'[t] \in Mv!Working PROVE Mv!PairOK(t)'
  <2>1. mvAt'[t] = "pair" /\ mvRow'[t] = Mv!StartRow(t) /\ offset'[t] = 0
    BY <1>1, <1>8 DEF Mv!Working
  <2> DEFINE S == Mv!StartRow(t)
             P == Mv!RowsOf(t)
  <2>2. S \in Nat /\ P \in Nat /\ S % 2 = 0 /\ Mv!StartRow(t)' = S /\ Mv!RowsOf(t)' = P
    BY <1>4, <1>5
  <2> HIDE DEF S, P
  <2>3. mvRow'[t] % 2 = 0 /\ S <= mvRow'[t] /\ mvRow'[t] <= S + P /\ mvRow'[t] = S
    BY <2>1, <2>2 DEF S
  <2>4. \A r \in 0 .. nrRows' - 1 : ~ (S <= r /\ r < mvRow'[t])
    BY <1>1, <1>3, <2>2, <2>3
  <2>5. QED
    BY <2>1, <2>2, <2>3, <2>4 DEF Mv!PairOK
<1>9. QED
  BY <1>6, <1>7, <1>8 DEF Mv!ProductInv, Mv!Working

LEMMA MvJobDone ==
  ASSUME Mv!Sized, Mv!ProductInv, Mv!JobDone
  PROVE  Mv!ProductInv'
<1>1. /\ \A t \in Mv!Tasklets : mvAt[t] = "barrier"
      /\ mvAt' = [t \in Mv!Tasklets |-> IF mvApp = "gemv" THEN "end" ELSE IF t = 0 THEN "host" ELSE "fetched"]
      /\ UNCHANGED <<mvApp, mvCmd, mvJob, nSize, nrRows, mvRow, mvPos, addrA, offset, cacheC, mvC>>
  BY DEF Mv!JobDone, Mv!args
<1>2. mvApp \in {"gemv", "mlp"} /\ nrRows \in Nat
  BY DEF Mv!ProductInv, Mv!TypeOK
<1>3. mvCmd = "run"
  BY <1>1, MvPhases DEF Mv!ProductInv, Mv!Working
<1>4. Mv!Complete
  <2> SUFFICES ASSUME NEW r \in 0 .. nrRows - 1 PROVE mvC[r] = Mv!Right(r)
    BY DEF Mv!Complete
  <2>1. PICK t \in Mv!Tasklets : Mv!StartRow(t) <= r /\ r < Mv!StartRow(t) + Mv!RowsOf(t)
    BY <1>2, MvShares
  <2>2. Mv!PairOK(t)
    BY <1>1 DEF Mv!ProductInv, Mv!Working
  <2>3. mvRow[t] = Mv!StartRow(t) + Mv!RowsOf(t)
    BY <1>1, <2>2 DEF Mv!PairOK
  <2>4. QED
    BY <2>1, <2>2, <2>3 DEF Mv!PairOK
<1>5. Mv!Complete'
  BY <1>1, <1>4 DEF Mv!Complete, Mv!Right
<1>6. Mv!TypeOK'
  BY <1>1 DEF Mv!ProductInv, Mv!TypeOK
<1>7. Mv!PhaseOK'
  <2>1. CASE mvApp = "gemv"
    BY <1>1, <1>5, <2>1 DEF Mv!PhaseOK
  <2>2. CASE mvApp # "gemv"
    BY <1>1, <1>3, <1>5, <2>2 DEF Mv!PhaseOK
  <2>3. QED
    BY <2>1, <2>2
<1>8. \A t \in Mv!Tasklets : ~ (mvAt'[t] \in Mv!Working)
  BY <1>1 DEF Mv!Working
<1>9. QED
  BY <1>6, <1>7, <1>8 DEF Mv!ProductInv, Mv!Working

\* What the steps of a tasklet in its pairs leave alone, and what they may do
\* to the rows of the others.
LEMMA MvTaskletSteps ==
  ASSUME Mv!Sized, Mv!ProductInv, NEW t \in Mv!Tasklets, NEW l \in Mv!Working,
         mvAt[t] \in Mv!Working,
         \A u \in Mv!Tasklets : mvAt'[u] = IF u = t THEN l ELSE mvAt[u],
         UNCHANGED <<mvApp, mvCmd, mvJob, nSize, nrRows>>,
         Mv!TypeOK', Mv!PairOK(t)',
         \A u \in Mv!Tasklets \ {t} :
           mvRow'[u] = mvRow[u] /\ mvPos'[u] = mvPos[u] /\ addrA'[u] = addrA[u]
           /\ offset'[u] = offset[u] /\ cacheC'[u] = cacheC[u],
         \A u \in Mv!Tasklets \ {t} : \A r \in 0 .. nrRows - 1 :
           Mv!StartRow(u) <= r /\ r < mvRow[u] => mvC'[r] = mvC[r]
  PROVE  Mv!ProductInv'
<1>1. mvCmd = "run" /\ nSize > 0 /\ \A s \in Mv!Tasklets : mvAt[s] \in Mv!Working
  BY MvPhases DEF Mv!ProductInv
<1>2. \A s \in Mv!Tasklets : mvAt'[s] = IF s = t THEN l ELSE mvAt[s]
  OBVIOUS
<1>3. Mv!PhaseOK'
  BY <1>1, <1>2 DEF Mv!PhaseOK
<1>4. \A u \in Mv!Tasklets : Mv!StartRow(u)' = Mv!StartRow(u) /\ Mv!RowsOf(u)' = Mv!RowsOf(u)
  BY DEF Mv!StartRow, Mv!StartGemv, Mv!StartMLP, Mv!RowsOf, Mv!Rest, Mv!Doubled
<1>5. \A r : Mv!Right(r)' = Mv!Right(r)
  BY DEF Mv!Right
<1>6. ASSUME NEW u \in Mv!Tasklets, u # t PROVE Mv!PairOK(u)'
  <2>1. Mv!PairOK(u) /\ mvAt'[u] = mvAt[u]
    BY <1>1, <1>2, <1>6 DEF Mv!ProductInv
  <2>2. mvRow'[u] = mvRow[u] /\ mvPos'[u] = mvPos[u] /\ addrA'[u] = addrA[u]
        /\ offset'[u] = offset[u] /\ cacheC'[u] = cacheC[u] /\ nrRows' = nrRows /\ nSize' = nSize
        /\ Mv!StartRow(u)' = Mv!StartRow(u) /\ Mv!RowsOf(u)' = Mv!RowsOf(u)
    BY <1>4, <1>6
  <2>3. \A r \in 0 .. nrRows - 1 : Mv!StartRow(u) <= r /\ r < mvRow[u] => mvC'[r] = Mv!Right(r)
    BY <1>6, <2>1 DEF Mv!PairOK
  <2>4. QED
    BY <1>5, <2>1, <2>2, <2>3 DEF Mv!PairOK
<1>7. QED
  BY <1>3, <1>6 DEF Mv!ProductInv

\* Two rows further an even row begins at an even element.
LEMMA MvEven ==
  ASSUME NEW r \in Nat, r % 2 = 0, NEW n \in Nat
  PROVE  (r * n) % 2 = 0
<1>1. PICK h \in Nat : r = 2 * h
  OBVIOUS
<1>2. r * n = (h * n) * 2 /\ h * n \in Nat
  BY <1>1
<1> DEFINE g == h * n
<1>3. r * n = g * 2 /\ g \in Nat
  BY <1>2
<1> HIDE DEF g
<1>4. (g * 2) % 2 = 0
  BY <1>3
<1>5. QED
  BY <1>3, <1>4

\* A tasklet in its pairs: its first row and its end are even, and before the
\* end there is a row of the matrix.
LEMMA MvPairs ==
  ASSUME Mv!Sized, Mv!ProductInv, NEW t \in Mv!Tasklets, mvAt[t] \in Mv!Working
  PROVE  /\ nSize \in Nat \ {0} /\ nrRows \in Nat /\ mvRow[t] \in Nat /\ mvRow[t] % 2 = 0
         /\ Mv!StartRow(t) \in Nat /\ Mv!RowsOf(t) \in Nat
         /\ Mv!StartRow(t) <= mvRow[t] /\ mvRow[t] <= Mv!StartRow(t) + Mv!RowsOf(t)
         /\ mvRow[t] < Mv!StartRow(t) + Mv!RowsOf(t) =>
              mvRow[t] < nrRows /\ mvRow[t] + 2 <= Mv!StartRow(t) + Mv!RowsOf(t)
<1> DEFINE e == Mv!StartRow(t) + Mv!RowsOf(t)
<1>1. nSize \in Nat \ {0} /\ nrRows \in Nat /\ mvRow[t] \in Nat /\ mvApp \in {"gemv", "mlp"}
  BY MvPhases DEF Mv!ProductInv, Mv!TypeOK
<1>2. Mv!StartRow(t) \in Nat /\ Mv!RowsOf(t) \in Nat /\ e % 2 = 0 /\ e <= nrRows + (nrRows % 2)
  BY <1>1, MvShares
<1>3. e \in Nat
  BY <1>2
<1>4. mvRow[t] % 2 = 0 /\ Mv!StartRow(t) <= mvRow[t] /\ mvRow[t] <= e
  BY DEF Mv!ProductInv, Mv!PairOK
<1> HIDE DEF e
<1>5. mvRow[t] < e => mvRow[t] < nrRows /\ mvRow[t] + 2 <= e
  BY <1>1, <1>2, <1>3, <1>4
<1>6. QED
  BY <1>1, <1>2, <1>4, <1>5 DEF e

LEMMA MvNextPair ==
  ASSUME Mv!Sized, Mv!ProductInv, NEW t \in Mv!Tasklets, Mv!NextPair(t)
  PROVE  Mv!ProductInv'
<1> DEFINE S == Mv!StartRow(t)
           P == Mv!RowsOf(t)
<1>1. mvAt[t] = "pair" /\ UNCHANGED <<mvApp, mvCmd, mvJob, nSize, nrRows, mvRow, offset, mvC>>
  BY DEF Mv!NextPair, Mv!args
<1>2. mvAt[t] \in Mv!Working
  BY <1>1 DEF Mv!Working
<1>3. Mv!PairOK(t) /\ Mv!TypeOK
  BY <1>2 DEF Mv!ProductInv
<1>4. S' = S /\ P' = P /\ \A r : Mv!Right(r)' = Mv!Right(r)
  BY <1>1 DEF Mv!StartRow, Mv!StartGemv, Mv!StartMLP, Mv!RowsOf, Mv!Rest, Mv!Doubled, Mv!Right
<1>5. CASE mvRow[t] < S + P
  <2>1. /\ addrA' = [addrA EXCEPT ![t] = mvRow[t] * nSize]
        /\ cacheC' = [cacheC EXCEPT ![t] = <<Mv!Nothing, Mv!Nothing>>]
        /\ mvPos' = [mvPos EXCEPT ![t] = 0]
        /\ mvAt' = [mvAt EXCEPT ![t] = "row"]
    BY <1>5 DEF Mv!NextPair, Mv!Goto
  <2>2. nSize \in Nat \ {0} /\ nrRows \in Nat /\ mvRow[t] \in Nat /\ mvRow[t] % 2 = 0
        /\ mvRow[t] < nrRows
    BY <1>2, <1>5, MvPairs
  <2>3. mvRow[t] * nSize \in Nat /\ (mvRow[t] * nSize) % 2 = 0
    <3>1. mvRow[t] * nSize \in Nat
      BY <2>2
    <3>2. (mvRow[t] * nSize) % 2 = 0
      BY <2>2, MvEven
    <3>3. QED
      BY <3>1, <3>2
  <2>4. Mv!TypeOK'
    BY <1>1, <1>3, <2>1, <2>3 DEF Mv!TypeOK
  <2>5. mvAt'[t] = "row" /\ mvPos'[t] = 0 /\ addrA'[t] = mvRow[t] * nSize
        /\ cacheC'[t] = <<Mv!Nothing, Mv!Nothing>> /\ mvRow'[t] = mvRow[t] /\ offset'[t] = offset[t]
    BY <1>1, <1>3, <2>1 DEF Mv!TypeOK
  <2>6. Mv!PairOK(t)'
    <3>1. offset[t] = 0
      BY <1>1, <1>3, <1>5 DEF Mv!PairOK
    <3>2. mvRow'[t] % 2 = 0 /\ S <= mvRow'[t] /\ mvRow'[t] <= S + P
      BY <1>3, <2>5 DEF Mv!PairOK
    <3>3. \A r \in 0 .. nrRows' - 1 : S <= r /\ r < mvRow'[t] => mvC'[r] = Mv!Right(r)'
      BY <1>1, <1>3, <1>4 DEF Mv!PairOK
    <3>4. /\ mvRow'[t] < S + P /\ mvPos'[t] <= Mv!Pair /\ mvRow'[t] + mvPos'[t] <= nrRows'
          /\ addrA'[t] = (mvRow'[t] + mvPos'[t]) * nSize' /\ offset'[t] = addrA'[t] % 2
          /\ DOMAIN cacheC'[t] = 1 .. Mv!Pair
          /\ \A k \in 0 .. mvPos'[t] - 1 : cacheC'[t][k + 1] = Mv!Right(mvRow[t] + k)'
      <4>1. mvRow[t] + 0 = mvRow[t] /\ mvRow'[t] + mvPos'[t] = mvRow[t]
        BY <2>2, <2>5
      <4>2. DOMAIN <<Mv!Nothing, Mv!Nothing>> = 1 .. 2
        OBVIOUS
      <4>3. 0 .. mvPos'[t] - 1 = {}
        BY <2>5
      <4>4. mvRow'[t] < S + P /\ mvPos'[t] <= Mv!Pair /\ mvRow'[t] + mvPos'[t] <= nrRows'
        BY <1>1, <1>5, <2>2, <2>5, <4>1 DEF Mv!Pair
      <4>5. addrA'[t] = (mvRow'[t] + mvPos'[t]) * nSize'
        BY <1>1, <2>5, <4>1
      <4>6. offset'[t] = addrA'[t] % 2
        BY <2>3, <2>5, <3>1
      <4>7. QED
        BY <2>5, <4>2, <4>3, <4>4, <4>5, <4>6 DEF Mv!Pair
    <3>5. QED
      BY <1>4, <2>5, <3>2, <3>3, <3>4 DEF Mv!PairOK
  <2>7. /\ \A u \in Mv!Tasklets : mvAt'[u] = IF u = t THEN "row" ELSE mvAt[u]
        /\ \A u \in Mv!Tasklets \ {t} :
             mvPos'[u] = mvPos[u] /\ addrA'[u] = addrA[u] /\ cacheC'[u] = cacheC[u]
    BY <1>3, <2>1 DEF Mv!TypeOK
  <2>8. QED
    BY <1>1, <1>2, <2>4, <2>6, <2>7, MvTaskletSteps DEF Mv!Working
<1>6. CASE ~ (mvRow[t] < S + P)
  <2>1. mvAt' = [mvAt EXCEPT ![t] = "barrier"] /\ UNCHANGED <<addrA, cacheC, mvPos>>
    BY <1>6 DEF Mv!NextPair, Mv!Goto
  <2>2. Mv!TypeOK'
    BY <1>1, <1>3, <2>1 DEF Mv!TypeOK
  <2>3. mvRow[t] = S + P
    BY <1>2, <1>6, MvPairs
  <2>4. mvAt'[t] = "barrier"
    BY <1>3, <2>1 DEF Mv!TypeOK
  <2>5. Mv!PairOK(t)'
    BY <1>1, <1>3, <1>4, <2>1, <2>3, <2>4 DEF Mv!PairOK
  <2>6. \A u \in Mv!Tasklets : mvAt'[u] = IF u = t THEN "barrier" ELSE mvAt[u]
    BY <1>3, <2>1 DEF Mv!TypeOK
  <2>7. QED
    BY <1>1, <1>2, <2>1, <2>2, <2>5, <2>6, MvTaskletSteps DEF Mv!Working
<1>7. QED
  BY <1>5, <1>6

LEMMA MvRow ==
  ASSUME Mv!Sized, Mv!ProductInv, NEW t \in Mv!Tasklets, Mv!Row(t)
  PROVE  Mv!ProductInv'
<1> DEFINE S == Mv!StartRow(t)
           P == Mv!RowsOf(t)
           r == mvRow[t]
           p == mvPos[t]
           a == addrA[t]
<1>1. /\ mvAt[t] = "row" /\ p < 2 /\ r + p < nrRows
      /\ cacheC' = [cacheC EXCEPT ![t][p + 1] = Mv!RowOfTerms(a, offset[t])]
      /\ addrA' = [addrA EXCEPT ![t] = @ + nSize]
      /\ offset' = [offset EXCEPT ![t] = (a + nSize) % 2]
      /\ mvPos' = [mvPos EXCEPT ![t] = @ + 1]
      /\ UNCHANGED <<mvApp, mvCmd, mvJob, nSize, nrRows, mvAt, mvRow, mvC>>
  BY DEF Mv!Row, Mv!args, Mv!Pair
<1>2. mvAt[t] \in Mv!Working
  BY <1>1 DEF Mv!Working
<1>3. Mv!PairOK(t) /\ Mv!TypeOK
  BY <1>2 DEF Mv!ProductInv
<1>4. S' = S /\ P' = P /\ \A x : Mv!Right(x)' = Mv!Right(x)
  BY <1>1 DEF Mv!StartRow, Mv!StartGemv, Mv!StartMLP, Mv!RowsOf, Mv!Rest, Mv!Doubled, Mv!Right
<1>5. nSize \in Nat \ {0} /\ nrRows \in Nat /\ r \in Nat /\ p \in Nat /\ a \in Nat /\ offset[t] \in Nat
  BY <1>2, <1>3, MvPairs DEF Mv!TypeOK
<1>6. /\ r < S + P /\ a = (r + p) * nSize /\ offset[t] = a % 2 /\ DOMAIN cacheC[t] = 1 .. 2
      /\ \A k \in 0 .. p - 1 : cacheC[t][k + 1] = Mv!Right(r + k)
  BY <1>1, <1>3 DEF Mv!PairOK, Mv!Pair
<1>7. Mv!RowOfTerms(a, offset[t]) = Mv!Right(r + p)
  <2>1. Mv!RowOfTerms(a, a % 2) = [j \in 0 .. nSize - 1 |-> a + j]
    BY <1>5, MvTerms
  <2>2. Mv!Right(r + p) = [j \in 0 .. nSize - 1 |-> a + j]
    BY <1>6 DEF Mv!Right
  <2>3. QED
    BY <1>6, <2>1, <2>2
<1>8. (r + (p + 1)) * nSize = a + nSize
  BY <1>5, <1>6
<1>9. /\ mvPos'[t] = p + 1 /\ addrA'[t] = a + nSize /\ offset'[t] = (a + nSize) % 2
      /\ mvRow'[t] = r /\ mvAt'[t] = "row" /\ DOMAIN cacheC' = Mv!Tasklets
      /\ cacheC'[t] = [cacheC[t] EXCEPT ![p + 1] = Mv!Right(r + p)]
  BY <1>1, <1>3, <1>7 DEF Mv!TypeOK
<1>10. (a + nSize) % 2 \in Nat
  BY <1>5
<1>11. Mv!TypeOK'
  <2>1. addrA' \in [Mv!Tasklets -> Nat] /\ offset' \in [Mv!Tasklets -> Nat] /\ mvPos' \in [Mv!Tasklets -> Nat]
    BY <1>1, <1>3, <1>5, <1>10 DEF Mv!TypeOK
  <2>2. QED
    BY <1>1, <1>3, <1>9, <2>1 DEF Mv!TypeOK
<1>12. DOMAIN cacheC'[t] = 1 .. 2
       /\ \A k \in 0 .. p : cacheC'[t][k + 1] = Mv!Right(r + k)
  <2>1. DOMAIN cacheC'[t] = 1 .. 2
    BY <1>6, <1>9
  <2>2. ASSUME NEW k \in 0 .. p PROVE cacheC'[t][k + 1] = Mv!Right(r + k)
    <3> HIDE DEF r, p
    <3>1. CASE k = p
      <4>1. p + 1 \in 1 .. 2
        BY <1>1, <1>5
      <4>2. QED
        BY <1>6, <1>9, <3>1, <4>1
    <3>2. CASE k < p
      <4>1. k + 1 \in 1 .. 2 /\ k + 1 # p + 1 /\ k \in 0 .. p - 1
        BY <1>1, <1>5, <3>2
      <4>2. QED
        BY <1>6, <1>9, <4>1
    <3>3. QED
      BY <1>5, <3>1, <3>2
  <2>3. QED
    BY <2>1, <2>2
<1>13. Mv!PairOK(t)'
  <2>1. r % 2 = 0 /\ S <= r /\ r <= S + P
        /\ \A x \in 0 .. nrRows - 1 : S <= x /\ x < r => mvC[x] = Mv!Right(x)
    BY <1>3 DEF Mv!PairOK
  <2>2. p + 1 <= 2 /\ r + (p + 1) <= nrRows /\ 0 .. (p + 1) - 1 = 0 .. p
    BY <1>1, <1>5
  <2>3. /\ mvRow'[t] = r /\ mvPos'[t] = p + 1 /\ mvAt'[t] = "row" /\ nrRows' = nrRows
        /\ addrA'[t] = (r + (p + 1)) * nSize' /\ offset'[t] = addrA'[t] % 2 /\ mvC' = mvC
    BY <1>1, <1>8, <1>9
  <2> HIDE DEF S, P, r, p, a
  <2>4. /\ mvRow'[t] + mvPos'[t] <= nrRows' /\ mvPos'[t] <= 2
        /\ addrA'[t] = (mvRow'[t] + mvPos'[t]) * nSize'
        /\ \A k \in 0 .. mvPos'[t] - 1 : cacheC'[t][k + 1] = Mv!Right(mvRow'[t] + k)
    BY <1>12, <2>2, <2>3
  <2>5. QED
    BY <1>4, <1>6, <1>12, <2>1, <2>3, <2>4 DEF Mv!PairOK, Mv!Pair, S, P
<1>14. \A u \in Mv!Tasklets : mvAt'[u] = IF u = t THEN "row" ELSE mvAt[u]
  BY <1>1
<1>15. \A u \in Mv!Tasklets \ {t} :
         /\ mvRow'[u] = mvRow[u] /\ mvPos'[u] = mvPos[u] /\ addrA'[u] = addrA[u]
         /\ offset'[u] = offset[u] /\ cacheC'[u] = cacheC[u]
  BY <1>1, <1>3 DEF Mv!TypeOK
<1>16. "row" \in Mv!Working
  BY DEF Mv!Working
<1>17. QED
  BY <1>1, <1>2, <1>11, <1>13, <1>14, <1>15, <1>16, MvTaskletSteps

LEMMA MvWritePair ==
  ASSUME Mv!Sized, Mv!ProductInv, NEW t \in Mv!Tasklets, Mv!WritePair(t)
  PROVE  Mv!ProductInv'
<1> DEFINE S == Mv!StartRow(t)
           P == Mv!RowsOf(t)
           r == mvRow[t]
           p == mvPos[t]
           e == S + P
<1>1. /\ mvAt[t] = "row" /\ ~ (p < 2 /\ r + p < nrRows)
      /\ mvC' = [x \in DOMAIN mvC \cup {r, r + 1} |->
                   IF x = r THEN cacheC[t][1] ELSE IF x = r + 1 THEN cacheC[t][2] ELSE mvC[x]]
      /\ mvRow' = [mvRow EXCEPT ![t] = r + 2]
      /\ mvAt' = [mvAt EXCEPT ![t] = "pair"]
      /\ UNCHANGED <<mvApp, mvCmd, mvJob, nSize, nrRows, mvPos, addrA, offset, cacheC>>
  BY DEF Mv!WritePair, Mv!args, Mv!Pair, Mv!AfterPair, Mv!Goto
<1>2. mvAt[t] \in Mv!Working
  BY <1>1 DEF Mv!Working
<1>3. Mv!PairOK(t) /\ Mv!TypeOK
  BY <1>2 DEF Mv!ProductInv
<1>4. S' = S /\ P' = P /\ \A x : Mv!Right(x)' = Mv!Right(x)
  BY <1>1 DEF Mv!StartRow, Mv!StartGemv, Mv!StartMLP, Mv!RowsOf, Mv!Rest, Mv!Doubled, Mv!Right
<1>5. /\ nSize \in Nat \ {0} /\ nrRows \in Nat /\ r \in Nat /\ p \in Nat /\ r % 2 = 0
      /\ S \in Nat /\ P \in Nat /\ S <= r /\ r < e /\ r < nrRows /\ r + 2 <= e
  BY <1>1, <1>2, <1>3, MvPairs DEF Mv!TypeOK, Mv!PairOK
<1>6. /\ p <= 2 /\ r + p <= nrRows /\ addrA[t] = (r + p) * nSize /\ offset[t] = addrA[t] % 2
      /\ \A k \in 0 .. p - 1 : cacheC[t][k + 1] = Mv!Right(r + k)
      /\ \A x \in 0 .. nrRows - 1 : S <= x /\ x < r => mvC[x] = Mv!Right(x)
  BY <1>1, <1>3 DEF Mv!PairOK, Mv!Pair
<1>7. e % 2 = 0 /\ e <= nrRows + (nrRows % 2)
  BY <1>3, MvShares DEF Mv!TypeOK
<1>8. p = 2 \/ (p = 1 /\ r + 1 = nrRows)
  BY <1>1, <1>5, <1>6
<1>9. mvC'[r] = Mv!Right(r) /\ (r + 1 < nrRows => mvC'[r + 1] = Mv!Right(r + 1))
  <2>1. cacheC[t][1] = Mv!Right(r)
    <3>1. 0 \in 0 .. p - 1 /\ r + 0 = r
      BY <1>5, <1>8
    <3>2. cacheC[t][0 + 1] = Mv!Right(r + 0)
      BY <1>6, <3>1
    <3>3. QED
      BY <3>1, <3>2
  <2>2. r + 1 < nrRows => cacheC[t][2] = Mv!Right(r + 1)
    <3> SUFFICES ASSUME r + 1 < nrRows PROVE cacheC[t][2] = Mv!Right(r + 1)
      OBVIOUS
    <3>1. 1 \in 0 .. p - 1
      BY <1>5, <1>8
    <3>2. cacheC[t][1 + 1] = Mv!Right(r + 1)
      BY <1>6, <3>1
    <3>3. QED
      BY <3>2
  <2>3. r # r + 1
    BY <1>5
  <2>4. QED
    BY <1>1, <2>1, <2>2, <2>3
<1>10. \A x \in 0 .. nrRows - 1 : x # r /\ x # r + 1 => mvC'[x] = mvC[x]
  BY <1>1, <1>3 DEF Mv!TypeOK
<1>11. mvRow'[t] = r + 2 /\ mvAt'[t] = "pair" /\ offset'[t] = offset[t]
  BY <1>1, <1>3 DEF Mv!TypeOK
<1>12. Mv!TypeOK'
  <2>1. mvRow' \in [Mv!Tasklets -> Nat] /\ DOMAIN mvAt' = Mv!Tasklets
    BY <1>1, <1>3, <1>5 DEF Mv!TypeOK
  <2>2. 0 .. nrRows' - 1 \subseteq DOMAIN mvC'
    BY <1>1, <1>3 DEF Mv!TypeOK
  <2>3. QED
    BY <1>1, <1>3, <2>1, <2>2 DEF Mv!TypeOK
<1>13. Mv!PairOK(t)'
  <2> HIDE DEF r, p, S, P
  <2>1. (r + 2) % 2 = 0 /\ S <= r + 2 /\ r + 2 <= S + P
    BY <1>5
  <2>2. ASSUME NEW x \in 0 .. nrRows - 1, S <= x, x < r + 2
        PROVE  mvC'[x] = Mv!Right(x)
    <3>1. CASE x = r
      BY <1>9, <3>1
    <3>2. CASE x = r + 1
      BY <1>5, <1>9, <3>2
    <3>3. CASE x < r
      <4>1. x # r /\ x # r + 1
        BY <1>5, <3>3
      <4>2. mvC'[x] = mvC[x]
        BY <1>10, <4>1
      <4>3. QED
        BY <1>6, <2>2, <3>3, <4>2
    <3>4. QED
      BY <1>5, <2>2, <3>1, <3>2, <3>3
  <2>3. ASSUME r + 2 < S + P PROVE offset[t] = 0
    <3>1. r + 2 < nrRows
      BY <1>5, <1>7, <2>3
    <3>2. p = 2 /\ (r + 2) % 2 = 0 /\ r + 2 \in Nat
      BY <1>5, <1>8, <3>1
    <3>3. ((r + 2) * nSize) % 2 = 0
      BY <1>5, <3>2, MvEven
    <3>4. QED
      BY <1>6, <3>2, <3>3
  <2>4. QED
    BY <1>1, <1>4, <1>11, <2>1, <2>2, <2>3 DEF Mv!PairOK, S, P
<1>14. ASSUME NEW u \in Mv!Tasklets, u # t, NEW x \in 0 .. nrRows - 1,
              Mv!StartRow(u) <= x, x < mvRow[u]
       PROVE  mvC'[x] = mvC[x]
  <2> DEFINE Z == Mv!StartRow(u)
             Y == Mv!RowsOf(u)
  <2>1. mvAt[u] \in Mv!Working
    BY <1>2, MvPhases DEF Mv!ProductInv
  <2>2. Z \in Nat /\ Y \in Nat /\ mvRow[u] \in Nat /\ mvRow[u] <= Z + Y
    BY <2>1, MvPairs
  <2>3. Z + Y <= S \/ S + P <= Z
    <3>1. u \in Int /\ t \in Int
      BY DEF Mv!Tasklets
    <3>2. u < t \/ t < u
      BY <1>14, <3>1
    <3>3. QED
      BY <1>3, <3>2, MvShares DEF Mv!TypeOK
  <2>4. Z <= x /\ x < Z + Y
    BY <1>14, <2>2
  <2> HIDE DEF Z, Y, S, P, r
  <2>5. x # r /\ x # r + 1
    BY <1>5, <2>2, <2>3, <2>4
  <2>6. QED
    BY <1>10, <2>5
<1>15. "pair" \in Mv!Working
  BY DEF Mv!Working
<1>16. \A u \in Mv!Tasklets \ {t} :
         /\ mvRow'[u] = mvRow[u] /\ mvPos'[u] = mvPos[u] /\ addrA'[u] = addrA[u]
         /\ offset'[u] = offset[u] /\ cacheC'[u] = cacheC[u]
  BY <1>1, <1>3 DEF Mv!TypeOK
<1>17. \A u \in Mv!Tasklets : mvAt'[u] = IF u = t THEN "pair" ELSE mvAt[u]
  BY <1>1, <1>3 DEF Mv!TypeOK
<1>18. QED
  BY <1>1, <1>2, <1>12, <1>13, <1>14, <1>15, <1>16, <1>17, MvTaskletSteps

LEMMA MvPreserves ==
  ASSUME Mv!Sized, Mv!ProductInv, [Mv!Next]_(Mv!vars)
  PROVE  Mv!ProductInv'
<1>1. CASE Mv!Together
  BY <1>1, MvHostAnswers, MvStartsJob, MvJobDone DEF Mv!Together
<1>2. CASE \E t \in Mv!Tasklets : Mv!Tasklet(t)
  BY <1>2, MvNextPair, MvRow, MvWritePair DEF Mv!Tasklet
<1>3. CASE UNCHANGED Mv!vars
  <2>1. UNCHANGED <<mvApp, mvAt, mvCmd, mvJob, nSize, nrRows, mvRow, mvPos, addrA, offset, cacheC, mvC>>
    BY <1>3 DEF Mv!vars
  <2>2. Mv!TypeOK' /\ Mv!PhaseOK'
    BY <2>1 DEF Mv!ProductInv, Mv!TypeOK, Mv!PhaseOK, Mv!Complete, Mv!Right
  <2>3. \A t \in Mv!Tasklets : Mv!StartRow(t)' = Mv!StartRow(t) /\ Mv!RowsOf(t)' = Mv!RowsOf(t)
    BY <2>1 DEF Mv!StartRow, Mv!StartGemv, Mv!StartMLP, Mv!RowsOf, Mv!Rest, Mv!Doubled
  <2>4. \A t \in Mv!Tasklets : Mv!PairOK(t) => Mv!PairOK(t)'
    BY <2>1, <2>3 DEF Mv!PairOK, Mv!Right
  <2>5. QED
    BY <2>1, <2>2, <2>4 DEF Mv!ProductInv
<1>4. QED
  BY <1>1, <1>2, <1>3 DEF Mv!Next

LEMMA MvSafe ==
  ASSUME Mv!Sized, Mv!ProductInv
  PROVE  Mv!RowsMultiplied
<1>1. Mv!Ended \/ mvAt[0] = "host" => Mv!Complete
  BY MvPhases DEF Mv!ProductInv, Mv!Ended
<1>2. QED
  BY <1>1 DEF Mv!RowsMultiplied, Mv!Complete, Mv!Right

(***************************************************************************)
(* gemv, MLP, SpMV: every product is of the right two elements.  For every *)
(* number of tasklets, every (even) size of a block, of a tile and of the  *)
(* rows, any jobs and any matrices.                                        *)
(***************************************************************************)
THEOREM RowsAreComputed == MCSpec => []RowsAreRight
<1> DEFINE Inv == (kernel = "gemv" => Mv!ProductInv) /\ (kernel = "SpMV" => Spmv!RowsInv)
<1>1. MCInit => Inv
  BY MvAssumption, MvInit, SpAssumption, SpInit DEF MCInit, KernelInit
<1>2. Inv /\ [MCNext]_all => Inv'
  <2> SUFFICES ASSUME Inv, [MCNext]_all PROVE Inv'
    OBVIOUS
  <2>1. CASE kernel' = "gemv"
    <3>1. kernel = "gemv" /\ [Mv!Next]_(Mv!vars)
      BY <2>1 DEF MCNext, all, group, Mv!vars
    <3>2. QED
      BY <2>1, <3>1, MvAssumption, MvPreserves
  <2>2. CASE kernel' = "SpMV"
    <3>1. kernel = "SpMV" /\ [Spmv!Next]_(Spmv!vars)
      BY <2>2 DEF MCNext, all, group, Spmv!vars
    <3>2. QED
      BY <2>2, <3>1, SpAssumption, SpPreserves
  <2>3. QED
    BY <2>1, <2>2
<1>3. Inv => RowsAreRight
  BY MvAssumption, MvSafe, SpAssumption, SpSafe DEF RowsAreRight
<1>4. QED
  BY <1>1, <1>2, <1>3, PTL DEF MCSpec

-----------------------------------------------------------------------------
(* VA, RED, HST-S: every element is in the block of one tasklet, and what  *)
(* the tasklets have counted of it adds up to one.                         *)

vaApp == m1
vaSize == m2
vaBins == m3
vaAt == m4
vaIndex == m5
vaHisto == m6
vaBin == m7
vaOut == m8
USE DEF vaApp, vaSize, vaBins, vaAt, vaIndex, vaHisto, vaBin, vaOut

\* Of terms of which only one is not 0 the sum is that one.
LEMMA OneTerm ==
  ASSUME NEW b, NEW x, Va!Sized, NEW v \in Int, NEW w \in Va!Tasklets,
         \A n \in Va!Tasklets : vaHisto[n][b][x] = IF n = w THEN v ELSE 0
  PROVE  Va!Total(b, x) = v
<1> DEFINE K == VaN
           h == [n \in 0 .. VaN - 1 |-> IF n = w THEN v ELSE 0]
           G(f) == [n \in 0 .. K |-> IF n = 0 THEN 0 ELSE f[n - 1] + vaHisto[n - 1][b][x]]
           H(f) == [n \in 0 .. K |-> IF n = 0 THEN 0 ELSE f[n - 1] + h[n - 1]]
           W == [n \in 0 .. K |-> IF n <= w THEN 0 ELSE h[w]]
           f == CHOOSE f : f = G(f)
<1>1. K \in Nat \ {0}
  BY DEF Va!Sized
<1>2. h \in [0 .. K - 1 -> Int] /\ w \in 0 .. K - 1 /\ h[w] = v
       /\ \A n \in 0 .. K - 1 : vaHisto[n][b][x] = h[n] /\ (n # w => h[n] = 0)
  BY <1>1 DEF Va!Tasklets
<1> HIDE DEF h
<1>3. \A g : G(g) = H(g)
  <2> SUFFICES ASSUME NEW g PROVE G(g) = H(g)
    OBVIOUS
  <2>1. \A n \in 0 .. K : n # 0 => vaHisto[n - 1][b][x] = h[n - 1]
    <3> SUFFICES ASSUME NEW n \in 0 .. K, n # 0 PROVE vaHisto[n - 1][b][x] = h[n - 1]
      OBVIOUS
    <3>1. n - 1 \in 0 .. K - 1
      BY <1>1, <1>2
    <3>2. QED
      BY <1>2, <3>1
  <2>2. QED
    BY <2>1
<1>4. W = H(W)
  <2> SUFFICES ASSUME NEW n \in 0 .. K
               PROVE  W[n] = IF n = 0 THEN 0 ELSE W[n - 1] + h[n - 1]
    OBVIOUS
  <2>1. CASE n = 0
    BY <1>1, <1>2, <2>1
  <2>2. CASE n # 0
    <3>1. n - 1 \in 0 .. K - 1 /\ n - 1 \in 0 .. K /\ h[w] \in Int
      BY <1>1, <1>2, <2>2
    <3>2. W[n - 1] = IF n - 1 <= w THEN 0 ELSE h[w]
      BY <1>2, <3>1
    <3>3. h[n - 1] = IF n - 1 = w THEN h[w] ELSE 0
      BY <1>2, <3>1
    <3>4. QED
      BY <1>1, <1>2, <2>2, <3>1, <3>2, <3>3
  <2>3. QED
    BY <2>1, <2>2
<1>5. f = G(f)
  <2> HIDE DEF G, H, W
  <2>1. \E g : g = G(g)
    BY <1>3, <1>4
  <2>2. QED
    BY <2>1
<1>6. f = H(f)
  <2> HIDE DEF f, G, H
  <2>1. QED
    BY <1>3, <1>5
<1> DEFINE T == {n \in Nat : n <= K => f[n] = IF n <= w THEN 0 ELSE h[w]}
<1>7. f[K] = h[w]
  <2> HIDE DEF f, G
  <2>1. \A n \in 0 .. K : f[n] = IF n = 0 THEN 0 ELSE f[n - 1] + h[n - 1]
    BY <1>6
  <2> HIDE DEF H
  <2>2. 0 \in T
    <3>1. 0 \in 0 .. K /\ 0 <= w
      BY <1>1, <1>2
    <3>2. f[0] = 0
      BY <2>1, <3>1
    <3>3. QED
      BY <3>1, <3>2
  <2>3. \A n \in Nat : n \in T => n + 1 \in T
    <3> SUFFICES ASSUME NEW n \in Nat, n \in T, n + 1 <= K
                 PROVE  f[n + 1] = IF n + 1 <= w THEN 0 ELSE h[w]
      OBVIOUS
    <3> HIDE DEF T, W, K
    <3>1. n \in Nat /\ n + 1 \in 0 .. K /\ n + 1 # 0 /\ n \in 0 .. K - 1 /\ (n + 1) - 1 = n
      BY <1>1, <1>2
    <3>2. f[n + 1] = f[n] + h[n]
      BY <2>1, <3>1
    <3>3. f[n] = IF n <= w THEN 0 ELSE h[w]
      <4>1. n <= K => f[n] = IF n <= w THEN 0 ELSE h[w]
        BY DEF T
      <4>2. n <= K
        BY <1>1, <1>2
      <4>3. QED
        BY <4>1, <4>2
    <3>4. h[w] \in Int /\ w \in Int /\ h[n] = IF n = w THEN h[w] ELSE 0
      BY <1>2, <3>1 DEF K
    <3>5. QED
      BY <3>1, <3>2, <3>3, <3>4
  <2>4. Nat \subseteq T
    <3> HIDE DEF T
    <3>1. QED
      BY <2>2, <2>3, Induction
  <2>5. K \in T
    <3> HIDE DEF T
    <3>1. QED
      BY <1>1, <2>4
  <2>6. ~ (K <= w)
    BY <1>1, <1>2
  <2>7. QED
    BY <2>5, <2>6
<1>8. Va!Total(b, x) = f[K]
  BY DEF Va!Total
<1>9. QED
  BY <1>2, <1>7, <1>8

\* Every element has one owner.
LEMMA VaOwner ==
  ASSUME Va!Sized, NEW x \in Nat
  PROVE  /\ \E t \in Va!Tasklets : Va!Owns(t, x)
         /\ \A t, s \in Va!Tasklets : Va!Owns(t, x) /\ Va!Owns(s, x) => s = t
<1> DEFINE S == Va!Stride
           r == x % S
           t == r \div VaBlock
           m == r % VaBlock
<1>1. VaN \in Nat \ {0} /\ VaBlock \in Nat \ {0} /\ Va!Tasklets = 0 .. VaN - 1
  BY DEF Va!Sized, Va!Tasklets
<1>2. S = VaBlock * VaN /\ S = VaN * VaBlock /\ S \in Nat \ {0}
  <2>1. VaN * VaBlock = VaBlock + (VaN - 1) * VaBlock /\ (VaN - 1) * VaBlock \in Nat
    BY <1>1
  <2>2. S = VaBlock * VaN /\ VaBlock * VaN = VaN * VaBlock
    BY <1>1 DEF Va!Stride
  <2>3. QED
    BY <1>1, <2>1, <2>2
<1> HIDE DEF S
<1>3. r \in 0 .. S - 1
  BY <1>2, DivMod
<1>4. t \in Nat /\ m \in 0 .. VaBlock - 1 /\ r = VaBlock * t + m
  <2>1. r \in Nat
    BY <1>2, <1>3
  <2> HIDE DEF r
  <2>2. QED
    BY <1>1, <2>1, DivMod
<1> HIDE DEF r, t, m
<1>5. t * VaBlock \in Nat /\ (t + 1) * VaBlock = t * VaBlock + VaBlock /\ VaBlock * t = t * VaBlock
  BY <1>1, <1>4
<1>6. t < VaN
  <2> SUFFICES ASSUME VaN <= t PROVE FALSE
    BY <1>1, <1>4
  <2>1. VaN * VaBlock <= t * VaBlock
    BY <1>1, <1>4, ProductsGrow
  <2>2. QED
    BY <1>1, <1>2, <1>3, <1>4, <1>5, <2>1
<1>7. Va!Owns(t, x)
  <2>1. t * VaBlock <= r /\ r < (t + 1) * VaBlock
    BY <1>1, <1>4, <1>5
  <2>2. QED
    BY <2>1 DEF Va!Owns, r, S
<1>8. ASSUME NEW u \in Nat, NEW v \in Nat, Va!Owns(u, x), Va!Owns(v, x), u < v PROVE FALSE
  <2> DEFINE a == (u + 1) * VaBlock
             b == v * VaBlock
  <2>1. a <= b /\ a \in Nat /\ b \in Nat
    BY <1>1, <1>8, ProductsGrow
  <2>2. r < a /\ b <= r
    BY <1>8 DEF Va!Owns, r, S
  <2> HIDE DEF a, b
  <2>3. QED
    BY <1>2, <1>3, <2>1, <2>2
<1>9. ASSUME NEW u \in Va!Tasklets, NEW v \in Va!Tasklets, Va!Owns(u, x), Va!Owns(v, x)
      PROVE  v = u
  <2>1. u \in Nat /\ v \in Nat
    BY <1>1
  <2>2. ~ (u < v) /\ ~ (v < u)
    BY <1>8, <1>9, <2>1
  <2>3. QED
    BY <2>1, <2>2
<1>10. t \in Va!Tasklets
  BY <1>1, <1>4, <1>6
<1>11. QED
  BY <1>7, <1>9, <1>10

\* The block at an index of t, and what of t's lies before the next one.
LEMMA VaBlocks ==
  ASSUME Va!Sized, NEW t \in Va!Tasklets, NEW k \in Nat, k % Va!Stride = t * VaBlock, NEW x \in Nat
  PROVE  /\ (k + Va!Stride) % Va!Stride = t * VaBlock
         /\ x \in k .. k + VaBlock - 1 => Va!Owns(t, x)
         /\ Va!Owns(t, x) => (x < k + Va!Stride <=> x < k \/ x \in k .. k + VaBlock - 1)
<1> DEFINE S == Va!Stride
           b == t * VaBlock
           q == k \div S
<1>1. VaN \in Nat \ {0} /\ VaBlock \in Nat \ {0} /\ t \in Nat /\ t + 1 <= VaN
  BY DEF Va!Sized, Va!Tasklets
<1>2. S \in Nat \ {0} /\ b \in Nat /\ b + VaBlock <= S /\ (t + 1) * VaBlock = b + VaBlock
  <2>1. (t + 1) * VaBlock = t * VaBlock + VaBlock /\ t * VaBlock \in Nat
    BY <1>1
  <2>2. (t + 1) * VaBlock <= VaN * VaBlock /\ VaN * VaBlock \in Nat
    BY <1>1, ProductsGrow
  <2>3. S = VaN * VaBlock
    BY <1>1 DEF Va!Stride
  <2>4. QED
    BY <1>1, <2>1, <2>2, <2>3
<1>3. /\ (k + S) % S = k % S
      /\ \A y \in Nat : y % S = k % S => (y < k + S <=> y < k \/ y = k)
  <2> HIDE DEF S
  <2>1. QED
    BY <1>2, Turns
<1>4. k % S = b
  OBVIOUS
<1> HIDE DEF S, b
<1>5. q \in Nat /\ k = S * q + b /\ S * q = q * S /\ q * S \in Nat
  <2>1. q \in Nat /\ k = S * q + b
    BY <1>2, <1>4, DivMod
  <2> HIDE DEF q
  <2>2. QED
    BY <1>2, <2>1
<1> HIDE DEF q
<1>6. ASSUME x \in k .. k + VaBlock - 1 PROVE Va!Owns(t, x)
  <2>1. x = q * S + (b + (x - k)) /\ b + (x - k) \in 0 .. S - 1
    BY <1>1, <1>2, <1>5, <1>6
  <2> DEFINE d == b + (x - k)
  <2>2. (q * S + d) % S = d
    <3>1. d \in 0 .. S - 1
      BY <2>1
    <3> HIDE DEF d
    <3>2. QED
      BY <1>2, <1>5, <3>1, Remainder
  <2>3. x % S = d
    BY <2>1, <2>2
  <2>4. b <= d /\ d < b + VaBlock
    BY <1>1, <1>2, <1>6
  <2>5. QED
    BY <1>2, <2>3, <2>4 DEF Va!Owns, S, b
<1>7. ASSUME Va!Owns(t, x) PROVE x < k + S <=> x < k \/ x \in k .. k + VaBlock - 1
  <2> DEFINE p == x \div S
             o == x % S
             y == p * S + b
  <2>1. p \in Nat /\ o \in 0 .. S - 1 /\ x = S * p + o
    BY <1>2, DivMod
  <2>2. b <= o /\ o < b + VaBlock
    BY <1>2, <1>7 DEF Va!Owns, S, b
  <2> HIDE DEF p, o
  <2>3. S * p = p * S /\ p * S \in Nat
    BY <1>2, <2>1
  <2>4. y \in Nat /\ y <= x /\ x < y + VaBlock
    BY <1>1, <1>2, <2>1, <2>2, <2>3
  <2>5. y % S = b
    <3>1. b \in 0 .. S - 1
      BY <1>1, <1>2
    <3>2. QED
      BY <1>2, <2>1, <3>1, Remainder
  <2> HIDE DEF y
  <2>6. y < k + S <=> y < k \/ y = k
    BY <1>3, <1>4, <2>4, <2>5
  <2>7. k < y + S <=> k < y \/ k = y
    BY <1>2, <1>4, <2>4, <2>5, Turns
  <2>8. QED
    BY <1>1, <1>2, <2>4, <2>6, <2>7
<1>8. QED
  BY <1>3, <1>4, <1>6, <1>7 DEF S, b

\* A block is an even number of elements, and a stride of blocks too.
LEMMA VaEven ==
  ASSUME Va!Sized, NEW t \in Nat
  PROVE  /\ (t * VaBlock) % 2 = 0 /\ Va!Stride % 2 = 0
         /\ Va!Stride \in Nat \ {0} /\ VaBlock <= Va!Stride
<1>1. VaN \in Nat \ {0} /\ VaBlock \in Nat \ {0} /\ VaBlock % 2 = 0
  BY DEF Va!Sized
<1>2. PICK h \in Nat : VaBlock = 2 * h
  <2>1. VaBlock \div 2 \in Nat /\ VaBlock = 2 * (VaBlock \div 2)
    BY <1>1
  <2>2. QED
    BY <2>1
<1>3. \A n \in Nat : n * VaBlock = 2 * (n * h) /\ n * h \in Nat
  BY <1>2
<1>4. \A n \in Nat : (2 * n) % 2 = 0
  OBVIOUS
<1>5. Va!Stride = VaN * VaBlock
  BY <1>1 DEF Va!Stride
<1>6. VaN * VaBlock = VaBlock + (VaN - 1) * VaBlock /\ (VaN - 1) * VaBlock \in Nat
  BY <1>1
<1>7. ASSUME NEW n \in Nat PROVE (n * VaBlock) % 2 = 0
  <2> DEFINE p == n * h
  <2>1. n * VaBlock = 2 * p /\ p \in Nat
    BY <1>3
  <2> HIDE DEF p
  <2>2. QED
    BY <1>4, <2>1
<1>8. (t * VaBlock) % 2 = 0 /\ (VaN * VaBlock) % 2 = 0
  BY <1>1, <1>7
<1>9. Va!Stride \in Nat \ {0} /\ VaBlock <= Va!Stride
  BY <1>1, <1>5, <1>6
<1>10. QED
  BY <1>5, <1>8, <1>9

\* A block counts, of the elements of t, those that come to be counted between
\* its index and the next one.
LEMMA VaTimes ==
  ASSUME Va!Sized, NEW t \in Va!Tasklets, NEW k \in Nat, vaIndex[t] = k,
         k % Va!Stride = t * VaBlock, k % 2 = 0, vaSize \in Nat, k < vaSize,
         NEW x \in Nat, x < vaSize
  PROVE  LET has == Va!Read(t, x) \/ (vaApp # "VA" /\ Va!LeftOver(t, x))
         IN  /\ has => Va!Owns(t, x)
             /\ Va!Owns(t, x) =>
                  Va!TimesBefore(k + Va!Stride, x) =
                    IF has THEN Va!TimesBefore(k, x) + 1 ELSE Va!TimesBefore(k, x)
<1> DEFINE S == Va!Stride
           y == vaSize - 1
           R == Va!Read(t, x)
           L == vaApp # "VA" /\ Va!LeftOver(t, x)
           n == Va!Length(t)
<1>1. S \in Nat \ {0} /\ VaBlock <= S /\ VaBlock \in Nat \ {0} /\ VaBlock % 2 = 0
  <2>1. 0 \in Nat
    OBVIOUS
  <2>2. QED
    BY <2>1, VaEven DEF Va!Sized
<1>2. n = IF k + VaBlock >= vaSize THEN vaSize - k ELSE VaBlock
  BY DEF Va!Length
<1>3. y \in Nat /\ vaSize = y + 1 /\ k <= y
  OBVIOUS
<1>4. /\ x \in k .. k + VaBlock - 1 => Va!Owns(t, x)
      /\ Va!Owns(t, x) => (x < k + S <=> x < k \/ x \in k .. k + VaBlock - 1)
      /\ y \in k .. k + VaBlock - 1 => Va!Owns(t, y)
      /\ Va!Owns(t, y) => (y < k + S <=> y < k \/ y \in k .. k + VaBlock - 1)
  <2> HIDE DEF y
  <2>1. QED
    BY <1>3, VaBlocks
<1>5. x + S = y => (Va!Owns(t, x) <=> Va!Owns(t, y))
  <2>1. (x + S) % S = x % S
    <3> HIDE DEF S
    <3>1. QED
      BY <1>1, Turns
  <2>2. QED
    BY <2>1 DEF Va!Owns
<1> HIDE DEF S
<1>6. R <=> x \in k .. k + VaBlock - 1 /\ ~ Va!Odd(x)
  <2>1. R <=> x >= k /\ x < k + (n - (n % 2))
    BY DEF Va!Read, Va!Moved
  <2>2. Va!Odd(x) <=> vaSize % 2 = 1 /\ x = vaSize - 1
    BY DEF Va!Odd
  <2> HIDE DEF R, n
  <2>3. CASE k + VaBlock >= vaSize
    BY <1>1, <1>2, <2>1, <2>2, <2>3
  <2>4. CASE ~ (k + VaBlock >= vaSize)
    BY <1>1, <1>2, <2>1, <2>2, <2>4
  <2>5. QED
    BY <2>3, <2>4
<1>7. L <=> Va!Again(x) /\ k + VaBlock >= vaSize
  <2>1. Va!LeftOver(t, x) <=> n % 2 = 1 /\ x = k + n - 1 - S
    BY DEF Va!LeftOver, S
  <2>2. Va!Again(x) <=> vaApp # "VA" /\ vaSize % 2 = 1 /\ x = vaSize - 1 - S
    BY DEF Va!Again, S
  <2> HIDE DEF n
  <2>3. CASE k + VaBlock >= vaSize
    <3>1. n % 2 = 1 <=> vaSize % 2 = 1
      BY <1>2, <2>3
    <3>2. k + n - 1 - S = vaSize - 1 - S
      BY <1>1, <1>2, <2>3
    <3>3. QED
      BY <2>1, <2>2, <2>3, <3>1, <3>2
  <2>4. CASE ~ (k + VaBlock >= vaSize)
    BY <1>1, <1>2, <2>1, <2>2, <2>4
  <2>5. QED
    BY <2>3, <2>4
<1> HIDE DEF R, L, n, y
<1>8. Va!Again(x) => x + S = y
  BY <1>1, <1>3 DEF Va!Again, S
<1>9. /\ Va!TimesBefore(k, x) = (IF x < k /\ ~ Va!Odd(x) THEN 1 ELSE 0)
      /\ Va!TimesBefore(k + S, x) = (IF x < k + S /\ ~ Va!Odd(x) THEN 1 ELSE 0)
           + (IF Va!Again(x) /\ vaSize <= k + S THEN 1 ELSE 0)
  BY DEF Va!TimesBefore
<1>10. R \/ L => Va!Owns(t, x)
  <2>1. CASE R
    BY <1>4, <1>6, <2>1
  <2>2. CASE L
    <3>1. y \in k .. k + VaBlock - 1
      BY <1>1, <1>3, <1>7, <2>2
    <3>2. QED
      BY <1>4, <1>5, <1>7, <1>8, <2>2, <3>1
  <2>3. QED
    BY <2>1, <2>2
<1>11. ASSUME Va!Owns(t, x)
       PROVE  Va!TimesBefore(k + S, x) = IF R \/ L THEN Va!TimesBefore(k, x) + 1 ELSE Va!TimesBefore(k, x)
  <2>1. Va!Again(x) => (vaSize <= k + S <=> k + VaBlock >= vaSize)
    <3> SUFFICES ASSUME Va!Again(x) PROVE vaSize <= k + S <=> k + VaBlock >= vaSize
      OBVIOUS
    <3>1. y < k + S <=> y < k \/ y \in k .. k + VaBlock - 1
      BY <1>4, <1>5, <1>8, <1>11
    <3>2. QED
      BY <1>1, <1>3, <3>1
  <2>2. x < k + S <=> x < k \/ x \in k .. k + VaBlock - 1
    BY <1>4, <1>11
  <2>3. L <=> Va!Again(x) /\ vaSize <= k + S
    BY <1>7, <2>1
  <2>4. L => x < k
    BY <1>1, <1>3, <1>7, <1>8
  <2>5. L => ~ Va!Odd(x)
    BY <1>1, <1>3, <1>7, <1>8 DEF Va!Odd
  <2>6. CASE L
    <3>1. ~ R
      BY <1>6, <2>4, <2>6
    <3>2. QED
      BY <1>9, <2>2, <2>3, <2>4, <2>5, <2>6, <3>1
  <2>7. CASE R /\ ~ L
    <3>1. ~ (x < k) /\ x < k + S /\ ~ Va!Odd(x)
      BY <1>1, <1>6, <2>2, <2>7
    <3>2. QED
      BY <1>9, <2>3, <2>7, <3>1
  <2>8. CASE ~ R /\ ~ L
    <3>1. ~ Va!Odd(x) => (x < k + S <=> x < k)
      BY <1>6, <2>2, <2>8
    <3>2. QED
      BY <1>9, <2>3, <2>8, <3>1
  <2>9. QED
    BY <2>6, <2>7, <2>8
<1>12. QED
  BY <1>10, <1>11 DEF R, L, S

\* Behind the last block all is counted.
LEMMA VaAllTimes ==
  ASSUME Va!Sized, vaSize \in Nat, NEW z \in Nat, z >= vaSize, NEW x \in Nat, x < vaSize
  PROVE  Va!TimesBefore(z, x) = Va!Times(x) /\ Va!Times(x) \in Int
<1>1. Va!Stride \in Nat \ {0}
  <2>1. 0 \in Nat
    OBVIOUS
  <2>2. QED
    BY <2>1, VaEven
<1>2. x < z /\ vaSize <= z /\ ~ (Va!Odd(x) /\ Va!Again(x))
  BY <1>1 DEF Va!Odd, Va!Again
<1>3. QED
  BY <1>2 DEF Va!TimesBefore, Va!Times

\* Tasklet t starts with block t and with bin t, and nothing is counted.
LEMMA VaInit ==
  ASSUME Va!Sized, Va!Init
  PROVE  Va!CountInv
<1>1. VaN \in Nat \ {0} /\ VaBlock \in Nat \ {0} /\ Va!Tasklets = 0 .. VaN - 1
  BY DEF Va!Sized, Va!Tasklets
<1>2. vaBins \in Nat \ {0} /\ vaSize \in Nat
  BY DEF Va!Init, Va!Sized
<1>3. \A t \in Va!Tasklets : t * VaBlock \in Nat
  BY <1>1
<1>4. Va!TypeOK
  <2>1. Va!None \in [Va!Elements -> Int]
    BY DEF Va!None
  <2>2. vaIndex \in [Va!Tasklets -> Nat] /\ vaBin \in [Va!Tasklets -> Nat]
    BY <1>1, <1>3 DEF Va!Init
  <2>3. QED
    BY <1>2, <2>1, <2>2 DEF Va!Init, Va!TypeOK
<1>5. Va!PhaseOK
  BY DEF Va!Init, Va!PhaseOK, Va!Untouched, Va!None
<1>6. ASSUME NEW t \in Va!Tasklets
      PROVE  vaIndex[t] = t * VaBlock /\ vaBin[t] = t /\ vaIndex[t] % Va!Stride = t * VaBlock
             /\ t % VaN = t /\ vaIndex[t] % 2 = 0
  <2> DEFINE b == t * VaBlock
             S == Va!Stride
  <2>1. (t + 1) * VaBlock = t * VaBlock + VaBlock /\ t * VaBlock \in Nat
    BY <1>1
  <2>2. (t + 1) * VaBlock <= VaN * VaBlock /\ VaN * VaBlock \in Nat
    BY <1>1, ProductsGrow
  <2>3. S = VaN * VaBlock
    BY <1>1 DEF Va!Stride
  <2>4. S \in Nat \ {0} /\ b \in 0 .. S - 1
    BY <1>1, <2>1, <2>2, <2>3
  <2> HIDE DEF b, S
  <2>5. (0 * S + b) % S = b /\ 0 * S + b = b
    BY <2>4, Remainder
  <2>6. vaIndex[t] = b
    BY DEF Va!Init, b
  <2>7. vaBin[t] = t
    BY DEF Va!Init
  <2>8. (0 * VaN + t) % VaN = t /\ 0 * VaN + t = t
    BY <1>1, Remainder
  <2>9. b % 2 = 0
    <3>1. t \in Nat
      BY <1>1
    <3>2. QED
      BY <3>1, VaEven DEF b
  <2>10. QED
    BY <2>5, <2>6, <2>7, <2>8, <2>9 DEF b, S
<1>7. ASSUME NEW b \in Va!BinNumbers PROVE ~ Va!Merged(b)
  <2>1. b \in Nat
    BY <1>2 DEF Va!BinNumbers
  <2>2. b % VaN \in Va!Tasklets /\ ~ (b < b % VaN)
    BY <1>1, <2>1, Turns
  <2>3. QED
    BY <1>6, <2>2 DEF Va!Merged
<1>8. ASSUME NEW t \in Va!Tasklets, NEW x \in Va!Elements, Va!Owns(t, x), x < vaIndex[t]
      PROVE  FALSE
  <2> DEFINE b == t * VaBlock
             r == x % Va!Stride
  <2>1. x \in Nat /\ b \in Nat /\ x < b
    BY <1>2, <1>3, <1>6, <1>8 DEF Va!Elements
  <2>2. Va!Stride \in Nat \ {0}
    <3>1. VaN * VaBlock = VaBlock + (VaN - 1) * VaBlock /\ (VaN - 1) * VaBlock \in Nat
      BY <1>1
    <3>2. Va!Stride = VaN * VaBlock
      BY <1>1 DEF Va!Stride
    <3>3. QED
      BY <1>1, <3>1, <3>2
  <2>3. r \in Nat /\ ~ (x < r)
    <3>1. x \in Nat
      BY <2>1
    <3>2. x % Va!Stride \in 0 .. Va!Stride - 1 /\ ~ (x < x % Va!Stride)
      BY <2>2, <3>1, Turns
    <3>3. QED
      BY <3>2
  <2>4. b <= r
    BY <1>8 DEF Va!Owns
  <2> HIDE DEF b, r
  <2>5. QED
    BY <2>1, <2>3, <2>4
<1>9. \A t \in Va!Tasklets, b \in Va!BinNumbers, x \in Va!Elements : vaHisto[t][b][x] = 0
  BY DEF Va!Init, Va!None
<1>10. \A t \in Va!Tasklets : vaAt[t] = "block"
  BY DEF Va!Init
<1>11. ASSUME NEW t \in Va!Tasklets, NEW x \in Va!Elements, Va!Owns(t, x)
       PROVE  Va!TimesBefore(vaIndex[t], x) = 0
  <2>1. ~ (x < vaIndex[t])
    BY <1>8, <1>11
  <2>2. ~ (Va!Again(x) /\ vaSize <= vaIndex[t])
    <3> SUFFICES ASSUME Va!Again(x), vaSize <= vaIndex[t] PROVE FALSE
      OBVIOUS
    <3>1. x \in Nat /\ x < vaSize
      BY <1>2 DEF Va!Elements
    <3>2. vaIndex[t] \in Nat
      BY <1>3, <1>6
    <3>3. QED
      BY <1>2, <2>1, <3>1, <3>2
  <2>3. QED
    BY <2>1, <2>2 DEF Va!TimesBefore
<1>12. Va!SharesOK
  BY <1>6, <1>7, <1>9, <1>10, <1>11 DEF Va!SharesOK
<1>13. QED
  BY <1>4, <1>5, <1>12 DEF Va!CountInv

LEMMA VaTakesBlock ==
  ASSUME Va!Sized, Va!CountInv, NEW t \in Va!Tasklets, Va!TakeBlock(t)
  PROVE  Va!CountInv'
<1> DEFINE k == vaIndex[t]
           Has(x) == Va!Read(t, x) \/ (vaApp # "VA" /\ Va!LeftOver(t, x))
           New(h, b, x) == IF Has(x) /\ x % vaBins = b THEN h[b][x] + 1 ELSE h[b][x]
<1>1. VaN \in Nat \ {0} /\ VaBlock \in Nat \ {0} /\ Va!Tasklets = 0 .. VaN - 1
  BY DEF Va!Sized, Va!Tasklets
<1>2. Va!TypeOK /\ Va!SharesOK /\ Va!PhaseOK
  BY DEF Va!CountInv
<1>3. /\ vaAt[t] = "block" /\ k < vaSize
      /\ vaHisto' = [vaHisto EXCEPT ![t] =
           [b \in Va!BinNumbers |-> [x \in Va!Elements |-> New(vaHisto[t], b, x)]]]
      /\ vaIndex' = [vaIndex EXCEPT ![t] = k + Va!Stride]
      /\ UNCHANGED <<vaApp, vaSize, vaBins, vaAt, vaBin, vaOut>>
  BY DEF Va!TakeBlock
<1>4. k \in Nat /\ vaSize \in Nat /\ vaBins \in Nat \ {0} /\ k % Va!Stride = t * VaBlock
  BY <1>2 DEF Va!TypeOK, Va!SharesOK
<1>5. \A u \in Va!Tasklets : vaBin[u] = u
  BY <1>2, <1>3 DEF Va!PhaseOK
<1>6. \A b \in Va!BinNumbers : ~ Va!Merged(b)
  <2> SUFFICES ASSUME NEW b \in Va!BinNumbers PROVE ~ Va!Merged(b)
    OBVIOUS
  <2>1. b \in Nat
    BY <1>4 DEF Va!BinNumbers
  <2>2. b % VaN \in Va!Tasklets /\ ~ (b < b % VaN)
    BY <1>1, <2>1, Turns
  <2>3. QED
    BY <1>5, <2>2 DEF Va!Merged
<1>7. Va!Stride \in Nat /\ Va!Stride % 2 = 0
  <2>1. 0 \in Nat
    OBVIOUS
  <2>2. QED
    BY <2>1, VaEven
<1>8. (k + Va!Stride) % Va!Stride = t * VaBlock /\ (k + Va!Stride) % 2 = 0
  <2>1. 0 \in Nat
    OBVIOUS
  <2>2. k % 2 = 0
    BY <1>2 DEF Va!SharesOK
  <2> HIDE DEF k
  <2>3. (k + Va!Stride) % 2 = 0
    BY <1>4, <1>7, <2>2
  <2>4. QED
    BY <1>4, <2>1, <2>3, VaBlocks
<1>9. \A x \in Va!Elements :
        /\ Has(x) => Va!Owns(t, x)
        /\ Va!Owns(t, x) => Va!TimesBefore(k + Va!Stride, x) =
             IF Has(x) THEN Va!TimesBefore(k, x) + 1 ELSE Va!TimesBefore(k, x)
  <2> SUFFICES ASSUME NEW x \in Va!Elements
               PROVE  /\ Has(x) => Va!Owns(t, x)
                      /\ Va!Owns(t, x) => Va!TimesBefore(k + Va!Stride, x) =
                           IF Has(x) THEN Va!TimesBefore(k, x) + 1 ELSE Va!TimesBefore(k, x)
    OBVIOUS
  <2>1. x \in Nat /\ x < vaSize
    BY <1>4 DEF Va!Elements
  <2>2. k % 2 = 0 /\ vaIndex[t] = k
    BY <1>2 DEF Va!SharesOK
  <2> HIDE DEF k
  <2>3. QED
    BY <1>3, <1>4, <2>1, <2>2, VaTimes
<1> HIDE DEF Has
<1>10. ASSUME NEW b \in Va!BinNumbers, NEW x \in Va!Elements
       PROVE  /\ vaHisto'[t][b][x] =
                   IF Va!Owns(t, x) /\ x % vaBins = b THEN Va!TimesBefore(k + Va!Stride, x) ELSE 0
              /\ vaHisto'[t][b][x] \in Int
  <2>1. vaHisto[t][b][x] = IF Va!Owns(t, x) /\ x % vaBins = b THEN Va!TimesBefore(k, x) ELSE 0
    BY <1>2, <1>6 DEF Va!SharesOK
  <2>2. vaHisto'[t][b][x] = New(vaHisto[t], b, x)
    BY <1>2, <1>3 DEF Va!TypeOK
  <2>3. vaHisto[t][b][x] \in Int
    BY <1>2 DEF Va!TypeOK
  <2>4. QED
    BY <1>9, <2>1, <2>2, <2>3
<1>11. /\ Va!BinNumbers' = Va!BinNumbers /\ Va!Elements' = Va!Elements /\ Va!Stride' = Va!Stride
       /\ \A b, x : Va!Right(b, x)' = Va!Right(b, x) /\ \A u : Va!Owns(u, x)' = Va!Owns(u, x)
       /\ \A b : Va!Merged(b)' = Va!Merged(b)
       /\ \A z, x : Va!TimesBefore(z, x)' = Va!TimesBefore(z, x)
       /\ Va!Untouched' = Va!Untouched
  BY <1>3 DEF Va!BinNumbers, Va!Elements, Va!Stride, Va!Right, Va!Times, Va!TimesBefore, Va!Odd,
    Va!Again, Va!Owns, Va!Merged, Va!Untouched
<1>12. vaIndex'[t] = k + Va!Stride /\ \A u \in Va!Tasklets : u # t =>
         vaIndex'[u] = vaIndex[u] /\ vaHisto'[u] = vaHisto[u]
  BY <1>2, <1>3 DEF Va!TypeOK
<1>13. Va!TypeOK'
  <2>1. [b \in Va!BinNumbers |-> [x \in Va!Elements |-> New(vaHisto[t], b, x)]]
          \in [Va!BinNumbers -> [Va!Elements -> Int]]
    <3>1. \A b \in Va!BinNumbers, x \in Va!Elements : vaHisto[t][b][x] \in Int
      BY <1>2 DEF Va!TypeOK
    <3>2. \A b \in Va!BinNumbers, x \in Va!Elements : New(vaHisto[t], b, x) \in Int
      BY <3>1
    <3> HIDE DEF New
    <3>3. QED
      BY <3>2
  <2> HIDE DEF New
  <2>2. vaHisto' \in [Va!Tasklets -> [Va!BinNumbers -> [Va!Elements -> Int]]]
    BY <1>2, <1>3, <2>1 DEF Va!TypeOK
  <2>3. vaIndex' \in [Va!Tasklets -> Nat]
    BY <1>2, <1>3, <1>4, <1>7 DEF Va!TypeOK
  <2>4. QED
    BY <1>2, <1>3, <1>11, <2>2, <2>3 DEF Va!TypeOK
<1>14. Va!PhaseOK'
  <2>1. (\A u \in Va!Tasklets : vaAt[u] \in {"block", "barrier"}) /\ vaBin = [u \in Va!Tasklets |-> u]
        /\ Va!Untouched
    BY <1>2, <1>3 DEF Va!PhaseOK
  <2>2. QED
    BY <1>3, <1>11, <2>1 DEF Va!PhaseOK
<1>15. Va!SharesOK'
  <2> SUFFICES ASSUME NEW u \in Va!Tasklets
               PROVE  /\ vaIndex'[u] % Va!Stride = u * VaBlock /\ vaIndex'[u] % 2 = 0
                      /\ vaBin'[u] % VaN = u
                      /\ vaAt'[u] # "block" => vaIndex'[u] >= vaSize
                      /\ \A b \in Va!BinNumbers, x \in Va!Elements :
                           vaHisto'[u][b][x] =
                             IF u = 0 /\ Va!Merged(b) THEN Va!Right(b, x)
                             ELSE IF Va!Owns(u, x) /\ x % vaBins = b
                                  THEN Va!TimesBefore(vaIndex'[u], x) ELSE 0
    BY <1>3, <1>11 DEF Va!SharesOK
  <2>1. CASE u = t
    BY <1>2, <1>3, <1>6, <1>8, <1>10, <1>12, <2>1 DEF Va!SharesOK
  <2>2. CASE u # t
    BY <1>2, <1>3, <1>12, <2>2 DEF Va!SharesOK
  <2>3. QED
    BY <2>1, <2>2
<1>16. QED
  BY <1>13, <1>14, <1>15 DEF Va!CountInv

LEMMA VaBlocksDone ==
  ASSUME Va!Sized, Va!CountInv, NEW t \in Va!Tasklets, Va!BlocksDone(t)
  PROVE  Va!CountInv'
<1>1. /\ vaAt[t] = "block" /\ vaIndex[t] >= vaSize /\ vaAt' = [vaAt EXCEPT ![t] = "barrier"]
      /\ UNCHANGED <<vaApp, vaSize, vaBins, vaIndex, vaHisto, vaBin, vaOut>>
  BY DEF Va!BlocksDone, Va!Goto
<1>2. Va!TypeOK /\ Va!SharesOK /\ Va!PhaseOK
  BY DEF Va!CountInv
<1>3. Va!TypeOK'
  BY <1>1, <1>2 DEF Va!TypeOK, Va!BinNumbers, Va!Elements
<1>4. \A u \in Va!Tasklets : vaAt'[u] = IF u = t THEN "barrier" ELSE vaAt[u]
  BY <1>1, <1>2 DEF Va!TypeOK
<1>5. Va!PhaseOK'
  <2>1. (\A u \in Va!Tasklets : vaAt[u] \in {"block", "barrier"}) /\ vaBin = [u \in Va!Tasklets |-> u]
        /\ Va!Untouched
    BY <1>1, <1>2 DEF Va!PhaseOK
  <2>2. Va!Untouched'
    BY <1>1, <2>1 DEF Va!Untouched, Va!BinNumbers, Va!Elements
  <2>3. QED
    BY <1>1, <1>4, <2>1, <2>2 DEF Va!PhaseOK
<1>6. Va!SharesOK'
  <2>1. /\ Va!BinNumbers' = Va!BinNumbers /\ Va!Elements' = Va!Elements /\ Va!Stride' = Va!Stride
        /\ \A b, x : Va!Right(b, x)' = Va!Right(b, x) /\ \A u : Va!Owns(u, x)' = Va!Owns(u, x)
        /\ \A b : Va!Merged(b)' = Va!Merged(b)
        /\ \A z, x : Va!TimesBefore(z, x)' = Va!TimesBefore(z, x)
    BY <1>1 DEF Va!BinNumbers, Va!Elements, Va!Stride, Va!Right, Va!Times, Va!TimesBefore, Va!Odd,
      Va!Again, Va!Owns, Va!Merged
  <2>2. QED
    BY <1>1, <1>2, <1>4, <2>1 DEF Va!SharesOK
<1>7. QED
  BY <1>3, <1>5, <1>6 DEF Va!CountInv

\* When all blocks are counted, the copies of a bin that is not merged add up
\* to what belongs into it.
LEMMA VaSums ==
  ASSUME Va!Sized, Va!TypeOK, Va!SharesOK, NEW b \in Va!BinNumbers, ~ Va!Merged(b),
         \A t \in Va!Tasklets : vaIndex[t] >= vaSize
  PROVE  /\ Va!Sum(b) \in [Va!Elements -> Int]
         /\ \A x \in Va!Elements : Va!Sum(b)[x] = Va!Right(b, x)
<1>1. VaN \in Nat \ {0} /\ Va!Tasklets = 0 .. VaN - 1
  BY DEF Va!Sized, Va!Tasklets
<1>2. ASSUME NEW x \in Va!Elements PROVE Va!Total(b, x) = Va!Right(b, x)
  <2>1. x \in Nat /\ x < vaSize /\ vaSize \in Nat
    BY DEF Va!TypeOK, Va!Elements
  <2>2. PICK w \in Va!Tasklets : Va!Owns(w, x)
    BY <2>1, VaOwner
  <2>3. ASSUME NEW n \in Va!Tasklets
        PROVE  vaHisto[n][b][x] = IF n = w THEN Va!Right(b, x) ELSE 0
    <3>1. vaIndex[n] \in Nat /\ vaIndex[n] >= vaSize
      BY DEF Va!TypeOK
    <3>2. Va!TimesBefore(vaIndex[n], x) = Va!Times(x)
      BY <2>1, <3>1, VaAllTimes
    <3>3. Va!Owns(n, x) <=> n = w
      BY <2>1, <2>2, VaOwner
    <3>4. vaHisto[n][b][x] =
            IF Va!Owns(n, x) /\ x % vaBins = b THEN Va!TimesBefore(vaIndex[n], x) ELSE 0
      BY DEF Va!SharesOK
    <3>5. QED
      BY <3>2, <3>3, <3>4 DEF Va!Right
  <2>4. Va!Right(b, x) \in Int
    BY DEF Va!Right, Va!Times
  <2>5. QED
    BY <2>3, <2>4, OneTerm
<1>3. \A x \in Va!Elements : Va!Right(b, x) \in Int
  BY DEF Va!Right, Va!Times
<1>4. Va!Sum(b) = [x \in Va!Elements |-> Va!Total(b, x)]
  BY DEF Va!Sum
<1>5. QED
  BY <1>2, <1>3, <1>4

LEMMA VaMeets ==
  ASSUME Va!Sized, Va!CountInv, Va!Meet
  PROVE  Va!CountInv'
<1>1. /\ \A t \in Va!Tasklets : vaAt[t] = "barrier"
      /\ vaAt' = [t \in Va!Tasklets |-> IF vaApp = "HST-S" THEN "merge" ELSE "end"]
      /\ vaOut' = IF vaApp = "HST-S" THEN vaOut ELSE [b \in Va!BinNumbers |-> Va!Sum(b)]
      /\ UNCHANGED <<vaApp, vaSize, vaBins, vaIndex, vaHisto, vaBin>>
  BY DEF Va!Meet, Va!Barrier
<1>2. Va!TypeOK /\ Va!SharesOK /\ Va!PhaseOK
  BY DEF Va!CountInv
<1>3. VaN \in Nat \ {0} /\ 0 \in Va!Tasklets /\ Va!Tasklets = 0 .. VaN - 1
  BY DEF Va!Sized, Va!Tasklets
<1>4. \A t \in Va!Tasklets : vaBin[t] = t /\ vaIndex[t] >= vaSize
  BY <1>1, <1>2, <1>3 DEF Va!PhaseOK, Va!SharesOK
<1>5. \A b \in Va!BinNumbers : ~ Va!Merged(b)
  <2> SUFFICES ASSUME NEW b \in Va!BinNumbers PROVE ~ Va!Merged(b)
    OBVIOUS
  <2>1. b \in Nat
    BY <1>2 DEF Va!BinNumbers, Va!TypeOK
  <2>2. b % VaN \in Va!Tasklets /\ ~ (b < b % VaN)
    BY <1>3, <2>1, Turns
  <2>3. QED
    BY <1>4, <2>2 DEF Va!Merged
<1>6. /\ Va!BinNumbers' = Va!BinNumbers /\ Va!Elements' = Va!Elements /\ Va!Stride' = Va!Stride
      /\ \A b, x : Va!Right(b, x)' = Va!Right(b, x) /\ \A u : Va!Owns(u, x)' = Va!Owns(u, x)
      /\ \A b : Va!Merged(b)' = Va!Merged(b) /\ Va!Shown(b)' = Va!Shown(b)
      /\ \A z, x : Va!TimesBefore(z, x)' = Va!TimesBefore(z, x)
  BY <1>1 DEF Va!BinNumbers, Va!Elements, Va!Stride, Va!Right, Va!Times, Va!TimesBefore, Va!Odd,
    Va!Again, Va!Owns, Va!Merged, Va!Shown, Va!Written, Va!Moved
<1>7. Va!TypeOK'
  BY <1>1, <1>2, <1>6 DEF Va!TypeOK
<1>8. Va!SharesOK'
  BY <1>1, <1>2, <1>4, <1>6 DEF Va!SharesOK
<1>9. Va!PhaseOK'
  <2>1. CASE vaApp = "HST-S"
    <3>1. Va!Untouched
      BY <1>1, <1>2, <1>3 DEF Va!PhaseOK
    <3>2. Va!Untouched'
      BY <1>1, <1>6, <2>1, <3>1 DEF Va!Untouched
    <3>3. QED
      BY <1>1, <2>1, <3>2 DEF Va!PhaseOK
  <2>2. CASE vaApp # "HST-S"
    <3>1. \A b \in Va!BinNumbers, x \in Va!Elements : vaOut'[b][x] = Va!Right(b, x)
      BY <1>1, <1>2, <1>4, <1>5, <2>2, VaSums
    <3>2. \A b : Va!Shown(b)
      BY <2>2 DEF Va!Shown
    <3>3. QED
      BY <1>1, <1>6, <2>2, <3>1, <3>2 DEF Va!PhaseOK
  <2>3. QED
    BY <2>1, <2>2
<1>10. QED
  BY <1>7, <1>8, <1>9 DEF Va!CountInv

LEMMA VaMerges ==
  ASSUME Va!Sized, Va!CountInv, NEW t \in Va!Tasklets, Va!Merge(t)
  PROVE  Va!CountInv'
<1> DEFINE c == vaBin[t]
<1>1. vaAt[t] = "merge" /\ UNCHANGED <<vaApp, vaSize, vaBins, vaIndex, vaOut>>
  BY DEF Va!Merge
<1>2. Va!TypeOK /\ Va!SharesOK /\ Va!PhaseOK
  BY DEF Va!CountInv
<1>3. VaN \in Nat \ {0} /\ 0 \in Va!Tasklets /\ Va!Tasklets = 0 .. VaN - 1
  BY DEF Va!Sized, Va!Tasklets
<1>4. /\ vaApp = "HST-S" /\ Va!Untouched
      /\ \A u \in Va!Tasklets : vaAt[u] = "merge" \/ (vaAt[u] = "write" /\ vaBin[u] >= vaBins)
  BY <1>1, <1>2 DEF Va!PhaseOK
<1>5. \A u \in Va!Tasklets : vaIndex[u] >= vaSize
  BY <1>2, <1>4 DEF Va!SharesOK
<1>6. /\ Va!BinNumbers' = Va!BinNumbers /\ Va!Elements' = Va!Elements /\ Va!Stride' = Va!Stride
      /\ \A b, x : Va!Right(b, x)' = Va!Right(b, x) /\ \A u : Va!Owns(u, x)' = Va!Owns(u, x)
      /\ \A z, x : Va!TimesBefore(z, x)' = Va!TimesBefore(z, x)
      /\ Va!Untouched' = Va!Untouched
  BY <1>1 DEF Va!BinNumbers, Va!Elements, Va!Stride, Va!Right, Va!Times, Va!TimesBefore, Va!Odd,
    Va!Again, Va!Owns, Va!Untouched
<1>7. CASE c < vaBins
  <2>1. /\ vaHisto' = [vaHisto EXCEPT ![0][c] = Va!Sum(c)]
        /\ vaBin' = [vaBin EXCEPT ![t] = c + VaN] /\ vaAt' = vaAt
    BY <1>7 DEF Va!Merge
  <2>2. c \in Nat /\ vaBins \in Nat /\ c \in Va!BinNumbers /\ c % VaN = t
    BY <1>2, <1>7 DEF Va!TypeOK, Va!SharesOK, Va!BinNumbers
  <2>3. ~ Va!Merged(c)
    BY <2>2 DEF Va!Merged
  <2>4. /\ Va!Sum(c) \in [Va!Elements -> Int]
        /\ \A x \in Va!Elements : Va!Sum(c)[x] = Va!Right(c, x)
    BY <1>2, <1>5, <2>2, <2>3, VaSums
  <2>5. /\ (c + VaN) % VaN = t
        /\ \A y \in Nat : y % VaN = t => (y < c + VaN <=> y < c \/ y = c)
    <3> HIDE DEF c
    <3>1. QED
      BY <1>3, <2>2, Turns
  <2>6. /\ vaBin'[t] = c + VaN /\ \A u \in Va!Tasklets : u # t => vaBin'[u] = vaBin[u]
        /\ vaBin' \in [Va!Tasklets -> Nat]
    BY <1>2, <1>3, <2>1, <2>2 DEF Va!TypeOK
  <2>7. /\ \A u \in Va!Tasklets : u # 0 => vaHisto'[u] = vaHisto[u]
        /\ \A b \in Va!BinNumbers : vaHisto'[0][b] = IF b = c THEN Va!Sum(c) ELSE vaHisto[0][b]
        /\ vaHisto' \in [Va!Tasklets -> [Va!BinNumbers -> [Va!Elements -> Int]]]
    <3> HIDE DEF c
    <3>1. vaHisto \in [Va!Tasklets -> [Va!BinNumbers -> [Va!Elements -> Int]]]
      BY <1>2 DEF Va!TypeOK
    <3>2. QED
      BY <1>3, <2>1, <2>2, <2>4, <3>1
  <2>8. \A b \in Va!BinNumbers : Va!Merged(b)' <=> Va!Merged(b) \/ b = c
    <3> SUFFICES ASSUME NEW b \in Va!BinNumbers PROVE Va!Merged(b)' <=> Va!Merged(b) \/ b = c
      OBVIOUS
    <3>1. b \in Nat /\ b % VaN \in Va!Tasklets
      <4>1. b \in Nat
        BY <2>2 DEF Va!BinNumbers
      <4>2. QED
        BY <1>3, <4>1, Turns
    <3>2. Va!Merged(b)' <=> b < vaBin'[b % VaN]
      BY DEF Va!Merged
    <3>3. CASE b % VaN = t
      BY <2>5, <2>6, <3>1, <3>2, <3>3 DEF Va!Merged
    <3>4. CASE b % VaN # t
      BY <2>2, <2>6, <3>1, <3>2, <3>4 DEF Va!Merged
    <3>5. QED
      BY <3>3, <3>4
  <2>9. Va!TypeOK'
    BY <1>1, <1>2, <1>6, <2>1, <2>6, <2>7 DEF Va!TypeOK
  <2>10. Va!PhaseOK'
    <3>1. \A u \in Va!Tasklets : vaAt[u] = "merge" \/ (vaAt[u] = "write" /\ vaBin'[u] >= vaBins)
      BY <1>1, <1>4, <2>6
    <3>2. QED
      BY <1>1, <1>4, <1>6, <2>1, <3>1 DEF Va!PhaseOK
  <2>11. Va!SharesOK'
    <3> SUFFICES ASSUME NEW u \in Va!Tasklets
                 PROVE  /\ vaIndex'[u] % Va!Stride = u * VaBlock /\ vaIndex'[u] % 2 = 0
                        /\ vaBin'[u] % VaN = u
                        /\ vaAt'[u] # "block" => vaIndex'[u] >= vaSize
                        /\ \A b \in Va!BinNumbers, x \in Va!Elements :
                             vaHisto'[u][b][x] =
                               IF u = 0 /\ Va!Merged(b)' THEN Va!Right(b, x)
                               ELSE IF Va!Owns(u, x) /\ x % vaBins = b
                                    THEN Va!TimesBefore(vaIndex[u], x) ELSE 0
      BY <1>1, <1>6 DEF Va!SharesOK
    <3>1. /\ vaIndex'[u] % Va!Stride = u * VaBlock /\ vaIndex'[u] % 2 = 0
          /\ vaAt'[u] # "block" => vaIndex'[u] >= vaSize
      BY <1>1, <1>2, <1>5 DEF Va!SharesOK
    <3>2. vaBin'[u] % VaN = u
      BY <1>2, <2>5, <2>6 DEF Va!SharesOK
    <3>3. ASSUME NEW b \in Va!BinNumbers, NEW x \in Va!Elements
          PROVE  vaHisto'[u][b][x] =
                   IF u = 0 /\ Va!Merged(b)' THEN Va!Right(b, x)
                   ELSE IF Va!Owns(u, x) /\ x % vaBins = b
                        THEN Va!TimesBefore(vaIndex[u], x) ELSE 0
      <4>1. vaHisto[u][b][x] = IF u = 0 /\ Va!Merged(b) THEN Va!Right(b, x)
                               ELSE IF Va!Owns(u, x) /\ x % vaBins = b
                                    THEN Va!TimesBefore(vaIndex[u], x) ELSE 0
        BY <1>2 DEF Va!SharesOK
      <4>2. CASE u = 0 /\ b = c
        BY <2>4, <2>7, <2>8, <4>2
      <4>3. CASE ~ (u = 0 /\ b = c)
        BY <1>3, <2>7, <2>8, <4>1, <4>3
      <4>4. QED
        BY <4>2, <4>3
    <3>4. QED
      BY <3>1, <3>2, <3>3
  <2>12. QED
    BY <2>9, <2>10, <2>11 DEF Va!CountInv
<1>8. CASE ~ (c < vaBins)
  <2>1. vaAt' = [vaAt EXCEPT ![t] = "write"] /\ UNCHANGED <<vaHisto, vaBin>>
    BY <1>8 DEF Va!Merge, Va!Goto
  <2>2. \A u \in Va!Tasklets : vaAt'[u] = IF u = t THEN "write" ELSE vaAt[u]
    BY <1>2, <2>1 DEF Va!TypeOK
  <2>3. c >= vaBins
    BY <1>2, <1>8 DEF Va!TypeOK
  <2>4. Va!TypeOK'
    BY <1>1, <1>2, <1>6, <2>1 DEF Va!TypeOK
  <2>5. Va!PhaseOK'
    BY <1>1, <1>4, <1>6, <2>1, <2>2, <2>3 DEF Va!PhaseOK
  <2>6. Va!SharesOK'
    BY <1>1, <1>2, <1>5, <1>6, <2>1, <2>2 DEF Va!SharesOK, Va!Merged
  <2>7. QED
    BY <2>4, <2>5, <2>6 DEF Va!CountInv
<1>9. QED
  BY <1>7, <1>8

LEMMA VaWrites ==
  ASSUME Va!Sized, Va!CountInv, Va!WriteHistogram
  PROVE  Va!CountInv'
<1>1. /\ \A t \in Va!Tasklets : vaAt[t] = "write"
      /\ vaAt' = [t \in Va!Tasklets |-> "end"]
      /\ vaOut' = [b \in Va!BinNumbers |-> IF b < Va!Written THEN vaHisto[0][b] ELSE vaOut[b]]
      /\ UNCHANGED <<vaApp, vaSize, vaBins, vaIndex, vaHisto, vaBin>>
  BY DEF Va!WriteHistogram, Va!Barrier
<1>2. Va!TypeOK /\ Va!SharesOK /\ Va!PhaseOK
  BY DEF Va!CountInv
<1>3. VaN \in Nat \ {0} /\ VaChunk \in Nat \ {0} /\ 0 \in Va!Tasklets /\ Va!Tasklets = 0 .. VaN - 1
  BY DEF Va!Sized, Va!Tasklets
<1>4. vaApp = "HST-S" /\ Va!Untouched /\ \A t \in Va!Tasklets : vaBin[t] >= vaBins
  BY <1>1, <1>2, <1>3 DEF Va!PhaseOK
<1>5. vaBins \in Nat \ {0}
  BY <1>2 DEF Va!TypeOK
<1>6. \A b : Va!Shown(b) <=> b < Va!Written
  BY <1>4 DEF Va!Shown
<1>7. /\ Va!BinNumbers' = Va!BinNumbers /\ Va!Elements' = Va!Elements /\ Va!Stride' = Va!Stride
      /\ \A b, x : Va!Right(b, x)' = Va!Right(b, x) /\ \A u : Va!Owns(u, x)' = Va!Owns(u, x)
      /\ \A b : Va!Merged(b)' = Va!Merged(b) /\ Va!Shown(b)' = Va!Shown(b)
      /\ \A z, x : Va!TimesBefore(z, x)' = Va!TimesBefore(z, x)
  BY <1>1 DEF Va!BinNumbers, Va!Elements, Va!Stride, Va!Right, Va!Times, Va!TimesBefore, Va!Odd,
    Va!Again, Va!Owns, Va!Merged, Va!Shown, Va!Written, Va!Moved
<1>8. ASSUME NEW b \in Va!BinNumbers, NEW x \in Va!Elements
      PROVE  vaOut'[b][x] = IF Va!Shown(b) THEN Va!Right(b, x) ELSE 0
  <2>1. b \in Nat /\ b < vaBins
    BY <1>5 DEF Va!BinNumbers
  <2>2. b % VaN \in Va!Tasklets
    BY <1>3, <2>1, Turns
  <2>3. Va!Merged(b)
    <3>1. vaBin[b % VaN] \in Nat /\ vaBin[b % VaN] >= vaBins
      BY <1>2, <1>4, <2>2 DEF Va!TypeOK
    <3>2. QED
      BY <1>5, <2>1, <3>1 DEF Va!Merged
  <2>4. vaOut'[b] = IF Va!Shown(b) THEN vaHisto[0][b] ELSE vaOut[b]
    BY <1>1, <1>6
  <2>5. vaHisto[0][b][x] = Va!Right(b, x)
    BY <1>2, <1>3, <2>3 DEF Va!SharesOK
  <2>6. vaOut[b][x] = 0
    BY <1>4 DEF Va!Untouched
  <2>7. QED
    BY <2>4, <2>5, <2>6
<1>9. Va!TypeOK'
  BY <1>1, <1>2, <1>7 DEF Va!TypeOK
<1>10. Va!SharesOK'
  BY <1>1, <1>2, <1>7 DEF Va!SharesOK
<1>11. Va!PhaseOK'
  BY <1>1, <1>7, <1>8 DEF Va!PhaseOK
<1>12. QED
  BY <1>9, <1>10, <1>11 DEF Va!CountInv

LEMMA VaPreserves ==
  ASSUME Va!Sized, Va!CountInv, [Va!Next]_(Va!vars)
  PROVE  Va!CountInv'
<1>1. CASE Va!Meet \/ Va!WriteHistogram
  BY <1>1, VaMeets, VaWrites
<1>2. CASE \E t \in Va!Tasklets : Va!Tasklet(t)
  BY <1>2, VaTakesBlock, VaBlocksDone, VaMerges DEF Va!Tasklet
<1>3. CASE UNCHANGED Va!vars
  BY <1>3 DEF Va!vars, Va!CountInv, Va!TypeOK, Va!SharesOK, Va!PhaseOK, Va!BinNumbers, Va!Elements,
    Va!Stride, Va!Right, Va!Times, Va!TimesBefore, Va!Odd, Va!Again, Va!Owns, Va!Merged, Va!Shown,
    Va!Written, Va!Moved, Va!Untouched
<1>4. QED
  BY <1>1, <1>2, <1>3 DEF Va!Next

LEMMA VaSafe ==
  ASSUME Va!Sized, Va!CountInv
  PROVE  Va!EachElementOnce
<1>1. 0 \in Va!Tasklets
  BY DEF Va!Sized, Va!Tasklets
<1>2. QED
  BY <1>1 DEF Va!EachElementOnce, Va!Ended, Va!CountInv, Va!PhaseOK, Va!Right, Va!Times, Va!Odd,
    Va!Again

-----------------------------------------------------------------------------
(* HST-L.  Its group barrier is the one of SenseBarrierProofs.             *)

LEMMA HstNumbers ==
  /\ N \in Nat \ {0} /\ Bins \in Nat \ {0} /\ Rounds = 2
  /\ Tasklets = 0 .. N - 1 /\ 0 \in Tasklets
BY NAssumption, BinsAssumption, TwoWaits DEF Tasklets

\* What the barrier tells of the two waits.
LEMMA HstWaits ==
  ASSUME SenseInv
  PROVE  /\ \A t \in Tasklets : entered[t] \in 0 .. 2 /\ left[t] \in 0 .. 2
         /\ \A t \in Tasklets : pc[t] = "app" => entered[t] = left[t]
         /\ late = {} => \A s, t \in Tasklets : left[t] = 2 => entered[s] = 2
<1>1. \A t \in Tasklets : entered[t] \in 0 .. 2 /\ left[t] \in 0 .. 2
  BY HstNumbers DEF SenseInv, TypeOK
<1>2. ASSUME NEW t \in Tasklets, pc[t] = "app" PROVE entered[t] = left[t]
  <2>1. CASE t = 0
    BY <1>2, <2>1 DEF SenseInv, LeaderOK
  <2>2. CASE t # 0
    BY <1>2, <2>2 DEF SenseInv, OthersOK, Behind, Ahead, Freed
  <2>3. QED
    BY <2>1, <2>2
<1>3. ASSUME late = {}, NEW s \in Tasklets, NEW t \in Tasklets, left[t] = 2
      PROVE  entered[s] = 2
  <2>1. left[t] <= entered[s]
    <3>1. Lag(t) = 0 /\ Lag(s) = 0
      BY <1>3 DEF Lag
    <3>2. QED
      BY <1>1, <3>1, InvIsSafe DEF RoundIntegrity
  <2>2. QED
    BY <1>1, <1>3, <2>1
<1>4. QED
  BY <1>1, <1>2, <1>3

\* A bin holds finitely many elements, each of them a tasklet's.
LEMMA HstFinite ==
  ASSUME GTypeOK, NEW b
  PROVE  IsFiniteSet(Counted(b)) /\ Cardinality(Counted(b)) \in Nat
<1> DEFINE Of1(t) == {t} \X {k \in 1 .. elem[t] : input[t][k] = b}
           T == {Of1(t) : t \in Tasklets}
           f == [t \in Tasklets |-> Of1(t)]
<1>1. IsFiniteSet(Tasklets)
  BY HstNumbers, FS_Interval
<1>2. f \in Surjection(Tasklets, T)
  BY DEF Surjection
<1>3. IsFiniteSet(T)
  <2> HIDE DEF f, T
  <2>1. QED
    BY <1>1, <1>2, FS_Surjection
<1>4. ASSUME NEW t \in Tasklets PROVE IsFiniteSet(Of1(t))
  <2> DEFINE K == {k \in 1 .. elem[t] : input[t][k] = b}
  <2>1. IsFiniteSet(1 .. elem[t])
    BY FS_Interval DEF GTypeOK
  <2>2. IsFiniteSet(K)
    <3>1. K \in SUBSET (1 .. elem[t])
      OBVIOUS
    <3> HIDE DEF K
    <3>2. QED
      BY <2>1, <3>1, FS_Subset
  <2>3. IsFiniteSet({t})
    BY FS_Singleton
  <2>4. QED
    <3> HIDE DEF K
    <3>1. IsFiniteSet({t} \X K)
      BY <2>2, <2>3, FS_Product
    <3>2. QED
      BY <3>1 DEF K
<1>5. IsFiniteSet(UNION T)
  <2>1. \A S \in T : IsFiniteSet(S)
    BY <1>4
  <2> HIDE DEF T
  <2>2. QED
    BY <1>3, <2>1, FS_UNION
<1>6. UNION T = Counted(b)
  BY DEF Counted
<1>7. QED
  BY <1>5, <1>6, FS_CardinalityType

\* Who has been counted, element by element.
LEMMA HstCounted ==
  ASSUME NEW b, NEW t, NEW k
  PROVE  <<t, k>> \in Counted(b) <=> t \in Tasklets /\ k \in 1 .. elem[t] /\ input[t][k] = b
BY DEF Counted

LEMMA HstInit ==
  ASSUME GInit, SenseInv
  PROVE  HistogramInv
<1>1. /\ input \in Inputs /\ bin = [t \in Tasklets |-> t]
      /\ elem = [t \in Tasklets |-> 0] /\ histo = [b \in 0 .. Bins - 1 |-> -1]
      /\ \A t \in Tasklets : entered[t] = 0
  BY DEF GInit, Init
<1>2. N \in Nat \ {0} /\ Tasklets = 0 .. N - 1
  BY HstNumbers
<1>3. GTypeOK
  BY <1>1, <1>2, InputsAssumption DEF GTypeOK
<1>4. ASSUME NEW t \in Tasklets
      PROVE  /\ bin[t] % N = t /\ elem[t] <= Len(input[t])
             /\ entered[t] = 2 => bin[t] >= Bins
             /\ elem[t] > 0 => left[t] = 2
  <2>1. t % N = t
    BY <1>2
  <2>2. Len(input[t]) \in Nat
    BY <1>3, LenProperties DEF GTypeOK
  <2>3. QED
    BY <1>1, <2>1, <2>2
<1>5. ASSUME NEW b \in 0 .. Bins - 1
      PROVE  histo[b] = IF b < bin[b % N] THEN Cardinality(Counted(b)) ELSE -1
  <2>1. b \in Nat
    BY HstNumbers
  <2>2. b % N \in Tasklets /\ ~ (b < b % N)
    BY <1>2, <2>1, Turns
  <2>3. QED
    BY <1>1, <2>2
<1>6. QED
  BY <1>3, <1>4, <1>5 DEF HistogramInv

\* A step of a wait: the second one starts with the stripe cleared.
LEMMA HstWaitStep ==
  ASSUME HistogramInv, SenseInv, SenseInv', UNCHANGED gvars, late' = {} => late = {},
         \A t \in Tasklets :
           /\ left'[t] = left[t] \/ left'[t] = left[t] + 1
           /\ entered'[t] = 2 /\ entered[t] # 2 => bin[t] >= Bins
  PROVE  HistogramInv'
<1>1. UNCHANGED <<input, bin, elem, histo>>
  BY DEF gvars
<1>2. \A t \in Tasklets : left[t] \in 0 .. 2 /\ left'[t] \in 0 .. 2
  BY HstNumbers DEF SenseInv, TypeOK
<1>3. ASSUME NEW t \in Tasklets
      PROVE  /\ entered'[t] = 2 => bin[t] >= Bins
             /\ elem[t] > 0 => left'[t] = 2
  BY <1>2 DEF HistogramInv
<1>4. \A b : Counted(b)' = Counted(b)
  BY <1>1 DEF Counted
<1>5. GTypeOK'
  BY <1>1 DEF HistogramInv, GTypeOK
<1>6. QED
  BY <1>1, <1>3, <1>4, <1>5 DEF HistogramInv

\* A bin is cleared before anything is counted.
LEMMA HstClears ==
  ASSUME HistogramInv, SenseInv, NEW t \in Tasklets, Clear(t)
  PROVE  HistogramInv'
<1> DEFINE c == bin[t]
<1>1. /\ pc[t] = "app" /\ left[t] = 1 /\ entered[t] = 1 /\ c < Bins
      /\ histo' = [histo EXCEPT ![c] = 0] /\ bin' = [bin EXCEPT ![t] = c + N]
      /\ UNCHANGED <<vars, input, elem>>
  BY DEF Clear
<1>2. /\ N \in Nat \ {0} /\ Bins \in Nat \ {0} /\ Tasklets = 0 .. N - 1
      /\ GTypeOK /\ c \in Nat /\ c % N = t /\ c \in 0 .. Bins - 1
  <2>1. N \in Nat \ {0} /\ Bins \in Nat \ {0} /\ Tasklets = 0 .. N - 1
    BY HstNumbers
  <2>2. GTypeOK /\ c % N = t
    BY DEF HistogramInv
  <2>3. c \in Nat /\ c < Bins
    BY <1>1, <2>2 DEF GTypeOK
  <2> HIDE DEF c
  <2>4. QED
    BY ONLY <2>1, <2>2, <2>3
<1>3. UNCHANGED <<entered, left, late>>
  BY <1>1 DEF vars
<1>4. late = {} => \A u \in Tasklets : elem[u] = 0
  <2> SUFFICES ASSUME late = {}, NEW u \in Tasklets, elem[u] # 0 PROVE FALSE
    OBVIOUS
  <2>1. left[u] = 2
    <3>1. elem[u] \in Nat
      BY <1>2 DEF GTypeOK
    <3>2. elem[u] > 0
      BY <3>1
    <3>3. QED
      BY <3>2 DEF HistogramInv
  <2>2. entered[t] = 2
    BY <2>1, HstWaits
  <2>3. QED
    BY <1>1, <2>2
<1>5. ASSUME late = {}, NEW b PROVE Counted(b) = {} /\ Counted(b)' = Counted(b)
  BY <1>1, <1>4, <1>5 DEF Counted
<1>6. /\ (c + N) % N = t
      /\ \A y \in Nat : y % N = t => (y < c + N <=> y < c \/ y = c)
  <2> HIDE DEF c
  <2>1. QED
    BY <1>2, Turns
<1>7. /\ bin'[t] = c + N /\ \A u \in Tasklets : u # t => bin'[u] = bin[u]
      /\ bin' \in [Tasklets -> Nat]
  BY <1>1, <1>2 DEF GTypeOK
<1>8. \A b \in 0 .. Bins - 1 : histo'[b] = IF b = c THEN 0 ELSE histo[b]
  BY <1>1, <1>2 DEF GTypeOK
<1>9. GTypeOK'
  BY <1>1, <1>2, <1>7 DEF GTypeOK
<1>10. ASSUME NEW u \in Tasklets
       PROVE  /\ bin'[u] % N = u /\ elem'[u] <= Len(input'[u])
              /\ entered'[u] = 2 => bin'[u] >= Bins
              /\ elem'[u] > 0 => left'[u] = 2
  <2>1. CASE u = t
    BY <1>1, <1>3, <1>6, <1>7, <2>1 DEF HistogramInv
  <2>2. CASE u # t
    BY <1>1, <1>3, <1>7, <2>2 DEF HistogramInv
  <2>3. QED
    BY <2>1, <2>2
<1>11. ASSUME late = {}, NEW b \in 0 .. Bins - 1
       PROVE  histo'[b] = IF b < bin'[b % N] THEN Cardinality(Counted(b)') ELSE -1
  <2>1. b \in Nat /\ b % N \in Tasklets
    <3>1. b \in Nat
      BY <1>2
    <3>2. QED
      BY <1>2, <3>1, Turns
  <2>2. histo[b] = IF b < bin[b % N] THEN Cardinality(Counted(b)) ELSE -1
    BY <1>11 DEF HistogramInv
  <2>3. Cardinality(Counted(b)') = 0 /\ Counted(b)' = Counted(b)
    BY <1>5, <1>11, FS_EmptySet
  <2>4. CASE b = c
    <3>1. b < bin'[b % N]
      BY <1>2, <1>6, <1>7, <2>4
    <3>2. QED
      BY <1>8, <2>3, <2>4, <3>1
  <2>5. CASE b # c /\ b % N = t
    <3>1. b < bin'[b % N] <=> b < bin[b % N]
      BY <1>6, <1>7, <2>1, <2>5
    <3>2. QED
      BY <1>8, <2>2, <2>3, <2>5, <3>1
  <2>6. CASE b # c /\ b % N # t
    BY <1>7, <1>8, <2>1, <2>2, <2>3, <2>6
  <2>7. QED
    BY <2>4, <2>5, <2>6
<1>12. QED
  BY <1>3, <1>9, <1>10, <1>11 DEF HistogramInv

\* An element is counted after every bin is cleared.
LEMMA HstCounts ==
  ASSUME HistogramInv, SenseInv, NEW t \in Tasklets, Count(t)
  PROVE  HistogramInv'
<1> DEFINE e == elem[t] + 1
           c == input[t][e]
<1>1. /\ pc[t] = "app" /\ left[t] = 2 /\ elem[t] < Len(input[t])
      /\ histo' = [histo EXCEPT ![c] = @ + 1] /\ elem' = [elem EXCEPT ![t] = e]
      /\ UNCHANGED <<vars, input, bin>>
  BY DEF Count
<1>2. /\ N \in Nat \ {0} /\ Bins \in Nat \ {0} /\ Tasklets = 0 .. N - 1 /\ GTypeOK
      /\ elem \in [Tasklets -> Nat] /\ input[t] \in Seq(0 .. Bins - 1) /\ Len(input[t]) \in Nat
  BY HstNumbers, LenProperties DEF HistogramInv, GTypeOK
<1>3. UNCHANGED <<entered, left, late>>
  BY <1>1 DEF vars
<1>4. e \in 1 .. Len(input[t]) /\ c \in 0 .. Bins - 1
  <2>1. e \in 1 .. Len(input[t])
    BY <1>1, <1>2
  <2> HIDE DEF e
  <2>2. QED
    BY <1>2, <2>1, ElementOfSeq
<1>5. ASSUME late = {}, NEW b \in 0 .. Bins - 1 PROVE b < bin[b % N] /\ bin'[b % N] = bin[b % N]
  <2>1. b \in Nat /\ b < Bins
    BY <1>2
  <2>2. b % N \in Tasklets
    BY <1>2, <2>1, Turns
  <2>3. bin[b % N] \in Nat /\ bin[b % N] >= Bins
    BY <1>1, <1>5, <2>2, HstWaits DEF HistogramInv, GTypeOK
  <2>4. Bins \in Nat
    BY <1>2
  <2>5. b < bin[b % N]
    <3> DEFINE g == bin[b % N]
    <3>1. g \in Nat /\ g >= Bins
      BY <2>3
    <3> HIDE DEF g
    <3>2. b < g
      BY ONLY <2>1, <2>4, <3>1
    <3>3. QED
      BY <3>2 DEF g
  <2>6. QED
    BY <1>1, <2>5
<1>6. elem'[t] = e /\ (\A u \in Tasklets : u # t => elem'[u] = elem[u]) /\ elem' \in [Tasklets -> Nat]
  BY <1>1, <1>2
<1>7. \A b \in 0 .. Bins - 1 : histo'[b] = IF b = c THEN histo[b] + 1 ELSE histo[b]
  <2> HIDE DEF c
  <2>1. QED
    BY <1>1, <1>2, <1>4 DEF GTypeOK
<1>8. GTypeOK'
  <2> HIDE DEF c, e
  <2>1. QED
    BY <1>1, <1>2, <1>6 DEF GTypeOK
<1>9. ASSUME NEW u \in Tasklets
       PROVE  /\ bin'[u] % N = u /\ elem'[u] <= Len(input'[u])
              /\ entered'[u] = 2 => bin'[u] >= Bins
              /\ elem'[u] > 0 => left'[u] = 2
  <2>1. CASE u = t
    BY <1>1, <1>2, <1>3, <1>6, <2>1 DEF HistogramInv
  <2>2. CASE u # t
    BY <1>1, <1>3, <1>6, <2>2 DEF HistogramInv
  <2>3. QED
    BY <2>1, <2>2
<1>10. ASSUME NEW b
       PROVE  Counted(b)' = IF b = c THEN Counted(b) \cup {<<t, e>>} ELSE Counted(b)
  <2>1. \A u \in Tasklets : 1 .. elem'[u] = IF u = t THEN (1 .. elem[u]) \cup {e} ELSE 1 .. elem[u]
    <3>1. elem[t] \in Nat /\ 1 .. elem[t] + 1 = (1 .. elem[t]) \cup {elem[t] + 1}
      BY <1>2
    <3>2. QED
      BY <1>6, <3>1
  <2>2. input' = input
    BY <1>1
  <2>3. ASSUME NEW x
        PROVE  x \in Counted(b)' <=> x \in Counted(b) \/ (b = c /\ x = <<t, e>>)
    <3>1. x \in Counted(b)' <=>
            \E u \in Tasklets : x \in {u} \X {k \in 1 .. elem'[u] : input[u][k] = b}
      BY <2>2 DEF Counted
    <3>2. x \in Counted(b) <=>
            \E u \in Tasklets : x \in {u} \X {k \in 1 .. elem[u] : input[u][k] = b}
      BY DEF Counted
    <3>3. ASSUME NEW u \in Tasklets
          PROVE  x \in {u} \X {k \in 1 .. elem'[u] : input[u][k] = b} <=>
                   \/ x \in {u} \X {k \in 1 .. elem[u] : input[u][k] = b}
                   \/ u = t /\ b = c /\ x = <<t, e>>
      <4>1. CASE u # t
        BY <2>1, <4>1
      <4>2. CASE u = t
        <5> DEFINE J == {k \in 1 .. elem[t] : input[t][k] = b}
                   K == {k \in 1 .. elem'[t] : input[t][k] = b}
        <5>1. K = IF b = c THEN J \cup {e} ELSE J
          BY <2>1
        <5> HIDE DEF J, K, c, e
        <5>2. x \in {t} \X K <=> x \in {t} \X J \/ (b = c /\ x = <<t, e>>)
          BY <5>1
        <5>3. QED
          BY <4>2, <5>2 DEF J, K
      <4>3. QED
        BY <4>1, <4>2
    <3>4. QED
      BY <3>1, <3>2, <3>3
  <2>4. QED
    BY <2>3
<1>11. <<t, e>> \notin Counted(c)
  <2>1. e \notin 1 .. elem[t]
    BY <1>2
  <2> HIDE DEF c, e
  <2>2. QED
    BY <2>1, HstCounted
<1>12. ASSUME late = {}, NEW b \in 0 .. Bins - 1
       PROVE  histo'[b] = IF b < bin'[b % N] THEN Cardinality(Counted(b)') ELSE -1
  <2>1. histo[b] = Cardinality(Counted(b)) /\ b < bin'[b % N]
    BY <1>5, <1>12 DEF HistogramInv
  <2>2. CASE b = c
    <3> HIDE DEF c, e
    <3>1. Cardinality(Counted(b) \cup {<<t, e>>}) = Cardinality(Counted(b)) + 1
      BY <1>2, <1>11, <2>2, HstFinite, FS_AddElement
    <3>2. QED
      BY <1>7, <1>10, <2>1, <2>2, <3>1
  <2>3. CASE b # c
    BY <1>7, <1>10, <2>1, <2>3
  <2>4. QED
    BY <2>2, <2>3
<1>13. QED
  BY <1>3, <1>8, <1>9, <1>12 DEF HistogramInv

LEMMA HstPreserves ==
  ASSUME Sound, HistogramInv, SenseInv, [GNext]_<<vars, gvars>>
  PROVE  SenseInv' /\ HistogramInv'
<1>1. ASSUME [Next]_vars PROVE SenseInv'
  BY <1>1, NextPreserves
<1>2. CASE UNCHANGED gvars /\ (InitSense \/ InitSlot \/ Scan \/ Flip)
  <2>1. SenseInv'
    BY <1>1, <1>2 DEF Next, Tasklet0
  <2>2. \A t \in Tasklets : entered'[t] = entered[t]
    BY <1>2 DEF InitSense, InitSlot, Scan, Flip, counts
  <2>3. \A t \in Tasklets : left'[t] = left[t] \/ left'[t] = left[t] + 1
    <3>1. left \in [Tasklets -> 0 .. 2]
      BY HstNumbers DEF SenseInv, TypeOK
    <3>2. QED
      BY <1>2, <3>1, HstNumbers DEF InitSense, InitSlot, Scan, Flip, counts
  <2>4. late' = {} => late = {}
    BY <1>2 DEF InitSense, InitSlot, Scan, Flip, counts, SenseInv, LeaderOK
  <2>5. QED
    BY <1>2, <2>1, <2>2, <2>3, <2>4, HstWaitStep
<1>3. ASSUME NEW t \in Tasklets, EnterWait(t) PROVE SenseInv' /\ HistogramInv'
  <2>1. UNCHANGED gvars /\ Wait(t) /\ (left[t] = 1 => bin[t] >= Bins)
    BY <1>3 DEF EnterWait
  <2>2. SenseInv'
    BY <1>1, <2>1 DEF Next, Tasklet
  <2>3. /\ pc[t] = "app" /\ left' = left /\ late' = late
        /\ entered' = [entered EXCEPT ![t] = @ + 1]
    BY <2>1 DEF Wait
  <2>4. entered \in [Tasklets -> 0 .. 2] /\ entered[t] = left[t]
    BY <2>3, HstNumbers, HstWaits DEF SenseInv, TypeOK
  <2>5. \A u \in Tasklets : entered'[u] = 2 /\ entered[u] # 2 => bin[u] >= Bins
    BY <2>1, <2>3, <2>4
  <2>6. QED
    BY <2>1, <2>2, <2>3, <2>5, HstWaitStep
<1>4. ASSUME NEW t \in Tasklets, InWait(t) PROVE SenseInv' /\ HistogramInv'
  <2>1. UNCHANGED gvars /\ (Gate(t) \/ Snap(t) \/ Announce(t) \/ Poll(t))
    BY <1>4 DEF InWait
  <2>2. SenseInv'
    BY <1>1, <2>1 DEF Next, Tasklet
  <2>3. late' = late /\ \A u \in Tasklets : entered'[u] = entered[u]
    BY <2>1 DEF Gate, Snap, Announce, Poll, counts
  <2>4. \A u \in Tasklets : left'[u] = left[u] \/ left'[u] = left[u] + 1
    <3>1. left \in [Tasklets -> 0 .. 2]
      BY HstNumbers DEF SenseInv, TypeOK
    <3>2. QED
      BY <2>1, <3>1 DEF Gate, Snap, Announce, Poll, counts
  <2>5. QED
    BY <2>1, <2>2, <2>3, <2>4, HstWaitStep
<1>5. ASSUME NEW t \in Tasklets, Clear(t) \/ Count(t) PROVE SenseInv' /\ HistogramInv'
  <2>1. UNCHANGED vars
    BY <1>5 DEF Clear, Count
  <2>2. QED
    BY <1>1, <1>5, <2>1, HstClears, HstCounts
<1>6. CASE UNCHANGED <<vars, gvars>>
  <2>1. SenseInv' /\ UNCHANGED gvars /\ UNCHANGED <<left, entered, late>>
    BY <1>1, <1>6 DEF vars
  <2>2. QED
    BY <2>1, HstWaitStep
<1>7. QED
  BY <1>2, <1>3, <1>4, <1>5, <1>6 DEF GNext, Of, LeaderInWait

LEMMA HstSafe ==
  ASSUME HistogramInv, SenseInv
  PROVE  HistogramComplete /\ (late = {} => ClearedBeforeCounted)
<1>1. ASSUME late = {}, NEW t \in Tasklets, left[t] = 2 PROVE \A u \in Tasklets : bin[u] >= Bins
  BY <1>1, HstWaits DEF HistogramInv
<1>2. late = {} => ClearedBeforeCounted
  BY <1>1 DEF ClearedBeforeCounted, HistogramInv
<1>3. ASSUME Through, late = {}, NEW b \in 0 .. Bins - 1 PROVE histo[b] = CountOf(b)
  <2>1. b \in Nat /\ b < Bins
    BY HstNumbers
  <2>2. b % N \in Tasklets
    BY <2>1, HstNumbers, Turns
  <2>3. bin[b % N] \in Nat /\ bin[b % N] >= Bins
    BY <1>1, <1>3, <2>2, HstNumbers DEF Through, HistogramInv, GTypeOK
  <2>4. b < bin[b % N]
    BY <2>1, <2>3, HstNumbers
  <2>5. \A t \in Tasklets : DOMAIN input[t] = 1 .. elem[t]
    BY <1>3, LenProperties DEF Through, HistogramInv, GTypeOK
  <2>6. CountOf(b) = Cardinality(Counted(b))
    <3>1. \A t \in Tasklets :
            {k \in DOMAIN input[t] : input[t][k] = b} = {k \in 1 .. elem[t] : input[t][k] = b}
      BY <2>5
    <3>2. ASSUME NEW x
          PROVE  (\E t \in Tasklets : x \in {t} \X {k \in DOMAIN input[t] : input[t][k] = b})
                   <=> x \in Counted(b)
      BY <3>1 DEF Counted
    <3>3. UNION {{t} \X {k \in DOMAIN input[t] : input[t][k] = b} : t \in Tasklets} = Counted(b)
      BY <3>2
    <3>4. QED
      BY <3>3 DEF CountOf
  <2>7. QED
    BY <1>3, <2>4, <2>6 DEF HistogramInv
<1>4. QED
  BY <1>2, <1>3 DEF HistogramComplete

(***************************************************************************)
(* VA, RED, HST-S and HST-L: every element is counted once, in its bin.    *)
(* For every number of tasklets, any sizes of blocks and chunks, any       *)
(* number of elements and of bins; in HST-L if no tasklet was late at the  *)
(* group's barrier, for otherwise it may clear a bin that others count in. *)
(***************************************************************************)
THEOREM ElementsAreCounted == MCSpec => []CountedOnce
<1> DEFINE Inv == /\ kernel = "VA" => Va!CountInv
                  /\ kernel = "HST-L" => SenseInv /\ HistogramInv
<1>1. Sound
  BY TwoWaits DEF Sound
<1>2. MCInit => Inv
  <2> SUFFICES ASSUME MCInit PROVE Inv
    OBVIOUS
  <2>1. SenseInv /\ HistogramInv
    BY <1>1, InitOK, HstInit DEF MCInit, GroupInit, GInit
  <2>2. QED
    BY <2>1, VaAssumption, VaInit DEF MCInit, KernelInit
<1>3. Inv /\ [MCNext]_all => Inv'
  <2> SUFFICES ASSUME Inv, [MCNext]_all PROVE Inv'
    OBVIOUS
  <2>1. CASE kernel' = "VA"
    <3>1. kernel = "VA" /\ [Va!Next]_(Va!vars)
      BY <2>1 DEF MCNext, all, group, Va!vars
    <3>2. QED
      BY <2>1, <3>1, VaAssumption, VaPreserves
  <2>2. CASE kernel' = "HST-L"
    <3>1. kernel = "HST-L" /\ [GNext]_<<vars, gvars>>
      BY <2>2 DEF MCNext, all, group
    <3>2. QED
      BY <1>1, <2>2, <3>1, HstPreserves
  <2>3. QED
    BY <2>1, <2>2
<1>4. Inv => CountedOnce
  BY VaAssumption, VaSafe, HstSafe DEF CountedOnce
<1>5. QED
  BY <1>2, <1>3, <1>4, PTL DEF MCSpec
=============================================================================
