------------------------------ MODULE Poly1305 ------------------------------
(***************************************************************************)
(* The arithmetic of poly/poly.c and poly/poly.S: numbers of five limbs,   *)
(* modulo P = 2^130 - 5 with 32 bits in a limb.  A sum is reduced once, if *)
(* its highest limb is above 3; a product is computed by doubling and      *)
(* adding, one bit of the key at a time; a comparison with P at the end    *)
(* makes it canonical.  LimbBits scales the limbs down.  The highest limb  *)
(* is not bounded here: over all bits of a key it grows by a few bits,     *)
(* which 32 bits hold.                                                     *)
(***************************************************************************)
EXTENDS Integers

CONSTANTS
  LimbBits,  \* 32
  Keys,      \* the values of r: clamped, below a sixteenth of 4 limbs
  Blocks,    \* the blocks of 4 limbs
  Starts,    \* the values of the accumulator a call may find
  Length      \* blocks of a message

KeyBits == 4 * LimbBits
Bits4 == 2 ^ KeyBits           \* 4 limbs
Top == 4 * Bits4               \* 2^130
P == Top - 5

VARIABLES
  r,      \* ctx->r
  a,      \* ctx->a
  exact,  \* history: what a should be, below P
  fed     \* blocks fed

vars == <<r, a, exact, fed>>

\* Slip: the highest limb may be 4.
AddReduceLate(x, y) == IF (x + y) \div Bits4 > 4 THEN x + y + 4 - Top ELSE x + y

\* POLY_ADD_REDUCE: subtracts 4 from the highest limb and adds 5 if it is above 3.
AddReduce(x, y) == IF (x + y) \div Bits4 > 3 THEN x + y + 5 - Top ELSE x + y

\* poly_mul_assign(): the product and the doubled accumulator after n bits.
Multiply(x, key) ==
  LET after[n \in 0 .. KeyBits] ==
        IF n = 0 THEN <<0, x>>
        ELSE LET p == after[n - 1]
             IN  <<IF (key \div 2 ^ (n - 1)) % 2 = 1 THEN AddReduce(p[1], p[2]) ELSE p[1],
                   AddReduce(p[2], p[2])>>
  IN  after[KeyBits][1]

\* poly_reduction_req() and poly_masked_reduce(): the highest limb is 3, and
\* the others are those of P or above.
Canonical(n) == IF n \div Bits4 = 3 /\ n >= P THEN n - P ELSE n

\* poly_feed_block(): the block with a bit above it, times r.
Fed(acc, block) == Canonical(Multiply(AddReduce(acc, block + Bits4), r))

Exactly(acc, block) == (((acc + block + Bits4) % P) * r) % P

-----------------------------------------------------------------------------
Init ==
  /\ r \in Keys
  /\ a \in Starts
  /\ exact = a
  /\ fed = 0

FeedBlock ==
  /\ fed < Length
  /\ \E b \in Blocks :
       /\ a' = Fed(a, b)
       /\ exact' = Exactly(exact, b)
  /\ fed' = fed + 1
  /\ UNCHANGED r

Done == fed = Length /\ UNCHANGED vars

Next == FeedBlock \/ Done

Spec == Init /\ [][Next]_vars

-----------------------------------------------------------------------------
(***************************************************************************)
(* Whatever is reduced or not on the way, the accumulator is the right     *)
(* number modulo P.                                                        *)
(***************************************************************************)
Congruent == a % P = exact

(***************************************************************************)
(* "return UINT32_MAX n is larger than (1 << 130) - 5 and 0 otherwise -    *)
(* assumes n < 2^130" (poly.c:13): the accumulator is below P after each   *)
(* block, so that its low 128 bits are those of the tag.                   *)
(***************************************************************************)
Reduced == a < P
=============================================================================
