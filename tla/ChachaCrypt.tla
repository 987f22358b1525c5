---------------------------- MODULE ChachaCrypt ----------------------------
(***************************************************************************)
(* ime_chacha_crypt (ime-rt/aead.c): a buffer is exclusive-ored with the   *)
(* ChaCha20 key stream, in place, one 64-byte block after the other, by    *)
(* one tasklet (ime_chacha_enc, ime_aead_enc, ...) or by several that pass *)
(* the same buffer and their number as stride (chacha-bench/main.c), and   *)
(* once more to decrypt it.                                                *)
(*                                                                         *)
(* The unit of data is 16 bytes, of which len is a multiple (aead.h).      *)
(* What a unit holds is the plaintext exclusive-ored with the key stream   *)
(* of some block counters: the set of these counters.                      *)
(***************************************************************************)
EXTENDS Integers

CONSTANTS
  Tasklets,  \* the tasklets that make the call
  Lengths,   \* bound: the values of len, in units
  Strides    \* bound: the values of stride

ASSUME TaskletsAssumption == Tasklets # {}
ASSUME LengthsAssumption == Lengths \subseteq Nat
ASSUME StridesAssumption == Strides \subseteq Nat \ {0}

Quarters == 0 .. 3

VARIABLES
  pc,      \* pc[t]: "loop", "write" or "done"
  i,       \* i[t]: the block of t
  tmp,     \* tmp[t]: the local copy, per quarter
  buf,     \* buf[b][k]: unit k of block b
  len,
  stride,
  pass     \* 1: encryption, 2: decryption

vars == <<pc, i, tmp, buf, len, stride, pass>>

\* (len + 63) / 64, in units.
Blocks == (len + 3) \div 4

\* The blocks of the buffer and the 64 bytes that follow.
Region == 0 .. Blocks

Inside(b, k) == 4 * b + k < len

\* The counter of block b.
Counter(b) == b + 1

Xor(A, B) == (A \ B) \cup (B \ A)

Init ==
  /\ len \in Lengths
  /\ stride \in Strides
  /\ pc = [t \in Tasklets |-> "loop"]
  /\ i = [t \in Tasklets |-> 0]
  /\ tmp = [t \in Tasklets |-> [k \in Quarters |-> {}]]
  /\ buf = [b \in Region |-> [k \in Quarters |-> {}]]
  /\ pass = 1

-----------------------------------------------------------------------------
(***************************************************************************)
(* sz: the bytes of block b, from "len - i * 16" (aead.c:66).              *)
(***************************************************************************)
Size(b) == IF len - b < 4 THEN len - b ELSE 4

\* Slip: a block more.
ReadPastEnd(t) ==
  /\ pc[t] = "loop" /\ i[t] <= Blocks
  /\ tmp' = [tmp EXCEPT ![t] =
       [k \in Quarters |-> IF k < Size(i[t]) THEN buf[i[t]][k] ELSE tmp[t][k]]]
  /\ pc' = [pc EXCEPT ![t] = "write"]
  /\ UNCHANGED <<i, buf, len, stride, pass>>

Read(t) ==
  /\ pc[t] = "loop" /\ i[t] < Blocks
  /\ tmp' = [tmp EXCEPT ![t] =
       [k \in Quarters |-> IF k < Size(i[t]) THEN buf[i[t]][k] ELSE tmp[t][k]]]
  /\ pc' = [pc EXCEPT ![t] = "write"]
  /\ UNCHANGED <<i, buf, len, stride, pass>>

\* Slip: the counter counts the blocks of this tasklet.
WriteDense(t) ==
  /\ pc[t] = "write"
  /\ buf' = [buf EXCEPT ![i[t]] =
       [k \in Quarters |-> IF k < Size(i[t]) THEN Xor(tmp[t][k], {Counter(i[t] \div stride)}) ELSE @[k]]]
  /\ i' = [i EXCEPT ![t] = @ + stride]
  /\ pc' = [pc EXCEPT ![t] = "loop"]
  /\ UNCHANGED <<tmp, len, stride, pass>>

Write(t) ==
  /\ pc[t] = "write"
  /\ buf' = [buf EXCEPT ![i[t]] =
       [k \in Quarters |-> IF k < Size(i[t]) THEN Xor(tmp[t][k], {Counter(i[t])}) ELSE @[k]]]
  /\ i' = [i EXCEPT ![t] = @ + stride]
  /\ pc' = [pc EXCEPT ![t] = "loop"]
  /\ UNCHANGED <<tmp, len, stride, pass>>

Return(t) ==
  /\ pc[t] = "loop" /\ i[t] >= Blocks
  /\ pc' = [pc EXCEPT ![t] = "done"]
  /\ UNCHANGED <<i, tmp, buf, len, stride, pass>>

\* Slip: the second call goes on where the first one ended.
DecryptTheRest ==
  /\ pass = 1
  /\ \A t \in Tasklets : pc[t] = "done"
  /\ pc' = [t \in Tasklets |-> "loop"]
  /\ pass' = 2
  /\ UNCHANGED <<i, tmp, buf, len, stride>>

\* The barrier, and the call that decrypts (chacha-bench/main.c:53-61).
Decrypt ==
  /\ pass = 1
  /\ \A t \in Tasklets : pc[t] = "done"
  /\ pc' = [t \in Tasklets |-> "loop"]
  /\ i' = [t \in Tasklets |-> 0]
  /\ pass' = 2
  /\ UNCHANGED <<tmp, buf, len, stride>>

Finished == pass = 2 /\ (\A t \in Tasklets : pc[t] = "done") /\ UNCHANGED vars

Next == (\E t \in Tasklets : Read(t) \/ Write(t) \/ Return(t)) \/ Decrypt \/ Finished

Spec == Init /\ [][Next]_vars

-----------------------------------------------------------------------------
TypeOK ==
  /\ pc \in [Tasklets -> {"loop", "write", "done"}]
  /\ i \in [Tasklets -> Nat]
  /\ tmp \in [Tasklets -> [Quarters -> SUBSET Nat]]
  /\ buf \in [Region -> [Quarters -> SUBSET Nat]]
  /\ len \in Lengths
  /\ stride \in Strides
  /\ pass \in {1, 2}

Returned == \A t \in Tasklets : pc[t] = "done"

\* The blocks that a call with this stride is for.
Covered(b) == b < Blocks /\ b % stride = 0

(***************************************************************************)
(* After encryption each covered block carries the key stream of its own   *)
(* counter, once, and nothing else has changed: the result of the call     *)
(* that aead.h documents, and no two blocks share key stream.              *)
(***************************************************************************)
Sealed ==
  pass = 1 /\ Returned =>
    \A b \in Region, k \in Quarters :
      buf[b][k] = IF Covered(b) THEN {Counter(b)} ELSE {}

\* Decryption gives the plaintext back (user-crypto/main.c:41-47).
Restored == pass = 2 /\ Returned => \A b \in Region, k \in Quarters : buf[b][k] = {}

\* aead.h: "len length of the buffer to encrypt - must be a multiple of 16",
\* so that what follows the buffer is left alone.
StaysInside ==
  \A b \in Region, k \in Quarters : ~ Inside(b, k) => buf[b][k] = {}

\* aead.h:78-79: "Continue stride 64-byte blocks after the current block (with
\* the correct counter value). This allows multiple threads to decrypt in
\* parallel": together the tasklets encrypt every block.
SealedTogether ==
  pass = 1 /\ Returned =>
    \A b \in Region, k \in Quarters : Inside(b, k) => buf[b][k] = {Counter(b)}

(***************************************************************************)
(* The inductive invariant behind Sealed and Restored, for one tasklet and *)
(* whole blocks: what lies behind the loop is in its new form, the rest in *)
(* its old one, and the copy in tmp is that of the block at hand.          *)
(***************************************************************************)
StreamInv ==
  /\ TypeOK
  /\ \A t \in Tasklets :
       /\ i[t] % stride = 0
       /\ pc[t] = "write" => i[t] < Blocks /\ \A k \in Quarters : tmp[t][k] = buf[i[t]][k]
       /\ pc[t] = "done" => i[t] >= Blocks
       /\ \A b \in Region, k \in Quarters :
            buf[b][k] = IF Covered(b) /\ (pass = 1 <=> b < i[t]) THEN {Counter(b)} ELSE {}
=============================================================================
