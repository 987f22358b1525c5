------------------------------- MODULE Counter ------------------------------
(***************************************************************************)
(* Where the IVs come from: the counter in the registers of thread 23,     *)
(* which only the loader's own code can read (core/core.s).  Thread 0      *)
(* boots thread 23 and polls a word; thread 23 adds one to the counter,    *)
(* stores its four words and clears the word that is polled.  The runtime  *)
(* takes the first three words as the IV (ime-rt/aead.c).  The lower half  *)
(* of the first word is the DPU's index and a 1 (fsl/main.c).              *)
(*                                                                         *)
(* Step is 2 ^ 16 in the code, where a word has 32 bits.                   *)
(***************************************************************************)
EXTENDS Integers, Sequences

CONSTANTS
  Step,    \* what is added: the values of half a word
  D,       \* DPUs of a session
  Calls,   \* calls of a DPU
  Starts   \* what a long session has made of the counter: upper half, then three words

Dpus == 0 .. D - 1
Word == Step * Step

(***************************************************************************)
(* What the proofs ask: the index of a DPU fits into half a word less the  *)
(* lowest bit, and a DPU makes at most Step ^ 5 calls, 2 ^ 80.  (The fault *)
(* of core.s:78 comes after Step ^ 7.)                                     *)
(***************************************************************************)
Sized ==
  /\ Step \in Nat \ {0} /\ Step % 2 = 0 /\ D \in 0 .. Step \div 2
  /\ Calls \in 0 .. Word * Word * Step
  /\ Starts \subseteq (0 .. Step - 1) \X (0 .. Word - 1) \X (0 .. Word - 1) \X (0 .. Word - 1)

VARIABLES
  pc,      \* pc[d]: thread 0
  thread,  \* thread[d]: thread 23
  r,       \* r[d]: r0 .. r3 of thread 23
  io,      \* io[d]: the first four words at __ime_threadio_start
  flag,    \* flag[d]: the word at 60
  issued   \* history: the IVs of d, in order

vars == <<pc, thread, r, io, flag, issued>>

\* ((dpu_index << 1) & 0xFFFE) | 1.
LowerHalf(d) == ((2 * d) % Step) + 1

\* After the first stage, and some calls.
Init ==
  /\ \E s \in Starts : r = [d \in Dpus |-> <<s[1] * Step + LowerHalf(d), s[2], s[3], s[4]>>]
  /\ pc = [d \in Dpus |-> "app"]
  /\ thread = [d \in Dpus |-> "off"]
  /\ io = [d \in Dpus |-> <<0, 0, 0, 0>>]
  /\ flag = [d \in Dpus |-> FALSE]
  /\ issued = [d \in Dpus |-> <<>>]

-----------------------------------------------------------------------------
(* core_on_counter, on thread 0. *)

Raise(d) ==
  /\ pc[d] = "app" /\ Len(issued[d]) < Calls
  /\ flag' = [flag EXCEPT ![d] = TRUE]
  /\ pc' = [pc EXCEPT ![d] = "boot"]
  /\ UNCHANGED <<thread, r, io, issued>>

\* Thread 23 has one instruction left when it clears the flag: it has stopped
\* by the time of the next call, some twenty instructions later.
Boot(d) ==
  /\ pc[d] = "boot" /\ thread[d] = "off"
  /\ thread' = [thread EXCEPT ![d] = "add"]
  /\ pc' = [pc EXCEPT ![d] = "poll"]
  /\ UNCHANGED <<r, io, flag, issued>>

\* The words are read when the flag is clear.
Take(d) ==
  /\ pc[d] = "poll" /\ ~ flag[d]
  /\ issued' = [issued EXCEPT ![d] = Append(@, [n \in 1 .. 3 |-> io[d][n]])]
  /\ pc' = [pc EXCEPT ![d] = IF Len(issued[d]) + 1 < Calls THEN "app" ELSE "end"]
  /\ UNCHANGED <<thread, r, io, flag>>

-----------------------------------------------------------------------------
(* core_on_ctr_thread, on thread 23. *)

\* add, addc, addc, addc: what is added to word n.
Addend(c, n) ==
  IF n = 1 THEN Step
  ELSE IF c[1] + Step >= Word /\ \A m \in 2 .. n - 1 : c[m] = Word - 1 THEN 1 ELSE 0

\* The sum, and the carry at the end.
Sum(c) ==
  [words |-> [n \in 1 .. 4 |-> (c[n] + Addend(c, n)) % Word],
   carry |-> c[4] + Addend(c, 4) >= Word]

Add(d) ==
  /\ thread[d] = "add"
  /\ r' = [r EXCEPT ![d] = Sum(@).words]
  /\ IF Sum(r[d]).carry
     THEN thread' = [thread EXCEPT ![d] = "fault"] /\ pc' = [pc EXCEPT ![d] = "fault"]
     ELSE thread' = [thread EXCEPT ![d] = "store"] /\ UNCHANGED pc
  /\ UNCHANGED <<io, flag, issued>>

\* Slip: the flag is cleared with the first words.
FlagAfterEarly(d, n) == flag[d] /\ n < 2

\* What the flag is after word n is stored.
FlagAfter(d, n) == flag[d]

\* The words in order; one that does not change needs no step.
Store(d) ==
  /\ thread[d] = "store"
  /\ \E n \in 1 .. 4 :
       /\ io[d][n] # r[d][n] /\ \A m \in 1 .. n - 1 : io[d][m] = r[d][m]
       /\ io' = [io EXCEPT ![d][n] = r[d][n]]
       /\ flag' = [flag EXCEPT ![d] = FlagAfter(d, n)]
  /\ UNCHANGED <<pc, thread, r, issued>>

\* Slip: the flag stays.
LowerNothing(d) == flag[d]

Lowered(d) == FALSE

Lower(d) ==
  /\ thread[d] = "store" /\ io[d] = r[d]
  /\ flag' = [flag EXCEPT ![d] = Lowered(d)]
  /\ thread' = [thread EXCEPT ![d] = "stop"]
  /\ UNCHANGED <<pc, r, io, issued>>

Stop(d) ==
  /\ thread[d] = "stop"
  /\ thread' = [thread EXCEPT ![d] = "off"]
  /\ UNCHANGED <<pc, r, io, flag, issued>>

-----------------------------------------------------------------------------
Dpu(d) == Raise(d) \/ Boot(d) \/ Take(d) \/ Add(d) \/ Store(d) \/ Lower(d) \/ Stop(d)

Ended == \A d \in Dpus : pc[d] \in {"end", "fault"}

Next == (\E d \in Dpus : Dpu(d)) \/ (Ended /\ UNCHANGED vars)

Spec == Init /\ [][Next]_vars

FairSpec == Spec /\ \A d \in Dpus : WF_vars(Dpu(d))

-----------------------------------------------------------------------------
(***************************************************************************)
(* No two calls, of one DPU or of two, give the same IV, and none gives    *)
(* one that a guest may choose, which is even in its first word.           *)
(***************************************************************************)
IVsAreDistinct ==
  \A d, e \in Dpus : \A x \in 1 .. Len(issued[d]) :
    /\ issued[d][x][1] % 2 = 1
    /\ \A y \in 1 .. Len(issued[e]) : issued[d][x] = issued[e][y] => d = e /\ x = y

(***************************************************************************)
(* The inductive invariant: the three words of an IV are the digits of a   *)
(* number that grows by Step with every call, modulo Limit; the lower half *)
(* of the first one never changes.                                         *)
(***************************************************************************)
Words == 0 .. Word - 1
Limit == Word * Word * Word

\* The number that the first three words of c stand for.
Value(c) == c[1] + Word * c[2] + Word * Word * c[3]

\* a is b, which is below 2 * Limit, reduced modulo Limit.
Reduces(a, b) == a = b \/ a = b - Limit

TypeOK ==
  /\ pc \in [Dpus -> {"app", "boot", "poll", "end", "fault"}]
  /\ thread \in [Dpus -> {"off", "add", "store", "stop", "fault"}]
  /\ r \in [Dpus -> [1 .. 4 -> Words]]
  /\ io \in [Dpus -> [1 .. 4 -> Words]]
  /\ flag \in [Dpus -> BOOLEAN]
  /\ issued \in [Dpus -> Seq([1 .. 3 -> Words])]

\* Thread 23 has added for a call that has not taken the words yet.
Fresh(d) == pc[d] = "poll" /\ thread[d] # "add"

Additions(d) == Len(issued[d]) + IF Fresh(d) THEN 1 ELSE 0

\* Thread 0 waits while thread 23 adds and stores, and finds the flag down only
\* after the last word.
ControlOK(d) ==
  /\ thread[d] \in {"add", "store"} => pc[d] = "poll" /\ flag[d]
  /\ pc[d] = "boot" => flag[d]
  /\ pc[d] = "poll" /\ ~ flag[d] => thread[d] \in {"stop", "off"}
  /\ pc[d] = "poll" /\ thread[d] \in {"stop", "off"} => io[d] = r[d]
  /\ thread[d] = "fault" => pc[d] = "fault"
  /\ Len(issued[d]) <= Calls
  /\ pc[d] \in {"boot", "poll"} => Len(issued[d]) < Calls

\* The lower half of a first word is that of the DPU.
Index(w, d) == \E q \in 0 .. Step - 1 : w = q * Step + LowerHalf(d)

IndexOK(d) ==
  /\ Index(r[d][1], d)
  /\ \A x \in 1 .. Len(issued[d]) : Index(issued[d][x][1], d)

\* The counter has been raised once for every call.
CountOK(d) ==
  \E v \in 0 .. Limit - 1 :
    /\ pc[d] # "fault" => Reduces(Value(r[d]), v + Additions(d) * Step)
    /\ \A x \in 1 .. Len(issued[d]) : Reduces(Value(issued[d][x]), v + x * Step)

CounterInv == TypeOK /\ \A d \in Dpus : ControlOK(d) /\ IndexOK(d) /\ CountOK(d)
=============================================================================
