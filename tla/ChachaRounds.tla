---------------------------- MODULE ChachaRounds ----------------------------
(***************************************************************************)
(* The round counter of the ChaCha20 block function (core/chacha.S).       *)
(*                                                                         *)
(* No register is left for a counter, so thread 22, which computes blocks  *)
(* under the system key, counts its double rounds in the run bits 24..27   *)
(* of threads the DPU does not have.  "boot" sets a run bit, "clr_run"     *)
(* clears it, and both branch on the value it had.  A tasklet computing a  *)
(* block under a user key counts in register r16, but leaves the loop      *)
(* through the same instructions.  Every action is one instruction on the  *)
(* run bits; the eight quarter rounds are one action.                      *)
(***************************************************************************)
EXTENDS Naturals

CONSTANTS
  N,        \* tasklets of the subkernel
  Serial,   \* whether one block is computed at a time
  MaxBlocks \* bound: how many blocks are computed under the system key

ASSUME NAssumption == N \in Nat /\ N \in 1 .. 22
ASSUME SerialAssumption == Serial \in BOOLEAN
ASSUME BlocksAssumption == MaxBlocks \in Nat

Tasklets == 0 .. N-1
ChachaThread == 22
Threads == Tasklets \cup {ChachaThread}
Counter == 24 .. 27

DoubleRounds == 10

\* Bound: a pass that runs on after its tenth double round is followed up to here.
MaxRounds == DoubleRounds + 1

VARIABLES
  pc,       \* pc[t]: the instruction t is at
  runBits,  \* the members of Counter whose run bit is set
  rounds,   \* rounds[t]: double rounds of the current pass of t
  blocks    \* passes that thread 22 has ended since power-on

vars == <<pc, runBits, rounds, blocks>>

(***************************************************************************)
(* The instructions on run bits: which bit, whether it is set or cleared,  *)
(* and where to go when it was set and when it was clear.                  *)
(***************************************************************************)
Instr(bit, value, ifSet, ifClear) ==
  [bit |-> bit, value |-> value, ifSet |-> ifSet, ifClear |-> ifClear]

\* Slip: bit 27 is not set again once it was found set.
ProgramNoReset ==
  [zero24 |-> Instr(24, FALSE, "zero25", "zero25"),
   zero25 |-> Instr(25, FALSE, "zero26", "zero26"),
   zero26 |-> Instr(26, FALSE, "zero27", "zero27"),
   zero27 |-> Instr(27, FALSE, "body", "body"),
   test27 |-> Instr(27, FALSE, "lt8b", "inc24"),
   inc24  |-> Instr(24, TRUE, "carry24", "body"),
   carry24 |-> Instr(24, FALSE, "inc25", "inc25"),
   inc25  |-> Instr(25, TRUE, "carry25", "body"),
   carry25 |-> Instr(25, FALSE, "inc26", "inc26"),
   inc26  |-> Instr(26, TRUE, "carry26", "body"),
   carry26 |-> Instr(26, FALSE, "inc27", "inc27"),
   inc27  |-> Instr(27, TRUE, "body", "body"),
   lt8b   |-> Instr(24, TRUE, "exit", "body")]

Program ==
  [zero24 |-> Instr(24, FALSE, "zero25", "zero25"),
   zero25 |-> Instr(25, FALSE, "zero26", "zero26"),
   zero26 |-> Instr(26, FALSE, "zero27", "zero27"),
   zero27 |-> Instr(27, FALSE, "body", "body"),
   test27 |-> Instr(27, FALSE, "lt8a", "inc24"),
   inc24  |-> Instr(24, TRUE, "carry24", "body"),
   carry24 |-> Instr(24, FALSE, "inc25", "inc25"),
   inc25  |-> Instr(25, TRUE, "carry25", "body"),
   carry25 |-> Instr(25, FALSE, "inc26", "inc26"),
   inc26  |-> Instr(26, TRUE, "carry26", "body"),
   carry26 |-> Instr(26, FALSE, "inc27", "inc27"),
   inc27  |-> Instr(27, TRUE, "body", "body"),
   lt8a   |-> Instr(27, TRUE, "lt8b", "lt8b"),
   lt8b   |-> Instr(24, TRUE, "exit", "body")]

\* "idle": not in the block function.  "wait": tasklet 0 polls word 60 of
\* the thread I/O area until thread 22 clears it.  "exit": the state is added.
Locations == DOMAIN Program \cup {"idle", "wait", "body", "exit"}

Init ==
  /\ pc = [t \in Threads |-> "idle"]
  /\ runBits \in SUBSET Counter
  /\ rounds = [t \in Threads |-> 0]
  /\ blocks = 0

Free == Serial => \A t \in Threads : pc[t] = "idle"

-----------------------------------------------------------------------------
\* ime_chacha_blk(NULL, ...): tasklet 0 boots thread 22 and waits for it.
CallSystemKey ==
  /\ pc[0] = "idle" /\ pc[ChachaThread] = "idle"
  /\ blocks < MaxBlocks
  /\ Free
  /\ pc' = [pc EXCEPT ![0] = "wait", ![ChachaThread] = "zero24"]
  /\ rounds' = [rounds EXCEPT ![ChachaThread] = 0]
  /\ UNCHANGED <<runBits, blocks>>

\* ime_chacha_blk(key, ...).  The trusted loader has decrypted a subkernel
\* under the system key before any caller with a key of its own exists.
CallUserKey(t) ==
  /\ pc[t] = "idle"
  /\ blocks > 0
  /\ Free
  /\ pc' = [pc EXCEPT ![t] = "body"]
  /\ rounds' = [rounds EXCEPT ![t] = 0]
  /\ UNCHANGED <<runBits, blocks>>

\* Slip: the user key pass leaves one double round early.
BodyShort(t) ==
  /\ pc[t] = "body"
  /\ rounds[t] < MaxRounds
  /\ rounds' = [rounds EXCEPT ![t] = @ + 1]
  /\ pc' = [pc EXCEPT ![t] =
       IF t # ChachaThread /\ rounds[t] + 1 # DoubleRounds - 1 THEN "body" ELSE "test27"]
  /\ UNCHANGED <<runBits, blocks>>

\* The quarter rounds and, for a tasklet, "sub r16, r16, 1, nz": r16 starts
\* at 10, so it is 0 after the tenth double round and only then.
Body(t) ==
  /\ pc[t] = "body"
  /\ rounds[t] < MaxRounds
  /\ rounds' = [rounds EXCEPT ![t] = @ + 1]
  /\ pc' = [pc EXCEPT ![t] =
       IF t # ChachaThread /\ rounds[t] + 1 # DoubleRounds THEN "body" ELSE "test27"]
  /\ UNCHANGED <<runBits, blocks>>

Execute(t) ==
  /\ pc[t] \in DOMAIN Program
  /\ LET instr == Program[pc[t]]
     IN  /\ runBits' = IF instr.value THEN runBits \cup {instr.bit} ELSE runBits \ {instr.bit}
         /\ pc' = [pc EXCEPT ![t] = IF instr.bit \in runBits THEN instr.ifSet ELSE instr.ifClear]
  /\ UNCHANGED <<rounds, blocks>>

\* Slip: thread 22 stops without clearing the word tasklet 0 polls.
EndSystemKeySilent ==
  /\ pc[ChachaThread] = "exit"
  /\ pc' = [pc EXCEPT ![ChachaThread] = "idle"]
  /\ blocks' = blocks + 1
  /\ UNCHANGED <<runBits, rounds>>

\* ime_chacha_thread_end: the flag is cleared, thread 22 stops.
EndSystemKey ==
  /\ pc[ChachaThread] = "exit"
  /\ pc' = [pc EXCEPT ![ChachaThread] = "idle", ![0] = "idle"]
  /\ blocks' = blocks + 1
  /\ UNCHANGED <<runBits, rounds>>

EndUserKey(t) ==
  /\ pc[t] = "exit"
  /\ pc' = [pc EXCEPT ![t] = "idle"]
  /\ UNCHANGED <<runBits, rounds, blocks>>

-----------------------------------------------------------------------------
Compute(t) == Body(t) \/ Execute(t)

Next ==
  \/ CallSystemKey \/ EndSystemKey
  \/ \E t \in Tasklets : CallUserKey(t) \/ EndUserKey(t)
  \/ \E t \in Threads : Compute(t)

Spec == Init /\ [][Next]_vars

\* A thread that is in the block function keeps issuing instructions.
FairSpec ==
  /\ Spec
  /\ WF_vars(EndSystemKey)
  /\ \A t \in Threads : WF_vars(Compute(t))
  /\ \A t \in Tasklets : WF_vars(EndUserKey(t))

-----------------------------------------------------------------------------
TypeOK ==
  /\ pc \in [Threads -> Locations]
  /\ runBits \subseteq Counter
  /\ rounds \in [Threads -> 0..MaxRounds]
  /\ blocks \in Nat

(***************************************************************************)
(* A block is the ChaCha20 block only if the pass did ten double rounds,   *)
(* no more and no fewer.  When blocks are computed one at a time this      *)
(* holds; ime-rt/aead.h:75-79 promises it for tasklets in parallel.        *)
(***************************************************************************)
TenRounds ==
  \A t \in Threads :
    /\ rounds[t] <= DoubleRounds
    /\ pc[t] = "exit" => rounds[t] = DoubleRounds

(***************************************************************************)
(* The inductive invariant of the serial case: the run bits hold the       *)
(* binary value of the rounds thread 22 has counted, and between passes    *)
(* the value 9, which is what lets a user key pass leave the loop.         *)
(***************************************************************************)
Value ==
  (IF 24 \in runBits THEN 1 ELSE 0) + (IF 25 \in runBits THEN 2 ELSE 0)
  + (IF 26 \in runBits THEN 4 ELSE 0) + (IF 27 \in runBits THEN 8 ELSE 0)

CountOK(t) ==
  LET at == pc[t]
      k == rounds[t]
  IN  /\ at = "zero25" => 24 \notin runBits
      /\ at = "zero26" => runBits \cap {24, 25} = {}
      /\ at = "zero27" => runBits \cap {24, 25, 26} = {}
      /\ at \in {"zero24", "zero25", "zero26", "zero27"} => k = 0
      /\ at = "body" => k < DoubleRounds /\ Value = k
      /\ at = "test27" => k \in 1..DoubleRounds /\ Value = k - 1
      /\ at = "inc24" => k \in 1..8 /\ Value = k - 1
      /\ at = "carry24" => k \in {2, 4, 6, 8} /\ Value = k - 1
      /\ at = "inc25" => k \in {2, 4, 6, 8} /\ Value = k - 2
      /\ at = "carry25" => k \in {4, 8} /\ Value = k - 2
      /\ at = "inc26" => k \in {4, 8} /\ Value = k - 4
      /\ at = "carry26" => k = 8 /\ Value = 4
      /\ at = "inc27" => k = 8 /\ Value = 0
      /\ at = "lt8a" => k \in {9, 10} /\ Value = k - 9
      /\ at = "lt8b" => k \in {9, 10} /\ Value = k - 1
      /\ at = "exit" => k = DoubleRounds /\ Value = 9

UserCountOK(t) ==
  LET at == pc[t]
      k == rounds[t]
  IN  /\ at \in {"idle", "body", "test27", "lt8a", "lt8b", "exit"} \cup (IF t = 0 THEN {"wait"} ELSE {})
      /\ at = "body" => k < DoubleRounds /\ Value = 9
      /\ at = "test27" => k = DoubleRounds /\ Value = 9
      /\ at = "lt8a" => k = DoubleRounds /\ Value = 1
      /\ at = "lt8b" => k = DoubleRounds /\ Value = 9
      /\ at = "exit" => k = DoubleRounds /\ Value = 9

\* One pass at a time; tasklet 0 waits exactly while thread 22 computes.
OnePass ==
  /\ \A s, t \in Threads : pc[s] # "idle" /\ pc[t] # "idle" /\ s # t => {s, t} = {0, ChachaThread}
  /\ pc[0] = "wait" <=> pc[ChachaThread] # "idle"

SerialInv ==
  Serial =>
    /\ OnePass
    /\ CountOK(ChachaThread)
    /\ pc[ChachaThread] # "wait"
    /\ \A t \in Tasklets : UserCountOK(t)
    /\ (blocks > 0 /\ \A t \in Threads : pc[t] = "idle") => Value = 9
    /\ (\E t \in Tasklets : pc[t] \notin {"idle", "wait"}) => blocks > 0
    /\ \A t \in Threads : rounds[t] <= DoubleRounds

RoundInv == TypeOK /\ SerialInv

\* A block that is asked for is delivered.
EveryCallReturns ==
  \A t \in Tasklets : pc[t] # "idle" ~> pc[t] = "idle"
=============================================================================
