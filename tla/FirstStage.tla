----------------------------- MODULE FirstStage -----------------------------
(***************************************************************************)
(* The first-stage loader, fsl/main.c and boot.S: it seals the images of   *)
(* the key exchange and message subkernels under the system key it has     *)
(* generated, hands key and counter to threads 22 and 23, which keep them  *)
(* in their registers, and replaces itself by the loader.                  *)
(*                                                                         *)
(* A tag is the list of what it authenticates: 16-byte blocks by their     *)
(* number in the image, "magic" and "zero" for the two that stand for its  *)
(* first two, whose tag and IV are not authenticated, and two lengths.     *)
(***************************************************************************)
EXTENDS Integers, Sequences

CONSTANTS
  Chunk,   \* blocks in 2048 bytes
  Pages    \* how many 2048-byte pages of text and data an image may have

\* What the proofs ask: a chunk has blocks, an image a whole number of pages.
Sized == Chunk \in Nat \ {0} /\ Pages \subseteq Nat

Images == 1 .. 4  \* three of the key exchange, the message subkernel
Keepers == {22, 23}

VARIABLES
  pc,    \* thread 0
  size,  \* size[k]: blocks of image k; built with "auth", its size_aad is the same
  tag,   \* the tags of the images sealed so far
  run,   \* run[t]: the run bit of thread t
  reg    \* reg[t]: what the registers of t hold

vars == <<pc, size, tag, run, reg>>

Header == 4
Nothing == "nothing"
Secret(t) == IF t = 22 THEN "key" ELSE "index"

\* sk.py pads text and data to pages.
Init ==
  /\ pc = "seal"
  /\ size \in [Images -> {Header + Chunk * p : p \in Pages}]
  /\ tag = <<>>
  /\ run = [t \in Keepers |-> FALSE]
  /\ reg = [t \in Keepers |-> Nothing]

-----------------------------------------------------------------------------
Blocks(from, to) == [x \in 1 .. to - from |-> from + x - 1]

\* Slip: the loop ends before the last chunk.
ChunksShort(from, to) == (to - from - 1) \div Chunk

\* How often i + sizeof(buffer) <= to.
Chunks(from, to) == (to - from) \div Chunk

\* What enc_sk() feeds: the 64 bytes of the header, then whole chunks up to
\* size_aad; from there to the size there is nothing left to encrypt.
Sealed(blocks) ==
  LET aad == Header + Chunks(Header, blocks) * Chunk
  IN  <<"magic", "zero">> \o Blocks(2, Header) \o Blocks(Header, aad) \o <<aad, 0>>

\* What ime_decrypt_verify() of the loader feeds: 16 bytes at a time.
Verified(blocks) ==
  <<"magic", "zero">> \o Blocks(2, blocks) \o <<blocks, 0>>

Seal ==
  /\ pc = "seal" /\ Len(tag) < Len(size)
  /\ tag' = Append(tag, Sealed(size[Len(tag) + 1]))
  /\ UNCHANGED <<pc, size, run, reg>>

\* boot of both threads, in install_keys().
BootKeepers ==
  /\ pc = "seal" /\ Len(tag) = Len(size)
  /\ run' = [t \in Keepers |-> TRUE]
  /\ pc' = "delay"
  /\ UNCHANGED <<size, tag, reg>>

\* Thread t loads its registers and stops.
Load(t) ==
  /\ run[t] /\ reg[t] = Nothing
  /\ reg' = [reg EXCEPT ![t] = Secret(t)]
  /\ UNCHANGED <<pc, size, tag, run>>

Stop(t) ==
  /\ run[t] /\ reg[t] # Nothing
  /\ run' = [run EXCEPT ![t] = FALSE]
  /\ UNCHANGED <<pc, size, tag, reg>>

\* The delay loop may be too short for what it waits for.
Delay ==
  /\ pc = "delay"
  /\ pc' = "check"
  /\ UNCHANGED <<size, tag, run, reg>>

\* Slip: the run bits are cleared, but not looked at.
StillRunNothing == {}

\* The threads for which clr_run finds the bit set.
StillRun == {t \in Keepers : run[t]}

\* clr_run of both threads: a bit that was set is a fault.
Check ==
  /\ pc = "check"
  /\ run' = [t \in Keepers |-> FALSE]
  /\ pc' = IF StillRun # {} THEN "fault" ELSE "replaced"
  /\ UNCHANGED <<size, tag, reg>>

-----------------------------------------------------------------------------
Ended == pc \in {"replaced", "fault"} /\ \A t \in Keepers : ~ run[t]

Next ==
  \/ Seal \/ BootKeepers \/ Delay \/ Check
  \/ \E t \in Keepers : Load(t) \/ Stop(t)
  \/ Ended /\ UNCHANGED vars

Spec == Init /\ [][Next]_vars

-----------------------------------------------------------------------------
(***************************************************************************)
(* When the loader takes over, it accepts every image, and the key and the *)
(* index of the counter are where it looks for them.                       *)
(***************************************************************************)
ImagesAccepted ==
  pc = "replaced" => \A k \in Images : tag[k] = Verified(size[k])

SecretsInPlace ==
  pc = "replaced" => \A t \in Keepers : reg[t] = Secret(t) /\ ~ run[t]

(***************************************************************************)
(* The inductive invariant: a tag made so far is one that the loader will  *)
(* compute again, and a thread that has stopped has what it was booted for.*)
(***************************************************************************)
Symbols == Int \cup {"magic", "zero"}

SealOK ==
  /\ size \in [Images -> {Header + Chunk * p : p \in Pages}]
  /\ tag \in Seq(Seq(Symbols))
  /\ Len(tag) <= 4 /\ (pc # "seal" => Len(tag) = 4)
  /\ \A k \in 1 .. Len(tag) : tag[k] = Verified(size[k])

KeeperOK ==
  /\ pc \in {"seal", "delay", "check", "replaced", "fault"}
  /\ run \in [Keepers -> BOOLEAN]
  /\ \A t \in Keepers : reg[t] \in {Nothing, Secret(t)}
  /\ reg = [t \in Keepers |-> reg[t]]
  /\ pc \in {"delay", "check"} => \A t \in Keepers : run[t] \/ reg[t] = Secret(t)
  /\ pc = "seal" => \A t \in Keepers : ~ run[t] /\ reg[t] = Nothing

StageInv == SealOK /\ KeeperOK /\ SecretsInPlace
=============================================================================
