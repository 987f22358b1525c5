---------------------------- MODULE UniqueRounds ----------------------------
(***************************************************************************)
(* UNI/main.c: an element is kept unless it equals the one before it.      *)
(* Every tasklet does this for its block of a round; what its first        *)
(* element must be compared with, and where its elements go, comes from    *)
(* the tasklet before it through handshake_sync_uni(), and from round to   *)
(* round through message_last_from_last and message_partial_count.         *)
(*                                                                         *)
(* mybarrier_wait() is one step of all tasklets (module SenseBarrier); the *)
(* four arrays of a message are written before its stamp, and read after   *)
(* it, so a message is one value and its stamp (PrefixSelect takes the     *)
(* order of a handshake's steps apart).                                    *)
(***************************************************************************)
EXTENDS Integers, Sequences

CONSTANTS
  N,        \* NR_TASKLETS
  Rounds,   \* blocks of a tasklet; the size is a multiple of BLOCK_SIZE * NR_TASKLETS
  Contents, \* what a block may hold: sequences of one length, REGS
  Sentinel  \* 0xFFFFFFFF, "a value that is not in the input array"

Sized ==
  /\ N \in Nat \ {0} /\ Rounds \in Nat \ {0} /\ Sentinel \in Nat
  /\ Contents \subseteq Seq(Nat)
  /\ \A s \in Contents : s # <<>> /\ \A x \in 1 .. Len(s) : s[x] # Sentinel

Tasklets == 0 .. N - 1
LastTasklet == N - 1

VARIABLES
  pc,       \* pc[t]
  round,    \* the round, from 1
  input,    \* the blocks of the input, in order
  gEpoch,   \* g_epoch
  box,      \* box[t]: msg_count, msg_last, msg_off and msg_epoch
  cache,    \* cache[t]: the l_count elements in cache_B
  po,       \* po[t]: p_count, o_count and offset
  partial,  \* message_partial_count
  last,     \* message_last_from_last
  output,   \* what has been written: a function on offsets
  total,    \* the count in the log
  overtaken \* history: blocks of tasklets that read the sum after it was replaced

vars == <<pc, round, input, gEpoch, box, cache, po, partial, last, output, total, overtaken>>

BlockOf(r, t) == (r - 1) * N + t + 1
RoundStart(t) == IF t = 0 THEN "bump" ELSE "barrier1"

LastOf(s) == s[Len(s)]

\* unique(): equal neighbours of a block are kept once.  First those of the
\* first n elements.
UniqueTo(s, n) ==
  LET kept[k \in 0 .. n] ==
        IF k = 0 THEN <<>>
        ELSE IF k > 1 /\ s[k - 1] = s[k] THEN kept[k - 1] ELSE Append(kept[k - 1], s[k])
  IN  kept[n]

Unique(s) == UniqueTo(s, Len(s))

Init ==
  /\ pc = [t \in Tasklets |-> RoundStart(t)]
  /\ round = 1
  /\ input \in [1 .. N * Rounds -> Contents]
  /\ gEpoch = 1
  /\ box = [t \in Tasklets |-> [count |-> 0, last |-> 0, off |-> 0, epoch |-> 0]]
  /\ cache = [t \in Tasklets |-> <<>>]
  /\ po = [t \in Tasklets |-> [count |-> 0, off |-> 0, same |-> 0]]
  /\ partial = 0
  /\ last = Sentinel
  /\ output = <<>>
  /\ total = -1
  /\ overtaken = {}

Goto(t, l) == pc' = [pc EXCEPT ![t] = l]

Barrier(at, next) ==
  /\ \A t \in Tasklets : pc[t] = at
  /\ pc' = [t \in Tasklets |-> next[t]]

-----------------------------------------------------------------------------
Bump ==
  /\ pc[0] = "bump"
  /\ gEpoch' = gEpoch + 1
  /\ Goto(0, "barrier1")
  /\ UNCHANGED <<round, input, box, cache, po, partial, last, output, total, overtaken>>

BeforeBlock ==
  /\ Barrier("barrier1", [t \in Tasklets |-> "unique"])
  /\ UNCHANGED <<round, input, gEpoch, box, cache, po, partial, last, output, total, overtaken>>

Kept(t) ==
  /\ pc[t] = "unique"
  /\ cache' = [cache EXCEPT ![t] = Unique(input[BlockOf(round, t)])]
  /\ Goto(t, "receive")
  /\ UNCHANGED <<round, input, gEpoch, box, po, partial, last, output, total, overtaken>>

\* The message of the neighbour; tasklet 0 compares with the round before.
Receive(t) ==
  /\ pc[t] = "receive"
  /\ t # 0 => box[t].epoch = gEpoch
  /\ po' = [po EXCEPT ![t] =
       IF t = 0
       THEN [count |-> 0, off |-> 0, same |-> IF last = cache[0][1] THEN 1 ELSE 0]
       ELSE [count |-> box[t].count, off |-> box[t].off,
             same |-> IF box[t].last = cache[t][1] THEN 1 ELSE 0]]
  /\ Goto(t, IF t = LastTasklet THEN "write" ELSE "send")
  /\ UNCHANGED <<round, input, gEpoch, box, cache, partial, last, output, total, overtaken>>

\* Slip: the element that is not written is not passed on.
OffOldOnly(t) == po[t].off

\* o_count + offset, for the neighbour.
Off(t) == po[t].off + po[t].same

StampFor(t) == gEpoch

Send(t) ==
  /\ pc[t] = "send"
  /\ box' = [box EXCEPT ![t + 1] =
       [count |-> po[t].count + Len(cache[t]), last |-> LastOf(cache[t]),
        off |-> Off(t), epoch |-> StampFor(t)]]
  /\ Goto(t, "write")
  /\ UNCHANGED <<round, input, gEpoch, cache, po, partial, last, output, total, overtaken>>

Offset(t) == partial + po[t].count - po[t].off

\* The block without its first element if that is the last one before it.
Write(t) ==
  /\ pc[t] = "write"
  /\ output' = [o \in DOMAIN output \cup Offset(t) .. Offset(t) + Len(cache[t]) - po[t].same - 1 |->
       IF o >= Offset(t) /\ o < Offset(t) + Len(cache[t]) - po[t].same
       THEN cache[t][o - Offset(t) + po[t].same + 1] ELSE output[o]]
  /\ Goto(t, IF t = LastTasklet THEN "update" ELSE "barrier2")
  /\ UNCHANGED <<round, input, gEpoch, box, cache, po, partial, last, total, overtaken>>

\* No barrier keeps this behind the reads of partial in Write.
Update ==
  /\ pc[LastTasklet] = "update"
  /\ last' = LastOf(cache[LastTasklet])
  /\ partial' = partial + po[LastTasklet].count + Len(cache[LastTasklet]) - Off(LastTasklet)
  /\ overtaken' = overtaken \cup {BlockOf(round, t) : t \in {u \in Tasklets : pc[u] = "write"}}
  /\ Goto(LastTasklet, "barrier2")
  /\ UNCHANGED <<round, input, gEpoch, box, cache, po, output, total>>

AfterBlock ==
  /\ Barrier("barrier2", [t \in Tasklets |-> IF round < Rounds THEN RoundStart(t) ELSE "report"])
  /\ round' = IF round < Rounds THEN round + 1 ELSE round
  /\ UNCHANGED <<input, gEpoch, box, cache, po, partial, last, output, total, overtaken>>

\* One more barrier, and tasklet 0 writes the count into the log.
Report ==
  /\ Barrier("report", [t \in Tasklets |-> "end"])
  /\ total' = partial
  /\ UNCHANGED <<round, input, gEpoch, box, cache, po, partial, last, output, overtaken>>

-----------------------------------------------------------------------------
Tasklet(t) == Kept(t) \/ Receive(t) \/ Send(t) \/ Write(t)

Together == Bump \/ BeforeBlock \/ Update \/ AfterBlock \/ Report

Ended == \A t \in Tasklets : pc[t] = "end"

Next == Together \/ (\E t \in Tasklets : Tasklet(t)) \/ (Ended /\ UNCHANGED vars)

FairSpec == Init /\ [][Next]_vars /\ WF_vars(Together) /\ \A t \in Tasklets : WF_vars(Tasklet(t))

-----------------------------------------------------------------------------
FlatTo(n) ==
  LET flat[k \in 0 .. n] == IF k = 0 THEN <<>> ELSE flat[k - 1] \o input[k]
  IN  flat[n]

Flat == FlatTo(N * Rounds)

\* The input up to block k with equal neighbours kept once, as if one tasklet
\* had done it all, and where what block k adds to that belongs.
Result(k) == Unique(FlatTo(k))
Size(k) == Len(Result(k))
Places(k) == Size(k - 1) .. Size(k) - 1

(***************************************************************************)
(* In the end the log has the size of the result, and the elements of      *)
(* every block are in their places, but for the blocks of tasklets that    *)
(* were overtaken; these harm no other.  If there are none, the output is  *)
(* the result.                                                             *)
(***************************************************************************)
NeighboursDropped ==
  Ended =>
    /\ total = Len(Unique(Flat))
    /\ \A k \in 1 .. N * Rounds : k \notin overtaken =>
         \A o \in Places(k) : o \in DOMAIN output /\ output[o] = Unique(Flat)[o + 1]
    /\ overtaken = {} => DOMAIN output = 0 .. total - 1

-----------------------------------------------------------------------------
(***************************************************************************)
(* The inductive invariant: after k blocks the output is Result(k), and    *)
(* the messages of a round tell each tasklet how much of it lies before    *)
(* its block.                                                              *)
(***************************************************************************)
Same(k) == IF k > 1 /\ LastOf(input[k - 1]) = input[k][1] THEN 1 ELSE 0

Locations == {"bump", "barrier1", "unique", "receive", "send", "write", "update", "barrier2",
              "report", "end"}

TypeOK ==
  /\ pc \in [Tasklets -> Locations]
  /\ round \in 1 .. Rounds /\ gEpoch \in Nat /\ partial \in Int /\ last \in Nat
  /\ input \in [1 .. N * Rounds -> Contents]
  /\ box \in [Tasklets -> [count : Int, last : Nat, off : Int, epoch : Nat]]
  /\ cache \in [Tasklets -> Seq(Nat)]
  /\ po \in [Tasklets -> [count : Int, off : Int, same : {0, 1}]]

\* The blocks before this round, and the block of t in it.
Base == (round - 1) * N
Own(t) == BlockOf(round, t)

Written ==
  1 .. Base \cup {Own(t) : t \in {u \in Tasklets : pc[u] \in {"update", "barrier2", "report", "end"}}}

OutputOK ==
  /\ \A k \in Written \ overtaken : \A o \in Places(k) :
       o \in DOMAIN output /\ output[o] = Unique(Flat)[o + 1]
  /\ overtaken = {} => DOMAIN output = UNION {Places(k) : k \in Written}

SoFar(k) == partial = Size(k) /\ last = IF k = 0 THEN Sentinel ELSE LastOf(input[k])

Sent(t) == pc[t] \in {"write", "barrier2"}

\* What t knows of the blocks before its own, and what its box says of them.
KnowsOK(t) ==
  /\ pc[t] # "unique" => cache[t] = Unique(input[Own(t)])
  /\ pc[t] = "send" => t # LastTasklet
  /\ pc[t] \in {"send", "write", "update", "barrier2"} =>
       /\ \A u \in Tasklets : u < t => Sent(u)
       /\ po[t].count - po[t].off = Size(Own(t) - 1) - Size(Base)
       /\ po[t].same = Same(Own(t))

BoxOK(t) ==
  IF Sent(t - 1)
  THEN /\ box[t].epoch = round + 1
       /\ box[t].count - box[t].off = Size(Own(t) - 1) - Size(Base)
       /\ box[t].last = LastOf(input[Own(t) - 1])
  ELSE box[t].epoch <= round

Starting ==
  /\ \A t \in Tasklets : pc[t] = "barrier1" \/ (t = 0 /\ pc[t] = "bump")
  /\ gEpoch = IF pc[0] = "bump" THEN round ELSE round + 1
  /\ \A t \in Tasklets \ {0} : box[t].epoch <= round
  /\ SoFar(Base)

Running ==
  /\ \A t \in Tasklets :
       \/ pc[t] \in {"unique", "receive", "send", "write", "barrier2"}
       \/ t = LastTasklet /\ pc[t] = "update"
  /\ gEpoch = round + 1
  /\ \A t \in Tasklets : KnowsOK(t) /\ (t # 0 => BoxOK(t))
  /\ IF pc[LastTasklet] = "barrier2"
     THEN SoFar(Base + N) /\ \A t \in Tasklets : pc[t] = "write" => Own(t) \in overtaken
     ELSE SoFar(Base)

Closing ==
  /\ round = Rounds
  /\ \/ (\A t \in Tasklets : pc[t] = "report") /\ SoFar(N * Rounds)
     \/ (\A t \in Tasklets : pc[t] = "end") /\ total = Size(N * Rounds)

UniqueInv == TypeOK /\ OutputOK /\ (Starting \/ Running \/ Closing)
=============================================================================
