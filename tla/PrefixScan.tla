----------------------------- MODULE PrefixScan -----------------------------
(***************************************************************************)
(* The two prefix sums over all DPUs.  SCAN-SSA scans on every DPU         *)
(* (kernel 1), the host adds up the totals, and kernel 2 adds what lies    *)
(* before a DPU to its result.  SCAN-RSS reduces first (kernel 1) and then *)
(* scans from what lies before (kernel 2).  Both scan in rounds of a block *)
(* per tasklet with handshake_sync(), whose steps module PrefixSelect      *)
(* takes apart; here a call of it is one step.                             *)
(*                                                                         *)
(* A sum is a bag of blocks: how often the elements of a block went into   *)
(* it.  The host is not in the repository: it starts a kernel on all DPUs  *)
(* and reads their logs when all have ended.                               *)
(***************************************************************************)
EXTENDS Integers

CONSTANTS
  D,       \* DPUs
  N,       \* NR_TASKLETS
  Rounds   \* blocks of a tasklet; the size is a multiple of BLOCK_SIZE * NR_TASKLETS

Sized == D \in Nat /\ N \in Nat \ {0} /\ Rounds \in Nat \ {0}

Dpus == 0 .. D - 1
Tasklets == 0 .. N - 1
Last == N - 1
Blocks == Dpus \X (1 .. Rounds) \X Tasklets

Zero == [b \in Blocks |-> 0]
Plus(x, y) == [b \in Blocks |-> x[b] + y[b]]
Only(b) == [Zero EXCEPT ![b] = 1]

\* The first n sums of f, added up.
PlusAll(f, n) ==
  LET so[k \in 0 .. n] == IF k = 0 THEN Zero ELSE Plus(so[k - 1], f[k - 1])
  IN  so[n]

VARIABLES
  alg,      \* "SSA" or "RSS"
  kernel,   \* the kernel that runs
  pc,       \* pc[d][t]
  round,    \* round[d][t]
  gEpoch,   \* gEpoch[d]: g_epoch
  box,      \* box[d][t]: mc_msg
  own,      \* own[d][t]: the sum in message[t] (RSS kernel 1)
  before,   \* before[d][t]: p_count
  accum,    \* accum[d]: next_block_accum
  partial,  \* partial[d]: message_partial_count
  tCount,   \* tCount[d]: t_count of the arguments
  out,      \* out[b]: what was added to the scanned block b
  log,      \* log[d]: the total that the host reads
  overtaken \* history: blocks of tasklets that read the sum after it was replaced

vars == <<alg, kernel, pc, round, gEpoch, box, own, before, accum, partial, tCount, out, log, overtaken>>
fixed == <<alg, kernel, tCount>>
sync == <<gEpoch, box, before, accum, partial>>

\* Where a kernel goes after the first barrier.
Scans == (alg = "SSA") = (kernel = 1)
Enter(t) == IF ~ Scans THEN "each" ELSE IF t = 0 THEN "bump" ELSE "barrier1"

AtStart == [d \in Dpus |-> [t \in Tasklets |-> "start"]]
ZeroPerDpu == [d \in Dpus |-> Zero]
NoMessages == [t \in Tasklets |-> [val |-> Zero, epoch |-> 0]]

Init ==
  /\ alg \in {"SSA", "RSS"}
  /\ kernel = 1
  /\ pc = AtStart
  /\ round = [d \in Dpus |-> [t \in Tasklets |-> 1]]
  /\ gEpoch = [d \in Dpus |-> 1]
  /\ box = [d \in Dpus |-> NoMessages]
  /\ own = [d \in Dpus |-> [t \in Tasklets |-> Zero]]
  /\ before = own
  /\ accum = ZeroPerDpu /\ partial = ZeroPerDpu /\ tCount = ZeroPerDpu /\ log = ZeroPerDpu
  /\ out = [b \in Blocks |-> Zero]
  /\ overtaken = {}

Goto(d, t, l) == pc' = [pc EXCEPT ![d][t] = l]

\* mybarrier_wait() on a DPU; next[t] is where t goes on.
Barrier(d, at, next) ==
  /\ \A t \in Tasklets : pc[d][t] = at
  /\ pc' = [pc EXCEPT ![d] = next]

-----------------------------------------------------------------------------
\* handshake_init(); the last tasklet sets message_partial_count; all meet.
Start(d) ==
  /\ Barrier(d, "start", [t \in Tasklets |-> Enter(t)])
  /\ round' = [round EXCEPT ![d] = [t \in Tasklets |-> 1]]
  /\ gEpoch' = [gEpoch EXCEPT ![d] = 1]
  /\ box' = [box EXCEPT ![d] = NoMessages]
  /\ partial' = [partial EXCEPT ![d] = tCount[d]]
  /\ own' = [own EXCEPT ![d] = [t \in Tasklets |-> Zero]]
  /\ UNCHANGED <<fixed, before, accum, out, log, overtaken>>

Bump(d) ==
  /\ pc[d][0] = "bump"
  /\ gEpoch' = [gEpoch EXCEPT ![d] = @ + 1]
  /\ Goto(d, 0, "barrier1")
  /\ UNCHANGED <<fixed, round, box, own, before, accum, partial, out, log, overtaken>>

BeforeScan(d) ==
  /\ Barrier(d, "barrier1", [t \in Tasklets |-> "sync"])
  /\ UNCHANGED <<fixed, sync, round, own, out, log, overtaken>>

Message(d, sum) == [val |-> sum, epoch |-> gEpoch[d]]

\* scan() of the block and handshake_sync() with its sum.
Sync(d, t) ==
  /\ pc[d][t] = "sync"
  /\ t # 0 => box[d][t].epoch = gEpoch[d]
  /\ LET p   == IF t = 0 THEN Zero ELSE box[d][t].val
         sum == Plus(p, Only(<<d, round[d][t], t>>))
     IN  /\ before' = [before EXCEPT ![d][t] = p]
         /\ IF t # Last
            THEN box' = [box EXCEPT ![d][t + 1] = Message(d, sum)]
                 /\ UNCHANGED accum
            ELSE accum' = [accum EXCEPT ![d] = sum] /\ UNCHANGED box
  /\ Goto(d, t, "barrier2")
  /\ UNCHANGED <<fixed, round, gEpoch, own, partial, out, log, overtaken>>

BeforeAdd(d) ==
  /\ Barrier(d, "barrier2", [t \in Tasklets |-> "add"])
  /\ UNCHANGED <<fixed, sync, round, own, out, log, overtaken>>

\* add() of the count so far and what lies before in the round; the write.
Add(d, t) ==
  /\ pc[d][t] = "add"
  /\ out' = [out EXCEPT ![<<d, round[d][t], t>>] = Plus(partial[d], before[d][t])]
  /\ Goto(d, t, IF t = Last THEN "update" ELSE "barrier3")
  /\ UNCHANGED <<fixed, sync, round, own, log, overtaken>>

\* With the blocks of those that have yet to read the sum of the rounds before.
Overtaken(d) ==
  overtaken \cup {<<d, round[d][t], t>> : t \in {u \in Tasklets : pc[d][u] = "add"}}

\* No barrier keeps this behind the reads in Add.
Update(d) ==
  /\ pc[d][Last] = "update"
  /\ partial' = [partial EXCEPT ![d] = Plus(@, accum[d])]
  /\ overtaken' = Overtaken(d)
  /\ Goto(d, Last, "barrier3")
  /\ UNCHANGED <<fixed, round, gEpoch, box, own, before, accum, out, log>>

\* After the last round tasklet 0 writes the log.
AfterRound(d) ==
  LET more == round[d][0] < Rounds
  IN  /\ Barrier(d, "barrier3", [t \in Tasklets |-> IF more THEN Enter(t) ELSE "end"])
      /\ round' = [round EXCEPT ![d] = [t \in Tasklets |-> IF more THEN @[t] + 1 ELSE @[t]]]
      /\ log' = [log EXCEPT ![d] = IF more THEN @ ELSE partial[d]]
      /\ UNCHANGED <<fixed, sync, own, out, overtaken>>

-----------------------------------------------------------------------------
\* The kernels without handshake go through their blocks on their own: the
\* reduction of SCAN-RSS sums them, kernel 2 of SCAN-SSA adds t_count to them.
EachBlock(d, t) ==
  /\ pc[d][t] = "each"
  /\ IF alg = "RSS"
     THEN own' = [own EXCEPT ![d][t] = Plus(@, Only(<<d, round[d][t], t>>))] /\ UNCHANGED out
     ELSE out' = [out EXCEPT ![<<d, round[d][t], t>>] = Plus(@, tCount[d])] /\ UNCHANGED own
  /\ IF round[d][t] < Rounds
     THEN round' = [round EXCEPT ![d][t] = @ + 1] /\ UNCHANGED pc
     ELSE Goto(d, t, "total") /\ UNCHANGED round
  /\ UNCHANGED <<fixed, sync, log, overtaken>>

\* The barrier, and tasklet 0 adds up the messages of a reduction.
Total(d) ==
  /\ Barrier(d, "total", [t \in Tasklets |-> "end"])
  /\ log' = [log EXCEPT ![d] = PlusAll(own[d], N)]
  /\ UNCHANGED <<fixed, sync, round, own, out, overtaken>>

-----------------------------------------------------------------------------
Ended == \A d \in Dpus, t \in Tasklets : pc[d][t] = "end"

\* The host starts kernel 2 with the totals of the DPUs before.
HostStartsSecond ==
  /\ Ended /\ kernel = 1
  /\ kernel' = 2
  /\ pc' = AtStart
  /\ tCount' = [d \in Dpus |-> PlusAll(log, d)]
  /\ UNCHANGED <<alg, sync, round, own, out, log, overtaken>>

Dpu(d) ==
  \/ Start(d) \/ Bump(d) \/ BeforeScan(d) \/ BeforeAdd(d) \/ Update(d) \/ AfterRound(d) \/ Total(d)
  \/ \E t \in Tasklets : Sync(d, t) \/ Add(d, t) \/ EachBlock(d, t)

Done == Ended /\ kernel = 2

Next == (\E d \in Dpus : Dpu(d)) \/ HostStartsSecond \/ (Done /\ UNCHANGED vars)

FairSpec ==
  Init /\ [][Next]_vars /\ WF_vars(HostStartsSecond) /\ \A d \in Dpus : WF_vars(Dpu(d))

-----------------------------------------------------------------------------
Before(b, c) ==
  \/ b[1] < c[1]
  \/ b[1] = c[1] /\ b[2] < c[2]
  \/ b[1] = c[1] /\ b[2] = c[2] /\ b[3] < c[3]

InRoundOf(b, c) == b[1] = c[1] /\ b[2] = c[2]

(***************************************************************************)
(* When all is done, what was added to a block is the sum of the blocks    *)
(* before it, on its DPU and on the DPUs before, each once.  A tasklet     *)
(* that was overtaken adds the blocks of its round once more; that changes *)
(* no other block, and no total.                                           *)
(***************************************************************************)
Scanned ==
  Done =>
    \A c \in Blocks :
      out[c] = [b \in Blocks |-> (IF Before(b, c) THEN 1 ELSE 0)
                               + (IF c \in overtaken /\ InRoundOf(b, c) THEN 1 ELSE 0)]

-----------------------------------------------------------------------------
(***************************************************************************)
(* The inductive invariant.  All sums are of sets of blocks, each block    *)
(* once, and the DPUs are independent: what DpuOK says of one is about its *)
(* own variables and blocks.                                               *)
(***************************************************************************)
Each(S) == [b \in Blocks |-> IF b \in S THEN 1 ELSE 0]

OfDpu(d) == {b \in Blocks : b[1] = d}
OfDpusBefore(d) == {b \in Blocks : b[1] < d}
OfRoundsBefore(d, r) == {b \in OfDpu(d) : b[2] < r}
InRoundBefore(d, r, t) == {b \in OfDpu(d) : b[2] = r /\ b[3] < t}
OfTasklet(d, t, r) == {b \in OfDpu(d) : b[3] = t /\ b[2] < r}
BeforeOnDpu(c) == OfRoundsBefore(c[1], c[2]) \cup InRoundBefore(c[1], c[2], c[3])

\* What t_count stands for, and with it the scan of a DPU begins.
From(d) == IF kernel = 1 THEN {} ELSE OfDpusBefore(d)

Bags == [Blocks -> Nat]
Locations == {"start", "bump", "barrier1", "sync", "barrier2", "add", "update", "barrier3",
              "each", "total", "end"}

TypeOK ==
  /\ alg \in {"SSA", "RSS"} /\ kernel \in {1, 2}
  /\ pc \in [Dpus -> [Tasklets -> Locations]]
  /\ round \in [Dpus -> [Tasklets -> 1 .. Rounds]]
  /\ gEpoch \in [Dpus -> Nat]
  /\ box \in [Dpus -> [Tasklets -> [val : Bags, epoch : Nat]]]
  /\ own \in [Dpus -> [Tasklets -> Bags]] /\ before \in [Dpus -> [Tasklets -> Bags]]
  /\ accum \in [Dpus -> Bags] /\ partial \in [Dpus -> Bags] /\ log \in [Dpus -> Bags]
  /\ tCount = [d \in Dpus |-> Each(From(d))]
  /\ out \in [Blocks -> Bags]

\* What has been added to the blocks of d.
BeforeOnAll(c) == OfDpusBefore(c[1]) \cup BeforeOnDpu(c)
NoneOvertaken(d) == OfDpu(d) \cap overtaken = {}

\* What a tasklet that was overtaken adds to its block besides.
Extra(c) == Each({b \in Blocks : c \in overtaken /\ InRoundOf(b, c)})
Holds(c, S) == out[c] = Plus(Each(S), Extra(c))
OutOnDpu(d) == \A c \in OfDpu(d) : Holds(c, BeforeOnDpu(c))
OutOnAll(d) == \A c \in OfDpu(d) : Holds(c, BeforeOnAll(c))

Waiting(d) ==
  /\ \A t \in Tasklets : pc[d][t] = "start"
  /\ IF alg = "SSA" /\ kernel = 2 THEN OutOnDpu(d) ELSE NoneOvertaken(d)

\* In round r of a scan, before it is done.
ScanOK(d, r) ==
  /\ Scans
  /\ \A t \in Tasklets : round[d][t] = r
  /\ \A c \in OfDpu(d) :
       c[2] < r \/ (c[2] = r /\ pc[d][c[3]] \in {"update", "barrier3"})
         => Holds(c, From(d) \cup BeforeOnDpu(c))
  /\ \A c \in OfDpu(d) \cap overtaken : c[2] < r \/ (c[2] = r /\ pc[d][Last] = "barrier3")

SoFar(d, r) == Each(From(d) \cup OfRoundsBefore(d, r))

Starting(d, r) ==
  /\ \A t \in Tasklets : pc[d][t] = "barrier1" \/ (t = 0 /\ pc[d][t] = "bump")
  /\ gEpoch[d] = IF pc[d][0] = "bump" THEN r ELSE r + 1
  /\ \A t \in Tasklets \ {0} : box[d][t].epoch <= r
  /\ partial[d] = SoFar(d, r)

SyncOK(d, r, t) ==
  /\ pc[d][t] = "barrier2" =>
       /\ \A u \in Tasklets : u < t => pc[d][u] = "barrier2"
       /\ before[d][t] = Each(InRoundBefore(d, r, t))
  /\ t # 0 =>
       IF pc[d][t - 1] = "barrier2"
       THEN box[d][t] = [val |-> Each(InRoundBefore(d, r, t)), epoch |-> r + 1]
       ELSE box[d][t].epoch <= r

Syncing(d, r) ==
  /\ \A t \in Tasklets : pc[d][t] \in {"sync", "barrier2"}
  /\ gEpoch[d] = r + 1
  /\ \A t \in Tasklets : SyncOK(d, r, t)
  /\ pc[d][Last] = "barrier2" => accum[d] = Each(InRoundBefore(d, r, N))
  /\ partial[d] = SoFar(d, r)

Adding(d, r) ==
  /\ \A t \in Tasklets : pc[d][t] \in {"add", "barrier3"} \/ (t = Last /\ pc[d][t] = "update")
  /\ gEpoch[d] = r + 1
  /\ \A t \in Tasklets : before[d][t] = Each(InRoundBefore(d, r, t)) /\ (t # 0 => box[d][t].epoch <= r + 1)
  /\ accum[d] = Each(InRoundBefore(d, r, N))
  /\ IF pc[d][Last] = "barrier3"
     THEN /\ partial[d] = SoFar(d, r + 1)
          /\ \A t \in Tasklets : pc[d][t] = "add" => <<d, r, t>> \in overtaken
     ELSE partial[d] = SoFar(d, r)

Scanning(d) ==
  \E r \in 1 .. Rounds : ScanOK(d, r) /\ (Starting(d, r) \/ Syncing(d, r) \/ Adding(d, r))

\* A kernel without handshake: r is the first round that t has not done.
DoneBefore(d, t) == IF pc[d][t] = "total" THEN Rounds + 1 ELSE round[d][t]

InBlocks(d) ==
  /\ ~ Scans
  /\ \A t \in Tasklets : pc[d][t] \in {"each", "total"}
  /\ IF alg = "RSS"
     THEN /\ \A t \in Tasklets : own[d][t] = Each(OfTasklet(d, t, DoneBefore(d, t)))
          /\ NoneOvertaken(d)
     ELSE \A c \in OfDpu(d) :
            Holds(c, IF c[2] < DoneBefore(d, c[3]) THEN BeforeOnAll(c) ELSE BeforeOnDpu(c))

AtEnd(d) ==
  /\ \A t \in Tasklets : pc[d][t] = "end"
  /\ kernel = 1 => log[d] = Each(OfDpu(d)) /\ IF alg = "SSA" THEN OutOnDpu(d) ELSE NoneOvertaken(d)
  /\ kernel = 2 => OutOnAll(d)

DpuOK(d) == Waiting(d) \/ Scanning(d) \/ InBlocks(d) \/ AtEnd(d)

ScanInv == TypeOK /\ \A d \in Dpus : DpuOK(d)
=============================================================================
