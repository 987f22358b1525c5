----------------------------- MODULE Wavefront ------------------------------
(***************************************************************************)
(* The Needleman-Wunsch kernel, NW/main.c.  The matrix of a job is filled  *)
(* in square blocks, diagonal by diagonal; the tasklets share out the      *)
(* blocks of a diagonal and meet at a barrier after it.  A block is copied *)
(* to WRAM, computed, and copied back row by row.  A row copied back is    *)
(* two cells wider than the block: its first cell belongs to the left      *)
(* neighbour and its last to the right one (MRAM moves 8 bytes at a time), *)
(* and in all rows but the first that last cell was never read.            *)
(*                                                                         *)
(* The content of a cell is the cell whose value it is, when it was        *)
(* computed from neighbours with theirs; it is Junk before and otherwise.  *)
(* ime_barrier_wait() is one step of all tasklets (module ImeBarrier).     *)
(* The host is not in the repository: it fills in the arguments and a      *)
(* command while the DPU waits.                                            *)
(***************************************************************************)
EXTENDS Integers

CONSTANTS
  N,     \* NR_TASKLETS
  Rep,   \* REP: blocks in a row of the matrix, BL / BL_IN
  B,     \* BL_IN: cells in a row of a block
  Jobs,  \* how many commands the host gives before CMD_EXIT
  Sizes  \* what nblocks may be

Tasklets == 0 .. N - 1
Rows == 0 .. Rep * B        \* BL + 1 rows
Columns == 0 .. Rep * B + 1 \* BL + 2 columns, the last one is padding
Cells == Rows \X Columns
InWram == (0 .. B) \X (0 .. B + 1)
Junk == <<>>

Sized ==
  /\ N \in Nat \ {0} /\ Rep \in Nat \ {0} /\ B \in Nat \ {0}
  /\ Jobs \in Nat /\ Sizes \subseteq Nat

VARIABLES
  pc,      \* pc[t]: where t is
  cmd,     \* g_ctrl.cmd
  phase,   \* g_phase
  job,     \* how many commands the host has given
  size,    \* nblocks of the job
  bl,      \* the matrix being filled
  diag,    \* the diagonal: first the top-left ones, then the bottom-right ones
  idx,     \* idx[t]: bl_indx
  row,     \* row[t]: the row of the block that t copies
  cache,   \* cache[t]: cache_input
  matrix   \* matrix[b][cell]

vars == <<pc, cmd, phase, job, size, bl, diag, idx, row, cache, matrix>>
control == <<cmd, phase, job, size, bl, diag>>

-----------------------------------------------------------------------------
(***************************************************************************)
(* The blocks of a diagonal and who computes them.  Diagonals 0 .. Rep are *)
(* those of the first loop (number 0 has none), Rep + 1 .. 2 * Rep - 1     *)
(* those of the second, whose blk starts at 2.                             *)
(***************************************************************************)
LastDiag == 2 * Rep - 1
First(d) == d <= Rep
Blk(d) == IF First(d) THEN d ELSE d - Rep + 1
Length(d) == IF First(d) THEN Blk(d) ELSE Rep - Blk(d) + 1

Mod(d) == Length(d) % N
Chunks(d, t) == Length(d) \div N + (IF t < Mod(d) THEN 1 ELSE 0)

\* Slip: the tasklets after the longer shares start where equal shares would.
StartEqual(d, t) == t * Chunks(d, t)

StartOf(d, t) ==
  IF Mod(d) > 0 /\ t >= Mod(d)
  THEN Mod(d) * (Chunks(d, t) + 1) + (t - Mod(d)) * Chunks(d, t)
  ELSE t * Chunks(d, t)

X(d, t, k) == (IF First(d) THEN 0 ELSE Blk(d) - 1) + StartOf(d, t) + k
Y(d, t, k) == (IF First(d) THEN Blk(d) - 1 ELSE Rep + Blk(d) - 2) - X(d, t, k)

\* The corner of t's block, and cell <<i, j>> of the block in the matrix.
Corner(t) == <<X(diag, t, idx[t]) * B, Y(diag, t, idx[t]) * B>>
At(t, i, j) == <<Corner(t)[1] + i, Corner(t)[2] + j>>

-----------------------------------------------------------------------------
Border(c) == c[1] = 0 \/ c[2] = 0

\* Before the first command; the host has put the borders into the matrices.
Init ==
  /\ pc = [t \in Tasklets |-> IF t = 0 THEN "host" ELSE "fetched"]
  /\ cmd = "idle" /\ phase = 1 /\ job = 0 /\ size = 0 /\ bl = 0 /\ diag = 0
  /\ idx = [t \in Tasklets |-> 0]
  /\ row = [t \in Tasklets |-> 0]
  /\ cache = [t \in Tasklets |-> [c \in InWram |-> Junk]]
  /\ matrix = <<>>

Goto(t, l) == pc' = [pc EXCEPT ![t] = l]

\* The host gives a job, or ends the kernel.
HostAnswers ==
  /\ pc[0] = "host"
  /\ IF job < Jobs
     THEN /\ cmd' = "run" /\ job' = job + 1
          /\ \E s \in Sizes :
               /\ size' = s
               /\ matrix' = [b \in 0 .. s - 1 |->
                              [c \in Cells |-> IF Border(c) THEN c ELSE Junk]]
     ELSE cmd' = "exit" /\ UNCHANGED <<job, size, matrix>>
  /\ Goto(0, "fetched")
  /\ UNCHANGED <<bl, diag, idx, row, cache>>

\* wait_for_host_and_fetch_ctrl().
Fetch == HostAnswers /\ phase' = 0

\* The others spin on g_phase, which tasklet 0 sets as it goes to the host.
Park(t) ==
  /\ t # 0 /\ pc[t] = "park" /\ phase = 0
  /\ Goto(t, "fetched")
  /\ UNCHANGED <<control, idx, row, cache, matrix>>

GoToHost ==
  /\ pc[0] = "park"
  /\ phase' = 1
  /\ Goto(0, "host")
  /\ UNCHANGED <<cmd, job, size, bl, diag, idx, row, cache, matrix>>

Barrier(at, next) ==
  /\ \A t \in Tasklets : pc[t] = at
  /\ pc' = [t \in Tasklets |-> next]

\* The barriers up to the arguments; with nblocks = 0 straight back to the host.
StartJob ==
  /\ Barrier("fetched", IF cmd = "exit" THEN "end" ELSE IF size = 0 THEN "park" ELSE "block")
  /\ bl' = 0 /\ diag' = 0
  /\ idx' = [t \in Tasklets |-> 0]
  /\ UNCHANGED <<cmd, phase, job, size, row, cache, matrix>>

Block(t) ==
  /\ pc[t] = "block"
  /\ IF idx[t] < Chunks(diag, t)
     THEN row' = [row EXCEPT ![t] = 0] /\ Goto(t, "read")
     ELSE Goto(t, "barrier") /\ UNCHANGED row
  /\ UNCHANGED <<control, idx, cache, matrix>>

\* The whole first row, and the first two cells of the others.
Read(t) ==
  /\ pc[t] = "read"
  /\ LET width == IF row[t] = 0 THEN B + 1 ELSE 1
     IN  cache' = [cache EXCEPT ![t] = [c \in DOMAIN @ |->
           IF c[1] = row[t] /\ c[2] <= width THEN matrix[bl][At(t, c[1], c[2])] ELSE @[c]]]
  /\ IF row[t] < B
     THEN row' = [row EXCEPT ![t] = @ + 1] /\ UNCHANGED pc
     ELSE row' = [row EXCEPT ![t] = 1] /\ Goto(t, "write")
  /\ UNCHANGED <<control, idx, matrix>>

\* Every cell from its upper left, left and upper neighbour.
Computed(t) ==
  LET c == cache[t]
      v[m \in InWram] ==
        IF m[1] = 0 \/ m[2] \in {0, B + 1} THEN c[m]
        ELSE IF \A n \in {<<m[1] - 1, m[2] - 1>>, <<m[1], m[2] - 1>>, <<m[1] - 1, m[2]>>} :
                  v[n] = At(t, n[1], n[2])
             THEN At(t, m[1], m[2]) ELSE Junk
  IN  v

CopyBack(t, shift) ==
  /\ pc[t] = "write"
  /\ matrix' = [matrix EXCEPT ![bl] = [c \in Cells |->
       LET j == c[2] - Corner(t)[2] + shift
       IN  IF c[1] = Corner(t)[1] + row[t] /\ j \in 0 .. B + 1
           THEN Computed(t)[<<row[t], j>>] ELSE @[c]]]
  /\ IF row[t] < B
     THEN row' = [row EXCEPT ![t] = @ + 1] /\ UNCHANGED <<pc, idx>>
     ELSE idx' = [idx EXCEPT ![t] = @ + 1] /\ Goto(t, "block") /\ UNCHANGED row
  /\ UNCHANGED <<control, cache>>

\* Slip: the address of a row is one cell too low.
WriteLow(t) == CopyBack(t, 1)

Write(t) == CopyBack(t, 0)

NextDiagonal ==
  /\ LET more == diag < LastDiag \/ bl + 1 < size
     IN  Barrier("barrier", IF more THEN "block" ELSE "park")
  /\ diag' = IF diag < LastDiag THEN diag + 1 ELSE 0
  /\ bl' = IF diag < LastDiag THEN bl ELSE bl + 1
  /\ idx' = [t \in Tasklets |-> 0]
  /\ UNCHANGED <<cmd, phase, job, size, row, cache, matrix>>

-----------------------------------------------------------------------------
Tasklet(t) == Park(t) \/ Block(t) \/ Read(t) \/ Write(t)

Together == Fetch \/ GoToHost \/ StartJob \/ NextDiagonal

Ended == \A t \in Tasklets : pc[t] = "end"

Next == Together \/ (\E t \in Tasklets : Tasklet(t)) \/ (Ended /\ UNCHANGED vars)

Spec == Init /\ [][Next]_vars

\* The host answers; a tasklet that can go on does.
FairSpec == Init /\ [][Next]_vars /\ WF_vars(Together) /\ \A t \in Tasklets : WF_vars(Tasklet(t))

-----------------------------------------------------------------------------
(***************************************************************************)
(* The inductive invariant.  The tasklets wait for a job, run one, or have *)
(* ended.  While they run, what is computed of the matrix is the blocks of *)
(* the diagonals before, those blocks of this one that a tasklet is done   *)
(* with, and the rows of its block that it has copied back; and nothing of *)
(* a later diagonal is, which is why a cell there can be overwritten.      *)
(***************************************************************************)
Waiting == {"fetched", "park", "host"}
Running == {"block", "read", "write", "barrier"}

TypeOK ==
  /\ pc \in [Tasklets -> Waiting \cup Running \cup {"end"}]
  /\ cmd \in {"idle", "run", "exit"} /\ phase \in {0, 1}
  /\ job \in Nat /\ size \in Nat /\ bl \in Nat /\ diag \in 0 .. LastDiag
  /\ idx \in [Tasklets -> Nat] /\ row \in [Tasklets -> 0 .. B]
  /\ cache \in [Tasklets -> [InWram -> Cells \cup {Junk}]]
  /\ size > 0 => matrix \in [0 .. size - 1 -> [Cells -> Cells \cup {Junk}]]

ControlOK ==
  /\ \/ \A t \in Tasklets : pc[t] \in Waiting
     \/ (\A t \in Tasklets : pc[t] \in Running) /\ bl < size
     \/ \A t \in Tasklets : pc[t] = "end"
  /\ \A t \in Tasklets : t # 0 => pc[t] # "host"
  /\ pc[0] = "fetched" => cmd \in {"run", "exit"}
  /\ \A t \in Tasklets :
       /\ pc[t] \in {"read", "write"} => idx[t] < Chunks(diag, t)
       /\ pc[t] = "write" => row[t] > 0
       /\ pc[t] = "barrier" => idx[t] >= Chunks(diag, t)

Complete(b) == \A c \in Cells : c[2] <= Rep * B => matrix[b][c] = c
Fresh(b) == \A c \in Cells : matrix[b][c] = c <=> Border(c)

Blocks == (0 .. Rep - 1) \X (0 .. Rep - 1)
BlockOf(d, t, k) == <<X(d, t, k), Y(d, t, k)>>
DiagOf(p) == p[1] + p[2] + 1
InBlock(p, c) == c[1] - p[1] * B \in 1 .. B /\ c[2] - p[2] * B \in 1 .. B

CopiedBack(p, c) ==
  \/ DiagOf(p) < diag
  \/ \E t \in Tasklets : \E k \in 0 .. idx[t] - 1 : p = BlockOf(diag, t, k)
  \/ \E t \in Tasklets :
       pc[t] = "write" /\ p = BlockOf(diag, t, idx[t]) /\ c[1] - p[1] * B < row[t]

Finished(c) == Border(c) \/ \E p \in Blocks : InBlock(p, c) /\ CopiedBack(p, c)
Later(c) == \E p \in Blocks : InBlock(p, c) /\ DiagOf(p) > diag

MatrixOK ==
  /\ pc[0] \in {"park", "host"} => \A b \in 0 .. size - 1 : Complete(b)
  /\ pc[0] = "fetched" /\ cmd = "run" => \A b \in 0 .. size - 1 : Fresh(b)
  /\ pc[0] \in Running =>
       /\ \A b \in 0 .. bl - 1 : Complete(b)
       /\ \A b \in bl + 1 .. size - 1 : Fresh(b)
       /\ \A c \in Cells : Finished(c) => matrix[bl][c] = c
       /\ \A c \in Cells : Later(c) => matrix[bl][c] # c

\* What a tasklet has read of its block is right where the block needs it; the
\* last cell of the other rows has never been read.
CacheOK ==
  \A t \in Tasklets :
    /\ \A m \in InWram : m[1] > 0 /\ m[2] = B + 1 => cache[t][m] = Junk
    /\ \A m \in InWram :
         /\ pc[t] = "write" \/ (pc[t] = "read" /\ m[1] < row[t])
         /\ m[2] = 0 \/ (m[1] = 0 /\ m[2] <= B)
         => cache[t][m] = At(t, m[1], m[2])

MatrixInv == TypeOK /\ ControlOK /\ MatrixOK /\ CacheOK

-----------------------------------------------------------------------------
(***************************************************************************)
(* When the host gets the DPU back, every cell it asked for is there.      *)
(***************************************************************************)
Filled ==
  pc[0] = "host" =>
    \A b \in 0 .. size - 1, c \in Cells : c[2] <= Rep * B => matrix[b][c] = c

(***************************************************************************)
(* The cells a tasklet copies back beside its own block never spoil a cell *)
(* that is already computed, on its diagonal or on one before.             *)
(***************************************************************************)
FinalKept ==
  job' = job => \A b \in 0 .. size - 1, c \in Cells :
    c[2] <= Rep * B /\ matrix[b][c] = c => matrix'[b][c] = c
=============================================================================
