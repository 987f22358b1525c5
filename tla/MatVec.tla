------------------------------- MODULE MatVec -------------------------------
(***************************************************************************)
(* The matrix-vector products of gemv/main.c and MLP/main.c.  The rows are *)
(* shared out in pairs, because MRAM is written 8 bytes at a time and an   *)
(* element has 4.  The DMA also reads from multiples of 8: where a row     *)
(* begins at an odd element, the block that is read begins one element     *)
(* early, and is shifted and completed by a second read.                   *)
(*                                                                         *)
(* An element of C is the list of the elements of A that were multiplied   *)
(* with the elements of B in order.  gemv computes one product; MLP takes  *)
(* commands from the host until CMD_EXIT, and its barrier is               *)
(* ime_barrier_wait() (module ImeBarrier), which gemv replaces by its own. *)
(***************************************************************************)
EXTENDS Integers, Sequences

CONSTANTS
  N,      \* NR_TASKLETS
  W,      \* elements of a BLOCK_SIZE, even
  Jobs,   \* how many commands the host gives before CMD_EXIT (MLP)
  Sizes,  \* what n_size may be: positive numbers
  Counts  \* what nr_rows may be

Sized ==
  /\ N \in Nat \ {0} /\ W \in Nat \ {0} /\ W % 2 = 0 /\ Jobs \in Nat
  /\ Sizes \subseteq Nat \ {0} /\ Counts \subseteq Nat

Tasklets == 0 .. N - 1
Pair == 2  \* element_per_cacheC
Nothing == <<>>

VARIABLES
  app,     \* "gemv" or "mlp"
  pc,      \* pc[t]
  cmd,     \* g_ctrl.cmd
  job,     \* how many jobs the host has given
  nSize,   \* n_size
  nrRows,  \* nr_rows
  i,       \* i[t]: the first row of the pair
  pos,     \* pos[t]
  addrA,   \* addrA[t]: mram_temp_addr_A, in elements from the base of A
  offset,  \* offset[t]
  cacheC,  \* cacheC[t]: the pair of results
  C        \* C in MRAM: a function on rows

vars == <<app, pc, cmd, job, nSize, nrRows, i, pos, addrA, offset, cacheC, C>>
args == <<app, cmd, job, nSize, nrRows>>

-----------------------------------------------------------------------------
(***************************************************************************)
(* The rows of a tasklet.  Rows are given out in pairs; those that remain  *)
(* go to the first tasklets.                                               *)
(***************************************************************************)
Doubled == (nrRows \div (N * Pair)) * Pair
Rest == nrRows % (N * Pair)

RowsOf(t) == Doubled + (IF t * Pair < Rest THEN Pair ELSE 0)

\* Slip: the remaining rows are rounded up when they are even, too.
StartGemvUp(t) ==
  IF t * Pair < Rest THEN t * (Doubled + Pair)
  ELSE (Rest \div Pair + 1) * Pair + t * Doubled

StartGemv(t) ==
  IF t * Pair < Rest THEN t * (Doubled + Pair)
  ELSE (IF Rest % Pair # 0 THEN (Rest \div Pair + 1) * Pair ELSE Rest) + t * Doubled

StartMLP(t) ==
  LET half == Rest \div 2
  IN  IF t * 2 < Rest THEN t * (Doubled + 2)
      ELSE IF Rest % 2 = 1
      THEN (half + 1) * (Doubled + 2) + (t - 1 - half) * Doubled
      ELSE half * (Doubled + 2) + (t - half) * Doubled

StartRow(t) == IF app = "gemv" THEN StartGemv(t) ELSE StartMLP(t)

-----------------------------------------------------------------------------
Aligned(a) == a - (a % 2)

\* The elements of A in cache_A after a read at a, shifted if o = 1.
Loaded(a, o) ==
  [x \in 0 .. W - 1 |->
     IF o = 0 THEN Aligned(a) + x
     ELSE IF x < W - 1 THEN Aligned(a) + x + 1
     ELSE Aligned(a + W)]

\* What one row adds up: whole blocks while there is more than one left, then
\* the rest; the j-th element is multiplied with element j of B.
RowOfTerms(a, o) ==
  LET whole == ((nSize - 1) \div W) * W
  IN  [j \in 0 .. nSize - 1 |->
         LET block == IF j < whole THEN (j \div W) * W ELSE whole
         IN  Loaded(a + block, o)[j - block]]

-----------------------------------------------------------------------------
Init ==
  /\ app \in {"gemv", "mlp"}
  /\ pc = [t \in Tasklets |-> IF t = 0 THEN "host" ELSE "fetched"]
  /\ cmd = "idle" /\ job = 0 /\ nSize = 0 /\ nrRows = 0
  /\ i = [t \in Tasklets |-> 0]
  /\ pos = i /\ addrA = i /\ offset = i
  /\ cacheC = [t \in Tasklets |-> <<Nothing, Nothing>>]
  /\ C = <<>>

Goto(t, l) == pc' = [pc EXCEPT ![t] = l]

Barrier(at, next) ==
  /\ \A t \in Tasklets : pc[t] = at
  /\ pc' = [t \in Tasklets |-> next]

\* The host gives a job (gemv: before the start), or ends MLP.
HostAnswers ==
  /\ pc[0] = "host"
  /\ IF job < (IF app = "gemv" THEN 1 ELSE Jobs)
     THEN /\ cmd' = "run" /\ job' = job + 1
          /\ nSize' \in Sizes /\ nrRows' \in Counts
          /\ C' = [r \in 0 .. nrRows' - 1 |-> Nothing]
     ELSE cmd' = "exit" /\ UNCHANGED <<job, nSize, nrRows, C>>
  /\ Goto(0, "fetched")
  /\ UNCHANGED <<app, i, pos, addrA, offset, cacheC>>

\* The barriers from the command, or the arguments, to the loop.
StartJob ==
  /\ Barrier("fetched", IF cmd = "exit" THEN "end" ELSE "pair")
  /\ i' = [t \in Tasklets |-> StartRow(t)]
  /\ offset' = [t \in Tasklets |-> 0]
  /\ UNCHANGED <<args, pos, addrA, cacheC, C>>

NextPair(t) ==
  /\ pc[t] = "pair"
  /\ IF i[t] < StartRow(t) + RowsOf(t)
     THEN /\ addrA' = [addrA EXCEPT ![t] = i[t] * nSize]
          /\ cacheC' = [cacheC EXCEPT ![t] = <<Nothing, Nothing>>]
          /\ pos' = [pos EXCEPT ![t] = 0]
          /\ Goto(t, "row")
     ELSE Goto(t, "barrier") /\ UNCHANGED <<addrA, cacheC, pos>>
  /\ UNCHANGED <<args, i, offset, C>>

Row(t) ==
  /\ pc[t] = "row" /\ pos[t] < Pair /\ i[t] + pos[t] < nrRows
  /\ cacheC' = [cacheC EXCEPT ![t][pos[t] + 1] = RowOfTerms(addrA[t], offset[t])]
  /\ addrA' = [addrA EXCEPT ![t] = @ + nSize]
  /\ offset' = [offset EXCEPT ![t] = (addrA[t] + nSize) % 2]
  /\ pos' = [pos EXCEPT ![t] = @ + 1]
  /\ UNCHANGED <<args, pc, i, C>>

AfterPair(t) == i[t] + Pair

\* Both elements of the pair are written, even if there is no second row.
WritePair(t) ==
  /\ pc[t] = "row" /\ ~ (pos[t] < Pair /\ i[t] + pos[t] < nrRows)
  /\ C' = [r \in DOMAIN C \cup {i[t], i[t] + 1} |->
             IF r = i[t] THEN cacheC[t][1] ELSE IF r = i[t] + 1 THEN cacheC[t][2] ELSE C[r]]
  /\ i' = [i EXCEPT ![t] = AfterPair(t)]
  /\ Goto(t, "pair")
  /\ UNCHANGED <<args, pos, addrA, offset, cacheC>>

\* gemv is left; the tasklets of MLP but 0 go to the barrier after the fetch.
JobDone ==
  /\ \A t \in Tasklets : pc[t] = "barrier"
  /\ pc' = [t \in Tasklets |-> IF app = "gemv" THEN "end" ELSE IF t = 0 THEN "host" ELSE "fetched"]
  /\ UNCHANGED <<args, i, pos, addrA, offset, cacheC, C>>

-----------------------------------------------------------------------------
Tasklet(t) == NextPair(t) \/ Row(t) \/ WritePair(t)

Together == HostAnswers \/ StartJob \/ JobDone

Ended == \A t \in Tasklets : pc[t] = "end"

Next == Together \/ (\E t \in Tasklets : Tasklet(t)) \/ (Ended /\ UNCHANGED vars)

\* The host answers; a tasklet that can go on does.
FairSpec == Init /\ [][Next]_vars /\ WF_vars(Together) /\ \A t \in Tasklets : WF_vars(Tasklet(t))

-----------------------------------------------------------------------------
(***************************************************************************)
(* The inductive invariant: where the tasklets are in a job, how far each  *)
(* is with its rows, and that the rows written are right.                  *)
(***************************************************************************)
Working == {"pair", "row", "barrier"}

TypeOK ==
  /\ app \in {"gemv", "mlp"} /\ nSize \in Nat /\ nrRows \in Nat
  /\ DOMAIN pc = Tasklets /\ DOMAIN cacheC = Tasklets
  /\ i \in [Tasklets -> Nat] /\ pos \in [Tasklets -> Nat]
  /\ addrA \in [Tasklets -> Nat] /\ offset \in [Tasklets -> Nat]
  /\ 0 .. nrRows - 1 \subseteq DOMAIN C

Right(r) == [j \in 0 .. nSize - 1 |-> r * nSize + j]

Complete == \A r \in 0 .. nrRows - 1 : C[r] = Right(r)

PhaseOK ==
  \/ cmd = "run" /\ nSize > 0 /\ \A t \in Tasklets : pc[t] \in Working
  \/ cmd = "run" /\ nSize > 0 /\ \A t \in Tasklets : pc[t] = "fetched"
  \/ cmd # "exit" /\ Complete /\ \A t \in Tasklets : pc[t] = IF t = 0 THEN "host" ELSE "fetched"
  \/ cmd = "exit" /\ Complete /\ \A t \in Tasklets : pc[t] = "fetched"
  \/ Complete /\ \A t \in Tasklets : pc[t] = "end"

PairOK(t) ==
  LET end == StartRow(t) + RowsOf(t)
  IN  /\ i[t] % 2 = 0 /\ StartRow(t) <= i[t] /\ i[t] <= end
      /\ \A r \in 0 .. nrRows - 1 : StartRow(t) <= r /\ r < i[t] => C[r] = Right(r)
      /\ pc[t] = "pair" /\ i[t] < end => offset[t] = 0
      /\ pc[t] = "row" =>
           /\ i[t] < end /\ pos[t] <= Pair /\ i[t] + pos[t] <= nrRows
           /\ addrA[t] = (i[t] + pos[t]) * nSize /\ offset[t] = addrA[t] % 2
           /\ DOMAIN cacheC[t] = 1 .. Pair
           /\ \A k \in 0 .. pos[t] - 1 : cacheC[t][k + 1] = Right(i[t] + k)
      /\ pc[t] = "barrier" => i[t] = end

ProductInv == TypeOK /\ PhaseOK /\ \A t \in Tasklets : pc[t] \in Working => PairOK(t)

-----------------------------------------------------------------------------
(***************************************************************************)
(* When the host gets the DPU back, every row has been multiplied with the *)
(* vector, element by element, whatever its alignment and whoever did it.  *)
(***************************************************************************)
RowsMultiplied ==
  (Ended \/ pc[0] = "host") =>
    \A r \in 0 .. nrRows - 1 : C[r] = [j \in 0 .. nSize - 1 |-> r * nSize + j]
=============================================================================
