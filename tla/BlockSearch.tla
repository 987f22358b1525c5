---------------------------- MODULE BlockSearch -----------------------------
(***************************************************************************)
(* The binary search of BS/main.c.  A probe loads a whole block and looks  *)
(* through it, so the bracket [L, R) must never become shorter than a      *)
(* block: when it is down to less than two blocks, the first one and the   *)
(* remainder are searched, and the size of the remainder, R minus the end  *)
(* of the first block, is unsigned.                                        *)
(*                                                                         *)
(* Addresses are counted in elements (DTYPE, 8 bytes) from A_base, which   *)
(* is what WORD_MASK rounds to.                                            *)
(***************************************************************************)
EXTENDS Integers

CONSTANTS
  N,        \* NR_TASKLETS
  B,        \* elements of a BLOCK_SIZE
  Sizes,    \* what input_size may be, at least B
  Arrays,   \* the sorted inputs: functions on 0 .. input_size - 1
  Values,   \* the values that may be searched for
  Q         \* queries of a tasklet

\* What the proofs ask: the inputs are sorted and hold at least a block.
Sized ==
  /\ N \in Nat \ {0} /\ B \in Nat \ {0} /\ Q \in Nat /\ Values \subseteq Int
  /\ Sizes \subseteq Nat /\ \A s \in Sizes : B <= s
  /\ \A s \in Sizes, a \in Arrays : DOMAIN a = 0 .. s - 1 =>
       a \in [0 .. s - 1 -> Int] /\ \A x, y \in 0 .. s - 1 : x <= y => a[x] <= a[y]

Tasklets == 0 .. N - 1

VARIABLES
  size,    \* input_size of the arguments
  array,   \* the input in MRAM
  query,   \* query[t][k]: the k-th query of t
  pc,      \* pc[t]: "next", "probe", "barrier", or "end"
  k,       \* k[t]: the number of the query, from 1
  L, R,    \* L[t], R[t]: the bracket
  found,   \* found[t]: DPU_RESULTS[t].found
  maxf     \* what tasklet 0 publishes

vars == <<size, array, query, pc, k, L, R, found, maxf>>

\* After tasklet 0's initialisation and the barrier.
Init ==
  /\ size \in Sizes
  /\ array \in {a \in Arrays : DOMAIN a = 0 .. size - 1}
  /\ query \in [Tasklets -> [1 .. Q -> Values]]
  /\ pc = [t \in Tasklets |-> "next"]
  /\ k = [t \in Tasklets |-> 0]
  /\ L = [t \in Tasklets |-> 0]
  /\ R = [t \in Tasklets |-> size]
  /\ found = [t \in Tasklets |-> -1]
  /\ maxf = -1

Goto(t, l) == pc' = [pc EXCEPT ![t] = l]

-----------------------------------------------------------------------------
\* The bounds are reset for each query.
Query(t) ==
  /\ pc[t] = "next"
  /\ IF k[t] < Q
     THEN /\ k' = [k EXCEPT ![t] = @ + 1]
          /\ L' = [L EXCEPT ![t] = 0]
          /\ R' = [R EXCEPT ![t] = size]
          /\ Goto(t, "probe")
     ELSE Goto(t, "barrier") /\ UNCHANGED <<k, L, R>>
  /\ UNCHANGED <<size, array, query, found, maxf>>

Mid(t) == (L[t] + R[t]) \div 2

\* The boundary check.
NearEnd(t) == Mid(t) < L[t] + B

X(t) == query[t][k[t]]

\* What search() gives for the elements from .. from + length - 1.
Hit(t, from, length) ==
  /\ length > 0 /\ array[from] <= X(t)
  /\ \E i \in from .. from + length - 1 : array[i] = X(t)

FirstHit(t, from) ==
  CHOOSE i \in DOMAIN array :
    i >= from /\ array[i] = X(t) /\ \A j \in from .. i - 1 : array[j] # X(t)

\* Slip: the search goes on.
ReportAndStay(t, i) ==
  /\ found' = [found EXCEPT ![t] = i]
  /\ UNCHANGED <<pc, L, R>>

Report(t, i) ==
  /\ found' = [found EXCEPT ![t] = i]
  /\ Goto(t, "next")
  /\ UNCHANGED <<L, R>>

\* Slip: the block that was searched is left out as well.
LeftPast(m) == m + B

\* What becomes L when the value is to the right of m.
Left(m) == m

\* search() of the block at mid finds it, or says to which side to go.
ProbeMiddle(t) ==
  /\ pc[t] = "probe" /\ ~ NearEnd(t)
  /\ LET m == Mid(t)
     IN  \/ Hit(t, m, B) /\ Report(t, FirstHit(t, m))
         \/ /\ ~ Hit(t, m, B)
            /\ IF array[m] <= X(t)
               THEN L' = [L EXCEPT ![t] = Left(m)] /\ UNCHANGED R
               ELSE R' = [R EXCEPT ![t] = m] /\ UNCHANGED L
            /\ UNCHANGED <<pc, found>>
  /\ UNCHANGED <<size, array, query, k, maxf>>

\* Slip: the remainder is left out.
RestEmpty(t) == 0

\* The size of the remainder.
Rest(t) == R[t] - (L[t] + B)

\* The first block, then the remainder.
ProbeEnd(t) ==
  /\ pc[t] = "probe" /\ NearEnd(t)
  /\ \/ Hit(t, L[t], B) /\ Report(t, FirstHit(t, L[t]))
     \/ /\ ~ Hit(t, L[t], B) /\ Hit(t, L[t] + B, Rest(t))
        /\ Report(t, FirstHit(t, L[t] + B))
     \/ /\ ~ Hit(t, L[t], B) /\ ~ Hit(t, L[t] + B, Rest(t))
        /\ Goto(t, "next") /\ UNCHANGED <<L, R, found>>
  /\ UNCHANGED <<size, array, query, k, maxf>>

\* After the barrier tasklet 0 publishes the largest index.
Publish ==
  /\ \A t \in Tasklets : pc[t] = "barrier"
  /\ pc' = [t \in Tasklets |-> "end"]
  /\ maxf' = CHOOSE f \in {found[t] : t \in Tasklets} : \A t \in Tasklets : found[t] <= f
  /\ UNCHANGED <<size, array, query, k, L, R, found>>

-----------------------------------------------------------------------------
Tasklet(t) == Query(t) \/ ProbeMiddle(t) \/ ProbeEnd(t)

Ended == \A t \in Tasklets : pc[t] = "end"

Next == Publish \/ (\E t \in Tasklets : Tasklet(t)) \/ (Ended /\ UNCHANGED vars)

Spec == Init /\ [][Next]_vars

FairSpec == Spec /\ WF_vars(Publish) /\ \A t \in Tasklets : WF_vars(Tasklet(t))

-----------------------------------------------------------------------------
(***************************************************************************)
(* While a tasklet searches, its bracket lies in the array and holds at    *)
(* least a block, so that no probe reads beyond it and the remainder is    *)
(* not negative; and a value of the array is within the bracket.           *)
(***************************************************************************)
Bracket ==
  \A t \in Tasklets : pc[t] = "probe" =>
    /\ 0 <= L[t] /\ L[t] + B <= R[t] /\ R[t] <= size
    /\ \A i \in DOMAIN array :
         array[i] = X(t) => \E j \in L[t] .. R[t] - 1 : array[j] = X(t)

\* The published index is that of the last value a tasklet has found, for the
\* tasklet whose index is largest.
Hits(t) == {q \in 1 .. Q : \E i \in DOMAIN array : array[i] = query[t][q]}

LastHit(t) == CHOOSE q \in Hits(t) : \A p \in Hits(t) : p <= q

LastHitsPublished ==
  Ended =>
    /\ \A t \in Tasklets :
         IF Hits(t) = {} THEN found[t] = -1
         ELSE found[t] \in DOMAIN array /\ array[found[t]] = query[t][LastHit(t)]
    /\ \A t \in Tasklets : found[t] <= maxf
    /\ \E t \in Tasklets : found[t] = maxf

(***************************************************************************)
(* The inductive invariant: with the bracket, that a tasklet's result is   *)
(* that of the last hit among the queries it has done, and that all        *)
(* tasklets end together.                                                  *)
(***************************************************************************)
TypeOK ==
  /\ size \in Sizes /\ array \in [0 .. size - 1 -> Int]
  /\ \A x, y \in 0 .. size - 1 : x <= y => array[x] <= array[y]
  /\ query \in [Tasklets -> [1 .. Q -> Values]]
  /\ pc \in [Tasklets -> {"next", "probe", "barrier", "end"}]
  /\ k \in [Tasklets -> 0 .. Q]
  /\ L \in [Tasklets -> Nat] /\ R \in [Tasklets -> Nat]
  /\ found \in [Tasklets -> -1 .. size - 1] /\ maxf \in Int

InArray(x) == \E j \in DOMAIN array : array[j] = x

\* The queries that t has done.
QueriesDone(t) == 1 .. (IF pc[t] = "probe" THEN k[t] - 1 ELSE k[t])

\* The result is there, or no query had a hit.
ResultOK(t) ==
  \/ found[t] = -1 /\ \A q \in QueriesDone(t) : ~ InArray(query[t][q])
  \/ \E q \in QueriesDone(t) :
       /\ found[t] \in DOMAIN array /\ array[found[t]] = query[t][q]
       /\ \A p \in QueriesDone(t) : p > q => ~ InArray(query[t][p])

QueriesOK ==
  /\ \A t \in Tasklets :
       /\ pc[t] = "probe" => k[t] > 0
       /\ pc[t] \in {"barrier", "end"} => k[t] = Q
       /\ ResultOK(t)
  /\ \A t, u \in Tasklets : pc[t] = "end" => pc[u] = "end"
  /\ (\E t \in Tasklets : pc[t] = "end") =>
       /\ \A t \in Tasklets : found[t] <= maxf
       /\ \E t \in Tasklets : found[t] = maxf

SearchInv == TypeOK /\ Bracket /\ QueriesOK
=============================================================================
