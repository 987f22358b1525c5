------------------------------ MODULE Frontier ------------------------------
(***************************************************************************)
(* Breadth-first search over several DPUs, BFS/main.c.  Host and DPUs take *)
(* turns, one per level.  In a turn every DPU moves the frontier the host  *)
(* gave it into its visited set and into the levels of its own nodes, then *)
(* collects the unvisited neighbours of those nodes.  The bitmaps are in   *)
(* MRAM and are read and written a word at a time.                         *)
(*                                                                         *)
(* mybarrier_wait() is one step of a DPU's tasklets (module SenseBarrier). *)
(* The host is not in the repository: HostTurn is the counterpart that     *)
(* main.c expects, with the levels starting at 1.                          *)
(***************************************************************************)
EXTENDS Integers

CONSTANTS
  Dpus,    \* the number of DPUs
  N,       \* NR_TASKLETS
  W,       \* nodes in a word of a bitmap: 64
  Local,   \* dpuNumNodes, a multiple of W
  Graphs,  \* the graphs to search: functions from a node to its neighbours
  Source   \* the node in the first frontier

Nodes == 0 .. Dpus * Local - 1
Words == 0 .. (Dpus * Local) \div W - 1
DPU == 0 .. Dpus - 1
Tasklets == 0 .. N - 1

VARIABLES
  graph,    \* the graph
  pc,       \* pc[d][t]: where tasklet t of DPU d is
  pos,      \* pos[d][t]: its loop variable: tile, then node
  nbs,      \* nbs[d][t]: neighbours of that node it has yet to look at
  word,     \* word[d][t]: nft, the word of the next frontier it has loaded
  lock,     \* lock[d]: nextFrontierMutex, held or not
  current,  \* current[d]: the current frontier, as local indices
  visited,  \* visited[d]
  next,     \* next[d]: the next frontier
  level,    \* the level in the parameters
  levels    \* levels[d][i]: what nodeLevel holds for local node i, 0 is none

vars == <<graph, pc, pos, nbs, word, lock, current, visited, next, level, levels>>
bitmaps == <<current, visited, next>>
results == <<level, levels>>

Sized ==
  /\ Dpus \in Nat \ {0} /\ N \in Nat \ {0} /\ W \in Nat \ {0} /\ Local \in Nat \ {0}
  /\ Local % W = 0
  /\ Graphs \subseteq [Nodes -> SUBSET Nodes] /\ Source \in Nodes

Start(d) == d * Local
NodesOf(w) == {x \in Nodes : x \div W = w}

Init ==
  /\ graph \in Graphs
  /\ pc = [d \in DPU |-> [t \in Tasklets |-> "host"]]
  /\ pos = [d \in DPU |-> [t \in Tasklets |-> 0]]
  /\ nbs = [d \in DPU |-> [t \in Tasklets |-> {}]]
  /\ word = [d \in DPU |-> [t \in Tasklets |-> {}]]
  /\ lock = [d \in DPU |-> FALSE]
  /\ current = [d \in DPU |-> {}]
  /\ visited = [d \in DPU |-> {}]
  /\ next = [d \in DPU |-> IF d = 0 THEN {Source} ELSE {}]
  /\ level = 0
  /\ levels = [d \in DPU |-> [i \in 0 .. Local - 1 |-> 0]]

Goto(d, t, l) == pc' = [pc EXCEPT ![d][t] = l]

-----------------------------------------------------------------------------
Found == UNION {next[d] : d \in DPU}

(***************************************************************************)
(* All DPUs wait in wait_for_host_and_fetch().  The host unites their      *)
(* frontiers and starts a level, or tells them to exit.                    *)
(***************************************************************************)
HostTurn ==
  /\ \A d \in DPU, t \in Tasklets : pc[d][t] = "host"
  /\ LET l == IF Found = {} THEN "exit" ELSE "sweep"
     IN  pc' = [d \in DPU |-> [t \in Tasklets |-> l]]
  /\ pos' = [d \in DPU |-> [t \in Tasklets |-> t]]
  /\ next' = [d \in DPU |-> Found]
  /\ level' = level + 1
  /\ UNCHANGED <<graph, nbs, word, lock, current, visited, levels>>

\* A word of the new frontier is cleared, and kept if it is the DPU's own.
TakeWord(d, t) ==
  LET nf == next[d] \cap NodesOf(pos[d][t])
      own == {i \in 0 .. Local - 1 : i + Start(d) \in NodesOf(pos[d][t])}
      new == {i \in own : i + Start(d) \in nf}
  IN  /\ pc[d][t] = "sweep" /\ pos[d][t] \in Words
      /\ next' = [next EXCEPT ![d] = @ \ nf]
      /\ current' = [current EXCEPT ![d] = (@ \ own) \cup new]
      /\ levels' = [levels EXCEPT ![d] = [i \in DOMAIN @ |-> IF i \in new THEN level ELSE @[i]]]
      /\ pos' = [pos EXCEPT ![d][t] = @ + N]
      /\ UNCHANGED <<graph, pc, nbs, word, lock, level>>

\* Slip: the frontier is not recorded as visited.
SweepForgets(d, t) == TakeWord(d, t) /\ UNCHANGED visited

Sweep(d, t) ==
  /\ TakeWord(d, t)
  /\ visited' = [visited EXCEPT ![d] = @ \cup (next[d] \cap NodesOf(pos[d][t]))]

\* numNodesPerTasklet, and the nodes a tasklet takes.
PerTasklet == (Local + N - 1) \div N
Share(t) == {i \in 0 .. Local - 1 : t * PerTasklet <= i /\ i < (t + 1) * PerTasklet}

\* The barrier between the two halves of a level.
SweepBarrier(d) ==
  /\ \A t \in Tasklets : pc[d][t] = "sweep" /\ pos[d][t] \notin Words
  /\ pc' = [pc EXCEPT ![d] = [t \in Tasklets |-> "node"]]
  /\ pos' = [pos EXCEPT ![d] = [t \in Tasklets |-> t * PerTasklet]]
  /\ UNCHANGED <<graph, nbs, word, lock, bitmaps, results>>

Node(d, t) ==
  /\ pc[d][t] = "node" /\ pos[d][t] \in Share(t)
  /\ nbs' = [nbs EXCEPT ![d][t] =
               IF pos[d][t] \in current[d] THEN graph[pos[d][t] + Start(d)] ELSE {}]
  /\ Goto(d, t, "edge")
  /\ UNCHANGED <<graph, pos, word, lock, bitmaps, results>>

EndOfEdges(d, t) ==
  /\ pc[d][t] = "edge" /\ nbs[d][t] = {}
  /\ pos' = [pos EXCEPT ![d][t] = @ + 1]
  /\ Goto(d, t, "node")
  /\ UNCHANGED <<graph, nbs, word, lock, bitmaps, results>>

\* The order of neighborIdxs is the host's; ascending here.
Neighbour(d, t) == CHOOSE x \in nbs[d][t] : \A y \in nbs[d][t] : x <= y

Skip(d, t) ==
  /\ pc[d][t] = "edge" /\ nbs[d][t] # {} /\ Neighbour(d, t) \in visited[d]
  /\ nbs' = [nbs EXCEPT ![d][t] = @ \ {Neighbour(d, t)}]
  /\ UNCHANGED <<graph, pc, pos, word, lock, bitmaps, results>>

\* Slip: no mutex.
LockNothing(d, t) ==
  /\ pc[d][t] = "edge" /\ nbs[d][t] # {} /\ Neighbour(d, t) \notin visited[d]
  /\ Goto(d, t, "load")
  /\ UNCHANGED <<graph, pos, nbs, word, lock, bitmaps, results>>

Lock(d, t) ==
  /\ pc[d][t] = "edge" /\ nbs[d][t] # {} /\ Neighbour(d, t) \notin visited[d]
  /\ ~ lock[d]
  /\ lock' = [lock EXCEPT ![d] = TRUE]
  /\ Goto(d, t, "load")
  /\ UNCHANGED <<graph, pos, nbs, word, bitmaps, results>>

Load(d, t) ==
  /\ pc[d][t] = "load"
  /\ word' = [word EXCEPT ![d][t] = next[d] \cap NodesOf(Neighbour(d, t) \div W)]
  /\ Goto(d, t, "store")
  /\ UNCHANGED <<graph, pos, nbs, lock, bitmaps, results>>

\* Slip: the mutex is not released.
StoreKeepsLock(d, t) ==
  /\ pc[d][t] = "store"
  /\ LET x == Neighbour(d, t)
     IN  next' = [next EXCEPT ![d] = (@ \ NodesOf(x \div W)) \cup word[d][t] \cup {x}]
  /\ nbs' = [nbs EXCEPT ![d][t] = @ \ {Neighbour(d, t)}]
  /\ Goto(d, t, "edge")
  /\ UNCHANGED <<graph, pos, word, lock, current, visited, results>>

Store(d, t) ==
  /\ pc[d][t] = "store"
  /\ LET x == Neighbour(d, t)
     IN  next' = [next EXCEPT ![d] = (@ \ NodesOf(x \div W)) \cup word[d][t] \cup {x}]
  /\ nbs' = [nbs EXCEPT ![d][t] = @ \ {Neighbour(d, t)}]
  /\ lock' = [lock EXCEPT ![d] = FALSE]
  /\ Goto(d, t, "edge")
  /\ UNCHANGED <<graph, pos, word, current, visited, results>>

\* The barrier at the end of a level, and the way into the next wait.
LevelBarrier(d) ==
  /\ \A t \in Tasklets : pc[d][t] = "node" /\ pos[d][t] \notin Share(t)
  /\ pc' = [pc EXCEPT ![d] = [t \in Tasklets |-> "host"]]
  /\ UNCHANGED <<graph, pos, nbs, word, lock, bitmaps, results>>

-----------------------------------------------------------------------------
Tasklet(d, t) ==
  \/ Sweep(d, t) \/ Node(d, t) \/ EndOfEdges(d, t) \/ Skip(d, t)
  \/ Lock(d, t) \/ Load(d, t) \/ Store(d, t)

Together == HostTurn \/ \E d \in DPU : SweepBarrier(d) \/ LevelBarrier(d)

Exited == \A d \in DPU, t \in Tasklets : pc[d][t] = "exit"

Next ==
  \/ Together
  \/ \E d \in DPU, t \in Tasklets : Tasklet(d, t)
  \/ Exited /\ UNCHANGED vars

Spec == Init /\ [][Next]_vars

\* The host answers; a tasklet that can go on does; the mutex is fair enough to
\* be had by whoever wants it, since every tasklet runs out of edges.
FairSpec ==
  Init /\ [][Next]_vars /\ WF_vars(Together) /\ \A d \in DPU, t \in Tasklets : WF_vars(Tasklet(d, t))

-----------------------------------------------------------------------------
\* Ball[k]: the nodes at most k edges from Source.
Ball ==
  LET ball[k \in Nat] ==
        IF k = 0 THEN {Source}
        ELSE LET last == ball[k - 1] IN last \cup UNION {graph[x] : x \in last}
  IN  ball

-----------------------------------------------------------------------------
(***************************************************************************)
(* The inductive invariant.  Within a turn the DPUs have no part in each   *)
(* other's memory: but for what they have seen (Seen), which is the same   *)
(* for all, it is an invariant of each of them.  FrontierOK says what the  *)
(* bitmaps mean in terms of the graph: in a sweep the next frontier shrinks*)
(* word by word to nothing, and what is left of the turn gathers the       *)
(* neighbours of the nodes in the current one.                             *)
(***************************************************************************)
Expanding == {"node", "edge", "load", "store"}

TypeOK ==
  /\ graph \in Graphs
  /\ pc \in [DPU -> [Tasklets -> {"host", "sweep", "exit"} \cup Expanding]]
  /\ pos \in [DPU -> [Tasklets -> Nat]]
  /\ nbs \in [DPU -> [Tasklets -> SUBSET Nodes]] /\ word \in [DPU -> [Tasklets -> SUBSET Nodes]]
  /\ lock \in [DPU -> BOOLEAN]
  /\ current \in [DPU -> SUBSET (0 .. Local - 1)]
  /\ visited \in [DPU -> SUBSET Nodes] /\ next \in [DPU -> SUBSET Nodes]
  /\ level \in Nat /\ levels \in [DPU -> [0 .. Local - 1 -> Nat]]

In(d, S) == \A t \in Tasklets : pc[d][t] \in S

\* What a DPU has seen once it has swept the frontier.
Seen(d) == visited[d] \cup (IF In(d, {"sweep"}) THEN next[d] ELSE {})

PhaseOK ==
  /\ (\A d \in DPU : In(d, {"exit"})) \/ (\A d \in DPU : ~ In(d, {"exit"}))
  /\ level = 0 => /\ \A d \in DPU : In(d, {"host"}) /\ visited[d] = {}
                  /\ Found = {Source}
  /\ \A d, e \in DPU : Seen(d) = Seen(e)

Taken(d, w) == w < pos[d][w % N]

BitmapsOK(d) ==
  /\ In(d, {"host"}) \/ In(d, {"exit"}) \/ In(d, {"sweep"}) \/ In(d, Expanding)
  /\ next[d] \cap visited[d] = {}
  /\ In(d, {"sweep"}) =>
       /\ \A t \in Tasklets : pos[d][t] % N = t
       /\ \A w \in Words : Taken(d, w) => next[d] \cap NodesOf(w) = {}
  /\ In(d, Expanding) => \A t \in Tasklets : pos[d][t] >= t * PerTasklet
  /\ \A i \in 0 .. Local - 1 : levels[d][i] # 0 <=> i + Start(d) \in visited[d]

MutexOK(d) ==
  \A t \in Tasklets :
    /\ pc[d][t] \in {"load", "store"} =>
         /\ lock[d] /\ nbs[d][t] # {} /\ Neighbour(d, t) \notin visited[d]
         /\ \A u \in Tasklets \ {t} : pc[d][u] \notin {"load", "store"}
    /\ pc[d][t] = "store" => word[d][t] = next[d] \cap NodesOf(Neighbour(d, t) \div W)

\* The nodes at distance k from Source.
Ring(k) == IF k = 0 THEN {Source} ELSE Ball[k] \ Ball[k - 1]

\* Whether the edge from local node i to y has been looked at.
Handled(d, i, y) ==
  \E t \in Tasklets : i \in Share(t) /\
    (i < pos[d][t] \/ (i = pos[d][t] /\ pc[d][t] # "node" /\ y \notin nbs[d][t]))

FrontierOK(d) ==
  /\ \A i \in 0 .. Local - 1 : levels[d][i] # 0 =>
       levels[d][i] <= level /\ i + Start(d) \in Ring(levels[d][i] - 1)
  /\ In(d, {"sweep"}) =>
       /\ next[d] = {x \in Ring(level - 1) : ~ Taken(d, x \div W)}
       /\ \A i \in 0 .. Local - 1 : Taken(d, (i + Start(d)) \div W) =>
            (i \in current[d] <=> i + Start(d) \in Ring(level - 1))
  /\ ~ In(d, {"sweep"}) /\ level > 0 =>
       /\ \A i \in 0 .. Local - 1 : i \in current[d] <=> i + Start(d) \in Ring(level - 1)
       /\ next[d] \subseteq Ball[level]
  /\ \A t \in Tasklets : pc[d][t] \in {"edge", "load", "store"} => nbs[d][t] \subseteq Ball[level]
  /\ In(d, Expanding) \/ (In(d, {"host"}) /\ level > 0) =>
       \A i \in current[d] : \A y \in graph[i + Start(d)] :
         In(d, {"host"}) \/ Handled(d, i, y) => y \in visited[d] \cup next[d]

DistancesOK ==
  (\A d \in DPU : ~ In(d, {"exit"})) =>
    /\ level > 0 => \A d \in DPU : Seen(d) = Ball[level - 1]
    /\ \A d \in DPU : FrontierOK(d)

SearchInv ==
  TypeOK /\ PhaseOK /\ (\A d \in DPU : BitmapsOK(d) /\ MutexOK(d)) /\ DistancesOK

LevelOf(x) == levels[x \div Local][x % Local]

(***************************************************************************)
(* Between two levels the nodes found so far have their distance from the  *)
(* source as their level (counted from 1), the others have none, every DPU *)
(* has visited the same nodes, and the frontiers together hold exactly the *)
(* nodes one step further: no neighbour found by two tasklets in the same  *)
(* word is lost.                                                           *)
(***************************************************************************)
LevelsAreDistances ==
  (\A d \in DPU, t \in Tasklets : pc[d][t] = "host") =>
    /\ \A x \in Nodes :
         IF level > 0 /\ x \in Ball[level - 1]
         THEN LevelOf(x) \in 1 .. level /\ x \in Ball[LevelOf(x) - 1]
              /\ (LevelOf(x) > 1 => x \notin Ball[LevelOf(x) - 2])
         ELSE LevelOf(x) = 0
    /\ \A d \in DPU : visited[d] = IF level = 0 THEN {} ELSE Ball[level - 1]
    /\ Found = Ball[level] \ visited[0]

\* A level, once given to a node, stays.
LevelKept == \A x \in Nodes : LevelOf(x) # 0 => LevelOf(x)' = LevelOf(x)
=============================================================================
