----------------------------- MODULE SparseRows -----------------------------
(***************************************************************************)
(* The sparse matrix-vector product of SpMV/main.c.  The rows are shared   *)
(* out evenly, an even number to each tasklet.  A tasklet reads the        *)
(* nonzeros of its rows in sequence, keeps one tile of the input vector in *)
(* WRAM and replaces it when a column lies in another, and writes its      *)
(* results tile by tile.                                                   *)
(*                                                                         *)
(* A result is the list of the products that were added up: the nonzero    *)
(* and the element of the vector it was multiplied with.                   *)
(***************************************************************************)
EXTENDS Integers, Sequences

CONSTANTS
  N,        \* NR_TASKLETS
  Tile,     \* inVectorTileSize and outVectorTileSize, even
  Matrices  \* the matrices: an even number of rows, each a sequence of columns

Sized ==
  /\ N \in Nat \ {0} /\ Tile \in Nat \ {0}
  /\ \A m \in Matrices : m \in Seq(Seq(Nat))

Tasklets == 0 .. N - 1

VARIABLES
  matrix,   \* the rows of the DPU
  pc,       \* pc[t]
  row,      \* row[t]: the row, from the tasklet's first
  nz,       \* nz[t]: nzIdx
  sum,      \* sum[t]: outValue
  inTile,   \* inTile[t]: currInVectorTileIdx
  inVector, \* inVector[t]: inVectorTile_w, with the elements of the vector as their numbers
  outTile,  \* outTile[t]: outVectorTile_w
  y         \* the output vector in MRAM, a function on rows

vars == <<matrix, pc, row, nz, sum, inTile, inVector, outTile, y>>

NumRows == Len(matrix)

\* Rounded up to a multiple of 2.
PerTasklet ==
  IF NumRows = 0 THEN 0
  ELSE LET p == (NumRows - 1) \div N + 1 IN p + (p % 2)

First(t) == t * PerTasklet

RowsOf(t) ==
  IF First(t) > NumRows THEN 0
  ELSE IF First(t) + PerTasklet > NumRows THEN NumRows - First(t) ELSE PerTasklet

\* The columns of the nonzeros of a row.
Columns(r) == matrix[r + 1]

\* The elements of a tile of the input vector.
TileAt(n) == [o \in 0 .. Tile - 1 |-> n * Tile + o]

\* The first tile is read ahead.
Init ==
  /\ matrix \in Matrices
  /\ pc = [t \in Tasklets |-> "row"]
  /\ row = [t \in Tasklets |-> 0]
  /\ nz = [t \in Tasklets |-> 0]
  /\ sum = [t \in Tasklets |-> <<>>]
  /\ inTile = [t \in Tasklets |-> 0]
  /\ inVector = [t \in Tasklets |-> TileAt(0)]
  /\ outTile = [t \in Tasklets |-> [o \in 0 .. Tile - 1 |-> <<>>]]
  /\ y = [r \in 0 .. NumRows - 1 |-> <<>>]

-----------------------------------------------------------------------------
\* The tile is read if the number kept is another one.
Loaded(t, wanted) == IF wanted # inTile[t] THEN TileAt(wanted) ELSE inVector[t]

\* The next nonzero of the row, with the element of the tile that is there.
Multiply(t) ==
  /\ pc[t] = "row" /\ row[t] < RowsOf(t)
  /\ LET r == First(t) + row[t]
     IN  /\ nz[t] < Len(Columns(r))
         /\ LET col  == Columns(r)[nz[t] + 1]
                tile == Loaded(t, col \div Tile)
            IN  /\ sum' = [sum EXCEPT ![t] = Append(@, <<r, nz[t] + 1, tile[col % Tile]>>)]
                /\ inTile' = [inTile EXCEPT ![t] = col \div Tile]
                /\ inVector' = [inVector EXCEPT ![t] = tile]
  /\ nz' = [nz EXCEPT ![t] = @ + 1]
  /\ UNCHANGED <<matrix, pc, row, outTile, y>>

\* The row is done; its tile of results is written when it is full or the rows
\* are done.
Store(t) ==
  /\ pc[t] = "row" /\ row[t] < RowsOf(t) /\ nz[t] >= Len(Columns(First(t) + row[t]))
  /\ LET o    == row[t] % Tile
         base == First(t) + (row[t] \div Tile) * Tile
         full == [outTile[t] EXCEPT ![o] = sum[t]]
         size == IF o = Tile - 1 THEN Tile
                 ELSE IF row[t] = RowsOf(t) - 1 THEN RowsOf(t) % Tile ELSE 0
     IN  /\ outTile' = [outTile EXCEPT ![t] = full]
         /\ y' = [r \in DOMAIN y \cup base .. base + size - 1 |->
                   IF r \in base .. base + size - 1 THEN full[r - base] ELSE y[r]]
  /\ row' = [row EXCEPT ![t] = @ + 1]
  /\ nz' = [nz EXCEPT ![t] = 0] /\ sum' = [sum EXCEPT ![t] = <<>>]
  /\ UNCHANGED <<matrix, pc, inTile, inVector>>

RowsDone(t) ==
  /\ pc[t] = "row" /\ row[t] >= RowsOf(t)
  /\ pc' = [pc EXCEPT ![t] = "end"]
  /\ UNCHANGED <<matrix, row, nz, sum, inTile, inVector, outTile, y>>

-----------------------------------------------------------------------------
\* The barrier at the end.
Ended == \A t \in Tasklets : pc[t] = "end"

Next == (\E t \in Tasklets : Multiply(t) \/ Store(t) \/ RowsDone(t)) \/ (Ended /\ UNCHANGED vars)

-----------------------------------------------------------------------------
(***************************************************************************)
(* The inductive invariant: what has been summed up of a row, what is in   *)
(* the tile of results, and what has been written.                         *)
(***************************************************************************)
TypeOK ==
  /\ matrix \in Seq(Seq(Nat))
  /\ pc \in [Tasklets -> {"row", "end"}]
  /\ row \in [Tasklets -> Nat] /\ nz \in [Tasklets -> Nat]
  /\ DOMAIN sum = Tasklets /\ inTile \in [Tasklets -> Nat] /\ DOMAIN inVector = Tasklets
  /\ DOMAIN outTile = Tasklets
  /\ DOMAIN y = 0 .. NumRows - 1

\* The first n products of row r.
Summed(r, n) == [k \in 1 .. n |-> <<r, k, Columns(r)[k]>>]

Right(r) == Summed(r, Len(Columns(r)))

SumOK(t) ==
  IF row[t] < RowsOf(t)
  THEN LET r == First(t) + row[t]
       IN  nz[t] <= Len(Columns(r)) /\ sum[t] = Summed(r, nz[t])
  ELSE row[t] = RowsOf(t) /\ nz[t] = 0 /\ sum[t] = <<>>

\* The number kept is that of the tile in WRAM.
CacheOK(t) == inVector[t] = TileAt(inTile[t])

\* The rows of the tile being filled, and those written.
TileStart(t) == row[t] - (row[t] % Tile)

TileOK(t) ==
  /\ DOMAIN outTile[t] = 0 .. Tile - 1
  /\ \A o \in 0 .. Tile - 1 : o < row[t] % Tile =>
       outTile[t][o] = Right(First(t) + TileStart(t) + o)

WrittenOK(t) ==
  \A k \in 0 .. RowsOf(t) - 1 :
    k < TileStart(t) \/ row[t] = RowsOf(t) => y[First(t) + k] = Right(First(t) + k)

RowsInv ==
  /\ TypeOK
  /\ \A t \in Tasklets :
       /\ SumOK(t) /\ CacheOK(t) /\ TileOK(t) /\ WrittenOK(t)
       /\ pc[t] = "end" => row[t] = RowsOf(t)

-----------------------------------------------------------------------------
(***************************************************************************)
(* In the end every row holds its nonzeros, each multiplied with the       *)
(* element of the vector that its column names.                            *)
(***************************************************************************)
RowsSummed ==
  Ended => \A r \in 0 .. NumRows - 1 :
    y[r] = [n \in 1 .. Len(matrix[r + 1]) |-> <<r, n, matrix[r + 1][n]>>]
=============================================================================
