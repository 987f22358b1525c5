--------------------------- MODULE MCChachaCrypt ---------------------------
EXTENDS ChachaCrypt

\* Buffers of up to eight whole blocks, and of any number of units.
WholeBlocks == {4 * n : n \in 0 .. 8}
AnyLength == 0 .. 12
=============================================================================
