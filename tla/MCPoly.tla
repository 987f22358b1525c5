---- MODULE MCPoly ----
\* Poly1305 from poly_init() on, with small and large blocks.
EXTENDS Poly1305

SomeBlocks == 0 .. 127 \cup Bits4 - 128 .. Bits4 - 1
====
