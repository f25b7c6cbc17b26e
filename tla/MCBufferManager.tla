--------------------------- MODULE MCBufferManager ---------------------------
(* BufferManager with model values for clients and contents.                 *)
EXTENDS BufferManager, TLC
CONSTANTS c1, c2, c3, d1, d2

Symmetry == Permutations(Clients) \cup Permutations(Data)
=============================================================================
