----------------------------- MODULE MCBufferLRU -----------------------------
(* BufferLRU with model values for clients and contents.                     *)
EXTENDS BufferLRU, TLC
CONSTANTS c1, c2, c3, d1

Symmetry == Permutations(Clients)
=============================================================================
