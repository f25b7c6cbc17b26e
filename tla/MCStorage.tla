------------------------------ MODULE MCStorage ------------------------------
(* StorageFaults on a file of three pages, with model values for contents.   *)
EXTENDS StorageFaults, TLC
CONSTANTS d1, d2

DataSymmetry == Permutations(Data)
=============================================================================
