----------------------------- MODULE RecordTable -----------------------------
(***************************************************************************)
(* What a page of records promises: a table that grows by one record per   *)
(* insertion, whose numbers stay valid; a record keeps its bytes until it  *)
(* is updated, in place and at the same length, or deleted for good.       *)
(***************************************************************************)
EXTENDS Integers, Sequences

CONSTANTS Records, Deleted

VARIABLE table      \* a function from 0 .. n-1; SlottedPage is shown to implement it

RTInit == table = [n \in {} |-> Deleted]

\* The new record takes the next number, n.
RTInsert(n, r) ==
    /\ DOMAIN table = 0 .. n - 1
    /\ table' = [m \in 0 .. n |-> IF m = n THEN r ELSE table[m]]

RTUpdate(n, r) ==
    /\ table[n] # Deleted /\ Len(table[n]) = Len(r)
    /\ table' = [table EXCEPT ![n] = r]

RTDelete(n) ==
    /\ table[n] # Deleted
    /\ table' = [table EXCEPT ![n] = Deleted]

RTNext ==
    \/ \E n \in DOMAIN table', r \in Records : RTInsert(n, r)
    \/ \E n \in DOMAIN table, r \in Records : RTUpdate(n, r)
    \/ \E n \in DOMAIN table : RTDelete(n)

RTSpec == RTInit /\ [][RTNext]_table
=============================================================================
