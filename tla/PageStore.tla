------------------------------ MODULE PageStore ------------------------------
(***************************************************************************)
(* What the storage engine below the index promises: a map from page ids   *)
(* to contents that every reader sees alike, of which an arbitrary part    *)
(* has reached the file.  A page is written back whole and at any time; an *)
(* orderly close leaves nothing behind; after a crash each page holds the  *)
(* last content that was written back; a page is initialised only if       *)
(* nothing was ever stored in it.  BufferManager is shown to implement it. *)
(***************************************************************************)
CONSTANTS Pages, Data, Zero, Fresh

VARIABLES
    current,    \* what a reader sees
    durable,    \* what the file holds
    mode        \* "open", "closed" or "crashed"

psVars == <<current, durable, mode>>

PSInit ==
    /\ current = [p \in Pages |-> Zero]
    /\ durable = [p \in Pages |-> Zero]
    /\ mode = "closed"

\* Any set of pages may be written back while something else happens.
WriteBack ==
    \E P \in SUBSET Pages :
        durable' = [p \in Pages |-> IF p \in P THEN current[p] ELSE durable[p]]

PSOpen ==
    /\ mode \in {"closed", "crashed"}
    /\ mode' = "open"
    /\ UNCHANGED <<current, durable>>

PSWrite(p, d) ==
    /\ mode = "open"
    /\ current' = [current EXCEPT ![p] = d]
    /\ WriteBack
    /\ UNCHANGED mode

\* Allocation, never of a page that holds or held something.
PSInitialise(p) ==
    /\ mode = "open"
    /\ current[p] = Zero /\ durable[p] = Zero
    /\ current' = [current EXCEPT ![p] = Fresh]
    /\ WriteBack
    /\ UNCHANGED mode

PSWriteBack ==
    /\ mode = "open"
    /\ WriteBack
    /\ UNCHANGED <<current, mode>>

PSClose ==
    /\ mode = "open"
    /\ durable = current
    /\ mode' = "closed"
    /\ UNCHANGED <<current, durable>>

PSCrash ==
    /\ mode = "open"
    /\ current' = durable
    /\ mode' = "crashed"
    /\ UNCHANGED durable

PSNext ==
    \/ PSOpen
    \/ \E p \in Pages, d \in Data : PSWrite(p, d)
    \/ \E p \in Pages : PSInitialise(p)
    \/ PSWriteBack
    \/ PSClose
    \/ PSCrash

PSSpec == PSInit /\ [][PSNext]_psVars
=============================================================================
