------------------------------ MODULE BufferLRU ------------------------------
(***************************************************************************)
(* BufferManager with a history of the accesses to pages, against which    *)
(* the replacement policy is judged: the list lru_list_ is the mechanism,  *)
(* "least recently used" the promise.                                      *)
(***************************************************************************)
EXTENDS BufferManager

VARIABLE since      \* history: the pages fetched or unpinned since this one was

\* The page a step of a client touches, if any.
Touched == {held[c] : c \in {c \in Clients : held'[c] # held[c] /\ held[c] # None}}
           \cup {held'[c] : c \in {c \in Clients : held'[c] # held[c] /\ held'[c] # None}}

LRUInit == Init /\ since = [p \in PageIds |-> {}]

LRUNext ==
    /\ Next
    /\ since' = [p \in PageIds |->
                    IF pc' = "crashed" \/ p \in Touched THEN {} ELSE since[p] \cup Touched]

LRUSpec == LRUInit /\ [][LRUNext]_<<vars, since>>

\* The page evicted is, of all resident pages without a pin, the one whose last fetch
\* or unpin is the oldest, whatever hits, nested pins and failed fetches came between.
EvictsLeastRecentlyUsed ==
    [][pc = "run" /\ pc' = "run" =>
           \A v \in Resident \ DOMAIN page_table' :
               \A q \in Resident \ {v} : FrameOf(q).pin = 0 => q \in since[v]]_<<vars, since>>
=============================================================================
