------------------------------- MODULE Storage -------------------------------
(***************************************************************************)
(* A program that uses StorageManager directly, as the storage tests do:   *)
(* it opens the file, allocates pages, changes them through the pointer    *)
(* fetchPage returns, writes and flushes them, moves the root of the index *)
(* and closes the file.  The process may die between any two steps, also   *)
(* between two writes of the destructor, and start again.                  *)
(***************************************************************************)
EXTENDS StorageManager

CONSTANTS
    MaxOverrun  \* allocations that fail at the limit, per opening (bound)

ASSUME MaxOverrunAssumption == MaxOverrun \in Nat

VARIABLES
    store,      \* the storage state
    pc,         \* "down", "open" or "closing" (inside ~StorageManager)
    i,          \* index of the destructor's loop
    handed,     \* history: ids allocatePage has returned since the file exists
    latest,     \* history: last content given to each page, or what a crash left of it
    lastRoot    \* history: last argument of setRootPageId, 0 before the first call

vars == <<store, pc, i, handed, latest, lastRoot>>

TypeOK ==
    /\ store \in StorageType
    /\ pc \in {"down", "open", "closing"}
    /\ i \in Nat
    /\ handed \subseteq PageIds \ {META_PAGE_ID}
    /\ latest \in [PageIds -> Content]
    /\ lastRoot \in Nat

Init ==
    /\ store = EmptyStorage
    /\ pc = "down"
    /\ i = 0
    /\ handed = {}
    /\ latest = [p \in PageIds |-> Zero]
    /\ lastRoot = 0

Open ==
    /\ pc = "down"
    /\ store' = OpenStorage(store)
    /\ pc' = "open"
    /\ UNCHANGED <<i, handed, latest, lastRoot>>

Fetch(p) ==
    /\ pc = "open"
    /\ store' = FetchPage(store, p)
    /\ UNCHANGED <<pc, i, handed, latest, lastRoot>>

\* A record operation on a page fetched or allocated earlier.
Modify(p, d) ==
    /\ pc = "open"
    /\ p \in handed \cap store.loaded
    /\ store' = ModifyPage(store, p, d)
    /\ latest' = [latest EXCEPT ![p] = d]
    /\ UNCHANGED <<pc, i, handed, lastRoot>>

Write(p, d) ==
    /\ pc = "open"
    /\ p \in handed
    /\ store' = WritePage(store, p, d)
    /\ latest' = [latest EXCEPT ![p] = d]
    /\ UNCHANGED <<pc, i, handed, lastRoot>>

Flush(p) ==
    /\ pc = "open"
    /\ p \in store.loaded
    /\ store' = FlushPage(store, p)
    /\ UNCHANGED <<pc, i, handed, latest, lastRoot>>

Allocate ==
    /\ pc = "open"
    /\ store.next < MaxPages + MaxOverrun
    /\ store' = AllocatePage(store)
    /\ IF store.next < MaxPages
       THEN /\ handed' = handed \cup {store.next}
            /\ latest' = [latest EXCEPT ![store.next] = Fresh]
       ELSE UNCHANGED <<handed, latest>>
    /\ UNCHANGED <<pc, i, lastRoot>>

SetRoot(p) ==
    /\ pc = "open"
    /\ store' = SetRootPageId(store, p)
    /\ lastRoot' = p
    /\ UNCHANGED <<pc, i, handed, latest>>

BeginClose ==
    /\ pc = "open"
    /\ pc' = "closing"
    /\ i' = 0
    /\ UNCHANGED <<store, handed, latest, lastRoot>>

\* An iteration of ~StorageManager.  After a failed allocation the loop runs past
\* the end of loaded_: the spare bits of its last word read as false.
CloseStep ==
    /\ pc = "closing"
    /\ i < store.next
    /\ store' = ClosePage(store, i)
    /\ i' = i + 1
    /\ UNCHANGED <<pc, handed, latest, lastRoot>>

EndClose ==
    /\ pc = "closing"
    /\ i >= store.next
    /\ store' = LoseMemory(store)
    /\ pc' = "down"
    /\ i' = 0
    /\ UNCHANGED <<handed, latest, lastRoot>>

\* The process dies; the operating system keeps what write() gave it.
Crash ==
    /\ pc \in {"open", "closing"}
    /\ store' = LoseMemory(store)
    /\ latest' = [p \in PageIds |-> DiskRead(store, p)]
    /\ pc' = "down"
    /\ i' = 0
    /\ UNCHANGED <<handed, lastRoot>>

Next ==
    \/ Open
    \/ \E p \in PageIds : Fetch(p)
    \/ \E p \in PageIds, d \in Data : Modify(p, d)
    \/ \E p \in PageIds, d \in Data : Write(p, d)
    \/ \E p \in PageIds : Flush(p)
    \/ Allocate
    \/ \E p \in PageIds : SetRoot(p)
    \/ BeginClose
    \/ CloseStep
    \/ EndClose
    \/ Crash

Spec == Init /\ [][Next]_vars

-----------------------------------------------------------------------------
(* Properties *)

\* The meta page of the file, with next_page_id_ = 1 and no root before it exists.
DiskMeta == IF store.numPages = 0 THEN Meta(1, 0) ELSE AsMeta(store.disk[META_PAGE_ID])

\* allocatePage never returns an id it has returned before, whatever crashes and
\* restarts lie between the two calls (the promise above saveMeta and loadMeta in
\* StorageManager.hpp).
AllocatesUnusedPage ==
    [][Allocate /\ store.next < MaxPages => store.next \notin handed]_vars

\* Every id handed out is below the counter in the file, and below the one in memory:
\* the file knows of the allocation before the caller does.
CounterCoversHanded ==
    \A p \in handed : p < DiskMeta.next /\ (pc # "down" => p < store.next)

\* The counter in the file is always one loadMeta accepts, and the meta page in memory
\* is the one in the file, so that a write of the root never takes the counter back.
MetaCoherent ==
    /\ DiskMeta.next \in 1 .. MaxPages
    /\ pc # "down" =>
         /\ store.numPages > 0
         /\ META_PAGE_ID \in store.loaded \ store.dirty
         /\ store.cache[META_PAGE_ID] = store.disk[META_PAGE_ID]

\* getRootPageId returns the last root set, also after a crash or a restart.
RootSurvives ==
    /\ DiskMeta.root = lastRoot
    /\ pc # "down" => GetRootPageId(store) = lastRoot

\* A page in memory whose dirty flag is off equals the page in the file, so that
\* the destructor and flushPage may skip it.
CleanPagesMatchFile ==
    \A p \in store.loaded \ store.dirty : store.cache[p] = DiskRead(store, p)

\* A page reads as it was last written; after an orderly close the file holds the last
\* content of every page, after a crash what had reached it.
NoUpdateLost ==
    \A p \in handed :
        latest[p] = IF pc = "down" THEN DiskRead(store, p) ELSE ViewOf(store, p)
=============================================================================
