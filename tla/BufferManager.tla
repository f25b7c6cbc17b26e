---------------------------- MODULE BufferManager ----------------------------
(***************************************************************************)
(* BufferManager over StorageManager: a pool of frames with a page table,  *)
(* pins and an LRU list, used by clients that each hold one page at a time *)
(* (the iterators of a query, a loader, the index) and follow the          *)
(* protocol fetch or new, modify, unpin with dirty set if they modified.   *)
(* The program is one thread: a call is a step, except flushAll and the    *)
(* two destructors, which write several pages and may be cut by a crash.   *)
(* fetchPage returning nullptr leaves every variable unchanged, and is not *)
(* written as an action; newPage returning nullptr is NewPageNull.         *)
(***************************************************************************)
EXTENDS StorageManager, Sequences, FiniteSets

CONSTANTS
    PoolSize,       \* pool_size_
    Clients,
    None,           \* a client that holds no page
    StrayFetch,     \* clients also read page 0 and ids never allocated (main.cpp)
    MaxOverrun      \* allocations that fail at the limit, per opening (bound)

ASSUME PoolSizeAssumption == PoolSize \in Nat \ {0}
ASSUME ClientsAssumption == IsFiniteSet(Clients)
ASSUME NoneAssumption == None \notin PageIds
ASSUME StrayFetchAssumption == StrayFetch \in BOOLEAN
ASSUME BufferOverrunAssumption == MaxOverrun \in Nat
\* A page a client has written differs from one Page::init has just set up.
ASSUME FreshAssumption == Fresh \notin Data

VARIABLES
    store,          \* the storage state
    frames,         \* buffer_pool_
    page_table,     \* page_table_, a function on the resident pages
    lru,            \* lru_list_, front first; lru_map_ is its set of elements
    held,           \* page a client holds a pointer to
    wrote,          \* the client modified the page it holds
    pc,             \* "down", "crashed", "run", "flushAll", "closePool", "closeStore"
    i               \* index of the loop pc is in

pool == <<frames, page_table, lru>>
clients == <<held, wrote>>
vars == <<store, frames, page_table, lru, held, wrote, pc, i>>

FrameIds == 0 .. PoolSize - 1
DataPages == PageIds \ {META_PAGE_ID}

\* page_dirty is the flag inside the Page copied into the frame, dirty the frame's.
FrameType ==
    [occupied : BOOLEAN, page_id : PageIds, pin : Nat, dirty : BOOLEAN,
     page : Content, page_dirty : BOOLEAN]

EmptyFrame ==
    [occupied |-> FALSE, page_id |-> 0, pin |-> 0, dirty |-> FALSE,
     page |-> Zero, page_dirty |-> FALSE]

EmptyPool ==
    /\ frames' = [f \in FrameIds |-> EmptyFrame]
    /\ page_table' = [p \in {} |-> 0]
    /\ lru' = <<>>

Resident == DOMAIN page_table
FrameOf(p) == frames[page_table[p]]

TypeOK ==
    /\ store \in StorageType
    /\ frames \in [FrameIds -> FrameType]
    /\ page_table \in [Resident -> FrameIds] /\ Resident \subseteq PageIds
    /\ lru \in Seq(PageIds)
    /\ held \in [Clients -> PageIds \cup {None}]
    /\ wrote \in [Clients -> BOOLEAN]
    /\ pc \in {"down", "crashed", "run", "flushAll", "closePool", "closeStore"}
    /\ i \in Nat

Init ==
    /\ store = EmptyStorage
    /\ frames = [f \in FrameIds |-> EmptyFrame]
    /\ page_table = [p \in {} |-> 0]
    /\ lru = <<>>
    /\ held = [c \in Clients |-> None]
    /\ wrote = [c \in Clients |-> FALSE]
    /\ pc = "down"
    /\ i = 0

-----------------------------------------------------------------------------
(* The LRU list *)

Elements(l) == {l[k] : k \in DOMAIN l}
DropAt(l, k) == [j \in 1 .. Len(l) - 1 |-> IF j < k THEN l[j] ELSE l[j + 1]]

\* lru_remove
LruRemove(l, p) ==
    IF p \in Elements(l) THEN DropAt(l, CHOOSE k \in DOMAIN l : l[k] = p) ELSE l

\* lru_touch that inserts at the back (a mistake)
LruTouchBack(l, p) == Append(LruRemove(l, p), p)

\* lru_touch: to the front
LruTouch(l, p) == <<p>> \o LruRemove(l, p)

-----------------------------------------------------------------------------
(* fetchPage, from a storage state s that newPage may have advanced *)

FreeFrames == {f \in FrameIds : ~frames[f].occupied}

\* lru_evict walks the list from the back and skips pinned pages.
Evictable == {k \in DOMAIN lru : FrameOf(lru[k]).pin = 0}
VictimIndex == CHOOSE k \in Evictable : \A j \in Evictable : j <= k
Victim == lru[VictimIndex]

\* the storage after eviction when the dirty victim is not written (a mistake)
StoreAfterEvictLossy(s) == s

\* the storage after the victim is written back
StoreAfterEvict(s) ==
    IF FrameOf(Victim).dirty THEN WritePage(s, Victim, FrameOf(Victim).page) ELSE s

\* loadPageIntoFrame, on the frames fs and the page table without the victim
LoadedFrame(s, p) ==
    [occupied |-> TRUE, page_id |-> p, pin |-> 1, dirty |-> FALSE,
     page |-> ViewOf(s, p), page_dirty |-> p \in FetchPage(s, p).dirty]

LoadPageIntoFrame(s, f, p, kept) ==
    /\ store' = FetchPage(s, p)
    /\ frames' = [frames EXCEPT ![f] = LoadedFrame(s, p)]
    /\ page_table' = [q \in kept \cup {p} |-> IF q = p THEN f ELSE page_table[q]]

\* fetchPage that leaves a hit page in the LRU list (a mistake)
FetchHitListed(s, p) ==
    /\ p \in Resident
    /\ frames' = [frames EXCEPT ![page_table[p]].pin = @ + 1]
    /\ store' = s
    /\ UNCHANGED <<page_table, lru>>

FetchHit(s, p) ==
    /\ p \in Resident
    /\ frames' = [frames EXCEPT ![page_table[p]].pin = @ + 1]
    /\ lru' = LruRemove(lru, p)
    /\ store' = s
    /\ UNCHANGED page_table

FetchIntoFree(s, p) ==
    /\ p \notin Resident
    /\ \E f \in FreeFrames :
           /\ \A g \in FreeFrames : f <= g
           /\ LoadPageIntoFrame(s, f, p, Resident)
    /\ UNCHANGED lru

\* eviction that leaves the victim in the page table (a mistake)
FetchIntoVictimStale(s, p) ==
    /\ p \notin Resident
    /\ FreeFrames = {} /\ Evictable # {}
    /\ LoadPageIntoFrame(StoreAfterEvict(s), page_table[Victim], p, Resident)
    /\ lru' = DropAt(lru, VictimIndex)

FetchIntoVictim(s, p) ==
    /\ p \notin Resident
    /\ FreeFrames = {} /\ Evictable # {}
    /\ LoadPageIntoFrame(StoreAfterEvict(s), page_table[Victim], p, Resident \ {Victim})
    /\ lru' = DropAt(lru, VictimIndex)

TakePage(s, c, p) ==
    /\ FetchHit(s, p) \/ FetchIntoFree(s, p) \/ FetchIntoVictim(s, p)
    /\ held' = [held EXCEPT ![c] = p]
    /\ UNCHANGED <<wrote, pc, i>>

\* Pages a client asks for: those allocated, or any page.
Fetchable == IF StrayFetch THEN PageIds ELSE {p \in DataPages : p < store.next}

Fetch(c, p) ==
    /\ pc = "run"
    /\ held[c] = None
    /\ p \in Fetchable
    /\ TakePage(store, c, p)

\* An id past MAX_PAGES: the storage throws after the victim's frame was freed.
FetchOutOfRange ==
    /\ pc = "run"
    /\ FreeFrames = {} /\ Evictable # {}
    /\ store' = StoreAfterEvict(store)
    /\ frames' = [frames EXCEPT ![page_table[Victim]] =
                     [@ EXCEPT !.occupied = FALSE, !.pin = 0, !.dirty = FALSE]]
    /\ page_table' = [q \in Resident \ {Victim} |-> page_table[q]]
    /\ lru' = DropAt(lru, VictimIndex)
    /\ UNCHANGED <<clients, pc, i>>

NewPage(c) ==
    /\ pc = "run"
    /\ held[c] = None
    /\ store.next < MaxPages
    /\ TakePage(AllocatePage(store), c, store.next)

\* The page is allocated, but no frame can take it: its id is lost to the caller.
NewPageNull ==
    /\ pc = "run"
    /\ store.next < MaxPages
    /\ store.next \notin Resident
    /\ FreeFrames = {} /\ Evictable = {}
    /\ store' = AllocatePage(store)
    /\ UNCHANGED <<pool, clients, pc, i>>

\* StorageManager::allocatePage, called directly or by a newPage that throws.
Allocate ==
    /\ pc = "run"
    /\ store.next < MaxPages + MaxOverrun
    /\ store' = AllocatePage(store)
    /\ UNCHANGED <<pool, clients, pc, i>>

-----------------------------------------------------------------------------
(* The client, unpinPage and flushPage *)

\* A record or node written through the pointer.  Pages read astray are only read.
Modify(c, d) ==
    /\ pc = "run"
    /\ held[c] # None /\ held[c] \in 1 .. store.next - 1
    /\ frames' = [frames EXCEPT ![page_table[held[c]]] =
                     [@ EXCEPT !.page = d, !.page_dirty = TRUE]]
    /\ wrote' = [wrote EXCEPT ![c] = TRUE]
    /\ UNCHANGED <<store, page_table, lru, held, pc, i>>

\* unpinPage that overwrites the frame's dirty flag (a mistake)
UnpinPageForgets(p, dirty) ==
    LET pin == FrameOf(p).pin - 1 IN
    /\ frames' = [frames EXCEPT ![page_table[p]] = [@ EXCEPT !.pin = pin, !.dirty = dirty]]
    /\ lru' = IF pin = 0 THEN LruTouch(lru, p) ELSE lru

\* unpinPage that drops the pins of the other clients too (a mistake)
UnpinPageAll(p, dirty) ==
    /\ frames' = [frames EXCEPT ![page_table[p]] =
                     [FrameOf(p) EXCEPT !.pin = 0, !.dirty = @ \/ dirty]]
    /\ lru' = LruTouch(lru, p)

UnpinPage(p, dirty) ==
    LET pin == FrameOf(p).pin - 1 IN
    IF p \notin Resident \/ FrameOf(p).pin = 0
    THEN UNCHANGED <<frames, lru>>
    ELSE /\ frames' = [frames EXCEPT ![page_table[p]] =
                          [FrameOf(p) EXCEPT !.pin = pin, !.dirty = @ \/ dirty]]
         /\ lru' = IF pin = 0 THEN LruTouch(lru, p) ELSE lru

\* A client that modified says so; one that did not may still say it did, but not of a
\* page read astray.
Unpin(c, dirty) ==
    /\ pc = "run"
    /\ held[c] # None
    /\ wrote[c] => dirty
    /\ dirty => held[c] \in 1 .. store.next - 1
    /\ UnpinPage(held[c], dirty)
    /\ held' = [held EXCEPT ![c] = None]
    /\ wrote' = [wrote EXCEPT ![c] = FALSE]
    /\ UNCHANGED <<store, page_table, pc, i>>

\* a flush that skips the frames in use (a mistake)
FlushFrameUnpinned(f) ==
    IF frames[f].occupied /\ frames[f].dirty /\ frames[f].pin = 0
    THEN /\ store' = WritePage(store, frames[f].page_id, frames[f].page)
         /\ frames' = [frames EXCEPT ![f].dirty = FALSE]
    ELSE UNCHANGED <<store, frames>>

\* Write a frame back if it is dirty, as flushPage, flushAll and lru_evict do.
FlushFrame(f) ==
    IF frames[f].occupied /\ frames[f].dirty
    THEN /\ store' = WritePage(store, frames[f].page_id, frames[f].page)
         /\ frames' = [frames EXCEPT ![f].dirty = FALSE]
    ELSE UNCHANGED <<store, frames>>

FlushPageCall(p) ==
    /\ pc = "run"
    /\ p \in Resident
    /\ FlushFrame(page_table[p])
    /\ UNCHANGED <<page_table, lru, clients, pc, i>>

-----------------------------------------------------------------------------
(* flushAll, the destructors, crash and restart *)

BeginLoop(from, to) ==
    /\ pc = from
    /\ pc' = to
    /\ i' = 0

FlushAll ==
    /\ BeginLoop("run", "flushAll")
    /\ UNCHANGED <<store, pool, clients>>

\* BufferManager is destroyed when nobody holds a page.
Close ==
    /\ \A c \in Clients : held[c] = None
    /\ BeginLoop("run", "closePool")
    /\ UNCHANGED <<store, pool, clients>>

FlushStep ==
    /\ pc \in {"flushAll", "closePool"}
    /\ i < PoolSize
    /\ FlushFrame(i)
    /\ i' = i + 1
    /\ UNCHANGED <<page_table, lru, clients, pc>>

EndFlushAll ==
    /\ i >= PoolSize
    /\ BeginLoop("flushAll", "run")
    /\ UNCHANGED <<store, pool, clients>>

EndClosePool ==
    /\ i >= PoolSize
    /\ BeginLoop("closePool", "closeStore")
    /\ EmptyPool
    /\ UNCHANGED <<store, clients>>

CloseStoreStep ==
    /\ pc = "closeStore"
    /\ i < store.next
    /\ store' = ClosePage(store, i)
    /\ i' = i + 1
    /\ UNCHANGED <<pool, clients, pc>>

EndCloseStore ==
    /\ i >= store.next
    /\ BeginLoop("closeStore", "down")
    /\ store' = LoseMemory(store)
    /\ UNCHANGED <<pool, clients>>

Crash ==
    /\ pc \notin {"down", "crashed"}
    /\ store' = LoseMemory(store)
    /\ EmptyPool
    /\ held' = [c \in Clients |-> None]
    /\ wrote' = [c \in Clients |-> FALSE]
    /\ pc' = "crashed"
    /\ i' = 0

Open ==
    /\ pc \in {"down", "crashed"}
    /\ store' = OpenStorage(store)
    /\ pc' = "run"
    /\ UNCHANGED <<pool, clients, i>>

Next ==
    \/ Open
    \/ \E c \in Clients, p \in PageIds : Fetch(c, p)
    \/ FetchOutOfRange
    \/ \E c \in Clients : NewPage(c)
    \/ NewPageNull
    \/ Allocate
    \/ \E c \in Clients, d \in Data : Modify(c, d)
    \/ \E c \in Clients, dirty \in BOOLEAN : Unpin(c, dirty)
    \/ \E p \in PageIds : FlushPageCall(p)
    \/ FlushAll
    \/ Close
    \/ FlushStep
    \/ EndFlushAll
    \/ EndClosePool
    \/ CloseStoreStep
    \/ EndCloseStore
    \/ Crash

Spec == Init /\ [][Next]_vars

-----------------------------------------------------------------------------
(* Properties *)

\* The page table and the frames name each other: no page sits in two frames, no
\* occupied frame is unreachable, after any sequence of hits, evictions and failures.
PageTableMatchesFrames ==
    /\ \A p \in Resident : FrameOf(p).occupied /\ FrameOf(p).page_id = p
    /\ \A f \in FrameIds : frames[f].occupied =>
           frames[f].page_id \in Resident /\ page_table[frames[f].page_id] = f

\* The LRU list holds each resident page nobody has pinned, once, and no other page
\* (the comment on lru_list_ in BufferManager.hpp): lru_evict sees every victim there is.
LruListsUnpinned ==
    /\ Elements(lru) = {p \in Resident : FrameOf(p).pin = 0}
    /\ \A j, k \in DOMAIN lru : lru[j] = lru[k] => j = k

\* A frame has one pin for each client that holds a pointer into it, so that no frame
\* is reused under a pointer and none stays pinned when its last client lets go.
PinsCountHolders ==
    /\ \A p \in Resident : FrameOf(p).pin = Cardinality({c \in Clients : held[c] = p})
    /\ \A c \in Clients : held[c] # None => held[c] \in Resident

Settled(p) == \A c \in Clients : ~(held[c] = p /\ wrote[c])

\* A frame that eviction and flushAll would drop without writing holds what the storage
\* holds (of the two copies of the page in memory, the frame's is never the newer one).
CleanFramesCoherent ==
    \A p \in Resident : ~FrameOf(p).dirty /\ Settled(p) => FrameOf(p).page = ViewOf(store, p)

\* When flushAll returns, each change whose unpin said dirty is in the file.
FlushAllIsDurable ==
    [][EndFlushAll => \A p \in Resident :
           Settled(p) /\ FrameOf(p).page \in Data => store.disk[p] = FrameOf(p).page]_vars

\* newPage hands out an initialised page, over whatever the storage has read for it before,
\* unless its id was read before it was allocated and is still in the pool.
NewPageIsInitialised ==
    [][\A c \in Clients :
           NewPage(c) /\ held'[c] \notin Resident =>
               frames'[page_table'[held'[c]]].page = Fresh]_vars

\* The pool and the storage under it are a page store: readers see one content per page,
\* an orderly close keeps all of it, a crash keeps what was written back.
StoreMode == CASE pc = "down" -> "closed" [] pc = "crashed" -> "crashed" [] OTHER -> "open"
CurrentPage(p) ==
    IF StoreMode # "open" THEN DiskRead(store, p)
    ELSE IF p \in Resident THEN FrameOf(p).page
    ELSE ViewOf(store, p)

PS == INSTANCE PageStore WITH
    Pages <- DataPages,
    current <- [p \in DataPages |-> CurrentPage(p)],
    durable <- [p \in DataPages |-> DiskRead(store, p)],
    mode <- StoreMode

ImplementsPageStore == PS!PSSpec
=============================================================================
