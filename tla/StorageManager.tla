--------------------------- MODULE StorageManager ---------------------------
(***************************************************************************)
(* DiskManager and StorageManager as operators on a storage state: every   *)
(* method that changes state is an operator that takes the state before    *)
(* the call and returns the state after it.  The state machines that call  *)
(* them are Storage (a client of StorageManager alone) and BufferManager.  *)
(*                                                                         *)
(* A storage state is a record with fields                                 *)
(*   disk      what read() returns for each page of the file               *)
(*   numPages  length of the file in pages           (num_pages_)          *)
(*   next      next page id to hand out              (next_page_id_)       *)
(*   loaded    ids of the pages held in memory       (loaded_)             *)
(*   cache     contents of the pages in memory       (pages_[p].data)      *)
(*   dirty     ids of the pages marked modified      (pages_[p].dirty)     *)
(* disk and numPages survive the end of the process, the others do not.    *)
(***************************************************************************)
EXTENDS Integers

CONSTANTS
    MaxPages,   \* MAX_PAGES
    Data,       \* contents a client can give to a page
    Zero,       \* 4096 zero bytes: a page the file does not hold
    Fresh       \* a page as Page::init leaves it: header set, no record

ASSUME MaxPagesAssumption == MaxPages \in Nat \ {0}

PageIds == 0 .. MaxPages - 1
META_PAGE_ID == 0

\* The meta page holds next_page_id_ and the root of the B+ tree.
Meta(next, root) == [next |-> next, root |-> root]
Metas == [next : Nat, root : Nat]

Content == Data \cup {Zero, Fresh} \cup Metas

StorageType ==
    [disk : [PageIds -> Content], numPages : 0 .. MaxPages, next : Nat \ {0},
     loaded : SUBSET PageIds, cache : [PageIds -> Content], dirty : SUBSET PageIds]

\* The storage before the file exists.
EmptyStorage ==
    [disk |-> [p \in PageIds |-> Zero], numPages |-> 0, next |-> 1,
     loaded |-> {}, cache |-> [p \in PageIds |-> Zero], dirty |-> {}]

-----------------------------------------------------------------------------
(* DiskManager *)

\* A page past the end of the file reads as zeros.
DiskRead(s, p) == IF p < s.numPages THEN s.disk[p] ELSE Zero

DiskWrite(s, p, c) ==
    [s EXCEPT !.disk[p] = c, !.numPages = IF p >= @ THEN p + 1 ELSE @]

-----------------------------------------------------------------------------
(* StorageManager *)

\* saveMeta before next_page_id_ is copied into the page (a mistake)
SaveMetaStale(s) ==
    [DiskWrite(s, META_PAGE_ID, s.cache[META_PAGE_ID]) EXCEPT !.dirty = @ \ {META_PAGE_ID}]

\* The meta page is changed in memory and written at once.
PutMeta(s, m) ==
    DiskWrite([s EXCEPT !.cache[META_PAGE_ID] = m, !.dirty = @ \ {META_PAGE_ID}],
              META_PAGE_ID, m)

SaveMeta(s) == PutMeta(s, Meta(s.next, s.cache[META_PAGE_ID].root))

\* The fields of the meta page; a page of zeros has both equal to 0.
AsMeta(c) == IF c \in Metas THEN c ELSE Meta(0, 0)

LoadMeta(s) ==
    LET m == AsMeta(DiskRead(s, META_PAGE_ID)) IN
    [s EXCEPT !.cache[META_PAGE_ID] = m,
              !.loaded = @ \cup {META_PAGE_ID},
              !.dirty = @ \ {META_PAGE_ID},
              !.next = IF m.next = 0 \/ m.next > MaxPages THEN 1 ELSE m.next]

\* The constructor: memory starts empty, the meta page is read or created.
OpenStorage(s) ==
    LET m == [s EXCEPT !.next = 1, !.loaded = {}, !.dirty = {},
                       !.cache = [p \in PageIds |-> Zero]] IN
    IF s.numPages > 0
    THEN LoadMeta(m)
    ELSE SaveMeta([m EXCEPT !.cache[META_PAGE_ID] = Meta(0, 0),
                            !.loaded = {META_PAGE_ID}])

\* What the process leaves behind when it ends: the file.
LoseMemory(s) ==
    [s EXCEPT !.next = 1, !.loaded = {}, !.dirty = {},
              !.cache = [p \in PageIds |-> Zero]]

FetchPage(s, p) ==
    IF p \in s.loaded THEN s
    ELSE [s EXCEPT !.cache[p] = DiskRead(s, p),
                   !.dirty = @ \ {p},
                   !.loaded = @ \cup {p}]

\* A record operation through the pointer fetchPage returned; it sets Page::dirty.
ModifyPage(s, p, c) == [s EXCEPT !.cache[p] = c, !.dirty = @ \cup {p}]

\* flushPage that forgets to look at the dirty flag of the page it holds (a mistake)
FlushPageDropped(s, p) == [s EXCEPT !.dirty = @ \ {p}]

\* flushPage; it throws, and changes nothing, for a page that is not loaded.
FlushPage(s, p) ==
    IF p \in s.dirty
    THEN [DiskWrite(s, p, s.cache[p]) EXCEPT !.dirty = @ \ {p}]
    ELSE s

\* writePage without the copy into the cache (a mistake)
WritePageNoSync(s, p, c) == DiskWrite(s, p, c)

WritePage(s, p, c) ==
    LET d == DiskWrite(s, p, c) IN
    IF p \in s.loaded
    THEN [d EXCEPT !.cache[p] = c, !.dirty = @ \ {p}]
    ELSE d

\* allocatePage with the limit checked after the meta page is saved (a mistake)
AllocatePageLate(s) ==
    LET t == SaveMeta([s EXCEPT !.next = @ + 1]) IN
    IF s.next >= MaxPages THEN t
    ELSE [t EXCEPT !.cache[s.next] = Fresh, !.loaded = @ \cup {s.next},
                   !.dirty = @ \cup {s.next}]

\* allocatePage that leaves in memory what was read there before (a mistake)
AllocatePageRaw(s) ==
    IF s.next >= MaxPages
    THEN [s EXCEPT !.next = @ + 1]
    ELSE SaveMeta([s EXCEPT !.next = @ + 1,
                            !.loaded = @ \cup {s.next},
                            !.dirty = @ \cup {s.next}])

\* allocatePage; the id it returns is s.next.  The counter is incremented before
\* the limit is checked, so a call that throws has changed it.
AllocatePage(s) ==
    IF s.next >= MaxPages
    THEN [s EXCEPT !.next = @ + 1]
    ELSE SaveMeta([s EXCEPT !.next = @ + 1,
                            !.cache[s.next] = Fresh,
                            !.loaded = @ \cup {s.next},
                            !.dirty = @ \cup {s.next}])

\* setRootPageId that leaves the write to the destructor (a mistake)
SetRootPageIdDeferred(s, root) ==
    [s EXCEPT !.cache[META_PAGE_ID] = [@ EXCEPT !.root = root], !.dirty = @ \cup {META_PAGE_ID}]

SetRootPageId(s, root) == PutMeta(s, [s.cache[META_PAGE_ID] EXCEPT !.root = root])

GetRootPageId(s) == s.cache[META_PAGE_ID].root

\* The content fetchPage would return: the page in memory, else the page in the file.
ViewOf(s, p) == IF p \in s.loaded THEN s.cache[p] ELSE DiskRead(s, p)

\* One iteration of the destructor's loop.
CloseWrites(s, p) == p \in s.loaded \cap s.dirty
ClosePage(s, p) == IF CloseWrites(s, p) THEN DiskWrite(s, p, s.cache[p]) ELSE s
=============================================================================
