---------------------------- MODULE StorageProofs ----------------------------
(***************************************************************************)
(* The safety properties of Storage hold for every size of the file, every *)
(* set of contents and every number of crashes and restarts, and those of  *)
(* StorageFaults for every number of failing writes.  One inductive        *)
(* invariant, Inv, serves both.  Its parts restate the properties on the   *)
(* bare fields (disk[p] instead of DiskRead, the meta page as disk[0]) and *)
(* add what the induction needs: the file is zero beyond its length, a     *)
(* file without pages has handed out nothing, the meta page in memory may  *)
(* be written at any time, and the destructor leaves the pages below its   *)
(* loop index equal to the file.  What is said of the root differs:        *)
(* MetaInv without failures, RootInv with them.  The second half is about  *)
(* the layout of a page, whose invariant is PageInv.                       *)
(***************************************************************************)
EXTENDS StorageFaults, SlottedPage, StorageManagerLemmas

\* Before the file has a page nothing was allocated and no root was set.
EmptyFileInv == store.numPages = 0 => handed = {} /\ lastRoot = 0

\* The meta page of the file is one, its counter legal and above all pages.
FileMetaInv ==
    store.numPages > 0 =>
      /\ store.disk[0] \in Metas
      /\ store.disk[0].next \in 1 .. MaxPages
      /\ \A p \in handed : p < store.disk[0].next

\* While the process runs the meta page in memory is one that may be written at any
\* time, and it is the one in the file unless it is marked dirty.
MemoryMetaInv ==
    pc # "down" =>
      /\ store.numPages > 0
      /\ 0 \in store.loaded
      /\ store.cache[0] \in Metas
      /\ store.cache[0].next \in 1 .. MaxPages
      /\ 0 \notin store.dirty => store.cache[0] = store.disk[0]
      /\ \A p \in handed : p < store.cache[0].next /\ p < store.next

CleanInv == \A p \in store.loaded : p \notin store.dirty => store.cache[p] = store.disk[p]

LatestInv ==
    \A p \in handed :
        latest[p] = IF pc # "down" /\ p \in store.loaded THEN store.cache[p] ELSE store.disk[p]

\* What the destructor has passed is in the file.
ClosedInv ==
    pc = "closing" =>
        \A p \in store.loaded : p < i => store.cache[p] = store.disk[p]

Inv ==
    /\ TypeOK /\ ZeroTail(store)
    /\ EmptyFileInv /\ FileMetaInv /\ MemoryMetaInv
    /\ CleanInv /\ LatestInv /\ ClosedInv

\* What a step of Storage does to the meta page: it marks no page 0 dirty; the file keeps
\* its meta page or takes the one in memory, or is given a new root; a new file has no root.
MetaStep ==
    /\ store'.numPages > 0
    /\ 0 \in store'.dirty => /\ pc # "down" /\ 0 \in store.dirty
                            /\ store'.cache[0] = store.cache[0]
                            /\ store'.disk[0] \in {store.disk[0], store.cache[0]}
    /\ \/ store'.disk[0].root = lastRoot'
       \/ /\ lastRoot' = lastRoot
          /\ \/ store.numPages > 0 /\ store'.disk[0].root = store.disk[0].root
             \/ pc # "down" /\ store'.disk[0].root = store.cache[0].root

-----------------------------------------------------------------------------
\* The invariant holds before the first opening.
LEMMA InitInv == Init => Inv
<1> SUFFICES ASSUME Init PROVE Inv
  OBVIOUS
<1>1. store \in StorageType
  BY EmptyStorageType DEF Init
<1>2. /\ store.disk = [p \in PageIds |-> Zero] /\ store.numPages = 0
      /\ store.loaded = {}
  BY DEF Init, EmptyStorage
<1>3. TypeOK
  BY <1>1 DEF Init, TypeOK, Content
<1>4. ZeroTail(store)
  BY <1>2 DEF ZeroTail
<1>5. QED
  BY <1>2, <1>3, <1>4 DEF Init, Inv, EmptyFileInv, FileMetaInv, MemoryMetaInv,
                          CleanInv, LatestInv, ClosedInv

\* A step of the process keeps the invariant: opening the file.
LEMMA OpenInv == Inv /\ Open => Inv' /\ MetaStep
<1> SUFFICES ASSUME Inv, Open PROVE Inv' /\ MetaStep
  OBVIOUS
<1> USE DEF Inv
<1>1. /\ store \in StorageType /\ pc = "down" /\ pc' = "open"
      /\ store' = OpenStorage(store)
      /\ UNCHANGED <<i, handed, latest, lastRoot>>
  BY DEF TypeOK, Open
<1>2. handed \subseteq PageIds /\ 0 \notin handed
  BY DEF TypeOK, META_PAGE_ID
<1>3. CASE store.numPages > 0
  <2>1. store.disk[META_PAGE_ID] \in Metas /\ store.disk[META_PAGE_ID].next \in 1 .. MaxPages
    BY <1>3, MetaPageId DEF FileMetaInv
  <2>2. /\ store' \in StorageType /\ ZeroTail(store')
        /\ store'.disk = store.disk /\ store'.numPages = store.numPages
        /\ store'.next = store.disk[0].next /\ store'.loaded = {0}
        /\ store'.cache[0] = store.disk[0] /\ store'.dirty = {}
    BY <1>1, <1>3, <2>1, OpenExistingEffect, MetaPageId
  <2>3. TypeOK'
    BY <1>1, <2>2 DEF TypeOK
  <2>4. EmptyFileInv' /\ FileMetaInv'
    BY <1>1, <2>2 DEF EmptyFileInv, FileMetaInv
  <2>5. MemoryMetaInv'
    BY <1>1, <1>3, <2>2 DEF FileMetaInv, MemoryMetaInv
  <2>6. CleanInv' /\ LatestInv' /\ ClosedInv'
    BY <1>1, <1>2, <2>2 DEF CleanInv, LatestInv, ClosedInv
  <2>7. MetaStep
    BY <1>1, <1>3, <2>2 DEF MetaStep
  <2>8. QED
    BY <2>2, <2>3, <2>4, <2>5, <2>6, <2>7
<1>4. CASE store.numPages = 0
  <2>1. /\ Meta(1, 0) \in Metas /\ store' \in StorageType /\ ZeroTail(store')
        /\ store'.disk = [store.disk EXCEPT ![0] = Meta(1, 0)] /\ store'.numPages = 1
        /\ store'.next = 1 /\ store'.loaded = {0}
        /\ store'.cache[0] = Meta(1, 0) /\ store'.dirty = {}
    BY <1>1, <1>4, OpenNewEffect, MetaPageId
  <2>2. store'.disk[0] = Meta(1, 0) /\ Meta(1, 0).next = 1 /\ Meta(1, 0).root = 0
    BY <1>1, <2>1, MetaPageId DEF StorageType, Meta
  <2>3. handed' = {} /\ lastRoot' = 0
    BY <1>1, <1>4 DEF EmptyFileInv
  <2>4. TypeOK'
    BY <1>1, <2>1 DEF TypeOK
  <2>5. EmptyFileInv' /\ FileMetaInv' /\ MemoryMetaInv'
    BY <2>1, <2>2, <2>3, MaxPagesAssumption DEF EmptyFileInv, FileMetaInv, MemoryMetaInv
  <2>6. CleanInv' /\ LatestInv' /\ ClosedInv'
    BY <1>1, <2>1, <2>2, <2>3 DEF CleanInv, LatestInv, ClosedInv
  <2>7. MetaStep
    BY <2>1, <2>2, <2>3 DEF MetaStep
  <2>8. QED
    BY <2>1, <2>4, <2>5, <2>6, <2>7
<1>5. QED
  BY <1>1, <1>3, <1>4 DEF StorageType

\* A step of the process keeps the invariant: fetchPage.
LEMMA FetchInv == ASSUME Inv, NEW p \in PageIds, Fetch(p) PROVE Inv' /\ MetaStep
<1> USE DEF Inv
<1>1. /\ store \in StorageType /\ pc = "open" /\ pc' = pc
      /\ store' = FetchPage(store, p)
      /\ UNCHANGED <<i, handed, latest, lastRoot>>
  BY DEF TypeOK, Fetch
<1>2. CASE p \in store.loaded
  <2>1. store' = store
    BY <1>1, <1>2 DEF FetchPage
  <2>2. QED
    BY <1>1, <2>1 DEF TypeOK, ZeroTail, EmptyFileInv, FileMetaInv, MemoryMetaInv,
                      CleanInv, LatestInv, ClosedInv, MetaStep
<1>3. CASE p \notin store.loaded
  <2>1. /\ store' \in StorageType /\ ZeroTail(store')
        /\ store'.disk = store.disk /\ store'.numPages = store.numPages
        /\ store'.next = store.next /\ store'.loaded = store.loaded \cup {p}
        /\ store'.cache = [store.cache EXCEPT ![p] = store.disk[p]]
        /\ store'.dirty = store.dirty \ {p}
    BY <1>1, <1>3, FetchPageEffect
  <2>2. store.cache \in [PageIds -> Content] /\ store.loaded \subseteq PageIds /\ 0 \in PageIds
    BY <1>1, MetaPageId DEF StorageType
  <2>3. TypeOK'
    BY <1>1, <2>1 DEF TypeOK
  <2>4. EmptyFileInv' /\ FileMetaInv'
    BY <1>1, <2>1 DEF EmptyFileInv, FileMetaInv
  <2>5. MemoryMetaInv'
    BY <1>1, <1>3, <2>1, <2>2 DEF MemoryMetaInv
  <2>6. CleanInv' /\ LatestInv' /\ ClosedInv'
    BY <1>1, <1>3, <2>1, <2>2 DEF CleanInv, LatestInv, ClosedInv, TypeOK
  <2>7. MetaStep
    BY <1>1, <1>3, <2>1, <2>2 DEF MetaStep, MemoryMetaInv
  <2>8. QED
    BY <2>1, <2>3, <2>4, <2>5, <2>6, <2>7
<1>4. QED
  BY <1>2, <1>3

\* A step of the process keeps the invariant: a record operation on a page in memory.
LEMMA ModifyInv ==
    ASSUME Inv, NEW p \in PageIds, NEW d \in Data, Modify(p, d) PROVE Inv' /\ MetaStep
<1> USE DEF Inv
<1>1. /\ store \in StorageType /\ pc = "open" /\ pc' = pc
      /\ p \in handed /\ p \in store.loaded /\ p # 0
      /\ store' = ModifyPage(store, p, d)
      /\ latest' = [latest EXCEPT ![p] = d]
      /\ UNCHANGED <<i, handed, lastRoot>>
  BY DEF TypeOK, Modify, META_PAGE_ID
<1>2. d \in Content
  BY DEF Content
<1>3. /\ store' \in StorageType /\ ZeroTail(store')
      /\ store'.disk = store.disk /\ store'.numPages = store.numPages
      /\ store'.next = store.next /\ store'.loaded = store.loaded
      /\ store'.cache = [store.cache EXCEPT ![p] = d]
      /\ store'.dirty = store.dirty \cup {p}
  BY <1>1, <1>2, ModifyPageEffect
<1>4. store.cache \in [PageIds -> Content] /\ store.loaded \subseteq PageIds /\ 0 \in PageIds
  BY <1>1, MetaPageId DEF StorageType
<1>5. TypeOK'
  BY <1>1, <1>2, <1>3 DEF TypeOK
<1>6. EmptyFileInv' /\ FileMetaInv'
  BY <1>1, <1>3 DEF EmptyFileInv, FileMetaInv
<1>7. MemoryMetaInv'
  BY <1>1, <1>3, <1>4 DEF MemoryMetaInv
<1>8. CleanInv' /\ ClosedInv'
  BY <1>1, <1>3, <1>4 DEF CleanInv, ClosedInv
<1>9. LatestInv'
  BY <1>1, <1>3, <1>4 DEF LatestInv, TypeOK
<1>10. MetaStep
  BY <1>1, <1>3, <1>4 DEF MetaStep, MemoryMetaInv
<1>11. QED
  BY <1>3, <1>5, <1>6, <1>7, <1>8, <1>9, <1>10

\* A step of the process keeps the invariant: writePage.
LEMMA WriteInv ==
    ASSUME Inv, NEW p \in PageIds, NEW d \in Data, Write(p, d) PROVE Inv' /\ MetaStep
<1> USE DEF Inv
<1>1. /\ store \in StorageType /\ pc = "open" /\ pc' = pc
      /\ p \in handed /\ p # 0
      /\ store' = WritePage(store, p, d)
      /\ latest' = [latest EXCEPT ![p] = d]
      /\ UNCHANGED <<i, handed, lastRoot>>
  BY DEF TypeOK, Write, META_PAGE_ID
<1>2. d \in Content
  BY DEF Content
<1>3. /\ store' \in StorageType /\ ZeroTail(store')
      /\ store'.disk = [store.disk EXCEPT ![p] = d]
      /\ store'.numPages = (IF p >= store.numPages THEN p + 1 ELSE store.numPages)
      /\ store'.next = store.next /\ store'.loaded = store.loaded
      /\ p \in store.loaded => /\ store'.cache = [store.cache EXCEPT ![p] = d]
                               /\ store'.dirty = store.dirty \ {p}
      /\ p \notin store.loaded => /\ store'.cache = store.cache
                                  /\ store'.dirty = store.dirty
  BY <1>1, <1>2, WritePageEffect
<1>4. /\ store.cache \in [PageIds -> Content] /\ store.disk \in [PageIds -> Content]
      /\ store.loaded \subseteq PageIds /\ 0 \in PageIds /\ handed \subseteq PageIds
      /\ store.numPages \in Nat
  BY <1>1, MetaPageId DEF StorageType, TypeOK
<1>5. store.numPages > 0 /\ store'.numPages > 0 /\ store'.disk[0] = store.disk[0]
  BY <1>1, <1>3, <1>4 DEF MemoryMetaInv, PageIds
<1>6. TypeOK'
  BY <1>1, <1>2, <1>3 DEF TypeOK
<1>7. EmptyFileInv' /\ FileMetaInv'
  BY <1>1, <1>4, <1>5 DEF EmptyFileInv, FileMetaInv
<1>8. MemoryMetaInv'
  BY <1>1, <1>3, <1>4, <1>5 DEF MemoryMetaInv
<1>9. CleanInv' /\ ClosedInv'
  BY <1>1, <1>3, <1>4 DEF CleanInv, ClosedInv
<1>10. LatestInv'
  BY <1>1, <1>3, <1>4 DEF LatestInv, TypeOK
<1>11. MetaStep
  BY <1>1, <1>3, <1>4, <1>5 DEF MetaStep
<1>12. QED
  BY <1>3, <1>6, <1>7, <1>8, <1>9, <1>10, <1>11

\* A step of the process keeps the invariant: flushPage.
LEMMA FlushInv == ASSUME Inv, NEW p \in PageIds, Flush(p) PROVE Inv' /\ MetaStep
<1> USE DEF Inv
<1>1. /\ store \in StorageType /\ pc = "open" /\ pc' = pc
      /\ p \in store.loaded
      /\ store' = FlushPage(store, p)
      /\ UNCHANGED <<i, handed, latest, lastRoot>>
  BY DEF TypeOK, Flush
<1>2. CASE p \notin store.dirty
  <2>1. store' = store
    BY <1>1, <1>2 DEF FlushPage
  <2>2. QED
    BY <1>1, <2>1 DEF TypeOK, ZeroTail, EmptyFileInv, FileMetaInv, MemoryMetaInv,
                      CleanInv, LatestInv, ClosedInv, MetaStep
<1>3. CASE p \in store.dirty
  <2>1. /\ store' \in StorageType /\ ZeroTail(store')
        /\ store'.disk = [store.disk EXCEPT ![p] = store.cache[p]]
        /\ store'.numPages = (IF p >= store.numPages THEN p + 1 ELSE store.numPages)
        /\ store'.next = store.next /\ store'.loaded = store.loaded
        /\ store'.cache = store.cache /\ store'.dirty = store.dirty \ {p}
    BY <1>1, <1>3, FlushPageEffect
  <2>2. /\ store.disk \in [PageIds -> Content] /\ store.loaded \subseteq PageIds
        /\ 0 \in PageIds /\ handed \subseteq PageIds /\ store.numPages \in Nat
    BY <1>1, MetaPageId DEF StorageType, TypeOK
  <2>3. /\ store.numPages > 0 /\ store'.numPages > 0
        /\ p = 0 => store'.disk[0] = store.cache[0]
        /\ p # 0 => store'.disk[0] = store.disk[0]
    <3>1. store.numPages > 0
      BY <1>1 DEF MemoryMetaInv
    <3>2. store'.numPages > 0
      BY <2>1, <2>2, <3>1 DEF PageIds
    <3>3. QED
      BY <2>1, <2>2, <3>1, <3>2
  <2>4. TypeOK'
    BY <1>1, <2>1 DEF TypeOK
  <2>5. EmptyFileInv' /\ FileMetaInv'
    BY <1>1, <2>2, <2>3 DEF EmptyFileInv, FileMetaInv, MemoryMetaInv
  <2>6. MemoryMetaInv'
    BY <1>1, <2>1, <2>3 DEF MemoryMetaInv
  <2>7. CleanInv' /\ LatestInv' /\ ClosedInv'
    BY <1>1, <2>1, <2>2 DEF CleanInv, LatestInv, ClosedInv
  <2>8. MetaStep
    BY <1>1, <2>1, <2>3 DEF MetaStep
  <2>9. QED
    BY <2>1, <2>4, <2>5, <2>6, <2>7, <2>8
<1>4. QED
  BY <1>2, <1>3

\* A step of the process keeps the invariant: allocatePage, also at the limit.
LEMMA AllocateInv == Inv /\ Allocate => Inv' /\ MetaStep
<1> SUFFICES ASSUME Inv, Allocate PROVE Inv' /\ MetaStep
  OBVIOUS
<1> USE DEF Inv
<1>1. /\ store \in StorageType /\ pc = "open" /\ pc' = pc
      /\ store' = AllocatePage(store)
      /\ UNCHANGED <<i, lastRoot>>
  BY DEF TypeOK, Allocate
<1>2. /\ store.cache \in [PageIds -> Content] /\ store.disk \in [PageIds -> Content]
      /\ store.loaded \subseteq PageIds /\ 0 \in PageIds /\ handed \subseteq PageIds
      /\ store.numPages \in Nat /\ store.next \in Nat \ {0}
  BY <1>1, MetaPageId DEF StorageType, TypeOK
<1>3. CASE store.next < MaxPages
  <2> DEFINE m == Meta(store.next + 1, store.cache[META_PAGE_ID].root)
  <2>1. /\ handed' = handed \cup {store.next}
        /\ latest' = [latest EXCEPT ![store.next] = Fresh]
    BY <1>3 DEF Allocate
  <2>2. store.cache[META_PAGE_ID] \in Metas
    BY <1>1, MetaPageId DEF MemoryMetaInv
  <2>3. /\ m \in Metas /\ store' \in StorageType /\ ZeroTail(store')
        /\ store'.disk = [store.disk EXCEPT ![0] = m]
        /\ store'.numPages = (IF store.numPages = 0 THEN 1 ELSE store.numPages)
        /\ store'.next = store.next + 1
        /\ store'.loaded = store.loaded \cup {store.next}
        /\ store'.cache = [[store.cache EXCEPT ![store.next] = Fresh] EXCEPT ![0] = m]
        /\ store'.dirty = (store.dirty \cup {store.next}) \ {0}
    BY <1>1, <1>3, <2>2, AllocatePageEffect, MetaPageId
  <2>4. m.next = store.next + 1 /\ m.root = store.cache[0].root
    BY MetaPageId DEF Meta
  <2> HIDE DEF m
  <2>5. store.next \in PageIds /\ store.next # 0 /\ m.next \in 1 .. MaxPages
    BY <1>2, <1>3, <2>4, MaxPagesAssumption DEF PageIds
  <2>6. /\ store'.disk[0] = m /\ store'.cache[0] = m
        /\ \A p \in PageIds : p # 0 => store'.disk[p] = store.disk[p]
        /\ \A p \in PageIds : p # 0 /\ p # store.next => store'.cache[p] = store.cache[p]
        /\ store'.cache[store.next] = Fresh
    BY <1>2, <2>3, <2>5
  <2>7. /\ TypeOK'
    BY <1>1, <2>1, <2>3, <2>5 DEF TypeOK, META_PAGE_ID, Content
  <2>8. store'.numPages > 0
    BY <1>2, <2>3
  <2>9. \A p \in handed' : p < store.next + 1
    BY <1>1, <1>2, <2>1 DEF MemoryMetaInv, PageIds
  <2>10. EmptyFileInv' /\ FileMetaInv'
    BY <1>1, <2>3, <2>4, <2>5, <2>6, <2>8, <2>9 DEF EmptyFileInv, FileMetaInv
  <2>11. MemoryMetaInv'
    BY <1>1, <2>3, <2>4, <2>5, <2>6, <2>8, <2>9 DEF MemoryMetaInv
  <2>12. CleanInv' /\ ClosedInv'
    BY <1>1, <1>2, <2>3, <2>5, <2>6 DEF CleanInv, ClosedInv
  <2>13. LatestInv'
    BY <1>1, <1>2, <2>1, <2>3, <2>5, <2>6 DEF LatestInv, TypeOK, META_PAGE_ID
  <2>14. MetaStep
    BY <1>1, <2>3, <2>4, <2>6, <2>8 DEF MetaStep
  <2>15. QED
    BY <2>3, <2>7, <2>10, <2>11, <2>12, <2>13, <2>14
<1>4. CASE ~(store.next < MaxPages)
  <2>1. UNCHANGED <<handed, latest>>
    BY <1>4 DEF Allocate
  <2>2. /\ store' \in StorageType /\ ZeroTail(store')
        /\ store'.disk = store.disk /\ store'.numPages = store.numPages
        /\ store'.next = store.next + 1 /\ store'.loaded = store.loaded
        /\ store'.cache = store.cache /\ store'.dirty = store.dirty
    BY <1>1, <1>4, AllocatePageFails
  <2>3. TypeOK'
    BY <1>1, <2>1, <2>2 DEF TypeOK
  <2>4. EmptyFileInv' /\ FileMetaInv'
    BY <1>1, <2>1, <2>2 DEF EmptyFileInv, FileMetaInv
  <2>5. MemoryMetaInv'
    BY <1>1, <1>2, <2>1, <2>2 DEF MemoryMetaInv, PageIds
  <2>6. CleanInv' /\ LatestInv' /\ ClosedInv'
    BY <1>1, <2>1, <2>2 DEF CleanInv, LatestInv, ClosedInv
  <2>7. MetaStep
    BY <1>1, <2>2 DEF MetaStep, MemoryMetaInv
  <2>8. QED
    BY <2>2, <2>3, <2>4, <2>5, <2>6, <2>7
<1>5. QED
  BY <1>3, <1>4

\* A step of the process keeps the invariant: setRootPageId.
LEMMA SetRootInv == ASSUME Inv, NEW r \in PageIds, SetRoot(r) PROVE Inv' /\ MetaStep
<1> USE DEF Inv
<1> DEFINE m == Meta(store.cache[META_PAGE_ID].next, r)
<1>1. /\ store \in StorageType /\ pc = "open" /\ pc' = pc
      /\ store' = SetRootPageId(store, r)
      /\ lastRoot' = r /\ r \in Nat
      /\ UNCHANGED <<i, handed, latest>>
  BY DEF TypeOK, SetRoot, PageIds
<1>2. /\ store.cache \in [PageIds -> Content] /\ store.disk \in [PageIds -> Content]
      /\ store.loaded \subseteq PageIds /\ 0 \in PageIds
      /\ handed \subseteq PageIds /\ 0 \notin handed
      /\ store.numPages \in Nat
  BY <1>1, MetaPageId DEF StorageType, TypeOK
<1>3. store.cache[META_PAGE_ID] \in Metas
  BY <1>1, MetaPageId DEF MemoryMetaInv
<1>4. /\ m \in Metas /\ store' \in StorageType /\ ZeroTail(store')
      /\ store'.disk = [store.disk EXCEPT ![0] = m]
      /\ store'.numPages = (IF store.numPages = 0 THEN 1 ELSE store.numPages)
      /\ store'.next = store.next /\ store'.loaded = store.loaded
      /\ store'.cache = [store.cache EXCEPT ![0] = m]
      /\ store'.dirty = store.dirty \ {0}
  BY <1>1, <1>3, SetRootPageIdEffect, MetaPageId
<1>5. m.next = store.cache[0].next /\ m.root = r
  BY MetaPageId DEF Meta
<1> HIDE DEF m
<1>6. store'.disk[0] = m /\ store'.cache[0] = m /\ store'.numPages > 0
  BY <1>2, <1>4
<1>7. TypeOK'
  BY <1>1, <1>4 DEF TypeOK
<1>8. EmptyFileInv' /\ FileMetaInv'
  BY <1>1, <1>4, <1>5, <1>6 DEF EmptyFileInv, FileMetaInv, MemoryMetaInv
<1>9. MemoryMetaInv'
  BY <1>1, <1>4, <1>5, <1>6 DEF MemoryMetaInv
<1>10. CleanInv' /\ LatestInv' /\ ClosedInv'
  <2>1. \A p \in PageIds : p # 0 => /\ store'.disk[p] = store.disk[p]
                                   /\ store'.cache[p] = store.cache[p]
    BY <1>2, <1>4
  <2>2. CleanInv'
    BY <1>2, <1>4, <1>6, <2>1 DEF CleanInv
  <2>3. LatestInv'
    BY <1>1, <1>2, <1>4, <2>1 DEF LatestInv
  <2>4. ClosedInv'
    BY <1>1 DEF ClosedInv
  <2>5. QED
    BY <2>2, <2>3, <2>4
<1>11. MetaStep
  BY <1>1, <1>4, <1>5, <1>6 DEF MetaStep
<1>12. QED
  BY <1>4, <1>7, <1>8, <1>9, <1>10, <1>11

\* A step of the process keeps the invariant: the destructor begins.
LEMMA BeginCloseInv == Inv /\ BeginClose => Inv' /\ MetaStep
<1> SUFFICES ASSUME Inv, BeginClose PROVE Inv' /\ MetaStep
  OBVIOUS
<1> USE DEF Inv
<1>1. /\ pc = "open" /\ pc' = "closing" /\ i' = 0
      /\ UNCHANGED <<store, handed, latest, lastRoot>>
  BY DEF BeginClose
<1>2. store.loaded \subseteq PageIds
  BY DEF TypeOK, StorageType
<1>3. ClosedInv'
  BY <1>1, <1>2 DEF ClosedInv, PageIds
<1>4. QED
  BY <1>1, <1>3 DEF TypeOK, ZeroTail, EmptyFileInv, FileMetaInv, MemoryMetaInv,
                    CleanInv, LatestInv, MetaStep

\* A step of the process keeps the invariant: one iteration of the destructor's loop.
LEMMA CloseStepInv == Inv /\ CloseStep => Inv' /\ MetaStep
<1> SUFFICES ASSUME Inv, CloseStep PROVE Inv' /\ MetaStep
  OBVIOUS
<1> USE DEF Inv
<1>1. /\ store \in StorageType /\ i \in Nat /\ pc = "closing" /\ pc' = pc
      /\ store' = ClosePage(store, i) /\ i' = i + 1
      /\ UNCHANGED <<handed, latest, lastRoot>>
  BY DEF TypeOK, CloseStep
<1>2. /\ store.disk \in [PageIds -> Content] /\ store.cache \in [PageIds -> Content]
      /\ store.loaded \subseteq PageIds /\ 0 \in PageIds /\ handed \subseteq PageIds
      /\ store.numPages \in Nat
  BY <1>1, MetaPageId DEF StorageType, TypeOK
<1>3. \A p \in PageIds : p < i + 1 => p < i \/ p = i
  BY <1>1 DEF PageIds
<1>4. CASE ~(i \in store.loaded /\ i \in store.dirty)
  <2>1. store' = store
    BY <1>1, <1>4 DEF ClosePage, CloseWrites
  <2>2. ClosedInv'
    BY <1>1, <1>2, <1>3, <1>4, <2>1 DEF ClosedInv, CleanInv
  <2>3. QED
    BY <1>1, <2>1, <2>2 DEF TypeOK, ZeroTail, EmptyFileInv, FileMetaInv, MemoryMetaInv,
                            CleanInv, LatestInv, MetaStep
<1>5. CASE i \in store.loaded /\ i \in store.dirty
  <2>1. i \in PageIds /\ store.cache[i] \in Content
    BY <1>2, <1>5
  <2>2. store' = DiskWrite(store, i, store.cache[i])
    BY <1>1, <1>5 DEF ClosePage, CloseWrites
  <2>3. /\ store' \in StorageType /\ ZeroTail(store')
        /\ store'.disk = [store.disk EXCEPT ![i] = store.cache[i]]
        /\ store'.numPages = (IF i >= store.numPages THEN i + 1 ELSE store.numPages)
        /\ store'.next = store.next /\ store'.loaded = store.loaded
        /\ store'.cache = store.cache /\ store'.dirty = store.dirty
    BY <1>1, <2>1, <2>2, DiskWriteEffect
  <2>4. /\ store.numPages > 0 /\ store'.numPages > 0
        /\ i = 0 => store'.disk[0] = store.cache[0]
        /\ i # 0 => store'.disk[0] = store.disk[0]
    BY <1>1, <1>2, <1>5, <2>3 DEF MemoryMetaInv
  <2>5. TypeOK'
    BY <1>1, <2>3 DEF TypeOK
  <2>6. EmptyFileInv' /\ FileMetaInv'
    BY <1>1, <2>4 DEF EmptyFileInv, FileMetaInv, MemoryMetaInv
  <2>7. MemoryMetaInv'
    BY <1>1, <2>3, <2>4 DEF MemoryMetaInv
  <2>8. CleanInv' /\ LatestInv'
    BY <1>1, <1>2, <1>5, <2>3 DEF CleanInv, LatestInv
  <2>9. ClosedInv'
    BY <1>1, <1>2, <1>3, <2>3 DEF ClosedInv
  <2>10. MetaStep
    BY <1>1, <2>3, <2>4 DEF MetaStep
  <2>11. QED
    BY <2>3, <2>5, <2>6, <2>7, <2>8, <2>9, <2>10
<1>6. QED
  BY <1>4, <1>5

\* A step of the process keeps the invariant: the destructor ends.
LEMMA EndCloseInv == Inv /\ EndClose => Inv' /\ MetaStep
<1> SUFFICES ASSUME Inv, EndClose PROVE Inv' /\ MetaStep
  OBVIOUS
<1> USE DEF Inv
<1>1. /\ store \in StorageType /\ pc = "closing" /\ pc' = "down" /\ i >= store.next
      /\ store' = LoseMemory(store) /\ i' = 0
      /\ UNCHANGED <<handed, latest, lastRoot>>
  BY DEF TypeOK, EndClose
<1>2. /\ store' \in StorageType
      /\ store'.disk = store.disk /\ store'.numPages = store.numPages
      /\ store'.loaded = {} /\ store'.dirty = {}
  BY <1>1, LoseMemoryEffect
<1>3. ZeroTail(store') /\ TypeOK'
  BY <1>1, <1>2 DEF ZeroTail, TypeOK
<1>4. \A p \in handed : p < i
  BY <1>1 DEF MemoryMetaInv, TypeOK, StorageType, PageIds
<1>5. LatestInv'
  BY <1>1, <1>2, <1>4 DEF LatestInv, ClosedInv
<1>6. QED
  BY <1>1, <1>2, <1>3, <1>5 DEF EmptyFileInv, FileMetaInv, MemoryMetaInv, CleanInv, ClosedInv,
                                          MetaStep

\* A step of the process keeps the invariant: the process dies.
LEMMA CrashInv == Inv /\ Crash => Inv' /\ MetaStep
<1> SUFFICES ASSUME Inv, Crash PROVE Inv' /\ MetaStep
  OBVIOUS
<1> USE DEF Inv
<1>1. /\ store \in StorageType /\ pc # "down" /\ pc' = "down"
      /\ store' = LoseMemory(store) /\ i' = 0
      /\ latest' = [p \in PageIds |-> DiskRead(store, p)]
      /\ UNCHANGED <<handed, lastRoot>>
  BY DEF TypeOK, Crash
<1>2. /\ store' \in StorageType
      /\ store'.disk = store.disk /\ store'.numPages = store.numPages
      /\ store'.loaded = {} /\ store'.dirty = {}
  BY <1>1, LoseMemoryEffect
<1>3. \A p \in PageIds : latest'[p] = store.disk[p] /\ DiskRead(store, p) \in Content
  BY <1>1, DiskReadIsDisk, DiskReadContent
<1>4. ZeroTail(store') /\ TypeOK'
  BY <1>1, <1>2, <1>3 DEF ZeroTail, TypeOK
<1>5. LatestInv'
  BY <1>1, <1>2, <1>3 DEF LatestInv, TypeOK
<1>6. QED
  BY <1>1, <1>2, <1>4, <1>5 DEF EmptyFileInv, FileMetaInv, MemoryMetaInv, CleanInv, ClosedInv,
                                          MetaStep

-----------------------------------------------------------------------------
\* Every step keeps the invariant.
LEMMA NextInv == Inv /\ Next => Inv' /\ MetaStep
<1> SUFFICES ASSUME Inv, Next PROVE Inv' /\ MetaStep
  OBVIOUS
<1>1. CASE Open
  BY <1>1, OpenInv
<1>2. ASSUME NEW p \in PageIds, Fetch(p) PROVE Inv' /\ MetaStep
  BY <1>2, FetchInv
<1>3. ASSUME NEW p \in PageIds, NEW d \in Data, Modify(p, d) PROVE Inv' /\ MetaStep
  BY <1>3, ModifyInv
<1>4. ASSUME NEW p \in PageIds, NEW d \in Data, Write(p, d) PROVE Inv' /\ MetaStep
  BY <1>4, WriteInv
<1>5. ASSUME NEW p \in PageIds, Flush(p) PROVE Inv' /\ MetaStep
  BY <1>5, FlushInv
<1>6. CASE Allocate
  BY <1>6, AllocateInv
<1>7. ASSUME NEW p \in PageIds, SetRoot(p) PROVE Inv' /\ MetaStep
  BY <1>7, SetRootInv
<1>8. CASE BeginClose
  BY <1>8, BeginCloseInv
<1>9. CASE CloseStep
  BY <1>9, CloseStepInv
<1>10. CASE EndClose
  BY <1>10, EndCloseInv
<1>11. CASE Crash
  BY <1>11, CrashInv
<1>12. QED
  BY <1>1, <1>2, <1>3, <1>4, <1>5, <1>6, <1>7, <1>8, <1>9, <1>10, <1>11 DEF Next

\* A step that changes nothing keeps the invariant.
LEMMA StutterInv == Inv /\ UNCHANGED vars => Inv'
BY DEF vars, Inv, TypeOK, ZeroTail, EmptyFileInv, FileMetaInv, MemoryMetaInv,
       CleanInv, LatestInv, ClosedInv

-----------------------------------------------------------------------------
(* Writes of the meta page that fail *)

\* What a failed write of the meta page leaves: the file as it was, the new meta page in
\* memory, marked dirty.
LEMMA PutMetaFailsEffect ==
    ASSUME NEW s \in StorageType, NEW m \in Metas, NEW t, t = PutMetaFails(s, m)
    PROVE  /\ t \in StorageType
           /\ ZeroTail(s) => ZeroTail(t)
           /\ t.disk = s.disk /\ t.numPages = s.numPages
           /\ t.next = s.next /\ t.loaded = s.loaded
           /\ t.cache = [s.cache EXCEPT ![0] = m]
           /\ t.dirty = s.dirty \cup {0}
<1>1. m \in Content /\ t = ModifyPage(s, 0, m)
  BY MetaPageId DEF Content, PutMetaFails, ModifyPage
<1>2. QED
  BY <1>1, MetaPageId, ModifyPageEffect

\* The storage allocatePage has made when it comes to write the meta page.
Allocated(s) ==
    [s EXCEPT !.next = s.next + 1, !.cache[s.next] = Fresh,
              !.loaded = @ \cup {s.next}, !.dirty = @ \cup {s.next}]

\* The counter has moved, and the new page is in memory.
LEMMA AllocatedEffect ==
    ASSUME NEW s \in StorageType, s.next < MaxPages, NEW t, t = Allocated(s)
    PROVE  /\ t \in StorageType
           /\ ZeroTail(s) => ZeroTail(t)
           /\ t.disk = s.disk /\ t.numPages = s.numPages
           /\ t.next = s.next + 1 /\ t.loaded = s.loaded \cup {s.next}
           /\ t.cache = [s.cache EXCEPT ![s.next] = Fresh]
           /\ t.dirty = s.dirty \cup {s.next}
<1> DEFINE n == s.next + 1
           c == [s.cache EXCEPT ![s.next] = Fresh]
           l == s.loaded \cup {s.next}
           d == s.dirty \cup {s.next}
<1>1. t = [s EXCEPT !.next = n, !.cache = c, !.loaded = l, !.dirty = d]
  BY DEF StorageType, Allocated
<1>2. /\ n \in Nat \ {0} /\ c \in [PageIds -> Content]
      /\ l \in SUBSET PageIds /\ d \in SUBSET PageIds
  <2>1. s.next \in PageIds /\ n \in Nat \ {0}
    BY MaxPagesAssumption DEF StorageType, PageIds
  <2>2. Fresh \in Content
    BY DEF Content
  <2>3. QED
    BY <2>1, <2>2 DEF StorageType
<1> HIDE DEF n, c, l, d
<1>3. /\ t \in StorageType
      /\ t.disk = s.disk /\ t.numPages = s.numPages
      /\ t.next = n /\ t.loaded = l /\ t.cache = c /\ t.dirty = d
  BY <1>1, <1>2 DEF StorageType
<1>4. ZeroTail(s) => ZeroTail(t)
  BY <1>3 DEF ZeroTail
<1>5. QED
  BY <1>3, <1>4 DEF n, c, l, d

\* What a step that fails does to the meta page: the file keeps its own, and the one in
\* memory keeps its root or takes the one asked for.
FailStep ==
    /\ pc # "down" /\ pc' # "down"
    /\ store'.numPages > 0 /\ store'.disk = store.disk /\ lastRoot' = lastRoot
    /\ newRoot \subseteq newRoot'
    /\ store'.cache[0].root \in newRoot' \cup {store.cache[0].root}

\* A failing step keeps the invariant: allocatePage.
LEMMA AllocateFailsInv == Inv /\ AllocateFails => Inv' /\ FailStep
<1> SUFFICES ASSUME Inv, AllocateFails PROVE Inv' /\ FailStep
  OBVIOUS
<1> USE DEF Inv
<1> DEFINE p == store.next
           m == Meta(p + 1, store.cache[0].root)
<1>1. PICK s : /\ s = Allocated(store)
               /\ store' = PutMetaFails(s, Meta(p + 1, s.cache[META_PAGE_ID].root))
  BY DEF AllocateFails, Allocated
<1>2. /\ store \in StorageType /\ pc = "open" /\ p < MaxPages
      /\ UNCHANGED <<pc, i, handed, latest, lastRoot, newRoot>>
  BY DEF TypeOK, AllocateFails
<1>3. /\ s \in StorageType /\ ZeroTail(s)
      /\ s.disk = store.disk /\ s.numPages = store.numPages
      /\ s.next = p + 1 /\ s.loaded = store.loaded \cup {p}
      /\ s.cache = [store.cache EXCEPT ![p] = Fresh]
      /\ s.dirty = store.dirty \cup {p}
  <2>1. store \in StorageType /\ ZeroTail(store) /\ store.next < MaxPages
    BY <1>2
  <2>2. QED
    BY <1>1, <2>1, AllocatedEffect
<1>4. /\ store.cache \in [PageIds -> Content] /\ store.disk \in [PageIds -> Content]
      /\ store.loaded \subseteq PageIds /\ 0 \in PageIds /\ handed \subseteq PageIds
      /\ p \in Nat \ {0} /\ p \in PageIds
  <2>1. p \in Nat \ {0} /\ p \in PageIds
    BY <1>2, MaxPagesAssumption DEF StorageType, PageIds
  <2>2. QED
    BY <1>2, <2>1, MetaPageId DEF StorageType, TypeOK
<1>5. /\ store.numPages > 0 /\ 0 \in store.loaded
      /\ store.cache[0] \in Metas
      /\ \A q \in handed : q < store.cache[0].next /\ q < p
  BY <1>2 DEF MemoryMetaInv
<1>6. m \in Metas /\ m.next = p + 1 /\ m.root = store.cache[0].root /\ p + 1 \in 1 .. MaxPages
  BY <1>2, <1>4, <1>5, MaxPagesAssumption DEF Meta, Metas
<1>7. store' = PutMetaFails(s, m)
  BY <1>1, <1>3, <1>4, MetaPageId
<1> HIDE DEF m, p
<1>8. /\ store' \in StorageType /\ ZeroTail(store')
      /\ store'.disk = store.disk /\ store'.numPages = store.numPages
      /\ store'.next = p + 1 /\ store'.loaded = store.loaded \cup {p}
      /\ store'.cache = [[store.cache EXCEPT ![p] = Fresh] EXCEPT ![0] = m]
      /\ store'.dirty = (store.dirty \cup {p}) \cup {0}
  BY <1>3, <1>6, <1>7, PutMetaFailsEffect
<1>9. /\ store'.cache[0] = m
      /\ \A q \in PageIds : q # 0 /\ q # p => store'.cache[q] = store.cache[q]
  BY <1>4, <1>8
<1>10. \A q \in handed : q # 0 /\ q # p /\ q < p + 1
  BY <1>4, <1>5 DEF TypeOK, META_PAGE_ID, PageIds
<1>11. TypeOK' /\ EmptyFileInv' /\ FileMetaInv'
  BY <1>2, <1>8 DEF TypeOK, EmptyFileInv, FileMetaInv
<1>12. MemoryMetaInv'
  BY <1>2, <1>5, <1>6, <1>8, <1>9, <1>10 DEF MemoryMetaInv
<1>13. CleanInv'
  BY <1>2, <1>4, <1>8, <1>9 DEF CleanInv
<1>14. LatestInv'
  BY <1>2, <1>4, <1>8, <1>9, <1>10 DEF LatestInv
<1>15. ClosedInv' /\ FailStep
  BY <1>2, <1>5, <1>6, <1>8, <1>9 DEF ClosedInv, FailStep
<1>16. QED
  BY <1>8, <1>11, <1>12, <1>13, <1>14, <1>15

\* A failing step keeps the invariant: setRootPageId.
LEMMA SetRootFailsInv ==
    ASSUME Inv, NEW r \in PageIds, SetRootFails(r)
    PROVE  Inv' /\ FailStep
<1> USE DEF Inv
<1> DEFINE m == Meta(store.cache[0].next, r)
<1>1. /\ store \in StorageType /\ pc = "open"
      /\ store' = PutMetaFails(store, [store.cache[0] EXCEPT !.root = r])
      /\ newRoot' = newRoot \cup {r}
      /\ UNCHANGED <<pc, i, handed, latest, lastRoot>>
  BY MetaPageId DEF TypeOK, SetRootFails
<1>2. /\ store.cache \in [PageIds -> Content] /\ store.loaded \subseteq PageIds
      /\ 0 \in PageIds /\ handed \subseteq PageIds /\ 0 \notin handed
  BY <1>1, MetaPageId DEF StorageType, TypeOK
<1>3. store.cache[0] \in Metas /\ store.numPages > 0 /\ 0 \in store.loaded
  BY <1>1 DEF MemoryMetaInv
<1>4. /\ m \in Metas /\ m = [store.cache[0] EXCEPT !.root = r]
      /\ m.next = store.cache[0].next /\ m.root = r
  BY <1>3 DEF Meta, Metas, PageIds
<1> HIDE DEF m
<1>5. /\ store' \in StorageType /\ ZeroTail(store')
      /\ store'.disk = store.disk /\ store'.numPages = store.numPages
      /\ store'.next = store.next /\ store'.loaded = store.loaded
      /\ store'.cache = [store.cache EXCEPT ![0] = m]
      /\ store'.dirty = store.dirty \cup {0}
  BY <1>1, <1>4, PutMetaFailsEffect
<1>6. store'.cache[0] = m /\ \A q \in PageIds : q # 0 => store'.cache[q] = store.cache[q]
  BY <1>2, <1>5
<1>7. TypeOK' /\ EmptyFileInv' /\ FileMetaInv'
  BY <1>1, <1>5 DEF TypeOK, EmptyFileInv, FileMetaInv
<1>8. MemoryMetaInv'
  BY <1>1, <1>3, <1>4, <1>5, <1>6 DEF MemoryMetaInv
<1>9. CleanInv' /\ LatestInv'
  BY <1>1, <1>2, <1>5, <1>6 DEF CleanInv, LatestInv
<1>10. ClosedInv' /\ FailStep
  BY <1>1, <1>3, <1>4, <1>5, <1>6 DEF ClosedInv, FailStep
<1>11. QED
  BY <1>5, <1>7, <1>8, <1>9, <1>10

\* Which roots the two copies of the meta page may have, and what a copy that is ahead of
\* the file says of the past.
RootInv ==
    /\ failures \in Nat
    /\ store.numPages = 0 => newRoot = {0}
    /\ store.numPages > 0 => store.disk[0].root \in newRoot
    /\ pc # "down" => /\ store.cache[0].root \in newRoot
                      /\ 0 \in store.dirty => failures > 0
    /\ failures = 0 /\ store.numPages > 0 => store.disk[0].root = lastRoot

\* A step that succeeds keeps it.
LEMMA WorksInv == Inv /\ RootInv /\ Works => Inv' /\ RootInv'
<1> SUFFICES ASSUME Inv, RootInv, Works PROVE Inv' /\ RootInv'
  OBVIOUS
<1>1. Next /\ failures' = failures /\ Inv' /\ MetaStep
  BY NextInv DEF Works
<1>2. newRoot' = IF 0 \in store.dirty /\ 0 \in store'.dirty
                 THEN newRoot ELSE {AsMeta(DiskRead(store', 0)).root}
  BY MetaPageId DEF Works
<1>3. /\ store'.numPages > 0 /\ store'.numPages # 0 /\ store'.disk[0] \in Metas
      /\ pc' # "down" /\ 0 \notin store'.dirty => store'.cache[0] = store'.disk[0]
  BY <1>1 DEF Inv, TypeOK, StorageType, MetaStep, FileMetaInv, MemoryMetaInv
<1>4. AsMeta(DiskRead(store', 0)) = store'.disk[0]
  <2>1. store' \in StorageType /\ ZeroTail(store')
    BY <1>1 DEF Inv, TypeOK
  <2>2. DiskRead(store', 0) = store'.disk[0]
    BY <2>1, DiskReadIsDisk, MetaPageId
  <2>3. QED
    BY <1>3, <2>2 DEF AsMeta
<1>5. failures' = 0 => store'.disk[0].root = lastRoot'
  <2> SUFFICES ASSUME failures = 0 PROVE store'.disk[0].root = lastRoot'
    BY <1>1
  <2>1. store.numPages > 0 => store.disk[0].root = lastRoot
    BY DEF RootInv
  <2>2. pc # "down" => store.cache[0].root = lastRoot
    BY <2>1 DEF RootInv, Inv, MemoryMetaInv
  <2>3. QED
    BY <1>1, <2>1, <2>2 DEF MetaStep
<1>6. CASE 0 \in store'.dirty
  BY <1>1, <1>2, <1>3, <1>5, <1>6 DEF MetaStep, RootInv, Inv, MemoryMetaInv
<1>7. CASE 0 \notin store'.dirty
  BY <1>1, <1>2, <1>3, <1>4, <1>5, <1>7 DEF RootInv
<1>8. QED
  BY <1>1, <1>6, <1>7

\* So does a step that fails.
LEMMA FailsInv == Inv /\ RootInv /\ Fails => Inv' /\ RootInv'
<1> SUFFICES ASSUME Inv, RootInv, Fails PROVE Inv' /\ RootInv'
  OBVIOUS
<1>1. failures \in Nat /\ failures' = failures + 1
  BY DEF Fails, RootInv
<1>2. Inv' /\ FailStep
  BY AllocateFailsInv, SetRootFailsInv DEF Fails
<1>3. /\ store.numPages > 0 /\ store.disk[0].root \in newRoot /\ store.cache[0].root \in newRoot
      /\ store'.numPages # 0
  BY <1>2 DEF FailStep, RootInv, Inv, MemoryMetaInv, TypeOK, StorageType
<1>4. QED
  BY <1>1, <1>2, <1>3 DEF FailStep, RootInv

\* The invariant holds in every reachable state, whatever writes of the meta page fail.
THEOREM FaultInvariance == FaultSpec => [](Inv /\ RootInv)
<1>1. FaultInit => Inv /\ RootInv
  BY InitInv DEF FaultInit, RootInv, Init, EmptyStorage
<1>2. Inv /\ RootInv /\ [FaultNext]_fvars => Inv' /\ RootInv'
  <2>1. Inv /\ RootInv /\ UNCHANGED fvars => Inv' /\ RootInv'
    BY StutterInv DEF fvars, vars, RootInv
  <2>2. QED
    BY <2>1, WorksInv, FailsInv DEF FaultNext
<1>3. QED
  BY <1>1, <1>2, PTL DEF FaultSpec

\* Without failures the two copies of the meta page are the same.
MetaInv ==
    /\ pc # "down" => 0 \notin store.dirty
    /\ store.numPages > 0 => store.disk[0].root = lastRoot

\* The invariant holds in every reachable state of Storage.
THEOREM Invariance == Spec => [](Inv /\ MetaInv)
<1>1. Init => Inv /\ MetaInv
  BY InitInv DEF MetaInv, Init, EmptyStorage
<1>2. Inv /\ MetaInv /\ [Next]_vars => Inv' /\ MetaInv'
  <2>1. Inv /\ MetaInv /\ UNCHANGED vars => Inv' /\ MetaInv'
    BY StutterInv DEF vars, MetaInv
  <2>2. Inv /\ MetaInv /\ Next => Inv' /\ MetaInv'
    BY NextInv DEF MetaStep, MetaInv, Inv, MemoryMetaInv
  <2>3. QED
    BY <2>1, <2>2
<1>3. QED
  BY <1>1, <1>2, PTL DEF Spec

-----------------------------------------------------------------------------
(* What the invariant says of the properties *)

\* What DiskMeta stands for, by the length of the file.
LEMMA DiskMetaValue ==
    ASSUME Inv
    PROVE  /\ store.numPages = 0 => DiskMeta.next = 1 /\ DiskMeta.root = 0
           /\ store.numPages # 0 => store.numPages > 0 /\ DiskMeta = store.disk[0]
BY MetaPageId DEF Inv, FileMetaInv, DiskMeta, AsMeta, Meta, TypeOK, StorageType

\* The counters are above the ids handed out.
LEMMA InvCounter == Inv => CounterCoversHanded
<1> SUFFICES ASSUME Inv, NEW p \in handed
             PROVE  p < DiskMeta.next /\ (pc # "down" => p < store.next)
  BY DEF CounterCoversHanded
<1>1. p < DiskMeta.next
  BY DiskMetaValue DEF Inv, EmptyFileInv, FileMetaInv, TypeOK, StorageType
<1>2. QED
  BY <1>1 DEF Inv, MemoryMetaInv

\* loadMeta accepts the counter in the file.
LEMMA InvNext == Inv => DiskMeta.next \in 1 .. MaxPages
BY DiskMetaValue, MaxPagesAssumption DEF Inv, FileMetaInv, TypeOK, StorageType

\* Clean pages equal the file.
LEMMA InvClean == Inv => CleanPagesMatchFile
BY DiskReadIsDisk DEF CleanPagesMatchFile, Inv, CleanInv, TypeOK, StorageType

\* No update is lost.
LEMMA InvLatest == Inv => NoUpdateLost
<1> SUFFICES ASSUME Inv, NEW p \in handed
             PROVE  latest[p] = IF pc = "down" THEN DiskRead(store, p) ELSE ViewOf(store, p)
  BY DEF NoUpdateLost
<1>1. DiskRead(store, p) = store.disk[p]
  BY DiskReadIsDisk DEF Inv, TypeOK
<1>2. QED
  BY <1>1 DEF Inv, LatestInv, ViewOf

\* The next id to hand out is not one of those handed out.
LEMMA InvUnused ==
    Inv => [Allocate /\ store.next < MaxPages => store.next \notin handed]_vars
<1> SUFFICES ASSUME Inv, Allocate PROVE store.next \notin handed
  OBVIOUS
<1>1. \A p \in handed : p < store.next /\ p \in Int
  BY DEF Allocate, Inv, MemoryMetaInv, TypeOK, PageIds
<1>2. store.next \in Nat
  BY DEF Inv, TypeOK, StorageType
<1>3. QED
  BY <1>1, <1>2

-----------------------------------------------------------------------------
(* Theorems about Storage *)

\* Every variable keeps its type; no page id outside the file is ever handed out.
THEOREM TypeCorrect == Spec => []TypeOK
<1>1. Inv => TypeOK
  BY DEF Inv
<1>2. QED
  BY <1>1, Invariance, PTL

\* Page ids handed out stay below the counter, in the file and in memory: after any
\* crash the constructor reads a counter that is above all of them.
THEOREM CounterCorrect == Spec => []CounterCoversHanded
BY InvCounter, Invariance, PTL

\* The meta page in memory is the one in the file, with a counter loadMeta accepts.
THEOREM MetaCorrect == Spec => []MetaCoherent
<1>1. Inv /\ MetaInv => MetaCoherent
  BY InvNext, MetaPageId DEF MetaCoherent, Inv, MemoryMetaInv, MetaInv
<1>2. QED
  BY <1>1, Invariance, PTL

\* getRootPageId returns the last root set, in this run of the program or an earlier one.
THEOREM RootCorrect == Spec => []RootSurvives
<1>1. Inv /\ MetaInv => RootSurvives
  <2> SUFFICES ASSUME Inv, MetaInv PROVE RootSurvives
    OBVIOUS
  <2>1. DiskMeta.root = lastRoot
    BY DiskMetaValue DEF Inv, EmptyFileInv, MetaInv
  <2>2. pc # "down" => GetRootPageId(store) = lastRoot
    BY MetaPageId DEF Inv, MemoryMetaInv, MetaInv, GetRootPageId
  <2>3. QED
    BY <2>1, <2>2 DEF RootSurvives
<1>2. QED
  BY <1>1, Invariance, PTL

\* A page in memory that is not marked dirty is equal to the page in the file.
THEOREM CleanCorrect == Spec => []CleanPagesMatchFile
BY InvClean, Invariance, PTL

\* Nothing written is lost: an orderly close puts the last content of every page into
\* the file, and a page always reads as it was last written.
THEOREM NoUpdateLostCorrect == Spec => []NoUpdateLost
BY InvLatest, Invariance, PTL

\* allocatePage never returns an id it has returned before, across crashes and restarts.
THEOREM AllocationCorrect == Spec => AllocatesUnusedPage
BY InvUnused, Invariance, PTL DEF Spec, AllocatesUnusedPage

-----------------------------------------------------------------------------
(* Theorems about StorageFaults *)

\* An allocation whose write of the meta page fails uses the id up; the counters stay above
\* all ids handed out, so that none is handed out twice.
THEOREM FaultCounterCorrect == FaultSpec => []CounterCoversHanded
BY InvCounter, FaultInvariance, PTL

\* Nor does allocatePage return an id twice after failed writes, crashes and restarts.
THEOREM FaultAllocationCorrect == FaultSpec => AllocatesUnusedPage
<1>1. Inv /\ [FaultNext]_fvars =>
        [Allocate /\ store.next < MaxPages => store.next \notin handed]_vars
  BY InvUnused
<1>2. QED
  BY <1>1, FaultInvariance, PTL DEF FaultSpec, AllocatesUnusedPage

\* A page is never marked clean by a write that failed.
THEOREM FaultCleanCorrect == FaultSpec => []CleanPagesMatchFile
BY InvClean, FaultInvariance, PTL

\* Failed writes of the meta page lose no content of another page.
THEOREM FaultNoUpdateLostCorrect == FaultSpec => []NoUpdateLost
BY InvLatest, FaultInvariance, PTL

\* The meta page in memory is ahead of the file only after a failed write, and is then marked
\* dirty, so that a later save or the destructor makes up for it.
THEOREM MetaWriteCorrect == FaultSpec => []MetaWriteMadeUp
<1>1. Inv /\ RootInv => MetaWriteMadeUp
  BY InvNext, MetaPageId DEF MetaWriteMadeUp, Inv, MemoryMetaInv, RootInv
<1>2. QED
  BY <1>1, FaultInvariance, PTL

\* The root in the file, and the one getRootPageId returns, is one that was asked for since
\* the last that is known to be in the file; the last one, if no write failed.
THEOREM RootOldOrNewCorrect == FaultSpec => []RootOldOrNew
<1>1. Inv /\ RootInv => RootOldOrNew
  <2> SUFFICES ASSUME Inv, RootInv PROVE RootOldOrNew
    OBVIOUS
  <2>1. DiskMeta.root \in newRoot /\ (failures = 0 => DiskMeta.root = lastRoot)
    BY DiskMetaValue DEF RootInv, Inv, EmptyFileInv
  <2>2. pc # "down" => GetRootPageId(store) \in newRoot
    BY MetaPageId DEF RootInv, GetRootPageId
  <2>3. failures = 0 /\ pc # "down" => GetRootPageId(store) = lastRoot
    BY MetaPageId DEF RootInv, Inv, MemoryMetaInv, GetRootPageId
  <2>4. QED
    BY <2>1, <2>2, <2>3 DEF RootOldOrNew, RootSurvives
<1>2. QED
  BY <1>1, FaultInvariance, PTL

-----------------------------------------------------------------------------
(* Pages: the layout of a page is sound, and the page implements a table of records, for     *)
(* every page, header and slot size and every set of records.  The inductive invariant adds  *)
(* to the layout that every live slot spells one of the records offered, so that it is never *)
(* taken for a deleted one.  The two state machines share nothing.                           *)

RecordsStored == \A n \in SlotIds : Live(n) => GetRecord(n) \in Records

PageInv == PageTypeOK /\ LayoutSound /\ RecordsStored

\* What n slots take, and what one more takes.
LEMMA DirectorySize ==
    ASSUME NEW n \in Nat
    PROVE  n * SlotSize \in Nat /\ (n + 1) * SlotSize = n * SlotSize + SlotSize
BY SizesAssumption

\* The sizes are numbers, and an offset in the page is not the mark of a deletion.
LEMMA Sizes ==
    /\ PageSize \in Nat /\ HeaderSize \in Nat /\ SlotSize \in Nat
    /\ HeaderSize <= PageSize /\ SLOT_DELETED \in Nat /\ PageSize < SLOT_DELETED
    /\ MaxLength \in Nat
BY SizesAssumption

\* A record of equal bytes is one of the records offered.
LEMMA UniformRecord ==
    ASSUME NEW length \in 0 .. MaxLength, NEW v \in Values
    PROVE  [k \in 1 .. length |-> v] \in Records
BY DEF Records

\* Page::init gives an empty, sound page.
LEMMA PageInitInv == PageInit => PageInv
<1> SUFFICES ASSUME PageInit PROVE PageInv
  OBVIOUS
<1>1. SlotIds = {}
  BY DEF PageInit, SlotIds
<1>2. PageTypeOK
  <2>1. data \in [Positions -> Bytes]
    BY DEF PageInit, Bytes
  <2>2. slots \in [SlotIds -> Slot]
    BY <1>1 DEF PageInit
  <2>3. QED
    BY <2>1, <2>2, Sizes DEF PageInit, PageTypeOK
<1>3. LayoutSound /\ RecordsStored
  BY <1>1, Sizes
     DEF PageInit, LayoutSound, AreasApart, RecordsBelowFree, RecordsDisjoint, RecordsStored
<1>4. QED
  BY <1>2, <1>3 DEF PageInv

-----------------------------------------------------------------------------
\* An insertion finds its bytes free: the record ends where the new slot may begin.
LEMMA InsertFits ==
    ASSUME PageInv, NEW length \in 0 .. MaxLength, NEW v \in Values, Insert(length, v)
    PROVE  /\ free_space_offset + length <= PageSize - (num_slots + 1) * SlotSize
           /\ free_space_offset + length \in Nat
           /\ free_space_offset + length + (num_slots + 1) * SlotSize <= PageSize
           /\ (num_slots + 1) * SlotSize \in Nat
<1>1. num_slots \in Nat /\ free_space_offset \in Nat /\ length \in Nat
  BY Sizes DEF PageInv, PageTypeOK
<1>2. /\ num_slots * SlotSize \in Nat
      /\ (num_slots + 1) * SlotSize = num_slots * SlotSize + SlotSize
  BY <1>1, DirectorySize
<1>3. PageSize - free_space_offset - num_slots * SlotSize >= length + SlotSize
  BY DEF Insert, FreeSpace
<1> DEFINE a == num_slots * SlotSize
           b == (num_slots + 1) * SlotSize
<1>4. a \in Nat /\ b = a + SlotSize /\ PageSize - free_space_offset - a >= length + SlotSize
  BY <1>2, <1>3
<1> HIDE DEF a, b
<1>5. /\ free_space_offset + length <= PageSize - b /\ free_space_offset + length \in Nat
      /\ free_space_offset + length + b <= PageSize /\ b \in Nat
  BY <1>1, <1>4, Sizes
<1>6. QED
  BY <1>5 DEF b

\* The slots before the new one are those of before, and the new one is live.
LEMMA InsertSlots ==
    ASSUME PageInv, NEW length \in 0 .. MaxLength, NEW v \in Values, Insert(length, v)
    PROVE  /\ num_slots \in Nat /\ num_slots' = num_slots + 1
           /\ SlotIds' = SlotIds \cup {num_slots} /\ num_slots \notin SlotIds
           /\ \A n \in SlotIds : slots'[n] = slots[n]
           /\ slots'[num_slots] = [offset |-> free_space_offset, length |-> length]
           /\ slots'[num_slots].offset = free_space_offset
           /\ slots'[num_slots].length = length
           /\ free_space_offset' = free_space_offset + length
           /\ free_space_offset \in Nat /\ free_space_offset # SLOT_DELETED
BY Sizes DEF PageInv, PageTypeOK, Insert, SlotIds

\* An insertion leaves the bytes of the records before it alone, and writes its own.
LEMMA InsertBytes ==
    ASSUME PageInv, NEW length \in 0 .. MaxLength, NEW v \in Values, Insert(length, v),
           NEW s, s = num_slots
    PROVE  /\ \A n \in SlotIds : Live(n) => GetRecord(n)' = GetRecord(n)
           /\ Live(s)' /\ GetRecord(s)' = [k \in 1 .. length |-> v]
<1>1. \A b \in Positions : b < free_space_offset => data'[b] = data[b]
  <2> SUFFICES ASSUME NEW b \in Positions, b < free_space_offset
               PROVE  b \notin SlotBytes(num_slots)
    BY DEF Insert, Positions, PageInv, PageTypeOK
  <2>1. b < PageSize - (num_slots + 1) * SlotSize
    BY InsertFits, Sizes DEF Positions, PageInv, PageTypeOK
  <2>2. QED
    BY <2>1, InsertFits, Sizes DEF SlotBytes, Positions
<1>2. ASSUME NEW n \in SlotIds, Live(n)
      PROVE  GetRecord(n)' = GetRecord(n)
  <2>1. slots'[n] = slots[n]
    BY InsertSlots
  <2>2. /\ slots[n] \in Slot /\ slots[n].offset # SLOT_DELETED
        /\ HeaderSize <= slots[n].offset
        /\ slots[n].offset + slots[n].length <= free_space_offset
    BY <1>2 DEF PageInv, PageTypeOK, LayoutSound, RecordsBelowFree, Live
  <2>3. \A k \in 1 .. slots[n].length :
            /\ slots[n].offset + k - 1 \in Positions
            /\ slots[n].offset + k - 1 < free_space_offset
    BY <2>2, Sizes DEF Slot, Positions, PageInv, PageTypeOK
  <2>4. QED
    BY <1>1, <2>1, <2>2, <2>3 DEF GetRecord, Live
<1>3. \A k \in 1 .. length : data'[free_space_offset + k - 1] = v
  <2> SUFFICES ASSUME NEW k \in 1 .. length
               PROVE  data'[free_space_offset + k - 1] = v
    OBVIOUS
  <2> DEFINE b == free_space_offset + k - 1
  <2>1. /\ free_space_offset \in Nat /\ free_space_offset + length <= PageSize
        /\ free_space_offset + length <= PageSize - (num_slots + 1) * SlotSize
    BY InsertFits, Sizes DEF PageInv, PageTypeOK
  <2>2. b \in Positions /\ b \in free_space_offset .. free_space_offset + length - 1
    BY <2>1, Sizes DEF Positions
  <2>3. b < PageSize - (num_slots + 1) * SlotSize
    BY <2>1, InsertFits, Sizes
  <2>4. b \notin SlotBytes(num_slots)
    BY <2>2, <2>3, InsertFits, Sizes DEF SlotBytes, Positions
  <2>5. QED
    BY <2>2, <2>4 DEF Insert
<1>4. Live(s)' /\ GetRecord(s)' = [k \in 1 .. length |-> v]
  <2>1. /\ slots'[s].offset = free_space_offset /\ slots'[s].length = length
        /\ free_space_offset # SLOT_DELETED
    BY InsertSlots
  <2>2. QED
    BY <1>3, <2>1 DEF GetRecord, Live
<1>5. QED
  BY <1>2, <1>4

\* A step keeps the invariant: insertRecord.
LEMMA InsertInv ==
    ASSUME PageInv, NEW length \in 0 .. MaxLength, NEW v \in Values, Insert(length, v)
    PROVE  PageInv'
<1> DEFINE new == [offset |-> free_space_offset, length |-> length]
<1>0. /\ num_slots \in Nat /\ num_slots' = num_slots + 1
      /\ SlotIds' = SlotIds \cup {num_slots} /\ num_slots \notin SlotIds
      /\ \A n \in SlotIds : slots'[n] = slots[n]
      /\ slots'[num_slots].offset = free_space_offset
      /\ slots'[num_slots].length = length
      /\ free_space_offset' = free_space_offset + length
      /\ free_space_offset \in Nat /\ free_space_offset # SLOT_DELETED
  BY InsertSlots
<1>1. /\ slots \in [SlotIds -> Slot] /\ length \in Nat /\ free_space_offset \in Nat
      /\ \A n \in SlotIds : slots[n].offset \in Nat /\ slots[n].length \in Nat
  BY Sizes DEF PageInv, PageTypeOK, Slot
<1>2. new \in Slot /\ free_space_offset' \in 0 .. PageSize
  <2>1. free_space_offset + length <= PageSize
    BY <1>1, InsertFits, Sizes
  <2>2. QED
    BY <1>0, <1>1, <2>1, Sizes DEF Slot
<1>3. PageTypeOK'
  <2>1. data' \in [Positions -> Bytes]
    BY DEF Insert, PageInv, PageTypeOK, Bytes
  <2>2. slots' \in [SlotIds' -> Slot]
    BY <1>1, <1>2, InsertSlots DEF Insert, SlotIds
  <2>3. QED
    BY <1>2, <2>1, <2>2, <1>0 DEF PageTypeOK
<1>4. AreasApart'
  <2>1. HeaderSize <= free_space_offset
    BY DEF AreasApart, PageInv, LayoutSound
  <2>2. free_space_offset + length + (num_slots + 1) * SlotSize <= PageSize
    BY InsertFits
  <2>3. QED
    BY <1>0, <1>1, <2>1, <2>2, Sizes DEF AreasApart
<1>5. RecordsBelowFree'
  <2> SUFFICES ASSUME NEW n \in SlotIds', Live(n)'
               PROVE  /\ HeaderSize <= slots'[n].offset
                      /\ slots'[n].offset + slots'[n].length <= free_space_offset'
    BY DEF RecordsBelowFree
  <2>1. CASE n = num_slots
    BY <1>0, <1>1, <2>1, Sizes DEF PageInv, LayoutSound, AreasApart
  <2>2. CASE n \in SlotIds
    <3>1. slots'[n] = slots[n] /\ Live(n)
      BY <2>2, <1>0 DEF Live
    <3>2. QED
      BY <1>1, <2>2, <3>1, <1>0 DEF PageInv, LayoutSound, RecordsBelowFree
  <2>3. QED
    BY <2>1, <2>2, <1>0
<1>6. RecordsDisjoint'
  <2> SUFFICES ASSUME NEW m \in SlotIds', NEW n \in SlotIds', m < n, Live(m)', Live(n)'
               PROVE  slots'[m].offset + slots'[m].length <= slots'[n].offset
    BY DEF RecordsDisjoint
  <2>1. m \in SlotIds /\ slots'[m] = slots[m] /\ Live(m)
    BY <1>0 DEF SlotIds, Live
  <2>2. CASE n = num_slots
    BY <1>1, <2>1, <2>2, <1>0 DEF PageInv, LayoutSound, RecordsBelowFree
  <2>3. CASE n \in SlotIds
    <3>1. slots'[n] = slots[n] /\ Live(n)
      BY <2>3, <1>0 DEF Live
    <3>2. QED
      BY <2>1, <2>3, <3>1 DEF PageInv, LayoutSound, RecordsDisjoint
  <2>4. QED
    BY <2>2, <2>3, <1>0
<1>7. RecordsStored'
  <2> SUFFICES ASSUME NEW n \in SlotIds', Live(n)'
               PROVE  GetRecord(n)' \in Records
    BY DEF RecordsStored, Records
  <2>1. CASE n = num_slots
    BY <2>1, InsertBytes, UniformRecord
  <2>2. CASE n \in SlotIds
    <3>1. Live(n)
      BY <2>2, <1>0 DEF Live
    <3>2. GetRecord(n)' = GetRecord(n)
      BY <2>2, <3>1, InsertBytes
    <3>3. QED
      BY <2>2, <3>1, <3>2 DEF PageInv, RecordsStored
  <2>3. QED
    BY <2>1, <2>2, <1>0
<1>8. QED
  BY <1>3, <1>4, <1>5, <1>6, <1>7 DEF PageInv, LayoutSound

-----------------------------------------------------------------------------
\* An update reaches the bytes of its own record only.
LEMMA UpdateBytes ==
    ASSUME PageInv, NEW n \in SlotIds, NEW length \in 0 .. MaxLength, NEW v \in Values,
           Update(n, length, v)
    PROVE  /\ \A m \in SlotIds : m # n /\ Live(m) => GetRecord(m)' = GetRecord(m)
           /\ GetRecord(n)' = [k \in 1 .. length |-> v]
<1>1. \A m \in SlotIds : /\ slots[m] \in Slot
                         /\ Live(m) => slots[m].offset \in Nat /\ slots[m].length \in Nat
  BY DEF PageInv, PageTypeOK, Slot, Live
<1>2. \A m \in SlotIds, k \in Nat :
         Live(m) /\ k \in 1 .. slots[m].length => slots[m].offset + k - 1 \in Positions
  <2> SUFFICES ASSUME NEW m \in SlotIds, NEW k \in Nat, Live(m), k \in 1 .. slots[m].length
               PROVE  slots[m].offset + k - 1 \in Positions
    OBVIOUS
  <2>1. slots[m].offset + slots[m].length <= PageSize
    BY <1>1, Sizes DEF PageInv, LayoutSound, RecordsBelowFree, PageTypeOK
  <2>2. QED
    BY <1>1, <2>1, Sizes DEF Positions
<1>3. ASSUME NEW m \in SlotIds, m # n, Live(m), NEW k \in 1 .. slots[m].length
      PROVE  slots[m].offset + k - 1 \notin RecordBytes(n)
  <2>1. m < n \/ n < m
    BY <1>3 DEF SlotIds
  <2>2. Live(n)
    BY DEF Update
  <2>3. CASE m < n
    BY <1>1, <1>3, <2>2, <2>3 DEF PageInv, LayoutSound, RecordsDisjoint, RecordBytes
  <2>4. CASE n < m
    BY <1>1, <1>3, <2>2, <2>4 DEF PageInv, LayoutSound, RecordsDisjoint, RecordBytes
  <2>5. QED
    BY <2>1, <2>3, <2>4
<1>4. ASSUME NEW m \in SlotIds, m # n, Live(m)
      PROVE  GetRecord(m)' = GetRecord(m)
  <2>1. \A k \in 1 .. slots[m].length :
            data'[slots[m].offset + k - 1] = data[slots[m].offset + k - 1]
    BY <1>1, <1>2, <1>3, <1>4 DEF Update
  <2>2. QED
    BY <2>1, <1>4 DEF GetRecord, Live, Update
<1>5. GetRecord(n)' = [k \in 1 .. length |-> v]
  <2>1. Live(n) /\ slots[n].length = length /\ slots' = slots
    BY DEF Update
  <2>2. \A k \in 1 .. length : data'[slots[n].offset + k - 1] = v
    <3> SUFFICES ASSUME NEW k \in 1 .. length PROVE data'[slots[n].offset + k - 1] = v
      OBVIOUS
    <3>1. slots[n].offset + k - 1 \in Positions
      BY <1>2, <2>1
    <3>2. slots[n].offset + k - 1 \in RecordBytes(n)
      BY <1>1, <2>1 DEF RecordBytes
    <3>3. QED
      BY <3>1, <3>2 DEF Update
  <2>3. QED
    BY <2>1, <2>2 DEF GetRecord, Live
<1>6. QED
  BY <1>4, <1>5

\* A step keeps the invariant: updateRecord.
LEMMA UpdateInv ==
    ASSUME PageInv, NEW n \in SlotIds, NEW length \in 0 .. MaxLength, NEW v \in Values,
           Update(n, length, v)
    PROVE  PageInv'
<1>1. UNCHANGED <<num_slots, free_space_offset, slots>>
  BY DEF Update
<1>2. SlotIds' = SlotIds /\ \A m \in SlotIds : Live(m)' = Live(m)
  BY <1>1 DEF SlotIds, Live
<1>3. PageTypeOK'
  <2>1. data' \in [Positions -> Bytes]
    BY DEF Update, PageInv, PageTypeOK, Bytes
  <2>2. QED
    BY <1>1, <1>2, <2>1 DEF PageInv, PageTypeOK
<1>4. LayoutSound'
  BY <1>1, <1>2 DEF PageInv, LayoutSound, AreasApart, RecordsBelowFree, RecordsDisjoint
<1>5. RecordsStored'
  <2> SUFFICES ASSUME NEW m \in SlotIds, Live(m) PROVE GetRecord(m)' \in Records
    BY <1>2 DEF RecordsStored, Records
  <2>1. CASE m = n
    BY <2>1, UpdateBytes, UniformRecord
  <2>2. CASE m # n
    BY <2>2, UpdateBytes DEF PageInv, RecordsStored
  <2>3. QED
    BY <2>1, <2>2
<1>6. QED
  BY <1>3, <1>4, <1>5 DEF PageInv

\* A deletion hides one record and leaves the others as they are.
LEMMA DeleteSlots ==
    ASSUME PageInv, NEW n \in SlotIds, Delete(n)
    PROVE  /\ SlotIds' = SlotIds /\ ~Live(n)'
           /\ \A m \in SlotIds : m # n => /\ Live(m)' = Live(m) /\ slots'[m] = slots[m]
                                         /\ GetRecord(m)' = GetRecord(m)
           /\ slots' \in [SlotIds -> Slot]
<1>1. /\ slots \in [SlotIds -> Slot]
      /\ slots' = [slots EXCEPT ![n] = [offset |-> SLOT_DELETED, length |-> 0]]
      /\ UNCHANGED <<data, num_slots, free_space_offset>>
  BY DEF PageInv, PageTypeOK, Delete
<1>2. [offset |-> SLOT_DELETED, length |-> 0] \in Slot
  BY Sizes DEF Slot
<1>3. SlotIds' = SlotIds /\ ~Live(n)' /\ slots' \in [SlotIds -> Slot]
  BY <1>1, <1>2 DEF SlotIds, Live
<1>4. \A m \in SlotIds : m # n => /\ Live(m)' = Live(m) /\ slots'[m] = slots[m]
  BY <1>1 DEF Live
<1>5. \A m \in SlotIds : m # n => GetRecord(m)' = GetRecord(m)
  BY <1>1, <1>4 DEF GetRecord
<1>6. QED
  BY <1>3, <1>4, <1>5

\* A step keeps the invariant: deleteRecord.
LEMMA DeleteInv == ASSUME PageInv, NEW n \in SlotIds, Delete(n) PROVE PageInv'
<1>1. UNCHANGED <<data, num_slots, free_space_offset>>
  BY DEF Delete
<1>2. PageTypeOK'
  BY <1>1, DeleteSlots DEF PageInv, PageTypeOK
<1>3. LayoutSound'
  BY <1>1, DeleteSlots DEF PageInv, LayoutSound, AreasApart, RecordsBelowFree, RecordsDisjoint
<1>4. RecordsStored'
  BY DeleteSlots DEF PageInv, RecordsStored, Records
<1>5. QED
  BY <1>2, <1>3, <1>4 DEF PageInv

\* Every step keeps the invariant.
LEMMA PageNextInv == PageInv /\ [PageNext]_pageVars => PageInv'
<1> SUFFICES ASSUME PageInv, [PageNext]_pageVars PROVE PageInv'
  OBVIOUS
<1>1. ASSUME NEW length \in 0 .. MaxLength, NEW v \in Values, Insert(length, v) PROVE PageInv'
  BY <1>1, InsertInv
<1>2. ASSUME NEW n \in SlotIds, NEW length \in 0 .. MaxLength, NEW v \in Values,
             Update(n, length, v)
      PROVE PageInv'
  BY <1>2, UpdateInv
<1>3. ASSUME NEW n \in SlotIds, Delete(n) PROVE PageInv'
  BY <1>3, DeleteInv
<1>4. CASE UNCHANGED pageVars
  BY <1>4
     DEF pageVars, PageInv, PageTypeOK, LayoutSound, AreasApart, RecordsBelowFree, RecordsDisjoint,
              RecordsStored, SlotIds, Live, GetRecord, Records
<1>5. QED
  BY <1>1, <1>2, <1>3, <1>4 DEF PageNext

\* The invariant holds in every reachable state.
THEOREM PageInvariance == PageSpec => []PageInv
BY PageInitInv, PageNextInv, PTL DEF PageSpec

\* Bytes, header fields and slots keep their types: no slot points past the page.
THEOREM PageTypeCorrect == PageSpec => []PageTypeOK
<1>1. PageInv => PageTypeOK
  BY DEF PageInv
<1>2. QED
  BY <1>1, PageInvariance, PTL

\* Records, header and slot directory never overlap on a page of any size.
THEOREM LayoutCorrect == PageSpec => []LayoutSound
<1>1. PageInv => LayoutSound
  BY DEF PageInv
<1>2. QED
  BY <1>1, PageInvariance, PTL

-----------------------------------------------------------------------------
\* The length of a function on 1 .. n, as a sequence.
LEMMA LenOfFunction ==
    ASSUME NEW n \in Nat, NEW f, NEW e(_), f = [k \in 1 .. n |-> e(k)]
    PROVE  Len(f) = n
OBVIOUS

\* The table of records the page stands for.
Table == [n \in SlotIds |-> GetRecord(n)]

\* insertRecord adds one record to the table, under the next number.
LEMMA InsertStep ==
    ASSUME PageInv, NEW length \in 0 .. MaxLength, NEW v \in Values, Insert(length, v)
    PROVE  num_slots \in SlotIds' /\ RT!RTInsert(num_slots, [k \in 1 .. length |-> v])
<1> DEFINE r == [k \in 1 .. length |-> v]
<1>1. \A s : s = num_slots => Live(s)' /\ GetRecord(s)' = r
  BY InsertBytes
<1>2. /\ SlotIds' = SlotIds \cup {num_slots} /\ num_slots \notin SlotIds
      /\ \A n \in SlotIds : slots'[n] = slots[n]
  BY InsertSlots
<1>3. \A n \in SlotIds : GetRecord(n)' = GetRecord(n)
  <2> SUFFICES ASSUME NEW n \in SlotIds PROVE GetRecord(n)' = GetRecord(n)
    OBVIOUS
  <2>1. CASE Live(n)
    BY <2>1, InsertBytes
  <2>2. CASE ~Live(n)
    BY <1>2, <2>2 DEF GetRecord, Live
  <2>3. QED
    BY <2>1, <2>2
<1>4. SlotIds = 0 .. num_slots - 1 /\ SlotIds' = 0 .. num_slots
  <2>1. num_slots \in Nat /\ num_slots' = num_slots + 1
    BY InsertSlots
  <2>2. QED
    BY <2>1 DEF SlotIds
<1>5. Table' = [n \in 0 .. num_slots |-> IF n = num_slots THEN r ELSE Table[n]]
  BY <1>1, <1>2, <1>3, <1>4 DEF Table
<1>6. DOMAIN Table = 0 .. num_slots - 1
  BY <1>4 DEF Table
<1>7. QED
  BY <1>2, <1>5, <1>6 DEF RT!RTInsert, Table

\* updateRecord replaces one live record by one of the same length.
LEMMA UpdateStep ==
    ASSUME PageInv, NEW n \in SlotIds, NEW length \in 0 .. MaxLength, NEW v \in Values,
           Update(n, length, v)
    PROVE  RT!RTUpdate(n, [k \in 1 .. length |-> v])
<1> DEFINE r == [k \in 1 .. length |-> v]
<1>1. /\ Live(n) /\ slots[n].length = length
      /\ UNCHANGED <<num_slots, free_space_offset, slots>> /\ length \in Nat
  BY Sizes DEF Update
<1>2. SlotIds' = SlotIds
  BY <1>1 DEF SlotIds
<1>3. Table[n] = GetRecord(n) /\ GetRecord(n) \in Records
  BY <1>1 DEF Table, PageInv, RecordsStored
<1>4. Table[n] # Deleted
  BY <1>3, DeletedAssumption
<1>5. Len(Table[n]) = length /\ Len(r) = length
  BY <1>1, <1>3, LenOfFunction DEF GetRecord
<1>6. \A m \in SlotIds : GetRecord(m)' = IF m = n THEN r ELSE GetRecord(m)
  <2> SUFFICES ASSUME NEW m \in SlotIds
               PROVE  GetRecord(m)' = IF m = n THEN r ELSE GetRecord(m)
    OBVIOUS
  <2>1. CASE m = n \/ Live(m)
    BY <2>1, UpdateBytes
  <2>2. CASE m # n /\ ~Live(m)
    BY <1>1, <2>2 DEF GetRecord, Live
  <2>3. QED
    BY <2>1, <2>2
<1>7. Table' = [Table EXCEPT ![n] = r]
  BY <1>2, <1>6 DEF Table
<1>8. QED
  BY <1>4, <1>5, <1>7 DEF RT!RTUpdate, Table

\* deleteRecord removes one record for good.
LEMMA DeleteStep ==
    ASSUME PageInv, NEW n \in SlotIds, Delete(n) PROVE RT!RTDelete(n)
<1>1. Live(n) /\ SlotIds' = SlotIds
  BY DeleteSlots DEF Delete
<1>2. Table[n] # Deleted
  BY <1>1, DeletedAssumption DEF Table, PageInv, RecordsStored
<1>3. GetRecord(n)' = Deleted
  BY DeleteSlots DEF GetRecord
<1>4. Table' = [Table EXCEPT ![n] = Deleted]
  BY <1>1, <1>3, DeleteSlots DEF Table
<1>5. QED
  BY <1>2, <1>4 DEF RT!RTDelete, Table

\* The page implements the table of records: a slot id reads the record last stored under
\* it until it is deleted, whatever else is inserted, updated or deleted.
THEOREM TableRefinement == PageSpec => ImplementsRecordTable
<1>1. PageInit => RT!RTInit
  BY DEF PageInit, RT!RTInit, SlotIds
<1>2. PageInv /\ [PageNext]_pageVars => [RT!RTNext]_Table
  <2> SUFFICES ASSUME PageInv, [PageNext]_pageVars PROVE RT!RTNext \/ UNCHANGED Table
    OBVIOUS
  <2>1. DOMAIN Table = SlotIds /\ DOMAIN Table' = SlotIds'
    BY DEF Table
  <2>2. ASSUME NEW length \in 0 .. MaxLength, NEW v \in Values, Insert(length, v)
        PROVE  RT!RTNext
    <3>1. num_slots \in SlotIds' /\ RT!RTInsert(num_slots, [k \in 1 .. length |-> v])
      BY <2>2, InsertStep
    <3>2. [k \in 1 .. length |-> v] \in Records
      BY UniformRecord
    <3>3. QED
      BY <2>1, <3>1, <3>2 DEF RT!RTNext, Table
  <2>3. ASSUME NEW n \in SlotIds, NEW length \in 0 .. MaxLength, NEW v \in Values,
               Update(n, length, v)
        PROVE  RT!RTNext
    <3>1. RT!RTUpdate(n, [k \in 1 .. length |-> v])
      BY <2>3, UpdateStep
    <3>2. [k \in 1 .. length |-> v] \in Records
      BY UniformRecord
    <3>3. QED
      BY <2>1, <3>1, <3>2 DEF RT!RTNext, Table
  <2>4. ASSUME NEW n \in SlotIds, Delete(n) PROVE RT!RTNext
    BY <2>1, <2>4, DeleteStep DEF RT!RTNext, Table
  <2>5. CASE UNCHANGED pageVars
    BY <2>5 DEF pageVars, Table, SlotIds, GetRecord, Live
  <2>6. QED
    BY <2>2, <2>3, <2>4, <2>5 DEF PageNext
<1>3. QED
  BY <1>1, <1>2, PageInvariance, PTL DEF PageSpec, ImplementsRecordTable, RT!RTSpec, Table
=============================================================================
