------------------------- MODULE BufferManagerProofs -------------------------
(***************************************************************************)
(* The bookkeeping of the buffer pool is right for every pool size, number *)
(* of clients and file size.  The page table, the frames, the LRU list and *)
(* the pins are four accounts of the same thing, and none is inductive     *)
(* alone: the eviction of the last listed page is right only because the   *)
(* list holds unpinned pages, a pin of zero only because pins count the    *)
(* clients.  Inv adds that the frame of the meta page is never dirty, and  *)
(* what the storage needs to be well-typed, part by part.  From it follow  *)
(* the order of eviction and, in the last part, that pool and storage      *)
(* together implement PageStore.                                           *)
(***************************************************************************)
EXTENDS BufferLRU, StorageManagerLemmas, FiniteSetTheorems, SequenceTheorems

-----------------------------------------------------------------------------
(* The LRU list *)

Once(l) == \A j, k \in DOMAIN l : l[j] = l[k] => j = k

\* What is left of a list without repetitions when one position is dropped.
LEMMA DropAtEffect ==
    ASSUME NEW S, NEW l \in Seq(S), Once(l), NEW k \in DOMAIN l
    PROVE  /\ DropAt(l, k) \in Seq(S)
           /\ Once(DropAt(l, k))
           /\ Elements(DropAt(l, k)) = Elements(l) \ {l[k]}
<1> DEFINE d == DropAt(l, k)
           n == Len(l) - 1
<1>1. /\ Len(l) \in Nat /\ DOMAIN l = 1 .. Len(l) /\ k \in 1 .. Len(l)
      /\ \A j \in 1 .. Len(l) : l[j] \in S
  OBVIOUS
<1>2. n \in Nat
  BY <1>1
<1>3. /\ DOMAIN d = 1 .. n
      /\ \A j \in 1 .. n : d[j] = IF j < k THEN l[j] ELSE l[j + 1]
  BY DEF DropAt
<1>4. \A j \in 1 .. n : d[j] \in S
  BY <1>1, <1>3
<1>5. d \in Seq(S)
  <2>1. d = [j \in 1 .. n |-> IF j < k THEN l[j] ELSE l[j + 1]]
    BY DEF DropAt
  <2>2. d \in [1 .. n -> S]
    BY <1>1, <2>1
  <2>3. QED
    BY <1>2, <2>2
<1> HIDE DEF d
<1>6. Once(d)
  BY <1>1, <1>2, <1>3 DEF Once
<1>7. ASSUME NEW x \in Elements(d) PROVE x \in Elements(l) \ {l[k]}
  BY <1>1, <1>2, <1>3 DEF Elements, Once
<1>8. ASSUME NEW x \in Elements(l), x # l[k] PROVE x \in Elements(d)
  <2>1. PICK j \in 1 .. Len(l) : x = l[j]
    BY <1>1 DEF Elements
  <2>2. CASE j < k
    BY <1>1, <1>2, <1>3, <2>1, <2>2 DEF Elements
  <2>3. CASE j > k
    <3>1. j - 1 \in 1 .. n /\ d[j - 1] = l[j]
      BY <1>1, <1>2, <1>3, <2>1, <2>3
    <3>2. QED
      BY <1>3, <2>1, <3>1 DEF Elements
  <2>4. QED
    BY <1>1, <1>8, <2>1, <2>2, <2>3
<1>9. Elements(d) = Elements(l) \ {l[k]}
  BY <1>7, <1>8
<1>10. QED
  BY <1>5, <1>6, <1>9 DEF d

\* lru_remove takes the page out of the list, if it is in it.
LEMMA LruRemoveEffect ==
    ASSUME NEW S, NEW l \in Seq(S), Once(l), NEW p
    PROVE  /\ LruRemove(l, p) \in Seq(S)
           /\ Once(LruRemove(l, p))
           /\ Elements(LruRemove(l, p)) = Elements(l) \ {p}
<1>1. CASE p \notin Elements(l)
  BY <1>1 DEF LruRemove
<1>2. CASE p \in Elements(l)
  <2> DEFINE k == CHOOSE k \in DOMAIN l : l[k] = p
  <2>1. k \in DOMAIN l /\ l[k] = p
    BY <1>2 DEF Elements
  <2>2. LruRemove(l, p) = DropAt(l, k)
    BY <1>2 DEF LruRemove
  <2> HIDE DEF k
  <2>3. QED
    BY <2>1, <2>2, DropAtEffect
<1>3. QED
  BY <1>1, <1>2

\* lru_touch puts the page in front, and nowhere else.
LEMMA LruTouchEffect ==
    ASSUME NEW S, NEW l \in Seq(S), Once(l), NEW p \in S
    PROVE  /\ LruTouch(l, p) \in Seq(S)
           /\ Once(LruTouch(l, p))
           /\ Elements(LruTouch(l, p)) = Elements(l) \cup {p}
<1> DEFINE r == LruRemove(l, p)
           t == <<p>> \o r
<1>1. r \in Seq(S) /\ Once(r) /\ Elements(r) = Elements(l) \ {p}
  BY LruRemoveEffect
<1> HIDE DEF r
<1>2. /\ t \in Seq(S) /\ Len(t) = Len(r) + 1 /\ t[1] = p
      /\ \A j \in 1 .. Len(r) : t[j + 1] = r[j]
  BY <1>1
<1>3. Len(r) \in Nat /\ DOMAIN r = 1 .. Len(r) /\ DOMAIN t = 1 .. Len(r) + 1
  BY <1>1, <1>2
<1> HIDE DEF t
<1>4. \A j \in 2 .. Len(r) + 1 : j - 1 \in 1 .. Len(r) /\ t[j] = r[j - 1]
  BY <1>2, <1>3
<1>5. \A j \in 1 .. Len(r) : r[j] # p
  BY <1>1, <1>3 DEF Elements
<1>6. Once(t)
  BY <1>1, <1>2, <1>3, <1>4, <1>5 DEF Once
<1>7. Elements(t) = Elements(r) \cup {p}
  <2>1. ASSUME NEW x \in Elements(t) PROVE x \in Elements(r) \cup {p}
    <3>1. PICK j \in 1 .. Len(r) + 1 : x = t[j]
      BY <1>3 DEF Elements
    <3>2. CASE j = 1
      BY <1>2, <3>1, <3>2
    <3>3. CASE j \in 2 .. Len(r) + 1
      BY <1>3, <1>4, <3>1, <3>3 DEF Elements
    <3>4. QED
      BY <1>3, <3>1, <3>2, <3>3
  <2>2. ASSUME NEW x \in Elements(r) PROVE x \in Elements(t)
    BY <1>2, <1>3 DEF Elements
  <2>3. p \in Elements(t)
    BY <1>2, <1>3 DEF Elements
  <2>4. QED
    BY <2>1, <2>2, <2>3
<1>8. LruTouch(l, p) = t
  BY DEF LruTouch, t, r
<1>9. QED
  BY <1>1, <1>2, <1>6, <1>7, <1>8
-----------------------------------------------------------------------------
(* The storage below the pool *)

\* A file: zero beyond its length, with a meta page whose counter loadMeta accepts.
FileOK(s) ==
    /\ s \in StorageType /\ ZeroTail(s)
    /\ s.numPages > 0 =>
         s.disk[META_PAGE_ID] \in Metas /\ s.disk[META_PAGE_ID].next \in 1 .. MaxPages

\* An open storage: its meta page is in memory, and the one in the file.
StoreOK(s) ==
    /\ FileOK(s) /\ s.numPages > 0
    /\ META_PAGE_ID \in s.loaded /\ META_PAGE_ID \notin s.dirty
    /\ s.cache[META_PAGE_ID] \in Metas

\* fetchPage never reloads the meta page.
LEMMA FetchKeepsStore ==
    ASSUME NEW s, StoreOK(s), NEW p \in PageIds
    PROVE  StoreOK(FetchPage(s, p))
<1>1. CASE p \in s.loaded
  BY <1>1 DEF FetchPage
<1>2. CASE p \notin s.loaded
  <2>1. p # META_PAGE_ID
    BY <1>2 DEF StoreOK
  <2>2. /\ FetchPage(s, p) \in StorageType
        /\ ZeroTail(FetchPage(s, p))
        /\ FetchPage(s, p).disk = s.disk
        /\ FetchPage(s, p).numPages = s.numPages
        /\ FetchPage(s, p).loaded = s.loaded \cup {p}
        /\ FetchPage(s, p).cache = [s.cache EXCEPT ![p] = s.disk[p]]
        /\ FetchPage(s, p).dirty = s.dirty \ {p}
    BY <1>2, FetchPageEffect DEF StoreOK, FileOK
  <2>3. s.cache \in [PageIds -> Content]
    BY DEF StoreOK, FileOK, StorageType
  <2>4. QED
    BY <2>1, <2>2, <2>3, MetaPageId DEF StoreOK, FileOK
<1>3. QED
  BY <1>1, <1>2

\* A page other than the meta page is written back.
LEMMA WriteKeepsStore ==
    ASSUME NEW s, StoreOK(s), NEW p \in PageIds, p # META_PAGE_ID, NEW c \in Content
    PROVE  StoreOK(WritePage(s, p, c))
<1>1. /\ WritePage(s, p, c) \in StorageType
      /\ ZeroTail(WritePage(s, p, c))
      /\ WritePage(s, p, c).disk = [s.disk EXCEPT ![p] = c]
      /\ WritePage(s, p, c).numPages = (IF p >= s.numPages THEN p + 1 ELSE s.numPages)
      /\ WritePage(s, p, c).loaded = s.loaded
      /\ p \in s.loaded => /\ WritePage(s, p, c).cache = [s.cache EXCEPT ![p] = c]
                           /\ WritePage(s, p, c).dirty = s.dirty \ {p}
      /\ p \notin s.loaded => /\ WritePage(s, p, c).cache = s.cache
                              /\ WritePage(s, p, c).dirty = s.dirty
  BY WritePageEffect DEF StoreOK, FileOK
<1>2. /\ s.cache \in [PageIds -> Content] /\ s.disk \in [PageIds -> Content]
      /\ s.numPages \in Nat /\ p \in Nat
  BY DEF StoreOK, FileOK, StorageType, PageIds
<1>3. WritePage(s, p, c).numPages > 0
  BY <1>1, <1>2 DEF StoreOK
<1>4. QED
  BY <1>1, <1>2, <1>3, MetaPageId DEF StoreOK, FileOK

\* allocatePage keeps the meta page clean and its counter legal, at the limit too.
LEMMA AllocateKeepsStore ==
    ASSUME NEW s, StoreOK(s)
    PROVE  StoreOK(AllocatePage(s))
<1>1. CASE s.next < MaxPages
  <2> DEFINE m == Meta(s.next + 1, s.cache[META_PAGE_ID].root)
  <2>1. /\ m \in Metas
        /\ AllocatePage(s) \in StorageType
        /\ ZeroTail(AllocatePage(s))
        /\ AllocatePage(s).disk = [s.disk EXCEPT ![META_PAGE_ID] = m]
        /\ AllocatePage(s).numPages = (IF s.numPages = 0 THEN 1 ELSE s.numPages)
        /\ AllocatePage(s).loaded = s.loaded \cup {s.next}
        /\ AllocatePage(s).cache = [[s.cache EXCEPT ![s.next] = Fresh]
                                        EXCEPT ![META_PAGE_ID] = m]
        /\ AllocatePage(s).dirty = (s.dirty \cup {s.next}) \ {META_PAGE_ID}
    BY <1>1, AllocatePageEffect DEF StoreOK, FileOK
  <2>2. m.next = s.next + 1 /\ s.next \in Nat \ {0}
    BY DEF Meta, StoreOK, FileOK, StorageType
  <2>3. m.next \in 1 .. MaxPages
    BY <1>1, <2>2, MaxPagesAssumption
  <2>4. s.cache \in [PageIds -> Content] /\ s.disk \in [PageIds -> Content]
    BY DEF StoreOK, FileOK, StorageType
  <2> HIDE DEF m
  <2>5. QED
    BY <2>1, <2>3, <2>4, MetaPageId DEF StoreOK, FileOK
<1>2. CASE ~(s.next < MaxPages)
  BY <1>2, AllocatePageFails DEF StoreOK, FileOK
<1>3. QED
  BY <1>1, <1>2

\* The destructor writes only pages that are dirty, so never the meta page.
LEMMA CloseKeepsStore ==
    ASSUME NEW s, StoreOK(s), NEW p
    PROVE  StoreOK(ClosePage(s, p))
<1>1. CASE ~CloseWrites(s, p)
  BY <1>1 DEF ClosePage
<1>2. CASE CloseWrites(s, p)
  <2>1. /\ p \in PageIds /\ p # META_PAGE_ID /\ s.cache[p] \in Content
        /\ s \in StorageType /\ ZeroTail(s)
    BY <1>2 DEF CloseWrites, StoreOK, FileOK, StorageType
  <2>2. /\ DiskWrite(s, p, s.cache[p]) \in StorageType
        /\ DiskWrite(s, p, s.cache[p]).disk = [s.disk EXCEPT ![p] = s.cache[p]]
        /\ DiskWrite(s, p, s.cache[p]).numPages = (IF p >= s.numPages THEN p + 1 ELSE s.numPages)
        /\ DiskWrite(s, p, s.cache[p]).loaded = s.loaded
        /\ DiskWrite(s, p, s.cache[p]).cache = s.cache
        /\ DiskWrite(s, p, s.cache[p]).dirty = s.dirty
        /\ ZeroTail(DiskWrite(s, p, s.cache[p]))
    BY <2>1, DiskWriteEffect
  <2>3. s.disk \in [PageIds -> Content] /\ s.numPages \in Nat /\ p \in Nat
    BY <2>1 DEF StorageType, PageIds
  <2>4. ClosePage(s, p) = DiskWrite(s, p, s.cache[p])
    BY <1>2 DEF ClosePage
  <2>5. DiskWrite(s, p, s.cache[p]).numPages > 0
    BY <2>2, <2>3 DEF StoreOK
  <2> HIDE DEF DiskWrite
  <2>6. QED
    BY <2>1, <2>2, <2>3, <2>4, <2>5, MetaPageId DEF StoreOK, FileOK
<1>3. QED
  BY <1>1, <1>2

\* The end of the process leaves a file, and the constructor opens any such file.
LEMMA FileLeft ==
    ASSUME NEW s, StoreOK(s)
    PROVE  FileOK(LoseMemory(s))
BY LoseMemoryEffect DEF StoreOK, FileOK, ZeroTail

LEMMA FileOpened ==
    ASSUME NEW s, FileOK(s)
    PROVE  StoreOK(OpenStorage(s))
<1>1. CASE s.numPages > 0
  BY <1>1, OpenExistingEffect, MetaPageId DEF StoreOK, FileOK
<1>2. CASE s.numPages = 0
  <2>1. /\ Meta(1, 0) \in Metas /\ Meta(1, 0).next = 1
        /\ OpenStorage(s) \in StorageType
        /\ ZeroTail(OpenStorage(s))
        /\ OpenStorage(s).disk = [s.disk EXCEPT ![META_PAGE_ID] = Meta(1, 0)]
        /\ OpenStorage(s).numPages = 1
        /\ OpenStorage(s).loaded = {META_PAGE_ID}
        /\ OpenStorage(s).cache[META_PAGE_ID] = Meta(1, 0)
        /\ OpenStorage(s).dirty = {}
    BY <1>2, OpenNewEffect DEF FileOK, Meta
  <2>2. OpenStorage(s).disk[META_PAGE_ID] = Meta(1, 0)
    BY <2>1, MetaPageId DEF FileOK, StorageType
  <2>3. QED
    BY <2>1, <2>2, MaxPagesAssumption DEF StoreOK, FileOK
<1>3. QED
  BY <1>1, <1>2 DEF FileOK, StorageType

\* What a reader of the storage sees of a page after each operation.
LEMMA ViewIsDisk ==
    ASSUME NEW s, StoreOK(s), NEW p \in PageIds
    PROVE  ViewOf(s, p) = IF p \in s.loaded THEN s.cache[p] ELSE s.disk[p]
BY DiskReadIsDisk DEF ViewOf, StoreOK, FileOK

LEMMA ViewAfterFetch ==
    ASSUME NEW s, StoreOK(s), NEW p \in PageIds
    PROVE  /\ FetchPage(s, p).next = s.next
           /\ \A q \in PageIds : ViewOf(FetchPage(s, p), q) = ViewOf(s, q)
<1>1. CASE p \in s.loaded
  BY <1>1 DEF FetchPage
<1>2. CASE p \notin s.loaded
  <2>1. /\ FetchPage(s, p).disk = s.disk /\ FetchPage(s, p).next = s.next
        /\ FetchPage(s, p).loaded = s.loaded \cup {p}
        /\ FetchPage(s, p).cache = [s.cache EXCEPT ![p] = s.disk[p]]
    BY <1>2, FetchPageEffect DEF StoreOK, FileOK
  <2>2. StoreOK(FetchPage(s, p)) /\ s.cache \in [PageIds -> Content]
    BY FetchKeepsStore DEF StoreOK, FileOK, StorageType
  <2>3. QED
    BY <1>2, <2>1, <2>2, ViewIsDisk
<1>3. QED
  BY <1>1, <1>2

LEMMA ViewAfterWrite ==
    ASSUME NEW s, StoreOK(s), NEW p \in PageIds, p # META_PAGE_ID, NEW c \in Content
    PROVE  /\ WritePage(s, p, c).next = s.next
           /\ \A q \in PageIds :
                  ViewOf(WritePage(s, p, c), q) = IF q = p THEN c ELSE ViewOf(s, q)
<1>1. /\ WritePage(s, p, c).disk = [s.disk EXCEPT ![p] = c]
      /\ WritePage(s, p, c).loaded = s.loaded
      /\ p \in s.loaded => WritePage(s, p, c).cache = [s.cache EXCEPT ![p] = c]
      /\ p \notin s.loaded => WritePage(s, p, c).cache = s.cache
  BY WritePageEffect DEF StoreOK, FileOK
<1>2. WritePage(s, p, c).next = s.next
  <2> DEFINE d == DiskWrite(s, p, c)
  <2>1. d \in StorageType /\ d.next = s.next
    BY DiskWriteEffect DEF StoreOK, FileOK
  <2>2. WritePage(s, p, c) = IF p \in s.loaded
                             THEN [d EXCEPT !.cache[p] = c, !.dirty = @ \ {p}]
                             ELSE d
    BY DEF WritePage
  <2> HIDE DEF d
  <2>3. QED
    BY <2>1, <2>2 DEF StorageType
<1>3. /\ StoreOK(WritePage(s, p, c))
      /\ s.cache \in [PageIds -> Content] /\ s.disk \in [PageIds -> Content]
  BY WriteKeepsStore DEF StoreOK, FileOK, StorageType
<1>4. QED
  BY <1>1, <1>2, <1>3, ViewIsDisk

LEMMA ViewAfterAllocate ==
    ASSUME NEW s, StoreOK(s)
    PROVE  /\ AllocatePage(s).next = s.next + 1
           /\ \A q \in PageIds : q # META_PAGE_ID /\ q # s.next =>
                  ViewOf(AllocatePage(s), q) = ViewOf(s, q)
<1>1. CASE s.next < MaxPages
  <2> DEFINE m == Meta(s.next + 1, s.cache[META_PAGE_ID].root)
  <2>1. /\ AllocatePage(s).next = s.next + 1
        /\ AllocatePage(s).disk = [s.disk EXCEPT ![META_PAGE_ID] = m]
        /\ AllocatePage(s).loaded = s.loaded \cup {s.next}
        /\ AllocatePage(s).cache = [[s.cache EXCEPT ![s.next] = Fresh]
                                        EXCEPT ![META_PAGE_ID] = m]
    BY <1>1, AllocatePageEffect DEF StoreOK, FileOK
  <2>2. /\ StoreOK(AllocatePage(s))
        /\ s.cache \in [PageIds -> Content] /\ s.disk \in [PageIds -> Content]
    BY AllocateKeepsStore DEF StoreOK, FileOK, StorageType
  <2> HIDE DEF m
  <2>3. QED
    BY <2>1, <2>2, ViewIsDisk
<1>2. CASE ~(s.next < MaxPages)
  <2>1. /\ AllocatePage(s).next = s.next + 1 /\ AllocatePage(s).disk = s.disk
        /\ AllocatePage(s).loaded = s.loaded /\ AllocatePage(s).cache = s.cache
    BY <1>2, AllocatePageFails DEF StoreOK, FileOK
  <2>2. StoreOK(AllocatePage(s))
    BY AllocateKeepsStore
  <2>3. QED
    BY <2>1, <2>2, ViewIsDisk
<1>3. QED
  BY <1>1, <1>2
-----------------------------------------------------------------------------
(* The invariant *)

Holders(p) == {c \in Clients : held[c] = p}

PoolType ==
    /\ frames \in [FrameIds -> FrameType]
    /\ page_table \in [Resident -> FrameIds] /\ Resident \subseteq PageIds
    /\ lru \in Seq(PageIds)

ClientType ==
    /\ held \in [Clients -> PageIds \cup {None}]
    /\ wrote \in [Clients -> BOOLEAN]

\* LruListsUnpinned and PinsCountHolders, in the words of the lemmas.
ListInv == Once(lru) /\ Elements(lru) = {p \in Resident : FrameOf(p).pin = 0}
PinInv ==
    /\ \A p \in Resident : FrameOf(p).pin = Cardinality(Holders(p))
    /\ \A c \in Clients : held[c] # None => held[c] \in Resident

\* The pool never writes its copy of the meta page: no client changes it.
MetaFrameInv == META_PAGE_ID \in Resident => ~FrameOf(META_PAGE_ID).dirty

\* What eviction may drop of the pages in R is in the storage s, and s has allocated them.
CoherentOn(s, R) ==
    \A q \in R : /\ q \in 1 .. s.next - 1
                 /\ ~FrameOf(q).dirty /\ Settled(q) => FrameOf(q).page = ViewOf(s, q)

PoolInv == PoolType /\ PageTableMatchesFrames /\ ListInv /\ MetaFrameInv

\* The pool is destroyed when nobody holds a page.
NobodyInv ==
    pc \in {"closePool", "closeStore", "down", "crashed"} => \A c \in Clients : held[c] = None

StoreInv == IF pc \in {"down", "crashed"} THEN FileOK(store) ELSE StoreOK(store)

ControlType ==
    pc \in {"down", "crashed", "run", "flushAll", "closePool", "closeStore"} /\ i \in Nat

Inv == PoolInv /\ ClientType /\ PinInv /\ NobodyInv /\ StoreInv /\ ControlType

-----------------------------------------------------------------------------
(* What a step does to the pool *)

\* The frame of a resident page changes and still holds that page: no other page is
\* affected, because no other page has this frame.
LEMMA FrameChanges ==
    ASSUME PoolType, PageTableMatchesFrames, NEW p \in Resident,
           NEW r \in FrameType, r.occupied, r.page_id = p,
           frames' = [frames EXCEPT ![page_table[p]] = r], page_table' = page_table
    PROVE  /\ frames' \in [FrameIds -> FrameType]
           /\ PageTableMatchesFrames'
           /\ Resident' = Resident
           /\ FrameOf(p)' = r
           /\ \A q \in Resident : q # p => FrameOf(q)' = FrameOf(q)
<1>1. page_table[p] \in FrameIds /\ \A q \in Resident : page_table[q] \in FrameIds
  BY DEF PoolType
<1>2. \A q \in Resident : q # p => page_table[q] # page_table[p]
  BY DEF PageTableMatchesFrames, FrameOf
<1>3. /\ frames' \in [FrameIds -> FrameType] /\ frames'[page_table[p]] = r
      /\ \A f \in FrameIds : f # page_table[p] => frames'[f] = frames[f]
  BY <1>1 DEF PoolType
<1>4. Resident' = Resident
  BY DEF Resident
<1>5. FrameOf(p)' = r /\ \A q \in Resident : q # p => FrameOf(q)' = FrameOf(q)
  BY <1>1, <1>2, <1>3 DEF FrameOf
<1>6. \A q \in Resident : FrameOf(q)'.occupied /\ FrameOf(q)'.page_id = q
  BY <1>5 DEF PageTableMatchesFrames
<1>7. ASSUME NEW f \in FrameIds, frames'[f].occupied
      PROVE  frames'[f].page_id \in Resident /\ page_table[frames'[f].page_id] = f
  <2>1. CASE f = page_table[p]
    BY <1>3, <2>1
  <2>2. CASE f # page_table[p]
    BY <1>3, <1>7, <2>2 DEF PageTableMatchesFrames
  <2>3. QED
    BY <2>1, <2>2
<1>8. PageTableMatchesFrames'
  BY <1>4, <1>6, <1>7 DEF PageTableMatchesFrames
<1>9. QED
  BY <1>3, <1>4, <1>5, <1>8

\* A client takes a page, or lets go of it: the holders of that page are one more or one
\* less, and those of the other pages the same.
LEMMA HoldersFinite == \A p : IsFiniteSet(Holders(p)) /\ Cardinality(Holders(p)) \in Nat
<1> TAKE p
<1>1. Holders(p) \subseteq Clients
  BY DEF Holders
<1>2. QED
  BY <1>1, ClientsAssumption, FS_Subset, FS_CardinalityType

LEMMA HolderAdded ==
    ASSUME ClientType, NEW c \in Clients, held[c] = None, NEW p \in PageIds,
           held' = [held EXCEPT ![c] = p]
    PROVE  /\ Cardinality(Holders(p)') = Cardinality(Holders(p)) + 1
           /\ \A q \in PageIds : q # p => Holders(q)' = Holders(q)
<1>1. p # None /\ \A q \in PageIds : q # None
  BY NoneAssumption
<1>2. /\ held'[c] = p /\ \A d \in Clients : d # c => held'[d] = held[d]
  BY DEF ClientType
<1>3. Holders(p)' = Holders(p) \cup {c} /\ c \notin Holders(p)
  BY <1>1, <1>2 DEF Holders
<1>4. \A q \in PageIds : q # p => Holders(q)' = Holders(q)
  BY <1>1, <1>2 DEF Holders
<1>5. Cardinality(Holders(p) \cup {c}) = Cardinality(Holders(p)) + 1
  BY <1>3, HoldersFinite, FS_AddElement
<1>6. QED
  BY <1>3, <1>4, <1>5

LEMMA HolderRemoved ==
    ASSUME ClientType, NEW p \in PageIds, NEW c \in Clients, held[c] = p,
           held' = [held EXCEPT ![c] = None]
    PROVE  /\ Cardinality(Holders(p)') = Cardinality(Holders(p)) - 1
           /\ Cardinality(Holders(p)) > 0
           /\ \A q \in PageIds : q # p => Holders(q)' = Holders(q)
<1>1. p # None /\ \A q \in PageIds : q # None
  BY NoneAssumption
<1>2. /\ held'[c] = None /\ \A d \in Clients : d # c => held'[d] = held[d]
  BY DEF ClientType
<1>3. Holders(p)' = Holders(p) \ {c} /\ c \in Holders(p)
  BY <1>1, <1>2 DEF Holders
<1>4. \A q \in PageIds : q # p => Holders(q)' = Holders(q)
  BY <1>1, <1>2 DEF Holders
<1>5. Cardinality(Holders(p) \ {c}) = Cardinality(Holders(p)) - 1
  BY <1>3, HoldersFinite, FS_RemoveElement
<1>6. Cardinality(Holders(p)) > 0
  BY <1>3, HoldersFinite, FS_EmptySet
<1>7. QED
  BY <1>3, <1>4, <1>5, <1>6

\* fetchPage loads a page clean and pinned once.
LEMMA LoadedFrameType ==
    ASSUME NEW s, StoreOK(s), NEW p \in PageIds
    PROVE  /\ LoadedFrame(s, p) \in FrameType
           /\ LoadedFrame(s, p).occupied /\ LoadedFrame(s, p).page_id = p
           /\ LoadedFrame(s, p).pin = 1 /\ ~LoadedFrame(s, p).dirty
<1> DEFINE v == ViewOf(s, p)
           d == p \in FetchPage(s, p).dirty
<1>1. v \in Content
  <2>1. s \in StorageType /\ s.cache[p] \in Content
    BY DEF StoreOK, FileOK, StorageType
  <2>2. QED
    BY <2>1, DiskReadContent DEF ViewOf
<1>2. d \in BOOLEAN /\ 0 \in Nat /\ 1 \in Nat
  OBVIOUS
<1>3. LoadedFrame(s, p) = [occupied |-> TRUE, page_id |-> p, pin |-> 1, dirty |-> FALSE,
                           page |-> v, page_dirty |-> d]
  BY DEF LoadedFrame
<1> HIDE DEF v, d
<1>4. QED
  BY <1>1, <1>2, <1>3 DEF FrameType

\* A page is loaded into a frame that no page in kept has; the others leave the table.
LEMMA FrameLoaded ==
    ASSUME PoolType, PageTableMatchesFrames, NEW p \in PageIds, p \notin Resident,
           NEW kept \in SUBSET Resident, NEW f \in FrameIds,
           \A q \in kept : page_table[q] # f,
           \A g \in FrameIds : g # f /\ frames[g].occupied => frames[g].page_id \in kept,
           NEW s, StoreOK(s), LoadPageIntoFrame(s, f, p, kept)
    PROVE  /\ frames' \in [FrameIds -> FrameType]
           /\ page_table' \in [Resident' -> FrameIds] /\ Resident' \subseteq PageIds
           /\ PageTableMatchesFrames'
           /\ Resident' = kept \cup {p}
           /\ FrameOf(p)' = LoadedFrame(s, p)
           /\ \A q \in kept : FrameOf(q)' = FrameOf(q)
<1> DEFINE r == LoadedFrame(s, p)
<1>0. /\ r \in FrameType /\ r.occupied /\ r.page_id = p
      /\ frames' = [frames EXCEPT ![f] = r]
      /\ page_table' = [q \in kept \cup {p} |-> IF q = p THEN f ELSE page_table[q]]
  BY LoadedFrameType DEF LoadPageIntoFrame
<1> HIDE DEF r
<1>1. /\ Resident' = kept \cup {p} /\ page_table'[p] = f
      /\ \A q \in kept : q # p /\ page_table'[q] = page_table[q] /\ page_table[q] \in FrameIds
  BY <1>0 DEF Resident, PoolType
<1>2. page_table' \in [Resident' -> FrameIds] /\ Resident' \subseteq PageIds
  BY <1>0, <1>1 DEF PoolType
<1>3. /\ frames' \in [FrameIds -> FrameType] /\ frames'[f] = r
      /\ \A g \in FrameIds : g # f => frames'[g] = frames[g]
  BY <1>0 DEF PoolType
<1>4. FrameOf(p)' = r /\ \A q \in kept : FrameOf(q)' = FrameOf(q)
  BY <1>1, <1>3 DEF FrameOf
<1>5. \A q \in Resident' : FrameOf(q)'.occupied /\ FrameOf(q)'.page_id = q
  BY <1>0, <1>1, <1>4 DEF PageTableMatchesFrames
<1>6. ASSUME NEW g \in FrameIds, frames'[g].occupied
      PROVE  frames'[g].page_id \in Resident' /\ page_table'[frames'[g].page_id] = g
  <2>1. CASE g = f
    BY <1>0, <1>1, <1>3, <2>1
  <2>2. CASE g # f
    <3>1. frames[g].page_id \in kept /\ page_table[frames[g].page_id] = g
      BY <1>3, <1>6, <2>2 DEF PageTableMatchesFrames
    <3>2. QED
      BY <1>1, <1>3, <2>2, <3>1
  <2>3. QED
    BY <2>1, <2>2
<1>7. PageTableMatchesFrames'
  BY <1>5, <1>6 DEF PageTableMatchesFrames
<1>8. QED
  BY <1>1, <1>2, <1>3, <1>4, <1>7 DEF r

\* The list holds unpinned pages only, so lru_evict takes its last one, whatever it is.
LEMMA VictimIsLast ==
    ASSUME PoolInv, Evictable # {}
    PROVE  /\ VictimIndex \in DOMAIN lru /\ Victim = lru[VictimIndex]
           /\ Victim \in Resident /\ FrameOf(Victim).pin = 0
<1>1. Evictable = DOMAIN lru
  BY DEF PoolInv, ListInv, Elements, Evictable
<1>2. DOMAIN lru = 1 .. Len(lru) /\ Len(lru) \in Nat
  BY DEF PoolInv, PoolType
<1>3. Len(lru) \in Evictable /\ \A j \in Evictable : j <= Len(lru)
  BY <1>1, <1>2
<1>4. VictimIndex \in Evictable
  BY <1>3 DEF VictimIndex
<1>5. QED
  BY <1>1, <1>4 DEF Victim, PoolInv, ListInv, Elements

\* A dirty frame, so not the meta page's, is written back.
LEMMA FlushKeepsStore ==
    ASSUME PoolInv, NEW p \in Resident, FrameOf(p).dirty, NEW s, StoreOK(s)
    PROVE  StoreOK(WritePage(s, p, FrameOf(p).page))
<1>1. p \in PageIds /\ FrameOf(p).page \in Content
  BY DEF PoolInv, PoolType, FrameOf, FrameType
<1>2. p # META_PAGE_ID
  BY DEF PoolInv, MetaFrameInv
<1>3. QED
  BY <1>1, <1>2, WriteKeepsStore

LEMMA EvictKeepsStore ==
    ASSUME PoolInv, Evictable # {}, NEW s, StoreOK(s)
    PROVE  StoreOK(StoreAfterEvict(s))
BY VictimIsLast, FlushKeepsStore DEF StoreAfterEvict

LEMMA CoherentAfterEvict ==
    ASSUME PoolInv, Evictable # {}, NEW s, StoreOK(s)
    PROVE  /\ StoreAfterEvict(s).next = s.next
           /\ CoherentOn(s, Resident) => CoherentOn(StoreAfterEvict(s), Resident \ {Victim})
<1>1. PICK v \in Resident : v = Victim
  BY VictimIsLast
<1>2. CASE ~FrameOf(v).dirty
  BY <1>1, <1>2 DEF StoreAfterEvict, CoherentOn
<1>3. CASE FrameOf(v).dirty
  <2>1. v \in PageIds /\ v # META_PAGE_ID /\ FrameOf(v).page \in Content
    BY <1>3 DEF PoolInv, PoolType, MetaFrameInv, FrameOf, FrameType
  <2>2. PICK c \in Content : c = FrameOf(v).page
    BY <2>1
  <2>3. StoreAfterEvict(s) = WritePage(s, v, c)
    BY <1>1, <1>3, <2>2 DEF StoreAfterEvict
  <2>4. /\ StoreAfterEvict(s).next = s.next
        /\ \A q \in PageIds : q # v => ViewOf(StoreAfterEvict(s), q) = ViewOf(s, q)
    BY <2>1, <2>3, ViewAfterWrite
  <2>5. QED
    BY <1>1, <2>4 DEF CoherentOn, PoolInv, PoolType
<1>4. QED
  BY <1>2, <1>3
-----------------------------------------------------------------------------
(* A client takes a page *)

\* A client that takes a page settles none.
LEMMA SettledAfterTake ==
    ASSUME ClientType, NEW c \in Clients, held[c] = None, NEW p \in PageIds,
           held' = [held EXCEPT ![c] = p], wrote' = wrote
    PROVE  \A q \in PageIds : Settled(q)' => Settled(q)
<1>1. \A d \in Clients : d # c => held'[d] = held[d]
  BY DEF ClientType
<1>2. \A q \in PageIds : q # None
  BY NoneAssumption
<1>3. QED
  BY <1>1, <1>2 DEF Settled

\* The three ways fetchPage has to answer; each is followed by the client's holding the
\* page it asked for.
LEMMA HitKeepsPool ==
    ASSUME PoolInv, ClientType, PinInv, NEW c \in Clients, held[c] = None,
           NEW p \in PageIds, NEW s, StoreOK(s), FetchHit(s, p),
           held' = [held EXCEPT ![c] = p]
    PROVE  /\ PoolInv' /\ PinInv' /\ StoreOK(store')
           /\ wrote' = wrote /\ CoherentOn(s, Resident) => CoherentOn(store, Resident)'
<1> DEFINE r == [FrameOf(p) EXCEPT !.pin = FrameOf(p).pin + 1]
<1>1. p \in Resident /\ FrameOf(p) \in FrameType
  BY DEF FetchHit, PoolInv, PoolType, FrameOf
<1>2. /\ r \in FrameType /\ r.occupied /\ r.page_id = p
      /\ r.pin = FrameOf(p).pin + 1 /\ r.pin > 0 /\ r.dirty = FrameOf(p).dirty
      /\ r.page = FrameOf(p).page
  BY <1>1 DEF FrameType, PoolInv, PageTableMatchesFrames
<1>3. frames' = [frames EXCEPT ![page_table[p]] = r] /\ page_table' = page_table
  BY DEF FetchHit, FrameOf
<1> HIDE DEF r
<1>4. /\ frames' \in [FrameIds -> FrameType] /\ PageTableMatchesFrames'
      /\ Resident' = Resident /\ FrameOf(p)' = r
      /\ \A q \in Resident : q # p => FrameOf(q)' = FrameOf(q)
  BY <1>1, <1>2, <1>3, FrameChanges DEF PoolInv
<1>5. lru' \in Seq(PageIds) /\ Once(lru') /\ Elements(lru') = Elements(lru) \ {p}
  <2>1. lru \in Seq(PageIds) /\ Once(lru) /\ lru' = LruRemove(lru, p)
    BY DEF FetchHit, PoolInv, PoolType, ListInv
  <2>2. QED
    BY <2>1, LruRemoveEffect
<1>6. Elements(lru') = {q \in Resident' : FrameOf(q)'.pin = 0}
  BY <1>2, <1>4, <1>5 DEF PoolInv, ListInv
<1>7. PoolType'
  BY <1>3, <1>4, <1>5 DEF PoolInv, PoolType
<1>8. MetaFrameInv'
  BY <1>2, <1>4 DEF PoolInv, MetaFrameInv
<1>9. PoolInv'
  BY <1>4, <1>5, <1>6, <1>7, <1>8 DEF PoolInv, ListInv
<1>10. /\ Cardinality(Holders(p)') = Cardinality(Holders(p)) + 1
       /\ \A q \in PageIds : q # p => Holders(q)' = Holders(q)
  BY HolderAdded
<1>11. PinInv'
  <2>1. \A q \in Resident' : FrameOf(q)'.pin = Cardinality(Holders(q)')
    BY <1>1, <1>2, <1>4, <1>10 DEF PinInv, PoolInv, PoolType
  <2>2. \A d \in Clients : held'[d] # None => held'[d] \in Resident'
    BY <1>1, <1>4 DEF PinInv, ClientType
  <2>3. QED
    BY <2>1, <2>2 DEF PinInv
<1>12. ASSUME wrote' = wrote, CoherentOn(s, Resident) PROVE CoherentOn(store, Resident)'
  <2>1. \A q \in Resident : /\ FrameOf(q)'.dirty = FrameOf(q).dirty
                            /\ FrameOf(q)'.page = FrameOf(q).page
    BY <1>2, <1>4
  <2>2. \A q \in Resident : Settled(q)' => Settled(q)
    BY <1>12, SettledAfterTake DEF PoolInv, PoolType
  <2>3. store' = s
    BY DEF FetchHit
  <2>4. QED
    BY <1>4, <1>12, <2>1, <2>2, <2>3 DEF CoherentOn
<1>13. QED
  BY <1>9, <1>11, <1>12 DEF FetchHit

\* A page loaded into a frame, in place of the pages not in kept, which nobody holds.
LEMMA LoadKeepsPool ==
    ASSUME PoolInv, ClientType, PinInv, NEW c \in Clients, held[c] = None,
           NEW p \in PageIds, NEW s, StoreOK(s), p \notin Resident,
           NEW f \in FrameIds, NEW kept \in SUBSET Resident,
           \A q \in kept : page_table[q] # f,
           \A g \in FrameIds : g # f /\ frames[g].occupied => frames[g].page_id \in kept,
           \A q \in Resident \ kept : FrameOf(q).pin = 0,
           LoadPageIntoFrame(s, f, p, kept),
           lru' \in Seq(PageIds), Once(lru'), Elements(lru') = Elements(lru) \cap kept,
           held' = [held EXCEPT ![c] = p]
    PROVE  /\ PoolInv' /\ PinInv' /\ StoreOK(store')
           /\ wrote' = wrote /\ CoherentOn(s, kept) /\ p \in 1 .. s.next - 1
                  => CoherentOn(store, Resident)'
<1>1. LoadedFrame(s, p).pin = 1 /\ ~LoadedFrame(s, p).dirty
  BY LoadedFrameType
<1>2. store' = FetchPage(s, p)
  BY DEF LoadPageIntoFrame
<1>3. /\ frames' \in [FrameIds -> FrameType]
      /\ page_table' \in [Resident' -> FrameIds] /\ Resident' \subseteq PageIds
      /\ PageTableMatchesFrames'
      /\ Resident' = kept \cup {p} /\ FrameOf(p)' = LoadedFrame(s, p)
      /\ \A q \in kept : FrameOf(q)' = FrameOf(q)
  BY FrameLoaded DEF PoolInv
<1>4. Elements(lru') = {q \in Resident' : FrameOf(q)'.pin = 0}
  BY <1>1, <1>3 DEF PoolInv, ListInv
<1>5. PoolType'
  BY <1>3 DEF PoolType
<1>6. MetaFrameInv'
  BY <1>1, <1>3 DEF PoolInv, MetaFrameInv
<1>7. PoolInv'
  BY <1>3, <1>4, <1>5, <1>6 DEF PoolInv, ListInv
<1>8. /\ Cardinality(Holders(p)') = Cardinality(Holders(p)) + 1
      /\ \A q \in PageIds : q # p => Holders(q)' = Holders(q)
  BY HolderAdded
<1>9. p # None
  BY NoneAssumption
<1>10. Cardinality(Holders(p)) = 0
  <2>1. Holders(p) = {}
    BY <1>9 DEF Holders, PinInv
  <2>2. QED
    BY <2>1, FS_EmptySet
<1>11. \A d \in Clients : held[d] # None => held[d] \in kept
  <2> SUFFICES ASSUME NEW d \in Clients, held[d] # None, held[d] \notin kept
               PROVE  FALSE
    OBVIOUS
  <2>1. held[d] \in Resident /\ FrameOf(held[d]).pin = 0
    BY DEF PinInv
  <2>2. Cardinality(Holders(held[d])) = 0
    BY <2>1 DEF PinInv
  <2>3. Holders(held[d]) = {}
    BY <2>2, HoldersFinite, FS_EmptySet
  <2>4. QED
    BY <2>3 DEF Holders
<1>12. PinInv'
  <2>1. \A q \in Resident' : FrameOf(q)'.pin = Cardinality(Holders(q)')
    BY <1>1, <1>3, <1>8, <1>10 DEF PinInv, PoolInv, PoolType
  <2>2. \A d \in Clients : held'[d] # None => held'[d] \in Resident'
    BY <1>3, <1>11 DEF ClientType
  <2>3. QED
    BY <2>1, <2>2 DEF PinInv
<1>13. StoreOK(store')
  BY <1>2, FetchKeepsStore
<1>14. ASSUME wrote' = wrote, CoherentOn(s, kept), p \in 1 .. s.next - 1
       PROVE  CoherentOn(store, Resident)'
  <2>1. /\ store'.next = s.next
        /\ \A q \in PageIds : ViewOf(store', q) = ViewOf(s, q)
    BY <1>2, ViewAfterFetch
  <2>2. \A q \in kept : Settled(q)' => Settled(q)
    BY <1>14, SettledAfterTake DEF PoolInv, PoolType
  <2>3. FrameOf(p)'.page = ViewOf(s, p)
    BY <1>3 DEF LoadedFrame
  <2>4. ASSUME NEW q \in kept
        PROVE  /\ q \in 1 .. store'.next - 1
               /\ ~FrameOf(q)'.dirty /\ Settled(q)' => FrameOf(q)'.page = ViewOf(store', q)
    BY <1>3, <1>14, <2>1, <2>2 DEF CoherentOn, PoolInv, PoolType
  <2>5. QED
    BY <1>3, <1>14, <2>1, <2>3, <2>4 DEF CoherentOn
<1>15. QED
  BY <1>7, <1>12, <1>13, <1>14

\* Whichever way the frame is found, the accounts agree again when the client has its page.
LEMMA TakePageKeeps ==
    ASSUME PoolInv, ClientType, PinInv, NEW c \in Clients, held[c] = None,
           NEW p \in PageIds, NEW s, StoreOK(s), TakePage(s, c, p)
    PROVE  /\ PoolInv' /\ PinInv' /\ StoreOK(store') /\ ClientType'
           /\ CoherentOn(s, Resident) /\ p \in 1 .. s.next - 1 => CoherentOn(store, Resident)'
<1>1. held' = [held EXCEPT ![c] = p] /\ wrote' = wrote
  BY DEF TakePage
<1>2. ClientType'
  BY <1>1 DEF ClientType
<1>3. CASE FetchHit(s, p)
  BY <1>1, <1>2, <1>3, HitKeepsPool
<1>4. CASE FetchIntoFree(s, p)
  <2>1. PICK f \in FreeFrames : LoadPageIntoFrame(s, f, p, Resident)
    BY <1>4 DEF FetchIntoFree
  <2>2. p \notin Resident /\ lru' = lru /\ f \in FrameIds /\ ~frames[f].occupied
    BY <1>4, <2>1 DEF FetchIntoFree, FreeFrames
  <2>3. \A q \in Resident : page_table[q] # f
    BY <2>2 DEF PoolInv, PageTableMatchesFrames, FrameOf
  <2>4. \A g \in FrameIds : g # f /\ frames[g].occupied => frames[g].page_id \in Resident
    BY DEF PoolInv, PageTableMatchesFrames
  <2>5. /\ lru' \in Seq(PageIds) /\ Once(lru')
        /\ Elements(lru') = Elements(lru) \cap Resident
    BY <2>2 DEF PoolInv, PoolType, ListInv
  <2>6. QED
    BY <1>1, <1>2, <2>1, <2>2, <2>3, <2>4, <2>5, LoadKeepsPool
<1>5. CASE FetchIntoVictim(s, p)
  <2> DEFINE kept == Resident \ {Victim}
             f == page_table[Victim]
             t == StoreAfterEvict(s)
  <2>1. /\ p \notin Resident /\ Evictable # {} /\ lru' = DropAt(lru, VictimIndex)
        /\ LoadPageIntoFrame(t, f, p, kept)
    BY <1>5 DEF FetchIntoVictim
  <2>2. /\ VictimIndex \in DOMAIN lru /\ Victim = lru[VictimIndex]
        /\ Victim \in Resident /\ FrameOf(Victim).pin = 0
    BY <2>1, VictimIsLast
  <2>3. StoreOK(t)
    BY <2>1, EvictKeepsStore
  <2>4. f \in FrameIds /\ kept \in SUBSET Resident
    BY <2>2 DEF PoolInv, PoolType
  <2>5. \A q \in kept : page_table[q] # f
    BY <2>2 DEF PoolInv, PageTableMatchesFrames, FrameOf
  <2>6. \A g \in FrameIds : g # f /\ frames[g].occupied => frames[g].page_id \in kept
    BY <2>2 DEF PoolInv, PageTableMatchesFrames
  <2>7. \A q \in Resident \ kept : FrameOf(q).pin = 0
    BY <2>2
  <2>8. /\ lru' \in Seq(PageIds) /\ Once(lru')
        /\ Elements(lru') = Elements(lru) \ {Victim}
    <3>1. lru \in Seq(PageIds) /\ Once(lru)
      BY DEF PoolInv, PoolType, ListInv
    <3>2. QED
      BY <2>1, <2>2, <3>1, DropAtEffect
  <2>9. Elements(lru') = Elements(lru) \cap kept
    BY <2>8 DEF PoolInv, ListInv
  <2>10. t.next = s.next /\ (CoherentOn(s, Resident) => CoherentOn(t, kept))
    BY <2>1, CoherentAfterEvict
  <2> HIDE DEF kept, f, t
  <2>11. /\ PoolInv' /\ PinInv' /\ StoreOK(store')
         /\ CoherentOn(t, kept) /\ p \in 1 .. t.next - 1 => CoherentOn(store, Resident)'
    BY <1>1, <2>1, <2>3, <2>4, <2>5, <2>6, <2>7, <2>8, <2>9, LoadKeepsPool
  <2>12. QED
    BY <1>2, <2>10, <2>11
<1>6. QED
  BY <1>3, <1>4, <1>5 DEF TakePage

\* A fetch that throws after the eviction leaves the pool without the victim.
LEMMA FetchOutOfRangeKeeps ==
    ASSUME PoolInv, ClientType, PinInv, StoreOK(store), FetchOutOfRange
    PROVE  /\ PoolInv' /\ PinInv' /\ StoreOK(store')
           /\ CoherentOn(store, Resident) => CoherentOn(store, Resident)'
<1> DEFINE r == [FrameOf(Victim) EXCEPT !.occupied = FALSE, !.pin = 0, !.dirty = FALSE]
           f == page_table[Victim]
           kept == Resident \ {Victim}
<1>1. /\ VictimIndex \in DOMAIN lru /\ Victim = lru[VictimIndex]
      /\ Victim \in Resident /\ FrameOf(Victim).pin = 0
  BY VictimIsLast DEF FetchOutOfRange
<1>2. f \in FrameIds /\ FrameOf(Victim) \in FrameType
  BY <1>1 DEF PoolInv, PoolType, FrameOf
<1>3. r \in FrameType /\ ~r.occupied
  BY <1>2 DEF FrameType
<1>4. frames' = [frames EXCEPT ![f] = r] /\ page_table' = [q \in kept |-> page_table[q]]
  BY DEF FetchOutOfRange, FrameOf
<1>5. \A q \in kept : q \in Resident /\ page_table[q] # f /\ page_table[q] \in FrameIds
  BY <1>1 DEF PoolInv, PoolType, PageTableMatchesFrames, FrameOf
<1> HIDE DEF r, f
<1>6. /\ frames' \in [FrameIds -> FrameType] /\ frames'[f] = r
      /\ \A g \in FrameIds : g # f => frames'[g] = frames[g]
  BY <1>2, <1>3, <1>4 DEF PoolInv, PoolType
<1>7. Resident' = kept /\ \A q \in kept : page_table'[q] = page_table[q]
  BY <1>4 DEF Resident
<1>8. \A q \in kept : FrameOf(q)' = FrameOf(q)
  BY <1>5, <1>6, <1>7 DEF FrameOf
<1>9. page_table' \in [Resident' -> FrameIds] /\ Resident' \subseteq PageIds
  BY <1>4, <1>5, <1>7 DEF PoolInv, PoolType
<1>10. PageTableMatchesFrames'
  <2>1. \A q \in Resident' : FrameOf(q)'.occupied /\ FrameOf(q)'.page_id = q
    BY <1>5, <1>7, <1>8 DEF PoolInv, PageTableMatchesFrames
  <2>2. ASSUME NEW g \in FrameIds, frames'[g].occupied
        PROVE  frames'[g].page_id \in Resident' /\ page_table'[frames'[g].page_id] = g
    <3>1. g # f /\ frames'[g] = frames[g]
      BY <1>3, <1>6, <2>2
    <3>2. frames[g].page_id \in Resident /\ page_table[frames[g].page_id] = g
      BY <2>2, <3>1 DEF PoolInv, PageTableMatchesFrames
    <3>3. frames[g].page_id # Victim
      BY <3>1, <3>2 DEF f
    <3>4. QED
      BY <1>7, <3>1, <3>2, <3>3
  <2>3. QED
    BY <2>1, <2>2 DEF PageTableMatchesFrames
<1>11. /\ lru' \in Seq(PageIds) /\ Once(lru')
       /\ Elements(lru') = Elements(lru) \ {Victim}
  <2>1. lru \in Seq(PageIds) /\ Once(lru) /\ lru' = DropAt(lru, VictimIndex)
    BY DEF FetchOutOfRange, PoolInv, PoolType, ListInv
  <2>2. QED
    BY <1>1, <2>1, DropAtEffect
<1>12. Elements(lru') = {q \in Resident' : FrameOf(q)'.pin = 0}
  BY <1>7, <1>8, <1>11 DEF PoolInv, ListInv
<1>13. MetaFrameInv'
  BY <1>7, <1>8 DEF PoolInv, MetaFrameInv
<1>14. PoolInv'
  BY <1>6, <1>9, <1>10, <1>11, <1>12, <1>13 DEF PoolInv, PoolType, ListInv
<1>15. held' = held /\ \A q : Holders(q)' = Holders(q)
  BY DEF FetchOutOfRange, clients, Holders
<1>16. Holders(Victim) = {}
  BY <1>1, HoldersFinite, FS_EmptySet DEF PinInv
<1>17. PinInv'
  BY <1>7, <1>8, <1>15, <1>16 DEF PinInv, Holders
<1>18. StoreOK(store')
  BY EvictKeepsStore DEF FetchOutOfRange
<1>19. ASSUME CoherentOn(store, Resident) PROVE CoherentOn(store, Resident)'
  <2>1. CoherentOn(store', kept)
    BY <1>19, CoherentAfterEvict DEF FetchOutOfRange
  <2>2. wrote' = wrote
    BY DEF FetchOutOfRange, clients
  <2>3. \A q : Settled(q)' = Settled(q)
    BY <1>15, <2>2 DEF Settled
  <2>4. QED
    BY <1>7, <1>8, <2>1, <2>3 DEF CoherentOn
<1>20. QED
  BY <1>14, <1>17, <1>18, <1>19
-----------------------------------------------------------------------------
(* A client modifies or lets go, a frame is flushed, the pool is emptied *)

LEMMA ModifyKeeps ==
    ASSUME PoolInv, ClientType, PinInv, NEW c \in Clients, NEW d \in Data, Modify(c, d)
    PROVE  /\ PoolInv' /\ PinInv' /\ ClientType'
           /\ CoherentOn(store, Resident) => CoherentOn(store, Resident)'
<1>0. PICK p \in Resident : p = held[c]
  BY DEF Modify, PinInv
<1> DEFINE r == [FrameOf(p) EXCEPT !.page = d, !.page_dirty = TRUE]
<1>1. p \in Resident /\ FrameOf(p) \in FrameType
  BY DEF PoolInv, PoolType, FrameOf
<1>2. d \in Content
  BY DEF Content
<1>3. /\ r \in FrameType /\ r.occupied /\ r.page_id = p
      /\ r.pin = FrameOf(p).pin /\ r.dirty = FrameOf(p).dirty
  BY <1>1, <1>2 DEF FrameType, PoolInv, PageTableMatchesFrames
<1>4. /\ frames' = [frames EXCEPT ![page_table[p]] = r] /\ page_table' = page_table
      /\ lru' = lru /\ held' = held /\ wrote' = [wrote EXCEPT ![c] = TRUE]
  BY <1>0 DEF Modify, FrameOf
<1> HIDE DEF r
<1>5. /\ frames' \in [FrameIds -> FrameType] /\ PageTableMatchesFrames'
      /\ Resident' = Resident /\ FrameOf(p)' = r
      /\ \A q \in Resident : q # p => FrameOf(q)' = FrameOf(q)
  BY <1>1, <1>3, <1>4, FrameChanges DEF PoolInv
<1>6. \A q \in Resident : /\ FrameOf(q)'.pin = FrameOf(q).pin
                          /\ FrameOf(q)'.dirty = FrameOf(q).dirty
  BY <1>3, <1>5
<1>7. PoolInv'
  BY <1>4, <1>5, <1>6 DEF PoolInv, PoolType, ListInv, MetaFrameInv
<1>8. \A q : Holders(q)' = Holders(q)
  BY <1>4 DEF Holders
<1>9. PinInv'
  BY <1>4, <1>5, <1>6, <1>8 DEF PinInv
<1>10. ClientType'
  BY <1>4 DEF ClientType
<1>11. ASSUME CoherentOn(store, Resident) PROVE CoherentOn(store, Resident)'
  <2>1. ~Settled(p)' /\ \A q \in Resident : Settled(q)' => Settled(q)
    BY <1>0, <1>4 DEF Settled, ClientType
  <2>2. store' = store
    BY DEF Modify
  <2>3. QED
    BY <1>5, <1>11, <2>1, <2>2 DEF CoherentOn
<1>12. QED
  BY <1>7, <1>9, <1>10, <1>11

LEMMA UnpinKeeps ==
    ASSUME PoolInv, ClientType, PinInv, NEW c \in Clients, NEW dirty \in BOOLEAN,
           Unpin(c, dirty)
    PROVE  /\ PoolInv' /\ PinInv' /\ ClientType'
           /\ CoherentOn(store, Resident) => CoherentOn(store, Resident)'
<1>0. PICK p \in Resident : p = held[c]
  BY DEF Unpin, PinInv
<1> DEFINE r == [FrameOf(p) EXCEPT !.pin = FrameOf(p).pin - 1,
                                   !.dirty = FrameOf(p).dirty \/ dirty]
<1>1. p \in Resident /\ p \in PageIds /\ FrameOf(p) \in FrameType
  BY DEF PoolInv, PoolType, FrameOf
<1>2. /\ held' = [held EXCEPT ![c] = None] /\ wrote' = [wrote EXCEPT ![c] = FALSE]
      /\ page_table' = page_table
  BY DEF Unpin
<1>3. /\ Cardinality(Holders(p)') = Cardinality(Holders(p)) - 1
      /\ Cardinality(Holders(p)) > 0
      /\ \A q \in PageIds : q # p => Holders(q)' = Holders(q)
  BY <1>0, <1>1, <1>2, HolderRemoved
<1>4. FrameOf(p).pin = Cardinality(Holders(p)) /\ FrameOf(p).pin \in Nat
  BY <1>1 DEF PinInv, FrameType
<1>5. FrameOf(p).pin - 1 \in Nat /\ FrameOf(p).pin # 0
  BY <1>3, <1>4
<1>6. /\ r \in FrameType /\ r.occupied /\ r.page_id = p
      /\ r.pin = FrameOf(p).pin - 1 /\ r.dirty = (FrameOf(p).dirty \/ dirty)
      /\ r.page = FrameOf(p).page
  BY <1>1, <1>5 DEF FrameType, PoolInv, PageTableMatchesFrames
<1>7. /\ frames' = [frames EXCEPT ![page_table[p]] = r]
      /\ lru' = IF FrameOf(p).pin - 1 = 0 THEN LruTouch(lru, p) ELSE lru
  BY <1>0, <1>1, <1>5 DEF Unpin, UnpinPage, FrameOf
<1>8. dirty => p # META_PAGE_ID
  BY <1>0 DEF Unpin, META_PAGE_ID
<1> HIDE DEF r
<1>9. /\ frames' \in [FrameIds -> FrameType] /\ PageTableMatchesFrames'
      /\ Resident' = Resident /\ FrameOf(p)' = r
      /\ \A q \in Resident : q # p => FrameOf(q)' = FrameOf(q)
  BY <1>1, <1>2, <1>6, <1>7, FrameChanges DEF PoolInv
<1>10. lru \in Seq(PageIds) /\ Once(lru)
  BY DEF PoolInv, PoolType, ListInv
<1>11. /\ lru' \in Seq(PageIds) /\ Once(lru')
       /\ Elements(lru') = {q \in Resident' : FrameOf(q)'.pin = 0}
  <2>1. CASE FrameOf(p).pin - 1 = 0
    <3>1. /\ lru' \in Seq(PageIds) /\ Once(lru')
          /\ Elements(lru') = Elements(lru) \cup {p}
      BY <1>1, <1>7, <1>10, <2>1, LruTouchEffect
    <3>2. QED
      BY <1>1, <1>6, <1>9, <2>1, <3>1 DEF PoolInv, ListInv
  <2>2. CASE FrameOf(p).pin - 1 # 0
    <3>1. lru' = lru
      BY <1>7, <2>2
    <3>2. QED
      BY <1>1, <1>5, <1>6, <1>9, <1>10, <2>2, <3>1 DEF PoolInv, ListInv
  <2>3. QED
    BY <2>1, <2>2
<1>12. MetaFrameInv'
  BY <1>6, <1>8, <1>9 DEF PoolInv, MetaFrameInv
<1>13. PoolInv'
  BY <1>2, <1>9, <1>11, <1>12 DEF PoolInv, PoolType, ListInv
<1>14. \A d \in Clients : held'[d] = IF d = c THEN None ELSE held[d]
  BY <1>2 DEF ClientType
<1>15. PinInv'
  <2>1. \A q \in Resident' : FrameOf(q)'.pin = Cardinality(Holders(q)')
    BY <1>1, <1>3, <1>4, <1>6, <1>9 DEF PinInv, PoolInv, PoolType
  <2>2. \A d \in Clients : held'[d] # None => held'[d] \in Resident'
    BY <1>9, <1>14 DEF PinInv
  <2>3. QED
    BY <2>1, <2>2 DEF PinInv
<1>16. ClientType'
  BY <1>2 DEF ClientType
<1>17. ASSUME CoherentOn(store, Resident) PROVE CoherentOn(store, Resident)'
  <2>1. \A d \in Clients : d # c => wrote'[d] = wrote[d] /\ held'[d] = held[d]
    BY <1>2 DEF ClientType
  <2>2. \A q \in Resident : q # p /\ Settled(q)' => Settled(q)
    BY <1>0, <2>1 DEF Settled
  <2>3. ~r.dirty /\ Settled(p)' => Settled(p)
    BY <1>0, <1>6, <2>1 DEF Settled, Unpin
  <2>4. store' = store
    BY DEF Unpin
  <2>5. QED
    BY <1>6, <1>9, <1>17, <2>2, <2>3, <2>4 DEF CoherentOn
<1>18. QED
  BY <1>13, <1>15, <1>16, <1>17

LEMMA FlushFrameKeeps ==
    ASSUME PoolInv, PinInv, StoreOK(store), NEW f \in FrameIds,
           FlushFrame(f), UNCHANGED <<page_table, lru, held>>
    PROVE  /\ PoolInv' /\ PinInv' /\ StoreOK(store') /\ store'.next = store.next
           /\ wrote' = wrote /\ CoherentOn(store, Resident) => CoherentOn(store, Resident)'
<1>1. \A q : Holders(q)' = Holders(q)
  BY DEF Holders
<1>2. CASE ~(frames[f].occupied /\ frames[f].dirty)
  <2>1. store' = store /\ frames' = frames
    BY <1>2 DEF FlushFrame
  <2>2. PoolInv'
    BY <2>1 DEF PoolInv, PoolType, PageTableMatchesFrames, ListInv, MetaFrameInv,
                Resident, FrameOf
  <2>3. PinInv'
    BY <1>1, <2>1 DEF PinInv, Resident, FrameOf
  <2>4. wrote' = wrote /\ CoherentOn(store, Resident) => CoherentOn(store, Resident)'
    BY <2>1 DEF CoherentOn, Settled, Resident, FrameOf
  <2>5. QED
    BY <2>1, <2>2, <2>3, <2>4
<1>3. CASE frames[f].occupied /\ frames[f].dirty
  <2>0. PICK p \in Resident : p = frames[f].page_id /\ page_table[p] = f
    BY <1>3 DEF PoolInv, PageTableMatchesFrames
  <2> DEFINE r == [FrameOf(p) EXCEPT !.dirty = FALSE]
  <2>1. p \in Resident /\ page_table[p] = f /\ FrameOf(p) = frames[f]
    BY <2>0 DEF FrameOf
  <2>2. /\ store' = WritePage(store, p, FrameOf(p).page)
        /\ frames' = [frames EXCEPT ![page_table[p]] = r]
    BY <1>3, <2>0, <2>1 DEF FlushFrame
  <2>3. FrameOf(p) \in FrameType
    BY <2>1 DEF PoolInv, PoolType
  <2>4. /\ r \in FrameType /\ r.occupied /\ r.page_id = p
        /\ r.pin = FrameOf(p).pin /\ ~r.dirty /\ r.page = FrameOf(p).page
    BY <1>3, <2>0, <2>1, <2>3 DEF FrameType
  <2>5. FrameOf(p).dirty
    BY <1>3, <2>1
  <2> HIDE DEF r
  <2>6. /\ frames' \in [FrameIds -> FrameType] /\ PageTableMatchesFrames'
        /\ Resident' = Resident /\ FrameOf(p)' = r
        /\ \A q \in Resident : q # p => FrameOf(q)' = FrameOf(q)
    BY <2>1, <2>2, <2>4, FrameChanges DEF PoolInv
  <2>7. \A q \in Resident : FrameOf(q)'.pin = FrameOf(q).pin
    BY <2>4, <2>6
  <2>8. MetaFrameInv'
    BY <2>4, <2>6 DEF PoolInv, MetaFrameInv
  <2>9. PoolInv'
    BY <2>6, <2>7, <2>8 DEF PoolInv, PoolType, ListInv
  <2>10. PinInv'
    BY <1>1, <2>6, <2>7 DEF PinInv
  <2>11. StoreOK(store')
    BY <2>1, <2>2, <2>5, FlushKeepsStore
  <2>12. /\ store'.next = store.next
         /\ \A q \in PageIds : ViewOf(store', q) = IF q = p THEN r.page ELSE ViewOf(store, q)
    <3>1. p \in PageIds /\ p # META_PAGE_ID /\ FrameOf(p).page \in Content
      BY <2>3, <2>5 DEF PoolInv, PoolType, MetaFrameInv, FrameType
    <3>2. PICK c \in Content : c = FrameOf(p).page
      BY <3>1
    <3>3. QED
      BY <2>2, <2>4, <3>1, <3>2, ViewAfterWrite
  <2>13. ASSUME wrote' = wrote, CoherentOn(store, Resident)
         PROVE  CoherentOn(store, Resident)'
    <3>1. \A q \in Resident : Settled(q)' = Settled(q)
      BY <2>13 DEF Settled
    <3>2. QED
      BY <2>6, <2>12, <2>13, <3>1 DEF CoherentOn, PoolInv, PoolType
  <2>14. QED
    BY <2>9, <2>10, <2>11, <2>12, <2>13
<1>4. QED
  BY <1>2, <1>3

\* An empty pool satisfies all four accounts.
LEMMA EmptyPoolKeeps ==
    ASSUME EmptyPool
    PROVE  /\ PoolInv' /\ Resident' = {}
<1>1. /\ frames' = [f \in FrameIds |-> EmptyFrame] /\ lru' = <<>>
      /\ page_table' = [p \in {} |-> 0]
  BY DEF EmptyPool
<1>2. EmptyFrame \in FrameType /\ ~EmptyFrame.occupied
  <2>1. 0 \in PageIds /\ 0 \in Nat /\ Zero \in Content
    BY MetaPageId DEF Content, META_PAGE_ID
  <2>2. QED
    BY <2>1 DEF EmptyFrame, FrameType
<1>3. frames' \in [FrameIds -> FrameType] /\ \A f \in FrameIds : ~frames'[f].occupied
  BY <1>1, <1>2
<1>4. Resident' = {}
  BY <1>1 DEF Resident
<1>5. page_table' \in [Resident' -> FrameIds]
  BY <1>1, <1>4
<1>6. lru' \in Seq(PageIds) /\ Elements(lru') = {} /\ Once(lru')
  BY <1>1 DEF Elements, Once
<1>7. QED
  BY <1>3, <1>4, <1>5, <1>6 DEF PoolInv, PoolType, PageTableMatchesFrames, ListInv, MetaFrameInv

\* A step that touches neither the pool nor the clients.
LEMMA PoolLeftAlone ==
    ASSUME UNCHANGED <<pool, clients>>, PoolInv, ClientType, PinInv
    PROVE  PoolInv' /\ ClientType' /\ PinInv'
<1>1. /\ frames' = frames /\ page_table' = page_table /\ lru' = lru
      /\ held' = held /\ wrote' = wrote
  BY DEF pool, clients
<1>2. PoolInv'
  BY <1>1 DEF PoolInv, PoolType, PageTableMatchesFrames, ListInv, MetaFrameInv,
              Resident, FrameOf
<1>3. PinInv'
  BY <1>1 DEF PinInv, Holders, Resident, FrameOf
<1>4. ClientType'
  BY <1>1 DEF ClientType
<1>5. QED
  BY <1>2, <1>3, <1>4

LEMMA PinsOfNobody ==
    ASSUME Resident' = {}, \A c \in Clients : held'[c] = None
    PROVE  PinInv'
BY DEF PinInv

-----------------------------------------------------------------------------
(* The invariant holds *)

LEMMA InitInv == Init => Inv
<1> SUFFICES ASSUME Init PROVE Inv
  OBVIOUS
<1>1. EmptyFrame \in FrameType /\ ~EmptyFrame.occupied
  <2>1. 0 \in PageIds /\ 0 \in Nat /\ Zero \in Content
    BY MetaPageId DEF Content, META_PAGE_ID
  <2>2. QED
    BY <2>1 DEF EmptyFrame, FrameType
<1>2. frames \in [FrameIds -> FrameType] /\ \A f \in FrameIds : ~frames[f].occupied
  BY <1>1 DEF Init
<1>3. Resident = {} /\ page_table \in [Resident -> FrameIds]
  BY DEF Init, Resident
<1>4. lru \in Seq(PageIds) /\ Elements(lru) = {} /\ Once(lru)
  BY DEF Init, Elements, Once
<1>5. PoolInv
  BY <1>2, <1>3, <1>4 DEF PoolInv, PoolType, PageTableMatchesFrames, ListInv, MetaFrameInv
<1>6. ClientType /\ (\A c \in Clients : held[c] = None)
  BY DEF Init, ClientType
<1>7. PinInv /\ NobodyInv
  BY <1>3, <1>6 DEF PinInv, NobodyInv
<1>8. FileOK(store)
  <2>1. store = EmptyStorage /\ store.numPages = 0
    BY DEF Init, EmptyStorage
  <2>2. ZeroTail(store)
    BY <2>1 DEF EmptyStorage, ZeroTail
  <2>3. QED
    BY <2>1, <2>2, EmptyStorageType DEF FileOK
<1>9. StoreInv /\ ControlType
  BY <1>8 DEF Init, StoreInv, ControlType
<1>10. QED
  BY <1>5, <1>6, <1>7, <1>9 DEF Inv

\* One step for each action.
LEMMA NextInv == Inv /\ [Next]_vars => Inv'
<1> SUFFICES ASSUME Inv, [Next]_vars PROVE Inv'
  OBVIOUS
<1> USE DEF Inv
<1>1. ASSUME NEW c \in Clients, NEW p \in PageIds, Fetch(c, p) PROVE Inv'
  <2>1. pc = "run" /\ held[c] = None /\ TakePage(store, c, p) /\ pc' = pc /\ i' = i
    BY <1>1 DEF Fetch, TakePage
  <2>2. StoreOK(store)
    BY <2>1 DEF StoreInv
  <2>3. PoolInv' /\ PinInv' /\ StoreOK(store') /\ ClientType'
    BY <2>1, <2>2, TakePageKeeps
  <2>4. QED
    BY <2>1, <2>3 DEF NobodyInv, StoreInv, ControlType
<1>2. CASE FetchOutOfRange
  <2>1. pc = "run" /\ pc' = pc /\ i' = i /\ held' = held /\ wrote' = wrote
    BY <1>2 DEF FetchOutOfRange, clients
  <2>2. PoolInv' /\ PinInv' /\ StoreOK(store')
    BY <1>2, <2>1, FetchOutOfRangeKeeps DEF StoreInv
  <2>3. ClientType'
    BY <2>1 DEF ClientType
  <2>4. QED
    BY <2>1, <2>2, <2>3 DEF NobodyInv, StoreInv, ControlType
<1>3. ASSUME NEW c \in Clients, NewPage(c) PROVE Inv'
  <2>1. /\ pc = "run" /\ held[c] = None /\ store.next < MaxPages
        /\ TakePage(AllocatePage(store), c, store.next) /\ pc' = pc /\ i' = i
    BY <1>3 DEF NewPage, TakePage
  <2>2. StoreOK(store) /\ store.next \in PageIds
    BY <2>1, MaxPagesAssumption DEF StoreInv, StoreOK, FileOK, StorageType, PageIds
  <2>3. StoreOK(AllocatePage(store))
    BY <2>2, AllocateKeepsStore
  <2>4. PICK s : s = AllocatePage(store)
    OBVIOUS
  <2>5. PICK p \in PageIds : p = store.next
    BY <2>2
  <2>6. PoolInv' /\ PinInv' /\ StoreOK(store') /\ ClientType'
    BY <2>1, <2>3, <2>4, <2>5, TakePageKeeps
  <2>7. QED
    BY <2>1, <2>6 DEF NobodyInv, StoreInv, ControlType
<1>4. CASE NewPageNull \/ Allocate
  <2>1. /\ pc = "run" /\ pc' = pc /\ i' = i /\ UNCHANGED <<pool, clients>>
        /\ store' = AllocatePage(store)
    BY <1>4 DEF NewPageNull, Allocate
  <2>2. StoreOK(store')
    BY <2>1, AllocateKeepsStore DEF StoreInv
  <2>3. PoolInv' /\ ClientType' /\ PinInv'
    BY <2>1, PoolLeftAlone
  <2>4. QED
    BY <2>1, <2>2, <2>3 DEF NobodyInv, StoreInv, ControlType
<1>5. ASSUME NEW c \in Clients, NEW d \in Data, Modify(c, d) PROVE Inv'
  <2>1. pc = "run" /\ pc' = pc /\ i' = i /\ store' = store
    BY <1>5 DEF Modify
  <2>2. PoolInv' /\ PinInv' /\ ClientType'
    BY <1>5, ModifyKeeps
  <2>3. QED
    BY <2>1, <2>2 DEF NobodyInv, StoreInv, ControlType
<1>6. ASSUME NEW c \in Clients, NEW dirty \in BOOLEAN, Unpin(c, dirty) PROVE Inv'
  <2>1. pc = "run" /\ pc' = pc /\ i' = i /\ store' = store
    BY <1>6 DEF Unpin
  <2>2. PoolInv' /\ PinInv' /\ ClientType'
    BY <1>6, UnpinKeeps
  <2>3. QED
    BY <2>1, <2>2 DEF NobodyInv, StoreInv, ControlType
<1>7. ASSUME NEW p \in PageIds, FlushPageCall(p) PROVE Inv'
  <2>1. /\ pc = "run" /\ pc' = pc /\ i' = i
        /\ UNCHANGED <<page_table, lru, held>> /\ wrote' = wrote
    BY <1>7 DEF FlushPageCall, clients
  <2>2. PICK f \in FrameIds : FlushFrame(f)
    BY <1>7 DEF FlushPageCall, PoolInv, PoolType
  <2>3. PoolInv' /\ PinInv' /\ StoreOK(store')
    BY <2>1, <2>2, FlushFrameKeeps DEF StoreInv
  <2>4. ClientType'
    BY <2>1 DEF ClientType
  <2>5. QED
    BY <2>1, <2>3, <2>4 DEF NobodyInv, StoreInv, ControlType
<1>8. CASE FlushAll \/ Close \/ EndFlushAll
  <2>1. store' = store /\ UNCHANGED <<pool, clients>> /\ i' = 0
    BY <1>8 DEF FlushAll, Close, EndFlushAll, BeginLoop
  <2>2. /\ pc \in {"run", "flushAll"} /\ pc' \in {"run", "flushAll", "closePool"}
        /\ pc' = "closePool" => \A c \in Clients : held[c] = None
    BY <1>8 DEF FlushAll, Close, EndFlushAll, BeginLoop
  <2>3. PoolInv' /\ ClientType' /\ PinInv'
    BY <2>1, PoolLeftAlone
  <2>4. held' = held
    BY <2>1 DEF clients
  <2>5. NobodyInv'
    BY <2>2, <2>4 DEF NobodyInv
  <2>6. QED
    BY <2>1, <2>2, <2>3, <2>5 DEF StoreInv, ControlType
<1>9. CASE FlushStep
  <2>1. /\ pc \in {"flushAll", "closePool"} /\ pc' = pc /\ i' = i + 1 /\ i < PoolSize
        /\ FlushFrame(i) /\ UNCHANGED <<page_table, lru, held>> /\ wrote' = wrote
    BY <1>9 DEF FlushStep, clients
  <2>2. i \in FrameIds
    BY <2>1, PoolSizeAssumption DEF ControlType, FrameIds
  <2>3. PICK f \in FrameIds : f = i
    BY <2>2
  <2>4. PoolInv' /\ PinInv' /\ StoreOK(store')
    BY <2>1, <2>3, FlushFrameKeeps DEF StoreInv
  <2>5. ClientType'
    BY <2>1 DEF ClientType
  <2>6. QED
    BY <2>1, <2>4, <2>5 DEF NobodyInv, StoreInv, ControlType
<1>10. CASE EndClosePool
  <2>1. /\ pc = "closePool" /\ pc' = "closeStore" /\ i' = 0 /\ EmptyPool
        /\ store' = store /\ held' = held /\ wrote' = wrote
    BY <1>10 DEF EndClosePool, BeginLoop, clients
  <2>2. PoolInv' /\ Resident' = {}
    BY <2>1, EmptyPoolKeeps
  <2>3. \A c \in Clients : held'[c] = None
    BY <2>1 DEF NobodyInv
  <2>4. PinInv' /\ ClientType' /\ NobodyInv'
    BY <2>1, <2>2, <2>3, PinsOfNobody DEF ClientType, NobodyInv
  <2>5. QED
    BY <2>1, <2>2, <2>4 DEF StoreInv, ControlType
<1>11. CASE CloseStoreStep
  <2>1. /\ pc = "closeStore" /\ pc' = pc /\ i' = i + 1
        /\ store' = ClosePage(store, i) /\ UNCHANGED <<pool, clients>>
    BY <1>11 DEF CloseStoreStep
  <2>2. StoreOK(store')
    BY <2>1, CloseKeepsStore DEF StoreInv
  <2>3. PoolInv' /\ ClientType' /\ PinInv'
    BY <2>1, PoolLeftAlone
  <2>4. QED
    BY <2>1, <2>2, <2>3 DEF NobodyInv, StoreInv, ControlType, clients
<1>12. CASE EndCloseStore
  <2>1. /\ pc = "closeStore" /\ pc' = "down" /\ i' = 0
        /\ store' = LoseMemory(store) /\ UNCHANGED <<pool, clients>>
    BY <1>12 DEF EndCloseStore, BeginLoop
  <2>2. FileOK(store')
    BY <2>1, FileLeft DEF StoreInv
  <2>3. PoolInv' /\ ClientType' /\ PinInv'
    BY <2>1, PoolLeftAlone
  <2>4. QED
    BY <2>1, <2>2, <2>3 DEF NobodyInv, StoreInv, ControlType, clients
<1>13. CASE Crash
  <2>1. /\ pc \notin {"down", "crashed"} /\ pc' = "crashed" /\ i' = 0 /\ EmptyPool
        /\ store' = LoseMemory(store)
        /\ held' = [c \in Clients |-> None] /\ wrote' = [c \in Clients |-> FALSE]
    BY <1>13 DEF Crash
  <2>2. FileOK(store')
    BY <2>1, FileLeft DEF StoreInv
  <2>3. PoolInv' /\ Resident' = {}
    BY <2>1, EmptyPoolKeeps
  <2>4. PinInv' /\ ClientType' /\ NobodyInv'
    BY <2>1, <2>3, PinsOfNobody DEF ClientType, NobodyInv
  <2>5. QED
    BY <2>1, <2>2, <2>3, <2>4 DEF StoreInv, ControlType
<1>14. CASE Open
  <2>1. /\ pc \in {"down", "crashed"} /\ pc' = "run" /\ i' = i
        /\ store' = OpenStorage(store) /\ UNCHANGED <<pool, clients>>
    BY <1>14 DEF Open
  <2>2. StoreOK(store')
    BY <2>1, FileOpened DEF StoreInv
  <2>3. PoolInv' /\ ClientType' /\ PinInv'
    BY <2>1, PoolLeftAlone
  <2>4. QED
    BY <2>1, <2>2, <2>3 DEF NobodyInv, StoreInv, ControlType
<1>15. CASE UNCHANGED vars
  <2>1. store' = store /\ pc' = pc /\ i' = i /\ UNCHANGED <<pool, clients>>
    BY <1>15 DEF vars, pool, clients
  <2>2. PoolInv' /\ ClientType' /\ PinInv'
    BY <2>1, PoolLeftAlone
  <2>3. QED
    BY <2>1, <2>2 DEF NobodyInv, StoreInv, ControlType, clients
<1>16. QED
  BY <1>1, <1>2, <1>3, <1>4, <1>5, <1>6, <1>7, <1>8, <1>9, <1>10, <1>11, <1>12,
     <1>13, <1>14, <1>15 DEF Next

\* The four accounts of the pool, and the storage under it, agree at every moment: between
\* two calls, in the middle of flushAll and of the destructors, after a crash and a restart.
THEOREM Invariance == Spec => []Inv
<1>1. QED
  BY InitInv, NextInv, PTL DEF Spec

\* Every variable keeps its type; in particular a pin count never goes below zero.
THEOREM TypeCorrect == Spec => []TypeOK
<1>1. Inv => TypeOK
  BY DEF Inv, PoolInv, PoolType, ClientType, StoreInv, StoreOK, FileOK, ControlType, TypeOK
<1>2. QED
  BY Invariance, <1>1, PTL

\* page_table_ and the frames of buffer_pool_ name each other.
THEOREM TableCorrect == Spec => []PageTableMatchesFrames
<1>1. Inv => PageTableMatchesFrames
  BY DEF Inv, PoolInv
<1>2. QED
  BY Invariance, <1>1, PTL

\* lru_list_ holds the resident pages nobody has pinned, each of them once.
THEOREM LruCorrect == Spec => []LruListsUnpinned
<1>1. Inv => LruListsUnpinned
  BY DEF Inv, PoolInv, ListInv, Once, LruListsUnpinned
<1>2. QED
  BY Invariance, <1>1, PTL

\* The pin count of a frame is the number of clients that hold a pointer into it, so that
\* lru_evict never takes a frame away under a client.
THEOREM PinsCorrect == Spec => []PinsCountHolders
<1>1. Inv => PinsCountHolders
  BY DEF Inv, PinInv, Holders, PinsCountHolders
<1>2. QED
  BY Invariance, <1>1, PTL

-----------------------------------------------------------------------------
(* What eviction drops *)

\* Needed for CleanFramesCoherent: the pool holds allocated pages only, and is empty when
\* the storage is opened or closed.
CoherenceInv ==
    /\ pc \in {"closeStore", "down", "crashed"} => Resident = {}
    /\ CoherentOn(store, Resident)

LEMMA CoherenceInit == Init => CoherenceInv
BY DEF Init, CoherenceInv, CoherentOn, Resident

LEMMA CoherenceNext ==
    ~StrayFetch /\ Inv /\ CoherenceInv /\ [Next]_vars => CoherenceInv'
<1> SUFFICES ASSUME ~StrayFetch, Inv, CoherenceInv, [Next]_vars PROVE CoherenceInv'
  OBVIOUS
<1> USE DEF Inv
<1>0. UNCHANGED <<store, pool, clients>> => CoherentOn(store, Resident)'
  BY DEF pool, clients, CoherenceInv, CoherentOn, Settled, Resident, FrameOf
<1>1. ASSUME NEW c \in Clients, NEW p \in PageIds, Fetch(c, p) PROVE CoherenceInv'
  <2>1. pc = "run" /\ held[c] = None /\ TakePage(store, c, p) /\ pc' = pc
    BY <1>1 DEF Fetch, TakePage
  <2>2. StoreOK(store) /\ store.next \in Nat \ {0}
    BY <2>1 DEF StoreInv, StoreOK, FileOK, StorageType
  <2>3. p \in 1 .. store.next - 1
    BY <1>1, <2>2, MaxPagesAssumption DEF Fetch, Fetchable, DataPages, META_PAGE_ID, PageIds
  <2>4. QED
    BY <2>1, <2>2, <2>3, TakePageKeeps DEF CoherenceInv
<1>2. ASSUME NEW c \in Clients, NewPage(c) PROVE CoherenceInv'
  <2>1. /\ pc = "run" /\ held[c] = None /\ store.next < MaxPages /\ pc' = pc
        /\ TakePage(AllocatePage(store), c, store.next)
    BY <1>2 DEF NewPage, TakePage
  <2>2. StoreOK(store) /\ store.next \in PageIds /\ store.next \in Nat \ {0}
    BY <2>1, MaxPagesAssumption DEF StoreInv, StoreOK, FileOK, StorageType, PageIds
  <2>3. PICK s : s = AllocatePage(store)
    OBVIOUS
  <2>4. PICK p \in PageIds : p = store.next
    BY <2>2
  <2>5. StoreOK(s) /\ p \in 1 .. s.next - 1 /\ CoherentOn(s, Resident)
    BY <2>2, <2>3, <2>4, AllocateKeepsStore, ViewAfterAllocate
       DEF CoherenceInv, CoherentOn, META_PAGE_ID, PoolInv, PoolType
  <2>6. QED
    BY <2>1, <2>3, <2>4, <2>5, TakePageKeeps DEF CoherenceInv
<1>3. CASE NewPageNull \/ Allocate
  <2>1. /\ pc = "run" /\ pc' = pc /\ UNCHANGED <<pool, clients>>
        /\ store' = AllocatePage(store)
    BY <1>3 DEF NewPageNull, Allocate
  <2>2. /\ store'.next = store.next + 1 /\ store.next \in Nat \ {0}
        /\ \A q \in Resident : ViewOf(store', q) = ViewOf(store, q)
    <3>1. StoreOK(store) /\ store.next \in Nat \ {0}
      BY <2>1 DEF StoreInv, StoreOK, FileOK, StorageType
    <3>2. \A q \in Resident : q \in PageIds /\ q # META_PAGE_ID /\ q # store.next
      BY <3>1 DEF CoherenceInv, CoherentOn, META_PAGE_ID, PoolInv, PoolType
    <3>3. QED
      BY <2>1, <3>1, <3>2, ViewAfterAllocate
  <2>3. /\ Resident' = Resident
        /\ \A q \in Resident : FrameOf(q)' = FrameOf(q) /\ Settled(q)' = Settled(q)
    BY <2>1 DEF pool, clients, Resident, FrameOf, Settled
  <2>4. QED
    BY <2>1, <2>2, <2>3 DEF CoherenceInv, CoherentOn
<1>4. ASSUME NEW c \in Clients, NEW d \in Data, Modify(c, d) PROVE CoherenceInv'
  <2>1. pc = "run" /\ pc' = pc
    BY <1>4 DEF Modify
  <2>2. QED
    BY <1>4, <2>1, ModifyKeeps DEF CoherenceInv
<1>5. ASSUME NEW c \in Clients, NEW dirty \in BOOLEAN, Unpin(c, dirty) PROVE CoherenceInv'
  <2>1. pc = "run" /\ pc' = pc
    BY <1>5 DEF Unpin
  <2>2. QED
    BY <1>5, <2>1, UnpinKeeps DEF CoherenceInv
<1>6. ASSUME NEW p \in PageIds, FlushPageCall(p) PROVE CoherenceInv'
  <2>1. /\ pc = "run" /\ pc' = pc
        /\ UNCHANGED <<page_table, lru, held>> /\ wrote' = wrote
    BY <1>6 DEF FlushPageCall, clients
  <2>2. PICK f \in FrameIds : FlushFrame(f)
    BY <1>6 DEF FlushPageCall, PoolInv, PoolType
  <2>3. QED
    BY <2>1, <2>2, FlushFrameKeeps DEF CoherenceInv, StoreInv
<1>7. CASE FlushStep
  <2>1. /\ pc \in {"flushAll", "closePool"} /\ pc' = pc /\ i < PoolSize
        /\ FlushFrame(i) /\ UNCHANGED <<page_table, lru, held>> /\ wrote' = wrote
    BY <1>7 DEF FlushStep, clients
  <2>2. PICK f \in FrameIds : f = i
    BY <2>1, PoolSizeAssumption DEF ControlType, FrameIds
  <2>3. QED
    BY <2>1, <2>2, FlushFrameKeeps DEF CoherenceInv, StoreInv
<1>8. CASE FlushAll \/ Close \/ EndFlushAll \/ UNCHANGED vars
  <2>1. /\ UNCHANGED <<store, pool, clients>>
        /\ pc' \in {"closeStore", "down", "crashed"} => pc' = pc
    BY <1>8 DEF FlushAll, Close, EndFlushAll, BeginLoop, vars, pool, clients
  <2>2. Resident' = Resident
    BY <2>1 DEF pool, Resident
  <2>3. QED
    BY <1>0, <2>1, <2>2 DEF CoherenceInv
<1>9. CASE EndClosePool \/ Crash
  <2>1. EmptyPool
    BY <1>9 DEF EndClosePool, Crash
  <2>2. Resident' = {}
    BY <2>1, EmptyPoolKeeps
  <2>3. QED
    BY <2>2 DEF CoherenceInv, CoherentOn
<1>10. CASE CloseStoreStep \/ EndCloseStore \/ Open
  <2>1. pc \in {"closeStore", "down", "crashed"} /\ UNCHANGED pool
    BY <1>10 DEF CloseStoreStep, EndCloseStore, Open, BeginLoop
  <2>2. Resident' = {}
    BY <2>1 DEF pool, Resident, CoherenceInv
  <2>3. QED
    BY <2>2 DEF CoherenceInv, CoherentOn
<1>11. CASE FetchOutOfRange
  <2>1. pc = "run" /\ pc' = pc
    BY <1>11 DEF FetchOutOfRange
  <2>2. QED
    BY <1>11, <2>1, FetchOutOfRangeKeeps DEF CoherenceInv, StoreInv
<1>12. QED
  BY <1>1, <1>2, <1>3, <1>4, <1>5, <1>6, <1>7, <1>8, <1>9, <1>10, <1>11 DEF Next

\* When clients ask for allocated pages only, a frame that is not dirty and that no client
\* has modified holds what the storage holds: dropping it, as lru_evict and flushAll do,
\* loses nothing.
THEOREM EvictionLosesNothing ==
    ASSUME ~StrayFetch
    PROVE  Spec => []CleanFramesCoherent
<1>1. Init => Inv /\ CoherenceInv
  BY InitInv, CoherenceInit
<1>2. Inv /\ CoherenceInv /\ [Next]_vars => (Inv /\ CoherenceInv)'
  BY NextInv, CoherenceNext
<1>3. CoherenceInv => CleanFramesCoherent
  BY DEF CoherenceInv, CoherentOn, CleanFramesCoherent
<1>4. QED
  BY <1>1, <1>2, <1>3, PTL DEF Spec

-----------------------------------------------------------------------------
(* The order of eviction *)

\* The pages of the list l from the one used last to the one whose last use is the oldest.
InOrder(l, used) == \A j, k \in DOMAIN l : j < k => l[j] \in used[l[k]]

\* Needed for EvictsLeastRecentlyUsed: the list is in the order of the uses.
OrderInv == since \in [PageIds -> SUBSET PageIds] /\ InOrder(lru, since)

\* A list keeps its order when one position is dropped,
LEMMA DropAtKeepsOrder ==
    ASSUME NEW l \in Seq(PageIds), NEW used, InOrder(l, used), NEW k \in DOMAIN l
    PROVE  InOrder(DropAt(l, k), used)
<1> DEFINE d == DropAt(l, k)
           n == Len(l) - 1
<1>1. Len(l) \in Nat /\ DOMAIN l = 1 .. Len(l) /\ k \in 1 .. Len(l)
  OBVIOUS
<1>2. n \in Nat
  BY <1>1
<1>3. /\ DOMAIN d = 1 .. n
      /\ \A j \in 1 .. n : d[j] = IF j < k THEN l[j] ELSE l[j + 1]
  BY DEF DropAt
<1> HIDE DEF d
<1>4. ASSUME NEW j \in 1 .. n, NEW m \in 1 .. n, j < m
      PROVE  d[j] \in used[d[m]]
  <2>1. /\ j \in DOMAIN l /\ j + 1 \in DOMAIN l /\ m \in DOMAIN l /\ m + 1 \in DOMAIN l
        /\ j < m + 1 /\ j + 1 < m + 1
    BY <1>1, <1>2, <1>4
  <2>2. l[j] \in used[l[m]] /\ l[j] \in used[l[m + 1]] /\ l[j + 1] \in used[l[m + 1]]
    BY <1>4, <2>1 DEF InOrder
  <2>3. (m < k => j < k) /\ d[j] \in {l[j], l[j + 1]} /\ d[m] \in {l[m], l[m + 1]}
    BY <1>1, <1>2, <1>3, <1>4
  <2>4. CASE m < k
    BY <1>3, <2>2, <2>3, <2>4
  <2>5. CASE ~(m < k)
    BY <1>3, <2>2, <2>3, <2>5
  <2>6. QED
    BY <2>4, <2>5
<1>5. QED
  BY <1>3, <1>4 DEF InOrder, d

\* or a page,
LEMMA LruRemoveKeepsOrder ==
    ASSUME NEW l \in Seq(PageIds), NEW used, InOrder(l, used), NEW p
    PROVE  InOrder(LruRemove(l, p), used)
<1>1. CASE p \notin Elements(l)
  BY <1>1 DEF LruRemove
<1>2. CASE p \in Elements(l)
  <2> DEFINE k == CHOOSE k \in DOMAIN l : l[k] = p
  <2>1. k \in DOMAIN l /\ l[k] = p
    BY <1>2 DEF Elements
  <2>2. LruRemove(l, p) = DropAt(l, k)
    BY <1>2 DEF LruRemove
  <2> HIDE DEF k
  <2>3. QED
    BY <2>1, <2>2, DropAtKeepsOrder
<1>3. QED
  BY <1>1, <1>2

\* and when pages that are not in it are used.
LEMMA UseOfOthers ==
    ASSUME NEW l \in Seq(PageIds), InOrder(l, since), OrderInv, LRUNext, pc' # "crashed",
           NEW T \in SUBSET PageIds, Touched = T, T \cap Elements(l) = {}
    PROVE  InOrder(l, since') /\ since' \in [PageIds -> SUBSET PageIds]
<1>1. since' = [p \in PageIds |-> IF p \in T THEN {} ELSE since[p] \cup T]
  BY DEF LRUNext
<1>2. since' \in [PageIds -> SUBSET PageIds]
  BY <1>1 DEF OrderInv
<1>3. \A k \in DOMAIN l : l[k] \in PageIds /\ l[k] \notin T
  BY DEF Elements
<1>4. \A k \in DOMAIN l : since'[l[k]] = since[l[k]] \cup T
  BY <1>1, <1>3
<1>5. QED
  BY <1>2, <1>4 DEF InOrder

\* A page that is used goes to the front, where it follows no other.
LEMMA TouchKeepsOrder ==
    ASSUME PoolInv, OrderInv, LRUNext, pc' # "crashed", NEW p \in PageIds, Touched = {p}
    PROVE  InOrder(LruTouch(lru, p), since') /\ since' \in [PageIds -> SUBSET PageIds]
<1> DEFINE r == LruRemove(lru, p)
           t == <<p>> \o r
<1>1. r \in Seq(PageIds) /\ Elements(r) = Elements(lru) \ {p}
  BY LruRemoveEffect DEF PoolInv, PoolType, ListInv
<1>2. InOrder(r, since)
  BY LruRemoveKeepsOrder DEF OrderInv, PoolInv, PoolType
<1> HIDE DEF r
<1>3. InOrder(r, since') /\ since' \in [PageIds -> SUBSET PageIds]
  BY <1>1, <1>2, UseOfOthers
<1>4. since' = [q \in PageIds |-> IF q \in {p} THEN {} ELSE since[q] \cup {p}]
  BY DEF LRUNext
<1>5. \A j \in DOMAIN r : p \in since'[r[j]]
  <2> TAKE j \in DOMAIN r
  <2>1. r[j] \in PageIds /\ r[j] # p
    BY <1>1 DEF Elements
  <2>2. QED
    BY <1>4, <2>1
<1>6. /\ t \in Seq(PageIds) /\ Len(t) = Len(r) + 1 /\ t[1] = p
      /\ \A j \in 1 .. Len(r) : t[j + 1] = r[j]
  BY <1>1
<1>7. Len(r) \in Nat /\ DOMAIN r = 1 .. Len(r) /\ DOMAIN t = 1 .. Len(r) + 1
  BY <1>1, <1>6
<1> HIDE DEF t
<1>8. \A j \in 2 .. Len(r) + 1 : j - 1 \in 1 .. Len(r) /\ t[j] = r[j - 1]
  BY <1>6, <1>7
<1>9. ASSUME NEW j \in DOMAIN t, NEW k \in DOMAIN t, j < k
      PROVE  t[j] \in since'[t[k]]
  <2>1. k \in 2 .. Len(r) + 1 /\ (j = 1 \/ j \in 2 .. Len(r) + 1)
    BY <1>7, <1>9
  <2>2. k - 1 \in DOMAIN r /\ t[k] = r[k - 1]
    BY <1>7, <1>8, <2>1
  <2>3. CASE j = 1
    BY <1>5, <1>6, <2>2, <2>3
  <2>4. CASE j \in 2 .. Len(r) + 1
    <3>1. j - 1 \in DOMAIN r /\ t[j] = r[j - 1] /\ j - 1 < k - 1
      BY <1>7, <1>8, <1>9, <2>1, <2>4
    <3>2. QED
      BY <1>3, <2>2, <3>1 DEF InOrder
  <2>5. QED
    BY <2>1, <2>3, <2>4
<1>10. LruTouch(lru, p) = t
  BY DEF LruTouch, t, r
<1>11. QED
  BY <1>3, <1>9, <1>10 DEF InOrder
\* A client that takes a page uses it, and no other.
LEMMA TakeTouches ==
    ASSUME ClientType, NEW c \in Clients, NEW p \in PageIds, held[c] = None,
           held' = [held EXCEPT ![c] = p]
    PROVE  Touched = {p}
<1>1. p # None
  BY NoneAssumption
<1>2. held'[c] = p /\ \A d \in Clients : d # c => held'[d] = held[d]
  BY DEF ClientType
<1>3. {d \in Clients : held'[d] # held[d] /\ held[d] # None} = {}
  BY <1>2
<1>4. {d \in Clients : held'[d] # held[d] /\ held'[d] # None} = {c}
  BY <1>1, <1>2
<1>5. QED
  BY <1>2, <1>3, <1>4 DEF Touched

\* And so does one that lets go of it.
LEMMA UnpinTouches ==
    ASSUME ClientType, NEW c \in Clients, NEW p \in PageIds, held[c] = p,
           held' = [held EXCEPT ![c] = None]
    PROVE  Touched = {p}
<1>1. p # None
  BY NoneAssumption
<1>2. held'[c] = None /\ \A d \in Clients : d # c => held'[d] = held[d]
  BY DEF ClientType
<1>3. {d \in Clients : held'[d] # held[d] /\ held[d] # None} = {c}
  BY <1>1, <1>2
<1>4. {d \in Clients : held'[d] # held[d] /\ held'[d] # None} = {}
  BY <1>2
<1>5. QED
  BY <1>3, <1>4 DEF Touched

\* A page that is fetched leaves the list, if it was in it, and so does the victim.
LEMMA TakeKeepsOrder ==
    ASSUME Inv, OrderInv, LRUNext, pc' = "run",
           NEW c \in Clients, NEW p \in PageIds, held[c] = None, NEW s, TakePage(s, c, p)
    PROVE  OrderInv'
<1>1. PoolInv /\ ClientType /\ lru \in Seq(PageIds) /\ Once(lru) /\ InOrder(lru, since)
  BY DEF Inv, PoolInv, PoolType, ListInv, OrderInv
<1>2. held' = [held EXCEPT ![c] = p]
  BY DEF TakePage
<1>3. Touched = {p}
  BY <1>1, <1>2, TakeTouches
<1>4. Elements(lru) \subseteq Resident
  BY <1>1 DEF PoolInv, ListInv
<1>5. ASSUME NEW l \in Seq(PageIds), lru' = l, InOrder(l, since), p \notin Elements(l)
      PROVE  OrderInv'
  <2> DEFINE T == {p}
  <2>1. T \in SUBSET PageIds /\ Touched = T /\ T \cap Elements(l) = {}
    BY <1>3, <1>5
  <2>2. pc' # "crashed"
    OBVIOUS
  <2> HIDE DEF T
  <2>3. InOrder(l, since') /\ since' \in [PageIds -> SUBSET PageIds]
    <3>1. /\ l \in Seq(PageIds) /\ InOrder(l, since) /\ OrderInv /\ LRUNext
          /\ T \in SUBSET PageIds
      BY <1>5, <2>1
    <3>2. QED
      BY ONLY <2>1, <2>2, <3>1, UseOfOthers
  <2>4. QED
    BY <1>5, <2>3 DEF OrderInv
<1>6. CASE FetchHit(s, p)
  <2>1. lru' = LruRemove(lru, p)
    BY <1>6 DEF FetchHit
  <2>2. /\ LruRemove(lru, p) \in Seq(PageIds) /\ p \notin Elements(LruRemove(lru, p))
        /\ InOrder(LruRemove(lru, p), since)
    BY <1>1, LruRemoveEffect, LruRemoveKeepsOrder
  <2>3. QED
    BY <1>5, <2>1, <2>2
<1>7. CASE FetchIntoFree(s, p)
  <2>1. lru' = lru /\ p \notin Resident
    BY <1>7 DEF FetchIntoFree
  <2>2. QED
    BY <1>1, <1>4, <1>5, <2>1
<1>8. CASE FetchIntoVictim(s, p)
  <2>1. lru' = DropAt(lru, VictimIndex) /\ p \notin Resident /\ Evictable # {}
    BY <1>8 DEF FetchIntoVictim
  <2>2. VictimIndex \in DOMAIN lru
    BY <1>1, <2>1, VictimIsLast
  <2>3. /\ DropAt(lru, VictimIndex) \in Seq(PageIds)
        /\ Elements(DropAt(lru, VictimIndex)) \subseteq Elements(lru)
    BY <1>1, <2>2, DropAtEffect
  <2>4. InOrder(DropAt(lru, VictimIndex), since)
    BY <1>1, <2>2, DropAtKeepsOrder
  <2>5. QED
    BY <1>4, <1>5, <2>1, <2>3, <2>4
<1>9. QED
  BY <1>6, <1>7, <1>8 DEF TakePage

\* A page that is let go of goes to the front, or stays out of the list.
LEMMA UnpinKeepsOrder ==
    ASSUME Inv, OrderInv, LRUNext, NEW c \in Clients, NEW dirty \in BOOLEAN, Unpin(c, dirty)
    PROVE  OrderInv'
<1>1. PoolInv /\ ClientType /\ PinInv /\ lru \in Seq(PageIds) /\ InOrder(lru, since)
  BY DEF Inv, PoolInv, PoolType, OrderInv
<1>2. PICK p \in PageIds : p = held[c]
  BY <1>1 DEF Unpin, ClientType
<1>3. /\ held' = [held EXCEPT ![c] = None] /\ UnpinPage(p, dirty) /\ pc = "run" /\ pc' = pc
      /\ held[c] # None
  BY <1>2 DEF Unpin
<1>4. Touched = {p}
  BY <1>1, <1>2, <1>3, UnpinTouches
<1>5. p \in Resident
  BY <1>1, <1>2, <1>3 DEF PinInv
<1>6. Cardinality(Holders(p)) > 0
  BY <1>1, <1>2, <1>3, HolderRemoved
<1>7. FrameOf(p).pin # 0
  BY <1>1, <1>5, <1>6 DEF PinInv
<1>8. p \notin Elements(lru)
  BY <1>1, <1>7 DEF PoolInv, ListInv
<1>9. lru' = LruTouch(lru, p) \/ lru' = lru
  BY <1>3, <1>5, <1>7 DEF UnpinPage
<1>10. pc' # "crashed"
  BY <1>3
<1>11. CASE lru' = LruTouch(lru, p)
  BY <1>1, <1>4, <1>10, <1>11, TouchKeepsOrder DEF OrderInv
<1>12. CASE lru' = lru
  <2>1. InOrder(lru, since') /\ since' \in [PageIds -> SUBSET PageIds]
    BY <1>1, <1>4, <1>8, <1>10, UseOfOthers
  <2>2. QED
    BY <1>12, <2>1 DEF OrderInv
<1>13. QED
  BY <1>9, <1>11, <1>12

\* A crash forgets the uses, and an empty list is in order.
LEMMA EmptyKeepsOrder ==
    ASSUME OrderInv, ClientType, LRUNext, lru' = <<>>, pc' = "crashed" \/ held' = held
    PROVE  OrderInv'
<1>1. since' \in [PageIds -> SUBSET PageIds]
  <2>1. held' = held => Touched = {}
    BY DEF Touched
  <2>2. CASE pc' = "crashed"
    BY <2>2 DEF LRUNext
  <2>3. CASE held' = held
    BY <2>1, <2>3 DEF LRUNext, OrderInv
  <2>4. QED
    BY <2>2, <2>3
<1>2. DOMAIN lru' = {}
  OBVIOUS
<1>3. QED
  BY <1>1, <1>2 DEF OrderInv, InOrder

\* The list starts empty, and so in order.
LEMMA OrderInit == LRUInit => OrderInv
<1>1. ASSUME LRUInit PROVE OrderInv
  <2>1. lru = <<>> /\ since = [p \in PageIds |-> {}]
    BY <1>1 DEF LRUInit, Init
  <2>2. DOMAIN lru = {}
    BY <2>1
  <2>3. QED
    BY <2>1, <2>2 DEF OrderInv, InOrder
<1>2. QED
  BY <1>1

\* Every step of a client, and every failure, keeps the list in the order of the uses.
LEMMA OrderNext == Inv /\ OrderInv /\ [LRUNext]_<<vars, since>> => OrderInv'
<1> SUFFICES ASSUME Inv, OrderInv, [LRUNext]_<<vars, since>> PROVE OrderInv'
  OBVIOUS
<1>0. /\ ClientType /\ PoolInv /\ lru \in Seq(PageIds) /\ Once(lru)
      /\ InOrder(lru, since)
  BY DEF Inv, PoolInv, PoolType, ListInv, OrderInv
<1>1. ASSUME LRUNext, NEW c \in Clients, NEW p \in PageIds, Fetch(c, p) PROVE OrderInv'
  <2>1. held[c] = None /\ TakePage(store, c, p) /\ pc' = "run"
    BY <1>1 DEF Fetch, TakePage
  <2>2. QED
    BY <1>1, <2>1, TakeKeepsOrder
<1>2. ASSUME LRUNext, NEW c \in Clients, NewPage(c) PROVE OrderInv'
  <2>1. /\ held[c] = None /\ store.next < MaxPages /\ pc = "run" /\ pc' = "run"
        /\ TakePage(AllocatePage(store), c, store.next)
    BY <1>2 DEF NewPage, TakePage
  <2>2. StoreOK(store) /\ store.next \in PageIds
    BY <2>1, MaxPagesAssumption DEF Inv, StoreInv, StoreOK, FileOK, StorageType, PageIds
  <2>3. PICK s : s = AllocatePage(store)
    OBVIOUS
  <2>4. PICK p \in PageIds : p = store.next
    BY <2>2
  <2>5. QED
    BY <1>2, <2>1, <2>3, <2>4, TakeKeepsOrder
<1>3. ASSUME LRUNext, NEW c \in Clients, NEW dirty \in BOOLEAN, Unpin(c, dirty) PROVE OrderInv'
  BY <1>3, UnpinKeepsOrder
<1>4. ASSUME LRUNext, FetchOutOfRange PROVE OrderInv'
  <2>1. /\ lru' = DropAt(lru, VictimIndex) /\ held' = held /\ pc' = "run"
        /\ Evictable # {}
    BY <1>4 DEF FetchOutOfRange, clients
  <2>2. VictimIndex \in DOMAIN lru
    BY <1>0, <2>1, VictimIsLast
  <2>3. Touched = {}
    BY <2>1 DEF Touched
  <2>4. DropAt(lru, VictimIndex) \in Seq(PageIds) /\ InOrder(DropAt(lru, VictimIndex), since)
    BY <1>0, <2>2, DropAtEffect, DropAtKeepsOrder
  <2>5. PICK l \in Seq(PageIds) : l = DropAt(lru, VictimIndex)
    BY <2>4
  <2>6. InOrder(l, since') /\ since' \in [PageIds -> SUBSET PageIds]
    BY <1>4, <2>1, <2>3, <2>4, <2>5, UseOfOthers
  <2>7. QED
    BY <2>1, <2>5, <2>6 DEF OrderInv
<1>5. ASSUME LRUNext, lru' = lru, held' = held, pc' # "crashed" PROVE OrderInv'
  <2>1. Touched = {}
    BY <1>5 DEF Touched
  <2>2. InOrder(lru, since') /\ since' \in [PageIds -> SUBSET PageIds]
    BY <1>0, <1>5, <2>1, UseOfOthers
  <2>3. QED
    BY <1>5, <2>2 DEF OrderInv
<1>6. ASSUME LRUNext, lru' = <<>>, pc' = "crashed" \/ held' = held PROVE OrderInv'
  BY <1>0, <1>6, EmptyKeepsOrder
<1>7. ASSUME LRUNext,
             \/ NewPageNull \/ Allocate \/ FlushAll \/ Close \/ FlushStep \/ EndFlushAll
             \/ CloseStoreStep \/ EndCloseStore \/ Open
             \/ \E c \in Clients, d \in Data : Modify(c, d)
             \/ \E p \in PageIds : FlushPageCall(p)
      PROVE  OrderInv'
  <2>1. lru' = lru /\ held' = held
    BY <1>7 DEF NewPageNull, Allocate, FlushAll, Close, FlushStep, EndFlushAll, CloseStoreStep,
       EndCloseStore, Open, Modify, FlushPageCall, pool, clients
  <2>2. pc' # "crashed"
    BY <1>7 DEF NewPageNull, Allocate, FlushAll, Close, FlushStep, EndFlushAll, CloseStoreStep,
       EndCloseStore, Open, Modify, FlushPageCall, BeginLoop
  <2>3. QED
    BY <1>5, <1>7, <2>1, <2>2
<1>8. ASSUME LRUNext, EndClosePool \/ Crash PROVE OrderInv'
  <2>1. lru' = <<>> /\ (pc' = "crashed" \/ held' = held)
    BY <1>8 DEF EndClosePool, Crash, EmptyPool, clients
  <2>2. QED
    BY <1>6, <1>8, <2>1
<1>9. CASE UNCHANGED <<vars, since>>
  BY <1>9 DEF vars, OrderInv, InOrder
<1>10. QED
  BY <1>1, <1>2, <1>3, <1>4, <1>7, <1>8, <1>9 DEF LRUNext, Next

\* A page leaves the pool only as the victim of a fetch, or when the pool is emptied.
LEMMA LeavesAsVictim ==
    ASSUME Inv, Next, pc' = "run", NEW v \in Resident, v \notin DOMAIN page_table'
    PROVE  Evictable # {} /\ v = Victim
<1>1. ASSUME NEW s, NEW c, NEW p, TakePage(s, c, p) PROVE Evictable # {} /\ v = Victim
  <2>1. ~FetchHit(s, p)
    BY DEF FetchHit, Resident
  <2>2. ~FetchIntoFree(s, p)
    BY DEF FetchIntoFree, LoadPageIntoFrame
  <2>3. FetchIntoVictim(s, p)
    BY <1>1, <2>1, <2>2 DEF TakePage
  <2>4. QED
    BY <2>3 DEF FetchIntoVictim, LoadPageIntoFrame
<1>2. CASE FetchOutOfRange
  BY <1>2 DEF FetchOutOfRange
<1>3. ~(page_table' = page_table)
  BY DEF Resident
<1>4. CASE \E c \in Clients, p \in PageIds : Fetch(c, p)
  BY <1>1, <1>4 DEF Fetch
<1>5. CASE \E c \in Clients : NewPage(c)
  BY <1>1, <1>5 DEF NewPage
<1>6. ~(EndClosePool \/ Crash)
  BY DEF EndClosePool, Crash, BeginLoop
<1>7. CASE \/ NewPageNull \/ Allocate \/ FlushAll \/ Close \/ FlushStep \/ EndFlushAll
           \/ CloseStoreStep \/ EndCloseStore \/ Open
           \/ \E c \in Clients, d \in Data : Modify(c, d)
           \/ \E p \in PageIds : FlushPageCall(p)
           \/ \E c \in Clients, dirty \in BOOLEAN : Unpin(c, dirty)
  BY <1>3, <1>7 DEF NewPageNull, Allocate, FlushAll, Close, FlushStep, EndFlushAll,
     CloseStoreStep, EndCloseStore, Open, Modify, FlushPageCall, Unpin, pool
<1>8. QED
  BY <1>2, <1>4, <1>5, <1>6, <1>7 DEF Next

\* For any number of frames, pages and clients: the page evicted is, of the resident pages
\* without a pin, the one whose last fetch or unpin is the oldest.
THEOREM EvictionOrderCorrect == LRUSpec => EvictsLeastRecentlyUsed
<1>1. LRUInit => Inv /\ OrderInv
  BY InitInv, OrderInit DEF LRUInit
<1>2. Inv /\ OrderInv /\ [LRUNext]_<<vars, since>> => (Inv /\ OrderInv)'
  <2>1. [LRUNext]_<<vars, since>> => [Next]_vars
    BY DEF LRUNext
  <2>2. QED
    BY <2>1, NextInv, OrderNext
<1>3. ASSUME Inv, OrderInv, LRUNext, pc = "run", pc' = "run",
             NEW v \in Resident, v \notin DOMAIN page_table',
             NEW q \in Resident, q # v, FrameOf(q).pin = 0
      PROVE  q \in since[v]
  <2>1. Evictable # {} /\ v = Victim
    BY <1>3, LeavesAsVictim DEF LRUNext
  <2>2. PoolInv /\ DOMAIN lru = 1 .. Len(lru) /\ Len(lru) \in Nat
    BY <1>3 DEF Inv, PoolInv, PoolType
  <2>3. Evictable = DOMAIN lru
    BY <2>2 DEF PoolInv, ListInv, Elements, Evictable
  <2>4. VictimIndex \in Evictable /\ \A j \in Evictable : j <= VictimIndex
    <3>1. Len(lru) \in Evictable /\ \A j \in Evictable : j <= Len(lru)
      BY <2>1, <2>2, <2>3
    <3>2. QED
      BY <3>1 DEF VictimIndex
  <2>5. PICK j \in DOMAIN lru : lru[j] = q
    BY <1>3, <2>2 DEF PoolInv, ListInv, Elements
  <2>6. j # VictimIndex
    BY <1>3, <2>1, <2>5 DEF Victim
  <2>7. j < VictimIndex
    BY <2>2, <2>3, <2>4, <2>5, <2>6
  <2>8. QED
    BY <1>3, <2>1, <2>3, <2>4, <2>5, <2>7 DEF OrderInv, InOrder, Victim
<1>4. Inv /\ OrderInv /\ [LRUNext]_<<vars, since>> =>
        [pc = "run" /\ pc' = "run" =>
           \A v \in Resident \ DOMAIN page_table' :
               \A q \in Resident \ {v} : FrameOf(q).pin = 0 => q \in since[v]]_<<vars, since>>
  BY <1>3
<1>5. QED
  BY <1>1, <1>2, <1>4, PTL DEF LRUSpec, EvictsLeastRecentlyUsed

-----------------------------------------------------------------------------
(* PageStore.  The buffer pool and the storage under it implement it, for every pool size,   *)
(* number of clients, file size and set of contents, as long as clients ask for allocated    *)
(* pages only.  A step is mapped by what it does to two accounts, the page a reader is shown *)
(* and the page in the file: Shown says which of the three copies of a page a reader sees,   *)
(* StoreSound how the two copies of the storage are related, LoopInv what flushAll and the   *)
(* destructors have done so far.  The durability of flushAll and the initialisation of new   *)
(* pages follow from the same facts.                                                         *)

-----------------------------------------------------------------------------
(* The invariant *)

\* Pages the file has not handed out hold zeros.
UnusedZero(s, n) == \A q \in DataPages : q >= n => s.disk[q] = Zero

\* An open storage: its counter is the one in the file, except beyond the limit; memory
\* holds allocated pages only, the clean ones as the file has them, and the only pages
\* the storage itself still has to write are those nobody wrote since they were allocated.
StoreSound(s) ==
    /\ s.disk[META_PAGE_ID].next = (IF s.next < MaxPages THEN s.next ELSE MaxPages)
    /\ \A q \in s.loaded : q < s.next
    /\ \A q \in DataPages \cap s.loaded : q \notin s.dirty => s.cache[q] = s.disk[q]
    /\ \A q \in s.dirty : s.cache[q] = Fresh
    /\ UnusedZero(s, s.next)

\* A file between two openings.
FileSound(s) == s.numPages > 0 => UnusedZero(s, s.disk[META_PAGE_ID].next)

\* flushAll and the destructor of the pool have left the frames before i clean, the
\* destructor of the storage the pages before i equal to the file.
LoopInv ==
    /\ pc \in {"flushAll", "closePool"} =>
           \A f \in FrameIds : f < i /\ frames[f].occupied => ~frames[f].dirty
    /\ pc = "closeStore" =>
           \A q \in DataPages \cap store.loaded :
               q < i => store.cache[q] = store.disk[q]

SoundInv == IF pc \in {"down", "crashed"} THEN FileSound(store) ELSE StoreSound(store)

MapInv == Inv /\ CoherenceInv /\ SoundInv /\ LoopInv

-----------------------------------------------------------------------------
(* The operations of the storage *)

\* A page is read in, or is there already.
LEMMA SoundAfterFetch ==
    ASSUME NEW s, StoreOK(s), StoreSound(s), NEW p \in PageIds, p < s.next
    PROVE  StoreSound(FetchPage(s, p)) /\ FetchPage(s, p).disk = s.disk
<1>1. CASE p \in s.loaded
  BY <1>1 DEF FetchPage
<1>2. CASE p \notin s.loaded
  <2>1. /\ FetchPage(s, p).disk = s.disk /\ FetchPage(s, p).next = s.next
        /\ FetchPage(s, p).loaded = s.loaded \cup {p}
        /\ FetchPage(s, p).cache = [s.cache EXCEPT ![p] = s.disk[p]]
        /\ FetchPage(s, p).dirty = s.dirty \ {p}
    BY <1>2, FetchPageEffect DEF StoreOK, FileOK
  <2>2. s.cache \in [PageIds -> Content] /\ s.dirty \subseteq PageIds
    BY DEF StoreOK, FileOK, StorageType
  <2>3. QED
    BY <1>2, <2>1, <2>2 DEF StoreSound, UnusedZero, DataPages
<1>3. QED
  BY <1>1, <1>2

\* A page that was allocated is written back.
LEMMA SoundAfterWrite ==
    ASSUME NEW s, StoreOK(s), StoreSound(s), NEW p \in PageIds, p \in 1 .. s.next - 1,
           NEW c \in Content
    PROVE  /\ StoreSound(WritePage(s, p, c))
           /\ WritePage(s, p, c).disk = [s.disk EXCEPT ![p] = c]
<1>1. /\ WritePage(s, p, c).disk = [s.disk EXCEPT ![p] = c]
      /\ WritePage(s, p, c).next = s.next
      /\ WritePage(s, p, c).loaded = s.loaded
      /\ p \in s.loaded => /\ WritePage(s, p, c).cache = [s.cache EXCEPT ![p] = c]
                           /\ WritePage(s, p, c).dirty = s.dirty \ {p}
      /\ p \notin s.loaded => /\ WritePage(s, p, c).cache = s.cache
                              /\ WritePage(s, p, c).dirty = s.dirty
  BY WritePageEffect DEF StoreOK, FileOK
<1>2. /\ s.cache \in [PageIds -> Content] /\ s.disk \in [PageIds -> Content]
      /\ s.dirty \subseteq PageIds /\ s.next \in Nat /\ PageIds \subseteq Nat
  BY DEF StoreOK, FileOK, StorageType, PageIds
<1>3. p # META_PAGE_ID /\ ~(p >= s.next)
  BY <1>2 DEF META_PAGE_ID
<1> DEFINE t == WritePage(s, p, c)
<1>4. /\ t.disk = [s.disk EXCEPT ![p] = c] /\ t.next = s.next /\ t.loaded = s.loaded
      /\ p \in s.loaded => t.cache = [s.cache EXCEPT ![p] = c] /\ t.dirty = s.dirty \ {p}
      /\ p \notin s.loaded => t.cache = s.cache /\ t.dirty = s.dirty
  BY <1>1
<1> HIDE DEF t
<1>5. t.disk[META_PAGE_ID] = s.disk[META_PAGE_ID]
  BY <1>2, <1>3, <1>4, MetaPageId
<1>6. \A q \in DataPages \cap t.loaded : q \notin t.dirty => t.cache[q] = t.disk[q]
  BY <1>2, <1>4 DEF StoreSound, DataPages
<1>7. \A q \in t.dirty : t.cache[q] = Fresh
  BY <1>2, <1>4 DEF StoreSound
<1>8. UnusedZero(t, t.next)
  BY <1>2, <1>3, <1>4 DEF StoreSound, UnusedZero, DataPages
<1>9. StoreSound(t)
  BY <1>4, <1>5, <1>6, <1>7, <1>8 DEF StoreSound
<1>10. QED
  BY <1>4, <1>9 DEF t

\* The storage shows a page it has just allocated initialised, whatever it held of it.
LEMMA AllocateShowsFresh ==
    ASSUME NEW s, StoreOK(s), s.next < MaxPages
    PROVE  ViewOf(AllocatePage(s), s.next) = Fresh
<1> DEFINE m == Meta(s.next + 1, s.cache[META_PAGE_ID].root)
           t == AllocatePage(s)
<1>1. /\ t.loaded = s.loaded \cup {s.next}
      /\ t.cache = [[s.cache EXCEPT ![s.next] = Fresh] EXCEPT ![META_PAGE_ID] = m]
  BY AllocatePageEffect DEF StoreOK, FileOK
<1> HIDE DEF m, t
<1>2. s.cache \in [PageIds -> Content] /\ s.next \in PageIds /\ s.next # META_PAGE_ID
  BY MaxPagesAssumption DEF StoreOK, FileOK, StorageType, PageIds, META_PAGE_ID
<1>3. QED
  BY <1>1, <1>2 DEF ViewOf, t

\* allocatePage changes, of what is in the file, the meta page only, and shows the new
\* page initialised.
LEMMA SoundAfterAllocate ==
    ASSUME NEW s, StoreOK(s), StoreSound(s)
    PROVE  /\ StoreSound(AllocatePage(s))
           /\ AllocatePage(s).next = s.next + 1
           /\ \A q \in DataPages : AllocatePage(s).disk[q] = s.disk[q]
           /\ \A q \in DataPages : q # s.next => ViewOf(AllocatePage(s), q) = ViewOf(s, q)
           /\ s.next < MaxPages => ViewOf(AllocatePage(s), s.next) = Fresh
<1>0. /\ AllocatePage(s).next = s.next + 1
      /\ \A q \in DataPages : q # s.next => ViewOf(AllocatePage(s), q) = ViewOf(s, q)
  BY ViewAfterAllocate DEF DataPages
<1>1. /\ s.cache \in [PageIds -> Content] /\ s.disk \in [PageIds -> Content]
      /\ s.dirty \subseteq PageIds /\ s.loaded \subseteq PageIds /\ s.next \in Nat \ {0}
      /\ PageIds \subseteq Nat /\ MaxPages \in Nat
  BY MaxPagesAssumption DEF StoreOK, FileOK, StorageType, PageIds
<1>2. CASE s.next < MaxPages
  <2> DEFINE m == Meta(s.next + 1, s.cache[META_PAGE_ID].root)
             t == AllocatePage(s)
  <2>1. /\ t.disk = [s.disk EXCEPT ![META_PAGE_ID] = m]
        /\ t.next = s.next + 1
        /\ t.loaded = s.loaded \cup {s.next}
        /\ t.cache = [[s.cache EXCEPT ![s.next] = Fresh] EXCEPT ![META_PAGE_ID] = m]
        /\ t.dirty = (s.dirty \cup {s.next}) \ {META_PAGE_ID}
    BY <1>2, AllocatePageEffect DEF StoreOK, FileOK
  <2>2. m.next = s.next + 1
    BY DEF Meta
  <2> HIDE DEF m, t
  <2>3. s.next \in PageIds /\ s.next # META_PAGE_ID
    BY <1>1, <1>2 DEF PageIds, META_PAGE_ID
  <2>4. t.disk[META_PAGE_ID].next = (IF t.next < MaxPages THEN t.next ELSE MaxPages)
    <3>1. t.disk[META_PAGE_ID] = m
      BY <1>1, <2>1, MetaPageId
    <3>2. QED
      BY <1>1, <1>2, <2>1, <2>2, <3>1
  <2>5. \A q \in t.loaded : q < t.next
    <3>1. \A n \in Nat : n <= s.next => n < t.next
      BY <1>1, <2>1
    <3>2. \A q \in s.loaded : q \in Nat /\ q < s.next
      BY <1>1 DEF StoreSound
    <3>3. \A q \in s.loaded : q < t.next
      BY <1>1, <3>1, <3>2
    <3>4. s.next < t.next
      BY <1>1, <3>1
    <3>5. QED
      BY <2>1, <3>3, <3>4
  <2>6. \A q \in DataPages : t.disk[q] = s.disk[q]
    BY <1>1, <2>1 DEF DataPages
  <2>7. \A q \in PageIds : q # s.next /\ q # META_PAGE_ID => t.cache[q] = s.cache[q]
    BY <1>1, <2>1
  <2>8. t.cache[s.next] = Fresh
    BY <1>1, <2>1, <2>3
  <2>9. \A q \in DataPages \cap t.loaded : q \notin t.dirty => t.cache[q] = t.disk[q]
    BY <2>1, <2>3, <2>6, <2>7 DEF StoreSound, DataPages
  <2>10. \A q \in t.dirty : t.cache[q] = Fresh
    BY <1>1, <2>1, <2>7, <2>8 DEF StoreSound
  <2>11. UnusedZero(t, t.next)
    BY <1>1, <2>1, <2>6 DEF StoreSound, UnusedZero, DataPages
  <2>12. StoreSound(t)
    BY <2>4, <2>5, <2>9, <2>10, <2>11 DEF StoreSound
  <2>13. ViewOf(t, s.next) = Fresh
    BY <1>2, AllocateShowsFresh DEF t
  <2>14. QED
    BY <1>0, <2>6, <2>12, <2>13 DEF t
<1>3. CASE ~(s.next < MaxPages)
  <2>1. /\ AllocatePage(s).disk = s.disk /\ AllocatePage(s).next = s.next + 1
        /\ AllocatePage(s).loaded = s.loaded /\ AllocatePage(s).cache = s.cache
        /\ AllocatePage(s).dirty = s.dirty
    BY <1>3, AllocatePageFails DEF StoreOK, FileOK
  <2>2. /\ ~(s.next + 1 < MaxPages)
        /\ \A q \in PageIds : (q < s.next => q < s.next + 1) /\ ~(q >= s.next + 1)
    BY <1>1, <1>3 DEF PageIds
  <2>3. \A q \in s.loaded : q < s.next + 1
    BY <1>1, <2>2 DEF StoreSound
  <2>4. StoreSound(AllocatePage(s))
    BY <1>3, <2>1, <2>2, <2>3 DEF StoreSound, UnusedZero, DataPages
  <2>5. QED
    BY <1>0, <1>3, <2>1, <2>4
<1>4. QED
  BY <1>2, <1>3

\* The destructor writes page p if it has to, and shows every page as before.
LEMMA SoundAfterClose ==
    ASSUME NEW s, StoreOK(s), StoreSound(s), NEW p \in Nat
    PROVE  /\ StoreSound(ClosePage(s, p))
           /\ ClosePage(s, p).loaded = s.loaded /\ ClosePage(s, p).cache = s.cache
           /\ ClosePage(s, p).next = s.next
           /\ \A q \in DataPages : q # p => ClosePage(s, p).disk[q] = s.disk[q]
           /\ p \in DataPages \cap s.loaded => ClosePage(s, p).disk[p] = s.cache[p]
           /\ p \in DataPages \ s.loaded => ClosePage(s, p).disk[p] = s.disk[p]
<1>1. CASE ~CloseWrites(s, p)
  BY <1>1 DEF ClosePage, CloseWrites, StoreSound
<1>2. CASE CloseWrites(s, p)
  <2> DEFINE t == ClosePage(s, p)
  <2>1. /\ p \in PageIds /\ p # META_PAGE_ID /\ s.cache[p] \in Content
        /\ p \in s.loaded /\ s \in StorageType
        /\ s.disk \in [PageIds -> Content]
    BY <1>2 DEF CloseWrites, StoreOK, FileOK, StorageType
  <2>2. /\ t.disk = [s.disk EXCEPT ![p] = s.cache[p]] /\ t.next = s.next
        /\ t.loaded = s.loaded /\ t.cache = s.cache /\ t.dirty = s.dirty
    BY <1>2, <2>1, DiskWriteEffect DEF ClosePage
  <2> HIDE DEF t
  <2>3. p < s.next /\ s.next \in Nat /\ PageIds \subseteq Nat
    BY <2>1 DEF StoreSound, StorageType, PageIds
  <2>4. t.disk[p] = s.cache[p] /\ \A q \in PageIds : q # p => t.disk[q] = s.disk[q]
    BY <2>1, <2>2
  <2>5. UnusedZero(t, t.next)
    BY <2>2, <2>3, <2>4 DEF StoreSound, UnusedZero, DataPages
  <2>6. StoreSound(t)
    BY <2>1, <2>2, <2>4, <2>5, MetaPageId DEF StoreSound, DataPages
  <2>7. QED
    BY <2>1, <2>2, <2>4, <2>6 DEF t, DataPages
<1>3. QED
  BY <1>1, <1>2

\* The constructor takes the counter from the file, and leaves the other pages there.
LEMMA SoundAfterOpen ==
    ASSUME NEW s, FileOK(s), FileSound(s)
    PROVE  /\ StoreSound(OpenStorage(s))
           /\ OpenStorage(s).loaded = {META_PAGE_ID}
           /\ \A q \in DataPages : OpenStorage(s).disk[q] = s.disk[q]
<1> DEFINE t == OpenStorage(s)
<1>1. s \in StorageType /\ ZeroTail(s) /\ MaxPages \in Nat \ {0}
  BY MaxPagesAssumption DEF FileOK
<1>2. CASE s.numPages > 0
  <2>1. /\ t.disk = s.disk /\ t.next = s.disk[META_PAGE_ID].next
        /\ t.loaded = {META_PAGE_ID} /\ t.dirty = {}
        /\ s.disk[META_PAGE_ID].next \in 1 .. MaxPages
    BY <1>2, OpenExistingEffect DEF FileOK
  <2> HIDE DEF t
  <2>2. t.disk[META_PAGE_ID].next = (IF t.next < MaxPages THEN t.next ELSE MaxPages)
    BY <1>1, <2>1
  <2>3. UnusedZero(t, t.next)
    BY <1>2, <2>1 DEF FileSound, UnusedZero
  <2>4. QED
    BY <2>1, <2>2, <2>3 DEF StoreSound, DataPages, META_PAGE_ID, t
<1>3. CASE s.numPages = 0
  <2>1. /\ t.disk = [s.disk EXCEPT ![META_PAGE_ID] = Meta(1, 0)] /\ t.next = 1
        /\ t.loaded = {META_PAGE_ID} /\ t.dirty = {} /\ Meta(1, 0).next = 1
    BY <1>1, <1>3, OpenNewEffect DEF Meta
  <2> HIDE DEF t
  <2>2. \A q \in DataPages : t.disk[q] = s.disk[q] /\ s.disk[q] = Zero
    BY <1>1, <1>3, <2>1 DEF ZeroTail, DataPages, StorageType, PageIds
  <2>3. t.disk[META_PAGE_ID].next = 1
    BY <1>1, <2>1, MetaPageId DEF StorageType
  <2>4. UnusedZero(t, t.next)
    BY <2>2 DEF UnusedZero
  <2>5. t.disk[META_PAGE_ID].next = (IF t.next < MaxPages THEN t.next ELSE MaxPages)
    BY <1>1, <2>1, <2>3
  <2>6. QED
    BY <2>1, <2>2, <2>4, <2>5 DEF StoreSound, DataPages, META_PAGE_ID, t
<1>4. QED
  BY <1>1, <1>2, <1>3 DEF StorageType

-----------------------------------------------------------------------------
(* The operations of the pool *)

\* What a reader is shown of a page by the pool over the storage state s.
ShownOver(s, q) == IF q \in Resident THEN FrameOf(q).page ELSE ViewOf(s, q)
Shown(q) == ShownOver(store, q)

\* The page q in the file is still what it was in s, or what a reader was shown of it.
KeptOrWritten(s, q) ==
    \/ store'.disk[q] = s.disk[q]
    \/ q \in Resident /\ store'.disk[q] = FrameOf(q).page

\* Nobody holds the victim of an eviction, so nobody has changes to it of his own.
LEMMA VictimSettled ==
    ASSUME PoolInv, PinInv, Evictable # {}
    PROVE  Settled(Victim)
<1>1. Victim \in Resident /\ FrameOf(Victim).pin = 0
  BY VictimIsLast
<1>2. IsFiniteSet(Holders(Victim)) /\ Cardinality(Holders(Victim)) = 0
  BY <1>1, HoldersFinite DEF PinInv
<1>3. Holders(Victim) = {}
  BY <1>2, FS_EmptySet
<1>4. QED
  BY <1>3 DEF Holders, Settled

\* After lru_evict the storage shows of the victim what its frame showed.
LEMMA EvictShows ==
    ASSUME PoolInv, PinInv, Evictable # {}, NEW s, StoreOK(s), StoreSound(s),
           CoherentOn(s, Resident)
    PROVE  /\ StoreSound(StoreAfterEvict(s))
           /\ ViewOf(StoreAfterEvict(s), Victim) = FrameOf(Victim).page
           /\ \A q \in PageIds : /\ q # Victim => ViewOf(StoreAfterEvict(s), q) = ViewOf(s, q)
                                 /\ \/ StoreAfterEvict(s).disk[q] = s.disk[q]
                                    \/ /\ q = Victim
                                       /\ StoreAfterEvict(s).disk[q] = FrameOf(q).page
<1>1. PICK v \in Resident : v = Victim
  BY VictimIsLast
<1>2. /\ v \in PageIds /\ v \in 1 .. s.next - 1 /\ FrameOf(v).page \in Content
      /\ Settled(v)
  BY <1>1, VictimSettled DEF CoherentOn, PoolInv, PoolType, FrameOf, FrameType
<1>3. CASE ~FrameOf(v).dirty
  <2>1. FrameOf(v).page = ViewOf(s, v)
    BY <1>2, <1>3 DEF CoherentOn
  <2>2. QED
    BY <1>1, <1>3, <2>1 DEF StoreAfterEvict
<1>4. CASE FrameOf(v).dirty
  <2>1. v # META_PAGE_ID
    BY <1>4 DEF PoolInv, MetaFrameInv
  <2>2. PICK c \in Content : c = FrameOf(v).page
    BY <1>2
  <2>3. StoreAfterEvict(s) = WritePage(s, v, c)
    BY <1>1, <1>4, <2>2 DEF StoreAfterEvict
  <2>4. \A q \in PageIds : ViewOf(WritePage(s, v, c), q) = IF q = v THEN c ELSE ViewOf(s, q)
    BY <1>2, <2>1, ViewAfterWrite
  <2>5. /\ StoreSound(WritePage(s, v, c))
        /\ WritePage(s, v, c).disk = [s.disk EXCEPT ![v] = c]
    BY <1>2, SoundAfterWrite
  <2>6. s.disk \in [PageIds -> Content]
    BY DEF StoreOK, FileOK, StorageType
  <2>7. QED
    BY <1>1, <1>2, <2>2, <2>3, <2>4, <2>5, <2>6
<1>5. QED
  BY <1>3, <1>4

\* A page is loaded over a storage state t: readers are shown of each page what the kept
\* frames and t show.
LEMMA LoadShows ==
    ASSUME PoolInv, NEW p \in PageIds, p \notin Resident,
           NEW kept \in SUBSET Resident, NEW f \in FrameIds,
           \A q \in kept : page_table[q] # f,
           \A g \in FrameIds : g # f /\ frames[g].occupied => frames[g].page_id \in kept,
           NEW t, StoreOK(t), StoreSound(t), p < t.next, LoadPageIntoFrame(t, f, p, kept)
    PROVE  /\ StoreSound(store') /\ store'.disk = t.disk
           /\ FrameOf(p)'.page = ViewOf(t, p) /\ p \in Resident'
           /\ \A q \in PageIds :
                  Shown(q)' = IF q \in kept THEN FrameOf(q).page ELSE ViewOf(t, q)
<1>1. /\ Resident' = kept \cup {p} /\ FrameOf(p)' = LoadedFrame(t, p)
      /\ \A q \in kept : FrameOf(q)' = FrameOf(q)
  BY FrameLoaded DEF PoolInv
<1>2. store' = FetchPage(t, p)
  BY DEF LoadPageIntoFrame
<1>3. StoreSound(store') /\ store'.disk = t.disk
  BY <1>2, SoundAfterFetch
<1>4. \A q \in PageIds : ViewOf(store', q) = ViewOf(t, q)
  BY <1>2, ViewAfterFetch
<1>5. LoadedFrame(t, p).page = ViewOf(t, p)
  BY DEF LoadedFrame
<1>6. ASSUME NEW q \in PageIds
      PROVE  Shown(q)' = IF q \in kept THEN FrameOf(q).page ELSE ViewOf(t, q)
  <2>1. Shown(q)' = IF q \in Resident' THEN FrameOf(q)'.page ELSE ViewOf(store', q)
    BY DEF Shown, ShownOver, Resident
  <2>2. QED
    BY <1>1, <1>4, <1>5, <2>1
<1>7. QED
  BY <1>1, <1>3, <1>5, <1>6

\* fetchPage, over the storage state newPage or nobody has changed: no page is shown
\* differently, and what it writes to the file was shown.
LEMMA TakePageShows ==
    ASSUME PoolInv, PinInv, NEW c, NEW p \in PageIds,
           NEW s, StoreOK(s), StoreSound(s), CoherentOn(s, Resident), p < s.next,
           TakePage(s, c, p)
    PROVE  /\ StoreSound(store')
           /\ \A q \in PageIds : Shown(q)' = ShownOver(s, q) /\ KeptOrWritten(s, q)
<1>1. CASE FetchHit(s, p)
  <2> DEFINE r == [FrameOf(p) EXCEPT !.pin = FrameOf(p).pin + 1]
  <2>1. p \in Resident /\ FrameOf(p) \in FrameType /\ store' = s
    BY <1>1 DEF FetchHit, PoolInv, PoolType, FrameOf
  <2>2. /\ r \in FrameType /\ r.occupied /\ r.page_id = p /\ r.page = FrameOf(p).page
    BY <2>1 DEF FrameType, PoolInv, PageTableMatchesFrames
  <2>3. frames' = [frames EXCEPT ![page_table[p]] = r] /\ page_table' = page_table
    BY <1>1 DEF FetchHit, FrameOf
  <2> HIDE DEF r
  <2>4. /\ Resident' = Resident /\ FrameOf(p)' = r
        /\ \A q \in Resident : q # p => FrameOf(q)' = FrameOf(q)
    BY <2>1, <2>2, <2>3, FrameChanges DEF PoolInv
  <2>5. \A q \in Resident : FrameOf(q)'.page = FrameOf(q).page
    BY <2>2, <2>4
  <2>6. \A q \in PageIds : Shown(q)' = ShownOver(s, q)
    BY <2>1, <2>4, <2>5 DEF Shown, ShownOver
  <2>7. QED
    BY <2>1, <2>6 DEF KeptOrWritten
<1>2. CASE FetchIntoFree(s, p)
  <2>1. PICK f \in FreeFrames : LoadPageIntoFrame(s, f, p, Resident)
    BY <1>2 DEF FetchIntoFree
  <2>2. p \notin Resident /\ f \in FrameIds /\ ~frames[f].occupied
    BY <1>2, <2>1 DEF FetchIntoFree, FreeFrames
  <2>3. \A q \in Resident : page_table[q] # f
    BY <2>2 DEF PoolInv, PageTableMatchesFrames, FrameOf
  <2>4. \A g \in FrameIds : g # f /\ frames[g].occupied => frames[g].page_id \in Resident
    BY DEF PoolInv, PageTableMatchesFrames
  <2>5. /\ StoreSound(store') /\ store'.disk = s.disk
        /\ \A q \in PageIds :
               Shown(q)' = IF q \in Resident THEN FrameOf(q).page ELSE ViewOf(s, q)
    BY <2>1, <2>2, <2>3, <2>4, LoadShows
  <2>6. QED
    BY <2>5 DEF ShownOver, KeptOrWritten
<1>3. CASE FetchIntoVictim(s, p)
  <2> DEFINE kept == Resident \ {Victim}
             f == page_table[Victim]
             t == StoreAfterEvict(s)
  <2>1. p \notin Resident /\ Evictable # {} /\ LoadPageIntoFrame(t, f, p, kept)
    BY <1>3 DEF FetchIntoVictim
  <2>2. Victim \in Resident
    BY <2>1, VictimIsLast
  <2>3. StoreOK(t) /\ t.next = s.next
    BY <2>1, EvictKeepsStore, CoherentAfterEvict
  <2>4. f \in FrameIds /\ kept \in SUBSET Resident
    BY <2>2 DEF PoolInv, PoolType
  <2>5. \A q \in kept : page_table[q] # f
    BY <2>2 DEF PoolInv, PageTableMatchesFrames, FrameOf
  <2>6. \A g \in FrameIds : g # f /\ frames[g].occupied => frames[g].page_id \in kept
    BY <2>2 DEF PoolInv, PageTableMatchesFrames
  <2>7. /\ StoreSound(t) /\ ViewOf(t, Victim) = FrameOf(Victim).page
        /\ \A q \in PageIds : /\ q # Victim => ViewOf(t, q) = ViewOf(s, q)
                              /\ \/ t.disk[q] = s.disk[q]
                                 \/ q = Victim /\ t.disk[q] = FrameOf(q).page
    BY <2>1, EvictShows
  <2>8. p < t.next
    BY <2>3
  <2> HIDE DEF f, t, kept
  <2>9. /\ StoreSound(store') /\ store'.disk = t.disk
        /\ \A q \in PageIds :
               Shown(q)' = IF q \in kept THEN FrameOf(q).page ELSE ViewOf(t, q)
    BY <2>1, <2>3, <2>4, <2>5, <2>6, <2>7, <2>8, LoadShows
  <2>10. \A q \in PageIds : Shown(q)' = ShownOver(s, q)
    BY <2>2, <2>7, <2>9 DEF ShownOver, kept
  <2>11. \A q \in PageIds : KeptOrWritten(s, q)
    BY <2>2, <2>7, <2>9 DEF KeptOrWritten
  <2>12. QED
    BY <2>9, <2>10, <2>11
<1>4. QED
  BY <1>1, <1>2, <1>3 DEF TakePage

\* A fetch that throws after the eviction.
LEMMA OutOfRangeShows ==
    ASSUME PoolInv, PinInv, StoreOK(store), StoreSound(store),
           CoherentOn(store, Resident), FetchOutOfRange
    PROVE  /\ StoreSound(store')
           /\ \A q \in PageIds : Shown(q)' = Shown(q) /\ KeptOrWritten(store, q)
<1> DEFINE kept == Resident \ {Victim}
           r == [frames[page_table[Victim]] EXCEPT !.occupied = FALSE, !.pin = 0,
                                                   !.dirty = FALSE]
           t == StoreAfterEvict(store)
<1>1. /\ Evictable # {} /\ store' = t
      /\ frames' = [frames EXCEPT ![page_table[Victim]] = r]
      /\ page_table' = [q \in kept |-> page_table[q]]
  BY DEF FetchOutOfRange
<1>2. Victim \in Resident /\ page_table[Victim] \in FrameIds
  BY <1>1, VictimIsLast DEF PoolInv, PoolType
<1> HIDE DEF r
<1>3. Resident' = kept /\ \A q \in kept : page_table'[q] = page_table[q]
  BY <1>1 DEF Resident
<1>4. \A q \in kept : page_table[q] # page_table[Victim] /\ page_table[q] \in FrameIds
  BY <1>2 DEF PoolInv, PoolType, PageTableMatchesFrames, FrameOf
<1>5. \A q \in kept : FrameOf(q)' = FrameOf(q)
  BY <1>1, <1>3, <1>4 DEF FrameOf, PoolInv, PoolType
<1>6. /\ StoreSound(t) /\ ViewOf(t, Victim) = FrameOf(Victim).page
      /\ \A q \in PageIds : /\ q # Victim => ViewOf(t, q) = ViewOf(store, q)
                            /\ \/ t.disk[q] = store.disk[q]
                               \/ q = Victim /\ t.disk[q] = FrameOf(q).page
  BY <1>1, EvictShows
<1> HIDE DEF t
<1>7. \A q \in PageIds : Shown(q)' = IF q \in kept THEN FrameOf(q)'.page ELSE ViewOf(t, q)
  BY <1>1, <1>3 DEF Shown, ShownOver
<1>8. \A q \in PageIds : Shown(q)' = Shown(q)
  BY <1>2, <1>5, <1>6, <1>7 DEF Shown, ShownOver
<1>9. \A q \in PageIds : KeptOrWritten(store, q)
  BY <1>1, <1>2, <1>6 DEF KeptOrWritten
<1>10. QED
  BY <1>1, <1>6, <1>8, <1>9

\* A frame is written back if it is dirty; it is clean then, and shows the same page.
LEMMA FlushFrameShows ==
    ASSUME PoolInv, StoreOK(store), StoreSound(store), CoherentOn(store, Resident),
           NEW f \in FrameIds, FlushFrame(f), page_table' = page_table
    PROVE  /\ StoreSound(store')
           /\ \A q \in PageIds : Shown(q)' = Shown(q) /\ KeptOrWritten(store, q)
           /\ \A g \in FrameIds : g # f => frames'[g] = frames[g]
           /\ ~(frames'[f].occupied /\ frames'[f].dirty)
<1>1. CASE ~(frames[f].occupied /\ frames[f].dirty)
  <2>1. store' = store /\ frames' = frames
    BY <1>1 DEF FlushFrame
  <2>2. QED
    BY <1>1, <2>1 DEF Shown, ShownOver, KeptOrWritten, Resident, FrameOf
<1>2. CASE frames[f].occupied /\ frames[f].dirty
  <2>1. PICK p \in Resident : p = frames[f].page_id /\ page_table[p] = f
    BY <1>2 DEF PoolInv, PageTableMatchesFrames
  <2>2. /\ p \in PageIds /\ p \in 1 .. store.next - 1 /\ p # META_PAGE_ID
        /\ frames[f] \in FrameType /\ frames[f].page \in Content
    BY <1>2, <2>1 DEF CoherentOn, PoolInv, PoolType, MetaFrameInv, FrameOf, FrameType
  <2>3. PICK x \in Content : x = frames[f].page
    BY <2>2
  <2> DEFINE r == [frames[f] EXCEPT !.dirty = FALSE]
  <2>4. store' = WritePage(store, p, x) /\ frames' = [frames EXCEPT ![f] = r]
    BY <1>2, <2>1, <2>3 DEF FlushFrame
  <2>5. r \in FrameType /\ r.page = x /\ ~r.dirty
    BY <2>2, <2>3 DEF FrameType
  <2> HIDE DEF r
  <2>6. frames'[f] = r /\ \A g \in FrameIds : g # f => frames'[g] = frames[g]
    BY <2>4 DEF PoolInv, PoolType
  <2>7. \A q \in Resident : FrameOf(q)'.page = FrameOf(q).page
    BY <2>3, <2>5, <2>6 DEF FrameOf, PoolInv, PoolType
  <2>8. \A q \in PageIds : ViewOf(store', q) = IF q = p THEN x ELSE ViewOf(store, q)
    BY <2>2, <2>4, ViewAfterWrite
  <2>9. StoreSound(store') /\ store'.disk = [store.disk EXCEPT ![p] = x]
    BY <2>2, <2>4, SoundAfterWrite
  <2>10. \A q \in PageIds : Shown(q)' = Shown(q)
    BY <2>1, <2>7, <2>8 DEF Shown, ShownOver, Resident
  <2>11. \A q \in PageIds : KeptOrWritten(store, q)
    BY <2>1, <2>3, <2>9 DEF KeptOrWritten, FrameOf, StoreOK, FileOK, StorageType
  <2>12. QED
    BY <2>5, <2>6, <2>9, <2>10, <2>11
<1>3. QED
  BY <1>1, <1>2

-----------------------------------------------------------------------------
(* The mapping *)

IsOpen == pc \notin {"down", "crashed"}

\* The abstract variables, in the words of the lemmas.
LEMMA MappedFile ==
    ASSUME NEW s, FileOK(s), NEW q \in DataPages
    PROVE  DiskRead(s, q) = s.disk[q]
BY DiskReadIsDisk DEF FileOK, DataPages

LEMMA MappedState ==
    ASSUME Inv
    PROVE  /\ StoreMode = (CASE pc = "down" -> "closed" [] pc = "crashed" -> "crashed"
                             [] OTHER -> "open")
           /\ \A q \in DataPages :
                  /\ DiskRead(store, q) = store.disk[q]
                  /\ CurrentPage(q) = IF IsOpen THEN Shown(q) ELSE store.disk[q]
<1>1. FileOK(store)
  BY DEF Inv, StoreInv, StoreOK
<1>2. \A q \in DataPages : DiskRead(store, q) = store.disk[q]
  BY <1>1, MappedFile
<1>3. QED
  BY <1>2 DEF StoreMode, CurrentPage, Shown, ShownOver, IsOpen

\* The same of the state after a step.
LEMMA MappedNext ==
    ASSUME Inv'
    PROVE  \A q \in DataPages :
               /\ DiskRead(store, q)' = store'.disk[q]
               /\ CurrentPage(q)' = IF IsOpen' THEN Shown(q)' ELSE store'.disk[q]
<1>1. FileOK(store')
  BY DEF Inv, StoreInv, StoreOK
<1>2. \A q \in DataPages : DiskRead(store', q) = store'.disk[q]
  BY <1>1, MappedFile
<1>3. QED
  BY <1>2 DEF StoreMode, CurrentPage, Shown, ShownOver, IsOpen, Resident

\* Each page in the file is the one before the step, or one readers were shown.
LEMMA WriteBackMaps ==
    ASSUME Inv, Inv', IsOpen,
           \A q \in DataPages : store'.disk[q] \in {store.disk[q], Shown(q)}
    PROVE  PS!WriteBack
<1> DEFINE P == {q \in DataPages : store'.disk[q] # store.disk[q]}
<1>1. P \in SUBSET DataPages
  OBVIOUS
<1>2. \A q \in DataPages :
          DiskRead(store, q)' = IF q \in P THEN CurrentPage(q) ELSE DiskRead(store, q)
  BY MappedState, MappedNext
<1>3. [q \in DataPages |-> DiskRead(store, q)]' =
      [q \in DataPages |-> IF q \in P THEN CurrentPage(q) ELSE DiskRead(store, q)]
  BY <1>2
<1> HIDE DEF P
<1>4. QED
  BY <1>1, <1>3 DEF PS!WriteBack

\* A step that writes back only, or nothing.
LEMMA QuietStepMaps ==
    ASSUME Inv, Inv', IsOpen, IsOpen',
           \A q \in DataPages : /\ Shown(q)' = Shown(q)
                                /\ store'.disk[q] \in {store.disk[q], Shown(q)}
    PROVE  PS!PSNext
<1>1. PS!WriteBack
  BY WriteBackMaps
<1>2. \A q \in DataPages : CurrentPage(q)' = CurrentPage(q)
  BY MappedState, MappedNext
<1>3. StoreMode = "open" /\ StoreMode' = "open"
  BY DEF StoreMode, IsOpen
<1>4. PS!PSWriteBack
  BY <1>1, <1>2, <1>3 DEF PS!PSWriteBack
<1>5. QED
  BY <1>4 DEF PS!PSNext

-----------------------------------------------------------------------------
(* The steps *)

\* What a step leaves behind: the invariant, and a step of PageStore.
StepOK == SoundInv' /\ LoopInv' /\ (PS!PSNext \/ UNCHANGED PS!psVars)

\* An open step that shows every page as before.
LEMMA QuietStepOK ==
    ASSUME MapInv, Inv', IsOpen, IsOpen', StoreSound(store'), LoopInv',
           \A q \in PageIds : Shown(q)' = Shown(q) /\ KeptOrWritten(store, q)
    PROVE  StepOK
<1>1. \A q \in DataPages : /\ Shown(q)' = Shown(q)
                           /\ store'.disk[q] \in {store.disk[q], Shown(q)}
  BY DEF KeptOrWritten, Shown, ShownOver, DataPages
<1>2. PS!PSNext
  BY <1>1, QuietStepMaps DEF MapInv
<1>3. SoundInv'
  BY DEF SoundInv, IsOpen
<1>4. QED
  BY <1>2, <1>3 DEF StepOK

LEMMA FetchOK ==
    ASSUME ~StrayFetch, MapInv, Inv', NEW c \in Clients, NEW p \in PageIds, Fetch(c, p)
    PROVE  StepOK
<1>1. pc = "run" /\ pc' = pc /\ TakePage(store, c, p)
  BY DEF Fetch, TakePage
<1>2. /\ PoolInv /\ PinInv /\ StoreOK(store) /\ StoreSound(store)
      /\ CoherentOn(store, Resident)
  BY <1>1 DEF MapInv, Inv, StoreInv, CoherenceInv, SoundInv
<1>3. p < store.next
  BY DEF Fetch, Fetchable
<1>4. /\ StoreSound(store')
      /\ \A q \in PageIds : Shown(q)' = ShownOver(store, q) /\ KeptOrWritten(store, q)
  BY <1>1, <1>2, <1>3, TakePageShows
<1>5. QED
  BY <1>1, <1>4, QuietStepOK DEF Shown, IsOpen, LoopInv

LEMMA FetchOutOfRangeOK ==
    ASSUME MapInv, Inv', FetchOutOfRange
    PROVE  StepOK
<1>1. pc = "run" /\ pc' = pc
  BY DEF FetchOutOfRange
<1>2. /\ PoolInv /\ PinInv /\ StoreOK(store) /\ StoreSound(store)
      /\ CoherentOn(store, Resident)
  BY <1>1 DEF MapInv, Inv, StoreInv, CoherenceInv, SoundInv
<1>3. QED
  BY <1>1, <1>2, OutOfRangeShows, QuietStepOK DEF IsOpen, LoopInv

\* A page is allocated: one nobody was shown anything in becomes initialised, and the
\* write-back of a victim may come with it.
LEMMA InitialiseMaps ==
    ASSUME MapInv, Inv', IsOpen, IsOpen', store.next < MaxPages,
           \A q \in DataPages : /\ q # store.next => Shown(q)' = Shown(q)
                                /\ q = store.next => Shown(q)' = Fresh
                                /\ store'.disk[q] \in {store.disk[q], Shown(q)}
    PROVE  PS!PSNext
<1>1. PICK p : p = store.next
  OBVIOUS
<1>2. StoreOK(store) /\ StoreSound(store)
  BY DEF MapInv, Inv, StoreInv, SoundInv, IsOpen
<1>3. p \in DataPages /\ p \in Nat
  BY <1>1, <1>2, MaxPagesAssumption
     DEF StoreOK, FileOK, StorageType, DataPages, PageIds, META_PAGE_ID
<1>4. p \notin Resident /\ p \notin store.loaded /\ store.disk[p] = Zero
  BY <1>1, <1>2, <1>3 DEF MapInv, CoherenceInv, CoherentOn, StoreSound, UnusedZero
<1>5. Shown(p) = Zero
  BY <1>2, <1>3, <1>4, ViewIsDisk DEF Shown, ShownOver, DataPages
<1>6. DiskRead(store, p) = Zero /\ CurrentPage(p) = Zero
  BY <1>3, <1>4, <1>5, MappedState DEF MapInv
<1>7. PS!WriteBack
  BY WriteBackMaps DEF MapInv
<1>8. \A q \in DataPages : CurrentPage(q)' = IF q = p THEN Fresh ELSE CurrentPage(q)
  BY <1>1, MappedState, MappedNext DEF MapInv
<1>9. [q \in DataPages |-> CurrentPage(q)]' =
      [[q \in DataPages |-> CurrentPage(q)] EXCEPT ![p] = Fresh]
  BY <1>8
<1>10. StoreMode = "open" /\ StoreMode' = "open"
  BY DEF StoreMode, IsOpen
<1>11. PS!PSInitialise(p)
  BY <1>3, <1>6, <1>7, <1>9, <1>10 DEF PS!PSInitialise
<1>12. QED
  BY <1>3, <1>11 DEF PS!PSNext

LEMMA NewPageOK ==
    ASSUME MapInv, Inv', NEW c \in Clients, NewPage(c)
    PROVE  StepOK
<1>1. /\ pc = "run" /\ pc' = pc /\ store.next < MaxPages
      /\ TakePage(AllocatePage(store), c, store.next)
  BY DEF NewPage, TakePage
<1>2. /\ PoolInv /\ PinInv /\ StoreOK(store) /\ StoreSound(store)
      /\ CoherentOn(store, Resident)
  BY <1>1 DEF MapInv, Inv, StoreInv, CoherenceInv, SoundInv
<1>3. PICK s : s = AllocatePage(store)
  OBVIOUS
<1>4. PICK p : p = store.next
  OBVIOUS
<1>5. p \in Nat \ {0} /\ p \in PageIds /\ p # META_PAGE_ID
  BY <1>1, <1>2, <1>4, MaxPagesAssumption
     DEF StoreOK, FileOK, StorageType, PageIds, META_PAGE_ID
<1>6. /\ StoreOK(s) /\ StoreSound(s) /\ s.next = p + 1
      /\ \A q \in DataPages : s.disk[q] = store.disk[q]
      /\ \A q \in DataPages : q # p => ViewOf(s, q) = ViewOf(store, q)
      /\ ViewOf(s, p) = Fresh
  BY <1>1, <1>2, <1>3, <1>4, AllocateKeepsStore, SoundAfterAllocate
<1>7. /\ p < s.next
      /\ \A q \in Resident : q \in DataPages /\ q # p /\ q \in 1 .. s.next - 1
  BY <1>2, <1>4, <1>5, <1>6
     DEF CoherentOn, PoolInv, PoolType, DataPages, META_PAGE_ID
<1>8. CoherentOn(s, Resident)
  BY <1>2, <1>6, <1>7 DEF CoherentOn
<1>9. /\ StoreSound(store')
      /\ \A q \in PageIds : Shown(q)' = ShownOver(s, q) /\ KeptOrWritten(s, q)
  <2>1. TakePage(s, c, p)
    BY <1>1, <1>3, <1>4
  <2>2. PoolInv /\ PinInv /\ p \in PageIds /\ StoreOK(s) /\ StoreSound(s) /\ p < s.next
    BY <1>2, <1>5, <1>6, <1>7
  <2>3. QED
    BY <1>8, <2>1, <2>2, TakePageShows
<1>10. ASSUME NEW q \in DataPages
       PROVE  /\ q # p => Shown(q)' = Shown(q)
              /\ q = p => Shown(q)' = Fresh
              /\ store'.disk[q] \in {store.disk[q], Shown(q)}
  BY <1>6, <1>7, <1>9 DEF Shown, ShownOver, KeptOrWritten, DataPages
<1>11. PS!PSNext
  BY <1>1, <1>4, <1>10, InitialiseMaps DEF IsOpen
<1>12. QED
  BY <1>1, <1>9, <1>11 DEF StepOK, SoundInv, LoopInv

\* The page is allocated in the storage alone, or the limit is reached.
LEMMA AllocateOK ==
    ASSUME MapInv, Inv', NewPageNull \/ Allocate
    PROVE  StepOK
<1>1. /\ pc = "run" /\ pc' = pc /\ frames' = frames /\ page_table' = page_table
      /\ store' = AllocatePage(store)
  BY DEF NewPageNull, Allocate, pool
<1>2. /\ StoreOK(store) /\ StoreSound(store) /\ CoherentOn(store, Resident)
      /\ PoolInv
  BY <1>1 DEF MapInv, Inv, StoreInv, CoherenceInv, SoundInv
<1>3. PICK p : p = store.next
  OBVIOUS
<1>4. /\ StoreSound(store')
      /\ \A q \in DataPages : store'.disk[q] = store.disk[q]
      /\ \A q \in DataPages : q # p => ViewOf(store', q) = ViewOf(store, q)
      /\ p < MaxPages => ViewOf(store', p) = Fresh
  BY <1>1, <1>2, <1>3, SoundAfterAllocate
<1>5. p \in Nat /\ p \notin Resident
  BY <1>2, <1>3 DEF StoreOK, FileOK, StorageType, CoherentOn
<1>6. \A q \in DataPages : /\ q # p => Shown(q)' = Shown(q)
                           /\ p < MaxPages /\ q = p => Shown(q)' = Fresh
  BY <1>1, <1>4, <1>5 DEF Shown, ShownOver, Resident, FrameOf
<1>7. CASE p < MaxPages
  <2>1. PS!PSNext
    BY <1>1, <1>3, <1>4, <1>6, <1>7, InitialiseMaps DEF IsOpen
  <2>2. QED
    BY <1>1, <1>4, <2>1 DEF StepOK, SoundInv, LoopInv
<1>8. CASE ~(p < MaxPages)
  <2>1. \A q \in DataPages : q # p
    BY <1>5, <1>8, MaxPagesAssumption DEF DataPages, PageIds
  <2>2. PS!PSNext
    BY <1>1, <1>4, <1>6, <2>1, QuietStepMaps DEF IsOpen, MapInv
  <2>3. QED
    BY <1>1, <1>4, <2>2 DEF StepOK, SoundInv, LoopInv
<1>9. QED
  BY <1>7, <1>8

\* A client writes the page it holds, in its frame.
LEMMA ModifyOK ==
    ASSUME MapInv, Inv', NEW c \in Clients, NEW d \in Data, Modify(c, d)
    PROVE  StepOK
<1>1. /\ pc = "run" /\ pc' = pc /\ store' = store /\ page_table' = page_table
      /\ held[c] # None /\ held[c] \in 1 .. store.next - 1
  BY DEF Modify
<1>2. PICK p \in Resident : p = held[c]
  BY <1>1 DEF MapInv, Inv, PinInv
<1>3. p \in DataPages /\ page_table[p] \in FrameIds
  BY <1>1, <1>2 DEF MapInv, Inv, PoolInv, PoolType, DataPages, META_PAGE_ID
<1> DEFINE r == [frames[page_table[p]] EXCEPT !.page = d, !.page_dirty = TRUE]
<1>4. frames' = [frames EXCEPT ![page_table[p]] = r]
  BY <1>2 DEF Modify
<1>5. r.page = d
  BY <1>3 DEF MapInv, Inv, PoolInv, PoolType, FrameType
<1> HIDE DEF r
<1>6. \A q \in Resident : q # p => page_table[q] # page_table[p]
  BY <1>2 DEF MapInv, Inv, PoolInv, PageTableMatchesFrames, FrameOf
<1>7. Resident' = Resident /\ FrameOf(p)'.page = d
      /\ \A q \in Resident : q # p => FrameOf(q)' = FrameOf(q)
  BY <1>1, <1>2, <1>3, <1>4, <1>5, <1>6
     DEF Resident, FrameOf, MapInv, Inv, PoolInv, PoolType
<1>8. \A q \in DataPages : Shown(q)' = IF q = p THEN d ELSE Shown(q)
  BY <1>1, <1>2, <1>7 DEF Shown, ShownOver
<1>9. IsOpen /\ IsOpen' /\ StoreMode = "open" /\ StoreMode' = "open"
  BY <1>1 DEF StoreMode, IsOpen
<1>10. PS!WriteBack
  BY <1>1, <1>9, WriteBackMaps DEF MapInv
<1>11. \A q \in DataPages : CurrentPage(q)' = IF q = p THEN d ELSE CurrentPage(q)
  BY <1>8, <1>9, MappedState, MappedNext DEF MapInv
<1>12. [q \in DataPages |-> CurrentPage(q)]' =
       [[q \in DataPages |-> CurrentPage(q)] EXCEPT ![p] = d]
  BY <1>11
<1>13. PS!PSWrite(p, d)
  BY <1>9, <1>10, <1>12 DEF PS!PSWrite
<1>14. PS!PSNext
  BY <1>3, <1>13 DEF PS!PSNext
<1>15. QED
  BY <1>1, <1>14 DEF StepOK, SoundInv, LoopInv, MapInv

\* unpinPage leaves the pages alone.
LEMMA UnpinOK ==
    ASSUME MapInv, Inv', NEW c \in Clients, NEW dirty \in BOOLEAN, Unpin(c, dirty)
    PROVE  StepOK
<1>1. /\ pc = "run" /\ pc' = pc /\ store' = store /\ page_table' = page_table
      /\ held[c] # None /\ UnpinPage(held[c], dirty)
  BY DEF Unpin
<1>2. PICK p \in Resident : p = held[c]
  BY <1>1 DEF MapInv, Inv, PinInv
<1> DEFINE r == [FrameOf(p) EXCEPT !.pin = FrameOf(p).pin - 1,
                                   !.dirty = FrameOf(p).dirty \/ dirty]
<1>3. page_table[p] \in FrameIds /\ FrameOf(p) \in FrameType
  BY DEF MapInv, Inv, PoolInv, PoolType, FrameOf
<1>4. frames' = frames \/ frames' = [frames EXCEPT ![page_table[p]] = r]
  BY <1>1, <1>2 DEF UnpinPage, FrameOf
<1>5. r.page = FrameOf(p).page
  BY <1>3 DEF FrameType
<1> HIDE DEF r
<1>6. \A f \in FrameIds : frames'[f].page = frames[f].page
  BY <1>3, <1>4, <1>5 DEF FrameOf, MapInv, Inv, PoolInv, PoolType
<1>7. \A q \in PageIds : Shown(q)' = Shown(q)
  BY <1>1, <1>6 DEF Shown, ShownOver, Resident, FrameOf, MapInv, Inv, PoolInv, PoolType
<1>8. StoreSound(store') /\ LoopInv' /\ IsOpen /\ IsOpen'
  BY <1>1 DEF MapInv, SoundInv, LoopInv, IsOpen
<1>9. QED
  BY <1>1, <1>7, <1>8, QuietStepOK DEF KeptOrWritten

LEMMA FlushPageOK ==
    ASSUME MapInv, Inv', NEW p \in PageIds, FlushPageCall(p)
    PROVE  StepOK
<1>1. /\ pc = "run" /\ pc' = pc /\ page_table' = page_table /\ p \in Resident
      /\ FlushFrame(page_table[p])
  BY DEF FlushPageCall
<1>2. PICK f \in FrameIds : f = page_table[p]
  BY <1>1 DEF MapInv, Inv, PoolInv, PoolType
<1>3. /\ PoolInv /\ StoreOK(store) /\ StoreSound(store) /\ CoherentOn(store, Resident)
  BY <1>1 DEF MapInv, Inv, StoreInv, CoherenceInv, SoundInv
<1>4. /\ StoreSound(store')
      /\ \A q \in PageIds : Shown(q)' = Shown(q) /\ KeptOrWritten(store, q)
  BY <1>1, <1>2, <1>3, FlushFrameShows
<1>5. QED
  BY <1>1, <1>4, QuietStepOK DEF IsOpen, LoopInv

\* One frame of the loop of flushAll, or of the destructor's.
LEMMA FlushStepOK ==
    ASSUME MapInv, Inv', FlushStep
    PROVE  StepOK
<1>1. /\ pc \in {"flushAll", "closePool"} /\ pc' = pc /\ page_table' = page_table
      /\ i < PoolSize /\ i' = i + 1 /\ FlushFrame(i)
  BY DEF FlushStep
<1>2. i \in Nat /\ i \in FrameIds
  BY <1>1, PoolSizeAssumption DEF MapInv, Inv, ControlType, FrameIds
<1>3. PICK f \in FrameIds : f = i
  BY <1>2
<1>4. /\ PoolInv /\ StoreOK(store) /\ StoreSound(store) /\ CoherentOn(store, Resident)
  BY <1>1 DEF MapInv, Inv, StoreInv, CoherenceInv, SoundInv
<1>5. /\ StoreSound(store')
      /\ \A q \in PageIds : Shown(q)' = Shown(q) /\ KeptOrWritten(store, q)
      /\ \A g \in FrameIds : g # f => frames'[g] = frames[g]
      /\ ~(frames'[f].occupied /\ frames'[f].dirty)
  BY <1>1, <1>3, <1>4, FlushFrameShows
<1>6. \A g \in FrameIds : g < i' /\ g # f => g < i
  BY <1>1, <1>2, <1>3 DEF FrameIds
<1>7. LoopInv'
  BY <1>1, <1>5, <1>6 DEF MapInv, LoopInv
<1>8. QED
  BY <1>1, <1>5, <1>7, QuietStepOK DEF IsOpen

\* A loop begins, or flushAll returns.
LEMMA LoopEndsOK ==
    ASSUME MapInv, Inv', FlushAll \/ Close \/ EndFlushAll
    PROVE  StepOK
<1>1. /\ pc \in {"run", "flushAll"} /\ pc' \in {"run", "flushAll", "closePool"}
      /\ store' = store /\ frames' = frames /\ page_table' = page_table /\ i' = 0
  BY DEF FlushAll, Close, EndFlushAll, BeginLoop, pool
<1>2. \A f \in FrameIds : ~(f < 0)
  BY DEF FrameIds
<1>3. LoopInv' /\ StoreSound(store') /\ IsOpen /\ IsOpen'
  BY <1>1, <1>2 DEF MapInv, SoundInv, LoopInv, IsOpen
<1>4. \A q \in PageIds : Shown(q)' = Shown(q) /\ KeptOrWritten(store, q)
  BY <1>1 DEF Shown, ShownOver, KeptOrWritten, Resident, FrameOf
<1>5. QED
  BY <1>3, <1>4, QuietStepOK

\* When every frame was seen, no frame is dirty: what is settled is in the storage.
LEMMA AllFramesClean ==
    ASSUME MapInv, pc \in {"flushAll", "closePool"}, i >= PoolSize
    PROVE  \A q \in Resident : /\ ~FrameOf(q).dirty
                               /\ Settled(q) => FrameOf(q).page = ViewOf(store, q)
<1>1. \A f \in FrameIds : f < i
  BY PoolSizeAssumption DEF FrameIds, MapInv, Inv, ControlType
<1>2. \A q \in Resident : page_table[q] \in FrameIds /\ FrameOf(q).occupied
  BY DEF MapInv, Inv, PoolInv, PoolType, PageTableMatchesFrames
<1>3. \A q \in Resident : ~FrameOf(q).dirty
  BY <1>1, <1>2 DEF MapInv, LoopInv, FrameOf
<1>4. QED
  BY <1>3 DEF MapInv, CoherenceInv, CoherentOn

\* The pool is dropped when all its frames are clean and nobody holds a page.
LEMMA EndClosePoolOK ==
    ASSUME MapInv, Inv', EndClosePool
    PROVE  StepOK
<1>1. /\ pc = "closePool" /\ pc' = "closeStore" /\ i >= PoolSize /\ i' = 0
      /\ store' = store /\ EmptyPool
  BY DEF EndClosePool, BeginLoop
<1>2. \A q \in Resident : FrameOf(q).page = ViewOf(store, q)
  <2>1. \A q \in Resident : Settled(q)
    <3>1. \A c \in Clients : held[c] = None
      BY <1>1 DEF MapInv, Inv, NobodyInv
    <3>2. \A q \in Resident : q # None
      BY NoneAssumption DEF MapInv, Inv, PoolInv, PoolType
    <3>3. QED
      BY <3>1, <3>2 DEF Settled
  <2>2. QED
    BY <1>1, <2>1, AllFramesClean
<1>3. Resident' = {}
  BY <1>1, EmptyPoolKeeps
<1>4. \A q \in PageIds : Shown(q)' = Shown(q) /\ KeptOrWritten(store, q)
  BY <1>1, <1>2, <1>3 DEF Shown, ShownOver, KeptOrWritten
<1>5. \A q \in DataPages : ~(q < 0)
  BY DEF DataPages, PageIds
<1>6. LoopInv' /\ StoreSound(store') /\ IsOpen /\ IsOpen'
  BY <1>1, <1>5 DEF MapInv, SoundInv, LoopInv, IsOpen
<1>7. QED
  BY <1>4, <1>6, QuietStepOK

\* One page of the destructor of the storage.
LEMMA CloseStoreStepOK ==
    ASSUME MapInv, Inv', CloseStoreStep
    PROVE  StepOK
<1>1. /\ pc = "closeStore" /\ pc' = pc /\ i' = i + 1 /\ store' = ClosePage(store, i)
      /\ frames' = frames /\ page_table' = page_table
  BY DEF CloseStoreStep, pool
<1>2. /\ StoreOK(store) /\ StoreSound(store) /\ Resident = {} /\ i \in Nat
  BY <1>1 DEF MapInv, Inv, StoreInv, SoundInv, CoherenceInv, ControlType
<1>3. PICK p \in Nat : p = i
  BY <1>2
<1>4. /\ StoreSound(store')
      /\ store'.loaded = store.loaded /\ store'.cache = store.cache
      /\ \A q \in DataPages : q # p => store'.disk[q] = store.disk[q]
      /\ p \in DataPages \cap store.loaded => store'.disk[p] = store.cache[p]
      /\ p \in DataPages \ store.loaded => store'.disk[p] = store.disk[p]
  BY <1>1, <1>2, <1>3, SoundAfterClose
<1>5. /\ StoreOK(store')
      /\ \A q \in DataPages : q \in PageIds
  BY <1>1 DEF Inv, StoreInv, DataPages
<1>6. \A q \in DataPages :
          /\ ViewOf(store, q) = IF q \in store.loaded THEN store.cache[q] ELSE store.disk[q]
          /\ ViewOf(store', q) =
                 IF q \in store'.loaded THEN store'.cache[q] ELSE store'.disk[q]
  BY <1>2, <1>5, ViewIsDisk
<1>7. \A q \in DataPages : Shown(q)' = ViewOf(store', q) /\ Shown(q) = ViewOf(store, q)
  BY <1>1, <1>2 DEF Shown, ShownOver, Resident
<1>8. \A q \in DataPages : /\ Shown(q)' = Shown(q)
                           /\ store'.disk[q] \in {store.disk[q], Shown(q)}
  BY <1>4, <1>6, <1>7
<1>9. \A q \in DataPages : q < i' /\ q # p => q < i
  BY <1>1, <1>2, <1>3 DEF DataPages, PageIds
<1>10. LoopInv'
  BY <1>1, <1>4, <1>9 DEF MapInv, LoopInv
<1>11. PS!PSNext
  BY <1>1, <1>8, QuietStepMaps DEF IsOpen, MapInv
<1>12. QED
  BY <1>1, <1>4, <1>10, <1>11 DEF StepOK, SoundInv

\* The end of the process, orderly or not: readers find the file.
LEMMA FileSoundLeft ==
    ASSUME NEW s, StoreOK(s), StoreSound(s)
    PROVE  FileSound(LoseMemory(s)) /\ LoseMemory(s).disk = s.disk
<1>1. LoseMemory(s).disk = s.disk /\ LoseMemory(s).numPages = s.numPages
  BY LoseMemoryEffect DEF StoreOK, FileOK
<1>2. \A q \in DataPages : q >= s.disk[META_PAGE_ID].next => q >= s.next
  BY MaxPagesAssumption DEF StoreSound, StoreOK, FileOK, StorageType, DataPages, PageIds
<1>3. QED
  BY <1>1, <1>2 DEF FileSound, StoreSound, UnusedZero

LEMMA EndCloseStoreOK ==
    ASSUME MapInv, Inv', EndCloseStore
    PROVE  StepOK
<1>1. /\ pc = "closeStore" /\ pc' = "down" /\ i >= store.next /\ i' = 0
      /\ store' = LoseMemory(store)
  BY DEF EndCloseStore, BeginLoop
<1>2. StoreOK(store) /\ StoreSound(store) /\ Resident = {}
  BY <1>1 DEF MapInv, Inv, StoreInv, SoundInv, CoherenceInv
<1>3. FileSound(store') /\ store'.disk = store.disk
  BY <1>1, <1>2, FileSoundLeft
<1>4. \A q \in DataPages \cap store.loaded : q < i
  <2>1. store.next \in Nat /\ i \in Nat /\ DataPages \subseteq Nat
    BY <1>2 DEF StoreOK, FileOK, StorageType, MapInv, Inv, ControlType, DataPages, PageIds
  <2>2. \A n \in Nat : n < store.next => n < i
    BY <1>1, <2>1
  <2>3. QED
    BY <1>2, <2>1, <2>2 DEF StoreSound
<1>5. \A q \in DataPages : Shown(q) = store.disk[q]
  BY <1>1, <1>2, <1>4, ViewIsDisk DEF MapInv, LoopInv, Shown, ShownOver, DataPages
<1>6. \A q \in DataPages : /\ CurrentPage(q) = store.disk[q]
                           /\ DiskRead(store, q) = store.disk[q]
                           /\ CurrentPage(q)' = store.disk[q]
                           /\ DiskRead(store, q)' = store.disk[q]
  BY <1>1, <1>3, <1>5, MappedState, MappedNext DEF MapInv, IsOpen
<1>7. StoreMode = "open" /\ StoreMode' = "closed"
  BY <1>1 DEF StoreMode
<1>8. PS!PSClose
  BY <1>6, <1>7 DEF PS!PSClose
<1>9. PS!PSNext
  BY <1>8 DEF PS!PSNext
<1>10. QED
  BY <1>1, <1>3, <1>9 DEF StepOK, SoundInv, LoopInv

LEMMA CrashOK ==
    ASSUME MapInv, Inv', Crash
    PROVE  StepOK
<1>1. IsOpen /\ pc' = "crashed" /\ store' = LoseMemory(store)
  BY DEF Crash, IsOpen
<1>2. StoreOK(store) /\ StoreSound(store)
  BY <1>1 DEF MapInv, Inv, StoreInv, SoundInv, IsOpen
<1>3. FileSound(store') /\ store'.disk = store.disk
  BY <1>1, <1>2, FileSoundLeft
<1>4. \A q \in DataPages : /\ DiskRead(store, q) = store.disk[q]
                           /\ CurrentPage(q)' = store.disk[q]
                           /\ DiskRead(store, q)' = store.disk[q]
  BY <1>1, <1>3, MappedState, MappedNext DEF MapInv, IsOpen
<1>5. StoreMode = "open" /\ StoreMode' = "crashed"
  BY <1>1 DEF StoreMode, IsOpen
<1>6. PS!PSCrash
  BY <1>4, <1>5 DEF PS!PSCrash
<1>7. PS!PSNext
  BY <1>6 DEF PS!PSNext
<1>8. QED
  BY <1>1, <1>3, <1>7 DEF StepOK, SoundInv, LoopInv

\* The constructor shows what the file holds.
LEMMA OpenOK ==
    ASSUME MapInv, Inv', Open
    PROVE  StepOK
<1>1. /\ pc \in {"down", "crashed"} /\ pc' = "run" /\ store' = OpenStorage(store)
      /\ page_table' = page_table
  BY DEF Open, pool
<1>2. FileOK(store) /\ FileSound(store) /\ Resident' = {}
  BY <1>1 DEF MapInv, Inv, StoreInv, SoundInv, CoherenceInv, Resident
<1>3. /\ StoreSound(store') /\ store'.loaded = {META_PAGE_ID}
      /\ \A q \in DataPages : store'.disk[q] = store.disk[q]
  BY <1>1, <1>2, SoundAfterOpen
<1>4. StoreOK(store')
  BY <1>1 DEF Inv, StoreInv
<1>5. \A q \in DataPages : Shown(q)' = store.disk[q]
  <2>1. \A q \in DataPages : ViewOf(store', q) = store'.disk[q]
    BY <1>3, <1>4, ViewIsDisk DEF DataPages
  <2>2. QED
    BY <1>2, <1>3, <2>1 DEF Shown, ShownOver
<1>6. \A q \in DataPages : /\ CurrentPage(q)' = CurrentPage(q)
                           /\ DiskRead(store, q)' = DiskRead(store, q)
  BY <1>1, <1>3, <1>5, MappedState, MappedNext DEF MapInv, IsOpen
<1>7. StoreMode \in {"closed", "crashed"} /\ StoreMode' = "open"
  BY <1>1 DEF StoreMode
<1>8. PS!PSOpen
  BY <1>6, <1>7 DEF PS!PSOpen
<1>9. PS!PSNext
  BY <1>8 DEF PS!PSNext
<1>10. QED
  BY <1>1, <1>3, <1>9 DEF StepOK, SoundInv, LoopInv

LEMMA MapNext ==
    ~StrayFetch /\ MapInv /\ [Next]_vars => MapInv' /\ (PS!PSNext \/ UNCHANGED PS!psVars)
<1> SUFFICES ASSUME ~StrayFetch, MapInv, [Next]_vars
             PROVE  MapInv' /\ (PS!PSNext \/ UNCHANGED PS!psVars)
  OBVIOUS
<1>1. Inv' /\ CoherenceInv'
  BY NextInv, CoherenceNext DEF MapInv
<1>2. StepOK
  <2>1. CASE UNCHANGED vars
    <3>1. store' = store /\ pc' = pc /\ i' = i /\ frames' = frames
          /\ page_table' = page_table
      BY <2>1 DEF vars
    <3>2. SoundInv' /\ LoopInv'
      BY <3>1 DEF MapInv, SoundInv, LoopInv
    <3>3. UNCHANGED PS!psVars
      BY <3>1 DEF PS!psVars, StoreMode, CurrentPage, Resident, FrameOf
    <3>4. QED
      BY <3>2, <3>3 DEF StepOK
  <2>2. ASSUME NEW c \in Clients, NEW p \in PageIds, Fetch(c, p) PROVE StepOK
    BY <1>1, <2>2, FetchOK
  <2>3. CASE FetchOutOfRange
    BY <1>1, <2>3, FetchOutOfRangeOK
  <2>4. ASSUME NEW c \in Clients, NewPage(c) PROVE StepOK
    BY <1>1, <2>4, NewPageOK
  <2>5. CASE NewPageNull \/ Allocate
    BY <1>1, <2>5, AllocateOK
  <2>6. ASSUME NEW c \in Clients, NEW d \in Data, Modify(c, d) PROVE StepOK
    BY <1>1, <2>6, ModifyOK
  <2>7. ASSUME NEW c \in Clients, NEW dirty \in BOOLEAN, Unpin(c, dirty) PROVE StepOK
    BY <1>1, <2>7, UnpinOK
  <2>8. ASSUME NEW p \in PageIds, FlushPageCall(p) PROVE StepOK
    BY <1>1, <2>8, FlushPageOK
  <2>9. CASE FlushStep
    BY <1>1, <2>9, FlushStepOK
  <2>10. CASE FlushAll \/ Close \/ EndFlushAll
    BY <1>1, <2>10, LoopEndsOK
  <2>11. CASE EndClosePool
    BY <1>1, <2>11, EndClosePoolOK
  <2>12. CASE CloseStoreStep
    BY <1>1, <2>12, CloseStoreStepOK
  <2>13. CASE EndCloseStore
    BY <1>1, <2>13, EndCloseStoreOK
  <2>14. CASE Crash
    BY <1>1, <2>14, CrashOK
  <2>15. CASE Open
    BY <1>1, <2>15, OpenOK
  <2>16. QED
    BY <2>1, <2>2, <2>3, <2>4, <2>5, <2>6, <2>7, <2>8, <2>9, <2>10, <2>11, <2>12, <2>13,
       <2>14, <2>15 DEF Next
<1>3. QED
  BY <1>1, <1>2 DEF StepOK, MapInv

LEMMA MapInit == Init => MapInv /\ PS!PSInit
<1> SUFFICES ASSUME Init PROVE MapInv /\ PS!PSInit
  OBVIOUS
<1>1. pc = "down" /\ store = EmptyStorage
  BY DEF Init
<1>2. store.numPages = 0 /\ \A q \in PageIds : store.disk[q] = Zero
  BY <1>1 DEF EmptyStorage
<1>3. Inv /\ CoherenceInv
  BY InitInv, CoherenceInit
<1>4. SoundInv /\ LoopInv
  BY <1>1, <1>2 DEF SoundInv, FileSound, LoopInv
<1>5. \A q \in DataPages : CurrentPage(q) = Zero /\ DiskRead(store, q) = Zero
  BY <1>1, <1>2, <1>3, MappedState DEF IsOpen, DataPages
<1>6. StoreMode = "closed"
  BY <1>1 DEF StoreMode
<1>7. QED
  BY <1>3, <1>4, <1>5, <1>6 DEF MapInv, PS!PSInit

-----------------------------------------------------------------------------
(* The theorems *)

\* When clients ask for allocated pages only, the pool and the storage are a page store:
\* every step of fetchPage, newPage, unpinPage, flushPage, flushAll, the destructors, a crash
\* or a restart is a step of PageStore, so readers see one content per page, an orderly close
\* loses nothing and a crash only what was not written back.
THEOREM Refinement ==
    ASSUME ~StrayFetch
    PROVE  Spec => ImplementsPageStore
<1>1. Init => MapInv /\ PS!PSInit
  BY MapInit
<1>2. MapInv /\ [Next]_vars => MapInv' /\ [PS!PSNext]_(PS!psVars)
  BY MapNext
<1>3. QED
  BY <1>1, <1>2, PTL DEF Spec, ImplementsPageStore, PS!PSSpec

\* When flushAll returns, each change whose unpin said dirty is in the file: the frames are
\* clean, and what the storage below still marks dirty no client has written.
THEOREM FlushAllCorrect ==
    ASSUME ~StrayFetch
    PROVE  Spec => FlushAllIsDurable
<1>1. Init => MapInv
  BY MapInit
<1>2. MapInv /\ [Next]_vars => MapInv'
  BY MapNext
<1>3. ASSUME MapInv, EndFlushAll, NEW p \in Resident, Settled(p), FrameOf(p).page \in Data
      PROVE  store.disk[p] = FrameOf(p).page
  <2>1. pc = "flushAll" /\ i >= PoolSize
    BY <1>3 DEF EndFlushAll, BeginLoop
  <2>2. StoreOK(store) /\ StoreSound(store) /\ p \in DataPages /\ p \in PageIds
    BY <1>3, <2>1 DEF MapInv, Inv, StoreInv, SoundInv, CoherenceInv, CoherentOn, PoolInv,
                      PoolType, DataPages, META_PAGE_ID
  <2>3. FrameOf(p).page = ViewOf(store, p)
    BY <1>3, <2>1, AllFramesClean
  <2>4. FrameOf(p).page # Fresh
    BY <1>3, FreshAssumption
  <2>5. CASE p \in store.loaded
    BY <2>2, <2>3, <2>4, <2>5, ViewIsDisk DEF StoreSound
  <2>6. CASE p \notin store.loaded
    BY <2>2, <2>3, <2>6, ViewIsDisk
  <2>7. QED
    BY <2>5, <2>6
<1>4. MapInv /\ [Next]_vars =>
          [EndFlushAll => \A p \in Resident :
               Settled(p) /\ FrameOf(p).page \in Data => store.disk[p] = FrameOf(p).page]_vars
  BY <1>3
<1>5. QED
  BY <1>1, <1>2, <1>4, PTL DEF Spec, FlushAllIsDurable

\* A page loaded over a storage state t is shown as t shows it, in the frame the page table
\* names; so is one that newPage has just allocated, initialised.
LEMMA LoadedAsShown ==
    ASSUME NEW p, NEW kept, NEW f \in FrameIds, NEW t, LoadPageIntoFrame(t, f, p, kept),
           frames \in [FrameIds -> FrameType]
    PROVE  frames'[page_table'[p]].page = ViewOf(t, p)
<1> DEFINE r == LoadedFrame(t, p)
<1>1. r.page = ViewOf(t, p)
  BY DEF LoadedFrame
<1> HIDE DEF r
<1>2. frames' = [frames EXCEPT ![f] = r]
  BY DEF LoadPageIntoFrame, r
<1>3. page_table'[p] = f
  BY DEF LoadPageIntoFrame
<1>4. QED
  BY <1>1, <1>2, <1>3

\* newPage hands out an initialised page unless the pool has it already, also when clients
\* have read its id before it was allocated.
THEOREM NewPageCorrect == Spec => NewPageIsInitialised
<1>1. ASSUME Inv, NEW c \in Clients, NewPage(c), held'[c] \notin Resident
      PROVE  frames'[page_table'[held'[c]]].page = Fresh
  <2>1. PICK s : s = AllocatePage(store)
    OBVIOUS
  <2>2. PICK p : p = store.next
    OBVIOUS
  <2>3. /\ pc = "run" /\ p < MaxPages /\ TakePage(s, c, p)
        /\ held' = [held EXCEPT ![c] = p]
    BY <1>1, <2>1, <2>2 DEF NewPage, TakePage
  <2>4. held'[c] = p /\ p \notin Resident
    BY <1>1, <2>3 DEF Inv, ClientType
  <2>5. StoreOK(store) /\ PoolInv /\ frames \in [FrameIds -> FrameType]
    BY <1>1, <2>3 DEF Inv, StoreInv, PoolInv, PoolType
  <2>6. p \in PageIds
    BY <2>2, <2>3, <2>5, MaxPagesAssumption DEF StoreOK, FileOK, StorageType, PageIds
  <2>7. StoreOK(s) /\ ViewOf(s, p) = Fresh
    BY <2>1, <2>2, <2>3, <2>5, AllocateKeepsStore, AllocateShowsFresh
  <2>8. CASE FetchIntoFree(s, p)
    <3>1. PICK f \in FrameIds : LoadPageIntoFrame(s, f, p, Resident)
      BY <2>8 DEF FetchIntoFree, FreeFrames
    <3>2. QED
      BY <2>4, <2>5, <2>7, <3>1, LoadedAsShown
  <2>9. CASE FetchIntoVictim(s, p)
    <3>1. PICK v \in Resident : v = Victim
      BY <2>5, <2>9, VictimIsLast DEF FetchIntoVictim
    <3>2. /\ v \in PageIds /\ v # p /\ page_table[v] \in FrameIds
          /\ FrameOf(v).page \in Content
      BY <2>4, <2>5 DEF PoolInv, PoolType, FrameOf, FrameType
    <3>3. ViewOf(StoreAfterEvict(s), p) = Fresh
      <4>1. CASE ~FrameOf(v).dirty
        BY <2>7, <3>1, <4>1 DEF StoreAfterEvict
      <4>2. CASE FrameOf(v).dirty
        <5>1. v # META_PAGE_ID
          BY <2>5, <4>2 DEF PoolInv, MetaFrameInv
        <5>2. PICK x \in Content : x = FrameOf(v).page
          BY <3>2
        <5>3. StoreAfterEvict(s) = WritePage(s, v, x)
          BY <3>1, <4>2, <5>2 DEF StoreAfterEvict
        <5>4. QED
          BY <2>6, <2>7, <3>2, <5>1, <5>3, ViewAfterWrite
      <4>3. QED
        BY <4>1, <4>2
    <3>4. LoadPageIntoFrame(StoreAfterEvict(s), page_table[v], p, Resident \ {v})
      BY <2>9, <3>1 DEF FetchIntoVictim
    <3>5. QED
      BY <2>4, <2>5, <3>2, <3>3, <3>4, LoadedAsShown
  <2>10. ~FetchHit(s, p)
    BY <2>4 DEF FetchHit
  <2>11. QED
    BY <2>3, <2>8, <2>9, <2>10 DEF TakePage
<1>2. Inv /\ [Next]_vars =>
          [\A c \in Clients : NewPage(c) /\ held'[c] \notin Resident =>
               frames'[page_table'[held'[c]]].page = Fresh]_vars
  BY <1>1
<1>3. QED
  BY <1>2, Invariance, PTL DEF Spec, NewPageIsInitialised
=============================================================================
