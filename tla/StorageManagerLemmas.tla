------------------------ MODULE StorageManagerLemmas ------------------------
(***************************************************************************)
(* What each operator of StorageManager does to the fields of a storage    *)
(* state, and that it yields a storage state.  The proofs about the state  *)
(* machines cite these lemmas instead of the definitions.                  *)
(***************************************************************************)
EXTENDS StorageManager, TLAPS

\* The first page is a page of the file.
LEMMA MetaPageId == META_PAGE_ID \in PageIds /\ META_PAGE_ID = 0
BY MaxPagesAssumption DEF PageIds, META_PAGE_ID

\* The file is zero beyond its length: read() past the end gives what the gap a later
\* write leaves would hold.
ZeroTail(s) == \A q \in PageIds : q >= s.numPages => s.disk[q] = Zero

\* Then the length of the file does not matter to a read.
LEMMA DiskReadIsDisk ==
    ASSUME NEW s \in StorageType, ZeroTail(s), NEW p \in PageIds
    PROVE  DiskRead(s, p) = s.disk[p]
BY DEF DiskRead, ZeroTail, StorageType, PageIds

\* A write changes one page of the file and may lengthen it.
LEMMA DiskWriteEffect ==
    ASSUME NEW s \in StorageType, NEW p \in PageIds, NEW c \in Content
    PROVE  /\ DiskWrite(s, p, c) \in StorageType
           /\ DiskWrite(s, p, c).disk = [s.disk EXCEPT ![p] = c]
           /\ DiskWrite(s, p, c).numPages = (IF p >= s.numPages THEN p + 1 ELSE s.numPages)
           /\ DiskWrite(s, p, c).next = s.next
           /\ DiskWrite(s, p, c).loaded = s.loaded
           /\ DiskWrite(s, p, c).cache = s.cache
           /\ DiskWrite(s, p, c).dirty = s.dirty
           /\ ZeroTail(s) => ZeroTail(DiskWrite(s, p, c))
<1> DEFINE d == [s.disk EXCEPT ![p] = c]
           n == IF p >= s.numPages THEN p + 1 ELSE s.numPages
<1>1. DiskWrite(s, p, c) = [s EXCEPT !.disk = d, !.numPages = n]
  BY DEF DiskWrite
<1>2. d \in [PageIds -> Content]
  BY DEF StorageType
<1>3. n \in 0 .. MaxPages
  BY MaxPagesAssumption DEF StorageType, PageIds
<1> HIDE DEF d, n
<1>4. /\ DiskWrite(s, p, c) \in StorageType
      /\ DiskWrite(s, p, c).disk = d /\ DiskWrite(s, p, c).numPages = n
      /\ DiskWrite(s, p, c).next = s.next /\ DiskWrite(s, p, c).loaded = s.loaded
      /\ DiskWrite(s, p, c).cache = s.cache /\ DiskWrite(s, p, c).dirty = s.dirty
  BY <1>1, <1>2, <1>3 DEF StorageType
<1>5. ASSUME ZeroTail(s), NEW q \in PageIds, q >= n
      PROVE  d[q] = Zero
  <2>1. s.numPages \in Nat /\ s.disk \in [PageIds -> Content]
    BY DEF StorageType
  <2>2. q >= s.numPages /\ q # p
    BY <1>5, <2>1 DEF n, PageIds
  <2>3. QED
    BY <1>5, <2>1, <2>2 DEF ZeroTail, d
<1>6. ZeroTail(s) => ZeroTail(DiskWrite(s, p, c))
  BY <1>4, <1>5 DEF ZeroTail
<1>7. QED
  BY <1>4, <1>6 DEF d, n

\* A read gives a content.
LEMMA DiskReadContent ==
    ASSUME NEW s \in StorageType, NEW p \in PageIds
    PROVE  DiskRead(s, p) \in Content
<1>1. s.disk[p] \in Content
  BY DEF StorageType
<1>2. Zero \in Content
  BY DEF Content
<1>3. QED
  BY <1>1, <1>2 DEF DiskRead

\* The empty storage is a storage state.
LEMMA EmptyStorageType == EmptyStorage \in StorageType
<1>1. [p \in PageIds |-> Zero] \in [PageIds -> Content]
  BY DEF Content
<1>2. 0 \in 0 .. MaxPages /\ 1 \in Nat \ {0}
  BY MaxPagesAssumption
<1>3. QED
  BY <1>1, <1>2 DEF EmptyStorage, StorageType

\* The end of the process leaves the file as it is and nothing in memory.
LEMMA LoseMemoryEffect ==
    ASSUME NEW s \in StorageType
    PROVE  /\ LoseMemory(s) \in StorageType
           /\ LoseMemory(s).disk = s.disk
           /\ LoseMemory(s).numPages = s.numPages
           /\ LoseMemory(s).next = 1
           /\ LoseMemory(s).loaded = {}
           /\ LoseMemory(s).dirty = {}
<1> DEFINE z == [p \in PageIds |-> Zero]
<1>1. z \in [PageIds -> Content]
  BY DEF Content
<1>2. LoseMemory(s) = [s EXCEPT !.next = 1, !.loaded = {}, !.dirty = {}, !.cache = z]
  BY DEF LoseMemory
<1>3. 1 \in Nat \ {0} /\ {} \in SUBSET PageIds
  OBVIOUS
<1> HIDE DEF z
<1>4. QED
  BY <1>1, <1>2, <1>3 DEF StorageType

\* The meta page is changed in memory and in the file at once.
LEMMA PutMetaEffect ==
    ASSUME NEW s \in StorageType, NEW m \in Metas,
           NEW t, t = PutMeta(s, m)
    PROVE  /\ t \in StorageType
           /\ t.disk = [s.disk EXCEPT ![META_PAGE_ID] = m]
           /\ t.numPages = (IF s.numPages = 0 THEN 1 ELSE s.numPages)
           /\ t.next = s.next
           /\ t.loaded = s.loaded
           /\ t.cache = [s.cache EXCEPT ![META_PAGE_ID] = m]
           /\ t.dirty = s.dirty \ {META_PAGE_ID}
           /\ ZeroTail(s) => ZeroTail(t)
<1> DEFINE c == [s.cache EXCEPT ![META_PAGE_ID] = m]
           e == s.dirty \ {META_PAGE_ID}
           u == [s EXCEPT !.cache = c, !.dirty = e]
<1>1. m \in Content
  BY DEF Content
<1>2. c \in [PageIds -> Content] /\ e \in SUBSET PageIds
  BY <1>1 DEF StorageType
<1>3. t = DiskWrite(u, META_PAGE_ID, m)
  BY DEF PutMeta
<1> HIDE DEF c, e
<1>4. /\ u \in StorageType
      /\ u.disk = s.disk /\ u.numPages = s.numPages /\ u.next = s.next
      /\ u.loaded = s.loaded /\ u.cache = c /\ u.dirty = e
  BY <1>2 DEF StorageType
<1> HIDE DEF u
<1>5. /\ s.numPages \in Nat
      /\ META_PAGE_ID >= s.numPages <=> s.numPages = 0
      /\ META_PAGE_ID + 1 = 1
  BY MaxPagesAssumption, MetaPageId DEF StorageType
<1>6. ZeroTail(s) => ZeroTail(u)
  BY <1>4 DEF ZeroTail
<1>7. QED
  BY <1>1, <1>3, <1>4, <1>5, <1>6, MetaPageId, DiskWriteEffect DEF c, e

\* saveMeta writes the counter and keeps the root.
LEMMA SaveMetaEffect ==
    ASSUME NEW s \in StorageType, s.cache[META_PAGE_ID] \in Metas,
           NEW m, m = Meta(s.next, s.cache[META_PAGE_ID].root)
    PROVE  /\ m \in Metas
           /\ SaveMeta(s) \in StorageType
           /\ SaveMeta(s).disk = [s.disk EXCEPT ![META_PAGE_ID] = m]
           /\ SaveMeta(s).numPages = (IF s.numPages = 0 THEN 1 ELSE s.numPages)
           /\ SaveMeta(s).next = s.next
           /\ SaveMeta(s).loaded = s.loaded
           /\ SaveMeta(s).cache = [s.cache EXCEPT ![META_PAGE_ID] = m]
           /\ SaveMeta(s).dirty = s.dirty \ {META_PAGE_ID}
           /\ ZeroTail(s) => ZeroTail(SaveMeta(s))
<1>1. m \in Metas
  BY DEF StorageType, Meta, Metas
<1>2. SaveMeta(s) = PutMeta(s, m)
  BY DEF SaveMeta
<1>3. QED
  BY <1>1, <1>2, PutMetaEffect

\* setRootPageId writes the root and keeps the counter of the meta page in memory.
LEMMA SetRootPageIdEffect ==
    ASSUME NEW s \in StorageType, s.cache[META_PAGE_ID] \in Metas, NEW root \in Nat,
           NEW m, m = Meta(s.cache[META_PAGE_ID].next, root)
    PROVE  /\ m \in Metas
           /\ SetRootPageId(s, root) \in StorageType
           /\ SetRootPageId(s, root).disk = [s.disk EXCEPT ![META_PAGE_ID] = m]
           /\ SetRootPageId(s, root).numPages = (IF s.numPages = 0 THEN 1 ELSE s.numPages)
           /\ SetRootPageId(s, root).next = s.next
           /\ SetRootPageId(s, root).loaded = s.loaded
           /\ SetRootPageId(s, root).cache = [s.cache EXCEPT ![META_PAGE_ID] = m]
           /\ SetRootPageId(s, root).dirty = s.dirty \ {META_PAGE_ID}
           /\ ZeroTail(s) => ZeroTail(SetRootPageId(s, root))
<1>1. m \in Metas
  BY DEF Meta, Metas
<1>2. m = [s.cache[META_PAGE_ID] EXCEPT !.root = root]
  BY DEF Meta, Metas
<1>3. SetRootPageId(s, root) = PutMeta(s, m)
  BY <1>2 DEF SetRootPageId
<1>4. QED
  BY <1>1, <1>3, PutMetaEffect

\* fetchPage of a page that is not in memory reads it from the file.
LEMMA FetchPageEffect ==
    ASSUME NEW s \in StorageType, ZeroTail(s), NEW p \in PageIds, p \notin s.loaded
    PROVE  /\ FetchPage(s, p) \in StorageType
           /\ ZeroTail(FetchPage(s, p))
           /\ FetchPage(s, p).disk = s.disk
           /\ FetchPage(s, p).numPages = s.numPages
           /\ FetchPage(s, p).next = s.next
           /\ FetchPage(s, p).loaded = s.loaded \cup {p}
           /\ FetchPage(s, p).cache = [s.cache EXCEPT ![p] = s.disk[p]]
           /\ FetchPage(s, p).dirty = s.dirty \ {p}
<1> DEFINE c == [s.cache EXCEPT ![p] = s.disk[p]]
           d == s.dirty \ {p}
           l == s.loaded \cup {p}
<1>1. DiskRead(s, p) = s.disk[p]
  BY DiskReadIsDisk
<1>2. FetchPage(s, p) = [s EXCEPT !.cache = c, !.dirty = d, !.loaded = l]
  BY <1>1 DEF FetchPage
<1>3. c \in [PageIds -> Content] /\ d \in SUBSET PageIds /\ l \in SUBSET PageIds
  BY DEF StorageType
<1> HIDE DEF c, d, l
<1>4. /\ FetchPage(s, p) \in StorageType
      /\ FetchPage(s, p).disk = s.disk /\ FetchPage(s, p).numPages = s.numPages
      /\ FetchPage(s, p).next = s.next /\ FetchPage(s, p).loaded = l
      /\ FetchPage(s, p).cache = c /\ FetchPage(s, p).dirty = d
  BY <1>2, <1>3 DEF StorageType
<1>5. QED
  BY <1>4 DEF c, d, l, ZeroTail

\* A page that is changed in place becomes dirty; nothing else changes.
LEMMA ModifyPageEffect ==
    ASSUME NEW s \in StorageType, NEW p \in PageIds, NEW x \in Content,
           NEW t, t = ModifyPage(s, p, x)
    PROVE  /\ t \in StorageType
           /\ ZeroTail(s) => ZeroTail(t)
           /\ t.disk = s.disk /\ t.numPages = s.numPages
           /\ t.next = s.next /\ t.loaded = s.loaded
           /\ t.cache = [s.cache EXCEPT ![p] = x]
           /\ t.dirty = s.dirty \cup {p}
<1> DEFINE c == [s.cache EXCEPT ![p] = x]
           d == s.dirty \cup {p}
<1>1. c \in [PageIds -> Content] /\ d \in SUBSET PageIds
  BY DEF StorageType
<1>2. t = [s EXCEPT !.cache = c, !.dirty = d]
  BY DEF ModifyPage
<1> HIDE DEF c, d
<1>3. /\ t \in StorageType
      /\ t.disk = s.disk /\ t.numPages = s.numPages
      /\ t.next = s.next /\ t.loaded = s.loaded
      /\ t.cache = c /\ t.dirty = d
  BY <1>1, <1>2 DEF StorageType
<1>4. QED
  BY <1>3 DEF c, d, ZeroTail

\* flushPage writes a dirty page and clears the mark.
LEMMA FlushPageEffect ==
    ASSUME NEW s \in StorageType, ZeroTail(s), NEW p \in PageIds, p \in s.dirty
    PROVE  /\ FlushPage(s, p) \in StorageType
           /\ ZeroTail(FlushPage(s, p))
           /\ FlushPage(s, p).disk = [s.disk EXCEPT ![p] = s.cache[p]]
           /\ FlushPage(s, p).numPages = (IF p >= s.numPages THEN p + 1 ELSE s.numPages)
           /\ FlushPage(s, p).next = s.next
           /\ FlushPage(s, p).loaded = s.loaded
           /\ FlushPage(s, p).cache = s.cache
           /\ FlushPage(s, p).dirty = s.dirty \ {p}
<1> DEFINE w == DiskWrite(s, p, s.cache[p])
           d == s.dirty \ {p}
<1>1. s.cache[p] \in Content
  BY DEF StorageType
<1>2. /\ w \in StorageType /\ ZeroTail(w)
      /\ w.disk = [s.disk EXCEPT ![p] = s.cache[p]]
      /\ w.numPages = (IF p >= s.numPages THEN p + 1 ELSE s.numPages)
      /\ w.next = s.next /\ w.loaded = s.loaded /\ w.cache = s.cache /\ w.dirty = s.dirty
  BY <1>1, DiskWriteEffect
<1> HIDE DEF w
<1>3. FlushPage(s, p) = [w EXCEPT !.dirty = d]
  BY <1>2 DEF FlushPage, w
<1>4. d \in SUBSET PageIds
  BY DEF StorageType
<1> HIDE DEF d
<1>5. /\ FlushPage(s, p) \in StorageType
      /\ FlushPage(s, p).disk = w.disk /\ FlushPage(s, p).numPages = w.numPages
      /\ FlushPage(s, p).next = w.next /\ FlushPage(s, p).loaded = w.loaded
      /\ FlushPage(s, p).cache = w.cache /\ FlushPage(s, p).dirty = d
  BY <1>2, <1>3, <1>4 DEF StorageType
<1>6. ZeroTail(FlushPage(s, p))
  BY <1>2, <1>5 DEF ZeroTail
<1>7. QED
  BY <1>2, <1>5, <1>6 DEF d

\* writePage writes the file, and a copy in memory follows it.
LEMMA WritePageEffect ==
    ASSUME NEW s \in StorageType, ZeroTail(s), NEW p \in PageIds, NEW c \in Content
    PROVE  /\ WritePage(s, p, c) \in StorageType
           /\ ZeroTail(WritePage(s, p, c))
           /\ WritePage(s, p, c).disk = [s.disk EXCEPT ![p] = c]
           /\ WritePage(s, p, c).numPages = (IF p >= s.numPages THEN p + 1 ELSE s.numPages)
           /\ WritePage(s, p, c).next = s.next
           /\ WritePage(s, p, c).loaded = s.loaded
           /\ p \in s.loaded => /\ WritePage(s, p, c).cache = [s.cache EXCEPT ![p] = c]
                                /\ WritePage(s, p, c).dirty = s.dirty \ {p}
           /\ p \notin s.loaded => /\ WritePage(s, p, c).cache = s.cache
                                   /\ WritePage(s, p, c).dirty = s.dirty
<1> DEFINE w == DiskWrite(s, p, c)
           h == [s.cache EXCEPT ![p] = c]
           d == s.dirty \ {p}
<1>1. /\ w \in StorageType /\ ZeroTail(w)
      /\ w.disk = [s.disk EXCEPT ![p] = c]
      /\ w.numPages = (IF p >= s.numPages THEN p + 1 ELSE s.numPages)
      /\ w.next = s.next /\ w.loaded = s.loaded /\ w.cache = s.cache /\ w.dirty = s.dirty
  BY DiskWriteEffect
<1> HIDE DEF w
<1>2. CASE p \notin s.loaded
  BY <1>1, <1>2 DEF WritePage, w
<1>3. CASE p \in s.loaded
  <2>1. WritePage(s, p, c) = [w EXCEPT !.cache = h, !.dirty = d]
    BY <1>1, <1>3 DEF WritePage, w
  <2>2. h \in [PageIds -> Content] /\ d \in SUBSET PageIds
    BY DEF StorageType
  <2> HIDE DEF h, d
  <2>3. /\ WritePage(s, p, c) \in StorageType
        /\ WritePage(s, p, c).disk = w.disk /\ WritePage(s, p, c).numPages = w.numPages
        /\ WritePage(s, p, c).next = w.next /\ WritePage(s, p, c).loaded = w.loaded
        /\ WritePage(s, p, c).cache = h /\ WritePage(s, p, c).dirty = d
    BY <1>1, <2>1, <2>2 DEF StorageType
  <2>4. ZeroTail(WritePage(s, p, c))
    BY <1>1, <2>3 DEF ZeroTail
  <2>5. QED
    BY <1>1, <1>3, <2>3, <2>4 DEF h, d
<1>4. QED
  BY <1>2, <1>3

\* allocatePage below the limit: the new page is in memory, dirty and initialised, and
\* the counter has moved in memory, in the meta page and in the file.
LEMMA AllocatePageEffect ==
    ASSUME NEW s \in StorageType, ZeroTail(s), s.cache[META_PAGE_ID] \in Metas,
           s.next < MaxPages,
           NEW m, m = Meta(s.next + 1, s.cache[META_PAGE_ID].root)
    PROVE  /\ m \in Metas
           /\ AllocatePage(s) \in StorageType
           /\ ZeroTail(AllocatePage(s))
           /\ AllocatePage(s).disk = [s.disk EXCEPT ![META_PAGE_ID] = m]
           /\ AllocatePage(s).numPages = (IF s.numPages = 0 THEN 1 ELSE s.numPages)
           /\ AllocatePage(s).next = s.next + 1
           /\ AllocatePage(s).loaded = s.loaded \cup {s.next}
           /\ AllocatePage(s).cache = [[s.cache EXCEPT ![s.next] = Fresh]
                                           EXCEPT ![META_PAGE_ID] = m]
           /\ AllocatePage(s).dirty = (s.dirty \cup {s.next}) \ {META_PAGE_ID}
<1> DEFINE n == s.next + 1
           c == [s.cache EXCEPT ![s.next] = Fresh]
           l == s.loaded \cup {s.next}
           d == s.dirty \cup {s.next}
           v == [s EXCEPT !.next = n, !.cache = c, !.loaded = l, !.dirty = d]
<1>1. s.next \in Nat \ {0}
  BY DEF StorageType
<1>2. s.next \in PageIds /\ s.next # META_PAGE_ID /\ n \in Nat \ {0} /\ ~(s.next >= MaxPages)
  BY <1>1, MaxPagesAssumption DEF PageIds, META_PAGE_ID
<1>3. /\ c \in [PageIds -> Content] /\ l \in SUBSET PageIds /\ d \in SUBSET PageIds
      /\ c[META_PAGE_ID] = s.cache[META_PAGE_ID]
  BY <1>2, MetaPageId DEF StorageType, Content
<1>4. AllocatePage(s) = SaveMeta(v)
  BY <1>2 DEF AllocatePage
<1> HIDE DEF n, c, l, d
<1>5. /\ v \in StorageType
      /\ v.disk = s.disk /\ v.numPages = s.numPages /\ v.next = n
      /\ v.loaded = l /\ v.cache = c /\ v.dirty = d
  BY <1>2, <1>3 DEF StorageType
<1> HIDE DEF v
<1>6. ZeroTail(v)
  BY <1>5 DEF ZeroTail
<1>7. v.cache[META_PAGE_ID] \in Metas /\ m = Meta(v.next, v.cache[META_PAGE_ID].root)
  BY <1>3, <1>5 DEF n
<1>8. /\ m \in Metas /\ SaveMeta(v) \in StorageType /\ ZeroTail(SaveMeta(v))
      /\ SaveMeta(v).disk = [v.disk EXCEPT ![META_PAGE_ID] = m]
      /\ SaveMeta(v).numPages = (IF v.numPages = 0 THEN 1 ELSE v.numPages)
      /\ SaveMeta(v).next = v.next /\ SaveMeta(v).loaded = v.loaded
      /\ SaveMeta(v).cache = [v.cache EXCEPT ![META_PAGE_ID] = m]
      /\ SaveMeta(v).dirty = v.dirty \ {META_PAGE_ID}
  BY <1>5, <1>6, <1>7, SaveMetaEffect
<1>9. QED
  BY <1>4, <1>5, <1>8 DEF n, c, l, d

\* allocatePage at the limit moves the counter in memory and nothing else.
LEMMA AllocatePageFails ==
    ASSUME NEW s \in StorageType, ZeroTail(s), ~(s.next < MaxPages)
    PROVE  /\ AllocatePage(s) \in StorageType
           /\ ZeroTail(AllocatePage(s))
           /\ AllocatePage(s).disk = s.disk
           /\ AllocatePage(s).numPages = s.numPages
           /\ AllocatePage(s).next = s.next + 1
           /\ AllocatePage(s).loaded = s.loaded
           /\ AllocatePage(s).cache = s.cache
           /\ AllocatePage(s).dirty = s.dirty
<1> DEFINE n == s.next + 1
<1>1. s.next \in Nat \ {0}
  BY DEF StorageType
<1>2. n \in Nat \ {0} /\ s.next >= MaxPages
  BY <1>1, MaxPagesAssumption
<1>3. AllocatePage(s) = [s EXCEPT !.next = n]
  BY <1>2 DEF AllocatePage
<1> HIDE DEF n
<1>4. /\ AllocatePage(s) \in StorageType
      /\ AllocatePage(s).disk = s.disk /\ AllocatePage(s).numPages = s.numPages
      /\ AllocatePage(s).next = n /\ AllocatePage(s).loaded = s.loaded
      /\ AllocatePage(s).cache = s.cache /\ AllocatePage(s).dirty = s.dirty
  BY <1>2, <1>3 DEF StorageType
<1>5. QED
  BY <1>4 DEF n, ZeroTail

\* The constructor on an existing file takes the counter and the root from it.
LEMMA OpenExistingEffect ==
    ASSUME NEW s \in StorageType, ZeroTail(s), s.numPages > 0,
           s.disk[META_PAGE_ID] \in Metas, s.disk[META_PAGE_ID].next \in 1 .. MaxPages
    PROVE  /\ OpenStorage(s) \in StorageType
           /\ ZeroTail(OpenStorage(s))
           /\ OpenStorage(s).disk = s.disk
           /\ OpenStorage(s).numPages = s.numPages
           /\ OpenStorage(s).next = s.disk[META_PAGE_ID].next
           /\ OpenStorage(s).loaded = {META_PAGE_ID}
           /\ OpenStorage(s).cache[META_PAGE_ID] = s.disk[META_PAGE_ID]
           /\ OpenStorage(s).dirty = {}
<1> DEFINE r == LoseMemory(s)
           m == s.disk[META_PAGE_ID]
           c == [r.cache EXCEPT ![META_PAGE_ID] = m]
           l == r.loaded \cup {META_PAGE_ID}
           d == r.dirty \ {META_PAGE_ID}
           n == m.next
<1>1. OpenStorage(s) = LoadMeta(r)
  BY DEF OpenStorage, LoseMemory
<1>2. /\ r \in StorageType /\ r.disk = s.disk /\ r.numPages = s.numPages
      /\ r.loaded = {} /\ r.dirty = {}
  BY LoseMemoryEffect
<1> HIDE DEF r
<1>3. ZeroTail(r)
  BY <1>2 DEF ZeroTail
<1>4. AsMeta(DiskRead(r, META_PAGE_ID)) = m
  BY <1>2, <1>3, DiskReadIsDisk, MetaPageId DEF AsMeta
<1>5. n \in Nat \ {0} /\ ~(n = 0 \/ n > MaxPages)
  BY MaxPagesAssumption
<1>6. LoadMeta(r) = [r EXCEPT !.cache = c, !.loaded = l, !.dirty = d, !.next = n]
  BY <1>4, <1>5 DEF LoadMeta
<1>7. /\ c \in [PageIds -> Content] /\ l \in SUBSET PageIds /\ d \in SUBSET PageIds
  BY <1>2, MetaPageId DEF StorageType, Content
<1>8. c[META_PAGE_ID] = m /\ l = {META_PAGE_ID} /\ d = {}
  BY <1>2, MetaPageId DEF StorageType
<1> HIDE DEF c, l, d, m, n
<1>9. /\ LoadMeta(r) \in StorageType
      /\ LoadMeta(r).disk = r.disk /\ LoadMeta(r).numPages = r.numPages
      /\ LoadMeta(r).next = n /\ LoadMeta(r).loaded = l
      /\ LoadMeta(r).cache = c /\ LoadMeta(r).dirty = d
  <2>1. r \in StorageType
    BY <1>2
  <2>2. n \in Nat \ {0}
    BY <1>5
  <2>3. QED
    BY <2>1, <2>2, <1>6, <1>7 DEF StorageType
<1>10. QED
  BY <1>1, <1>2, <1>8, <1>9 DEF m, n, ZeroTail

\* The constructor on a new file writes a first meta page.
LEMMA OpenNewEffect ==
    ASSUME NEW s \in StorageType, ZeroTail(s), s.numPages = 0
    PROVE  /\ Meta(1, 0) \in Metas
           /\ OpenStorage(s) \in StorageType
           /\ ZeroTail(OpenStorage(s))
           /\ OpenStorage(s).disk = [s.disk EXCEPT ![META_PAGE_ID] = Meta(1, 0)]
           /\ OpenStorage(s).numPages = 1
           /\ OpenStorage(s).next = 1
           /\ OpenStorage(s).loaded = {META_PAGE_ID}
           /\ OpenStorage(s).cache[META_PAGE_ID] = Meta(1, 0)
           /\ OpenStorage(s).dirty = {}
<1> DEFINE r == LoseMemory(s)
           c == [r.cache EXCEPT ![META_PAGE_ID] = Meta(0, 0)]
           l == {META_PAGE_ID}
           v == [r EXCEPT !.cache = c, !.loaded = l]
<1>1. OpenStorage(s) = SaveMeta(v)
  BY DEF OpenStorage, LoseMemory
<1>2. /\ r \in StorageType /\ r.disk = s.disk /\ r.numPages = s.numPages
      /\ r.next = 1 /\ r.dirty = {}
  BY LoseMemoryEffect
<1> HIDE DEF r
<1>3. Meta(0, 0) \in Metas /\ Meta(0, 0).root = 0 /\ Meta(1, 0) \in Metas
  BY DEF Meta, Metas
<1>4. /\ c \in [PageIds -> Content] /\ l \in SUBSET PageIds
      /\ c[META_PAGE_ID] = Meta(0, 0)
  BY <1>2, <1>3, MetaPageId DEF StorageType, Content
<1> HIDE DEF c, l
<1>5. /\ v \in StorageType
      /\ v.disk = r.disk /\ v.numPages = r.numPages /\ v.next = r.next
      /\ v.loaded = l /\ v.cache = c /\ v.dirty = r.dirty
  BY <1>2, <1>4 DEF StorageType
<1> HIDE DEF v
<1>6. ZeroTail(v)
  BY <1>2, <1>5 DEF ZeroTail
<1>7. v.cache[META_PAGE_ID] \in Metas /\ Meta(1, 0) = Meta(v.next, v.cache[META_PAGE_ID].root)
  BY <1>2, <1>3, <1>4, <1>5
<1>8. /\ SaveMeta(v) \in StorageType /\ ZeroTail(SaveMeta(v))
      /\ SaveMeta(v).disk = [v.disk EXCEPT ![META_PAGE_ID] = Meta(1, 0)]
      /\ SaveMeta(v).numPages = (IF v.numPages = 0 THEN 1 ELSE v.numPages)
      /\ SaveMeta(v).next = v.next /\ SaveMeta(v).loaded = v.loaded
      /\ SaveMeta(v).cache = [v.cache EXCEPT ![META_PAGE_ID] = Meta(1, 0)]
      /\ SaveMeta(v).dirty = v.dirty \ {META_PAGE_ID}
  BY <1>5, <1>6, <1>7, SaveMetaEffect
<1>9. SaveMeta(v).cache[META_PAGE_ID] = Meta(1, 0)
  BY <1>5, <1>8, MetaPageId DEF StorageType
<1>10. QED
  BY <1>1, <1>2, <1>3, <1>5, <1>8, <1>9 DEF l
=============================================================================
