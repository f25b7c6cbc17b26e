------------------------------- MODULE CsvLoad -------------------------------
(***************************************************************************)
(* CsvLoader::load: the lines of a file become records of data pages, and  *)
(* the row is entered in the index if there is one.  The loader keeps the  *)
(* page it fills pinned and says that it is dirty only when it lets go of  *)
(* it; an exception leaves the page as it is.  Of the pool the model keeps *)
(* the pins and the dirty pages, of the tree what BTreeIndex says of it:   *)
(* a map, which may lose keys when a split finds no page.                  *)
(***************************************************************************)
EXTENDS Integers, Sequences, FiniteSets

CONSTANTS
    Lines,          \* [length, cr, key]: without its carriage return; the key of the part stored
    Throws,         \* the key of a line whose second field is not a number
    NoField,        \* the key of a line without a second field
    Room,           \* bytes of a page for records and slots
    SlotSize,
    MinKeyed,       \* shortest record with two fields, 2: "|7"
    RidBase,        \* 1000
    LengthBase,     \* 2^16, the values of the uint16_t length
    PoolSize,       \* frames
    MaxPages,       \* MAX_PAGES
    MaxRows         \* rows stored in all (bound)

Keys == {l.key : l \in Lines} \ {Throws, NoField}

\* static_cast<uint16_t>
Stored(line) == line.length % LengthBase

ASSUME LoadSizesAssumption ==
    /\ Room \in Nat /\ SlotSize \in Nat /\ MaxRows \in Nat /\ PoolSize \in Nat
    /\ MinKeyed \in Nat \ {0} /\ RidBase \in Nat \ {0} /\ LengthBase \in Nat \ {0}
    /\ MaxPages \in Nat \ {0}
ASSUME LinesAssumption ==
    \A l \in Lines :
        /\ l.length \in Nat /\ l.cr \in BOOLEAN
        /\ l.key \in Keys => l.key \in Int /\ Stored(l) >= MinKeyed

\* With pages of 4096 bytes, at most 680 records of two fields fit in one.
ASSUME RidAssumption == Room < RidBase * (MinKeyed + SlotSize)

NoRid == -1

VARIABLES
    pages,          \* the records of each data page
    free,           \* the bytes left in each
    pinned, dirty,  \* sets of data pages
    pageId,         \* the page being filled
    next,           \* next_page_id
    index,          \* the rid of each key, or NoRid
    indexed,        \* whether this load has an index
    pc,
    counted,        \* history: the page and line of each row counted
    failures        \* history: loads left by an exception after their first page

vars == <<pages, free, pinned, dirty, pageId, next, index, indexed, pc, counted, failures>>
pool == <<pages, free, pinned, dirty, pageId>>

Init ==
    /\ pages = [p \in {} |-> <<>>] /\ free = [p \in {} |-> 0]
    /\ pinned = {} /\ dirty = {} /\ pageId = 0 /\ next = 1
    /\ index = [k \in Keys |-> NoRid]
    /\ indexed \in BOOLEAN
    /\ pc = "idle"
    /\ counted = <<>> /\ failures = 0

DataPages == DOMAIN pages
TypeOK ==
    /\ DataPages \subseteq 1 .. MaxPages - 1 /\ pages \in [DataPages -> Seq(Lines)]
    /\ free \in [DataPages -> 0 .. Room]
    /\ pinned \subseteq DataPages /\ dirty \subseteq DataPages
    /\ pageId \in 0 .. MaxPages - 1 /\ next \in 1 .. MaxPages
    /\ index \in [Keys -> Nat \cup {NoRid}]
    /\ indexed \in BOOLEAN
    /\ pc \in {"idle", "loading", "indexing", "threw", "undefined", "closed"}
    /\ counted \in Seq([page : DataPages, line : Lines]) /\ failures \in Nat

-----------------------------------------------------------------------------
HasFrame(pins) == Cardinality(pins) < PoolSize

\* newPage when the pages in pins are pinned, with the first lines in it; there is a frame
\* for it, which is not dirty.
NewPage(pins, lines, bytes) ==
    /\ next < MaxPages /\ HasFrame(pins)
    /\ next' = next + 1
    /\ pageId' = next
    /\ pages' = [p \in DataPages \cup {next} |-> IF p = next THEN lines ELSE pages[p]]
    /\ free' = [p \in DataPages \cup {next} |-> IF p = next THEN Room - bytes ELSE free[p]]
    /\ pinned' = pins \cup {next}

Start ==
    /\ pc \in {"idle", "threw"}
    /\ NewPage(pinned, <<>>, 0)
    /\ indexed' \in BOOLEAN
    /\ pc' = "loading"
    /\ UNCHANGED <<dirty, index, counted, failures>>

\* newPage throws: no page is left for the load to begin with.
StartThrows ==
    /\ pc \in {"idle", "threw"} /\ next = MaxPages
    /\ pc' = "threw"
    /\ UNCHANGED <<pool, next, index, indexed, counted, failures>>

\* newPage returns nullptr: the page id is gone, and page is used by the first row.
StartNoFrame ==
    /\ pc \in {"idle", "threw"}
    /\ next < MaxPages /\ ~HasFrame(pinned)
    /\ next' = next + 1 /\ pageId' = next
    /\ indexed' \in BOOLEAN
    /\ pc' = "loading"
    /\ UNCHANGED <<pages, free, pinned, dirty, index, counted, failures>>

\* A line is skipped only if it is empty before its carriage return is removed.
IsRow(line) == line.length > 0 \/ line.cr
Row(line) == pc = "loading" /\ IsRow(line) /\ Len(counted) < MaxRows

RowNoFrame(line) ==
    /\ Row(line) /\ pageId \notin DataPages
    /\ pc' = "undefined"
    /\ UNCHANGED <<pool, next, index, indexed, counted, failures>>

\* freeSpace compared without the slot (a mistake)
FitsWithoutSlot(bytes, line) == Stored(line) <= bytes

\* insertRecord finds room.
Fits(bytes, line) == Stored(line) + SlotSize <= bytes

Count(page, line) ==
    /\ counted' = Append(counted, [page |-> page, line |-> line])
    /\ pc' = IF indexed THEN "indexing" ELSE "loading"
    /\ UNCHANGED <<index, indexed, failures>>

StoreRow(line) ==
    /\ Row(line) /\ pageId \in DataPages /\ Fits(free[pageId], line)
    /\ pages' = [pages EXCEPT ![pageId] = Append(@, line)]
    /\ free' = [free EXCEPT ![pageId] = @ - (Stored(line) + SlotSize)]
    /\ Count(pageId, line)
    /\ UNCHANGED <<pinned, dirty, pageId, next>>

PageFull(line) == Row(line) /\ pageId \in DataPages /\ ~Fits(free[pageId], line)

\* The full page is let go of as it was fetched (a mistake)
StoreOnNewPageClean(line) ==
    /\ PageFull(line) /\ Fits(Room, line)
    /\ NewPage(pinned \ {pageId}, <<line>>, Stored(line) + SlotSize)
    /\ Count(next, line)
    /\ UNCHANGED dirty

StoreOnNewPage(line) ==
    /\ PageFull(line) /\ Fits(Room, line)
    /\ dirty' = dirty \cup {pageId}
    /\ NewPage(pinned \ {pageId}, <<line>>, Stored(line) + SlotSize)
    /\ Count(next, line)

\* The line is too long for a page, and the loader goes on with a new one.
SkipTooLong(line) ==
    /\ PageFull(line) /\ ~Fits(Room, line)
    /\ dirty' = dirty \cup {pageId}
    /\ NewPage(pinned \ {pageId}, <<>>, 0)
    /\ UNCHANGED <<index, indexed, pc, counted, failures>>

Throw ==
    /\ pc' = "threw"
    /\ failures' = failures + 1

\* allocatePage throws after the full page was unpinned.
NewPageThrows(line) ==
    /\ PageFull(line) /\ next = MaxPages
    /\ dirty' = dirty \cup {pageId} /\ pinned' = pinned \ {pageId}
    /\ Throw
    /\ UNCHANGED <<pages, free, pageId, next, index, indexed, counted>>

\* a rid made with the slot counted from one (a mistake)
RidOffByOne(page, slot) == page * RidBase + slot + 1

Rid(page, slot) == page * RidBase + slot
PageOf(rid) == rid \div RidBase
SlotOf(rid) == rid % RidBase

\* The row just stored.
NewKey == pages[pageId][Len(pages[pageId])].key
NewRid == Rid(pageId, Len(pages[pageId]) - 1)

\* index->insert; the tree may take pages of its own, for the halves of nodes and a new root.
IndexRow ==
    /\ pc = "indexing" /\ NewKey \in Keys /\ HasFrame(pinned)
    /\ index' = [index EXCEPT ![NewKey] = NewRid]
    /\ next' \in next .. MaxPages
    /\ pc' = "loading"
    /\ UNCHANGED <<pool, indexed, counted, failures>>

\* A split finds no page, maybe after others that took the last: keys are lost, which may be
\* the new one or those of a half that no parent names.
IndexFull ==
    /\ pc = "indexing" /\ NewKey \in Keys /\ HasFrame(pinned)
    /\ index[NewKey] = NoRid
    /\ \E lost \in SUBSET Keys :
           index' = [k \in Keys |-> IF k \in lost THEN NoRid
                                     ELSE IF k = NewKey THEN NewRid ELSE index[k]]
    /\ next' = MaxPages
    /\ Throw
    /\ UNCHANGED <<pool, indexed, counted>>

\* stoi throws, or the tree finds every frame pinned.
IndexThrows ==
    /\ pc = "indexing"
    /\ NewKey = Throws \/ (NewKey \in Keys /\ ~HasFrame(pinned))
    /\ Throw
    /\ UNCHANGED <<pool, next, index, indexed, counted>>

\* values[1] of a row that has no second field
IndexUndefined ==
    /\ pc = "indexing" /\ NewKey = NoField
    /\ pc' = "undefined"
    /\ UNCHANGED <<pool, next, index, indexed, counted, failures>>

\* the end of the file without unpinPage (a mistake)
EndOfFileNoUnpin ==
    /\ pc = "loading"
    /\ pc' = "idle"
    /\ UNCHANGED <<pool, next, index, indexed, counted, failures>>

EndOfFile ==
    /\ pc = "loading"
    /\ dirty' = dirty \cup ({pageId} \cap DataPages)
    /\ pinned' = pinned \ {pageId}
    /\ pc' = "idle"
    /\ UNCHANGED <<pages, free, pageId, next, index, indexed, counted, failures>>

\* The destructors: only dirty frames are written, and another page is still empty in the
\* file.
Close ==
    /\ pc \in {"idle", "threw"}
    /\ pages' = [p \in DataPages |-> IF p \in dirty THEN pages[p] ELSE <<>>]
    /\ pc' = "closed"
    /\ UNCHANGED <<free, pinned, dirty, pageId, next, index, indexed, counted, failures>>

Next ==
    \/ Start \/ StartThrows \/ StartNoFrame
    \/ \E line \in Lines :
           \/ RowNoFrame(line) \/ StoreRow(line) \/ StoreOnNewPage(line)
           \/ SkipTooLong(line) \/ NewPageThrows(line)
    \/ IndexRow \/ IndexFull \/ IndexThrows \/ IndexUndefined
    \/ EndOfFile
    \/ Close

Spec == Init /\ [][Next]_vars

-----------------------------------------------------------------------------
(* Properties *)

\* The rows counted for a page, by their place in the history, and those up to one of them.
RowsOf(p) == {n \in DOMAIN counted : counted[n].page = p}
UpTo(p, n) == {m \in RowsOf(p) : m <= n}
Holds(p) ==
    /\ Len(pages[p]) = Cardinality(RowsOf(p))
    /\ \A n \in RowsOf(p) : pages[p][Cardinality(UpTo(p, n))] = counted[n].line

\* A page holds the rows that were counted when they were put there, in the order of the
\* file; after the session is closed, only the pages being filled when a load was left by
\* an exception have lost theirs.
RowsStored ==
    /\ pc # "closed" => \A p \in DataPages : Holds(p)
    /\ Cardinality({p \in DataPages : ~Holds(p)}) <= failures

\* A rid, decoded as IndexScanOperator does, names a row of its key: no page has so many
\* slots that one of them is taken for a slot of the next page.
IndexNamesRows ==
    pc # "closed" => \A k \in Keys : index[k] # NoRid =>
        /\ PageOf(index[k]) \in DataPages
        /\ SlotOf(index[k]) < Len(pages[PageOf(index[k])])
        /\ pages[PageOf(index[k])][SlotOf(index[k]) + 1].key = k

\* Only loads left by such an exception take the pool's frames for good: while there are fewer
\* of them than frames, newPage never hands the loader a null page.
NullPageOnlyAfterThrows ==
    pc = "loading" /\ pageId \notin DataPages => failures >= PoolSize

\* If no load was left by such an exception, what an index entry names can be read in the
\* session and in the next one (test_query_index.cpp): no page of a load that came to its end
\* was let go of as clean.
IndexedRowsReadable ==
    failures = 0 =>
        \A k \in Keys : index[k] # NoRid => SlotOf(index[k]) < Len(pages[PageOf(index[k])])
=============================================================================
