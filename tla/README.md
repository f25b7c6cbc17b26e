# Mini-SGBD in TLA+

Mini-SGBD is a small single-threaded database engine in C++: a paged file, a storage
manager, a buffer pool with LRU replacement, a B+ tree, a loader, and a layer of query
operators with a parser and an optimizer above it. This directory holds TLA+ models of it,
the TLC configurations that check them, and TLAPS proofs about them. Definitions carry the
names of the source where they can; `PROJECT.json` maps each of them to the lines it models
(paths are relative to the repository, in which the program itself lives under `src/`).

## The system

| Component | State | Operations | Called by |
|---|---|---|---|
| DiskManager (`storage/DiskManager.*`) | the file, its length | readPage, writePage | StorageManager |
| StorageManager (`storage/StorageManager.*`) | pages in memory, loaded and dirty flags, next_page_id_, the meta page 0 (counter and tree root) | constructor, fetchPage, flushPage, writePage, allocatePage, setRootPageId, getRootPageId, destructor | BufferManager, tests |
| Page (`storage/Page.hpp`) | 4096 bytes: header, records, slot directory | init, insertRecord, getRecord, updateRecord, deleteRecord | CsvLoader, ScanOperator, IndexScanOperator |
| BufferManager (`buffer/*`) | frames (page copy, pin count, dirty), page table, LRU list | fetchPage, newPage, unpinPage, flushPage, flushAll, destructor | BTreeIndex, the operators, CsvLoader |
| BTreeIndex (`index/*`) | nodes in pages, root id here and in the meta page | insert, search, remove | CsvLoader, QueryOptimizer |
| CsvLoader (`query/CsvLoader.hpp`) | the page being filled, pinned | load | tests |
| Volcano operators (`query/*Operator.*`) | a cursor and at most one pinned page each; Sort: runs in files | open, next, close | each other, tests |
| QueryParser, QueryOptimizer (`query/*`) | none | text to a statement; statement to a plan | tests |

Everything runs in one thread, so interleaving means *callers*: several open iterators,
a loader and the index use one pool, each holding a pointer into a frame between its
fetch and its unpin. There is no log. A page may exist in three copies: in a frame, in
the cache inside StorageManager, and in the file; each layer has a dirty flag of its own
and only the frame's decides what eviction writes. The file may be left by a crash in
the middle of flushAll or of a destructor.

What is hard in it, and what makes each part correct:

* StorageManager: a page id must never be handed out twice, whatever crashes; the
  meta page is written whole from memory by two methods that each own half of it, and that
  write may fail; the destructor is what makes modifications durable.
* BufferManager: pins, list and page table must agree through nested pins, evictions,
  failed fetches and a full pool; of the copies of a page the newest must win; flushAll
  must make durable what its clients declared.
* Page: two areas growing towards each other with an unsigned difference between them,
  and slot ids that indexes keep for ever.
* BTreeIndex: splits, borrows and merges over several levels must keep separators,
  links and children consistent; a failed allocation must not produce wrong answers; the
  root is durable at once, the nodes it names only when they are evicted.
* CsvLoader: the page being filled is pinned over many calls that may throw, and a row id
  packs page and slot into one number.
* Operators: pins must balance when a query is closed early or at its end; a join closes and
  reopens its right side for each left tuple; a sort that finds no column must close its input
  before it throws, and a comparison that throws gives it no occasion to; the sort must be
  stable over runs it keeps in files.
* Parser and optimizer: keywords are names where a name is expected; an index keeps one row
  of a key, a scan returns all, and a name means one column to the loader and another to
  build_plan.

`PROJECT.json` lists these hazards at the lines where they bite, with the properties
that would catch them.

## The modules

| Module | Models | Extends |
|---|---|---|
| `StorageManager` | DiskManager and StorageManager as operators on a record | |
| `Storage` | a program over StorageManager: every call, the destructor's loop, crash, restart | `StorageManager` |
| `StorageFaults` | Storage on a disk whose writes may throw | `Storage` |
| `PageStore` | abstract: what the storage engine promises to the index | |
| `BufferManager` | the pool and its clients over StorageManager | `StorageManager` |
| `BufferLRU` | the pool with a history of the uses of pages | `BufferManager` |
| `RecordTable` | abstract: what a page of records promises | |
| `SlottedPage` | Page, byte by byte | instance of `RecordTable` |
| `BTreeIndex` | insert, remove and search on a map of pages | |
| `IndexRecovery` | the tree over a file: write backs, orderly restarts, crashes | `BTreeIndex` |
| `CsvLoad` | CsvLoader over the pins and dirty pages of the pool and a map for the tree | |
| `Values` | field values and their comparisons | |
| `QueryResult` | abstract: what a tree of operators promises its consumer | |
| `QueryPlan` | Scan, IndexScan, Select, Project, Join and Sort as a stack of calls | `Values` |
| `QueryPlanner` | chooseAccessPath and build_plan, over QueryPlan | `QueryPlan` |
| `ExternalSort` | SortOperator: blocks, runs and the merge | `Values` |
| `QueryParser` | parse, token by token | |
| `StorageManagerLemmas` | lemmas: what each method of StorageManager does to each field | `StorageManager` |
| `StorageProofs` | proofs about the storage, and about a page | `StorageFaults`, `SlottedPage` |
| `BufferManagerProofs` | proofs about the pool, its order of eviction, and that it implements PageStore | `BufferLRU` |
| `TextProofs` | proofs about what is read from text: lines of a file, tokens of a query | `CsvLoad`, `QueryParser` |
| `BTreeLemmas` | lemmas: what each change of a tree leaves | `IndexRecovery` |
| `BTreeProofs` | proofs about the tree, and about the tree over a file and after a crash | `BTreeLemmas` |
| `QueryPlanProofs` | proofs about the calls of operators, and about the sort | `QueryPlanner`, `ExternalSort` |
| `QueryResultProofs` | proofs about the rows that operators hand out, and about the answers to statements | `QueryPlanProofs` |
| `MC*` | model values, symmetry, tables and key sequences for TLC | |

**StorageManager.** A storage state is a record: `disk` and `numPages` are the file,
`next` is next_page_id_, `loaded` is loaded_, `cache` and `dirty` are pages_. The content
of a page is abstract: a client's datum, zeros, a freshly initialised page, or the two
fields of the meta page. Each method is an operator from state to state; private methods
(saveMeta, loadMeta) are operators the public ones call, in the code's order. An id out
of range throws before any change, so it has no operator. `PutMeta` is what saveMeta and
setRootPageId share: they change the meta page in memory and write it at once.

**Storage and StorageFaults.** One action per call. `Modify` is a record operation through the
pointer fetchPage returned. The destructor is `BeginClose`, one `CloseStep` per iteration, and
`EndClose`; `Crash` may come between any two steps and keeps exactly what write() was given. The
history variables `handed`, `latest` and `lastRoot` record what callers were told. The
allocation that throws at MAX_PAGES is modelled as the code does it: the counter is incremented
first. The destructor then reads loaded_ past its end; the model takes the spare bits of the
last word as false, which is what the build reads for up to 32 allocations past the limit: 20000
bits leave that many in the last word, and they are zero. In `StorageFaults` the write of the
meta page may throw: allocatePage and setRootPageId have changed it in memory by then, and it is
marked dirty. Where the write is the first thing a call does, a failure changes nothing and
needs no action; in the destructor it ends the process, which is `Crash`.

**BufferManager.** `frames`, `page_table` and `lru` are buffer_pool_, page_table_ and
lru_list_ (lru_map_ is the set of elements of the list; the model keeps one of the two).
A frame has its own copy of the page *and* of the Page::dirty flag inside it. `FetchHit`,
`FetchIntoFree` and `FetchIntoVictim` are the branches of fetchPage and take the storage
state newPage has advanced; `StoreAfterEvict` and `LoadPageIntoFrame` follow lru_evict and
loadPageIntoFrame. `FetchOutOfRange` is the exception after an eviction: the victim is
gone and its frame free. A fetchPage that returns nullptr changes nothing and is not an
action; a newPage that returns nullptr is `NewPageNull`. flushAll and the two
destructors write page by page and may be cut by a crash. Each client holds at most one
page, as the iterators, the loader and the tree do; two clients on one page make nested
pins. A client that modified unpins as dirty; with `StrayFetch` clients also read pages
that were never allocated, as `main.cpp` does, and write none of those. hits_ and misses_
are statistics and left out. `BufferLRU` adds a history, `since`: for each page, the pages
that a client fetched or unpinned after it last did so with this one.

**SlottedPage.** A slot is kept twice, as a record in `slots` and as the bytes it occupies
in `data`, so that an overlap in either direction destroys something a property sees.

**BTreeIndex.** The recursion is explicit: `path` is the stack of insertRec or removeRec
calls, `cur` the page the innermost call looks at, `res` what the last call returned.
Each action is the rest of one call after its recursive call returned, which is the
grain at which nodes are saved. allocPage may throw between the saves of two levels
(`LeafSplitThrows`, `InternalSplitThrows`, `GrowRootThrows`). Nodes are records of
sequences: their byte layout is not modelled. `rows` counts pages that hold rows and not
nodes, so that the limit is met at any point of a split.

**IndexRecovery.** The tree works on a map of pages; `durable` is what the file holds of
it. Any node may be written back between any two steps, which is what `PageStore` says of
the pool; the meta page goes to the file when the root moves. `Close` and `Reopen` are an
orderly end and a new BTreeIndex, `Crash` is followed by reading only. Histories: `given`,
the values each key was ever inserted with, and `safe`, the keys that no call was about
since all pages were last in the file; none is left when a step does more than change a leaf
in place (`Restructures`).

**CsvLoad.** Lines are records of a length, whether they had a carriage return, and the key in
their second field; of the pool the model keeps pins and dirty marks, of the tree a map from
keys to row ids. Several loads follow one another on one pool, with an index or without, and may
be left by an exception: stoi, a new page past MAX_PAGES, at the start of a load too, a split
without a page, a tree that finds all frames pinned. An insertion into the index may take any
number of pages (a half for each level and a new root). Where the loader uses the null page
newPage returned, or a field that is not there, the model stops in `undefined`.

**Values, QueryPlan, QueryPlanner.** A value is what the code can tell of a string: its
place among strings, and what strtod, stod and stoi make of it. A plan is a sequence of
operators, inputs first. `stack` is the stack of calls, and an action is what the innermost
call does up to its next nested call, its return or, for a scan, its next page or slot, so
that all scans of a plan interleave as the operators above interleave them. The consumer
opens, asks until the end and perhaps once more, may close at any tuple, and may open
again. The history `opened` says which operators were opened and not closed since. A sort
leaves a query in one of two ways: it finds no column (`SortThrow`, the query has `failed`),
or std::stod throws for values it compares (`SortRaises`, the query is `raised`); in the
second case nothing below it is closed. Tables are pages of rows. The file of a table that
was loaded with an index has pages of the tree between them, and ScanOperator would read their
bytes as a header and slots; that is not modelled. The index is what CsvLoader builds: the
last row id of each key of the second column (`KeyColumn`).
`QueryPlanner` takes the plan from a statement by chooseAccessPath and build_plan.

**ExternalSort.** Blocks of the input, each sorted and written to a run, one stream per run,
and the merge. What a value loses on its way through a file is `RoundTrip`. Where the
comparison is no order, stable_sort may leave any arrangement. `Raises` says of which two
values lessThan throws: both are numeric to strtod, and one has no double ("1e999"). A sort of
a block may throw if it holds two such values (`StodThrows`) and returns only if it need not
have compared them: a run it wrote has no such values next to each other (`Completed`). In the
merge the comparisons are known, and so is whether one throws (`MergeRaises`).

**QueryParser.** The tokens are chosen as they are read, so that all texts are tried; `at`
is where parse stands.

**Abstract specifications.** `PageStore`: readers see one content per page, an arbitrary part of
it has reached the file, an orderly close leaves nothing behind, a crash keeps what had been
written back; BufferManager implements it. `RecordTable`: numbers grow by one, a record keeps
its bytes until it is updated at the same length or deleted for good; SlottedPage implements it.
`QueryResult`: between open and close the rows of a result are handed out, in order and each
once, the end is reported when there are no more, and a tree opened again starts over; it fails
if a sort finds no column and may fail if a sort compares values for which std::stod throws
(`mayFail`); QueryPlan and ExternalSort (`SortsItsInput`) both implement it, the first with Sort
as what the second computes.

## What is checked with TLC

| Run | Instance | Shows |
|---|---|---|
| `storage` | 3 pages, 2 contents, 2 allocations past the limit per opening, 2 failing writes | ids never reused, meta page and root survive failed writes, crashes and restarts, clean pages match the file, no update lost except to a crash |
| `buffer_protocol` | 4 pages, 2 frames, 2 clients, 2 contents | frames never shadow newer content, flushAll is durable, the pool implements PageStore across closes and crashes |
| `buffer_stray` | 3 pages, 2 frames, 3 clients, stray fetches, allocation past the limit | page table, LRU list and pins agree in every state, also with the pool exhausted; the victim is the least recently used unpinned page; a new page is initialised |
| `slotted_page` | 32 bytes, records of 0 to 5 bytes, 2 values | areas never overlap, the page implements RecordTable |
| `btree_small` | order 2, 6 keys, 8 nodes; and 5 nodes up to the first allocation that fails | search finds exactly the map the calls ask for, leaf chain, well-formed nodes, minimum occupancy |
| `index_recovery` | order 2, keys 1 to 3 loaded, 2 more calls, 6 pages of which 0 to 2 hold rows, 1 restart, 1 crash | what the reopened tree finds: all of it after an orderly end, nothing made up after a crash, and no loss of keys that were settled |
| `query` | 10 plans by hand and the plans of 37 statements, each on 64 tables of three pages; a frame per scan, or one too few | pins, their end, and termination; the rows of each plan and when it may raise; the answer of each statement by a scan, and by the index on the second column |
| `external_sort` | up to 10 tuples in runs of 3, 3 streams, both directions | a stable sort; what is left of it for values without an order or without a double, ragged rows and too many runs; when it raises |
| `query_parser` | all texts with up to two columns over one name and the keywords | the grammar accepted, errors at the first hopeless token, statements that say what the text says |
| `csv_load` | 2 frames, 4 data pages of 10 bytes, 6 kinds of line, 5 rows | rows stored as counted, row ids that name their rows, null pages only after exceptions, indexed rows readable in the next session |
| `btree_full` | order 4, 17 keys loaded | *violation*: a node with more keys than BTREE_ORDER |
| `btree_sentinel` | order 4, keys around -1 | *violation*: a promoted key of -1 loses half of a leaf |

Bounds. Two frames are the least on which a hit, an eviction and a refusal all happen;
four pages are the meta page and one data page more than the frames. Three clients on two
frames exhaust the pool with one of them still asking. Two contents tell an old version of
a page from a new one. Three pages in `storage` let the limit be reached, overrun and
reopened; two failures let a second one come before the first is made up for. 20 bytes for
records hold five empty records or two of the longest, so the two areas meet exactly, and
with bytes to spare. Order 2 has the shortest nodes in which every branch of fixUnderflow is
taken, also between internal nodes; eight nodes make three levels of which one may lend.
After a failed allocation `btree_small` makes no further call (`UpToFailure`);
`index_recovery` does. In `index_recovery` rows in 0, 1 or 2 of the pages bring the limit to
each of the three places where a split asks for a page. In `csv_load` a page of 10
bytes is filled by three short records or by one long one, so that rows end a page in every
way; 3 for 1000 and 16 for 2^16 keep the relation between page, row id and length that the
code's numbers have (`RidAssumption`). In `external_sort` ten tuples are one block more
than there are streams, and seven are two full blocks and a third begun. In `query` three
pages hold an empty one, deleted slots, equal keys in different pages and, next to a deleted
slot, a numeral beyond the range of double, so that sorts raise with their input in the middle
of a page and past its end; `Shorts` takes one
frame away from what the plan needs. `Max*`, `Load`, `Rows`, `Shorts` and the sets of
keys, lines, plans and contents are the only bounds that are not constants of the code.
Data and clients are symmetric in the runs that say so: no property names one of them, and
all are safety. The code's order of 4 is checked by the two violations only; `BTREE_ORDER`
is a constant and no action depends on its value.

CHECK_DEADLOCK is off where the system may stop: a full page whose records are all deleted
accepts no further operation (`slotted_page`); a query, a sort or a parse comes to an end
or to an exception that leaves it (`query`, `external_sort`, `query_parser`); a load uses a
page that is not there, or the session is closed (`csv_load`); the bounds on calls and
restarts are used up, or the process has crashed (`index_recovery`).

Fairness is assumed in `QueryPlan` only: one thread runs the operators and the loop of the
consumer, so that a call in progress goes on (weak fairness of `OperatorStep` and `Loop`),
and a consumer that was told there are no more rows closes the plan, if it does not ask
once more (the two conditions on `Close` and `AskAgain`). Nothing says that a consumer ever
opens a plan, or that it asks for all rows. `QueriesEnd` follows: each query ends,
whatever the plan; it would not if a join reopened its right side without taking the next
left tuple. The other components have no loop that could fail to end but for bounded ones
that run to their end or to a crash; there is no waiting in the code, and nothing is
claimed of liveness there.

### Disagreements with the repository's own words

With a run that shows them:

* fixUnderflow reports an underflow after every merge, whatever the parent has left, and
  merges can then build a node above BTREE_ORDER (run `btree_full`).
* InsertResult uses the key -1 for "not split" (run `btree_sentinel`).

Met while modelling, and stated as the conditions of properties that hold:

* `Page.hpp` says the buffer manager looks at Page::dirty before an eviction; `lru_evict`
  looks at Frame::dirty. A client that unpins a new page as not dirty gets away with it only
  because the storage's cache still holds the fresh page. (`CleanFramesCoherent` speaks of
  Frame::dirty.)
* newPage ends in fetchPage. If the id was read before it was allocated, as `main.cpp`
  does with pages 1 to 3, it is a hit: the caller gets a page of zeros without a header.
  (`NewPageIsInitialised` excepts resident ids.)
* `test_query_optimizer.cpp` (case 4) says both access paths return the same result, and finds
  it so for a scan with a predicate of its own on values[1], of which it keeps the last row. The
  paths of the engine differ, for two reasons. The index keeps one row per key, and the scan
  returns all. And the index the test registers as "edad" is built by the loader on values[1]
  (CsvLoader.hpp:52), while build_plan takes "edad", a name it does not know, for column 0
  (QueryParser.cpp:47): the scan compares another column, so that the paths differ also where
  each key has one row. (`IndexAnswersLast`: the index gives the row loaded last with that number
  in the column it was built on; `ScanAnswersStatement`: the scan goes by build_plan's columns.
  Run `query` has the index of the loader; `test_live_demo.cpp` builds one on column 0 as "id",
  where the columns agree.)
* SortOperator takes a text for a number if strtod reads all of it, and then calls std::stod,
  which throws out_of_range for "1e999". In flushRun that leaves open before child_->close()
  (SortOperator.hpp:119, 123): the scan below is in the middle of a page, or past one if the
  last block was being flushed, and in the first case that page stays pinned, with no join
  involved. (`EndsWithoutPins` is not about queries that end in this way; `PinsHeldByScans` says
  that the pins left are those of the scans left open; `ImplementsQueryResult` and
  `SortsItsInput` that nothing but such values raises it.)
* An exception in mid-load leaves the page pinned and its frame clean: the index names rows
  that the next session does not find. (`IndexedRowsReadable` is for sessions without one.)
* A sort checks the column in the first tuple only; serialize and deserialize drop an empty
  last field. (`ReadsOnlyFields` says that these are the only ways to read beyond a tuple.)
* Nobody closes what was open when a sort finds no column and throws. If the sort is under a
  join whose left side is primed, that side keeps its page pinned for good. (`EndsWithoutPins`
  excepts these plans.)
* A run whose file cannot be opened is skipped without a word. (`NothingLost` is for no more
  runs than streams.)
* The root is in the file before the node it names (BTreeIndex.cpp:150): after a crash the
  tree may be unreadable. A node that was never written is a page of zeros, which reads as an
  internal node with the meta page as its child, and that one as an internal node again; what a
  search finds from there depends on the bytes of the meta page and the length of the file.
  (`CrashInventsNothing` is for searches that meet no such page, `SettledKeysSurvive` says that
  those for keys no split was about are among them.)
* A line of more than 65535 bytes is stored by the low 16 bits of its length, and a blank
  line that ends in a carriage return is stored as an empty record (`Stored`, `IsRow`).

## What is proved with TLAPS

The proofs hold for every value of the constants under the named assumptions of the modules:
MaxPages a positive number, MaxOverrun a number; a pool of at least one frame and a finite
set of clients; a page just set up by Page::init differs from one a client wrote; for Page,
sizes that are numbers, a header that fits the page, PageSize below SLOT_DELETED, and a mark
for deleted records that is no record; for the loader, sizes that are numbers and
`RidAssumption`, which for 4096 bytes says that at most 680 records of two fields fit in a
page; for the tree, an even order that is not zero, at least two pages, integers for keys,
and pages of rows that leave one page for the root; for queries, plans that are trees with
every input before its operator, scans of pages the table has, and tables that are
sequences; for the sort, inputs that are sequences of tuples and blocks of at least one tuple;
for the parser, that there is a name and no name is a keyword.

**Storage** (`StorageProofs`, on the lemmas of `StorageManagerLemmas`): the properties of
`Storage`, and those of `StorageFaults` for any number of failing writes. None is inductive
by itself. The invariant `Inv`, which both share, says: the file is zero beyond its length
(`ZeroTail`, without which lengthening the file could uncover old bytes); a file without
pages has handed out nothing (`EmptyFileInv`); the meta page in the file is one, its counter
legal and above every id handed out (`FileMetaInv`); while the process runs, the same is true
of the copy in memory, which is the one in the file unless it is marked dirty
(`MemoryMetaInv`); clean pages equal the file (`CleanInv`); the last content of a page is in
memory if loaded, else in the file (`LatestInv`); what the destructor has passed is in the
file (`ClosedInv`). The step that needs most of it is the end of the destructor: every id
handed out is below next_page_id_, so below the loop index, so written. What a step does to
the meta page is said once (`MetaStep`, `FailStep`), and from that the two accounts of the
root follow: without failures the copies agree (`MetaInv`), with them both are roots that
were asked for (`RootInv`). The lemmas state once, per method, what it does to each field;
the state-machine proofs cite them and never expand a method.

**BufferManager** (`BufferManagerProofs`): types, `PageTableMatchesFrames`,
`LruListsUnpinned`, `PinsCountHolders`, and, for clients that ask for allocated pages,
`CleanFramesCoherent`. The invariant has four accounts. The table: page table and frames
name each other. The list: it holds the resident pages without a pin, each once, so that
the walk of lru_evict from the back ends at the last element (`VictimIsLast`). The pins: a
frame has one for each client that holds its page, so that a victim has no holder, and no
frame is unpinned below zero. The storage: what `StoreOK` says of the meta page and of the
file. They lean on each other in one place, the meta page: the pool's copy of it is never
dirty (`MetaFrameInv`), so that no write back reaches the counter. Coherence adds that the
pool holds allocated pages only and is empty when the storage is opened; allocation then
changes no page in the pool, and what a write back changes is the page it writes. The
lemmas say of each step of fetchPage what it keeps; newPage uses the same ones from the
storage state after the allocation.

`EvictsLeastRecentlyUsed` has an invariant of its own (`OrderInv`): of any two pages in the
list, the one nearer the front was used since the other was. Removing a page keeps that, a
page put in front was used last, and a use of a page that is not in the list only adds to
the histories of those that are. A step uses at most one page (`TakeTouches`,
`UnpinTouches`), and the victim is the last of the list.

**The pool as a PageStore** (`BufferManagerProofs`, for clients that ask for allocated pages):
every step of the pool over the storage is a step of `PageStore` or changes nothing there.
What a reader sees of a page is in its frame if it has one, else in the storage's memory if
it is loaded, else in the file. Eviction, loading and the destructors move content between
these places, and the proof says that they never change which content a reader is shown and
that the file only ever receives that content. For this the invariant (`MapInv`) adds: what
an open storage has loaded and not marked dirty is in the file, what is marked is a page
nobody wrote since its allocation, and pages beyond the counter are zeros (`SoundInv`); the
loops of flushAll and of the destructors leave the frames and pages they passed clean
(`LoopInv`). `FlushAllIsDurable` follows at the end of the first loop. `NewPageIsInitialised`
needs no such clients: the page allocatePage sets up is in the storage's memory, and is what
fetchPage puts into the frame.

**Page** (`StorageProofs`, second half, with the invariant `PageInv`): `LayoutSound`, and
that the bytes implement `RecordTable`. The invariant adds to the layout that each live slot
spells one of the records offered (`RecordsStored`), needed to tell a live record from a
deleted one. An insertion fits (`InsertFits`), so its bytes and its slot miss all other
records (`InsertBytes`); an update misses them because live records are disjoint in slot
order (`UpdateBytes`). Each action is then a step of RecordTable.

**CsvLoader** (`TextProofs`): types, `IndexNamesRows` and `NullPageOnlyAfterThrows`. The
second is about space. In a load with an index every row but the last one stored has a
key, because a row without one ends the load; a row with a key costs at least two bytes
and a slot; what was used and what is left make the page (`SpaceInv`). When an entry is
made its row has a key too, so that the page holds fewer than RidBase rows by
`RidAssumption` (`FewRows`), and / and % take the row id apart again (`RidSplits`). The
third counts pins: outside a load there are no more than loads left by an exception, inside
one there is one more, that of the page being filled (`PinsInv`). Rows are about order and
about dirty marks: a page holds the rows counted for it, each at the place its number in the
history gives it (`HoldsInv`); of the pages with rows, those that are neither marked dirty nor
being filled are at most one for each load left by an exception (`UnmarkedInv`), and only
these are empty when the session is closed (`ClosedInv`). `RowsStored` and
`IndexedRowsReadable` follow.

**BTreeIndex** (`BTreeProofs`, on the lemmas of `BTreeLemmas`): `SearchFindsContents`,
`MinOccupancy` and `NodesWellFormed`, for every even order, any number of pages, any integer
keys but -1 and any sequence of insertions and removals, those that run out of pages in
mid-split included. That no key is -1 is a hypothesis of the theorems and not an assumption
of the model: with it the first property is false, as `btree_sentinel` shows.
`NodesWellFormed` also needs a key, for the initial value of `op`.

No page records what makes a tree of them. The invariant (`TreeInv`) says that there are
four things that do: the set `live` of the pages in the tree (a merge leaves its right page
behind, and nothing frees it), for each page its height `h`, the keys `rng` that may be
below it, and its parent `par`. A node is right if its keys ascend and are in its range, and
if its children are children of no other page, one level below it, and hold only keys that
belong in their slot (`NodeOK`). This is a property of one node and its children, and
so every change is one of a few pages: a leaf or node is split, a child is put in or taken
out, siblings are joined or share their keys anew, a root is put on top or gives way
(`SplitLeafTree`, `AttachTree`, `MergeTree`, `ShareTree`, ... in `BTreeLemmas`). Each lemma
names the ghosts after the change, and the entries the leaves hold then. No induction over
the height is needed for the steps, because the height is a ghost that each step changes by
at most one; a search is followed down by well-founded induction on it (`FindLeafPageFinds`).

In the middle of a call the pages are not one tree. After a split the right half is the top
of a second one until the caller takes it in (`Tops`, `Halves`), between the same bounds as
the left half had; `path` leads down to the pages a call is about, and the child each caller
chose is one where the key belongs (`Linked`, `Seeks`); after a removal one page may have a
key too few, the one whose caller reads `underflow` (`LowPage`, `Filled`); the root may be
empty until remove has returned (`RootFilled`). The entries of the leaves are those asked
for but for the key of the call (`Faithful`), and once allocPage threw, a part of them: a
key is then found with its value or not at all. That a borrowed key leaves the lender
enough, that a merged node fits, and that the new separator is right when an inner node
borrows are the cases in `LentLeftShares`, `LentRightShares`, `MergeTree`.

**IndexRecovery** (`BTreeProofs`): `ReopenFindsContents`, `CrashInventsNothing` and
`SettledKeysSurvive`, for any number of calls and restarts, whatever the pool wrote back and
wherever the process died, again without a key -1. One invariant (`RecoveryInv`) serves all
three. While the process lives, and after an orderly end, the pages are a tree (`TreeInv`);
with the file they are `Kept`, which adds two accounts of the file.

The first is about old nodes. Nodes of different ages form no tree: ranges, separators and
links need not fit. What stays true of a node for ever is less (`Sound`): a leaf holds values
its keys were inserted with, and the children of an internal node are pages of the file that
are lower than it. "Lower" has to mean the same for old and new nodes, and it does, because a
page keeps its height for as long as it is in the tree: splits share it, merges empty the page
that leaves, a new root is a new page. So one height for each page (`H`) covers what the
page is and ever was; each step of the tree keeps it (`Carried`, a conclusion of the lemma of
each action). After a crash the pages are such nodes or were never written (`Mixture`), and a
search that meets no unwritten page goes down at each step, so that it ends at a leaf
(`StraysToLeaf`), whose values are values that were given.

The second is about the keys of `safe` (`Settled`): each page of the tree differs from the
file's copy in nothing that matters for these keys. An internal node or root does not differ
at all; in a leaf the keys of `safe` have the same values. A leaf that is changed in place
keeps that for all keys but that of the call (`LeafMovesSame`), and all other changes empty
`safe`. After a crash, then, a tree is known that the file's pages resemble (`Legacy`), and
a search in them is a search in it. This theorem has the hypothesis that `Unwritten` is no
node, which is what the name says: a page of zeros.

**Query operators** (`QueryPlanProofs`): `PinsHeldByScans`, `EndsWithoutPins` and
`NeverOutOfFrames`, for every tree of operators, every table and any number of frames. All
three rest on one account of the calls (`ProtocolInv`): the calls in progress form a path
down the plan (`LinkOK`, `Downwards`), each method is at one of its places (`PlaceOK`), and
which operators are open follows from the places of the calls above them (`InputsOK`, and
`IdleOK` where no call is in progress). So an operator is never opened twice or asked while
closed, which in a join that closes and opens its right side is not plain, and when a query
was closed no operator is open. An open scan holds at most one page and each pin is a
scan's, so nothing stays pinned; there are no more pins than scans, and an index scan lets
go of its page before it returns. A sort that finds no column throws while it is being
opened: with no join above it, no operator above is open yet, and its own input it has closed
(`FailedAll`). `EndsWithoutPins` is about these two ends, a query that was closed and one that
failed so. The third, an exception of std::stod, leaves the calls and operators as they are: of
it the account of calls proves `PinsHeldByScans` and nothing more, because no more is true. That
build_plan makes trees is proved too (`BuiltIsPlan`), so that the theorems cover the plans
of statements.

**What operators hand out** (`QueryResultProofs`): that every tree of operators, joins and sorts
among them, implements `QueryResult` (`ImplementsQueryResult`), for every table and pool. The
rows of a plan are defined at once, from the inputs up (`Rows`); the operators hold a tuple here
and a position there. The invariant (`Data`) says that there is a sequence for each operator,
what it has still to hand out, and what that sequence is: for an operator between two calls,
what its members and the sequences of its inputs make of it (`AtRest`: for a scan the live rows
from its slot on, for a join the pairs of its left row with the rest of the right input,
followed by those of the other left rows with all of the right rows); for a method that has
called an input, the same with the tuple it is waiting for put in front (`Owed`, `CallData`).
The consumer closes the account: what it has and what is left of the root are the rows of the
plan (`ConsumerData`). Only a call that returns changes a sequence, that of its own operator
(`DataLeave`): a next takes a row off it, an open that returns has set it to all of `Rows`,
which is what a join needs that opens its right side again. No operator is open that has a sort
under it that must fail (`Fails`), because opening it would have thrown. A sort raises only if
the rows it sorts hold two values std::stod throws for: what it has kept is then a part of its
input's rows, or what is left of its own, which are those of `goal.mayFail` (`RaiseIsRisky`). An
operator that has answered "no more" has nothing left, and all it hands rows on from has nothing
left either, so that asking once more gets the same answer and raises nothing (`Spent`,
`EndedNow`); nor does closing (`AllClose`). The lemmas say what `FlattenSeq`, by which the rows
are defined, makes of a sequence whose first row is taken off (`FlattenCons`, `SelectedCons`,
`PairsCons`, `JoinedCons`); they are proved from its recursive function by descent to a least
counterexample (`UpTo`), and `Rows` is shown to satisfy its own equation (`RowsAre`).

The answers to statements follow. The plan in use is the one built from the statement
(`StatementNow`), its rows are, operator by operator, those the statement asks for of what the
access path hands on (`StatementRows`), and a query that has ended has given them all
(`AnswerNow`): `ScanAnswersStatement`. `IndexAnswersLast` needs a hypothesis
of its theorem, `PlainKeys`: that the text of a stored key is the one asked for just if stoi
makes the same number of it. The code does not see to that ("07" and "7" are one key and two
texts); it holds for keys written as numerals, and TLC evaluates it for the tables and
statements of run `query` (`MCPlainKeys`). It says nothing of the column a scan would take the
name for: the theorem is about the column the index was built on.

**SortOperator** (`QueryPlanProofs`, second half): `NothingLost`, `ReadsOnlyFields`, and that
the sort implements `QueryResult` (`SortsItsInput`), for every input, direction, length of a
block and number of streams. What a sort has done is stated by functions `at` that the
invariant (`SortIInv`) says exist: for each tuple of the result and of each run, its place in
the input. Places are distinct and all of those taken are covered (`Account`, `Covers`);
earlier runs hold earlier places, which is what makes a merge that prefers the earlier run
stable. If the comparison is an order, the tuples of a run rise in the order that is meant
(`Precedes`: the column, then the place), and the result is a beginning of the whole input in
that order (`RowsInOrder`). The step that needs it all is that of the merge: the run `Best`
selects has a head that none goes before and that goes before those of earlier runs
(`ForemostRun`), so its place comes before every place left in any run, and is the next in
order (`HeadFirst`, `TrackedMerge`). That `StablySorted` arranges its argument is proved from
its definition by positions (`SortArranges`), without induction over sequences; that `Best`
walks the runs as the loop does, from the recursive function (`SelectsToTheEnd`). Where the
comparison is no order only the account of places is left, which is what `NothingLost` needs:
it counts the places (`SameNumber`).

**QueryParser** (`TextProofs`, second half): `AcceptsTheGrammar`, that parse accepts exactly the
texts of the grammar and gives up at the first token after which none is possible, and
`StatementSaysTheText`, for any names and any length of text. The grammar is stated by
positions counted from the end of the text, the parser reads from the front; they meet at
FROM, the one token no column may be, whose first place settles what every later position
must be (`FromStands`). The invariant (`LayoutInv`) says, for each place in parse, what the
tokens read so far are and which of them are in the statement. Where the parser goes on, an
ending is named that makes the text a query; where it gives up, no ending can, because the
text has its FROM and the next position is wrong.

Type invariants of the storage, the pool and the page are proved and not model-checked.
Only model-checked: the chain of leaves (`LeafChain`), which relates pages across the whole
tree, by the levels of it as FlattenSeq computes them, and not a node to its children. Not
provable with this prover and left to TLC: liveness (`QueriesEnd`), ENABLED, and what
recursive operators and SelectSeq compute.

## Not modelled

`hits_`, `misses_`, the counters of explain(), printing and statistics (no influence on
state); reads that fail, a write cut in the middle of a page, and power loss; a full disk
under a sort, and the numeral "nan", which compares as neither less nor greater; what the
destructor reads of loaded_ more than 32 ids past MAX_PAGES; a scan over pages of a tree, and a
search that goes on from a page of zeros; the byte layout of tree nodes and the characters of a
query; two BTreeIndex objects on one file, and clients that modify page 0 through the pool or
insert into a page they did not allocate (the code has none); the benchmarks and demonstration
programs under `tests/`.

What could follow: the chain of leaves in `TreeInv` (the left neighbour of a page, as a ghost
too), and from it `LeafChain`.
