---------------------------- MODULE IndexRecovery ----------------------------
(***************************************************************************)
(* The tree over a file: the root is in the meta page at once, but a node  *)
(* reaches the file only when its frame is evicted or flushed.  The pool   *)
(* may write any page back between two steps of an operation (PageStore    *)
(* says so of BufferManager, of one page or more), an orderly end writes   *)
(* all of them, and after a crash the next BTreeIndex finds the nodes as   *)
(* they were last written, under the newest root.                          *)
(***************************************************************************)
EXTENDS BTreeIndex

CONSTANTS
    Unwritten,      \* a page the file does not hold yet: zeros
    MaxCalls,       \* insertions and removals (bound)
    MaxReopen       \* orderly restarts (bound)

ASSUME RecoveryBoundsAssumption == MaxCalls \in Nat /\ MaxReopen \in Nat

VARIABLES
    durable,        \* the pages in the file
    mode,           \* "open", "closed" or "crashed"
    calls, reopened,
    given,          \* history: the values each key was ever inserted with
    safe            \* history: keys no call was about since all pages were last in the file,
                    \* none if nodes were split, merged or made to share since, or a split failed

rvars == <<vars, durable, mode, calls, reopened, given, safe>>

RecoveryInit ==
    /\ Init
    /\ durable = [p \in Pages |-> Unwritten]
    /\ mode = "open"
    /\ calls = 0 /\ reopened = 0
    /\ given = [k \in AllKeys |-> {}]
    /\ safe = {}

Written(file) == pc = "idle" /\ \A p \in Allocated : file[p] = nodes[p]

\* The step does more than change a leaf in place: it adds a page or a root, or rearranges
\* nodes as the calls return.
Restructures ==
    \/ DOMAIN nodes' # Allocated \/ metaRoot' # metaRoot
    \/ pc = "return" /\ nodes' # nodes

\* A step of the tree.  A new page is saved twice, first as the empty leaf of allocPage,
\* and that one may be all that was written.
TreeStep ==
    /\ mode = "open"
    /\ Next
    /\ calls' = IF pc = "idle" THEN calls + 1 ELSE calls
    /\ calls' <= MaxCalls
    /\ given' = IF pc = "idle" /\ op'.kind = "insert"
                THEN [given EXCEPT ![op'.key] = @ \cup {op'.value}] ELSE given
    /\ \E early \in SUBSET (DOMAIN nodes' \ Allocated) :
           durable' = [p \in Pages |-> IF p \in early THEN Leaf(<<>>, <<>>, -1) ELSE durable[p]]
    /\ safe' = IF Restructures \/ threw' THEN {} ELSE IF pc = "idle" THEN safe \ {op'.key} ELSE safe
    /\ UNCHANGED <<mode, reopened>>

\* Eviction or flushPage.
WriteBack(p) ==
    /\ mode = "open" /\ durable[p] # nodes[p]
    /\ durable' = [durable EXCEPT ![p] = nodes[p]]
    /\ safe' = IF Written(durable') /\ ~threw THEN AllKeys ELSE safe
    /\ UNCHANGED <<vars, mode, calls, reopened, given>>

\* ~BufferManager: flushAll
Close ==
    /\ mode = "open" /\ pc = "idle"
    /\ durable' = [p \in Pages |-> IF p \in Allocated THEN nodes[p] ELSE durable[p]]
    /\ mode' = "closed"
    /\ safe' = IF threw THEN {} ELSE AllKeys
    /\ UNCHANGED <<vars, calls, reopened, given>>

\* The constructor finds the root in the meta page; next_page_id is in the file too.
Recover ==
    /\ nodes' = [p \in Allocated |-> durable[p]]
    /\ rootPageId' = metaRoot
    /\ pc' = "idle" /\ path' = <<>>
    /\ UNCHANGED <<metaRoot, op, res, loaded, contents, rows, threw, durable, calls, given, safe>>

Reopen ==
    /\ mode = "closed" /\ reopened < MaxReopen
    /\ Recover
    /\ cur' = metaRoot
    /\ mode' = "open" /\ reopened' = reopened + 1

\* The process dies between two steps, and the file is opened again to be read.
Crash ==
    /\ mode = "open"
    /\ Recover
    /\ mode' = "crashed"
    /\ UNCHANGED <<cur, reopened>>

RecoveryNext ==
    \/ TreeStep
    \/ \E p \in Allocated : WriteBack(p)
    \/ Close
    \/ Reopen
    \/ Crash

RecoverySpec == RecoveryInit /\ [][RecoveryNext]_rvars

-----------------------------------------------------------------------------
(* Properties *)

\* findLeafPage over the file, as long as it meets written nodes.  A page of zeros is an
\* internal node without keys whose child is the meta page, read as an internal node too.
\* Where that leads depends on the counter and the root in its bytes and on the length of the
\* file; such a search is not followed, and nothing is said of it.
Astray == 0
RecoveredLeaf(k) ==
    LET at[d \in 0 .. MaxPages] ==
          IF d = 0 THEN rootPageId
          ELSE LET p == at[d - 1] IN
               IF p = Astray \/ nodes[p] = Unwritten THEN Astray
               ELSE IF nodes[p].isLeaf THEN p ELSE ChildFor(nodes[p], k)
    IN at[MaxPages]

\* After an orderly end, the tree read from the file is the map that was asked for: also
\* keys of leaves that were never written before the end.  When an allocation has failed in
\* mid-split keys may be lost, but what a search finds is what was inserted.
ReopenFindsContents ==
    mode = "open" /\ pc = "idle" => \A k \in AllKeys :
        Search(rootPageId, k) = contents[k] \/ (threw /\ Search(rootPageId, k) = NotFound)

\* Whatever part of the tree a crash leaves, in whatever mixture of old and new pages, a
\* search that meets no unwritten page finds the key with a value it was inserted with, or
\* does not find it.
CrashInventsNothing ==
    mode = "crashed" => \A k \in AllKeys :
        RecoveredLeaf(k) # Astray =>
            Search(rootPageId, k) \in given[k] \cup {NotFound}

\* Once all pages are in the file, a crash loses no key that no later call was about,
\* provided that those calls changed leaves in place: the pages need no order among them.
SettledKeysSurvive ==
    mode = "crashed" => \A k \in safe :
        RecoveredLeaf(k) # Astray /\ Search(rootPageId, k) = contents[k]

=============================================================================
