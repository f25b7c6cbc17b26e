---------------------------- MODULE StorageFaults ----------------------------
(***************************************************************************)
(* Storage over a disk whose writes may fail: DiskManager::writePage       *)
(* throws, and the page in the file stays as it was.  Where the write is   *)
(* the first thing a call does, a failure changes nothing (writePage,      *)
(* flushPage); in the destructor it ends the process, which is Crash.      *)
(* saveMeta and setRootPageId have changed the meta page in memory by then *)
(* and left it marked dirty.                                               *)
(***************************************************************************)
EXTENDS Storage

CONSTANTS
    MaxFailures     \* writes that fail (bound)

ASSUME MaxFailuresAssumption == MaxFailures \in Nat

VARIABLES
    failures,       \* history: how many writes failed
    newRoot         \* history: the roots setRootPageId was called with since the last one that
                    \* is known to be in the file, that one included

fvars == <<vars, failures, newRoot>>

FaultInit == Init /\ failures = 0 /\ newRoot = {0}

\* a meta page that is marked clean before it is written (a mistake)
PutMetaFailsClean(s, m) == [s EXCEPT !.cache[META_PAGE_ID] = m]

\* The meta page is changed and marked, then the write throws.
PutMetaFails(s, m) ==
    [s EXCEPT !.cache[META_PAGE_ID] = m, !.dirty = @ \cup {META_PAGE_ID}]

\* saveMeta throws in allocatePage: the id is used up and nobody gets it.
AllocateFails ==
    /\ pc = "open" /\ store.next < MaxPages
    /\ LET p == store.next
           s == [store EXCEPT !.next = p + 1, !.cache[p] = Fresh,
                              !.loaded = @ \cup {p}, !.dirty = @ \cup {p}]
       IN store' = PutMetaFails(s, Meta(p + 1, s.cache[META_PAGE_ID].root))
    /\ UNCHANGED <<pc, i, handed, latest, lastRoot, newRoot>>

SetRootFails(p) ==
    /\ pc = "open"
    /\ store' = PutMetaFails(store, [store.cache[META_PAGE_ID] EXCEPT !.root = p])
    /\ newRoot' = newRoot \cup {p}
    /\ UNCHANGED <<pc, i, handed, latest, lastRoot>>

Fails ==
    /\ failures < MaxFailures /\ failures' = failures + 1
    /\ AllocateFails \/ \E p \in PageIds : SetRootFails(p)

\* A call that writes the meta page, or the end of the process, settles which root is in
\* the file.
Works ==
    /\ Next
    /\ newRoot' = IF META_PAGE_ID \in store.dirty /\ META_PAGE_ID \in store'.dirty
                  THEN newRoot ELSE {AsMeta(DiskRead(store', META_PAGE_ID)).root}
    /\ UNCHANGED failures

FaultNext == Works \/ Fails

FaultSpec == FaultInit /\ [][FaultNext]_fvars

-----------------------------------------------------------------------------
(* Properties *)

\* The counter in the file is always one loadMeta accepts.  Only after a failed write does the
\* meta page in memory differ from the one in the file, and then it is marked dirty, so that
\* the next call that saves it, or the destructor, makes up for the failure.
MetaWriteMadeUp ==
    /\ DiskMeta.next \in 1 .. MaxPages
    /\ pc # "down" =>
         /\ store.numPages > 0 /\ META_PAGE_ID \in store.loaded
         /\ IF META_PAGE_ID \in store.dirty THEN failures > 0
            ELSE store.cache[META_PAGE_ID] = store.disk[META_PAGE_ID]

\* getRootPageId returns the last root set, after a crash or a restart too.  After a failed
\* setRootPageId the file has the old root or, once the meta page was saved for another
\* reason, the new one; never one that was not asked for.
RootOldOrNew ==
    /\ DiskMeta.root \in newRoot /\ (pc # "down" => GetRootPageId(store) \in newRoot)
    /\ failures = 0 => RootSurvives
=============================================================================
