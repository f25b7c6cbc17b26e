----------------------------- MODULE BTreeIndex -----------------------------
(***************************************************************************)
(* BTreeIndex: a B+ tree whose nodes are pages.  Descent and recursion are *)
(* made explicit: path is the stack of insertRec or removeRec calls, cur   *)
(* the page the innermost call looks at, res what the last call returned,  *)
(* and each action is the rest of one call.  A node is loaded, changed in  *)
(* memory and saved again with one page pinned at a time, so the pages are *)
(* a map from ids to nodes here; BufferManager shows that such a map is    *)
(* what its clients see.  allocPage may throw at MAX_PAGES: the exception  *)
(* leaves what was saved before it and ends the operation.                 *)
(***************************************************************************)
EXTENDS Integers, SequencesExt

CONSTANTS
    BTREE_ORDER,
    MaxPages,       \* MAX_PAGES
    Load,           \* keys inserted first, in this order
    Keys,           \* keys inserted and removed after that
    ValuesOf(_),    \* the values a key is inserted with
    NotFound,       \* what search returns for a key it does not find
    Rows,           \* how many pages of the file may hold rows instead of nodes
    FullWith        \* of Rows: with so many, insertions start even if a split could hit MAX_PAGES

ASSUME OrderAssumption == BTREE_ORDER \in Nat \ {0} /\ BTREE_ORDER % 2 = 0
ASSUME TreePagesAssumption == MaxPages \in Nat /\ MaxPages > 1
ASSUME LoadAssumption == Load \in Seq(Int) /\ Keys \subseteq Int
ASSUME RowsAssumption == Rows \subseteq 0 .. MaxPages - 2 /\ FullWith \subseteq Rows

BTREE_MIN == (BTREE_ORDER + 1) \div 2

VARIABLES
    nodes,          \* the content of each allocated page
    rootPageId,     \* rootPageId_
    metaRoot,       \* the root in the meta page
    pc,             \* "idle", "descend", "return"
    op,             \* the operation in progress, or the last one
    cur, path, res,
    loaded,         \* how much of Load is inserted
    contents,       \* history: the map the calls so far ask for
    rows,           \* pages that hold rows; the ids of nodes are counted without them
    threw           \* history: whether an allocation has failed in mid-split

vars == <<nodes, rootPageId, metaRoot, pc, op, cur, path, res, loaded, contents, rows, threw>>
tree == <<nodes, rootPageId, metaRoot>>
call == <<pc, op, cur, path, res>>

Pages == 1 .. MaxPages - 1
Allocated == DOMAIN nodes
AllKeys == Keys \cup ToSet(Load)
Values == UNION {ValuesOf(k) : k \in AllKeys}

\* Leaf and internal nodes; nextLeaf is -1 at the end of the chain.
Leaf(keys, values, next) ==
    [isLeaf |-> TRUE, keys |-> keys, values |-> values, children |-> <<>>, nextLeaf |-> next]
Internal(keys, children) ==
    [isLeaf |-> FALSE, keys |-> keys, values |-> <<>>, children |-> children, nextLeaf |-> -1]

Node ==
    [isLeaf : BOOLEAN, keys : Seq(Int), values : Seq(Values), children : Seq(Pages),
     nextLeaf : Pages \cup {-1}]

\* InsertResult; promoted = -1 says that the child was not split.
NoSplit == [promoted |-> -1, child |-> -1]
\* RemoveResult is the same record with underflow.
Result == [promoted : Int, child : Pages \cup {-1}] \cup [underflow : BOOLEAN]

TypeOK ==
    /\ Allocated \subseteq Pages /\ nodes \in [Allocated -> Node]
    /\ rootPageId \in Allocated /\ metaRoot \in Allocated
    /\ pc \in {"idle", "descend", "return"}
    /\ op \in [kind : {"insert", "remove"}, key : AllKeys, value : Values \cup {NotFound}]
    /\ cur \in Allocated
    /\ path \in Seq([page : Allocated, idx : Nat])
    /\ res \in Result
    /\ loaded \in 0 .. Len(Load)
    /\ contents \in [AllKeys -> Values \cup {NotFound}]
    /\ rows \in Rows /\ Cardinality(Allocated) + rows < MaxPages
    /\ threw \in BOOLEAN

\* The constructor on an empty file: a leaf is the root.
Init ==
    /\ nodes = [p \in {1} |-> Leaf(<<>>, <<>>, -1)]
    /\ rootPageId = 1 /\ metaRoot = 1
    /\ pc = "idle"
    /\ op \in [kind : {"remove"}, key : {CHOOSE k \in AllKeys : TRUE}, value : {NotFound}]
    /\ cur = 1
    /\ path = <<>>
    /\ res = NoSplit
    /\ loaded = 0
    /\ contents = [k \in AllKeys |-> NotFound]
    /\ rows \in Rows /\ threw = FALSE

-----------------------------------------------------------------------------
(* Positions in a node, counted from 0 as in the code *)

LowerBound(keys, k) == Cardinality({j \in DOMAIN keys : keys[j] < k})

UpperBound(keys, k) == Cardinality({j \in DOMAIN keys : keys[j] <= k})

ChildFor(node, k) == node.children[UpperBound(node.keys, k) + 1]

\* The first n and the other elements of a sequence.
Take(s, n) == SubSeq(s, 1, n)
Drop(s, n) == SubSeq(s, n + 1, Len(s))

\* saveNode on allocated pages; allocPage returns the next page id.
NextPage == Cardinality(Allocated) + 1

CanAlloc == NextPage + rows < MaxPages
Save(pages) == [p \in Allocated \cup DOMAIN pages |->
                   IF p \in DOMAIN pages THEN pages[p] ELSE nodes[p]]

\* The leaf findLeafPage reaches from the root, in at most one step per page.
FindLeafPage(root, k) ==
    LET at[d \in 0 .. MaxPages] ==
          IF d = 0 THEN root
          ELSE LET p == at[d - 1] IN
               IF nodes[p].isLeaf THEN p ELSE ChildFor(nodes[p], k)
    IN at[MaxPages]

Search(root, k) ==
    LET leaf == nodes[FindLeafPage(root, k)]
        idx == LowerBound(leaf.keys, k)
    IN IF idx < Len(leaf.keys) /\ leaf.keys[idx + 1] = k THEN leaf.values[idx + 1]
       ELSE NotFound

-----------------------------------------------------------------------------
(* insert *)

\* An insertion may split the nodes of one descent and add a root; all leaves have the
\* same depth, so that any descent will do.
Levels ==
    LET depth[d \in 0 .. MaxPages] ==
          IF d = 0 THEN [page |-> rootPageId, n |-> 1]
          ELSE LET at == depth[d - 1] IN
               IF nodes[at.page].isLeaf THEN at
               ELSE [page |-> Head(nodes[at.page].children), n |-> at.n + 1]
    IN depth[MaxPages].n

Begin(kind, k, v) ==
    /\ pc = "idle"
    /\ pc' = "descend"
    /\ op' = [kind |-> kind, key |-> k, value |-> v]
    /\ cur' = rootPageId
    /\ path' = <<>>
    /\ contents' = [contents EXCEPT ![k] = v]
    /\ UNCHANGED <<tree, res, rows, threw>>

BeginInsert(k, v) ==
    /\ rows \in FullWith \/ NextPage + rows + Levels < MaxPages
    /\ IF loaded < Len(Load)
       THEN k = Load[loaded + 1] /\ loaded' = loaded + 1
       ELSE k \in Keys /\ UNCHANGED loaded
    /\ Begin("insert", k, v)

BeginRemove(k) ==
    /\ loaded = Len(Load) /\ UNCHANGED loaded
    /\ Begin("remove", k, NotFound)

\* A call of insertRec or removeRec on an internal node, up to the nested call.
Descend ==
    /\ pc = "descend" /\ ~nodes[cur].isLeaf
    /\ LET idx == UpperBound(nodes[cur].keys, op.key) IN
       /\ path' = Append(path, [page |-> cur, idx |-> idx])
       /\ cur' = nodes[cur].children[idx + 1]
    /\ UNCHANGED <<tree, pc, op, res, loaded, contents, rows, threw>>

\* The call returns r to the one that made it.
Return(r) ==
    /\ pc' = "return"
    /\ res' = r
    /\ UNCHANGED <<op, cur, loaded, contents, rows, threw>>

\* An exception leaves insert or remove.
Throw ==
    /\ pc' = "idle"
    /\ path' = <<>>
    /\ threw' = TRUE
    /\ UNCHANGED <<tree, op, cur, res, loaded, contents, rows>>

AtLeaf(kind) == pc = "descend" /\ nodes[cur].isLeaf /\ op.kind = kind

\* A node with the key and value, or with the promoted key and child, inserted.
LeafWith(leaf, k, v) ==
    LET idx == LowerBound(leaf.keys, k) IN
    [leaf EXCEPT !.keys = InsertAt(@, idx + 1, k), !.values = InsertAt(@, idx + 1, v)]
InternalWith(node, idx, r) ==
    Internal(InsertAt(node.keys, idx + 1, r.promoted),
             InsertAt(node.children, idx + 2, r.child))

LeafUpsert ==
    /\ AtLeaf("insert") /\ Contains(nodes[cur].keys, op.key)
    /\ nodes' = [nodes EXCEPT ![cur].values[LowerBound(nodes[cur].keys, op.key) + 1] = op.value]
    /\ Return(NoSplit)
    /\ UNCHANGED <<rootPageId, metaRoot, path>>

LeafInsert ==
    /\ AtLeaf("insert") /\ ~Contains(nodes[cur].keys, op.key)
    /\ LET leaf == LeafWith(nodes[cur], op.key, op.value) IN
       /\ Len(leaf.keys) <= BTREE_ORDER
       /\ nodes' = [nodes EXCEPT ![cur] = leaf]
    /\ Return(NoSplit)
    /\ UNCHANGED <<rootPageId, metaRoot, path>>

\* splitLeaf that does not hand the old successor to the right half (a mistake)
SplitLeafUnlinked(leaf, right) ==
    LET mid == Len(leaf.keys) \div 2 IN
    << Leaf(Take(leaf.keys, mid), Take(leaf.values, mid), right),
       Leaf(Drop(leaf.keys, mid), Drop(leaf.values, mid), -1) >>

\* splitLeaf: the left and the right half, the right one in a new page
SplitLeaf(leaf, right) ==
    LET mid == Len(leaf.keys) \div 2 IN
    << Leaf(Take(leaf.keys, mid), Take(leaf.values, mid), right),
       Leaf(Drop(leaf.keys, mid), Drop(leaf.values, mid), leaf.nextLeaf) >>

LeafSplit ==
    /\ AtLeaf("insert") /\ ~Contains(nodes[cur].keys, op.key)
    /\ Len(nodes[cur].keys) >= BTREE_ORDER
    /\ CanAlloc
    /\ LET halves == SplitLeaf(LeafWith(nodes[cur], op.key, op.value), NextPage) IN
       /\ nodes' = Save([p \in {cur, NextPage} |-> IF p = cur THEN halves[1] ELSE halves[2]])
       /\ Return([promoted |-> Head(halves[2].keys), child |-> NextPage])
    /\ UNCHANGED <<rootPageId, metaRoot, path>>

LeafSplitThrows ==
    /\ AtLeaf("insert") /\ ~Contains(nodes[cur].keys, op.key)
    /\ Len(nodes[cur].keys) >= BTREE_ORDER
    /\ ~CanAlloc
    /\ Throw

\* insertRec and removeRec after the nested call.
Returning(kind) == pc = "return" /\ path # <<>> /\ op.kind = kind
Caller == Last(path)
PopCall == path' = Front(path)

NoSplitUp ==
    /\ Returning("insert") /\ res.promoted = -1
    /\ PopCall
    /\ Return(NoSplit)
    /\ UNCHANGED tree

Grown == InternalWith(nodes[Caller.page], Caller.idx, res)

InternalInsert ==
    /\ Returning("insert") /\ res.promoted # -1
    /\ Len(Grown.keys) <= BTREE_ORDER
    /\ nodes' = [nodes EXCEPT ![Caller.page] = Grown]
    /\ PopCall
    /\ Return(NoSplit)
    /\ UNCHANGED <<rootPageId, metaRoot>>

\* splitInternal: the middle key moves up
InternalSplit ==
    /\ Returning("insert") /\ res.promoted # -1
    /\ Len(Grown.keys) > BTREE_ORDER
    /\ CanAlloc
    /\ LET mid == Len(Grown.keys) \div 2
           left == Internal(Take(Grown.keys, mid), Take(Grown.children, mid + 1))
           right == Internal(Drop(Grown.keys, mid + 1), Drop(Grown.children, mid + 1))
       IN /\ nodes' = Save([p \in {Caller.page, NextPage} |->
                               IF p = Caller.page THEN left ELSE right])
          /\ Return([promoted |-> Grown.keys[mid + 1], child |-> NextPage])
    /\ PopCall
    /\ UNCHANGED <<rootPageId, metaRoot>>

\* allocPage throws after the level below was split and saved.
InternalSplitThrows ==
    /\ Returning("insert") /\ res.promoted # -1
    /\ Len(Grown.keys) > BTREE_ORDER
    /\ ~CanAlloc
    /\ Throw

Finish ==
    /\ pc' = "idle"
    /\ UNCHANGED <<op, cur, path, res, loaded, contents, rows, threw>>

InsertReturns ==
    /\ pc = "return" /\ path = <<>> /\ op.kind = "insert" /\ res.promoted = -1
    /\ Finish
    /\ UNCHANGED tree

\* a root that is not entered in the meta page (a mistake)
GrowRootForgetsMeta ==
    /\ pc = "return" /\ path = <<>> /\ op.kind = "insert" /\ res.promoted # -1
    /\ CanAlloc
    /\ nodes' = Save([p \in {NextPage} |->
                         Internal(<<res.promoted>>, <<rootPageId, res.child>>)])
    /\ rootPageId' = NextPage
    /\ Finish
    /\ UNCHANGED metaRoot

GrowRoot ==
    /\ pc = "return" /\ path = <<>> /\ op.kind = "insert" /\ res.promoted # -1
    /\ CanAlloc
    /\ nodes' = Save([p \in {NextPage} |->
                         Internal(<<res.promoted>>, <<rootPageId, res.child>>)])
    /\ rootPageId' = NextPage
    /\ metaRoot' = NextPage
    /\ Finish

GrowRootThrows ==
    /\ pc = "return" /\ path = <<>> /\ op.kind = "insert" /\ res.promoted # -1
    /\ ~CanAlloc
    /\ Throw
-----------------------------------------------------------------------------
(* remove *)

\* an underflow noticed one key late (a mistake)
UnderflowsLate(leaf) == Len(leaf.keys) < BTREE_MIN - 1 /\ cur # rootPageId

Underflows(leaf) == Len(leaf.keys) < BTREE_MIN /\ cur # rootPageId

\* removal of the key without its value (a mistake)
LeafRemoveKeyOnly ==
    /\ AtLeaf("remove") /\ Contains(nodes[cur].keys, op.key)
    /\ LET idx == LowerBound(nodes[cur].keys, op.key)
           leaf == [nodes[cur] EXCEPT !.keys = RemoveAt(@, idx + 1)]
       IN /\ nodes' = [nodes EXCEPT ![cur] = leaf]
          /\ Return([underflow |-> Underflows(leaf)])
    /\ UNCHANGED <<rootPageId, metaRoot, path>>

LeafRemove ==
    /\ AtLeaf("remove") /\ Contains(nodes[cur].keys, op.key)
    /\ LET idx == LowerBound(nodes[cur].keys, op.key)
           leaf == [nodes[cur] EXCEPT !.keys = RemoveAt(@, idx + 1),
                                      !.values = RemoveAt(@, idx + 1)]
       IN /\ nodes' = [nodes EXCEPT ![cur] = leaf]
          /\ Return([underflow |-> Underflows(leaf)])
    /\ UNCHANGED <<rootPageId, metaRoot, path>>

LeafRemoveAbsent ==
    /\ AtLeaf("remove") /\ ~Contains(nodes[cur].keys, op.key)
    /\ Return([underflow |-> FALSE])
    /\ UNCHANGED <<tree, path>>

NoUnderflowUp ==
    /\ Returning("remove") /\ ~res.underflow
    /\ PopCall
    /\ Return([underflow |-> FALSE])
    /\ UNCHANGED tree

\* fixUnderflow looks at the left sibling first, then at the right one.
Underflow == Returning("remove") /\ res.underflow
Parent == nodes[Caller.page]
Child(n) == Parent.children[n + 1]
CanLend(n) == n >= 0 /\ n < Len(Parent.children) /\ Len(nodes[Child(n)].keys) > BTREE_MIN
BorrowsLeft == CanLend(Caller.idx - 1)
BorrowsRight == ~BorrowsLeft /\ CanLend(Caller.idx + 1)

SetKey(node, n, k) == [node EXCEPT !.keys[n + 1] = k]

\* borrowFromLeft that leaves the separator in the parent as it was (a mistake)
LentLeftStale(left, child, n) ==
    [left   |-> [left EXCEPT !.keys = Front(@), !.values = Front(@)],
     child  |-> [child EXCEPT !.keys = <<Last(left.keys)>> \o @,
                              !.values = <<Last(left.values)>> \o @],
     parent |-> Parent]

\* What borrowFromLeft makes of the sibling, the child n and the parent: a leaf gets
\* the sibling's last entry, an internal node the separator and the last grandchild.
LentLeft(left, child, n) ==
    IF child.isLeaf
    THEN [left   |-> [left EXCEPT !.keys = Front(@), !.values = Front(@)],
          child  |-> [child EXCEPT !.keys = <<Last(left.keys)>> \o @,
                                   !.values = <<Last(left.values)>> \o @],
          parent |-> SetKey(Parent, n - 1, Last(left.keys))]
    ELSE [left   |-> Internal(Front(left.keys), Front(left.children)),
          child  |-> Internal(<<Parent.keys[n]>> \o child.keys,
                              <<Last(left.children)>> \o child.children),
          parent |-> SetKey(Parent, n - 1, Last(left.keys))]

\* borrowFromRight; the separator becomes the first key left in the right leaf, or the
\* one that leaves the right internal node.
LentRight(child, right, n) ==
    IF child.isLeaf
    THEN [right  |-> [right EXCEPT !.keys = Tail(@), !.values = Tail(@)],
          child  |-> [child EXCEPT !.keys = Append(@, Head(right.keys)),
                                   !.values = Append(@, Head(right.values))],
          parent |-> SetKey(Parent, n, right.keys[2])]
    ELSE [right  |-> Internal(Tail(right.keys), Tail(right.children)),
          child  |-> Internal(Append(child.keys, Parent.keys[n + 1]),
                              Append(child.children, Head(right.children))),
          parent |-> SetKey(Parent, n, Head(right.keys))]

BorrowFromLeft ==
    /\ Underflow /\ BorrowsLeft
    /\ LET n == Caller.idx
           lent == LentLeft(nodes[Child(n - 1)], nodes[Child(n)], n)
       IN nodes' = [nodes EXCEPT ![Child(n - 1)] = lent.left, ![Child(n)] = lent.child,
                                 ![Caller.page] = lent.parent]
    /\ PopCall
    /\ Return([underflow |-> FALSE])
    /\ UNCHANGED <<rootPageId, metaRoot>>

BorrowFromRight ==
    /\ Underflow /\ BorrowsRight
    /\ LET n == Caller.idx
           lent == LentRight(nodes[Child(n)], nodes[Child(n + 1)], n)
       IN nodes' = [nodes EXCEPT ![Child(n + 1)] = lent.right, ![Child(n)] = lent.child,
                                 ![Caller.page] = lent.parent]
    /\ PopCall
    /\ Return([underflow |-> FALSE])
    /\ UNCHANGED <<rootPageId, metaRoot>>

\* a merge that loses the separator (a mistake)
MergedNoSeparator(left, right, separator) ==
    IF left.isLeaf
    THEN Leaf(left.keys \o right.keys, left.values \o right.values, right.nextLeaf)
    ELSE Internal(left.keys \o right.keys, left.children \o right.children)

\* Two leaves, or two internal nodes with the separator between them.
Merged(left, right, separator) ==
    IF left.isLeaf
    THEN Leaf(left.keys \o right.keys, left.values \o right.values, right.nextLeaf)
    ELSE Internal(Append(left.keys, separator) \o right.keys, left.children \o right.children)

\* The page merged away is saved without keys and never used again.
Emptied(node) ==
    IF node.isLeaf THEN Leaf(<<>>, <<>>, node.nextLeaf)
    ELSE Internal(<<>>, <<Head(node.children)>>)

\* mergeChildren, into the left sibling if there is one; fixUnderflow then reports an
\* underflow of the parent whatever number of keys the parent has left.
MergeChildren ==
    /\ Underflow /\ ~BorrowsLeft /\ ~BorrowsRight
    /\ LET n == IF Caller.idx > 0 THEN Caller.idx - 1 ELSE 0
           left == nodes[Child(n)]
           right == nodes[Child(n + 1)]
       IN nodes' = [nodes EXCEPT
              ![Child(n)] = Merged(left, right, Parent.keys[n + 1]),
              ![Child(n + 1)] = Emptied(right),
              ![Caller.page] = Internal(RemoveAt(Parent.keys, n + 1),
                                        RemoveAt(Parent.children, n + 2))]
    /\ PopCall
    /\ Return([underflow |-> Caller.page # rootPageId])
    /\ UNCHANGED <<rootPageId, metaRoot>>

RemoveReturned == pc = "return" /\ path = <<>> /\ op.kind = "remove"
RootEmpty == ~nodes[rootPageId].isLeaf /\ nodes[rootPageId].keys = <<>>

ShrinkRoot ==
    /\ RemoveReturned /\ RootEmpty
    /\ rootPageId' = Head(nodes[rootPageId].children)
    /\ metaRoot' = Head(nodes[rootPageId].children)
    /\ Finish
    /\ UNCHANGED nodes

RemoveReturns ==
    /\ RemoveReturned /\ ~RootEmpty
    /\ Finish
    /\ UNCHANGED tree

InsertStep ==
    \/ LeafUpsert \/ LeafInsert \/ LeafSplit \/ LeafSplitThrows
    \/ NoSplitUp \/ InternalInsert \/ InternalSplit \/ InternalSplitThrows
    \/ InsertReturns \/ GrowRoot \/ GrowRootThrows

RemoveStep ==
    \/ LeafRemove \/ LeafRemoveAbsent
    \/ NoUnderflowUp \/ BorrowFromLeft \/ BorrowFromRight \/ MergeChildren
    \/ ShrinkRoot \/ RemoveReturns

Next ==
    \/ \E k \in AllKeys : \E v \in ValuesOf(k) : BeginInsert(k, v)
    \/ \E k \in Keys : BeginRemove(k)
    \/ Descend
    \/ InsertStep
    \/ RemoveStep

Spec == Init /\ [][Next]_vars

-----------------------------------------------------------------------------
(* Properties; between calls, a descent from the root is a search *)

\* The pages of level d below the root, leftmost first.
LevelPages(n) ==
    LET at[d \in 0 .. n] ==
          IF d = 0 THEN <<rootPageId>>
          ELSE LET above == at[d - 1] IN
               FlattenSeq([j \in DOMAIN above |-> nodes[above[j]].children])
    IN at[n]
Reachable == UNION {ToSet(LevelPages(d)) : d \in 0 .. Levels - 1}

\* search from the root in memory, and from the root a new BTreeIndex would read, finds
\* each key with the value last inserted, and no key removed or never inserted; after an
\* allocation has failed in mid-split it may miss keys, but finds no other value.
SearchFindsContents ==
    pc = "idle" => \A k \in AllKeys, root \in {rootPageId, metaRoot} :
        Search(root, k) = contents[k] \/ (threw /\ Search(root, k) = NotFound)

\* The leaves, from the leftmost, are linked in key order and hold every key once: a range
\* scan along nextLeaf sees the contents.
LeafChain ==
    pc = "idle" /\ ~threw =>
        LET leaves == LevelPages(Levels - 1)
            keys == FlattenSeq([j \in DOMAIN leaves |-> nodes[leaves[j]].keys])
        IN /\ \A j \in DOMAIN leaves :
                 /\ nodes[leaves[j]].isLeaf
                 /\ nodes[leaves[j]].nextLeaf = IF j < Len(leaves) THEN leaves[j + 1] ELSE -1
           /\ \A j \in 1 .. Len(keys) - 1 : keys[j] < keys[j + 1]

\* Every node is in a page of the file, also in the middle of a call; between calls no page is
\* used twice and an internal node has one child more than keys.
NodesWellFormed ==
    /\ TypeOK
    /\ pc = "idle" =>
        /\ \A d \in 0 .. Levels - 1 : IsInjective(LevelPages(d))
        /\ \A p \in Reachable : ~nodes[p].isLeaf => Len(nodes[p].children) = Len(nodes[p].keys) + 1

\* Every node but the root has at least BTREE_MIN keys (BTreeIndex.hpp).
MinOccupancy ==
    pc = "idle" => \A p \in Reachable \ {rootPageId} : Len(nodes[p].keys) >= BTREE_MIN

\* No node has more than BTREE_ORDER keys ("maximo de claves por nodo", BNode.hpp).
MaxOccupancy ==
    pc = "idle" => \A p \in Reachable : Len(nodes[p].keys) <= BTREE_ORDER
=============================================================================
