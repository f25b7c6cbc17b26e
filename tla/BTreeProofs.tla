---------------------------- MODULE BTreeProofs -----------------------------
(***************************************************************************)
(* The pages of BTreeIndex are a search tree of what was asked for, for    *)
(* every order of the tree, number of pages, set of keys and load file,    *)
(* under one hypothesis: no key is -1, which is what InsertResult has in   *)
(* promoted after an insertion that split nothing. With a key -1 the split *)
(* that promotes it is dropped; the run btree_sentinel shows that.         *)
(* TreeInv, the inductive invariant, is proved step by step of the code,   *)
(* one lemma for each action, from the lemmas on trees. What a search      *)
(* returns, how full nodes are and that they are well formed follow from   *)
(* it. Over a file that is closed, reopened and left by a crash, TreeInv   *)
(* is one conjunct of RecoveryInv, whose others relate the pages of the    *)
(* file to the tree: the search after orderly restarts, what a search      *)
(* after a crash can find, and what it still finds, follow from that one.  *)
(***************************************************************************)
EXTENDS BTreeLemmas

\* The caller a of a call that split its page into p and q at r.
CallerAt(N, root, trail, live, h, rng, a, i, p, q, r) ==
    /\ a = Last(trail).page /\ i = Last(trail).idx + 1 /\ p = Target(N, root, trail)
    /\ a \in live /\ a \in Pages /\ ~N[a].isLeaf /\ i \in 1 .. Len(N[a].keys) + 1
        /\ i - 1 = Last(trail).idx
    /\ p = N[a].children[i] /\ q # a /\ q # root /\ q \in live /\ q \in Pages
    /\ r \in AllKeys /\ r \in Int /\ r \in rng[a] /\ IsSlot(N[a].keys, r, i - 1)
    /\ Beside(p, q, r, h, rng)
    /\ \A k \in rng[q] : k \in rng[a] /\ IsSlot(N[a].keys, k, i - 1)
    /\ h[q] < h[root] /\ h[q] < h[a] /\ h[a] \in Nat

\* A split page has been returned to its caller.
LEMMA CallerOf ==
    ASSUME NEW N, NEW tops, NEW live, NEW h, NEW rng, NEW par, IsTree(N, tops, live, h, rng, par),
           NEW root \in tops, NEW trail \in Seq(Frame), trail # <<>>,
               Linked(N, root, trail, live, h),
           NEW r, NEW q \in tops, Halves(N, root, trail, live, h, rng, r, q)
    PROVE  CallerAt(N, root, trail, live, h, rng,
                    Last(trail).page, Last(trail).idx + 1, Target(N, root, trail), q, r)
  <1> DEFINE a == Last(trail).page
             i == Last(trail).idx + 1
             p == Target(N, root, trail)
  <1>1. /\ p \in live /\ p \in Pages
        /\ Last(trail) \in Frame /\ a \in live /\ ~N[a].isLeaf
        /\ i \in 1 .. Len(N[a].keys) + 1
        /\ p = N[a].children[i]
        /\ h[a] \in Nat /\ h[p] = h[a] - 1 /\ h[p] < h[root] /\ h[root] \in Nat
    BY TargetIs
  <1>2. /\ q # p /\ Beside(p, q, r, h, rng) /\ r \in AllKeys /\ r \in rng[q]
        /\ \A k \in rng[q] : k \in rng[a] /\ IsSlot(N[a].keys, k, Last(trail).idx)
    BY DEF Halves
  <1>3. i - 1 = Last(trail).idx
    <2>1. Last(trail).idx \in Nat
      BY <1>1 DEF Frame
    <2> QED
      BY <2>1
  <1>4. h[q] = h[p] /\ h[q] < h[root] /\ h[q] < h[a]
    <2>1. h[q] = h[p]
      BY ONLY <1>2 DEF Beside
    <2> QED
      BY ONLY <1>1, <2>1
  <1>5. q # a /\ q # root
    BY <1>1, <1>4
  <1>6. a \in Pages /\ r \in Int /\ q \in live /\ q \in Pages
    BY <1>1, <1>2, KeysAreNumbers DEF IsTree, TreeOK, GhostType
  <1> QED
    BY <1>1, <1>2, <1>3, <1>4, <1>5, <1>6 DEF CallerAt

\* The caller with the promoted key and child.
GrownWith(n, i, r, q) == Internal(InsertAt(n.keys, i, r), InsertAt(n.children, i + 1, q))

\* x is the internal node n with one key more.
IsGrown(n, x) ==
    /\ x \in Node /\ Shape(x) /\ ~x.isLeaf /\ Len(x.keys) = Len(n.keys) + 1 /\ Len(n.keys) \in Nat

\* The caller a takes q in, with the key r between its i-th child p and q.
Grows(N, root, trail, live, h, rng, a, i, p, q, r, N2) ==
    /\ CallerAt(N, root, trail, live, h, rng, a, i, p, q, r)
    /\ live \subseteq DOMAIN N2 /\ \A x \in live \ {a} : N2[x] = N[x]
    /\ N2[a] = GrownWith(N[a], i, r, q)

\* q gets the parent a.
GivenTo(par, q, a) == [par EXCEPT ![q] = a]

\* Then q is no top any more, and the pages are a tree that stores the same.
LEMMA GrownTree ==
    ASSUME NEW N, NEW tops, NEW live, NEW h, NEW rng, NEW par, IsTree(N, tops, live, h, rng, par),
           NEW root \in tops, NEW trail, NEW a, NEW i, NEW p, NEW q \in tops, NEW r,
           NEW N2, Grows(N, root, trail, live, h, rng, a, i, p, q, r, N2)
    PROVE  /\ IsTree(N2, tops \ {q}, live, h, rng, GivenTo(par, q, a))
           /\ Stored(N2, live) = Stored(N, live)
           /\ IsGrown(N[a], N2[a])
  <1> USE DEF Grows, GivenTo
  <1>1. Attaches(N, tops, live, h, rng, a, i, p, q, r, N2)
    BY DEF Attaches, CallerAt, GrownWith
  <1>2. /\ IsTree(N2, tops \ {q}, live, h, rng, [par EXCEPT ![q] = a])
        /\ Stored(N2, live) = Stored(N, live)
    BY ONLY <1>1, IsTree(N, tops, live, h, rng, par), AttachTree
  <1>3. N2[a] \in Node
    BY <1>2, LiveNode DEF IsTree, CallerAt
  <1>4. /\ N[a].keys \in Seq(Int) /\ Len(N[a].keys) \in Nat
    BY LiveNode, NodeFields DEF IsTree, CallerAt
  <1>5. Len(InsertAt(N[a].keys, i, r)) = Len(N[a].keys) + 1
    <2>1. i \in 1 .. Len(N[a].keys) + 1 /\ r \in Int
      BY DEF CallerAt
    <2> DEFINE ks == N[a].keys
               T == Int
    <2>2. ks \in Seq(T) /\ i \in 1 .. Len(ks) + 1 /\ r \in T
      BY <1>4, <2>1
    <2> HIDE DEF ks, T
    <2>3. Inserted(ks, i, r, InsertAt(ks, i, r))
      BY ONLY <2>2, InsertAtIs
    <2> QED
      BY <2>3 DEF Inserted, ks
  <1>6. GrownWith(N[a], i, r, q).keys = InsertAt(N[a].keys, i, r)
      /\ ~GrownWith(N[a], i, r, q).isLeaf
        /\ Shape(GrownWith(N[a], i, r, q))
    BY ShapeOf DEF GrownWith, Internal
  <1> QED
    BY <1>2, <1>3, <1>4, <1>5, <1>6 DEF IsGrown

\* What the caller does with a split.
LEMMA GrownIs ==
    ASSUME NEW live, NEW h, NEW rng, NEW par, TreeState(live, h, rng, par), Base,
           Returning("insert"), res.promoted # -1
    PROVE  /\ Tops = {rootPageId, res.child} /\ Pending /\ path \in Seq(Frame) /\ res.child \in Tops
           /\ IsTree(nodes, Tops, live, h, rng, par) /\ rootPageId \in Tops /\ path # <<>>
           /\ CallerAt(nodes, rootPageId, path, live, h, rng, Caller.page, Caller.idx + 1,
                       Target(nodes, rootPageId, path), res.child, res.promoted)
           /\ Grown = GrownWith(nodes[Caller.page], Caller.idx + 1, res.promoted, res.child)
           /\ Filled(nodes, rootPageId, live, 0)
           /\ Heights(rootPageId, {rootPageId}, live, h)
           /\ Faithful(Stored(nodes, live), contents, {}, threw)
  <1>1. Pending /\ path # <<>> /\ path \in Seq(Frame) /\ Tops = {rootPageId, res.child}
    BY DEF Returning, Pending, Base, Tops
  <1>2. /\ IsTree(nodes, Tops, live, h, rng, par) /\ Linked(nodes, rootPageId, path, live, h)
        /\ Halves(nodes, rootPageId, path, live, h, rng, res.promoted, res.child)
    BY <1>1 DEF TreeState
  <1>3. CallerAt(nodes, rootPageId, path, live, h, rng, Caller.page, Caller.idx + 1,
                 Target(nodes, rootPageId, path), res.child, res.promoted)
    <2> PICK tops, r, q : tops = Tops /\ r = res.promoted /\ q = res.child
      OBVIOUS
    <2>1. /\ IsTree(nodes, tops, live, h, rng, par) /\ Linked(nodes, rootPageId, path, live, h)
          /\ Halves(nodes, rootPageId, path, live, h, rng, r, q)
          /\ rootPageId \in tops /\ q \in tops /\ path \in Seq(Frame) /\ path # <<>>
      BY <1>1, <1>2
    <2>2. CallerAt(nodes, rootPageId, path, live, h, rng, Last(path).page, Last(path).idx + 1,
                   Target(nodes, rootPageId, path), q, r)
      BY ONLY <2>1, CallerOf
    <2> QED
      BY <2>2 DEF Caller
  <1>4. Grown = GrownWith(nodes[Caller.page], Caller.idx + 1, res.promoted, res.child)
    <2>1. Caller.idx \in Nat
      <3>1. Last(path) \in Frame
        BY <1>1, FrontOf
      <3> QED
        BY <3>1 DEF Caller, Frame
    <2>2. Caller.idx + 2 = Caller.idx + 1 + 1
      BY <2>1
    <2> QED
      BY <2>2 DEF Grown, GrownWith, InternalWith
  <1>5. Filled(nodes, rootPageId, live, 0)
    BY <1>1 DEF TreeState, LowPage, Pending
  <1>6. Heights(rootPageId, {rootPageId}, live, h)
    <2>1. Heights(rootPageId, Tops, live, h) /\ h[res.child] < h[rootPageId]
      BY <1>3 DEF TreeState, CallerAt
    <2> QED
      BY <1>1, <2>1 DEF Heights
  <1>7. Faithful(Stored(nodes, live), contents, {}, threw)
    BY <1>1 DEF TreeState, Open, Pending
  <1> QED
    BY <1>1, <1>2, <1>3, <1>4, <1>5, <1>6, <1>7

\* The caller takes the right half in.
LEMMA InternalInsertKeeps ==
    ASSUME NEW live, NEW h, NEW rng, NEW par, TreeState(live, h, rng, par), Base,
           InternalInsert
    PROVE  Carries(live, h)
  <1>1. TreeState(live, h, rng, par)
    OBVIOUS
  <1> PICK a, i, q, r : a = Caller.page /\ i = Caller.idx + 1 /\ q = res.child /\ r = res.promoted
    OBVIOUS
  <1> PICK x : x = GrownWith(nodes[a], i, r, q)
    OBVIOUS
  <1>2. /\ Base /\ Returning("insert") /\ pc' = "return" /\ op.kind = "insert" /\ path # <<>>
        /\ res.promoted # -1
        /\ rootPageId' = rootPageId /\ metaRoot' = metaRoot /\ path' = Front(path)
        /\ op' = op /\ cur' = cur /\ contents' = contents /\ rows' = rows /\ threw' = threw
        /\ res' = NoSplit /\ nodes' = [nodes EXCEPT ![a] = Grown]
    BY DEF InternalInsert, Return, Returning, PopCall
  <1>3. /\ IsTree(nodes, Tops, live, h, rng, par) /\ rootPageId \in Tops /\ q \in Tops
        /\ Tops = {rootPageId, q}
        /\ CallerAt(nodes, rootPageId, path, live, h, rng, a, i, Target(nodes, rootPageId, path),
            q, r)
        /\ Grown = x
        /\ Filled(nodes, rootPageId, live, 0) /\ Heights(rootPageId, {rootPageId}, live, h)
        /\ Faithful(Stored(nodes, live), contents, {}, threw)
        /\ path \in Seq(Frame)
    BY <1>1, <1>2, GrownIs
  <1>4. a \in live /\ a \in Allocated /\ live \subseteq Allocated /\ q # rootPageId /\ 0 \notin live
        /\ a = Last(path).page
    <2>1. a \in live /\ q # rootPageId /\ a = Last(path).page
      BY ONLY <1>3 DEF CallerAt
    <2>2. live \subseteq Allocated /\ live \subseteq Pages
      BY ONLY <1>3 DEF IsTree, TreeOK, GhostType, Allocated
    <2>3. 0 \notin Pages
      BY ONLY TreePagesAssumption DEF Pages
    <2> QED
      BY ONLY <2>1, <2>2, <2>3
  <1>5. nodes' = [nodes EXCEPT ![a] = x]
    BY <1>2, <1>3
  <1>6. live \subseteq DOMAIN nodes' /\ nodes'[a] = x /\ \A p \in live \ {a} : nodes'[p] = nodes[p]
    BY <1>4, <1>5 DEF Allocated
  <1>7. /\ IsTree(nodes', Tops \ {q}, live, h, rng, GivenTo(par, q, a))
        /\ Stored(nodes', live) = Stored(nodes, live)
        /\ IsGrown(nodes[a], x)
    <2>1. Grows(nodes, rootPageId, path, live, h, rng, a, i, Target(nodes, rootPageId, path), q,
        r, nodes')
      BY <1>3, <1>6 DEF Grows
    <2>2. IsTree(nodes, Tops, live, h, rng, par) /\ rootPageId \in Tops /\ q \in Tops
      BY <1>3
    <2>3. /\ IsTree(nodes', Tops \ {q}, live, h, rng, GivenTo(par, q, a))
          /\ Stored(nodes', live) = Stored(nodes, live)
          /\ IsGrown(nodes[a], nodes'[a])
      BY ONLY <2>1, <2>2, GrownTree
    <2> QED
      BY <1>6, <2>3
  <1>8. Tops' = {rootPageId} /\ Tops \ {q} = {rootPageId} /\ ~Pending' /\ Open' = {} /\ LowPage' = 0
    BY <1>2, <1>3, <1>4 DEF Tops, Pending, Open, LowPage, NoSplit
  <1>9. /\ Linked(nodes', rootPageId, path', live, h) /\ path' \in Seq(Frame)
        /\ path' = <<>> <=> a = rootPageId
        /\ path' # <<>> => nodes'[rootPageId] = nodes[rootPageId]
    <2>1. Above(nodes, live, h, h[Last(path).page], nodes', live, h)
      <3>1. h[a] \in Nat
        BY <1>3 DEF CallerAt
      <3> QED
        BY <1>4, <1>6, <3>1 DEF Above
    <2>2. Linked(nodes, rootPageId, path, live, h)
      BY <1>1 DEF TreeState
    <2>3. /\ Linked(nodes', rootPageId, Front(path), live, h)
          /\ Front(path) \in Seq(Frame)
          /\ Front(path) = <<>> <=> Last(path).page = rootPageId
          /\ Front(path) # <<>> => nodes'[rootPageId] = nodes[rootPageId]
      <3>1. /\ IsTree(nodes, Tops, live, h, rng, par) /\ rootPageId \in Tops
            /\ path # <<>> /\ path \in Seq(Frame)
        BY <1>2, <1>3
      <3> QED
        BY ONLY <2>1, <2>2, <3>1, PathPops
    <2> QED
      BY <1>2, <1>4, <2>3
  <1>10. Filled(nodes', rootPageId, live, 0)
    <2>1. ASSUME NEW p \in live \ {rootPageId} PROVE Len(nodes'[p].keys) >= BTREE_MIN
      <3>1. Len(nodes[p].keys) >= BTREE_MIN
        BY <1>3, <1>4 DEF Filled
      <3>2. CASE p = a
        BY <1>6, <1>7, <3>1, <3>2, KeysAreNumbers DEF IsGrown
      <3>3. CASE p # a
        BY <1>6, <3>1, <3>3
      <3> QED
        BY <3>2, <3>3
    <2> QED
      BY <1>4, <2>1 DEF Filled
  <1>11. RootFilled'
    <2>1. CASE a = rootPageId
      BY <1>2, <1>6, <1>7, <2>1 DEF RootFilled, IsGrown
    <2>2. CASE a # rootPageId
      <3>1. RootFilled
        BY <1>1 DEF TreeState
      <3> QED
        BY <1>2, <1>9, <2>2, <3>1 DEF RootFilled
    <2> QED
      BY <2>1, <2>2
  <1>12. TreeState(live, h, rng, GivenTo(par, q, a))'
    BY <1>2, <1>3, <1>7, <1>8, <1>9, <1>10, <1>11 DEF TreeState
  <1>13. Base'
    <2>1. PagesOK(nodes') /\ DOMAIN nodes' = Allocated
      <3>1. SavesOver(a, x, nodes')
        BY <1>4, <1>5, <1>7 DEF SavesOver, IsGrown
      <3>2. PagesOK(nodes)
        BY <1>2 DEF Base
      <3> QED
        BY ONLY <3>1, <3>2, SavedOver
    <2>2. Allocated' = Allocated
      BY <2>1 DEF Allocated
    <2> QED
      BY <1>2, <1>9, <2>1, <2>2, ResultsAre DEF Base
  <1>14. Carried(live, h, live, h)
    <2>1. Allocated' = Allocated /\ \A p \in Allocated \ live : nodes'[p] = nodes[p]
      BY <1>4, <1>5 DEF Allocated
    <2> QED
      BY <2>1 DEF Carried
  <1> QED
    BY <1>12, <1>13, <1>14 DEF Carries

\* The halves of an internal node x, but for the key that moves up.
LEMMA InternalHalves ==
    ASSUME NEW x \in Node, Len(x.keys) > BTREE_ORDER, Len(x.children) = Len(x.keys) + 1,
           NEW m, m = Len(x.keys) \div 2
    PROVE  /\ m \in Nat /\ m \in 0 .. Len(x.keys) - 1 /\ m >= BTREE_MIN /\ m + 1 \in DOMAIN x.keys
           /\ x.keys[m + 1] \in Int
           /\ Internal(Take(x.keys, m), Take(x.children, m + 1)) \in Node
           /\ Internal(Drop(x.keys, m + 1), Drop(x.children, m + 1)) \in Node
           /\ Len(Take(x.keys, m)) = m /\ Len(Drop(x.keys, m + 1)) >= BTREE_MIN
  <1> DEFINE ks == x.keys
             cs == x.children
             l == Len(ks)
  <1>1. /\ ks \in Seq(Int) /\ cs \in Seq(Pages) /\ l \in Nat /\ DOMAIN ks = 1 .. l
           /\ l > BTREE_ORDER
        /\ Len(cs) = l + 1 /\ m = l \div 2
    BY NodeFields
  <1>2. BTREE_MIN \in Nat /\ BTREE_MIN > 0
    BY KeysAreNumbers
  <1> HIDE DEF ks, cs, l
  <1>3. /\ m \in Nat /\ m >= BTREE_MIN /\ m \in 1 .. l - 1 /\ l - m - 1 >= BTREE_MIN
    BY ONLY <1>1, HalfIsEnough
  <1>4. /\ m \in 0 .. l - 1 /\ m + 1 \in 1 .. l /\ m \in 0 .. l /\ m + 1 \in 0 .. l
        /\ m + 1 \in 0 .. l + 1 /\ l - (m + 1) = l - m - 1
    <2>1. m \in 1 .. l - 1 /\ l \in Nat
      BY <1>1, <1>3
    <2> QED
      BY ONLY <2>1
  <1>5. Take(ks, m) \in Seq(Int) /\ Len(Take(ks, m)) = m
        /\ Drop(ks, m + 1) \in Seq(Int) /\ Len(Drop(ks, m + 1)) = l - (m + 1)
    <2> DEFINE T == Int
    <2>1. ks \in Seq(T) /\ m \in 0 .. Len(ks) /\ m + 1 \in 0 .. Len(ks) /\ Len(ks) = l
      BY <1>1, <1>4 DEF l
    <2> HIDE DEF T
    <2>2. Take(ks, m) \in Seq(T) /\ Len(Take(ks, m)) = m
      BY ONLY <2>1, TakeEffect
    <2>3. Drop(ks, m + 1) \in Seq(T) /\ Len(Drop(ks, m + 1)) = Len(ks) - (m + 1)
      BY ONLY <2>1, DropEffect
    <2> QED
      BY <2>1, <2>2, <2>3 DEF T
  <1>6. Take(cs, m + 1) \in Seq(Pages) /\ Drop(cs, m + 1) \in Seq(Pages)
    <2> DEFINE T == Pages
    <2>1. cs \in Seq(T) /\ m + 1 \in 0 .. Len(cs)
      BY <1>1, <1>4
    <2> HIDE DEF T
    <2>2. Take(cs, m + 1) \in Seq(T)
      BY ONLY <2>1, TakeEffect
    <2>3. Drop(cs, m + 1) \in Seq(T)
      BY ONLY <2>1, DropEffect
    <2> QED
      BY <2>2, <2>3 DEF T
  <1>7. /\ Internal(Take(ks, m), Take(cs, m + 1)) \in Node
        /\ Internal(Drop(ks, m + 1), Drop(cs, m + 1)) \in Node
    BY <1>5, <1>6, InternalIsNode
  <1>8. ks[m + 1] \in Int /\ m + 1 \in DOMAIN ks
    <2>1. m + 1 \in DOMAIN ks
      BY <1>1, <1>4
    <2> PICK e : e = m + 1
      OBVIOUS
    <2>2. ks[e] \in Int
      <3> DEFINE T == Int
      <3>1. ks \in Seq(T) /\ e \in DOMAIN ks
        BY <1>1, <2>1
      <3> HIDE DEF T
      <3>2. ks[e] \in T
        BY ONLY <3>1
      <3> QED
        BY <3>2 DEF T
    <2> QED
      BY <2>1, <2>2
  <1>9. Len(Drop(ks, m + 1)) >= BTREE_MIN
    BY Zenon, <1>3, <1>4, <1>5
  <1> QED
    BY <1>1, <1>3, <1>4, <1>5, <1>7, <1>8, <1>9 DEF ks, cs, l

\* The caller is split in turn.
LEMMA InternalSplitKeeps ==
    ASSUME NEW live, NEW h, NEW rng, NEW par, TreeState(live, h, rng, par), Base,
           InternalSplit, -1 \notin AllKeys
    PROVE  Carries(live, h)
  <1>1. TreeState(live, h, rng, par)
    OBVIOUS
  <1> PICK a, i, q, r : a = Caller.page /\ i = Caller.idx + 1 /\ q = res.child /\ r = res.promoted
    OBVIOUS
  <1> PICK x : x = GrownWith(nodes[a], i, r, q)
    OBVIOUS
  <1> PICK m : m = Len(x.keys) \div 2
    OBVIOUS
  <1> PICK s : s = NextPage
    OBVIOUS
  <1> PICK left, right, t : /\ left = Internal(Take(x.keys, m), Take(x.children, m + 1))
                            /\ right = Internal(Drop(x.keys, m + 1), Drop(x.children, m + 1))
                            /\ t = x.keys[m + 1]
    OBVIOUS
  <1>2. /\ Base /\ Returning("insert") /\ pc' = "return" /\ op.kind = "insert" /\ path # <<>>
        /\ res.promoted # -1 /\ CanAlloc
        /\ rootPageId' = rootPageId /\ metaRoot' = metaRoot /\ path' = Front(path)
        /\ op' = op /\ cur' = cur /\ contents' = contents /\ rows' = rows /\ threw' = threw
    BY DEF InternalSplit, Return, Returning, PopCall
  <1>3. /\ IsTree(nodes, Tops, live, h, rng, par) /\ rootPageId \in Tops /\ q \in Tops
        /\ Tops = {rootPageId, q}
        /\ CallerAt(nodes, rootPageId, path, live, h, rng, a, i, Target(nodes, rootPageId, path),
            q, r)
        /\ Grown = x
        /\ Filled(nodes, rootPageId, live, 0) /\ Heights(rootPageId, {rootPageId}, live, h)
        /\ Faithful(Stored(nodes, live), contents, {}, threw)
        /\ path \in Seq(Frame)
    BY <1>1, <1>2, GrownIs
  <1>4. /\ a \in live /\ a \in Allocated /\ live \subseteq Allocated /\ q # rootPageId
           /\ 0 \notin live
        /\ a = Last(path).page /\ live \subseteq Pages /\ h \in [Pages -> Nat]
            /\ rng \in [Pages -> SUBSET Int]
    <2>1. a \in live /\ a = Last(path).page /\ q # rootPageId
      BY <1>3 DEF CallerAt
    <2>2. /\ live \subseteq Allocated /\ live \subseteq Pages /\ h \in [Pages -> Nat]
          /\ rng \in [Pages -> SUBSET Int]
      BY <1>3 DEF IsTree, TreeOK, Allocated, GhostType
    <2>3. 0 \notin Pages
      BY ONLY TreePagesAssumption DEF Pages
    <2> QED
      BY <2>1, <2>2, <2>3
  <1>5. /\ nodes' = Save([p \in {a, s} |-> IF p = a THEN left ELSE right])
        /\ res' = [promoted |-> t, child |-> s] /\ Len(x.keys) > BTREE_ORDER
    BY <1>3 DEF InternalSplit, Return
  <1>6. PagesOK(nodes) /\ rows \in Rows
    BY <1>2 DEF Base
  <1>7. /\ s \in Pages \ Allocated /\ \A p \in Allocated : p < s
        /\ s + rows < MaxPages /\ s # 0
    <2>1. NextPage \notin Allocated /\ \A p \in Allocated : p < NextPage
      BY ONLY <1>6, PagesAre
    <2>2. NextPage \in Pages /\ NextPage + rows < MaxPages
      BY ONLY <1>2, <1>6, PagesAre
    <2>3. 0 \notin Pages
      BY ONLY TreePagesAssumption DEF Pages
    <2> QED
      BY <2>1, <2>2, <2>3
  <1> PICK N3 : N3 = [nodes EXCEPT ![a] = x]
    OBVIOUS
  <1>8. /\ live \subseteq DOMAIN N3 /\ N3[a] = x /\ \A p \in live \ {a} : N3[p] = nodes[p]
    BY <1>4 DEF Allocated
  <1> PICK par3 : par3 = GivenTo(par, q, a)
    OBVIOUS
  <1>9. /\ IsTree(N3, {rootPageId}, live, h, rng, par3)
        /\ Stored(N3, live) = Stored(nodes, live)
        /\ IsGrown(nodes[a], x)
    <2>1. Grows(nodes, rootPageId, path, live, h, rng, a, i, Target(nodes, rootPageId, path), q,
        r, N3)
      BY <1>3, <1>8 DEF Grows
    <2>2. IsTree(nodes, Tops, live, h, rng, par) /\ rootPageId \in Tops /\ q \in Tops
      BY <1>3
    <2>3. /\ IsTree(N3, Tops \ {q}, live, h, rng, GivenTo(par, q, a))
          /\ Stored(N3, live) = Stored(nodes, live)
          /\ IsGrown(nodes[a], N3[a])
      BY ONLY <2>1, <2>2, GrownTree
    <2>4. Tops \ {q} = {rootPageId}
      BY <1>3, <1>4
    <2> QED
      BY <1>8, <2>3, <2>4
  <1>10. /\ Linked(N3, rootPageId, path', live, h) /\ path' \in Seq(Frame)
         /\ Target(N3, rootPageId, path') = a
         /\ path' = <<>> <=> a = rootPageId
         /\ path' # <<>> => N3[rootPageId] = nodes[rootPageId]
    <2>1. Above(nodes, live, h, h[Last(path).page], N3, live, h)
      <3>1. h[a] \in Nat
        BY <1>3 DEF CallerAt
      <3> QED
        BY ONLY <1>4, <1>8, <3>1 DEF Above
    <2>2. Linked(nodes, rootPageId, path, live, h)
      BY <1>1 DEF TreeState
    <2>3. /\ Linked(N3, rootPageId, Front(path), live, h)
          /\ Target(N3, rootPageId, Front(path)) = Last(path).page
          /\ Front(path) \in Seq(Frame)
          /\ Front(path) = <<>> <=> Last(path).page = rootPageId
          /\ Front(path) # <<>> => N3[rootPageId] = nodes[rootPageId]
      <3>1. /\ IsTree(nodes, Tops, live, h, rng, par) /\ rootPageId \in Tops
            /\ path # <<>> /\ path \in Seq(Frame)
        BY <1>2, <1>3
      <3> QED
        BY ONLY <2>1, <2>2, <3>1, PathPops
    <2> QED
      BY <1>2, <1>4, <2>3
  <1>11. /\ x \in Node /\ Len(x.children) = Len(x.keys) + 1 /\ ~x.isLeaf
         /\ \A j \in DOMAIN x.keys : x.keys[j] \in rng[a] /\ x.keys[j] \in AllKeys
    <2>1. TreeOK(N3, {rootPageId}, live, h, rng, par3) /\ a \in live
      BY <1>4, <1>9 DEF IsTree
    <2>2. /\ N3[a] \in Node /\ ~N3[a].isLeaf => Len(N3[a].children) = Len(N3[a].keys) + 1
          /\ \A j \in DOMAIN N3[a].keys : N3[a].keys[j] \in rng[a] /\ N3[a].keys[j] \in AllKeys
      BY ONLY <2>1, LiveNode
    <2> QED
      BY Zenon, <1>8, <1>9, <2>2 DEF IsGrown
  <1>12. /\ m \in Nat /\ m \in 0 .. Len(x.keys) - 1 /\ m >= BTREE_MIN /\ m + 1 \in DOMAIN x.keys
         /\ t \in Int /\ left \in Node /\ right \in Node
         /\ Len(left.keys) = m /\ Len(right.keys) >= BTREE_MIN
    <2>1. left.keys = Take(x.keys, m) /\ right.keys = Drop(x.keys, m + 1)
      BY DEF Internal
    <2> QED
      BY ONLY Zenon, <1>5, <1>11, <2>1, InternalHalves, m = Len(x.keys) \div 2,
              left = Internal(Take(x.keys, m), Take(x.children, m + 1)),
              right = Internal(Drop(x.keys, m + 1), Drop(x.children, m + 1)), t = x.keys[m + 1]
  <1>13. t \in AllKeys /\ t \in rng[a] /\ t # -1
    BY Zenon, <1>11, <1>12
  <1>14. Shape(left) /\ Shape(right) /\ ~left.isLeaf
    BY Zenon, ShapeOf
  <1>15. /\ PagesOK(nodes') /\ DOMAIN nodes' = Allocated \cup {s} /\ Cardinality(DOMAIN nodes') = s
         /\ nodes'[a] = left /\ nodes'[s] = right
         /\ \A p \in Allocated \ {a} : nodes'[p] = nodes[p]
    <2> PICK f : f = [p \in {a, s} |-> IF p = a THEN left ELSE right]
      BY Zenon
    <2>1. DOMAIN f = {a, s} /\ f[a] = left /\ f[s] = right
      BY Zenon, <1>4, <1>7
    <2>2. SavesNew(f, nodes')
      BY Zenon, <1>4, <1>5, <1>12, <1>14, <2>1 DEF SavesNew
    <2>3. /\ PagesOK(nodes') /\ DOMAIN nodes' = Allocated \cup {NextPage}
          /\ Cardinality(DOMAIN nodes') = NextPage
          /\ \A p \in DOMAIN f : nodes'[p] = f[p]
          /\ \A p \in Allocated \ DOMAIN f : nodes'[p] = nodes[p]
      BY ONLY <1>2, <1>6, <2>2, SavedNew
    <2>4. /\ nodes'[a] = left /\ nodes'[s] = right
          /\ \A p \in Allocated \ {a} : nodes'[p] = nodes[p]
      <3>1. a \in DOMAIN f /\ s \in DOMAIN f
        BY Zenon, <2>1
      <3>2. \A p \in Allocated \ {a} : p \notin DOMAIN f
        BY Zenon, <1>7, <2>1
      <3> QED
        BY ONLY <2>1, <2>3, <3>1, <3>2
    <2> QED
      BY Zenon, <1>7, <2>3, <2>4
  <1>16. SplitsInternal(N3, live, a, s, m, t, nodes')
    <2>1. \A p \in live \ {a} : nodes'[p] = N3[p]
      BY <1>4, <1>8, <1>15
    <2> QED
      BY Zenon, <1>4, <1>7, <1>8, <1>11, <1>12, <1>15, <2>1 DEF SplitsInternal
  <1> PICK h2, rng2, live2, par2 : /\ h2 = AsHigh(h, a, s) /\ rng2 = CutRange(rng, a, s, t)
                                   /\ live2 = live \cup {s} /\ par2 = SplitPar(N3, a, s, m, par3)
    BY Zenon
  <1>17. /\ IsTree(nodes', {rootPageId, s}, live2, h2, rng2, par2) /\ Beside(a, s, t, h2, rng2)
         /\ Stored(nodes', live2) = Stored(nodes, live)
    <2>1. /\ IsTree(nodes', {rootPageId} \cup {s}, live \cup {s}, AsHigh(h, a, s),
             CutRange(rng, a, s, t),
                    SplitPar(N3, a, s, m, par3))
          /\ Beside(a, s, t, AsHigh(h, a, s), CutRange(rng, a, s, t))
          /\ Stored(nodes', live \cup {s}) = Stored(N3, live)
      BY ONLY <1>9, <1>16, SplitInternalTree
    <2>2. {rootPageId} \cup {s} = {rootPageId, s}
      OBVIOUS
    <2> QED
      BY Zenon, <1>9, <2>1, <2>2
  <1>18. /\ Linked(nodes', rootPageId, path', live2, h2)
         /\ Halves(nodes', rootPageId, path', live2, h2, rng2, t, s)
         /\ \A p \in live : h2[p] = h[p]
         /\ h2[s] = h[a] /\ rootPageId \in live
         /\ path' # <<>> => nodes'[rootPageId] = nodes[rootPageId]
    <2>1. s \in Pages \ live /\ \A p \in live \ {a} : nodes'[p] = N3[p]
      BY Zenon, <1>4, <1>7, <1>8, <1>15
    <2>2. SplitsAt(N3, rootPageId, path', live, h, rng, a, s, t, nodes', h2, rng2)
      BY Zenon, <1>10, <1>13, <1>17, <2>1 DEF SplitsAt
    <2>3. live2 = live \cup {s} /\ rootPageId \in {rootPageId}
      OBVIOUS
    <2>4. IsSplitAt(N3, rootPageId, path', live, h, a, s, t, nodes', h2, rng2)
      BY ONLY <1>9, <2>2, <2>3, HalvesOf
    <2> QED
      BY Zenon, <1>10, <2>3, <2>4 DEF IsSplitAt
  <1>19. /\ Pending' /\ Tops' = {rootPageId, s} /\ Open' = {} /\ LowPage' = 0
    BY Zenon, <1>2, <1>5, <1>13 DEF Pending, Tops, Open, LowPage
  <1>20. Heights(rootPageId, {rootPageId, s}, live2, h2)
    <2>1. /\ \A p \in live \ {rootPageId} : h[p] < h[rootPageId]
          /\ \A p \in live : h[p] < p
      BY <1>3 DEF Heights
    <2>2. h2[rootPageId] = h[rootPageId] /\ h2[s] < s
      <3>1. a < s /\ h[a] < a /\ h[a] \in Nat
        <4>1. a \in Allocated /\ a \in live
          BY <1>4
        <4>2. a < s
          BY ONLY <1>7, <4>1
        <4>3. h[a] < a
          BY <2>1, <4>1
        <4>4. h \in [Pages -> Nat] /\ a \in Pages
          BY Zenon, <1>4, <4>1
        <4>5. h[a] \in Nat
          BY ONLY <4>4
        <4> QED
          BY ONLY <4>2, <4>3, <4>5
      <3>2. \A p \in Pages : p \in Nat
        BY ONLY TreePagesAssumption DEF Pages
      <3>3. a \in Nat /\ s \in Nat
        BY Zenon, <1>4, <1>7, <3>2
      <3>4. h2[s] = h[a] /\ h2[rootPageId] = h[rootPageId]
        BY Zenon, <1>18
      <3>5. h[a] < s
        BY ONLY <3>1, <3>3
      <3> QED
        BY <3>4, <3>5
    <2>3. \A p \in live2 : h2[p] < p
      BY Zenon, <1>18, <2>1, <2>2
    <2>4. \A p \in live2 \ {rootPageId, s} : h2[p] < h2[rootPageId]
      BY Zenon, <1>18, <2>1, <2>2
    <2> QED
      BY Zenon, <2>3, <2>4 DEF Heights
  <1>21. Filled(nodes', rootPageId, live2, 0)
    <2>1. 0 \notin live2
      BY Zenon, <1>4, <1>7
    <2>2. Len(left.keys) >= BTREE_MIN /\ Len(right.keys) >= BTREE_MIN
      BY ONLY <1>12
    <2>3. \A p \in live \ {a} : nodes'[p] = nodes[p]
      BY Zenon, <1>4, <1>15
    <2> QED
      BY Zenon, <1>3, <1>4, <1>15, <2>1, <2>2, <2>3 DEF Filled
  <1>22. RootFilled'
    <2>1. CASE a = rootPageId
      <3>1. Len(left.keys) > 0
        <4> PICK b : b = BTREE_MIN
          OBVIOUS
        <4>3. m >= b /\ m \in Nat
          BY Zenon, <1>12
        <4>4. b \in Nat /\ b > 0
          BY KeysAreNumbers
        <4>1. b \in Nat /\ b > 0 /\ m >= b /\ m \in Int
          BY ONLY <4>3, <4>4
        <4>2. m > 0
          BY ONLY <4>1
        <4> QED
          BY Zenon, <1>12, <4>2
      <3> QED
        BY Zenon, <1>2, <1>15, <2>1, <3>1 DEF RootFilled
    <2>2. CASE a # rootPageId
      <3>1. RootFilled
        BY <1>1 DEF TreeState
      <3> QED
        BY Zenon, <1>2, <1>10, <1>18, <2>2, <3>1 DEF RootFilled
    <2> QED
      BY <2>1, <2>2
  <1>25. RootHalf'
    <2>1. path' = <<>> => nodes'[rootPageId] = left
      BY Zenon, <1>10, <1>15
    <2>2. Len(left.keys) >= BTREE_MIN
      BY ONLY <1>12
    <2> QED
      BY Zenon, <1>2, <2>1, <2>2 DEF RootHalf
  <1>23. TreeState(live2, h2, rng2, par2)'
    <2>1. res'.promoted = t /\ res'.child = s
      BY Zenon, <1>5
    <2> QED
      BY Zenon, <1>2, <1>3, <1>17, <1>18, <1>19, <1>20, <1>21, <1>22, <1>25, <2>1 DEF TreeState
  <1>24. Base'
    <2>1. res' \in ResultOf("insert") /\ res' \in Result
      BY Zenon, <1>5, <1>7, <1>12, ResultsAre
    <2>2. Allocated' = Allocated \cup {s} /\ Cardinality(Allocated') = s
      BY Zenon, <1>15 DEF Allocated
    <2> QED
      BY Zenon, <1>2, <1>7, <1>10, <1>15, <2>1, <2>2 DEF Base
  <1>26. Carried(live, h, live2, h2)
    <2>1. /\ Allocated' = Allocated \cup {s} /\ live2 = live \cup {s} /\ s \notin Allocated
          /\ a \in live
      BY <1>4, <1>7, <1>15 DEF Allocated
    <2>2. \A p \in Allocated \ {a} : nodes'[p] = nodes[p]
      BY <1>7, <1>15
    <2> QED
      BY <1>18, <2>1, <2>2 DEF Carried
  <1> QED
    BY Zenon, <1>23, <1>24, <1>26 DEF Carries

-----------------------------------------------------------------------------
(* The root gets a parent when it is split, and gives way to an only child *)

\* The root was split, and a new one is put above its halves.
LEMMA GrowRootKeeps ==
    ASSUME NEW live, NEW h, NEW rng, NEW par, TreeState(live, h, rng, par), Base,
           GrowRoot
    PROVE  Carries(live, h)
  <1>1. TreeState(live, h, rng, par)
    OBVIOUS
  <1> PICK p, q, r : p = rootPageId /\ q = res.child /\ r = res.promoted
    OBVIOUS
  <1> PICK s : s = NextPage
    OBVIOUS
  <1> PICK x : x = Internal(<<r>>, <<p, q>>)
    OBVIOUS
  <1>2. /\ Base /\ pc = "return" /\ pc' = "idle" /\ op.kind = "insert" /\ path = <<>>
           /\ path' = path
        /\ res.promoted # -1 /\ CanAlloc
        /\ rootPageId' = s /\ metaRoot' = s
        /\ op' = op /\ cur' = cur /\ contents' = contents /\ rows' = rows /\ threw' = threw
            /\ res' = res
        /\ nodes' = Save([y \in {s} |-> x])
    BY DEF GrowRoot, Finish
  <1>3. Pending /\ Tops = {p, q} /\ ~Pending' /\ Tops' = {s} /\ Open = {} /\ Open' = {}
      /\ LowPage = 0
        /\ LowPage' = 0
    BY <1>2 DEF Pending, Tops, Open, LowPage
  <1>4. /\ IsTree(nodes, {p, q}, live, h, rng, par)
        /\ Heights(p, {p, q}, live, h)
        /\ Halves(nodes, p, path, live, h, rng, r, q)
        /\ Filled(nodes, p, live, 0) /\ Len(nodes[p].keys) >= BTREE_MIN
        /\ Faithful(Stored(nodes, live), contents, {}, threw)
    BY <1>1, <1>2, <1>3 DEF TreeState, RootHalf
  <1>5. /\ q # p /\ Beside(p, q, r, h, rng) /\ r \in AllKeys /\ r \in rng[q] /\ r \in Int
           /\ h[q] = h[p]
    BY <1>2, <1>4, KeysAreNumbers DEF Halves, Target, Beside
  <1>6. PagesOK(nodes) /\ rows \in Rows
    BY <1>2 DEF Base
  <1>7. /\ p \in live /\ q \in live /\ live \subseteq Allocated /\ live \subseteq Pages
        /\ h \in [Pages -> Nat]
    BY <1>4 DEF IsTree, TreeOK, GhostType, Allocated
  <1>8. 0 \notin Pages /\ \A y \in Pages : y \in Nat
    BY ONLY TreePagesAssumption DEF Pages
  <1>9. /\ s \in Pages \ Allocated /\ \A y \in Allocated : y < s
        /\ s + rows < MaxPages /\ s # 0
    BY <1>2, <1>6, <1>8, PagesAre
  <1>10. x \in Node /\ Shape(x) /\ ~x.isLeaf /\ x.keys = <<r>>
    <2>1. <<r>> \in Seq(Int) /\ <<p, q>> \in Seq(Pages)
      BY <1>5, <1>7
    <2>2. x \in Node
      BY <2>1, InternalIsNode
    <2> QED
      BY <2>2, ShapeOf DEF Internal
  <1>11. /\ PagesOK(nodes') /\ DOMAIN nodes' = Allocated \cup {s} /\ Cardinality(DOMAIN nodes') = s
         /\ nodes'[s] = x
         /\ \A y \in Allocated : nodes'[y] = nodes[y]
    <2> PICK f : f = [y \in {s} |-> x]
      OBVIOUS
    <2>1. DOMAIN f = {s} /\ f[s] = x
      OBVIOUS
    <2>2. SavesNew(f, nodes')
      BY <1>2, <1>10, <2>1 DEF SavesNew
    <2>3. /\ PagesOK(nodes') /\ DOMAIN nodes' = Allocated \cup {NextPage}
          /\ Cardinality(DOMAIN nodes') = NextPage
          /\ \A y \in DOMAIN f : nodes'[y] = f[y]
          /\ \A y \in Allocated \ DOMAIN f : nodes'[y] = nodes[y]
      BY ONLY <1>2, <1>6, <2>2, SavedNew
    <2> QED
      BY <1>9, <2>1, <2>3
  <1> PICK live2, h2, rng2, par2 :
         /\ live2 = live \cup {s} /\ h2 = RootHeight(h, p, s) /\ rng2 = RootRange(rng, p, q, s)
         /\ par2 = Adopt(par, {p, q}, s)
    OBVIOUS
  <1>12. /\ IsTree(nodes', {s}, live2, h2, rng2, par2)
         /\ Stored(nodes', live2) = Stored(nodes, live)
    <2>1. GrowsRoot(nodes, {p, q}, live, h, rng, p, q, r, s, nodes')
      BY <1>5, <1>7, <1>9, <1>11 DEF GrowsRoot
    <2>3. ({p, q} \ {p, q}) \cup {s} = {s}
      OBVIOUS
    <2>2. /\ IsTree(nodes', ({p, q} \ {p, q}) \cup {s}, live \cup {s}, RootHeight(h, p, s),
             RootRange(rng, p, q, s),
                    Adopt(par, {p, q}, s))
          /\ Stored(nodes', live \cup {s}) = Stored(nodes, live)
      BY ONLY <1>4, <2>1, GrowTree
    <2> QED
      BY <2>2, <2>3
  <1>13. Heights(s, {s}, live2, h2)
    <2>1. h2[s] = h[p] + 1 /\ \A y \in live : h2[y] = h[y]
      BY <1>7, <1>9 DEF RootHeight
    <2>2. /\ \A y \in live \ {p, q} : h[y] < h[p]
          /\ \A y \in live : h[y] < y /\ h[y] \in Nat /\ y \in Nat /\ y < s
      BY <1>4, <1>7, <1>8, <1>9 DEF Heights
    <2>3. h[p] \in Nat /\ h[p] < p /\ p < s /\ p \in Nat /\ s \in Nat
      BY <1>7, <1>8, <1>9, <2>2
    <2>4. h2[s] < s
      BY <2>1, <2>3
    <2>5. \A y \in live2 : h2[y] < y
      BY <2>1, <2>2, <2>4
    <2>6. ASSUME NEW y \in live PROVE h2[y] < h2[s]
      <3>1. h[y] = h[p] \/ h[y] < h[p]
        BY <1>5, <2>2
      <3>2. h[y] \in Nat
        BY <2>2
      <3> QED
        BY <2>1, <2>3, <3>1, <3>2
    <2> QED
      BY <2>5, <2>6 DEF Heights
  <1>14. Filled(nodes', s, live2, 0)
    <2>1. 0 \notin live2
      BY <1>7, <1>8, <1>9
    <2>2. \A y \in live : Len(nodes[y].keys) >= BTREE_MIN
      BY <1>4, <1>7, <1>8 DEF Filled
    <2> QED
      BY <1>7, <1>11, <2>1, <2>2 DEF Filled
  <1>15. RootFilled'
    <2>1. Len(<<r>>) = 1
      OBVIOUS
    <2>2. nodes'[s].keys = <<r>>
      BY <1>10, <1>11
    <2>3. Len(nodes'[s].keys) > 0
      BY ONLY <2>1, <2>2
    <2>4. rootPageId' = s
      BY <1>2
    <2> QED
      BY <2>3, <2>4 DEF RootFilled
  <1>16. Linked(nodes', s, path', live2, h2)
    BY <1>2 DEF Linked
  <1>17. TreeState(live2, h2, rng2, par2)'
    BY <1>2, <1>3, <1>4, <1>12, <1>13, <1>14, <1>15, <1>16 DEF TreeState
  <1>18. Base'
    <2>1. Allocated' = Allocated \cup {s} /\ Cardinality(Allocated') = s
      BY <1>11 DEF Allocated
    <2> QED
      BY <1>2, <1>9, <1>11, <2>1 DEF Base
  <1>19. Carried(live, h, live2, h2)
    <2>1. Allocated' = Allocated \cup {s} /\ live2 = live \cup {s} /\ s \notin Allocated
      BY <1>9, <1>11 DEF Allocated
    <2>2. \A y \in Allocated : nodes'[y] = nodes[y]
      BY <1>9, <1>11
    <2>3. \A y \in live : h2[y] = h[y]
      BY <1>7, <1>9 DEF RootHeight
    <2> QED
      BY <1>7, <2>1, <2>2, <2>3 DEF Carried
  <1> QED
    BY <1>17, <1>18, <1>19 DEF Carries

\* Below a root with one child, all other pages are lower than the child.
LEMMA BelowOnlyChild ==
    ASSUME NEW N, NEW live, NEW h, NEW rng, NEW par, NEW p, IsTree(N, {p}, live, h, rng, par),
           NEW c, OnlyChild(N, p, c), \A y \in live \ {p} : h[y] < h[p]
    PROVE  /\ IsTree(N, {c}, live \ {p}, h, rng, par) /\ Stored(N, live \ {p}) = Stored(N, live)
           /\ c \in live /\ c # p /\ \A y \in live \ {p, c} : h[y] < h[c]
           /\ c \in Pages /\ p \in live
  <1>1. TreeOK(N, {p}, live, h, rng, par) /\ GhostType(live, h, rng, par) /\ p \in {p} /\ p \in live
        /\ live \subseteq Pages /\ h \in [Pages -> Nat]
    BY DEF IsTree, TreeOK, GhostType
  <1>2. /\ c \in live /\ h[c] = h[p] - 1 /\ h[p] \in Nat /\ c # p
        /\ TreeOK(N, ({p} \ {p}) \cup {c}, live \ {p}, h, rng, par)
        /\ Stored(N, live \ {p}) = Stored(N, live)
    <2> PICK tops : tops = {p}
      OBVIOUS
    <2>2. TreeOK(N, tops, live, h, rng, par) /\ p \in tops
      BY <1>1
    <2>3. /\ c \in live /\ h[c] = h[p] - 1 /\ h[p] \in Nat /\ c # p
          /\ TreeOK(N, (tops \ {p}) \cup {c}, live \ {p}, h, rng, par)
          /\ Stored(N, live \ {p}) = Stored(N, live)
      BY ONLY <1>1, <2>2, ShrinkTree, OnlyChild(N, p, c)
    <2> QED
      BY <2>3
  <1>3. ({p} \ {p}) \cup {c} = {c}
    OBVIOUS
  <1>4. IsTree(N, {c}, live \ {p}, h, rng, par)
    <2>1. GhostType(live \ {p}, h, rng, par)
      BY <1>1 DEF GhostType
    <2> QED
      BY <1>2, <1>3, <2>1 DEF IsTree
  <1>5. ASSUME NEW y \in live \ {p, c} PROVE h[y] < h[c]
    <2>1. y \in live \ {p} /\ y \in live \ {c} /\ y \in (live \ {p}) \ {c}
      BY <1>2
    <2>2. par[y] \in live \ {p} /\ IsChild(N, par[y], y)
      BY <1>4, <2>1 DEF IsTree, TreeOK
    <2>3. PICK j \in DOMAIN N[par[y]].children : N[par[y]].children[j] = y /\ ~N[par[y]].isLeaf
      BY <2>2 DEF IsChild
    <2>4. h[y] = h[par[y]] - 1
      BY <1>1, <2>2, <2>3, ChildOf
    <2>5. h[par[y]] < h[p] /\ h[par[y]] \in Nat
      BY <1>1, <2>2
    <2> QED
      BY <1>2, <2>4, <2>5
  <1> QED
    BY <1>1, <1>2, <1>4, <1>5

\* The root was left without keys, and its only child becomes the root.
LEMMA ShrinkRootKeeps ==
    ASSUME NEW live, NEW h, NEW rng, NEW par, TreeState(live, h, rng, par), Base,
           ShrinkRoot
    PROVE  Carries(live, h)
  <1>1. TreeState(live, h, rng, par)
    OBVIOUS
  <1> PICK p, c : p = rootPageId /\ c = Head(nodes[p].children)
    OBVIOUS
  <1> PICK live2 : live2 = live \ {p}
    OBVIOUS
  <1>2. /\ Base /\ pc = "return" /\ pc' = "idle" /\ op.kind = "remove" /\ path = <<>>
           /\ path' = path
        /\ rootPageId' = c /\ metaRoot' = c /\ nodes' = nodes
        /\ ~nodes[p].isLeaf /\ nodes[p].keys = <<>>
        /\ op' = op /\ cur' = cur /\ contents' = contents /\ rows' = rows /\ threw' = threw
            /\ res' = res
    BY DEF ShrinkRoot, RemoveReturned, RootEmpty, Finish
  <1>3. /\ ~Pending /\ Tops = {p} /\ ~Pending' /\ Tops' = {c} /\ Open = {} /\ Open' = {}
           /\ LowPage' = 0
        /\ LowPage = 0 \/ LowPage = p
    BY <1>2 DEF Pending, Tops, Open, LowPage, Target
  <1>4. /\ IsTree(nodes, {p}, live, h, rng, par)
        /\ Heights(p, {p}, live, h)
        /\ Filled(nodes, p, live, LowPage)
        /\ Faithful(Stored(nodes, live), contents, {}, threw)
    BY <1>1, <1>2, <1>3 DEF TreeState
  <1>5. \A y \in live \ {p} : h[y] < h[p]
    BY <1>4 DEF Heights
  <1>6. /\ IsTree(nodes, {c}, live2, h, rng, par) /\ Stored(nodes, live2) = Stored(nodes, live)
        /\ c \in live /\ c # p /\ \A y \in live \ {p, c} : h[y] < h[c]
        /\ c \in Pages /\ p \in live
    <2>1. OnlyChild(nodes, p, c) /\ IsTree(nodes, {p}, live, h, rng, par)
      BY <1>2, <1>4 DEF OnlyChild
    <2>2. /\ IsTree(nodes, {c}, live \ {p}, h, rng, par)
             /\ Stored(nodes, live \ {p}) = Stored(nodes, live)
          /\ c \in live /\ c # p /\ \A y \in live \ {p, c} : h[y] < h[c]
          /\ c \in Pages /\ p \in live
      BY ONLY <1>5, <2>1, BelowOnlyChild
    <2> QED
      BY <2>2
  <1>7. Heights(c, {c}, live2, h)
    BY <1>4, <1>6 DEF Heights
  <1>8. \A y \in live2 : Len(nodes[y].keys) >= BTREE_MIN
    <2>1. 0 \notin live
      BY <1>4, TreePagesAssumption DEF IsTree, GhostType, Pages
    <2> QED
      BY <1>3, <1>4, <2>1 DEF Filled
  <1>9. Filled(nodes, c, live2, 0)
    <2>1. 0 \notin live
      BY <1>4, TreePagesAssumption DEF IsTree, GhostType, Pages
    <2> QED
      BY <1>8, <2>1 DEF Filled
  <1>10. RootFilled'
    <2> PICK b : b = BTREE_MIN
      OBVIOUS
    <2>1. b \in Nat /\ b > 0 /\ Len(nodes[c].keys) >= b
      BY <1>6, <1>8, KeysAreNumbers
    <2>2. Len(nodes[c].keys) \in Nat
      BY <1>4, <1>6, LiveNode, NodeFields DEF IsTree
    <2>3. Len(nodes[c].keys) > 0
      BY ONLY <2>1, <2>2
    <2> QED
      BY <1>2, <2>3 DEF RootFilled
  <1>11. Linked(nodes, c, path', live2, h)
    BY <1>2 DEF Linked
  <1>12. TreeState(live2, h, rng, par)'
    BY <1>2, <1>3, <1>4, <1>6, <1>7, <1>9, <1>10, <1>11 DEF TreeState
  <1>13. Base'
    <2>1. Allocated' = Allocated
      BY <1>2 DEF Allocated
    <2> QED
      BY <1>2, <2>1 DEF Base
  <1>14. Carried(live, h, live2, h)
    <2>1. Allocated' = Allocated
      BY <1>2 DEF Allocated
    <2> QED
      BY <1>2, <2>1 DEF Carried
  <1> QED
    BY <1>12, <1>13, <1>14 DEF Carries

-----------------------------------------------------------------------------
(* Removing: a leaf or node that is too small borrows or is merged *)

\* The caller a of a removal that left too few keys in the child p of a.
UnderflowAt(live, h, a, n, p) ==
    /\ a = Caller.page /\ n = Caller.idx /\ p = Target(nodes, rootPageId, path)
    /\ a \in live /\ ~nodes[a].isLeaf /\ n \in Nat /\ n + 1 \in 1 .. Len(nodes[a].keys) + 1
    /\ Len(nodes[a].children) = Len(nodes[a].keys) + 1 /\ Len(nodes[a].keys) \in Nat
    /\ Parent = nodes[a] /\ p = nodes[a].children[n + 1]
    /\ p \in live /\ p # rootPageId /\ h[a] \in Nat
    /\ Len(nodes[a].keys) > 0
    /\ a # p /\ 0 \notin live /\ live \subseteq Allocated /\ h \in [Pages -> Nat]
        /\ live \subseteq Pages

\* What is known when fixUnderflow is called.
LEMMA UnderflowIs ==
    ASSUME NEW live, NEW h, NEW rng, NEW par, TreeState(live, h, rng, par), Base, Underflow
    PROVE  /\ \E a, n, p : UnderflowAt(live, h, a, n, p)
           /\ IsTree(nodes, {rootPageId}, live, h, rng, par) /\ Tops = {rootPageId}
           /\ Linked(nodes, rootPageId, path, live, h) /\ path \in Seq(Frame) /\ path # <<>>
           /\ Heights(rootPageId, {rootPageId}, live, h)
           /\ Filled(nodes, rootPageId, live, Target(nodes, rootPageId, path))
           /\ Faithful(Stored(nodes, live), contents, {}, threw)
           /\ nodes[rootPageId].isLeaf \/ Len(nodes[rootPageId].keys) > 0
           /\ pc = "return" /\ op.kind = "remove" /\ PagesOK(nodes)
  <1>1. /\ path # <<>> /\ path \in Seq(Frame) /\ pc = "return" /\ op.kind = "remove"
                          /\ res.underflow
        /\ PagesOK(nodes)
    BY DEF Underflow, Returning, Base
  <1>2. Tops = {rootPageId} /\ LowPage = Target(nodes, rootPageId, path) /\ Open = {}
    BY <1>1 DEF Tops, Pending, LowPage, Open
  <1>3. /\ IsTree(nodes, {rootPageId}, live, h, rng, par)
        /\ Linked(nodes, rootPageId, path, live, h)
        /\ Heights(rootPageId, {rootPageId}, live, h)
        /\ Filled(nodes, rootPageId, live, Target(nodes, rootPageId, path))
        /\ Faithful(Stored(nodes, live), contents, {}, threw)
        /\ nodes[rootPageId].isLeaf \/ Len(nodes[rootPageId].keys) > 0
    BY <1>1, <1>2 DEF TreeState, RootFilled
  <1> PICK a, n, p : a = Caller.page /\ n = Caller.idx /\ p = Target(nodes, rootPageId, path)
    OBVIOUS
  <1>4. /\ p \in live /\ p \in Pages
        /\ Last(path) \in Frame /\ Last(path).page \in live /\ ~nodes[Last(path).page].isLeaf
        /\ Last(path).idx + 1 \in 1 .. Len(nodes[Last(path).page].keys) + 1
        /\ p = nodes[Last(path).page].children[Last(path).idx + 1]
        /\ p \notin {rootPageId} /\ h[Last(path).page] \in Nat
        /\ h[p] = h[Last(path).page] - 1
    <2>1. rootPageId \in {rootPageId} /\ path \in Seq(Frame) /\ path # <<>>
      BY <1>1
    <2> PICK tops : tops = {rootPageId}
      OBVIOUS
    <2>2. IsTree(nodes, tops, live, h, rng, par) /\ rootPageId \in tops
      BY <1>3
    <2>3. /\ Target(nodes, rootPageId, path) \in live /\ Target(nodes, rootPageId, path) \in Pages
          /\ Last(path) \in Frame /\ Last(path).page \in live /\ ~nodes[Last(path).page].isLeaf
          /\ Last(path).idx + 1 \in 1 .. Len(nodes[Last(path).page].keys) + 1
          /\ Target(nodes, rootPageId, path) = nodes[Last(path).page].children[Last(path).idx + 1]
          /\ Target(nodes, rootPageId, path) \notin tops /\ h[Last(path).page] \in Nat
          /\ h[Target(nodes, rootPageId, path)] = h[Last(path).page] - 1
      BY ONLY <1>3, <2>1, <2>2, TargetIs
    <2> QED
      BY <2>3
  <1>5. /\ a \in live /\ ~nodes[a].isLeaf /\ n + 1 \in 1 .. Len(nodes[a].keys) + 1
        /\ p = nodes[a].children[n + 1] /\ h[a] \in Nat /\ n \in Nat /\ a # p
    <2>1. Last(path).idx \in Nat
      BY <1>4 DEF Frame
    <2>2. Last(path).page # p
      BY ONLY <1>4
    <2> PICK c : c = Last(path)
      OBVIOUS
    <2>3. a = c.page /\ n = c.idx
      BY DEF Caller
    <2>4. /\ c.page \in live /\ ~nodes[c.page].isLeaf
          /\ c.idx + 1 \in 1 .. Len(nodes[c.page].keys) + 1
          /\ p = nodes[c.page].children[c.idx + 1] /\ h[c.page] \in Nat
          /\ c.idx \in Nat /\ c.page # p
      BY <1>4, <2>1, <2>2
    <2>5. a \in live /\ ~nodes[a].isLeaf /\ h[a] \in Nat /\ a # p
      BY ONLY <2>3, <2>4, Zenon
    <2>6. n + 1 \in 1 .. Len(nodes[a].keys) + 1
      BY ONLY <2>3, <2>4, Zenon
    <2>7. p = nodes[a].children[n + 1] /\ n \in Nat
      BY ONLY <2>3, <2>4, Zenon
    <2> QED
      BY ONLY <2>5, <2>6, <2>7, Zenon
  <1>6. /\ live \subseteq Allocated /\ live \subseteq Pages /\ 0 \notin live /\ h \in [Pages -> Nat]
    <2>1. IsTree(nodes, {rootPageId}, live, h, rng, par)
      BY <1>3
    <2>2. live \subseteq Allocated
      BY ONLY <2>1 DEF IsTree, TreeOK, Allocated
    <2>3. live \subseteq Pages /\ h \in [Pages -> Nat]
      BY ONLY <2>1 DEF IsTree, GhostType
    <2>4. 0 \notin Pages
      BY ONLY TreePagesAssumption DEF Pages
    <2> QED
      BY ONLY <2>2, <2>3, <2>4
  <1>7. /\ Len(nodes[a].children) = Len(nodes[a].keys) + 1 /\ Len(nodes[a].keys) \in Nat
    <2>1. TreeOK(nodes, {rootPageId}, live, h, rng, par)
      BY <1>3 DEF IsTree
    <2>2. nodes[a] \in Node /\ Len(nodes[a].children) = Len(nodes[a].keys) + 1
      BY <1>5, <2>1, LiveNode
    <2> QED
      BY <2>2, NodeFields
  <1>8. Len(nodes[a].keys) > 0
    <2>1. CASE a = rootPageId
      BY <1>3, <1>5, <2>1
    <2>2. CASE a # rootPageId
      <3> PICK b : b = BTREE_MIN
        OBVIOUS
      <3>1. b \in Nat /\ b > 0
        BY KeysAreNumbers
      <3>2. Len(nodes[a].keys) >= b
        BY <1>3, <1>5, <2>2 DEF Filled
      <3> QED
        BY ONLY <1>7, <3>1, <3>2
    <2> QED
      BY <2>1, <2>2
  <1>9. UnderflowAt(live, h, a, n, p)
    BY <1>4, <1>5, <1>6, <1>7, <1>8 DEF UnderflowAt, Parent
  <1> QED
    BY <1>1, <1>2, <1>3, <1>9

\* What fixUnderflow does to the tree: pages above a are left as they are.
Fixes(live, h, a, live2, rng2, par2, b) ==
    /\ live2 \subseteq live /\ IsTree(nodes', {rootPageId}, live2, h, rng2, par2)
    /\ Stored(nodes', live2) = Stored(nodes, live)
    /\ \A x \in live : h[x] > h[a] => x \in live2 /\ nodes'[x] = nodes[x]
    /\ PagesOK(nodes') /\ Allocated' = Allocated
    /\ Filled(nodes', rootPageId, live2, IF b THEN a ELSE 0)
    /\ a = rootPageId => ~b
    /\ RootFilled'
    /\ \A x \in Allocated \ live2 : nodes'[x] \in {nodes[x], Emptied(nodes[x])}

\* What it does besides.
FixReturns(b) ==
    /\ pc' = "return" /\ path' = Front(path) /\ res' = [underflow |-> b] /\ b \in BOOLEAN
    /\ rootPageId' = rootPageId /\ metaRoot' = metaRoot
    /\ op' = op /\ cur' = cur /\ contents' = contents /\ rows' = rows /\ threw' = threw

\* fixUnderflow leaves a tree.
LEMMA FixKeeps ==
    ASSUME NEW live, NEW h, NEW rng, NEW par, TreeState(live, h, rng, par), Base, Underflow,
           NEW a, a = Caller.page, NEW live2, NEW rng2, NEW par2, NEW b,
           Fixes(live, h, a, live2, rng2, par2, b), FixReturns(b)
    PROVE  Carries(live, h)
  <1> USE DEF FixReturns
  <1>1. /\ IsTree(nodes, {rootPageId}, live, h, rng, par) /\ Tops = {rootPageId}
        /\ Linked(nodes, rootPageId, path, live, h) /\ path \in Seq(Frame) /\ path # <<>>
        /\ Heights(rootPageId, {rootPageId}, live, h)
        /\ Faithful(Stored(nodes, live), contents, {}, threw)
        /\ pc = "return" /\ op.kind = "remove"
    BY UnderflowIs
  <1>2. /\ live2 \subseteq live /\ IsTree(nodes', {rootPageId}, live2, h, rng2, par2)
        /\ Stored(nodes', live2) = Stored(nodes, live)
        /\ \A x \in live : h[x] > h[a] => x \in live2 /\ nodes'[x] = nodes[x]
        /\ PagesOK(nodes') /\ Allocated' = Allocated
        /\ Filled(nodes', rootPageId, live2, IF b THEN a ELSE 0)
        /\ RootFilled'
        /\ \A x \in Allocated \ live2 : nodes'[x] \in {nodes[x], Emptied(nodes[x])}
    BY DEF Fixes
  <1>3. /\ Linked(nodes', rootPageId, path', live2, h)
        /\ Target(nodes', rootPageId, path') = a
        /\ path' \in Seq(Frame)
    <2>1. Above(nodes, live, h, h[Last(path).page], nodes', live2, h)
      BY <1>2 DEF Above, Caller
    <2> PICK tops : tops = {rootPageId}
      OBVIOUS
    <2>2. IsTree(nodes, tops, live, h, rng, par) /\ rootPageId \in tops
      BY <1>1
    <2>3. /\ Linked(nodes, rootPageId, path, live, h) /\ path \in Seq(Frame) /\ path # <<>>
      BY <1>1
    <2>4. /\ Linked(nodes', rootPageId, Front(path), live2, h)
          /\ Target(nodes', rootPageId, Front(path)) = Last(path).page
          /\ Front(path) \in Seq(Frame)
      BY ONLY <2>1, <2>2, <2>3, PathPops
    <2> QED
      BY <2>4 DEF Caller
  <1>4. Tops' = {rootPageId} /\ ~Pending' /\ Open' = {}
    BY <1>1 DEF Tops, Pending, Open
  <1>5. LowPage' = IF b THEN a ELSE 0
    BY <1>1, <1>3 DEF LowPage
  <1>6. Heights(rootPageId, {rootPageId}, live2, h)
    BY <1>1, <1>2 DEF Heights
  <1>7. TreeState(live2, h, rng2, par2)'
    BY <1>1, <1>2, <1>3, <1>4, <1>5, <1>6 DEF TreeState
  <1>8. Base'
    <2>1. res' \in ResultOf("remove") /\ res' \in Result
      BY ResultsAre
    <2> QED
      BY <1>1, <1>2, <1>3, <2>1 DEF Base
  <1>9. Carried(live, h, live2, h)
    BY <1>2 DEF Carried
  <1> QED
    BY <1>7, <1>8, <1>9 DEF Carries

\* A page and two children of it are saved over.
SavesThree(N, a, p, q, x, y, z, N2) == N2 = [N EXCEPT ![p] = x, ![q] = y, ![a] = z]

\* Saving over three pages leaves the pages well-formed.
LEMMA SavedThree ==
    ASSUME PagesOK(nodes), NEW a \in Allocated, NEW p \in Allocated, NEW q \in Allocated,
           a # p, a # q, p # q, NEW x, NEW y, NEW z, NEW N2, SavesThree(nodes, a, p, q, x, y, z, N2)
    PROVE  /\ DOMAIN N2 = Allocated /\ N2[p] = x /\ N2[q] = y /\ N2[a] = z
           /\ \A v \in Allocated \ {a, p, q} : N2[v] = nodes[v]
           /\ (\A v \in {a, p, q} : N2[v] \in Node /\ Shape(N2[v])) => PagesOK(N2)
  <1>1. PICK n \in 1 .. MaxPages - 1 : nodes \in [1 .. n -> Node]
      /\ \A v \in 1 .. n : Shape(nodes[v])
    BY DEF PagesOK
  <1>2. Allocated = 1 .. n
    BY <1>1 DEF Allocated
  <1>3. /\ DOMAIN N2 = Allocated /\ N2[p] = x /\ N2[q] = y /\ N2[a] = z
        /\ \A v \in Allocated \ {a, p, q} : N2[v] = nodes[v]
    BY <1>1, <1>2 DEF SavesThree
  <1>4. ASSUME \A v \in {a, p, q} : N2[v] \in Node /\ Shape(N2[v])
        PROVE  PagesOK(N2)
    <2>1. \A v \in 1 .. n : N2[v] \in Node /\ Shape(N2[v])
      BY <1>1, <1>2, <1>3, <1>4
    <2>2. N2 = [v \in 1 .. n |-> N2[v]]
      BY <1>1, <1>2 DEF SavesThree
    <2>3. N2 \in [1 .. n -> Node]
      BY <2>1, <2>2
    <2> QED
      BY <2>1, <2>3 DEF PagesOK
  <1> QED
    BY <1>3, <1>4

\* A child of the caller a gives the other an entry: p and q are neighbours, and one of them, the
\* page low, had one key too few.
Balanced(a, p, q, low) ==
    /\ Len(nodes'[a].keys) = Len(nodes[a].keys)
    /\ Len(nodes'[p].keys) >= BTREE_MIN /\ Len(nodes'[q].keys) >= BTREE_MIN
    /\ low \in {p, q}

\* Neighbours that share their entries in another way keep enough of them.
LEMMA BorrowFixes ==
    ASSUME NEW live, NEW h, NEW rng, NEW par, TreeState(live, h, rng, par), Base, Underflow,
           NEW a, NEW n, NEW low, UnderflowAt(live, h, a, n, low),
           NEW i, NEW p, NEW q, Siblings(nodes, {rootPageId}, live, h, a, i, p, q),
           NEW M, NEW m, NEW s, NEW next1, NEW next2,
           Shares(nodes, live, a, i, p, q, M, m, s, next1, next2, nodes'),
           Balanced(a, p, q, low), FixReturns(FALSE),
           DOMAIN nodes' = Allocated, \A v \in Allocated \ {a, p, q} : nodes'[v] = nodes[v],
           \A v \in {a, p, q} : Shape(nodes'[v]),
           (\A v \in {a, p, q} : nodes'[v] \in Node /\ Shape(nodes'[v])) => PagesOK(nodes')
    PROVE  Carries(live, h)
  <1>1. /\ IsTree(nodes, {rootPageId}, live, h, rng, par)
        /\ Filled(nodes, rootPageId, live, Target(nodes, rootPageId, path))
        /\ nodes[rootPageId].isLeaf \/ Len(nodes[rootPageId].keys) > 0
    BY UnderflowIs
  <1>2. SiblingFacts(nodes, {rootPageId}, live, h, a, p, q, nodes[a].keys[i])
    BY <1>1, SiblingsAre
  <1>3. /\ p \in live /\ p # rootPageId /\ q \in live /\ q # rootPageId /\ p # q /\ p # a /\ q # a
        /\ h[p] = h[a] - 1 /\ h[q] = h[p]
    BY <1>2 DEF SiblingFacts
  <1>4. /\ a = Caller.page /\ a \in live /\ h[a] \in Nat /\ low = Target(nodes, rootPageId, path)
        /\ 0 \notin live /\ live \subseteq Allocated /\ ~nodes[a].isLeaf /\ Len(nodes[a].keys) > 0
    BY DEF UnderflowAt
  <1>5. PICK rng2, par2 : IsTree(nodes', {rootPageId}, live, h, rng2, par2)
    BY <1>1, ShareTree
  <1>6. Stored(nodes', live) = Stored(nodes, live)
    BY <1>1, ShareTree
  <1>7. \A x \in live : h[x] > h[a] => x \in live /\ nodes'[x] = nodes[x]
    BY <1>3, <1>4
  <1>8. PagesOK(nodes')
    <2>1. \A v \in {a, p, q} : nodes'[v] \in Node
      BY <1>3, <1>4, <1>5, LiveNode DEF IsTree
    <2> QED
      BY <2>1
  <1>9. Filled(nodes', rootPageId, live, 0)
    <2>1. ASSUME NEW x \in live \ {rootPageId} PROVE Len(nodes'[x].keys) >= BTREE_MIN
      <3>1. CASE x \in {p, q}
        BY <3>1 DEF Balanced
      <3>2. CASE x \notin {p, q}
        <4>1. Len(nodes[x].keys) >= BTREE_MIN
          BY <1>1, <1>4, <3>2 DEF Filled, Balanced
        <4>2. Len(nodes'[x].keys) = Len(nodes[x].keys)
          BY <1>4, <3>2 DEF Balanced
        <4> QED
          BY <4>1, <4>2
      <3> QED
        BY <3>1, <3>2
    <2> QED
      BY <1>4, <2>1 DEF Filled
  <1>10. RootFilled'
    <2>1. rootPageId' = rootPageId /\ rootPageId \in live
      BY <1>1 DEF FixReturns, IsTree, TreeOK
    <2>2. nodes'[rootPageId].isLeaf \/ Len(nodes'[rootPageId].keys) > 0
      <3>1. CASE rootPageId = a
        BY <1>4, <3>1 DEF Balanced
      <3>2. CASE rootPageId # a
        BY <1>1, <1>3, <1>4, <2>1, <3>2
      <3> QED
        BY <3>1, <3>2
    <2> QED
      BY <2>1, <2>2 DEF RootFilled
  <1>11. Allocated' = Allocated
    BY DEF Allocated
  <1> PICK b : b = FALSE
    OBVIOUS
  <1>12. Fixes(live, h, a, live, rng2, par2, b)
    <2>1. \A x \in Allocated \ live : nodes'[x] = nodes[x]
      BY <1>3, <1>4
    <2> QED
      BY <1>5, <1>6, <1>7, <1>8, <1>9, <1>10, <1>11, <2>1 DEF Fixes
  <1>13. FixReturns(b)
    OBVIOUS
  <1> QED
    BY ONLY <1>4, <1>12, <1>13, TreeState(live, h, rng, par), Base, Underflow, FixKeeps

\* A leaf and its caller's other child, all of them pages of the file.
LEMMA SiblingPages ==
    ASSUME NEW live, NEW h, NEW rng, NEW par, TreeState(live, h, rng, par), Base, Underflow,
           NEW a, NEW i, NEW p, NEW q, Siblings(nodes, {rootPageId}, live, h, a, i, p, q)
    PROVE  /\ a \in Allocated /\ p \in Allocated /\ q \in Allocated /\ a # p /\ a # q /\ p # q
           /\ Shape(nodes[a]) /\ Shape(nodes[p]) /\ Shape(nodes[q])
           /\ Len(nodes[p].keys) \in Nat /\ Len(nodes[q].keys) \in Nat /\ i \in Nat
           /\ p # rootPageId /\ q # rootPageId /\ p \in live /\ q \in live
  <1>1. IsTree(nodes, {rootPageId}, live, h, rng, par) /\ PagesOK(nodes) /\ rows \in Rows
    BY UnderflowIs DEF Base
  <1>2. SiblingFacts(nodes, {rootPageId}, live, h, a, p, q, nodes[a].keys[i])
    BY <1>1, SiblingsAre
  <1>3. /\ p \in live /\ q \in live /\ p # q /\ p # a /\ q # a /\ a \in live
        /\ i \in 1 .. Len(nodes[a].keys) /\ p # rootPageId /\ q # rootPageId
    BY <1>2 DEF SiblingFacts, Siblings
  <1>4. live \subseteq Allocated
    BY <1>1 DEF IsTree, TreeOK, Allocated
  <1>5. \A v \in Allocated : Shape(nodes[v])
    BY <1>1, PagesAre
  <1>6. nodes[p] \in Node /\ nodes[q] \in Node /\ nodes[a] \in Node
    BY <1>1, <1>3, LiveNode DEF IsTree
  <1>7. Len(nodes[p].keys) \in Nat /\ Len(nodes[q].keys) \in Nat
    BY <1>6, NodeFields
  <1> QED
    BY <1>3, <1>4, <1>5, <1>7

\* The left neighbour has an entry to lend.
LEMMA BorrowLeftKeeps ==
    ASSUME NEW live, NEW h, NEW rng, NEW par, TreeState(live, h, rng, par), Base,
           BorrowFromLeft
    PROVE  Carries(live, h)
  <1>1. TreeState(live, h, rng, par)
    OBVIOUS
  <1>2. /\ Base /\ Underflow /\ BorrowsLeft
        /\ FixReturns(FALSE)
    BY DEF BorrowFromLeft, PopCall, Return, FixReturns
  <1>3. PICK a, n, p : UnderflowAt(live, h, a, n, p)
    BY <1>1, <1>2, UnderflowIs
  <1>4. /\ a = Caller.page /\ n = Caller.idx /\ p = Target(nodes, rootPageId, path)
        /\ a \in live /\ ~nodes[a].isLeaf /\ n \in Nat /\ n + 1 \in 1 .. Len(nodes[a].keys) + 1
        /\ Len(nodes[a].keys) \in Nat
        /\ Parent = nodes[a] /\ p = nodes[a].children[n + 1]
        /\ p \in live /\ p # rootPageId /\ live \subseteq Allocated
    BY <1>3 DEF UnderflowAt
  <1> PICK l : l = nodes[a].children[n]
    OBVIOUS
  <1>5. /\ n \in 1 .. Len(nodes[a].keys) /\ Child(n - 1) = l /\ Child(n) = p
        /\ Len(nodes[l].keys) > BTREE_MIN
    <2>1. n - 1 >= 0
      BY <1>2, <1>4 DEF BorrowsLeft, CanLend
    <2>2. n - 1 + 1 = n /\ n \in 1 .. Len(nodes[a].keys)
      BY <1>4, <2>1
    <2>3. Child(n - 1) = l /\ Child(n) = p
      BY <1>4, <2>2 DEF Child
    <2> QED
      BY <1>2, <1>4, <2>2, <2>3 DEF BorrowsLeft, CanLend
  <1>6. Siblings(nodes, {rootPageId}, live, h, a, n, l, p)
    BY <1>4, <1>5 DEF Siblings
  <1>7. /\ a \in Allocated /\ l \in Allocated /\ p \in Allocated /\ a # l /\ a # p /\ l # p
        /\ Shape(nodes[a]) /\ Shape(nodes[l]) /\ Shape(nodes[p])
        /\ Len(nodes[l].keys) \in Nat /\ Len(nodes[p].keys) \in Nat
    BY ONLY Zenon, <1>1, <1>2, <1>6, SiblingPages
  <1> PICK lent : lent = LentLeft(nodes[l], nodes[p], n)
    OBVIOUS
  <1>8. nodes' = [nodes EXCEPT ![l] = lent.left, ![p] = lent.child, ![a] = lent.parent]
    BY Zenon, <1>4, <1>5 DEF BorrowFromLeft
  <1>9. /\ DOMAIN nodes' = Allocated
        /\ nodes'[l] = lent.left /\ nodes'[p] = lent.child /\ nodes'[a] = lent.parent
        /\ \A v \in Allocated \ {a, l, p} : nodes'[v] = nodes[v]
        /\ (\A v \in {a, l, p} : nodes'[v] \in Node /\ Shape(nodes'[v])) => PagesOK(nodes')
    <2>1. SavesThree(nodes, a, l, p, lent.left, lent.child, lent.parent, nodes')
      BY <1>8 DEF SavesThree
    <2>2. PagesOK(nodes)
      BY <1>2 DEF Base
    <2> QED
      BY ONLY <1>7, <2>1, <2>2, SavedThree
  <1>10. Lends(live, a, n, l, p, nodes')
    BY Zenon, <1>4, <1>7, <1>9 DEF Lends
  <1>11. Len(nodes[l].keys) > 1
    <2> PICK b : b = BTREE_MIN
      OBVIOUS
    <2>1. b \in Nat /\ b > 0 /\ Len(nodes[l].keys) > b
      BY <1>5, KeysAreNumbers
    <2> QED
      BY ONLY <1>7, <2>1
  <1> PICK M : M = MergedNode(nodes[l], nodes[p], nodes[a].keys[n], nodes[l].nextLeaf)
    OBVIOUS
  <1>12. /\ Shares(nodes, live, a, n, l, p, M, Len(nodes[l].keys) - 1, Last(nodes[l].keys),
                   nodes[l].nextLeaf, nodes[p].nextLeaf, nodes')
         /\ \A x \in {a, l, p} : Shape(nodes'[x]) /\ (nodes'[x].isLeaf <=> nodes[x].isLeaf)
         /\ Len(nodes'[a].keys) = Len(nodes[a].keys)
         /\ Len(nodes'[l].keys) = Len(nodes[l].keys) - 1
             /\ Len(nodes'[p].keys) = Len(nodes[p].keys) + 1
    <2>1. IsTree(nodes, {rootPageId}, live, h, rng, par)
      BY <1>1, <1>2, UnderflowIs
    <2>2. nodes'[l] = lent.left /\ nodes'[p] = lent.child /\ nodes'[a] = lent.parent
      BY <1>9
    <2> PICK N2 : N2 = nodes'
      OBVIOUS
    <2>3. /\ Shares(nodes, live, a, n, l, p,
                    MergedNode(nodes[l], nodes[p], nodes[a].keys[n], nodes[l].nextLeaf),
                    Len(nodes[l].keys) - 1, Last(nodes[l].keys),
                    nodes[l].nextLeaf, nodes[p].nextLeaf, nodes')
         /\ \A x \in {a, l, p} : Shape(nodes'[x]) /\ (nodes'[x].isLeaf <=> nodes[x].isLeaf)
         /\ Len(nodes'[a].keys) = Len(nodes[a].keys)
         /\ Len(nodes'[l].keys) = Len(nodes[l].keys) - 1
             /\ Len(nodes'[p].keys) = Len(nodes[p].keys) + 1
      BY ONLY <1>6, <1>10, <1>11, <2>1, <2>2, lent = LentLeft(nodes[l], nodes[p], n), LentLeftShares
    <2> QED
      BY Zenon, <2>3
  <1>13. Balanced(a, l, p, p)
    <2>1. Len(nodes[p].keys) >= BTREE_MIN - 1
      BY Zenon, <1>1, <1>2, <1>4, UnderflowIs DEF Filled
    <2> PICK b, ll, lp : b = BTREE_MIN /\ ll = Len(nodes[l].keys) /\ lp = Len(nodes[p].keys)
      OBVIOUS
    <2>2. b \in Nat /\ ll \in Nat /\ lp \in Nat /\ ll > b /\ lp >= b - 1
      BY <1>5, <1>7, <2>1, KeysAreNumbers
    <2>3. ll - 1 >= b /\ lp + 1 >= b
      BY ONLY <2>2
    <2> QED
      BY Zenon, <1>7, <1>12, <2>3 DEF Balanced
  <1> QED
    <2>1. \A v \in {a, l, p} : Shape(nodes'[v])
      BY <1>12
    <2> QED
      BY ONLY Zenon, <1>1, <1>2, <1>3, <1>6, <1>9, <1>12, <1>13, <2>1, BorrowFixes

\* The right neighbour has an entry to lend.
LEMMA BorrowRightKeeps ==
    ASSUME NEW live, NEW h, NEW rng, NEW par, TreeState(live, h, rng, par), Base,
           BorrowFromRight
    PROVE  Carries(live, h)
  <1>1. TreeState(live, h, rng, par)
    OBVIOUS
  <1>2. /\ Base /\ Underflow /\ BorrowsRight
        /\ FixReturns(FALSE)
    BY DEF BorrowFromRight, PopCall, Return, FixReturns
  <1>3. PICK a, n, p : UnderflowAt(live, h, a, n, p)
    BY <1>1, <1>2, UnderflowIs
  <1>4. /\ a = Caller.page /\ n = Caller.idx /\ p = Target(nodes, rootPageId, path)
        /\ a \in live /\ ~nodes[a].isLeaf /\ n \in Nat /\ n + 1 \in 1 .. Len(nodes[a].keys) + 1
        /\ Len(nodes[a].keys) \in Nat /\ Len(nodes[a].children) = Len(nodes[a].keys) + 1
        /\ Parent = nodes[a] /\ p = nodes[a].children[n + 1]
        /\ p \in live /\ p # rootPageId /\ live \subseteq Allocated
    BY <1>3 DEF UnderflowAt
  <1> PICK i, q : i = n + 1 /\ q = nodes[a].children[i + 1]
    OBVIOUS
  <1>5. /\ i \in 1 .. Len(nodes[a].keys) /\ Child(n + 1) = q /\ Child(n) = p
        /\ Len(nodes[q].keys) > BTREE_MIN
        /\ p = nodes[a].children[i]
    <2>1. n + 1 < Len(nodes[a].children)
      BY <1>2, <1>4 DEF BorrowsRight, CanLend
    <2>2. i \in 1 .. Len(nodes[a].keys)
      <3>1. i = n + 1
        OBVIOUS
      <3> QED
        BY ONLY <1>4, <2>1, <3>1
    <2>3. Child(n + 1) = q /\ Child(n) = p
      BY <1>4 DEF Child
    <2> QED
      BY <1>2, <1>4, <2>2, <2>3 DEF BorrowsRight, CanLend
  <1>6. Siblings(nodes, {rootPageId}, live, h, a, i, p, q)
    BY <1>4, <1>5 DEF Siblings
  <1>7. /\ a \in Allocated /\ p \in Allocated /\ q \in Allocated /\ a # p /\ a # q /\ p # q
        /\ Shape(nodes[a]) /\ Shape(nodes[p]) /\ Shape(nodes[q])
        /\ Len(nodes[p].keys) \in Nat /\ Len(nodes[q].keys) \in Nat
    BY ONLY <1>1, <1>2, <1>6, SiblingPages
  <1> PICK lent : lent = LentRight(nodes[p], nodes[q], n)
    OBVIOUS
  <1>8. nodes' = [nodes EXCEPT ![q] = lent.right, ![p] = lent.child, ![a] = lent.parent]
    BY Zenon, <1>4, <1>5 DEF BorrowFromRight
  <1>9. /\ DOMAIN nodes' = Allocated
        /\ nodes'[q] = lent.right /\ nodes'[p] = lent.child /\ nodes'[a] = lent.parent
        /\ \A v \in Allocated \ {a, p, q} : nodes'[v] = nodes[v]
        /\ (\A v \in {a, p, q} : nodes'[v] \in Node /\ Shape(nodes'[v])) => PagesOK(nodes')
    <2>1. SavesThree(nodes, a, q, p, lent.right, lent.child, lent.parent, nodes')
      BY <1>8 DEF SavesThree
    <2>2. PagesOK(nodes)
      BY <1>2 DEF Base
    <2>3. /\ DOMAIN nodes' = Allocated
          /\ nodes'[q] = lent.right /\ nodes'[p] = lent.child /\ nodes'[a] = lent.parent
          /\ \A v \in Allocated \ {a, q, p} : nodes'[v] = nodes[v]
          /\ (\A v \in {a, q, p} : nodes'[v] \in Node /\ Shape(nodes'[v])) => PagesOK(nodes')
      BY ONLY <1>7, <2>1, <2>2, SavedThree
    <2>4. {a, q, p} = {a, p, q}
      OBVIOUS
    <2> QED
      BY <2>3, <2>4
  <1>10. Lends(live, a, i, p, q, nodes')
    <2>1. i \in Nat
      <3>1. i = n + 1 /\ n \in Nat
        BY <1>4
      <3> QED
        BY ONLY <3>1
    <2> QED
      BY Zenon, <1>4, <1>7, <1>9, <2>1 DEF Lends
  <1>11. Len(nodes[q].keys) > 1
    <2> PICK b : b = BTREE_MIN
      OBVIOUS
    <2>1. b \in Nat /\ b > 0 /\ Len(nodes[q].keys) > b
      BY <1>5, KeysAreNumbers
    <2> QED
      BY ONLY <1>7, <2>1
  <1>12. /\ \E s : Shares(nodes, live, a, i, p, q,
                          MergedNode(nodes[p], nodes[q], nodes[a].keys[i], nodes[p].nextLeaf),
                          Len(nodes[p].keys) + 1, s, nodes[p].nextLeaf, nodes[q].nextLeaf, nodes')
         /\ \A x \in {a, p, q} : Shape(nodes'[x]) /\ (nodes'[x].isLeaf <=> nodes[x].isLeaf)
         /\ Len(nodes'[a].keys) = Len(nodes[a].keys)
         /\ Len(nodes'[p].keys) = Len(nodes[p].keys) + 1
             /\ Len(nodes'[q].keys) = Len(nodes[q].keys) - 1
    <2>1. IsTree(nodes, {rootPageId}, live, h, rng, par)
      BY <1>1, <1>2, UnderflowIs
    <2>2. nodes'[q] = lent.right /\ nodes'[p] = lent.child /\ nodes'[a] = lent.parent
      BY <1>9
    <2>3. n \in Nat /\ i = n + 1
      BY <1>4
    <2> QED
      BY ONLY <1>6, <1>10, <1>11, <2>1, <2>2, <2>3, lent = LentRight(nodes[p], nodes[q], n),
          LentRightShares
  <1>13. Balanced(a, p, q, p)
    <2>1. Len(nodes[p].keys) >= BTREE_MIN - 1
      BY <1>1, <1>2, <1>4, UnderflowIs DEF Filled
    <2> PICK b, lq, lp : b = BTREE_MIN /\ lq = Len(nodes[q].keys) /\ lp = Len(nodes[p].keys)
      OBVIOUS
    <2>2. b \in Nat /\ lq \in Nat /\ lp \in Nat /\ lq > b /\ lp >= b - 1
      BY <1>5, <1>7, <2>1, KeysAreNumbers
    <2>3. lq - 1 >= b /\ lp + 1 >= b
      BY ONLY <2>2
    <2> QED
      BY <1>7, <1>12, <2>3 DEF Balanced
  <1> QED
    <2>1. \A v \in {a, p, q} : Shape(nodes'[v])
      BY <1>12
    <2> QED
      BY ONLY <1>1, <1>2, <1>3, <1>6, <1>9, <1>12, <1>13, <2>1, BorrowFixes

\* The keys of a leaf.
LEMMA LeafKeys ==
    ASSUME NEW keys, NEW values, NEW next
    PROVE  Leaf(keys, values, next).keys = keys
  BY DEF Leaf

\* The keys of an internal node.
LEMMA InternalKeys ==
    ASSUME NEW keys, NEW children
    PROVE  Internal(keys, children).keys = keys
  BY DEF Internal

\* Two children l and r, behind and ahead of the i-th key of a.
Mergeable(l, r, a, i) ==
    /\ l \in Node /\ r \in Node /\ a \in Node /\ i \in 1 .. Len(a.keys)
    /\ l.isLeaf <=> r.isLeaf
    /\ ~r.isLeaf => Len(r.children) = Len(r.keys) + 1
    /\ Len(a.children) = Len(a.keys) + 1 /\ a.keys[i] \in Int
MergeGives(l, r, a, i) ==
    /\ Merged(l, r, a.keys[i]) = MergedNode(l, r, a.keys[i], r.nextLeaf)
    /\ Merged(l, r, a.keys[i]) \in Node /\ Shape(Merged(l, r, a.keys[i]))
    /\ Len(Merged(l, r, a.keys[i]).keys) >= Len(l.keys) + Len(r.keys)
    /\ Emptied(r) \in Node /\ Shape(Emptied(r))
    /\ Internal(RemoveAt(a.keys, i), RemoveAt(a.children, i + 1)) \in Node
    /\ Shape(Internal(RemoveAt(a.keys, i), RemoveAt(a.children, i + 1)))
    /\ Len(RemoveAt(a.keys, i)) = Len(a.keys) - 1

\* The page merged into, the one merged away and the caller: what they are, and how many keys
\* they have.
LEMMA MergedIs ==
    ASSUME NEW l, NEW r, NEW a, NEW i, Mergeable(l, r, a, i)
    PROVE  MergeGives(l, r, a, i)
  <1> USE DEF Mergeable
  <1> DEFINE lk == l.keys
             lv == l.values
             lc == l.children
             rk == r.keys
             rv == r.values
             rc == r.children
             ak == a.keys
             ac == a.children
             e == ak[i]
  <1>1. /\ lk \in Seq(Int) /\ lv \in Seq(Values) /\ lc \in Seq(Pages)
        /\ rk \in Seq(Int) /\ rv \in Seq(Values) /\ rc \in Seq(Pages)
        /\ ak \in Seq(Int) /\ ac \in Seq(Pages) /\ r.nextLeaf \in Pages \cup {-1}
        /\ Len(lk) \in Nat /\ Len(rk) \in Nat /\ Len(ak) \in Nat /\ e \in Int
    BY NodeFields
  <1>2. Merged(l, r, e) = MergedNode(l, r, e, r.nextLeaf)
    BY DEF Merged, MergedNode
  <1>3. ASSUME l.isLeaf
        PROVE  /\ Merged(l, r, e) \in Node /\ Shape(Merged(l, r, e))
               /\ Len(Merged(l, r, e).keys) >= Len(lk) + Len(rk)
               /\ Emptied(r) \in Node /\ Shape(Emptied(r))
    <2>1. Merged(l, r, e) = Leaf(lk \o rk, lv \o rv, r.nextLeaf)
      BY <1>3 DEF Merged
    <2>2. lk \o rk \in Seq(Int) /\ lv \o rv \in Seq(Values) /\ Len(lk \o rk) = Len(lk) + Len(rk)
      <3> HIDE DEF lk, lv, rk, rv
      <3> QED
        BY <1>1
    <2>3. Merged(l, r, e) \in Node /\ Shape(Merged(l, r, e))
      BY <1>1, <2>1, <2>2, LeafIsNode, ShapeOf
    <2>4. Merged(l, r, e).keys = lk \o rk
      <3> DEFINE s == lk \o rk
                 t == lv \o rv
                 m == Merged(l, r, e)
                 x == r.nextLeaf
      <3>1. m = Leaf(s, t, x)
        BY <2>1
      <3> HIDE DEF s, t, m, x
      <3>2. m.keys = s
        BY ONLY <3>1, LeafKeys
      <3> QED
        BY <3>2 DEF s, m
    <2>5. Emptied(r) = Leaf(<<>>, <<>>, r.nextLeaf)
      BY <1>3 DEF Emptied
    <2>6. Emptied(r) \in Node /\ Shape(Emptied(r))
      <3>1. <<>> \in Seq(Int) /\ <<>> \in Seq(Values)
        OBVIOUS
      <3> QED
        BY <1>1, <2>5, <3>1, LeafIsNode, ShapeOf
    <2>7. Len(Merged(l, r, e).keys) >= Len(lk) + Len(rk)
      BY <1>1, <2>2, <2>4
    <2> QED
      BY <2>3, <2>6, <2>7
  <1>4. ASSUME ~l.isLeaf
        PROVE  /\ Merged(l, r, e) \in Node /\ Shape(Merged(l, r, e))
               /\ Len(Merged(l, r, e).keys) >= Len(lk) + Len(rk)
               /\ Emptied(r) \in Node /\ Shape(Emptied(r))
    <2>1. Merged(l, r, e) = Internal(Append(lk, e) \o rk, lc \o rc)
      BY <1>4 DEF Merged
    <2>2. /\ Append(lk, e) \o rk \in Seq(Int) /\ lc \o rc \in Seq(Pages)
          /\ Len(Append(lk, e) \o rk) = Len(lk) + 1 + Len(rk)
      <3> HIDE DEF lk, lc, rk, rc, e
      <3>1. Append(lk, e) \in Seq(Int) /\ Len(Append(lk, e)) = Len(lk) + 1
        BY <1>1
      <3> QED
        BY <1>1, <3>1
    <2>3. Merged(l, r, e) \in Node /\ Shape(Merged(l, r, e))
      BY <2>1, <2>2, InternalIsNode, ShapeOf
    <2>4. Merged(l, r, e).keys = Append(lk, e) \o rk
      BY <2>1, InternalKeys
    <2>5. Emptied(r) = Internal(<<>>, <<Head(rc)>>)
      BY <1>4 DEF Emptied
    <2>6. Emptied(r) \in Node /\ Shape(Emptied(r))
      <3>1. Len(rc) = Len(rk) + 1
        BY <1>4
      <3>2. Len(rc) > 0
        <4> HIDE DEF rc, rk
        <4> QED
          BY ONLY <1>1, <3>1
      <3>3. Head(rc) \in Pages
        <4> HIDE DEF rc
        <4> QED
          BY ONLY <1>1, <3>2
      <3>4. <<>> \in Seq(Int) /\ <<Head(rc)>> \in Seq(Pages)
        BY <3>3
      <3> QED
        BY <2>5, <3>4, InternalIsNode, ShapeOf
    <2>7. Len(Merged(l, r, e).keys) >= Len(lk) + Len(rk)
      <3> HIDE DEF lk, rk, e
      <3>1. Len(lk) + 1 + Len(rk) >= Len(lk) + Len(rk)
        BY ONLY <1>1
      <3> QED
        BY <2>2, <2>4, <3>1
    <2> QED
      BY <2>3, <2>6, <2>7
  <1>5. /\ RemoveAt(ak, i) \in Seq(Int) /\ Len(RemoveAt(ak, i)) = Len(ak) - 1
    <2> DEFINE T == Int
    <2>1. ak \in Seq(T) /\ i \in 1 .. Len(ak)
      BY <1>1
    <2> HIDE DEF T, ak
    <2>2. RemoveAt(ak, i) \in Seq(T) /\ Len(RemoveAt(ak, i)) = Len(ak) - 1
      BY ONLY <2>1, RemoveAtEffect
    <2> QED
      BY <2>2 DEF T
  <1>6. RemoveAt(ac, i + 1) \in Seq(Pages)
    <2> DEFINE T == Pages
    <2>1. ac \in Seq(T) /\ i + 1 \in 1 .. Len(ac)
      BY <1>1
    <2> HIDE DEF T, ac
    <2>2. RemoveAt(ac, i + 1) \in Seq(T)
      BY ONLY <2>1, RemoveAtEffect
    <2> QED
      BY <2>2 DEF T
  <1>7. /\ Internal(RemoveAt(ak, i), RemoveAt(ac, i + 1)) \in Node
        /\ Shape(Internal(RemoveAt(ak, i), RemoveAt(ac, i + 1)))
    BY <1>5, <1>6, InternalIsNode, ShapeOf
  <1>8. /\ Merged(l, r, e) \in Node /\ Shape(Merged(l, r, e))
        /\ Len(Merged(l, r, e).keys) >= Len(lk) + Len(rk)
        /\ Emptied(r) \in Node /\ Shape(Emptied(r))
    BY <1>3, <1>4
  <1> QED
    BY <1>2, <1>5, <1>7, <1>8 DEF MergeGives

\* Neither neighbour has an entry to lend, and two of the children are merged.
LEMMA MergeKeeps ==
    ASSUME NEW live, NEW h, NEW rng, NEW par, TreeState(live, h, rng, par), Base,
           MergeChildren
    PROVE  Carries(live, h)
  <1>1. TreeState(live, h, rng, par)
    OBVIOUS
  <1> PICK b : b = (Caller.page # rootPageId)
    OBVIOUS
  <1>2. Base /\ Underflow
    BY DEF MergeChildren
  <1>3. /\ IsTree(nodes, {rootPageId}, live, h, rng, par)
        /\ Filled(nodes, rootPageId, live, Target(nodes, rootPageId, path))
        /\ nodes[rootPageId].isLeaf \/ Len(nodes[rootPageId].keys) > 0
        /\ pc = "return" /\ op.kind = "remove" /\ PagesOK(nodes) /\ path # <<>>
        /\ Linked(nodes, rootPageId, path, live, h) /\ path \in Seq(Frame)
    BY <1>1, <1>2, UnderflowIs
  <1>4. FixReturns(b)
    BY DEF MergeChildren, PopCall, Return, FixReturns
  <1>5. PICK a, n, low : UnderflowAt(live, h, a, n, low)
    BY <1>1, <1>2, UnderflowIs
  <1>6. /\ a = Caller.page /\ n = Caller.idx /\ low = Target(nodes, rootPageId, path)
        /\ a \in live /\ ~nodes[a].isLeaf /\ n \in Nat /\ n + 1 \in 1 .. Len(nodes[a].keys) + 1
        /\ Len(nodes[a].keys) \in Nat /\ Len(nodes[a].keys) > 0
        /\ Parent = nodes[a] /\ low = nodes[a].children[n + 1]
        /\ low \in live /\ low # rootPageId /\ live \subseteq Allocated
        /\ h[a] \in Nat /\ 0 \notin live
    BY <1>5 DEF UnderflowAt
  <1> PICK m : m = IF n > 0 THEN n - 1 ELSE 0
    OBVIOUS
  <1> PICK i, p, q : i = m + 1 /\ p = nodes[a].children[i] /\ q = nodes[a].children[i + 1]
    OBVIOUS
  <1>7. /\ i \in 1 .. Len(nodes[a].keys) /\ m \in Nat /\ Child(m) = p /\ Child(m + 1) = q
        /\ m + 2 = i + 1 /\ low \in {p, q}
    <2> PICK la : la = Len(nodes[a].keys)
      OBVIOUS
    <2>0. /\ n \in Nat /\ la \in Nat /\ la > 0 /\ n + 1 \in 1 .. la + 1
          /\ m = (IF n > 0 THEN n - 1 ELSE 0) /\ i = m + 1
      BY <1>6
    <2>1. n = i \/ n + 1 = i
      BY ONLY <2>0
    <2>2. i \in 1 .. la /\ m \in Nat /\ m + 2 = i + 1
      BY ONLY <2>0
    <2>3. Child(m) = p /\ Child(m + 1) = q
      BY <1>6 DEF Child
    <2>4. low \in {p, q}
      BY <1>6, <2>1
    <2> QED
      BY <2>2, <2>3, <2>4
  <1>8. Siblings(nodes, {rootPageId}, live, h, a, i, p, q)
    BY <1>6, <1>7 DEF Siblings
  <1>9. /\ a \in Allocated /\ p \in Allocated /\ q \in Allocated /\ a # p /\ a # q /\ p # q
        /\ Len(nodes[p].keys) \in Nat /\ Len(nodes[q].keys) \in Nat
        /\ p # rootPageId /\ q # rootPageId /\ p \in live /\ q \in live
    BY ONLY <1>1, <1>2, <1>8, SiblingPages
  <1>10. /\ SiblingFacts(nodes, {rootPageId}, live, h, a, p, q, nodes[a].keys[i])
         /\ nodes[p].isLeaf <=> nodes[q].isLeaf
         /\ nodes[a].keys[i] \in Int /\ h[p] = h[a] - 1 /\ h[q] = h[p]
    <2>1. SiblingFacts(nodes, {rootPageId}, live, h, a, p, q, nodes[a].keys[i])
      BY ONLY <1>3, <1>8, SiblingsAre
    <2> QED
      BY <2>1 DEF SiblingFacts
  <1> PICK e : e = nodes[a].keys[i]
    OBVIOUS
  <1> PICK x, y, z : /\ x = Merged(nodes[p], nodes[q], e) /\ y = Emptied(nodes[q])
                     /\ z = Internal(RemoveAt(nodes[a].keys, i), RemoveAt(nodes[a].children, i + 1))
    OBVIOUS
  <1>11. nodes' = [nodes EXCEPT ![p] = x, ![q] = y, ![a] = z]
    BY Zenon, <1>6, <1>7 DEF MergeChildren
  <1>12. /\ DOMAIN nodes' = Allocated /\ nodes'[p] = x /\ nodes'[q] = y /\ nodes'[a] = z
         /\ \A v \in Allocated \ {a, p, q} : nodes'[v] = nodes[v]
         /\ (\A v \in {a, p, q} : nodes'[v] \in Node /\ Shape(nodes'[v])) => PagesOK(nodes')
    <2>1. SavesThree(nodes, a, p, q, x, y, z, nodes')
      BY <1>11 DEF SavesThree
    <2> QED
      BY ONLY <1>3, <1>9, <2>1, SavedThree
  <1>13. /\ nodes[p] \in Node /\ nodes[q] \in Node /\ nodes[a] \in Node
         /\ ~nodes[q].isLeaf => Len(nodes[q].children) = Len(nodes[q].keys) + 1
         /\ Len(nodes[a].children) = Len(nodes[a].keys) + 1
         /\ nodes[q].nextLeaf \in Pages \cup {-1}
    <2>1. TreeOK(nodes, {rootPageId}, live, h, rng, par)
      BY <1>3 DEF IsTree
    <2>2. nodes[p] \in Node /\ p \in live /\ q \in live /\ a \in live
      <3>1. p \in live /\ q \in live /\ a \in live
        BY Zenon, <1>6, <1>9
      <3> QED
        BY ONLY <2>1, <3>1, LiveNode
    <2>3. /\ nodes[q] \in Node
          /\ ~nodes[q].isLeaf => Len(nodes[q].children) = Len(nodes[q].keys) + 1
      BY ONLY <2>1, <2>2, LiveNode
    <2>4. /\ nodes[a] \in Node
          /\ ~nodes[a].isLeaf => Len(nodes[a].children) = Len(nodes[a].keys) + 1
      BY ONLY <2>1, <2>2, LiveNode
    <2>5. nodes[q].nextLeaf \in Pages \cup {-1}
      BY ONLY <2>3, NodeFields
    <2> QED
      BY Zenon, <1>6, <2>2, <2>3, <2>4, <2>5
  <1>14. /\ x = MergedNode(nodes[p], nodes[q], e, nodes[q].nextLeaf)
         /\ x \in Node /\ Shape(x) /\ y \in Node /\ Shape(y) /\ z \in Node /\ Shape(z)
         /\ Len(x.keys) >= Len(nodes[p].keys) + Len(nodes[q].keys)
         /\ Len(z.keys) = Len(nodes[a].keys) - 1 /\ z.keys = RemoveAt(nodes[a].keys, i)
    <2>1. z.keys = RemoveAt(nodes[a].keys, i)
      BY InternalKeys
    <2> PICK l, r, g : l = nodes[p] /\ r = nodes[q] /\ g = nodes[a]
      OBVIOUS
    <2>2. Mergeable(l, r, g, i)
      BY Zenon, <1>7, <1>10, <1>13 DEF Mergeable
    <2>3. MergeGives(l, r, g, i)
      BY ONLY <2>2, MergedIs
    <2> QED
      BY Zenon, <2>1, <2>3 DEF MergeGives
  <1> PICK live2 : live2 = live \ {q}
    BY Zenon
  <1>15. /\ \E rng2, par2 : IsTree(nodes', {rootPageId}, live2, h, rng2, par2)
         /\ Stored(nodes', live2) = Stored(nodes, live)
    <2> PICK next : next = nodes[q].nextLeaf
      OBVIOUS
    <2>1. Merges(nodes, live, a, i, p, q, next, nodes')
      BY Zenon, <1>6, <1>9, <1>12, <1>13, <1>14 DEF Merges
    <2> PICK tops, N2 : tops = {rootPageId} /\ N2 = nodes'
      BY Zenon
    <2>2. /\ IsTree(nodes, tops, live, h, rng, par)
          /\ Siblings(nodes, tops, live, h, a, i, p, q)
          /\ Merges(nodes, live, a, i, p, q, next, N2)
      BY Zenon, <1>3, <1>8, <2>1
    <2>3. /\ \E rng2, par2 : IsTree(N2, tops, live \ {q}, h, rng2, par2)
          /\ Stored(N2, live \ {q}) = Stored(nodes, live)
          /\ ~N2[a].isLeaf /\ N2[a].children[i] = p /\ i \in DOMAIN N2[a].children
      BY ONLY <2>2, MergeTree
    <2> QED
      BY Zenon, <2>2, <2>3
  <1>16. PICK rng2, par2 : IsTree(nodes', {rootPageId}, live2, h, rng2, par2)
    BY <1>15
  <1>17. \A v \in live : h[v] > h[a] => v \in live2 /\ nodes'[v] = nodes[v]
    <2> PICK ha, hp, hq : ha = h[a] /\ hp = h[p] /\ hq = h[q]
      OBVIOUS
    <2>1. ~(ha > ha) /\ ~(hp > ha) /\ ~(hq > ha)
      <3>1. ha \in Nat /\ hp = ha - 1 /\ hq = hp
        BY Zenon, <1>6, <1>10
      <3> QED
        BY ONLY <3>1
    <2>2. ASSUME NEW v \in live, h[v] > h[a]
          PROVE  v # a /\ v # p /\ v # q
      BY <2>1, <2>2
    <2>3. ASSUME NEW v \in live, v # a, v # p, v # q
          PROVE  v \in live2 /\ nodes'[v] = nodes[v]
      BY Zenon, <1>6, <1>12, <2>3
    <2> QED
      BY ONLY <2>2, <2>3
  <1>18. PagesOK(nodes')
    BY Zenon, <1>12, <1>14
  <1> PICK c, lp, lq, la : /\ c = BTREE_MIN /\ lp = Len(nodes[p].keys) /\ lq = Len(nodes[q].keys)
                           /\ la = Len(nodes[a].keys)
    BY Zenon
  <1>19. /\ c \in Nat /\ c > 0 /\ lp \in Nat /\ lq \in Nat /\ lp + lq >= c /\ la \in Nat
         /\ a # rootPageId => la >= c
    <2>1. c \in Nat /\ c > 0
      BY KeysAreNumbers
    <2>2. /\ lp >= IF p = low THEN c - 1 ELSE c
          /\ lq >= IF q = low THEN c - 1 ELSE c
      BY Zenon, <1>3, <1>6, <1>9 DEF Filled
    <2>3. a # low
      BY <1>7, <1>9
    <2>4. a # rootPageId => la >= c
      BY Zenon, <1>3, <1>6, <2>3 DEF Filled
    <2>5. lp + lq >= c
      <3>1. lp \in Nat /\ lq \in Nat /\ p # q
        BY Zenon, <1>9
      <3> QED
        BY ONLY <2>1, <2>2, <3>1
    <2> QED
      BY Zenon, <1>6, <1>9, <2>1, <2>4, <2>5
  <1>20. Filled(nodes', rootPageId, live2, IF b THEN a ELSE 0)
    <2>1. ASSUME NEW v \in live2 \ {rootPageId}
          PROVE  Len(nodes'[v].keys) >= IF v = a THEN c - 1 ELSE c
      <3>1. CASE v = a
        <4> PICK l2 : l2 = Len(nodes'[v].keys)
          BY Zenon
        <4>1. l2 = la - 1 /\ la \in Nat /\ la >= c /\ c \in Nat
          BY Zenon, <1>12, <1>14, <1>19, <3>1
        <4>2. l2 >= c - 1
          BY ONLY <4>1
        <4> QED
          BY <3>1, <4>2
      <3>2. CASE v = p
        <4>1. Len(x.keys) \in Nat
          BY Zenon, <1>14, NodeFields
        <4>2. Len(x.keys) >= lp + lq
          BY Zenon, <1>14
        <4>3. Len(x.keys) >= c
          BY ONLY <1>19, <4>1, <4>2
        <4> QED
          BY Zenon, <1>9, <1>12, <3>2, <4>3
      <3>3. CASE v # a /\ v # p
        BY Zenon, <1>3, <1>6, <1>7, <1>12, <3>3 DEF Filled
      <3> QED
        BY <3>1, <3>2, <3>3
    <2> QED
      BY Zenon, <1>6, <2>1 DEF Filled
  <1>21. RootFilled'
    <2>1. CASE a = rootPageId
      <3>1. path' = <<>>
        <4> PICK tops : tops = {rootPageId}
          OBVIOUS
        <4>1. IsTree(nodes, tops, live, h, rng, par) /\ rootPageId \in tops
          BY <1>3
        <4>2. Above(nodes, live, h, h[Last(path).page], nodes, live, h)
          BY DEF Above
        <4> PICK root, trail : root = rootPageId /\ trail = path
          OBVIOUS
        <4>3. /\ root \in tops /\ trail \in Seq(Frame) /\ trail # <<>>
              /\ Linked(nodes, root, trail, live, h)
              /\ Above(nodes, live, h, h[Last(trail).page], nodes, live, h)
          BY <1>3, <4>1, <4>2
        <4>4. /\ Linked(nodes, root, Front(trail), live, h)
              /\ Front(trail) = <<>> <=> Last(trail).page = root
          BY ONLY <4>1, <4>3, PathPops
        <4> QED
          BY Zenon, <1>4, <1>6, <2>1, <4>4 DEF Caller, FixReturns
      <3> QED
        BY <1>3, <1>4, <3>1 DEF RootFilled, FixReturns
    <2>2. CASE a # rootPageId
      <3>1. nodes'[rootPageId] = nodes[rootPageId]
        BY Zenon, <1>3, <1>6, <1>9, <1>12, <2>2 DEF IsTree, TreeOK
      <3> QED
        BY <1>3, <1>4, <3>1 DEF RootFilled, FixReturns
    <2> QED
      BY <2>1, <2>2
  <1>22. Fixes(live, h, a, live2, rng2, par2, b)
    <2>1. Allocated' = Allocated
      BY Zenon, <1>12 DEF Allocated
    <2>2. a = rootPageId => ~b
      BY Zenon, <1>6
    <2>3. \A v \in Allocated \ live2 : nodes'[v] \in {nodes[v], Emptied(nodes[v])}
      <3>1. \A v \in Allocated \ live2 : v = q \/ v \in Allocated \ {a, p, q}
        BY Zenon, <1>6, <1>9
      <3>2. nodes'[q] = Emptied(nodes[q])
        BY Zenon, <1>12
      <3> QED
        BY Zenon, <1>12, <3>1, <3>2
    <2> QED
      BY <1>15, <1>16, <1>17, <1>18, <1>20, <1>21, <2>1, <2>2, <2>3 DEF Fixes
  <1> QED
    BY ONLY <1>1, <1>2, <1>4, <1>6, <1>22, FixKeeps

\* An empty leaf is a tree.
LEMMA InitTree ==
    ASSUME Init
    PROVE  TreeInv
  <1> USE DEF Init
  <1>1. /\ MaxPages \in Nat /\ MaxPages > 1 /\ 1 \in Pages /\ Allocated = {1} /\ 1 .. 1 = {1}
        /\ rows \in Nat /\ rows <= MaxPages - 2
    BY TreePagesAssumption, RowsAssumption DEF Pages, Allocated
  <1> PICK n : n = Leaf(<<>>, <<>>, -1)
    OBVIOUS
  <1>2. n \in Node /\ Shape(n) /\ n.isLeaf /\ n.keys = <<>> /\ n.values = <<>> /\ nodes[1] = n
    <2>1. <<>> \in Seq(Int) /\ <<>> \in Seq(Values) /\ -1 \in Pages \cup {-1}
      OBVIOUS
    <2>2. n \in Node /\ Shape(n)
      BY <2>1, LeafIsNode, ShapeOf
    <2>3. n.isLeaf /\ n.keys = <<>> /\ n.values = <<>>
      BY DEF Leaf
    <2> QED
      BY <2>2, <2>3
  <1>3. PagesOK(nodes)
    <2>1. nodes \in [1 .. 1 -> Node] /\ \A p \in 1 .. 1 : Shape(nodes[p])
      BY <1>1, <1>2
    <2>2. 1 \in 1 .. MaxPages - 1
      BY <1>1
    <2> QED
      BY <2>1, <2>2 DEF PagesOK
  <1>4. Base
    <2>1. Cardinality(Allocated) + rows < MaxPages
      <3>1. Cardinality({1}) = 1
        BY FS_Singleton
      <3>2. 1 + rows < MaxPages
        BY ONLY <1>1
      <3> QED
        BY <1>1, <3>1, <3>2
    <2>2. <<>> \in Seq(Frame)
      OBVIOUS
    <2> QED
      BY <1>1, <1>3, <2>1, <2>2, ResultsAre DEF Base
  <1> PICK h, rng, par : /\ h = [p \in Pages |-> 0] /\ rng = [p \in Pages |-> {0}]
                         /\ par = [p \in Pages |-> p]
    OBVIOUS
  <1>5. Tops = {1} /\ ~Pending /\ LowPage = 0 /\ Open = {}
    BY DEF Tops, Pending, LowPage, Open
  <1>6. IsTree(nodes, {1}, {1}, h, rng, par)
    <2>1. LocalOK(n, h[1], rng[1])
      BY <1>1, <1>2 DEF LocalOK, Ascending
    <2>2. TreeOK(nodes, {1}, {1}, h, rng, par)
      BY <1>1, <1>2, <2>1 DEF TreeOK, NodeOK
    <2>3. GhostType({1}, h, rng, par)
      BY <1>1 DEF GhostType
    <2> QED
      BY <2>2, <2>3 DEF IsTree
  <1>7. Heights(rootPageId, {1}, {1}, h)
    BY <1>1 DEF Heights
  <1>8. Linked(nodes, rootPageId, path, {1}, h)
    BY DEF Linked
  <1>9. Filled(nodes, rootPageId, {1}, 0) /\ RootFilled
    BY <1>2 DEF Filled, RootFilled
  <1>10. Faithful(Stored(nodes, {1}), contents, {}, threw)
    <2>1. Stored(nodes, {1}) = {}
      BY <1>2 DEF Stored, EntriesOf
    <2> QED
      BY <2>1 DEF Faithful
  <1>11. TreeState({1}, h, rng, par)
    BY <1>5, <1>6, <1>7, <1>8, <1>9, <1>10 DEF TreeState
  <1> QED
    BY <1>4, <1>11 DEF TreeInv

\* Nothing happens to the tree.
LEMMA SameTreeState ==
    ASSUME Base, NEW live, NEW h, NEW rng, NEW par, TreeState(live, h, rng, par), UNCHANGED vars
    PROVE  Base' /\ TreeState(live, h, rng, par)'
  <1>1. TreeState(live, h, rng, par)'
    BY DEF TreeState, vars, Tops, Pending, LowPage, RootFilled, RootHalf, Open
  <1>2. Base'
    BY DEF Base, vars, Allocated
  <1> QED
    BY <1>1, <1>2

\* So it is carried on.
LEMMA SameTree ==
    ASSUME NEW live, NEW h, NEW rng, NEW par, TreeState(live, h, rng, par), Base,
           UNCHANGED vars
    PROVE  Carries(live, h)
  <1>1. Base' /\ TreeState(live, h, rng, par)'
    BY SameTreeState
  <1>2. Carried(live, h, live, h)
    BY DEF Carried, vars, Allocated
  <1> QED
    BY <1>1, <1>2 DEF Carries

\* Every step leads from a tree to a tree; no key is the -1 that says that a child was not split.
LEMMA NextCarries ==
    ASSUME NEW live, NEW h, NEW rng, NEW par, TreeState(live, h, rng, par), Base,
           [Next]_vars, -1 \notin AllKeys
    PROVE  Carries(live, h)
  <1>1. ASSUME NEW k \in AllKeys, NEW v \in ValuesOf(k), BeginInsert(k, v)
        PROVE  Carries(live, h)
    <2>1. v \in Values
      BY DEF Values
    <2>2. Begin("insert", k, v)
      BY <1>1 DEF BeginInsert
    <2> QED
      BY <2>1, <2>2, BeginKeeps
  <1>2. ASSUME NEW k \in Keys, BeginRemove(k)
        PROVE  Carries(live, h)
    <2>1. k \in AllKeys
      BY DEF AllKeys
    <2>2. Begin("remove", k, NotFound)
      BY <1>2 DEF BeginRemove
    <2> QED
      BY <2>1, <2>2, BeginKeeps
  <1>3. CASE Descend
    BY <1>3, DescendKeeps
  <1>4. CASE InsertStep
    BY <1>4, UpsertMoves, InsertMoves, LeafKeeps, LeafSplitKeeps, LeafThrows, QuietReturn,
       InternalInsertKeeps, InternalSplitKeeps, UpThrows, QuietFinish, GrowRootKeeps
       DEF InsertStep
  <1>5. CASE RemoveStep
    BY <1>5, RemoveMoves, LeafKeeps, QuietRemove, QuietReturn, BorrowLeftKeeps, BorrowRightKeeps,
       MergeKeeps, ShrinkRootKeeps, QuietFinish
       DEF RemoveStep
  <1>6. CASE UNCHANGED vars
    BY <1>6, SameTree
  <1> QED
    BY <1>1, <1>2, <1>3, <1>4, <1>5, <1>6 DEF Next

\* So every step keeps the invariant.
LEMMA NextKeepsTree ==
    ASSUME TreeInv, [Next]_vars, -1 \notin AllKeys
    PROVE  TreeInv'
  <1>1. PICK live, h, rng, par : TreeState(live, h, rng, par)
    BY DEF TreeInv
  <1>2. Carries(live, h)
    BY <1>1, NextCarries DEF TreeInv
  <1> QED
    BY <1>2 DEF Carries, TreeInv

\* The pages always hold a search tree of what was asked for.
THEOREM TreeInvariant ==
    ASSUME -1 \notin AllKeys
    PROVE  Spec => []TreeInv
  <1>1. Init => TreeInv
    BY InitTree
  <1>2. TreeInv /\ [Next]_vars => TreeInv'
    BY NextKeepsTree
  <1> QED
    BY <1>1, <1>2, PTL DEF Spec

-----------------------------------------------------------------------------
(* A search finds what is stored *)

\* A function applied again and again.
Iterated(f, S, a, g, m) ==
    f \in [0 .. m -> S] /\ f[0] = a /\ \A d \in 1 .. m : f[d] = g[f[d - 1]]

\* There is a function that applies g again and again.
LEMMA Iterates ==
    ASSUME NEW S, NEW a \in S, NEW g \in [S -> S], NEW m \in Nat
    PROVE  \E f : Iterated(f, S, a, g, m)
  <1> DEFINE Runs(f, n) == f \in [0 .. n -> S] /\ f[0] = a /\ \A d \in 1 .. n : f[d] = g[f[d - 1]]
             bad == {n \in Nat : ~\E f : Runs(f, n)}
  <1>1. bad = {}
    <2> SUFFICES ASSUME bad # {} PROVE FALSE
      OBVIOUS
    <2> bad \in SUBSET Nat
      OBVIOUS
    <2>1. PICK n \in bad : \A x \in bad : n <= x
      <3> HIDE DEF bad
      <3> QED
        BY LeastOf
    <2>2. n \in Nat /\ ~\E f : Runs(f, n)
      OBVIOUS
    <2>3. CASE n = 0
      <3> DEFINE f == [d \in 0 .. 0 |-> a]
      <3>1. Runs(f, 0)
        OBVIOUS
      <3> HIDE DEF f
      <3> QED
        BY <2>2, <2>3, <3>1
    <2>4. CASE n > 0
      <3>1. n - 1 \in Nat /\ n - 1 \notin bad
        <4>1. n \in Nat
          BY <2>2
        <4> HIDE DEF bad
        <4> QED
          BY <2>1, <2>4, <4>1
      <3>2. PICK f : Runs(f, n - 1)
        BY <3>1
      <3> DEFINE f2 == [d \in 0 .. n |-> IF d = n THEN g[f[n - 1]] ELSE f[d]]
      <3>3. f[n - 1] \in S
        BY <2>2, <2>4, <3>2
      <3>4. f2 \in [0 .. n -> S] /\ f2[0] = a
        BY <2>2, <2>4, <3>2, <3>3
      <3>5. \A d \in 1 .. n : f2[d] = g[f2[d - 1]]
        BY <2>2, <2>4, <3>2
      <3>6. Runs(f2, n)
        BY <3>4, <3>5
      <3> HIDE DEF f2
      <3> QED
        BY <2>2, <3>6
    <2> QED
      BY <2>2, <2>3, <2>4
  <1> QED
    BY <1>1 DEF Iterated

\* Two functions that go on alike end alike.
LEMMA SameRun ==
    ASSUME NEW m \in Nat, NEW f, NEW c, f[0] = c[0],
           \A d \in 1 .. m : f[d - 1] = c[d - 1] => f[d] = c[d]
    PROVE  f[m] = c[m]
  <1> DEFINE bad == {d \in Nat : d <= m /\ f[d] # c[d]}
  <1>1. bad = {}
    <2> SUFFICES ASSUME bad # {} PROVE FALSE
      OBVIOUS
    <2> bad \in SUBSET Nat
      OBVIOUS
    <2>1. PICK n \in bad : \A x \in bad : n <= x
      <3> HIDE DEF bad
      <3> QED
        BY LeastOf
    <2>2. n # 0
      OBVIOUS
    <2>3. n - 1 \in Nat /\ n - 1 \notin bad /\ n \in 1 .. m
      BY <2>1, <2>2
    <2>4. f[n - 1] = c[n - 1]
      BY <2>3
    <2>5. f[n] = c[n]
      BY <2>3, <2>4
    <2> QED
      BY <2>5
  <1> QED
    BY <1>1

\* One step of findLeafPage.
Onward(p, k) == IF nodes[p].isLeaf THEN p ELSE ChildFor(nodes[p], k)

\* The way findLeafPage takes from root, as long as it is among the pages S.
Leads(at, S, root, k) ==
    /\ at \in [0 .. MaxPages -> S] /\ at[0] = root
    /\ \A d \in 1 .. MaxPages : at[d] = Onward(at[d - 1], k)

\* It ends where findLeafPage does.
LEMMA FindLeafPageIs ==
    ASSUME NEW S, NEW root, NEW k, NEW at, Leads(at, S, root, k)
    PROVE  FindLeafPage(root, k) = at[MaxPages]
  <1> DEFINE Way(f) == f = [d \in 0 .. MaxPages |->
                               IF d = 0 THEN root
                               ELSE LET p == f[d - 1] IN
                                    IF nodes[p].isLeaf THEN p ELSE ChildFor(nodes[p], k)]
             c == CHOOSE f : Way(f)
  <1>1. MaxPages \in Nat
    BY TreePagesAssumption
  <1>2. Way(at)
    <2>1. ASSUME NEW d \in 0 .. MaxPages, d # 0
          PROVE  at[d] = IF nodes[at[d - 1]].isLeaf THEN at[d - 1]
                         ELSE ChildFor(nodes[at[d - 1]], k)
      <3>1. d \in 1 .. MaxPages
        BY <1>1, <2>1
      <3>2. at[d] = Onward(at[d - 1], k)
        BY <3>1 DEF Leads
      <3> QED
        BY <3>2 DEF Onward
    <2> QED
      BY <2>1 DEF Leads
  <1>3. Way(c)
    <2> HIDE DEF Way
    <2> QED
      BY <1>2
  <1>4. FindLeafPage(root, k) = c[MaxPages]
    BY DEF FindLeafPage
  <1>5. c[0] = root
    <2> HIDE DEF c
    <2> QED
      BY <1>1, <1>3
  <1>6. \A d \in 1 .. MaxPages : c[d] = Onward(c[d - 1], k)
    <2> HIDE DEF c
    <2>1. \A d \in 1 .. MaxPages : d \in 0 .. MaxPages /\ d # 0
      OBVIOUS
    <2> QED
      BY <1>3, <2>1 DEF Onward
  <1> HIDE DEF c, Way
  <1>7. \A d \in 1 .. MaxPages : at[d - 1] = c[d - 1] => at[d] = c[d]
    BY <1>6 DEF Leads
  <1>8. at[MaxPages] = c[MaxPages]
    <2>1. at[0] = c[0]
      BY <1>5 DEF Leads
    <2> QED
      BY ONLY <1>1, <1>7, <2>1, SameRun
  <1> QED
    BY <1>4, <1>8

\* findLeafPage goes on as long as it is among the pages S.
LEMMA FindLeafPageRuns ==
    ASSUME NEW S, NEW root \in S, NEW k, \A p \in S : Onward(p, k) \in S
    PROVE  \E at : Leads(at, S, root, k)
  <1> DEFINE g == [p \in S |-> Onward(p, k)]
  <1> PICK m : m = MaxPages
    OBVIOUS
  <1>1. m \in Nat
    BY TreePagesAssumption
  <1>2. g \in [S -> S] /\ \A p \in S : g[p] = Onward(p, k)
    OBVIOUS
  <1> HIDE DEF g
  <1>3. PICK f : Iterated(f, S, root, g, m)
    BY <1>1, <1>2, Iterates
  <1>4. \A d \in 1 .. m : f[d - 1] \in S
    BY <1>1, <1>3 DEF Iterated
  <1>5. Leads(f, S, root, k)
    BY <1>2, <1>3, <1>4 DEF Iterated, Leads
  <1> QED
    BY <1>5

\* As far as the search for k goes, the pages are those of the tree N: internal nodes are the same,
\* and leaves have the key k with the same value, or without it.
SameFor(k, n, m) ==
    /\ n \in Node /\ Ascending(n.keys)
    /\ n.isLeaf <=> m.isLeaf
    /\ ~m.isLeaf => n = m
    /\ m.isLeaf => /\ Len(n.values) = Len(n.keys)
                   /\ \A v : <<k, v>> \in EntriesOf(n.keys, n.values)
                               <=> <<k, v>> \in EntriesOf(m.keys, m.values)
Resembles(N, live, k) == \A p \in live : SameFor(k, nodes[p], N[p])

\* k belongs on p, as far below the root as d steps go.
Reaches(N, root, tops, live, h, par, k, d, p) ==
    /\ \E rng : IsTree(N, tops, live, h, rng, par) /\ Sought(live, h, rng, p, k)
    /\ N[p].isLeaf \/ h[p] + d = h[root]

\* One step of findLeafPage goes on to where k belongs.
LEMMA OnwardReaches ==
    ASSUME NEW N, NEW root, NEW tops, tops = {root}, NEW live, NEW h, NEW par,
           Heights(root, tops, live, h), NEW k \in Int, NEW d \in Nat, Resembles(N, live, k),
           NEW p, Reaches(N, root, tops, live, h, par, k, d, p)
    PROVE  Reaches(N, root, tops, live, h, par, k, d + 1, Onward(p, k))
  <1>1. PICK rng : IsTree(N, tops, live, h, rng, par) /\ Sought(live, h, rng, p, k)
    BY DEF Reaches
  <1>2. (nodes[p].isLeaf <=> N[p].isLeaf) /\ (~N[p].isLeaf => nodes[p] = N[p])
    BY <1>1 DEF Sought, Resembles, SameFor
  <1>3. CASE N[p].isLeaf
    BY <1>2, <1>3 DEF Onward, Reaches
  <1>4. CASE ~N[p].isLeaf
    <2> PICK c : c = ChildFor(N[p], k)
      OBVIOUS
    <2>1. /\ c \in live \ tops /\ h[c] = h[p] - 1 /\ h[p] > 0
          /\ \E rng2 : IsTree(N, tops, live, h, rng2, par) /\ Sought(live, h, rng2, c, k)
      BY ONLY <1>1, <1>4, c = ChildFor(N[p], k), tops = {root}, k \in Int,
              Heights(root, tops, live, h), ChildSought
    <2>2. h[p] + d = h[root] /\ h[p] \in Nat
      BY <1>1, <1>4 DEF Reaches, IsTree, GhostType, Sought
    <2>3. h[c] + (d + 1) = h[root]
      BY <2>1, <2>2
    <2>4. Onward(p, k) = c
      BY <1>2, <1>4 DEF Onward
    <2> QED
      BY <2>1, <2>3, <2>4 DEF Reaches
  <1> QED
    BY <1>3, <1>4

\* findLeafPage reaches the one leaf on which k belongs.
LEMMA FindLeafPageFinds ==
    ASSUME NEW N, NEW root, NEW tops, tops = {root}, NEW live, NEW h, NEW rng, NEW par,
           IsTree(N, tops, live, h, rng, par), Heights(root, tops, live, h), NEW k \in Int,
           Resembles(N, live, k)
    PROVE  LET p == FindLeafPage(root, k)
           IN /\ p \in live /\ N[p].isLeaf
              /\ \E rng2 : IsTree(N, tops, live, h, rng2, par) /\ Sought(live, h, rng2, p, k)
              /\ \E at : Leads(at, live, root, k)
  <1>1. root \in tops /\ root \in live /\ live \subseteq Pages /\ h \in [Pages -> Nat]
        /\ rng \in [Pages -> SUBSET Int]
    BY DEF IsTree, TreeOK, GhostType
  <1>2. Reaches(N, root, tops, live, h, par, k, 0, root)
    <2> PICK rng2 : rng2 = [rng EXCEPT ![root] = rng[root] \cup {k}]
      OBVIOUS
    <2>1. IsTree(N, tops, live, h, rng2, par)
      BY <1>1, WidenTop
    <2>2. k \in rng2[root]
      BY <1>1
    <2>3. \A q \in live : h[q] = h[root] => q = root
      BY <1>1 DEF Heights
    <2>4. h[root] + 0 = h[root]
      BY <1>1
    <2> QED
      BY <1>1, <2>1, <2>2, <2>3, <2>4 DEF Reaches, Sought
  <1>3. \A p \in live : Onward(p, k) \in live
    <2>1. ASSUME NEW p \in live, ~N[p].isLeaf
          PROVE  ChildFor(N[p], k) \in live
      <3> DEFINE idx == UpperBound(N[p].keys, k)
      <3>1. /\ N[p] \in Node /\ Ascending(N[p].keys)
            /\ Len(N[p].children) = Len(N[p].keys) + 1
        BY <2>1, LiveNode DEF IsTree
      <3>2. /\ N[p].keys \in Seq(Int) /\ Len(N[p].keys) \in Nat
            /\ DOMAIN N[p].children = 1 .. Len(N[p].children)
        BY <3>1, NodeFields
      <3>3. idx \in 0 .. Len(N[p].keys)
        BY <3>1, <3>2, UpperBoundIsSlot DEF IsSlot
      <3>4. idx + 1 \in DOMAIN N[p].children
        <4> HIDE DEF idx
        <4> QED
          BY <3>1, <3>2, <3>3
      <3>5. N[p].children[idx + 1] \in live
        <4> HIDE DEF idx
        <4> QED
          BY <2>1, <3>4, ChildOf DEF IsTree
      <3> QED
        BY <3>5 DEF ChildFor
    <2>2. \A p \in live : (nodes[p].isLeaf <=> N[p].isLeaf) /\ (~N[p].isLeaf => nodes[p] = N[p])
      BY DEF Resembles, SameFor
    <2> QED
      BY <2>1, <2>2 DEF Onward
  <1>4. PICK at : Leads(at, live, root, k)
    BY <1>1, <1>3, FindLeafPageRuns
  <1>5. /\ at \in [0 .. MaxPages -> live] /\ at[0] = root
        /\ \A d \in 1 .. MaxPages : at[d] = Onward(at[d - 1], k)
        /\ FindLeafPage(root, k) = at[MaxPages]
    <2>1. FindLeafPage(root, k) = at[MaxPages]
      BY ONLY <1>4, FindLeafPageIs
    <2> QED
      BY ONLY <1>4, <2>1 DEF Leads
  <1> DEFINE bad == {d \in Nat : d <= MaxPages
                                   /\ ~Reaches(N, root, tops, live, h, par, k, d, at[d])}
  <1>6. MaxPages \in Nat /\ MaxPages > 1
    BY TreePagesAssumption
  <1>7. bad = {}
    <2> SUFFICES ASSUME bad # {} PROVE FALSE
      OBVIOUS
    <2> bad \in SUBSET Nat
      OBVIOUS
    <2>1. PICK n \in bad : \A x \in bad : n <= x
      <3> HIDE DEF bad
      <3> QED
        BY LeastOf
    <2>2. n # 0
      BY <1>2, <1>5
    <2>3. n \in Nat /\ n <= MaxPages /\ ~Reaches(N, root, tops, live, h, par, k, n, at[n])
      OBVIOUS
    <2>4. n - 1 \in Nat /\ n - 1 <= MaxPages /\ n \in 1 .. MaxPages /\ n - 1 \notin bad
      <3> HIDE DEF bad
      <3> QED
        BY <1>6, <2>1, <2>2, <2>3
    <2> PICK d, p : d = n - 1 /\ p = at[d]
      OBVIOUS
    <2>5. d \in Nat /\ Reaches(N, root, tops, live, h, par, k, d, p)
      BY <2>4
    <2>6. Reaches(N, root, tops, live, h, par, k, d + 1, Onward(p, k))
      BY <2>5, OnwardReaches
    <2>7. d + 1 = n /\ at[n] = Onward(p, k)
      BY <1>5, <2>3, <2>4
    <2> QED
      BY <2>3, <2>6, <2>7
  <1> PICK p : p = at[MaxPages]
    OBVIOUS
  <1>8. p \in live /\ Reaches(N, root, tops, live, h, par, k, MaxPages, p)
    <2>1. MaxPages \notin bad
      BY <1>7
    <2> QED
      BY <1>5, <1>6, <2>1
  <1>9. N[p].isLeaf
    <2>1. h[root] < root /\ root <= MaxPages - 1 /\ root \in Nat
      BY <1>1, <1>6 DEF Heights, Pages
    <2>2. h[p] \in Nat /\ h[root] \in Nat
      BY <1>1, <1>8
    <2>3. h[p] + MaxPages # h[root]
      BY ONLY <1>6, <2>1, <2>2
    <2> QED
      BY <1>8, <2>3 DEF Reaches
  <1> QED
    BY <1>4, <1>5, <1>8, <1>9 DEF Reaches

\* search finds what the tree N stores of k.
LEMMA SearchFinds ==
    ASSUME NEW N, NEW root, NEW live, NEW h, NEW rng, NEW par,
           IsTree(N, {root}, live, h, rng, par), Heights(root, {root}, live, h),
           NEW asked, NEW open, NEW lost \in BOOLEAN,
           Faithful(Stored(N, live), asked, open, lost),
           NEW k \in AllKeys, k \notin open, Resembles(N, live, k)
    PROVE  Search(root, k) = asked[k] \/ (lost /\ Search(root, k) = NotFound)
  <1> PICK tops : tops = {root}
    OBVIOUS
  <1>2. IsTree(N, tops, live, h, rng, par) /\ Heights(root, tops, live, h) /\ k \in Int
    BY KeysAreNumbers
  <1> PICK p : p = FindLeafPage(root, k)
    OBVIOUS
  <1>3. p \in live /\ N[p].isLeaf
    BY <1>2, FindLeafPageFinds
  <1>4. PICK rng2 : IsTree(N, tops, live, h, rng2, par) /\ Sought(live, h, rng2, p, k)
    BY <1>2, FindLeafPageFinds
  <1> PICK ks, vs, idx : /\ ks = nodes[p].keys /\ vs = nodes[p].values
                         /\ idx = LowerBound(ks, k)
    OBVIOUS
  <1>5. /\ nodes[p] \in Node /\ Ascending(ks) /\ Len(vs) = Len(ks)
        /\ \A v : <<k, v>> \in EntriesOf(ks, vs) <=> <<k, v>> \in EntriesOf(N[p].keys, N[p].values)
    BY <1>3 DEF Resembles, SameFor
  <1>6. ks \in Seq(Int) /\ vs \in Seq(Values) /\ Len(ks) \in Nat /\ DOMAIN ks = 1 .. Len(ks)
    BY <1>5, NodeFields
  <1>7. /\ idx \in 0 .. Len(ks)
        /\ \A j \in DOMAIN ks : ks[j] = k => j = idx + 1
    BY ONLY <1>2, <1>5, <1>6, idx = LowerBound(ks, k), LowerBoundFinds
  <1>8. Search(root, k) = IF idx < Len(ks) /\ ks[idx + 1] = k THEN vs[idx + 1] ELSE NotFound
    BY DEF Search
  <1>9. CASE idx < Len(ks) /\ ks[idx + 1] = k
    <2>1. idx + 1 \in DOMAIN ks
      BY <1>6, <1>7, <1>9
    <2>2. <<k, vs[idx + 1]>> \in EntriesOf(ks, vs)
      BY <1>9, <2>1 DEF EntriesOf
    <2>3. <<k, vs[idx + 1]>> \in Stored(N, live)
      BY <1>3, <1>5, <2>2, StoredHas DEF Holds
    <2>4. vs[idx + 1] = asked[k]
      BY <2>3 DEF Faithful
    <2> QED
      BY <1>8, <1>9, <2>4
  <1>10. CASE ~(idx < Len(ks) /\ ks[idx + 1] = k)
    <2>1. Search(root, k) = NotFound
      BY <1>8, <1>10
    <2>2. ASSUME <<k, asked[k]>> \in Stored(N, live)
          PROVE  FALSE
      <3>1. PICK q \in live : Holds(N, q, <<k, asked[k]>>)
        BY <2>2, StoredHas
      <3>2. N[q].isLeaf /\ <<k, asked[k]>> \in EntriesOf(N[q].keys, N[q].values)
        BY <3>1 DEF Holds
      <3>3. PICK i \in DOMAIN N[q].keys : N[q].keys[i] = k
        BY <3>2 DEF EntriesOf
      <3>4. k \in rng2[q] /\ h[q] = 0 /\ h[p] = 0
        BY <1>3, <1>4, <3>2, <3>3, LiveNode DEF IsTree
      <3>5. q = p
        BY <1>4, <3>4 DEF Sought
      <3>6. <<k, asked[k]>> \in EntriesOf(ks, vs)
        BY <1>5, <3>2, <3>5
      <3>7. PICK j \in DOMAIN ks : ks[j] = k
        BY <3>6 DEF EntriesOf
      <3>8. idx < Len(ks) /\ ks[idx + 1] = k
        BY <1>6, <1>7, <3>7
      <3> QED
        BY <1>10, <3>8
    <2> QED
      BY <2>1, <2>2 DEF Faithful
  <1> QED
    BY <1>9, <1>10

\* A tree resembles itself.
LEMMA ResemblesItself ==
    ASSUME NEW tops, NEW live, NEW h, NEW rng, NEW par, IsTree(nodes, tops, live, h, rng, par),
           NEW k
    PROVE  Resembles(nodes, live, k)
  BY LiveNode DEF IsTree, Resembles, SameFor

\* Between calls search finds what was asked for.
LEMMA SearchAnswers ==
    ASSUME TreeInv, pc = "idle", NEW k \in AllKeys
    PROVE  Search(rootPageId, k) = contents[k] \/ (threw /\ Search(rootPageId, k) = NotFound)
  <1>1. PICK live, h, rng, par : TreeState(live, h, rng, par)
    BY DEF TreeInv
  <1>2. Tops = {rootPageId} /\ Open = {}
    BY DEF Tops, Pending, Open
  <1>3. /\ IsTree(nodes, {rootPageId}, live, h, rng, par)
        /\ Heights(rootPageId, {rootPageId}, live, h)
        /\ Faithful(Stored(nodes, live), contents, {}, threw)
        /\ threw \in BOOLEAN /\ k \notin {}
    BY <1>1, <1>2 DEF TreeState, TreeInv, Base
  <1>4. Resembles(nodes, live, k)
    BY <1>3, ResemblesItself
  <1> PICK N, root, asked, lost, open :
         N = nodes /\ root = rootPageId /\ asked = contents /\ lost = threw /\ open = {}
    OBVIOUS
  <1>5. /\ IsTree(N, {root}, live, h, rng, par) /\ Heights(root, {root}, live, h)
        /\ Faithful(Stored(N, live), asked, open, lost)
        /\ lost \in BOOLEAN /\ k \notin open /\ Resembles(N, live, k) /\ k \in AllKeys
    BY <1>3, <1>4
  <1>6. Search(root, k) = asked[k] \/ (lost /\ Search(root, k) = NotFound)
    BY ONLY <1>5, SearchFinds
  <1> QED
    BY <1>6

\* Whenever no call is in progress, search finds each key with the value last inserted, from
\* the root in memory and from that in the meta page.
THEOREM SearchTheorem ==
    ASSUME -1 \notin AllKeys
    PROVE  Spec => []SearchFindsContents
  <1>1. TreeInv => SearchFindsContents
    <2> SUFFICES ASSUME TreeInv, pc = "idle", NEW k \in AllKeys,
                        NEW root \in {rootPageId, metaRoot}
                 PROVE  \/ Search(root, k) = contents[k]
                        \/ threw /\ Search(root, k) = NotFound
      BY DEF SearchFindsContents
    <2>1. root = rootPageId
      BY DEF TreeInv, Base
    <2> QED
      BY <2>1, SearchAnswers
  <1> QED
    BY <1>1, TreeInvariant, PTL

-----------------------------------------------------------------------------
(* Levels *)

\* Counting up.
LEMMA CountUp ==
    ASSUME NEW S, NEW a \in Nat, NEW m \in Nat, a \in S,
           \A n \in Nat : a <= n /\ n < m /\ n \in S => n + 1 \in S
    PROVE  \A n \in a .. m : n \in S
  <1> DEFINE bad == {n \in Nat : n \in a .. m /\ n \notin S}
  <1>1. bad = {}
    <2> SUFFICES ASSUME bad # {} PROVE FALSE
      OBVIOUS
    <2> bad \in SUBSET Nat
      OBVIOUS
    <2>1. PICK n \in bad : \A x \in bad : n <= x
      <3> HIDE DEF bad
      <3> QED
        BY LeastOf
    <2>2. n \in Nat /\ n # a /\ a <= n /\ n <= m /\ n \notin S
      OBVIOUS
    <2>3. n - 1 \in Nat /\ a <= n - 1 /\ n - 1 < m /\ n - 1 \notin bad
      <3> HIDE DEF bad
      <3> QED
        BY <2>1, <2>2
    <2>4. n - 1 \in S
      BY <2>2, <2>3
    <2> QED
      BY <2>2, <2>3, <2>4
  <1> QED
    BY <1>1

\* The elements of two sequences, one after the other.
LEMMA Joined ==
    ASSUME NEW T, NEW s \in Seq(T), NEW t \in Seq(T)
    PROVE  /\ s \o t \in Seq(T)
           /\ \A x : x \in ToSet(s \o t) <=> x \in ToSet(s) \/ x \in ToSet(t)
           /\ IsInjective(s) /\ IsInjective(t) /\ ToSet(s) \cap ToSet(t) = {}
                 => IsInjective(s \o t)
  <1> PICK m, n, u : m = Len(s) /\ n = Len(t) /\ u = s \o t
    OBVIOUS
  <1>1. /\ m \in Nat /\ n \in Nat /\ DOMAIN s = 1 .. m /\ DOMAIN t = 1 .. n
        /\ u \in Seq(T) /\ DOMAIN u = 1 .. m + n
        /\ \A i \in 1 .. m : u[i] = s[i]
        /\ \A i \in m + 1 .. m + n : u[i] = t[i - m]
    OBVIOUS
  <1>2. \A i \in 1 .. n : i + m \in m + 1 .. m + n /\ u[i + m] = t[i]
    BY <1>1
  <1>3. \A i \in 1 .. m + n : i \in 1 .. m \/ (i - m \in 1 .. n /\ i \in m + 1 .. m + n)
    BY <1>1
  <1>4. ASSUME NEW x
        PROVE  x \in ToSet(u) <=> x \in ToSet(s) \/ x \in ToSet(t)
    <2>1. ASSUME NEW i \in 1 .. m + n, x = u[i]
          PROVE  x \in ToSet(s) \/ x \in ToSet(t)
      BY <1>1, <1>3, <2>1 DEF ToSet
    <2>2. ASSUME NEW i \in 1 .. m, x = s[i] PROVE x \in ToSet(u)
      <3>1. i \in 1 .. m + n
        BY <1>1
      <3> QED
        BY <1>1, <2>2, <3>1 DEF ToSet
    <2>3. ASSUME NEW i \in 1 .. n, x = t[i] PROVE x \in ToSet(u)
      <3>1. i + m \in 1 .. m + n
        BY <1>1
      <3> QED
        BY <1>1, <1>2, <2>3, <3>1 DEF ToSet
    <2> QED
      BY <1>1, <2>1, <2>2, <2>3 DEF ToSet
  <1>5. ASSUME IsInjective(s), IsInjective(t), ToSet(s) \cap ToSet(t) = {}
        PROVE  IsInjective(u)
    <2> SUFFICES ASSUME NEW i \in 1 .. m + n, NEW j \in 1 .. m + n, u[i] = u[j]
                 PROVE  i = j
      BY <1>1 DEF IsInjective
    <2>1. \A x \in 1 .. m, y \in m + 1 .. m + n : u[x] # u[y]
      <3> SUFFICES ASSUME NEW x \in 1 .. m, NEW y \in m + 1 .. m + n PROVE u[x] # u[y]
        OBVIOUS
      <3>1. u[x] \in ToSet(s)
        BY <1>1 DEF ToSet
      <3>2. y - m \in 1 .. n /\ u[y] = t[y - m]
        BY <1>1
      <3>3. u[y] \in ToSet(t)
        BY <1>1, <3>2 DEF ToSet
      <3> QED
        BY <1>5, <3>1, <3>3
    <2>2. CASE i \in 1 .. m /\ j \in 1 .. m
      BY <1>1, <1>5, <2>2 DEF IsInjective
    <2>3. CASE i \in m + 1 .. m + n /\ j \in m + 1 .. m + n
      <3>1. i - m \in 1 .. n /\ j - m \in 1 .. n /\ t[i - m] = t[j - m]
        BY <1>1, <2>3
      <3>2. i - m = j - m
        BY <1>1, <1>5, <3>1 DEF IsInjective
      <3> QED
        BY <1>1, <2>3, <3>2
    <2> QED
      BY <1>3, <2>1, <2>2, <2>3
  <1> QED
    BY <1>1, <1>4, <1>5

\* Sequences that have no element twice, and none in common.
Apart(ss) ==
    /\ \A i \in DOMAIN ss : IsInjective(ss[i])
    /\ \A i, j \in DOMAIN ss : i # j => ToSet(ss[i]) \cap ToSet(ss[j]) = {}

\* One after the other.
Joins(f, ss, T, n) ==
    /\ f \in [1 .. n -> Seq(T)]
    /\ f[1] = ss[1]
    /\ \A i \in 2 .. n : f[i] = f[i - 1] \o ss[i]

\* There is a function that joins the first sequences.
LEMMA JoinsExist ==
    ASSUME NEW T, NEW ss \in Seq(Seq(T)), Len(ss) > 0
    PROVE  \E f : Joins(f, ss, T, Len(ss))
  <1> PICK m : m = Len(ss)
    OBVIOUS
  <1>1. m \in Nat /\ 1 <= m /\ \A i \in 1 .. m : ss[i] \in Seq(T)
    OBVIOUS
  <1> DEFINE S == {n \in Nat : \E f : Joins(f, ss, T, n)}
  <1>2. 1 \in S
    <2> DEFINE f == [i \in 1 .. 1 |-> ss[1]]
    <2>1. Joins(f, ss, T, 1)
      BY <1>1 DEF Joins
    <2> HIDE DEF f
    <2> QED
      BY <2>1
  <1>3. ASSUME NEW n \in Nat, 1 <= n, n < m, n \in S
        PROVE  n + 1 \in S
    <2>1. PICK f : Joins(f, ss, T, n)
      BY <1>3
    <2> DEFINE f2 == [i \in 1 .. n + 1 |-> IF i = n + 1 THEN f[n] \o ss[n + 1] ELSE f[i]]
    <2>2. n + 1 \in 1 .. m /\ n \in 1 .. n /\ n + 1 # 1
      BY <1>1, <1>3
    <2>3. f[n] \o ss[n + 1] \in Seq(T)
      <3>1. f[n] \in Seq(T) /\ ss[n + 1] \in Seq(T)
        BY <1>1, <2>1, <2>2 DEF Joins
      <3> QED
        BY <3>1, Joined
    <2>4. f2 \in [1 .. n + 1 -> Seq(T)]
      <3>1. \A i \in 1 .. n + 1 : i # n + 1 => i \in 1 .. n
        BY <1>3
      <3> QED
        BY <2>1, <2>3, <3>1 DEF Joins
    <2>5. f2[1] = ss[1]
      BY <1>3, <2>1, <2>2 DEF Joins
    <2>6. \A i \in 2 .. n + 1 : f2[i] = f2[i - 1] \o ss[i]
      <3> SUFFICES ASSUME NEW i \in 2 .. n + 1 PROVE f2[i] = f2[i - 1] \o ss[i]
        OBVIOUS
      <3>1. i \in 1 .. n + 1 /\ i - 1 \in 1 .. n + 1 /\ i - 1 # n + 1 /\ i \in Nat
        BY <1>3
      <3>2. f2[i - 1] = f[i - 1]
        BY <3>1
      <3>3. CASE i = n + 1
        <4>1. f2[i] = f[n] \o ss[n + 1]
          BY <3>1, <3>3
        <4>2. i - 1 = n
          BY <3>3
        <4> QED
          BY <3>2, <3>3, <4>1, <4>2
      <3>4. CASE i # n + 1
        <4>1. i \in 2 .. n
          BY <1>3, <3>4
        <4>2. f2[i] = f[i]
          BY <3>1, <3>4
        <4>3. f[i] = f[i - 1] \o ss[i]
          BY <2>1, <4>1 DEF Joins
        <4> QED
          BY <3>2, <4>2, <4>3
      <3> QED
        BY <3>3, <3>4
    <2>7. Joins(f2, ss, T, n + 1)
      BY <2>4, <2>5, <2>6 DEF Joins
    <2> HIDE DEF f2
    <2> QED
      BY <1>3, <2>7
  <1> HIDE DEF S
  <1>4. \A n \in 1 .. m : n \in S
    BY <1>1, <1>2, <1>3, CountUp
  <1> QED
    BY <1>1, <1>4 DEF S

\* What is in the first n sequences is in their concatenation.
LEMMA JoinsKeep ==
    ASSUME NEW T, NEW ss \in Seq(Seq(T)), Len(ss) > 0, NEW f, Joins(f, ss, T, Len(ss))
    PROVE  /\ \A x \in ToSet(f[Len(ss)]) : \E j \in DOMAIN ss : x \in ToSet(ss[j])
           /\ Apart(ss) => IsInjective(f[Len(ss)])
  <1> PICK m : m = Len(ss)
    OBVIOUS
  <1>1. m \in Nat /\ 1 <= m /\ DOMAIN ss = 1 .. m /\ \A i \in 1 .. m : ss[i] \in Seq(T)
    OBVIOUS
  <1> DEFINE S == {n \in 1 .. m : /\ \A x \in ToSet(f[n]) : \E j \in 1 .. n : x \in ToSet(ss[j])
                                  /\ Apart(ss) => IsInjective(f[n])}
  <1>2. 1 \in S
    <2>1. f[1] = ss[1]
      BY DEF Joins
    <2>2. 1 \in 1 .. 1 /\ 1 \in 1 .. m
      BY <1>1
    <2> QED
      BY <1>1, <2>1, <2>2 DEF Apart
  <1>3. ASSUME NEW n \in Nat, 1 <= n, n < m, n \in S
        PROVE  n + 1 \in S
    <2>1. n + 1 \in 2 .. m /\ n + 1 \in 1 .. m /\ n \in 1 .. m /\ n + 1 - 1 = n
      BY <1>1, <1>3
    <2>2. f[n + 1] = f[n] \o ss[n + 1] /\ f[n] \in Seq(T) /\ ss[n + 1] \in Seq(T)
      <3> PICK i : i = n + 1
        OBVIOUS
      <3>1. i \in 2 .. m /\ i \in 1 .. m /\ i - 1 = n
        BY <2>1
      <3>2. f[i] = f[i - 1] \o ss[i]
        BY <3>1 DEF Joins
      <3> QED
        BY <1>1, <2>1, <3>1, <3>2 DEF Joins
    <2> PICK s, t, u : s = f[n] /\ t = ss[n + 1] /\ u = f[n + 1]
      OBVIOUS
    <2>3. /\ \A x : x \in ToSet(s \o t) <=> x \in ToSet(s) \/ x \in ToSet(t)
          /\ IsInjective(s) /\ IsInjective(t) /\ ToSet(s) \cap ToSet(t) = {}
                => IsInjective(s \o t)
      BY <2>2, Joined
    <2>4. u = s \o t
      BY <2>2
    <2>5. \A x \in ToSet(s) : \E j \in 1 .. n : x \in ToSet(ss[j])
      BY <1>3
    <2>6. \A j \in 1 .. n : j \in 1 .. n + 1 /\ j \in 1 .. m /\ j # n + 1
      BY <1>1, <1>3
    <2>7. \A x \in ToSet(u) : \E j \in 1 .. n + 1 : x \in ToSet(ss[j])
      <3>1. n + 1 \in 1 .. n + 1
        BY <1>3
      <3> QED
        BY <2>3, <2>4, <2>5, <2>6, <3>1
    <2>8. ASSUME Apart(ss) PROVE IsInjective(u)
      <3>1. IsInjective(s)
        BY <1>3, <2>8
      <3>2. IsInjective(t)
        BY <1>1, <2>1, <2>8 DEF Apart
      <3>3. ToSet(s) \cap ToSet(t) = {}
        <4>1. \A j \in 1 .. n : ToSet(ss[j]) \cap ToSet(t) = {}
          BY <1>1, <2>1, <2>6, <2>8 DEF Apart
        <4> QED
          BY <2>5, <4>1
      <3> QED
        BY <2>3, <2>4, <3>1, <3>2, <3>3
    <2> QED
      BY <2>1, <2>7, <2>8
  <1> HIDE DEF S
  <1>4. \A n \in 1 .. m : n \in S
    BY <1>1, <1>2, <1>3, CountUp
  <1>5. m \in S
    BY <1>1, <1>4
  <1> QED
    BY <1>1, <1>5 DEF S

\* The elements of FlattenSeq.
LEMMA FlattenIs ==
    ASSUME NEW T, NEW ss \in Seq(Seq(T))
    PROVE  /\ FlattenSeq(ss) \in Seq(T)
           /\ \A x \in ToSet(FlattenSeq(ss)) : \E j \in DOMAIN ss : x \in ToSet(ss[j])
           /\ Apart(ss) => IsInjective(FlattenSeq(ss))
  <1>1. CASE Len(ss) = 0
    <2>1. ss = <<>>
      BY <1>1, EmptySeq
    <2>2. FlattenSeq(ss) = <<>>
      BY <1>1, <2>1 DEF FlattenSeq
    <2>3. ToSet(<<>>) = {} /\ <<>> \in Seq(T) /\ IsInjective(<<>>)
      BY DEF ToSet, IsInjective
    <2> QED
      BY <2>2, <2>3
  <1>2. CASE Len(ss) # 0
    <2> DEFINE Way(f) == f = [i \in 1 .. Len(ss) |-> IF i = 1 THEN ss[i] ELSE f[i - 1] \o ss[i]]
               at == CHOOSE f : Way(f)
    <2>1. Len(ss) \in Nat /\ Len(ss) > 0
      BY <1>2
    <2>2. PICK f : Joins(f, ss, T, Len(ss))
      BY <2>1, JoinsExist
    <2>3. Way(f)
      <3>1. \A i \in 1 .. Len(ss) : i # 1 => i \in 2 .. Len(ss)
        BY <2>1
      <3> QED
        BY <2>2, <3>1 DEF Joins
    <2>4. Way(at)
      <3> HIDE DEF Way
      <3> QED
        BY <2>3
    <2>5. FlattenSeq(ss) = at[Len(ss)]
      BY <1>2 DEF FlattenSeq
    <2> HIDE DEF at
    <2>6. /\ DOMAIN at = 1 .. Len(ss) /\ at[1] = ss[1]
          /\ \A i \in 2 .. Len(ss) : at[i] = at[i - 1] \o ss[i]
      <3>1. \A i \in 2 .. Len(ss) : i \in 1 .. Len(ss) /\ i # 1
        BY <2>1
      <3>2. 1 \in 1 .. Len(ss)
        BY <2>1
      <3> QED
        BY <2>4, <3>1, <3>2
    <2>7. \A n \in 1 .. Len(ss) : at[n] \in Seq(T)
      <3> DEFINE S == {n \in 1 .. Len(ss) : at[n] \in Seq(T)}
      <3> PICK m : m = Len(ss)
        OBVIOUS
      <3>1. \A i \in 1 .. m : ss[i] \in Seq(T)
        OBVIOUS
      <3>2. 1 \in S /\ 1 <= m /\ m \in Nat
        BY <2>1, <2>6, <3>1
      <3>3. ASSUME NEW n \in Nat, 1 <= n, n < m, n \in S PROVE n + 1 \in S
        <4>1. n + 1 \in 2 .. m /\ n + 1 \in 1 .. m /\ n + 1 - 1 = n
          BY <3>2, <3>3
        <4> PICK i : i = n + 1
          OBVIOUS
        <4>2. i \in 2 .. m /\ i \in 1 .. m /\ i - 1 = n
          BY <4>1
        <4>3. at[i] = at[i - 1] \o ss[i]
          BY <2>6, <4>2
        <4>4. at[i] = at[n] \o ss[i] /\ at[n] \in Seq(T) /\ ss[i] \in Seq(T)
          BY <3>1, <3>3, <4>2, <4>3
        <4> QED
          BY <4>2, <4>4, Joined
      <3> HIDE DEF S
      <3>4. \A n \in 1 .. m : n \in S
        BY <3>2, <3>3, CountUp
      <3> QED
        BY <3>4 DEF S
    <2>8. at = [i \in DOMAIN at |-> at[i]]
      BY <2>4
    <2> HIDE DEF Way
    <2>9. Joins(at, ss, T, Len(ss))
      BY <2>6, <2>7, <2>8 DEF Joins
    <2>10. at[Len(ss)] \in Seq(T)
      BY <2>1, <2>7
    <2> QED
      BY <2>1, <2>5, <2>9, <2>10, JoinsKeep
  <1> QED
    BY <1>1, <1>2

\* One step down of Levels, and one level down of LevelPages.
DownOne(x) ==
    IF nodes[x.page].isLeaf THEN x
    ELSE [page |-> Head(nodes[x.page].children), n |-> x.n + 1]
LevelBelow(s) == FlattenSeq([j \in DOMAIN s |-> nodes[s[j]].children])

\* The live pages, each with the children it has.
Family(live) ==
    \A p \in live : /\ nodes[p].children \in Seq(live)
                    /\ ~nodes[p].isLeaf => nodes[p].children # <<>>

\* No page is the child of two others, or a child twice.
Owned(live, par) ==
    \A p \in live : /\ IsInjective(nodes[p].children)
                    /\ \A c \in ToSet(nodes[p].children) : par[c] = p

\* The pages of a tree are such families.
LEMMA FamilyOf ==
    ASSUME NEW tops, NEW live, NEW h, NEW rng, NEW par, IsTree(nodes, tops, live, h, rng, par),
           \A p \in live : Shape(nodes[p])
    PROVE  Family(live) /\ tops \subseteq live /\ Owned(live, par)
  <1>1. ASSUME NEW p \in live
        PROVE  /\ nodes[p].children \in Seq(live)
               /\ ~nodes[p].isLeaf => nodes[p].children # <<>>
               /\ IsInjective(nodes[p].children)
               /\ \A c \in ToSet(nodes[p].children) : par[c] = p
    <2>1. CASE nodes[p].isLeaf
      <3>1. nodes[p].children = <<>>
        <4> PICK ks, vs, next : nodes[p] = Leaf(ks, vs, next)
          BY <2>1 DEF Shape
        <4> QED
          BY DEF Leaf
      <3> QED
        BY <2>1, <3>1 DEF ToSet, IsInjective
    <2>2. CASE ~nodes[p].isLeaf
      <3> PICK cs : cs = nodes[p].children
        OBVIOUS
      <3>1. /\ nodes[p] \in Node /\ Len(cs) = Len(nodes[p].keys) + 1 /\ Injective(cs)
        BY <2>2, LiveNode DEF IsTree
      <3>2. cs \in Seq(Pages) /\ Len(cs) \in Nat /\ DOMAIN cs = 1 .. Len(cs)
            /\ Len(nodes[p].keys) \in Nat
        BY <3>1, NodeFields
      <3>3. \A j \in DOMAIN cs : cs[j] \in live /\ par[cs[j]] = p
        BY <2>2, ChildOf DEF IsTree
      <3>4. cs \in Seq(live)
        BY <3>2, <3>3
      <3>5. cs # <<>>
        BY <3>1, <3>2
      <3> QED
        BY <3>1, <3>3, <3>4, <3>5 DEF ToSet, IsInjective, Injective
    <2> QED
      BY <2>1, <2>2
  <1> QED
    BY <1>1 DEF Family, Owned, IsTree, TreeOK

\* Levels is a number.
LEMMA LevelsIsNumber ==
    ASSUME NEW live, Family(live), rootPageId \in live
    PROVE  Levels \in Nat
  <1> DEFINE S == [page : live, n : Nat]
             Way(f) == f = [d \in 0 .. MaxPages |->
                               IF d = 0 THEN [page |-> rootPageId, n |-> 1]
                               ELSE LET at == f[d - 1] IN
                                    IF nodes[at.page].isLeaf THEN at
                                    ELSE [page |-> Head(nodes[at.page].children), n |-> at.n + 1]]
             at == CHOOSE f : Way(f)
             g == [x \in S |-> DownOne(x)]
  <1> PICK m, a : m = MaxPages /\ a = [page |-> rootPageId, n |-> 1]
    OBVIOUS
  <1>1. m \in Nat /\ a \in S
    BY TreePagesAssumption
  <1>2. \A x \in S : DownOne(x) \in S
    <2> SUFFICES ASSUME NEW x \in S, ~nodes[x.page].isLeaf
                 PROVE  [page |-> Head(nodes[x.page].children), n |-> x.n + 1] \in S
      BY DEF DownOne
    <2>1. nodes[x.page].children \in Seq(live) /\ nodes[x.page].children # <<>>
      BY DEF Family
    <2>2. Head(nodes[x.page].children) \in live
      BY <2>1
    <2> QED
      BY <2>2
  <1>3. g \in [S -> S]
    BY <1>2
  <1>4. PICK f : Iterated(f, S, a, g, m)
    <2> HIDE DEF S, g
    <2> QED
      BY <1>1, <1>3, Iterates
  <1>5. f \in [0 .. m -> S] /\ f[0] = a /\ \A d \in 1 .. m : f[d] = DownOne(f[d - 1])
    <2>1. f \in [0 .. m -> S] /\ f[0] = a /\ \A d \in 1 .. m : f[d] = g[f[d - 1]]
      BY <1>4 DEF Iterated
    <2>2. \A d \in 1 .. m : d - 1 \in 0 .. m
      BY <1>1
    <2> HIDE DEF S
    <2> QED
      BY <2>1, <2>2
  <1> HIDE DEF S
  <1>6. Way(f)
    <2>1. ASSUME NEW d \in 0 .. m, d # 0
          PROVE  f[d] = DownOne(f[d - 1])
      BY <1>1, <1>5, <2>1
    <2> QED
      BY <1>5, <2>1 DEF DownOne
  <1>7. Way(at)
    <2> HIDE DEF Way
    <2> QED
      BY <1>6
  <1>8. Levels = at[MaxPages].n
    BY DEF Levels
  <1> HIDE DEF at
  <1>9. at[0] = a
    BY <1>1, <1>7
  <1>10. \A d \in 1 .. m : at[d] = DownOne(at[d - 1])
    <2>1. \A d \in 1 .. m : d \in 0 .. m /\ d # 0
      BY <1>1
    <2> QED
      BY <1>7, <2>1 DEF DownOne
  <1> HIDE DEF Way
  <1> DEFINE good == {d \in 0 .. m : at[d] \in S}
  <1>11. 0 \in good
    BY <1>1, <1>9
  <1>12. ASSUME NEW n \in Nat, 0 <= n, n < m, n \in good PROVE n + 1 \in good
    <2> PICK d : d = n + 1
      OBVIOUS
    <2>1. d \in 1 .. m /\ d \in 0 .. m /\ d - 1 = n
      BY <1>1, <1>12
    <2>2. at[d] = DownOne(at[n]) /\ at[n] \in S
      BY <1>10, <1>12, <2>1
    <2> QED
      BY <1>2, <2>1, <2>2
  <1> HIDE DEF good
  <1>13. \A n \in 0 .. m : n \in good
    BY <1>1, <1>11, <1>12, CountUp
  <1>14. at[m] \in S
    BY <1>1, <1>13 DEF good
  <1> QED
    BY <1>8, <1>14 DEF S

\* The level below some live pages is made of live pages.
LEMMA BelowIs ==
    ASSUME NEW live, Family(live), NEW s \in Seq(live)
    PROVE  /\ LevelBelow(s) \in Seq(live)
           /\ [j \in DOMAIN s |-> nodes[s[j]].children] \in Seq(Seq(live))
  <1> PICK ss : ss = [j \in DOMAIN s |-> nodes[s[j]].children]
    OBVIOUS
  <1>1. DOMAIN s = 1 .. Len(s) /\ Len(s) \in Nat /\ \A j \in 1 .. Len(s) : s[j] \in live
    OBVIOUS
  <1>2. \A j \in 1 .. Len(s) : nodes[s[j]].children \in Seq(live)
    BY <1>1 DEF Family
  <1>3. ss \in [1 .. Len(s) -> Seq(live)]
    BY <1>1, <1>2
  <1>4. ss \in Seq(Seq(live))
    BY <1>1, <1>3
  <1>5. FlattenSeq(ss) \in Seq(live)
    <2> PICK T : T = live
      OBVIOUS
    <2> QED
      BY <1>4, FlattenIs
  <1> QED
    BY <1>4, <1>5 DEF LevelBelow

\* No page is below two others, or twice below one.
LEMMA BelowInjective ==
    ASSUME NEW live, NEW par, Family(live), NEW s \in Seq(live), IsInjective(s), Owned(live, par)
    PROVE  IsInjective(LevelBelow(s))
  <1> PICK ss : ss = [j \in DOMAIN s |-> nodes[s[j]].children]
    OBVIOUS
  <1>1. ss \in Seq(Seq(live)) /\ DOMAIN ss = DOMAIN s
    BY BelowIs
  <1>2. \A j \in DOMAIN s : s[j] \in live /\ ss[j] = nodes[s[j]].children
    OBVIOUS
  <1>3. Apart(ss)
    <2>1. \A i \in DOMAIN ss : IsInjective(ss[i])
      BY <1>1, <1>2 DEF Owned
    <2>2. ASSUME NEW i \in DOMAIN ss, NEW j \in DOMAIN ss, NEW c \in ToSet(ss[i]) \cap ToSet(ss[j])
          PROVE  i = j
      <3>1. par[c] = s[i] /\ par[c] = s[j]
        BY <1>1, <1>2 DEF Owned
      <3> QED
        BY <1>1, <3>1 DEF IsInjective
    <2> QED
      BY <2>1, <2>2 DEF Apart
  <1>4. IsInjective(FlattenSeq(ss))
    <2> PICK T : T = live
      OBVIOUS
    <2> QED
      BY <1>1, <1>3, FlattenIs
  <1> QED
    BY <1>4 DEF LevelBelow

\* Every level is made of live pages, none of them twice.
LEMMA LevelPagesAre ==
    ASSUME NEW live, NEW par, Family(live), rootPageId \in live,
           Owned(live, par), NEW m \in Nat
    PROVE  LevelPages(m) \in Seq(live) /\ IsInjective(LevelPages(m))
  <1> DEFINE S == Seq(live)
             Way(f) == f = [d \in 0 .. m |->
                               IF d = 0 THEN <<rootPageId>>
                               ELSE LET above == f[d - 1] IN
                                    FlattenSeq([j \in DOMAIN above |-> nodes[above[j]].children])]
             at == CHOOSE f : Way(f)
             g == [s \in S |-> LevelBelow(s)]
  <1> PICK a : a = <<rootPageId>>
    OBVIOUS
  <1>1. a \in S
    OBVIOUS
  <1>2. \A s \in S : LevelBelow(s) \in S
    BY BelowIs
  <1>3. g \in [S -> S]
    BY <1>2
  <1>4. PICK f : Iterated(f, S, a, g, m)
    <2> HIDE DEF S, g
    <2> QED
      BY <1>1, <1>3, Iterates
  <1>5. f \in [0 .. m -> S] /\ f[0] = a /\ \A d \in 1 .. m : f[d] = LevelBelow(f[d - 1])
    <2>1. f \in [0 .. m -> S] /\ f[0] = a /\ \A d \in 1 .. m : f[d] = g[f[d - 1]]
      BY <1>4 DEF Iterated
    <2>2. \A d \in 1 .. m : d - 1 \in 0 .. m
      OBVIOUS
    <2> HIDE DEF S
    <2> QED
      BY <2>1, <2>2
  <1> HIDE DEF S
  <1>6. Way(f)
    <2>1. ASSUME NEW d \in 0 .. m, d # 0
          PROVE  f[d] = LevelBelow(f[d - 1])
      BY <1>5, <2>1
    <2> QED
      BY <1>5, <2>1 DEF LevelBelow
  <1>7. Way(at)
    <2> HIDE DEF Way
    <2> QED
      BY <1>6
  <1>8. LevelPages(m) = at[m]
    BY DEF LevelPages
  <1> HIDE DEF at
  <1>9. at[0] = a
    BY <1>7
  <1>10. \A d \in 1 .. m : at[d] = LevelBelow(at[d - 1])
    <2>1. \A d \in 1 .. m : d \in 0 .. m /\ d # 0
      OBVIOUS
    <2> QED
      BY <1>7, <2>1 DEF LevelBelow
  <1> HIDE DEF Way
  <1> DEFINE good == {d \in 0 .. m : at[d] \in S /\ IsInjective(at[d])}
  <1>11. 0 \in good
    <2>1. IsInjective(a)
      BY DEF IsInjective
    <2> QED
      BY <1>1, <1>9, <2>1
  <1>12. ASSUME NEW n \in Nat, 0 <= n, n < m, n \in good PROVE n + 1 \in good
    <2> PICK d, s : d = n + 1 /\ s = at[n]
      OBVIOUS
    <2>1. d \in 1 .. m /\ d \in 0 .. m /\ d - 1 = n
      BY <1>12
    <2>2. at[d] = LevelBelow(s) /\ s \in Seq(live) /\ IsInjective(s)
      BY <1>10, <1>12, <2>1 DEF S
    <2>3. IsInjective(LevelBelow(s))
      BY <2>2, BelowInjective
    <2> QED
      BY <1>2, <2>1, <2>2, <2>3 DEF S
  <1> HIDE DEF good
  <1>13. \A n \in 0 .. m : n \in good
    BY <1>11, <1>12, CountUp
  <1>14. at[m] \in S /\ IsInjective(at[m])
    BY <1>13 DEF good
  <1> QED
    BY <1>8, <1>14 DEF S

\* What is reached from the root, between calls.
LEMMA ReachableIs ==
    ASSUME TreeInv, pc = "idle"
    PROVE  \E live, h, rng, par :
               /\ TreeState(live, h, rng, par) /\ IsTree(nodes, {rootPageId}, live, h, rng, par)
               /\ Reachable \subseteq live
               /\ \A d \in 0 .. Levels - 1 : IsInjective(LevelPages(d))
  <1>1. PICK live, h, rng, par : TreeState(live, h, rng, par)
    BY DEF TreeInv
  <1>2. IsTree(nodes, {rootPageId}, live, h, rng, par)
    <2>1. Tops = {rootPageId}
      BY DEF Tops, Pending
    <2> QED
      BY <1>1, <2>1 DEF TreeState
  <1>3. \A p \in live : Shape(nodes[p])
    <2>1. \A p \in Allocated : Shape(nodes[p])
      BY PagesAre DEF TreeInv, Base
    <2> QED
      BY <1>2, <2>1 DEF IsTree, TreeOK, Allocated
  <1>4. Family(live) /\ rootPageId \in live /\ Owned(live, par)
    <2> PICK tops : tops = {rootPageId}
      OBVIOUS
    <2> QED
      BY <1>2, <1>3, FamilyOf
  <1>5. Levels \in Nat
    BY <1>4, LevelsIsNumber
  <1>6. \A d \in 0 .. Levels - 1 : LevelPages(d) \in Seq(live) /\ IsInjective(LevelPages(d))
    <2>1. \A d \in 0 .. Levels - 1 : d \in Nat
      BY <1>5
    <2> QED
      BY <1>4, <2>1, LevelPagesAre
  <1>7. Reachable \subseteq live
    BY <1>6 DEF Reachable, ToSet
  <1> QED
    BY <1>1, <1>2, <1>6, <1>7

\* Every node of the tree but its root has at least half of the keys there is room for.
THEOREM OccupancyTheorem ==
    ASSUME -1 \notin AllKeys
    PROVE  Spec => []MinOccupancy
  <1>1. TreeInv => MinOccupancy
    <2> SUFFICES ASSUME TreeInv, pc = "idle", NEW p \in Reachable \ {rootPageId}
                 PROVE  Len(nodes[p].keys) >= BTREE_MIN
      BY DEF MinOccupancy
    <2>1. PICK live, h, rng, par : /\ TreeState(live, h, rng, par)
                                   /\ IsTree(nodes, {rootPageId}, live, h, rng, par)
                                   /\ Reachable \subseteq live
      BY ReachableIs
    <2>2. LowPage = 0 /\ p \in live /\ p # 0
      <3>1. p \in Pages
        BY <2>1 DEF IsTree, GhostType
      <3> QED
        BY <2>1, <3>1, TreePagesAssumption DEF LowPage, Pages
    <2> QED
      BY <2>1, <2>2 DEF TreeState, Filled
  <1> QED
    BY <1>1, TreeInvariant, PTL

\* The operation, and how far Load is.
OpOK ==
    /\ op \in [kind : {"insert", "remove"}, key : AllKeys, value : Values \cup {NotFound}]
    /\ loaded \in 0 .. Len(Load)

\* Every step keeps that.
LEMMA OpStays ==
    ASSUME OpOK, [Next]_vars
    PROVE  OpOK'
  <1> USE DEF OpOK
  <1>1. Len(Load) \in Nat
    BY LoadAssumption
  <1>2. ASSUME NEW k \in AllKeys, NEW v \in ValuesOf(k), BeginInsert(k, v)
        PROVE  OpOK'
    <2>1. v \in Values /\ op' = [kind |-> "insert", key |-> k, value |-> v]
      BY <1>2 DEF BeginInsert, Begin, Values
    <2>2. loaded' \in 0 .. Len(Load)
      BY <1>1, <1>2 DEF BeginInsert
    <2> QED
      BY <2>1, <2>2
  <1>3. ASSUME NEW k \in Keys, BeginRemove(k)
        PROVE  OpOK'
    <2>1. k \in AllKeys
      BY DEF AllKeys
    <2>2. op' = [kind |-> "remove", key |-> k, value |-> NotFound] /\ loaded' = loaded
      BY <1>3 DEF BeginRemove, Begin
    <2> QED
      BY <2>1, <2>2
  <1>4. CASE Descend \/ InsertStep \/ RemoveStep \/ UNCHANGED vars
    <2>1. op' = op /\ loaded' = loaded
      BY <1>4 DEF Descend, InsertStep, RemoveStep, vars, Finish, Return, Throw,
         LeafUpsert, LeafInsert, LeafSplit, LeafSplitThrows, NoSplitUp, InternalInsert,
         InternalSplit, InternalSplitThrows, InsertReturns, GrowRoot, GrowRootThrows,
         LeafRemove, LeafRemoveAbsent, NoUnderflowUp, BorrowFromLeft, BorrowFromRight,
         MergeChildren, ShrinkRoot, RemoveReturns
    <2> QED
      BY <2>1
  <1> QED
    BY <1>2, <1>3, <1>4 DEF Next

\* The invariant says that all variables have their types.
LEMMA TypesAre ==
    ASSUME TreeInv, OpOK
    PROVE  TypeOK
  <1>1. PICK live, h, rng, par : TreeState(live, h, rng, par)
    BY DEF TreeInv
  <1>2. Base
    BY DEF TreeInv
  <1>3. /\ Allocated \subseteq Pages /\ nodes \in [Allocated -> Node]
        /\ Cardinality(Allocated) + rows < MaxPages /\ rows \in Rows
    BY <1>2, PagesAre DEF Base
  <1>4. live \subseteq Allocated /\ rootPageId \in live
    BY <1>1 DEF TreeState, IsTree, TreeOK, Tops, Allocated
  <1>5. path \in Seq([page : Allocated, idx : Nat])
    <2>1. path \in Seq(Frame) /\ Linked(nodes, rootPageId, path, live, h)
      BY <1>1, <1>2 DEF TreeState, Base
    <2> DEFINE T == [page : Allocated, idx : Nat]
               n == Len(path)
    <2>2. n \in Nat /\ path \in [1 .. n -> Frame]
      BY <2>1
    <2>3. ASSUME NEW i \in 1 .. n PROVE path[i] \in T
      <3> PICK x : x = path[i]
        OBVIOUS
      <3>1. x \in [page : Pages, idx : Nat]
        BY <2>2 DEF Frame
      <3>2. x.page \in Allocated
        BY <1>4, <2>1 DEF Linked
      <3> QED
        BY <3>1, <3>2
    <2> HIDE DEF T
    <2>4. path \in [1 .. n -> T]
      BY <2>2, <2>3
    <2>5. path \in Seq(T)
      BY <2>2, <2>4
    <2> QED
      BY <2>5 DEF T
  <1> QED
    BY <1>2, <1>3, <1>4, <1>5 DEF TypeOK, Base, OpOK

\* Every variable has its type, and between calls the pages reached from the root are nodes
\* with one child more than keys, each reached once.
THEOREM WellFormedTheorem ==
    ASSUME -1 \notin AllKeys, AllKeys # {}
    PROVE  Spec => []NodesWellFormed
  <1>1. Init => OpOK
    <2> SUFFICES ASSUME Init PROVE OpOK
      OBVIOUS
    <2>1. (CHOOSE k \in AllKeys : TRUE) \in AllKeys
      OBVIOUS
    <2> QED
      BY <2>1, LoadAssumption DEF Init, OpOK
  <1>2. OpOK /\ [Next]_vars => OpOK'
    BY OpStays
  <1>3. TreeInv /\ OpOK => NodesWellFormed
    <2> SUFFICES ASSUME TreeInv, OpOK PROVE NodesWellFormed
      OBVIOUS
    <2>1. TypeOK
      BY TypesAre
    <2>2. ASSUME pc = "idle"
          PROVE  /\ \A d \in 0 .. Levels - 1 : IsInjective(LevelPages(d))
                 /\ \A p \in Reachable :
                       ~nodes[p].isLeaf => Len(nodes[p].children) = Len(nodes[p].keys) + 1
      <3>1. PICK live, h, rng, par :
                /\ IsTree(nodes, {rootPageId}, live, h, rng, par)
                /\ Reachable \subseteq live
                /\ \A d \in 0 .. Levels - 1 : IsInjective(LevelPages(d))
        BY <2>2, ReachableIs
      <3> PICK tops : tops = {rootPageId}
        OBVIOUS
      <3>2. TreeOK(nodes, tops, live, h, rng, par)
        BY <3>1 DEF IsTree
      <3> QED
        BY <3>1, <3>2, LiveNode
    <2> QED
      BY <2>1, <2>2 DEF NodesWellFormed
  <1>4. Spec => []OpOK
    BY <1>1, <1>2, PTL DEF Spec
  <1> QED
    BY <1>3, <1>4, TreeInvariant, PTL

-----------------------------------------------------------------------------
(* The tree over a file *)

\* A node as it was in the tree once. In a leaf each key has a value of G, those it was inserted
\* with; the children of an internal node are pages of D, and lower than it in height.
Sound(D, G, H, p, n) ==
    /\ n \in Node /\ Ascending(n.keys)
    /\ n.isLeaf =>
          /\ Len(n.values) = Len(n.keys)
          /\ \A j \in DOMAIN n.keys :
                n.keys[j] \in AllKeys /\ n.values[j] \in G[n.keys[j]] \cup {NotFound}
    /\ ~n.isLeaf =>
          /\ Len(n.children) = Len(n.keys) + 1
          /\ \A j \in DOMAIN n.children : n.children[j] \in D /\ H[n.children[j]] < H[p]

\* Later, with more pages and more values, it still is.
LEMMA SoundStays ==
    ASSUME NEW D, NEW G, NEW H, NEW p \in D, NEW n, Sound(D, G, H, p, n),
           NEW D2, NEW G2, NEW H2, D \subseteq D2, \A q \in D : H2[q] = H[q],
           \A k \in AllKeys : G[k] \subseteq G2[k]
    PROVE  Sound(D2, G2, H2, p, n)
  BY DEF Sound

\* A new leaf without keys is sound,
LEMMA EmptyLeafSound ==
    ASSUME NEW D, NEW G, NEW H, NEW p, NEW next \in Pages \cup {-1}
    PROVE  Sound(D, G, H, p, Leaf(<<>>, <<>>, next))
  <1> PICK n : n = Leaf(<<>>, <<>>, next)
    OBVIOUS
  <1>1. n \in Node
    <2>1. <<>> \in Seq(Int) /\ <<>> \in Seq(Values)
      OBVIOUS
    <2> QED
      BY <2>1, LeafIsNode
  <1>2. n.isLeaf /\ n.keys = <<>> /\ n.values = <<>>
    BY DEF Leaf
  <1>3. DOMAIN n.keys = {}
    BY <1>2
  <1> QED
    BY <1>1, <1>2, <1>3 DEF Sound, Ascending

\* and so is what a merge leaves of a page.
LEMMA EmptiedSound ==
    ASSUME NEW D, NEW G, NEW H, NEW p, NEW n, Sound(D, G, H, p, n)
    PROVE  Sound(D, G, H, p, Emptied(n))
  <1>1. n \in Node
    BY DEF Sound
  <1>2. CASE n.isLeaf
    <2>1. Emptied(n) = Leaf(<<>>, <<>>, n.nextLeaf) /\ n.nextLeaf \in Pages \cup {-1}
      BY <1>1, <1>2, NodeFields DEF Emptied
    <2> QED
      BY <2>1, EmptyLeafSound
  <1>3. CASE ~n.isLeaf
    <2> PICK c, m : c = n.children[1] /\ m = Emptied(n)
      OBVIOUS
    <2>1. /\ n.children \in Seq(Pages) /\ Len(n.children) \in Nat /\ Len(n.keys) \in Nat
          /\ Len(n.children) = Len(n.keys) + 1
      BY <1>1, <1>3, NodeFields DEF Sound
    <2>2. 1 \in DOMAIN n.children /\ c \in Pages /\ Head(n.children) = c
      BY <2>1
    <2>3. c \in D /\ H[c] < H[p]
      BY <1>3, <2>2 DEF Sound
    <2>4. m = Internal(<<>>, <<c>>)
      BY <1>3, <2>2 DEF Emptied
    <2>5. m \in Node
      <3>1. <<>> \in Seq(Int) /\ <<c>> \in Seq(Pages)
        BY <2>2
      <3> QED
        BY <2>4, <3>1, InternalIsNode
    <2>6. ~m.isLeaf /\ m.keys = <<>> /\ m.children = <<c>>
      BY <2>4 DEF Internal
    <2>7. DOMAIN m.keys = {} /\ Len(m.keys) = 0
      BY <2>6
    <2>8. Len(m.children) = 1 /\ \A j \in DOMAIN m.children : m.children[j] = c
      BY <2>6
    <2> QED
      BY <2>3, <2>5, <2>6, <2>7, <2>8 DEF Sound, Ascending
  <1> QED
    BY <1>2, <1>3

\* A page of a tree that stores what was asked for is sound.
LEMMA LiveSound ==
    ASSUME NEW N, NEW tops, NEW live, NEW h, NEW rng, NEW par,
           IsTree(N, tops, live, h, rng, par),
           NEW asked, NEW lost, Faithful(Stored(N, live), asked, {}, lost),
           NEW G, \A k \in AllKeys : asked[k] \in G[k] \cup {NotFound},
           NEW D, live \subseteq D, NEW H, \A q \in live : H[q] = h[q], NEW p \in live
    PROVE  Sound(D, G, H, p, N[p])
  <1> PICK n : n = N[p]
    OBVIOUS
  <1>1. /\ n \in Node /\ Ascending(n.keys)
        /\ \A j \in DOMAIN n.keys : n.keys[j] \in AllKeys
        /\ n.isLeaf => Len(n.values) = Len(n.keys)
        /\ ~n.isLeaf => Len(n.children) = Len(n.keys) + 1
    BY LiveNode DEF IsTree
  <1>2. ASSUME n.isLeaf, NEW j \in DOMAIN n.keys
        PROVE  n.values[j] \in G[n.keys[j]] \cup {NotFound}
    <2> PICK k, v : k = n.keys[j] /\ v = n.values[j]
      OBVIOUS
    <2>1. Holds(N, p, <<k, v>>)
      BY <1>2 DEF Holds, EntriesOf
    <2> PICK e : e = <<k, v>>
      OBVIOUS
    <2>2. e \in Stored(N, live) /\ e[1] = k /\ e[2] = v
      BY <2>1, StoredHas
    <2>3. v = asked[k] /\ k \in AllKeys
      BY <1>1, <2>2 DEF Faithful
    <2> QED
      BY <2>3
  <1>3. ASSUME ~n.isLeaf, NEW j \in DOMAIN n.children
        PROVE  n.children[j] \in D /\ H[n.children[j]] < H[p]
    <2> PICK c : c = n.children[j]
      OBVIOUS
    <2>1. c \in live /\ h[c] = h[p] - 1 /\ h[p] \in Nat
      BY <1>3, ChildOf DEF IsTree
    <2> QED
      BY <2>1
  <1> QED
    BY <1>1, <1>2, <1>3 DEF Sound

\* What the file remembers of the pages D: every page, in memory and in the file, is sound, as high
\* as it is in the tree or was in it once, and what was asked for of a key was given.
Remembered(N, D, F, G, asked, live, h, H) ==
    /\ D \subseteq Pages /\ H \in [Pages -> Nat] /\ DOMAIN F = Pages /\ DOMAIN G = AllKeys
    /\ \A p \in D : /\ H[p] < p /\ Sound(D, G, H, p, N[p])
                    /\ F[p] = Unwritten \/ Sound(D, G, H, p, F[p])
    /\ \A p \in Pages \ D : F[p] = Unwritten
    /\ \A p \in live : H[p] = h[p]
    /\ \A k \in AllKeys : asked[k] \in G[k] \cup {NotFound}

\* Where keys of safe are found did not change since all pages were in the file.
Settled(live) ==
    safe # {} =>
        /\ ~threw /\ ~Pending
        /\ safe \subseteq AllKeys /\ (pc # "idle" => op.key \notin safe)
        /\ \A p \in live, k \in safe : SameFor(k, durable[p], nodes[p])

\* The tree, with the heights H that pages have in the file.
Kept(live, h, rng, par, H) ==
    /\ TreeState(live, h, rng, par)
    /\ Remembered(nodes, Allocated, durable, given, contents, live, h, H)
    /\ Settled(live)

\* The pages found after a crash: some of the tree, sound or not written at all.
Mixture(H) ==
    /\ Allocated \subseteq Pages /\ H \in [Pages -> Nat]
    /\ rootPageId \in Allocated /\ H[rootPageId] < MaxPages
    /\ \A p \in Allocated : nodes[p] = Unwritten \/ Sound(Allocated, given, H, p, nodes[p])

\* For the keys of safe these pages are a tree that stores what was asked for.
Legacy ==
    safe # {} =>
        \E N, live, h, rng, par, open :
            /\ IsTree(N, {rootPageId}, live, h, rng, par)
            /\ Heights(rootPageId, {rootPageId}, live, h)
            /\ Faithful(Stored(N, live), contents, open, FALSE)
            /\ safe \subseteq AllKeys /\ \A k \in safe : k \notin open /\ Resembles(N, live, k)

\* The inductive invariant: the pages are a tree until the process dies, and in the file as they
\* are after an orderly end; then they are what the file remembers.
RecoveryInv ==
    /\ mode \in {"open", "closed", "crashed"}
    /\ mode # "crashed" => Base /\ \E live, h, rng, par, H : Kept(live, h, rng, par, H)
    /\ mode = "closed" => pc = "idle" /\ \A p \in Allocated : durable[p] = nodes[p]
    /\ mode = "crashed" => Legacy /\ \E H : Mixture(H)

\* What a step of the tree asks for, and when it changes a page.
Asks ==
    /\ pc = "idle" =>
          /\ op'.key \in AllKeys /\ contents' = [contents EXCEPT ![op'.key] = op'.value]
          /\ op'.kind = "insert" \/ op'.value = NotFound
    /\ pc # "idle" => op' = op /\ contents' = contents
    /\ nodes' # nodes => pc' # "descend"

\* Only an idle tree takes a call, and no step that changes nodes descends.
LEMMA NextAsks ==
    ASSUME Next
    PROVE  Asks
  <1>1. ASSUME NEW kind, NEW k \in AllKeys, NEW v, kind = "insert" \/ v = NotFound,
               Begin(kind, k, v)
        PROVE  Asks
    <2>1. /\ op'.kind = kind /\ op'.key = k /\ op'.value = v /\ pc = "idle" /\ nodes' = nodes
          /\ contents' = [contents EXCEPT ![k] = v]
      BY <1>1 DEF Begin, tree
    <2> QED
      BY <1>1, <2>1 DEF Asks
  <1>2. ASSUME NEW k \in AllKeys, NEW v \in ValuesOf(k), BeginInsert(k, v)
        PROVE  Asks
    BY <1>1, <1>2 DEF BeginInsert
  <1>3. ASSUME NEW k \in Keys, BeginRemove(k)
        PROVE  Asks
    <2>1. k \in AllKeys
      BY DEF AllKeys
    <2> QED
      BY <1>1, <1>3, <2>1 DEF BeginRemove
  <1>4. CASE Descend
    BY <1>4 DEF Descend, tree, Asks
  <1>5. CASE InsertStep
    BY <1>5 DEF InsertStep, tree, Asks, Finish, Return, Throw, AtLeaf, Returning,
       LeafUpsert, LeafInsert, LeafSplit, LeafSplitThrows, NoSplitUp, InternalInsert,
       InternalSplit, InternalSplitThrows, InsertReturns, GrowRoot, GrowRootThrows
  <1>6. CASE RemoveStep
    BY <1>6 DEF RemoveStep, tree, Asks, Finish, Return, AtLeaf, Returning, Underflow,
       LeafRemove, LeafRemoveAbsent, NoUnderflowUp, BorrowFromLeft, BorrowFromRight,
       MergeChildren, ShrinkRoot, RemoveReturns, RemoveReturned
  <1> QED
    BY <1>2, <1>3, <1>4, <1>5, <1>6 DEF Next

\* Values are only ever added to those a key was inserted with.
LEMMA GivenGrows ==
    ASSUME TreeStep, DOMAIN given = AllKeys, contents \in [AllKeys -> Values \cup {NotFound}],
           \A k \in AllKeys : contents[k] \in given[k] \cup {NotFound}
    PROVE  /\ DOMAIN given' = AllKeys /\ \A k \in AllKeys : given[k] \subseteq given'[k]
           /\ \A k \in AllKeys : contents'[k] \in given'[k] \cup {NotFound}
  <1>1. Asks
    BY NextAsks DEF TreeStep
  <1> PICK k, v : k = op'.key /\ v = op'.value
    OBVIOUS
  <1>2. CASE pc = "idle" /\ op'.kind = "insert"
    <2>1. given' = [given EXCEPT ![k] = given[k] \cup {v}] /\ contents' = [contents EXCEPT ![k] = v]
      BY <1>1, <1>2 DEF TreeStep, Asks
    <2> QED
      BY <2>1
  <1>3. CASE pc = "idle" /\ op'.kind # "insert"
    <2>1. given' = given /\ contents' = [contents EXCEPT ![k] = NotFound]
      BY <1>1, <1>3 DEF TreeStep, Asks
    <2> QED
      BY <2>1
  <1>4. CASE pc # "idle"
    BY <1>1, <1>4 DEF TreeStep, Asks
  <1> QED
    BY <1>2, <1>3, <1>4

\* A step of the tree keeps what the file remembers: a page is as high as it ever was.
LEMMA RememberedStays ==
    ASSUME NEW live, NEW h, NEW H, NEW live2, NEW h2, NEW rng2, NEW par2, Base, Base',
           TreeState(live2, h2, rng2, par2)', Carried(live, h, live2, h2), TreeStep,
           Remembered(nodes, Allocated, durable, given, contents, live, h, H)
    PROVE  \E H2 : Remembered(nodes', Allocated', durable', given', contents', live2, h2, H2)
  <1> PICK D, D2, G, G2 : D = Allocated /\ D2 = Allocated' /\ G = given /\ G2 = given'
    OBVIOUS
  <1> PICK H2 : H2 = [p \in Pages |-> IF p \in D THEN H[p] ELSE h2[p]]
    OBVIOUS
  <1>1. /\ IsTree(nodes', Tops', live2, h2, rng2, par2) /\ Heights(rootPageId', Tops', live2, h2)
        /\ Faithful(Stored(nodes', live2), contents', Open', threw')
    BY DEF TreeState
  <1>2. /\ D \subseteq D2 /\ \A p \in live2 \cap D : p \in live /\ h2[p] = h[p]
        /\ \A p \in D2 \ live2 : p \in D /\ nodes'[p] \in {nodes[p], Emptied(nodes[p])}
    BY DEF Carried
  <1>3. /\ H \in [Pages -> Nat] /\ DOMAIN durable = Pages /\ DOMAIN G = AllKeys /\ D \subseteq Pages
        /\ \A p \in D : /\ H[p] < p /\ Sound(D, G, H, p, nodes[p])
                        /\ durable[p] = Unwritten \/ Sound(D, G, H, p, durable[p])
        /\ \A p \in Pages \ D : durable[p] = Unwritten
        /\ \A p \in live : H[p] = h[p]
        /\ \A k \in AllKeys : contents[k] \in G[k] \cup {NotFound}
    BY DEF Remembered
  <1>4. /\ DOMAIN G2 = AllKeys /\ \A k \in AllKeys : G[k] \subseteq G2[k]
        /\ \A k \in AllKeys : contents'[k] \in G2[k] \cup {NotFound}
    BY <1>3, GivenGrows DEF Base
  <1>5. live2 \subseteq Pages /\ h2 \in [Pages -> Nat] /\ live2 \subseteq D2 /\ D2 \subseteq Pages
    <2>1. live2 \subseteq D2 /\ live2 \subseteq Pages /\ h2 \in [Pages -> Nat]
      BY <1>1 DEF IsTree, TreeOK, GhostType, Allocated
    <2> QED
      BY <1>2, <1>3, <2>1
  <1>6. /\ H2 \in [Pages -> Nat] /\ \A p \in D : H2[p] = H[p]
        /\ \A p \in live2 : H2[p] = h2[p]
    <2>1. \A p \in live2 : H2[p] = h2[p]
      BY <1>2, <1>3, <1>5
    <2> QED
      BY <1>3, <1>5, <2>1
  <1>7. \A p \in D2 : H2[p] < p
    <2> TAKE p \in D2
    <2>1. CASE p \in D
      BY <1>3, <1>6, <2>1
    <2>2. CASE p \notin D
      <3>1. p \in live2
        BY <1>2, <2>2
      <3> QED
        BY <1>1, <1>6, <3>1 DEF Heights
    <2> QED
      BY <2>1, <2>2
  <1>8. ASSUME NEW p \in D, NEW n, Sound(D, G, H, p, n)
        PROVE  Sound(D2, G2, H2, p, n)
    BY ONLY <1>2, <1>4, <1>6, <1>8, SoundStays
  <1>9. \A p \in D2 : Sound(D2, G2, H2, p, nodes'[p])
    <2> TAKE p \in D2
    <2>1. CASE p \notin live2
      <3>1. p \in D /\ nodes'[p] \in {nodes[p], Emptied(nodes[p])}
        BY <1>2, <2>1
      <3>2. Sound(D, G, H, p, nodes'[p])
        BY <1>3, <3>1, EmptiedSound
      <3> QED
        BY <1>8, <3>1, <3>2
    <2>2. CASE p \in live2 /\ nodes' = nodes
      <3>1. p \in D /\ nodes'[p] = nodes[p]
        BY <2>2 DEF Allocated
      <3> QED
        BY <1>3, <1>8, <3>1
    <2>3. CASE p \in live2 /\ nodes' # nodes
      <3>1. Open' = {}
        BY <2>3, NextAsks DEF TreeStep, Asks, Open
      <3> PICK N, tops, asked, lost :
             N = nodes' /\ tops = Tops' /\ asked = contents' /\ lost = threw'
        OBVIOUS
      <3>2. /\ IsTree(N, tops, live2, h2, rng2, par2) /\ Faithful(Stored(N, live2), asked, {}, lost)
            /\ \A k \in AllKeys : asked[k] \in G2[k] \cup {NotFound}
            /\ live2 \subseteq D2 /\ \A q \in live2 : H2[q] = h2[q]
            /\ p \in live2
        BY <1>1, <1>4, <1>5, <1>6, <2>3, <3>1
      <3>3. Sound(D2, G2, H2, p, N[p])
        BY ONLY <3>2, LiveSound
      <3> QED
        BY <3>3
    <2> QED
      BY <2>1, <2>2, <2>3
  <1>10. PICK early \in SUBSET (D2 \ D) :
            durable' = [p \in Pages |-> IF p \in early THEN Leaf(<<>>, <<>>, -1) ELSE durable[p]]
    BY DEF TreeStep, Allocated
  <1>11. ASSUME NEW p \in D2
         PROVE  durable'[p] = Unwritten \/ Sound(D2, G2, H2, p, durable'[p])
    <2>1. p \in Pages
      BY <1>5
    <2>2. CASE p \in early
      <3>1. durable'[p] = Leaf(<<>>, <<>>, -1)
        BY <1>10, <2>1, <2>2
      <3> QED
        BY <3>1, EmptyLeafSound
    <2>3. CASE p \notin early
      <3>1. durable'[p] = durable[p]
        BY <1>10, <2>1, <2>3
      <3>2. CASE p \in D
        BY <1>3, <1>8, <3>1, <3>2
      <3>3. CASE p \notin D
        BY <1>3, <2>1, <3>1, <3>3
      <3> QED
        BY <3>2, <3>3
    <2> QED
      BY <2>2, <2>3
  <1>12. DOMAIN durable' = Pages /\ \A p \in Pages \ D2 : durable'[p] = Unwritten
    BY <1>2, <1>3, <1>10
  <1>13. Remembered(nodes', D2, durable', G2, contents', live2, h2, H2)
    BY <1>4, <1>5, <1>6, <1>7, <1>9, <1>11, <1>12 DEF Remembered
  <1> QED
    BY <1>13

\* A step that does not restructure the tree leaves the nodes, or changes a leaf in place.
LEMMA ChangesInPlace ==
    ASSUME NEW live, NEW h, NEW rng, NEW par, TreeState(live, h, rng, par), Base,
           Next, ~Restructures, ~Pending
    PROVE  (nodes' = nodes \/ LeafMoves(live, rng)) /\ ~Pending' /\ Allocated' = Allocated
  <1>1. DOMAIN nodes' = Allocated /\ Allocated' = Allocated /\ metaRoot' = metaRoot
        /\ (pc = "return" => nodes' = nodes)
    BY DEF Restructures, Allocated
  <1>2. ASSUME NEW kind, NEW k, NEW v, Begin(kind, k, v)
        PROVE  nodes' = nodes /\ ~Pending'
    BY <1>2 DEF Begin, tree, Pending
  <1>3. CASE Descend
    BY <1>1, <1>3 DEF Descend, tree, Pending
  <1>4. CASE LeafUpsert \/ LeafInsert \/ LeafRemove
    <2>1. LeafMoves(live, rng)
      BY <1>4, UpsertMoves, InsertMoves, RemoveMoves
    <2>2. ~Pending'
      BY <2>1 DEF LeafMoves, LeafReturns, Pending
    <2> QED
      BY <1>1, <2>1, <2>2
  <1>5. ASSUME LeafSplit \/ InternalSplit \/ GrowRoot PROVE FALSE
    <2>1. NextPage \notin Allocated
      BY PagesAre DEF Base
    <2>2. NextPage \in DOMAIN nodes'
      BY <1>5 DEF LeafSplit, InternalSplit, GrowRoot, Save
    <2> QED
      BY <1>1, <2>1, <2>2
  <1>6. CASE LeafSplitThrows \/ NoSplitUp \/ InternalSplitThrows \/ InsertReturns \/ GrowRootThrows
    BY <1>1, <1>6
       DEF LeafSplitThrows, NoSplitUp, InternalSplitThrows, InsertReturns, GrowRootThrows, tree,
           Return, Throw, Finish, Pending, NoSplit
  <1>7. CASE InternalInsert
    BY <1>7 DEF InternalInsert, Returning, Pending
  <1>8. CASE LeafRemoveAbsent \/ NoUnderflowUp \/ ShrinkRoot \/ RemoveReturns
    BY <1>1, <1>8
       DEF LeafRemoveAbsent, NoUnderflowUp, ShrinkRoot, RemoveReturns, RemoveReturned, AtLeaf,
           Returning, tree, Return, Finish, Pending
  <1>9. CASE BorrowFromLeft \/ BorrowFromRight \/ MergeChildren
    BY <1>1, <1>9
       DEF BorrowFromLeft, BorrowFromRight, MergeChildren, Underflow, Returning, Return, Pending
  <1> QED
    BY <1>1, <1>2, <1>3, <1>4, <1>5, <1>6, <1>7, <1>8, <1>9
       DEF Next, BeginInsert, BeginRemove, InsertStep, RemoveStep

\* Such a change does not touch the entries of other keys.
LEMMA LeafMovesSame ==
    ASSUME NEW live, NEW h, NEW rng, NEW par, TreeState(live, h, rng, par), LeafMoves(live, rng),
           NEW k, k # op.key, NEW p \in live, NEW n, SameFor(k, n, nodes[p])
    PROVE  SameFor(k, n, nodes'[p])
  <1>1. PICK x, X : LeafTurns(rng, x, X)
    BY DEF LeafMoves
  <1>2. nodes' = [nodes EXCEPT ![cur] = x] /\ nodes[cur].isLeaf /\ x.isLeaf /\ LeafHas(x, X)
    BY <1>1 DEF LeafMoves, LeafReturns, LeafTurns
  <1>3. p \in DOMAIN nodes
    BY DEF TreeState, IsTree, TreeOK
  <1>4. CASE p # cur
    BY <1>2, <1>4
  <1>5. CASE p = cur
    <2>1. nodes'[p] = x /\ nodes[p].isLeaf
      BY <1>2, <1>3, <1>5
    <2> DEFINE E == EntriesOf(nodes[cur].keys, nodes[cur].values)
               E2 == EntriesOf(x.keys, x.values)
    <2>2. \A e \in X : e = <<op.key, op.value>>
      BY <1>2 DEF LeafHas
    <2>3. E2 = {e \in E : e[1] # op.key} \cup X
      BY <1>2 DEF LeafHas
    <2> HIDE DEF E, E2
    <2>4. \A v : <<k, v>> \in E2 <=> <<k, v>> \in E
      BY <2>2, <2>3
    <2> QED
      BY <1>2, <1>5, <2>1, <2>4 DEF SameFor, E, E2
  <1> QED
    BY <1>4, <1>5

\* A step of the tree keeps keys settled, or forgets that they are.
LEMMA SettledStays ==
    ASSUME NEW live, NEW h, NEW rng, NEW par, TreeState(live, h, rng, par), Base, Settled(live),
           NEW live2, NEW h2, NEW rng2, NEW par2, TreeState(live2, h2, rng2, par2)',
           Carried(live, h, live2, h2), TreeStep
    PROVE  Settled(live2)'
  <1> SUFFICES ASSUME safe' # {}
               PROVE  /\ ~threw' /\ ~Pending'
                      /\ safe' \subseteq AllKeys /\ (pc' # "idle" => op'.key \notin safe')
                      /\ \A p \in live2, k \in safe' : SameFor(k, durable'[p], nodes'[p])
    BY DEF Settled
  <1>1. /\ ~Restructures /\ ~threw' /\ Next
        /\ safe' = IF pc = "idle" THEN safe \ {op'.key} ELSE safe
    BY DEF TreeStep
  <1>2. /\ ~threw /\ ~Pending /\ safe \subseteq AllKeys /\ (pc # "idle" => op.key \notin safe)
        /\ \A p \in live, k \in safe : SameFor(k, durable[p], nodes[p])
        /\ safe' \subseteq safe
    BY <1>1 DEF Settled
  <1>3. (nodes' = nodes \/ LeafMoves(live, rng)) /\ ~Pending' /\ Allocated' = Allocated
    BY <1>1, <1>2, ChangesInPlace
  <1>4. op'.key \notin safe'
    BY <1>1, <1>2, NextAsks DEF Asks
  <1>5. live2 \subseteq live /\ live2 \subseteq Allocated /\ Allocated \subseteq Pages
    <2>1. live2 \subseteq Allocated'
      BY DEF TreeState, IsTree, TreeOK, Allocated
    <2>2. Allocated \subseteq Pages
      BY PagesAre DEF Base
    <2> QED
      BY <1>3, <2>1, <2>2 DEF Carried
  <1>6. \A p \in live2 : durable'[p] = durable[p]
    <2>1. PICK early \in SUBSET (DOMAIN nodes' \ Allocated) :
             durable' = [p \in Pages |-> IF p \in early THEN Leaf(<<>>, <<>>, -1) ELSE durable[p]]
      BY DEF TreeStep
    <2>2. early = {}
      BY <1>3, <2>1 DEF Allocated
    <2> QED
      BY <1>5, <2>1, <2>2
  <1>7. ASSUME NEW p \in live2, NEW k \in safe' PROVE SameFor(k, durable'[p], nodes'[p])
    <2> PICK n : n = durable[p]
      OBVIOUS
    <2>1. SameFor(k, n, nodes[p]) /\ durable'[p] = n /\ p \in live
      BY <1>2, <1>5, <1>6
    <2>2. CASE nodes' = nodes
      BY <2>1, <2>2
    <2>3. CASE LeafMoves(live, rng)
      <3>1. k # op.key
        <4>1. op' = op
          BY <2>3 DEF LeafMoves, LeafReturns
        <4> QED
          BY <1>4, <4>1
      <3>2. SameFor(k, n, nodes'[p])
        BY <2>1, <2>3, <3>1, LeafMovesSame
      <3> QED
        BY <2>1, <3>2
    <2> QED
      BY <1>3, <2>2, <2>3
  <1> QED
    BY <1>1, <1>2, <1>3, <1>4, <1>7

\* A page of a tree has all its own keys.
LEMMA SameAsItself ==
    ASSUME NEW N, NEW tops, NEW live, NEW h, NEW rng, NEW par, IsTree(N, tops, live, h, rng, par),
           NEW k, NEW p \in live
    PROVE  SameFor(k, N[p], N[p])
  BY LiveNode DEF IsTree, SameFor

\* Each step of the tree keeps all of it.
LEMMA TreeStepKeeps ==
    ASSUME Base, NEW live, NEW h, NEW rng, NEW par, NEW H, Kept(live, h, rng, par, H), TreeStep,
           -1 \notin AllKeys
    PROVE  Base' /\ \E live2, h2, rng2, par2, H2 : Kept(live2, h2, rng2, par2, H2)'
  <1>1. /\ TreeState(live, h, rng, par) /\ Settled(live)
        /\ Remembered(nodes, Allocated, durable, given, contents, live, h, H)
    BY DEF Kept
  <1>2. Carries(live, h)
    BY <1>1, NextCarries DEF TreeStep
  <1>3. Base'
    BY <1>2 DEF Carries
  <1>4. PICK live2, h2, rng2, par2 :
           TreeState(live2, h2, rng2, par2)' /\ Carried(live, h, live2, h2)
    BY <1>2 DEF Carries
  <1>5. PICK H2 : Remembered(nodes', Allocated', durable', given', contents', live2, h2, H2)
    BY <1>1, <1>3, <1>4, RememberedStays
  <1>6. Settled(live2)'
    BY <1>1, <1>4, SettledStays
  <1>7. Kept(live2, h2, rng2, par2, H2)'
    BY <1>4, <1>5, <1>6 DEF Kept
  <1> QED
    BY <1>3, <1>7

\* A page is written back as it is.
LEMMA WriteBackKeeps ==
    ASSUME Base, NEW live, NEW h, NEW rng, NEW par, NEW H, Kept(live, h, rng, par, H),
           NEW a \in Allocated, WriteBack(a)
    PROVE  Base' /\ Kept(live, h, rng, par, H)'
  <1>1. /\ TreeState(live, h, rng, par) /\ Settled(live)
        /\ Remembered(nodes, Allocated, durable, given, contents, live, h, H)
    BY DEF Kept
  <1>2. /\ UNCHANGED vars /\ given' = given /\ durable' = [durable EXCEPT ![a] = nodes[a]]
        /\ safe' = IF Written(durable') /\ ~threw THEN AllKeys ELSE safe
    BY DEF WriteBack
  <1>3. Base' /\ TreeState(live, h, rng, par)'
    BY <1>1, <1>2, SameTreeState
  <1>4. /\ nodes' = nodes /\ Allocated' = Allocated /\ contents' = contents /\ threw' = threw
        /\ pc' = pc /\ op' = op /\ Pending' = Pending
    BY <1>2 DEF vars, Allocated, Pending
  <1>5. DOMAIN durable = Pages /\ durable'[a] = nodes[a] /\ a \in Pages
        /\ \A p \in Pages \ {a} : durable'[p] = durable[p]
    <2>1. DOMAIN durable = Pages /\ a \in Pages
      BY <1>1 DEF Remembered
    <2> QED
      BY <1>2, <2>1
  <1>6. Remembered(nodes', Allocated', durable', given', contents', live, h, H)
    <2>1. DOMAIN durable' = Pages
      BY <1>2, <1>5
    <2> QED
      BY <1>1, <1>2, <1>4, <1>5, <2>1 DEF Remembered
  <1>7. live \subseteq Allocated /\ live \subseteq Pages
    BY <1>1 DEF TreeState, IsTree, TreeOK, GhostType, Allocated
  <1>8. \A p \in live : \A k : SameFor(k, nodes[p], nodes[p])
    BY <1>1, SameAsItself DEF TreeState
  <1>9. Settled(live)'
    <2>1. CASE Written(durable') /\ ~threw
      <3>1. pc = "idle" /\ \A p \in Allocated : durable'[p] = nodes[p]
        BY <2>1 DEF Written
      <3>2. safe' = AllKeys /\ ~Pending
        BY <1>2, <2>1, <3>1 DEF Pending
      <3> QED
        BY <1>4, <1>7, <1>8, <2>1, <3>1, <3>2 DEF Settled
    <2>2. CASE ~(Written(durable') /\ ~threw)
      <3>1. safe' = safe
        BY <1>2, <2>2
      <3>2. ASSUME NEW p \in live, NEW k \in safe PROVE SameFor(k, durable'[p], nodes[p])
        <4>1. CASE p = a
          BY <1>5, <1>8, <4>1
        <4>2. CASE p # a
          BY <1>1, <1>5, <1>7, <4>2 DEF Settled
        <4> QED
          BY <4>1, <4>2
      <3> QED
        BY <1>1, <1>4, <3>1, <3>2 DEF Settled
    <2> QED
      BY <2>1, <2>2
  <1> QED
    BY <1>3, <1>6, <1>9 DEF Kept

\* An orderly end leaves the file as the pages are, and keys settled but after an exception.
LEMMA CloseKeeps ==
    ASSUME Base, NEW live, NEW h, NEW rng, NEW par, NEW H, Kept(live, h, rng, par, H), Close
    PROVE  /\ Base' /\ Kept(live, h, rng, par, H)'
           /\ pc' = "idle" /\ \A p \in Allocated' : durable'[p] = nodes'[p]
  <1>1. /\ TreeState(live, h, rng, par) /\ Settled(live)
        /\ Remembered(nodes, Allocated, durable, given, contents, live, h, H)
    BY DEF Kept
  <1>2. /\ UNCHANGED vars /\ given' = given /\ pc = "idle"
        /\ durable' = [p \in Pages |-> IF p \in Allocated THEN nodes[p] ELSE durable[p]]
        /\ safe' = IF threw THEN {} ELSE AllKeys
    BY DEF Close
  <1>3. Base' /\ TreeState(live, h, rng, par)'
    BY <1>1, <1>2, SameTreeState
  <1>4. /\ nodes' = nodes /\ Allocated' = Allocated /\ contents' = contents /\ threw' = threw
        /\ pc' = "idle" /\ ~Pending'
    BY <1>2 DEF vars, Allocated, Pending
  <1>5. /\ Allocated \subseteq Pages /\ live \subseteq Allocated /\ DOMAIN durable' = Pages
        /\ \A p \in Allocated : durable'[p] = nodes[p]
        /\ \A p \in Pages \ Allocated : durable'[p] = durable[p]
    <2>1. Allocated \subseteq Pages /\ live \subseteq Allocated
      BY <1>1 DEF Remembered, TreeState, IsTree, TreeOK, Allocated
    <2> QED
      BY <1>2, <2>1
  <1>6. Remembered(nodes', Allocated', durable', given', contents', live, h, H)
    BY <1>1, <1>2, <1>4, <1>5 DEF Remembered
  <1>7. Settled(live)'
    <2>1. \A p \in live : \A k : SameFor(k, nodes[p], nodes[p])
      BY <1>1, SameAsItself DEF TreeState
    <2> QED
      BY <1>2, <1>4, <1>5, <2>1 DEF Settled
  <1> QED
    BY <1>3, <1>4, <1>5, <1>6, <1>7 DEF Kept

\* The pages are read again as they were.
LEMMA ReopenKeeps ==
    ASSUME Base, NEW live, NEW h, NEW rng, NEW par, NEW H, Kept(live, h, rng, par, H),
           pc = "idle", \A p \in Allocated : durable[p] = nodes[p], Reopen
    PROVE  Base' /\ Kept(live, h, rng, par, H)'
  <1>1. /\ TreeState(live, h, rng, par) /\ Settled(live)
        /\ Remembered(nodes, Allocated, durable, given, contents, live, h, H)
    BY DEF Kept
  <1>2. /\ nodes \in [Allocated -> Node] /\ rootPageId = metaRoot
    BY PagesAre DEF Base
  <1>3. rootPageId \in Allocated
    BY <1>1 DEF TreeState, IsTree, TreeOK, Tops, Allocated
  <1>4. nodes' = nodes /\ Allocated' = Allocated
    <2>1. nodes' = nodes
      BY <1>2 DEF Reopen, Recover
    <2> QED
      BY <2>1 DEF Allocated
  <1>5. /\ rootPageId' = rootPageId /\ metaRoot' = metaRoot /\ pc' = "idle"
        /\ path = <<>> /\ path' = <<>> /\ op' = op /\ res' = res /\ rows' = rows
        /\ contents' = contents /\ threw' = threw /\ cur' = rootPageId
        /\ durable' = durable /\ given' = given /\ safe' = safe
    BY <1>2 DEF Reopen, Recover, Base
  <1>6. Base'
    BY <1>3, <1>4, <1>5 DEF Base
  <1>7. TreeState(live, h, rng, par)'
    BY <1>1, <1>4, <1>5 DEF TreeState, Tops, Pending, LowPage, RootFilled, RootHalf, Open
  <1>8. Remembered(nodes', Allocated', durable', given', contents', live, h, H)
    BY <1>1, <1>4, <1>5
  <1>9. Settled(live)'
    BY <1>1, <1>4, <1>5 DEF Settled, Pending
  <1> QED
    BY <1>6, <1>7, <1>8, <1>9 DEF Kept

\* A crash leaves what the file remembers.
LEMMA CrashLeaves ==
    ASSUME Base, NEW live, NEW h, NEW rng, NEW par, NEW H, Kept(live, h, rng, par, H), Crash
    PROVE  Mixture(H)' /\ Legacy'
  <1>1. /\ TreeState(live, h, rng, par) /\ Settled(live)
        /\ Remembered(nodes, Allocated, durable, given, contents, live, h, H)
    BY DEF Kept
  <1>2. /\ nodes' = [p \in Allocated |-> durable[p]] /\ rootPageId' = rootPageId
        /\ contents' = contents /\ given' = given /\ safe' = safe
    BY DEF Crash, Recover, Base
  <1>3. Allocated' = Allocated /\ \A p \in Allocated : nodes'[p] = durable[p]
    BY <1>2 DEF Allocated
  <1>4. live \subseteq Allocated /\ rootPageId \in Allocated /\ rootPageId \in Tops
    BY <1>1 DEF TreeState, IsTree, TreeOK, Tops, Allocated
  <1>5. Mixture(H)'
    <2>1. H[rootPageId] < rootPageId /\ rootPageId \in Pages /\ H[rootPageId] \in Nat
      BY <1>1, <1>4 DEF Remembered
    <2>2. H[rootPageId] < MaxPages
      BY <2>1, TreePagesAssumption DEF Pages
    <2> QED
      BY <1>1, <1>2, <1>3, <1>4, <2>2 DEF Remembered, Mixture
  <1>6. Legacy'
    <2> SUFFICES ASSUME safe # {} PROVE Legacy'
      BY <1>2 DEF Legacy
    <2>1. /\ ~threw /\ ~Pending /\ safe \subseteq AllKeys /\ (pc # "idle" => op.key \notin safe)
          /\ \A p \in live, k \in safe : SameFor(k, durable[p], nodes[p])
      BY <1>1 DEF Settled
    <2>2. Tops = {rootPageId} /\ threw = FALSE
      BY <2>1 DEF Tops, Base
    <2> PICK N, root, open, asked :
           N = nodes /\ root = rootPageId /\ open = Open /\ asked = contents
      OBVIOUS
    <2>3. /\ IsTree(N, {root}, live, h, rng, par) /\ Heights(root, {root}, live, h)
          /\ Faithful(Stored(N, live), asked, open, FALSE)
      BY <1>1, <2>2 DEF TreeState
    <2>4. \A k \in safe : k \notin open
      BY <2>1 DEF Open
    <2>5. \A k \in safe : Resembles(N, live, k)'
      BY <1>3, <1>4, <2>1 DEF Resembles
    <2>6. rootPageId' = root /\ contents' = asked /\ safe' = safe
      BY <1>2
    <2> QED
      BY <2>1, <2>3, <2>4, <2>5, <2>6 DEF Legacy
  <1> QED
    BY <1>5, <1>6

\* Nothing is in the file yet.
LEMMA InitKept ==
    ASSUME RecoveryInit
    PROVE  RecoveryInv
  <1>1. /\ Base /\ TreeInv /\ safe = {} /\ mode = "open"
        /\ nodes = [p \in {1} |-> Leaf(<<>>, <<>>, -1)]
        /\ durable = [p \in Pages |-> Unwritten] /\ given = [k \in AllKeys |-> {}]
        /\ contents = [k \in AllKeys |-> NotFound]
    BY InitTree DEF RecoveryInit, TreeInv, Init
  <1>2. PICK live, h, rng, par : TreeState(live, h, rng, par)
    BY <1>1 DEF TreeInv
  <1>3. /\ Allocated = {1} /\ nodes[1] = Leaf(<<>>, <<>>, -1) /\ 1 \in Pages
        /\ live \subseteq Allocated
    <2>1. live \subseteq Allocated
      BY <1>2 DEF TreeState, IsTree, TreeOK, Allocated
    <2> QED
      BY <1>1, <2>1, TreePagesAssumption DEF Allocated, Pages
  <1>4. h \in [Pages -> Nat] /\ \A q \in live : h[q] < q
    BY <1>2 DEF TreeState, IsTree, GhostType, Heights
  <1> PICK H : H = [p \in Pages |-> 0]
    OBVIOUS
  <1>5. \A p \in live : H[p] = h[p]
    BY <1>3, <1>4
  <1>6. Sound(Allocated, given, H, 1, nodes[1])
    BY <1>3, EmptyLeafSound
  <1>7. Remembered(nodes, Allocated, durable, given, contents, live, h, H)
    <2>1. H \in [Pages -> Nat] /\ H[1] < 1
      BY <1>3
    <2> QED
      BY <1>1, <1>3, <1>5, <1>6, <2>1 DEF Remembered
  <1>8. Settled(live)
    BY <1>1 DEF Settled
  <1> QED
    BY <1>1, <1>2, <1>7, <1>8 DEF RecoveryInv, Kept

\* Each step keeps the tree or loses the process.
LEMMA RecoveryStep ==
    ASSUME RecoveryInv, [RecoveryNext]_rvars, -1 \notin AllKeys
    PROVE  RecoveryInv'
  <1>1. CASE UNCHANGED rvars
    <2>1. /\ mode' = mode /\ durable' = durable /\ given' = given /\ safe' = safe /\ nodes' = nodes
          /\ contents' = contents /\ rootPageId' = rootPageId /\ pc' = pc /\ threw' = threw
          /\ op' = op /\ Allocated' = Allocated /\ UNCHANGED vars
      BY <1>1 DEF rvars, vars, Allocated
    <2>2. CASE mode # "crashed"
      <3>1. PICK live, h, rng, par, H : Kept(live, h, rng, par, H)
        BY <2>2 DEF RecoveryInv
      <3>2. TreeState(live, h, rng, par) /\ Settled(live) /\ Base
            /\ Remembered(nodes, Allocated, durable, given, contents, live, h, H)
        BY <2>2, <3>1 DEF Kept, RecoveryInv
      <3>3. Base' /\ TreeState(live, h, rng, par)'
        BY <2>1, <3>2, SameTreeState
      <3>4. Settled(live)'
        <4>1. Pending' = Pending
          BY <2>1 DEF vars, Pending
        <4> QED
          BY <2>1, <3>2, <4>1 DEF Settled
      <3>5. Kept(live, h, rng, par, H)'
        BY <2>1, <3>2, <3>3, <3>4 DEF Kept
      <3> QED
        BY <2>1, <2>2, <3>3, <3>5 DEF RecoveryInv
    <2>3. CASE mode = "crashed"
      <3>1. PICK H : Mixture(H)
        BY <2>3 DEF RecoveryInv
      <3>2. Mixture(H)'
        BY <2>1, <3>1 DEF Mixture
      <3>3. Legacy'
        BY <2>1, <2>3 DEF RecoveryInv, Legacy, Resembles
      <3> QED
        BY <2>1, <2>3, <3>2, <3>3 DEF RecoveryInv
    <2> QED
      BY <2>2, <2>3
  <1>2. CASE mode = "crashed" /\ RecoveryNext
    BY <1>2 DEF RecoveryNext, TreeStep, WriteBack, Close, Reopen, Crash
  <1>3. CASE mode # "crashed" /\ RecoveryNext
    <2>1. PICK live, h, rng, par, H : Kept(live, h, rng, par, H)
      BY <1>3 DEF RecoveryInv
    <2>2. Base
      BY <1>3 DEF RecoveryInv
    <2>3. CASE TreeStep
      BY <2>1, <2>2, <2>3, TreeStepKeeps DEF TreeStep, RecoveryInv
    <2>4. ASSUME NEW p \in Allocated, WriteBack(p) PROVE RecoveryInv'
      <3>1. mode' = "open"
        BY <2>4 DEF WriteBack
      <3>2. Base' /\ Kept(live, h, rng, par, H)'
        BY <2>1, <2>2, <2>4, WriteBackKeeps
      <3> QED
        BY <3>1, <3>2 DEF RecoveryInv
    <2>5. CASE Close
      BY <2>1, <2>2, <2>5, CloseKeeps DEF Close, RecoveryInv
    <2>6. CASE Reopen
      BY <2>1, <2>2, <2>6, ReopenKeeps DEF Reopen, RecoveryInv
    <2>7. CASE Crash
      BY <2>1, <2>2, <2>7, CrashLeaves DEF Crash, RecoveryInv
    <2> QED
      BY <1>3, <2>3, <2>4, <2>5, <2>6, <2>7 DEF RecoveryNext
  <1> QED
    BY <1>1, <1>2, <1>3

\* The invariant holds, for every order in which pages are written back.
LEMMA RecoveryInvariant ==
    ASSUME -1 \notin AllKeys
    PROVE  RecoverySpec => []RecoveryInv
  <1>1. RecoveryInit => RecoveryInv
    BY InitKept
  <1>2. RecoveryInv /\ [RecoveryNext]_rvars => RecoveryInv'
    BY RecoveryStep
  <1> QED
    BY <1>1, <1>2, PTL DEF RecoverySpec

\* After any number of orderly restarts, and in whatever order the pool has written pages back,
\* search finds what was asked for.
THEOREM ReopenTheorem ==
    ASSUME -1 \notin AllKeys
    PROVE  RecoverySpec => []ReopenFindsContents
  <1>1. RecoveryInv => ReopenFindsContents
    <2> SUFFICES ASSUME RecoveryInv, mode = "open", pc = "idle", NEW k \in AllKeys
                 PROVE  \/ Search(rootPageId, k) = contents[k]
                        \/ threw /\ Search(rootPageId, k) = NotFound
      BY DEF ReopenFindsContents
    <2>1. TreeInv
      BY DEF RecoveryInv, Kept, TreeInv
    <2> QED
      BY <2>1, SearchAnswers
  <1> QED
    BY <1>1, RecoveryInvariant, PTL

\* One step of findLeafPage over the file.
Stray(p, k) == IF p = Astray \/ nodes[p] = Unwritten THEN Astray ELSE Onward(p, k)

\* The way findLeafPage takes over the file.
Strays(at, S, k) ==
    /\ at \in [0 .. MaxPages -> S] /\ at[0] = rootPageId
    /\ \A d \in 1 .. MaxPages : at[d] = Stray(at[d - 1], k)

\* It ends where RecoveredLeaf does.
LEMMA RecoveredLeafIs ==
    ASSUME NEW S, NEW k, NEW at, Strays(at, S, k)
    PROVE  RecoveredLeaf(k) = at[MaxPages]
  <1> DEFINE Way(f) == f = [d \in 0 .. MaxPages |->
                               IF d = 0 THEN rootPageId
                               ELSE LET p == f[d - 1] IN
                                    IF p = Astray \/ nodes[p] = Unwritten THEN Astray
                                    ELSE IF nodes[p].isLeaf THEN p ELSE ChildFor(nodes[p], k)]
             c == CHOOSE f : Way(f)
  <1>1. MaxPages \in Nat
    BY TreePagesAssumption
  <1>2. Way(at)
    <2>1. ASSUME NEW d \in 0 .. MaxPages, d # 0
          PROVE  at[d] = IF at[d - 1] = Astray \/ nodes[at[d - 1]] = Unwritten THEN Astray
                         ELSE IF nodes[at[d - 1]].isLeaf THEN at[d - 1]
                              ELSE ChildFor(nodes[at[d - 1]], k)
      <3>1. d \in 1 .. MaxPages
        BY <1>1, <2>1
      <3>2. at[d] = Stray(at[d - 1], k)
        BY <3>1 DEF Strays
      <3> QED
        BY <3>2 DEF Stray, Onward
    <2> QED
      BY <2>1 DEF Strays
  <1>3. Way(c)
    <2> HIDE DEF Way
    <2> QED
      BY <1>2
  <1>4. RecoveredLeaf(k) = c[MaxPages]
    BY DEF RecoveredLeaf
  <1>5. c[0] = rootPageId
    <2> HIDE DEF c
    <2> QED
      BY <1>1, <1>3
  <1>6. \A d \in 1 .. MaxPages : c[d] = Stray(c[d - 1], k)
    <2> HIDE DEF c
    <2>1. \A d \in 1 .. MaxPages : d \in 0 .. MaxPages /\ d # 0
      OBVIOUS
    <2> QED
      BY <1>3, <2>1 DEF Stray, Onward
  <1> HIDE DEF c, Way
  <1>7. \A d \in 1 .. MaxPages : at[d - 1] = c[d - 1] => at[d] = c[d]
    BY <1>6 DEF Strays
  <1>8. at[MaxPages] = c[MaxPages]
    <2>1. at[0] = c[0]
      BY <1>5 DEF Strays
    <2> QED
      BY ONLY <1>1, <1>7, <2>1, SameRun
  <1> QED
    BY <1>4, <1>8

\* The child of a sound internal node to which a search goes on is lower.
LEMMA SoundChild ==
    ASSUME NEW D, NEW G, NEW H, NEW p, NEW n, Sound(D, G, H, p, n), ~n.isLeaf, NEW k \in Int
    PROVE  ChildFor(n, k) \in D /\ H[ChildFor(n, k)] < H[p]
  <1> DEFINE idx == UpperBound(n.keys, k)
  <1>1. /\ n \in Node /\ Ascending(n.keys) /\ Len(n.children) = Len(n.keys) + 1
        /\ \A j \in DOMAIN n.children : n.children[j] \in D /\ H[n.children[j]] < H[p]
    BY DEF Sound
  <1>2. /\ n.keys \in Seq(Int) /\ Len(n.keys) \in Nat
        /\ DOMAIN n.children = 1 .. Len(n.children)
    BY <1>1, NodeFields
  <1>3. idx \in 0 .. Len(n.keys)
    BY <1>1, <1>2, UpperBoundIsSlot DEF IsSlot
  <1>4. idx + 1 \in DOMAIN n.children
    <2> HIDE DEF idx
    <2> QED
      BY <1>1, <1>2, <1>3
  <1>5. ChildFor(n, k) = n.children[idx + 1]
    BY DEF ChildFor
  <1> QED
    BY <1>1, <1>4, <1>5

\* A search over the file that does not go astray ends at a sound leaf, as findLeafPage does.
LEMMA StraysToLeaf ==
    ASSUME NEW H, Mixture(H), NEW k \in Int, RecoveredLeaf(k) # Astray
    PROVE  LET p == FindLeafPage(rootPageId, k)
           IN nodes[p].isLeaf /\ Sound(Allocated, given, H, p, nodes[p])
  <1> PICK S, root, m : S = Allocated \cup {Astray} /\ root = rootPageId /\ m = MaxPages
    OBVIOUS
  <1> DEFINE g == [p \in S |-> Stray(p, k)]
  <1>1. /\ Allocated \subseteq Pages /\ H \in [Pages -> Nat] /\ root \in Allocated
        /\ H[root] < m /\ m \in Nat /\ Astray \notin Allocated
        /\ \A p \in Allocated : nodes[p] = Unwritten \/ Sound(Allocated, given, H, p, nodes[p])
    <2>1. Astray \notin Pages
      BY TreePagesAssumption DEF Astray, Pages
    <2> QED
      BY <2>1, TreePagesAssumption DEF Mixture
  <1>2. ASSUME NEW p \in Allocated, nodes[p] # Unwritten, ~nodes[p].isLeaf
        PROVE  ChildFor(nodes[p], k) \in Allocated /\ H[ChildFor(nodes[p], k)] < H[p]
    BY <1>1, <1>2, SoundChild
  <1>3. \A p \in S : Stray(p, k) \in S
    BY <1>2 DEF Stray, Onward
  <1>4. g \in [S -> S] /\ \A p \in S : g[p] = Stray(p, k)
    BY <1>3
  <1> HIDE DEF g
  <1>5. PICK at : Iterated(at, S, root, g, m)
    BY <1>1, <1>4, Iterates
  <1>6. /\ at \in [0 .. m -> S] /\ at[0] = root
        /\ \A d \in 1 .. m : at[d] = Stray(at[d - 1], k)
    <2>1. \A d \in 1 .. m : at[d - 1] \in S
      BY <1>1, <1>5 DEF Iterated
    <2> QED
      BY <1>4, <1>5, <2>1 DEF Iterated
  <1>7. at[m] # Astray
    <2>1. Strays(at, S, k)
      BY <1>6 DEF Strays
    <2>2. RecoveredLeaf(k) = at[MaxPages]
      BY ONLY <2>1, RecoveredLeafIs
    <2> QED
      BY <2>2
  <1>8. \A n \in 0 .. m : at[n] # Astray
    <2> SUFFICES ASSUME NEW a \in 0 .. m, at[a] = Astray PROVE FALSE
      OBVIOUS
    <2> PICK T : T = {n \in Nat : n <= m => at[n] = Astray}
      OBVIOUS
    <2>1. a \in T /\ a \in Nat
      OBVIOUS
    <2>2. ASSUME NEW n \in Nat, a <= n /\ n < m /\ n \in T PROVE n + 1 \in T
      <3>1. at[n] = Astray /\ n + 1 \in 1 .. m /\ n + 1 - 1 = n
        BY <1>1, <2>2
      <3>2. at[n + 1] = Stray(at[n], k)
        BY <1>6, <3>1
      <3> QED
        BY <3>1, <3>2 DEF Stray
    <2>3. \A n \in a .. m : n \in T
      BY <1>1, <2>1, <2>2, CountUp
    <2>4. m \in a .. m
      BY <1>1
    <2> QED
      BY <1>1, <1>7, <2>3, <2>4
  <1>9. ASSUME NEW n \in Nat, n < m
        PROVE  /\ at[n] \in Allocated /\ nodes[at[n]] # Unwritten
               /\ at[n + 1] = Onward(at[n], k)
    <2>1. n \in 0 .. m /\ n + 1 \in 1 .. m /\ n + 1 \in 0 .. m /\ n + 1 - 1 = n
      BY <1>1, <1>9
    <2>2. at[n] \in S /\ at[n] # Astray /\ at[n + 1] # Astray /\ at[n + 1] = Stray(at[n], k)
      BY <1>6, <1>8, <2>1
    <2> QED
      BY <2>2 DEF Stray
  <1>10. Leads(at, S, root, k)
    <2>1. ASSUME NEW d \in 1 .. m PROVE at[d] = Onward(at[d - 1], k)
      <3>1. d - 1 \in Nat /\ d - 1 < m /\ d - 1 + 1 = d
        BY <1>1
      <3> QED
        BY <1>9, <3>1
    <2> QED
      BY <1>6, <2>1 DEF Leads
  <1> PICK p : p = at[m]
    OBVIOUS
  <1>11. FindLeafPage(root, k) = p
    BY <1>10, FindLeafPageIs
  <1> DEFINE Found(q) == q \in Allocated /\ nodes[q] # Unwritten /\ nodes[q].isLeaf
  <1> PICK T : T = {n \in Nat : n <= m => Found(at[n]) \/ (at[n] \in Allocated
                                                             /\ H[at[n]] + n <= H[root])}
    OBVIOUS
  <1>12. 0 \in T
    <2>1. H[root] \in Nat
      BY <1>1
    <2>2. H[root] + 0 <= H[root]
      BY <2>1
    <2> QED
      BY <1>1, <1>6, <2>2
  <1>13. ASSUME NEW n \in Nat, n < m /\ n \in T PROVE n + 1 \in T
    <2> PICK q : q = at[n]
      OBVIOUS
    <2>1. /\ q \in Allocated /\ nodes[q] # Unwritten /\ at[n + 1] = Onward(q, k)
          /\ Found(q) \/ H[q] + n <= H[root]
      BY <1>1, <1>9, <1>13
    <2>2. CASE nodes[q].isLeaf
      BY <2>1, <2>2 DEF Onward
    <2>3. CASE ~nodes[q].isLeaf
      <3> PICK c : c = at[n + 1]
        OBVIOUS
      <3>1. c \in Allocated /\ H[c] < H[q] /\ H[q] + n <= H[root]
        BY <1>2, <2>1, <2>3 DEF Onward
      <3>2. H[c] \in Nat /\ H[q] \in Nat /\ H[root] \in Nat
        BY <1>1, <2>1, <3>1
      <3>3. H[c] + (n + 1) <= H[root]
        BY <3>1, <3>2
      <3> QED
        BY <3>1, <3>3
    <2> QED
      BY <2>2, <2>3
  <1>14. m \in T
    <2>1. \A n \in Nat : 0 <= n /\ n < m /\ n \in T => n + 1 \in T
      BY <1>13
    <2>2. \A n \in 0 .. m : n \in T
      BY <1>1, <1>12, <2>1, CountUp
    <2> QED
      BY <1>1, <2>2
  <1>15. Found(p)
    <2>1. Found(p) \/ (p \in Allocated /\ H[p] + m <= H[root])
      BY <1>1, <1>14
    <2>2. p \in Allocated => H[p] \in Nat /\ H[root] \in Nat
      BY <1>1
    <2> QED
      BY <1>1, <2>1, <2>2
  <1>16. nodes[p].isLeaf /\ Sound(Allocated, given, H, p, nodes[p])
    BY <1>1, <1>15
  <1> QED
    BY <1>11, <1>16

\* After a crash a search that does not go astray finds no value a key was never inserted with.
THEOREM CrashTheorem ==
    ASSUME -1 \notin AllKeys
    PROVE  RecoverySpec => []CrashInventsNothing
  <1>1. RecoveryInv => CrashInventsNothing
    <2> SUFFICES ASSUME RecoveryInv, mode = "crashed", NEW k \in AllKeys, RecoveredLeaf(k) # Astray
                 PROVE  Search(rootPageId, k) \in given[k] \cup {NotFound}
      BY DEF CrashInventsNothing
    <2>1. PICK H : Mixture(H)
      BY DEF RecoveryInv
    <2> PICK leaf : leaf = nodes[FindLeafPage(rootPageId, k)]
      OBVIOUS
    <2> PICK idx : idx = LowerBound(leaf.keys, k)
      OBVIOUS
    <2>2. k \in Int
      BY KeysAreNumbers
    <2>3. leaf.isLeaf /\ \E p : Sound(Allocated, given, H, p, leaf)
      BY <2>1, <2>2, StraysToLeaf
    <2>4. /\ leaf \in Node /\ Ascending(leaf.keys)
          /\ \A j \in DOMAIN leaf.keys : leaf.values[j] \in given[leaf.keys[j]] \cup {NotFound}
      BY <2>3 DEF Sound
    <2>5. leaf.keys \in Seq(Int) /\ Len(leaf.keys) \in Nat /\ DOMAIN leaf.keys = 1 .. Len(leaf.keys)
      BY <2>4, NodeFields
    <2>6. idx \in 0 .. Len(leaf.keys)
      BY <2>2, <2>4, <2>5, LowerBoundFinds
    <2>7. Search(rootPageId, k) = IF idx < Len(leaf.keys) /\ leaf.keys[idx + 1] = k
                                  THEN leaf.values[idx + 1] ELSE NotFound
      BY DEF Search
    <2>8. idx < Len(leaf.keys) => idx + 1 \in DOMAIN leaf.keys
      BY <2>5, <2>6
    <2> QED
      BY <2>4, <2>7, <2>8
  <1> QED
    BY <1>1, RecoveryInvariant, PTL

\* Once all pages were in the file, a crash loses no key that no later call was about, if those
\* calls changed leaves in place: neither the path to it nor the key.
THEOREM SettledTheorem ==
    ASSUME -1 \notin AllKeys, Unwritten \notin Node
    PROVE  RecoverySpec => []SettledKeysSurvive
  <1>1. RecoveryInv => SettledKeysSurvive
    <2> SUFFICES ASSUME RecoveryInv, mode = "crashed", NEW k \in safe
                 PROVE  RecoveredLeaf(k) # Astray /\ Search(rootPageId, k) = contents[k]
      BY DEF SettledKeysSurvive
    <2> PICK root, asked : root = rootPageId /\ asked = contents
      OBVIOUS
    <2>1. safe # {} /\ Legacy
      BY DEF RecoveryInv
    <2>2. PICK N, live, h, rng, par, open :
             /\ IsTree(N, {root}, live, h, rng, par) /\ Heights(root, {root}, live, h)
             /\ Faithful(Stored(N, live), asked, open, FALSE)
             /\ safe \subseteq AllKeys /\ k \notin open /\ Resembles(N, live, k)
      BY <2>1 DEF Legacy
    <2>3. k \in AllKeys /\ k \in Int
      BY <2>2, KeysAreNumbers
    <2>4. Search(root, k) = asked[k]
      <3> PICK lost : lost = FALSE
        OBVIOUS
      <3>1. /\ IsTree(N, {root}, live, h, rng, par) /\ Heights(root, {root}, live, h)
            /\ lost \in BOOLEAN /\ Faithful(Stored(N, live), asked, open, lost)
            /\ k \in AllKeys /\ k \notin open /\ Resembles(N, live, k)
        BY <2>2, <2>3
      <3>2. Search(root, k) = asked[k] \/ (lost /\ Search(root, k) = NotFound)
        BY ONLY <3>1, SearchFinds
      <3> QED
        BY <3>2
    <2>5. PICK at : Leads(at, live, root, k)
      <3> PICK tops : tops = {root}
        OBVIOUS
      <3>1. /\ tops = {root} /\ IsTree(N, tops, live, h, rng, par) /\ Heights(root, tops, live, h)
            /\ k \in Int /\ Resembles(N, live, k)
        BY <2>2, <2>3
      <3> QED
        BY ONLY <3>1, FindLeafPageFinds
    <2>6. MaxPages \in Nat /\ at \in [0 .. MaxPages -> live] /\ Astray \notin live
      <3>1. Astray \notin Pages /\ live \subseteq Pages
        BY <2>2, TreePagesAssumption DEF Astray, Pages, IsTree, GhostType
      <3> QED
        BY <2>5, <3>1, TreePagesAssumption DEF Leads
    <2>7. Strays(at, live, k)
      <3>1. ASSUME NEW d \in 1 .. MaxPages PROVE at[d] = Stray(at[d - 1], k)
        <4>1. at[d - 1] \in live
          BY <2>6
        <4>2. nodes[at[d - 1]] \in Node
          BY <2>2, <4>1 DEF Resembles, SameFor
        <4>3. at[d] = Onward(at[d - 1], k)
          BY <2>5 DEF Leads
        <4> QED
          BY <2>6, <4>1, <4>2, <4>3 DEF Stray
      <3> QED
        BY <2>5, <3>1 DEF Leads, Strays
    <2>8. RecoveredLeaf(k) # Astray
      BY <2>6, <2>7, RecoveredLeafIs
    <2> QED
      BY <2>4, <2>8
  <1> QED
    BY <1>1, RecoveryInvariant, PTL

=============================================================================
