-------------------------------- MODULE TextProofs --------------------------
(***************************************************************************)
(* What is read from text: the lines of a file by CsvLoad and the tokens   *)
(* of a query by QueryParser.                                              *)
(*                                                                         *)
(* The loader, for every page size, pool, file limit and set of lines: its *)
(* types, that row ids name the rows they were made for, that the loader   *)
(* meets a null page only after as many exceptions as there are frames,    *)
(* that rows are where they were counted, and what of them is left after   *)
(* the session.  The argument for row ids is about space: the records of a *)
(* page that is being indexed all have two fields, so that at least        *)
(* MinKeyed + SlotSize bytes are gone for each of them, and RidAssumption  *)
(* says that there cannot be RidBase.  The one for rows is about the marks *)
(* of pages: each page that is neither marked dirty nor being filled was   *)
(* left by an exception.                                                   *)
(*                                                                         *)
(* The parser accepts the texts of the grammar and no other, and gives up  *)
(* at the first token after which no query is possible; a statement says   *)
(* what its text says.  The argument: FROM is the one keyword that is no   *)
(* column, so where it stands settles what every later token must be       *)
(* (FromStands).  The inductive invariant says what the tokens read so far *)
(* are at each place of the statement.                                     *)
(***************************************************************************)
EXTENDS CsvLoad, QueryParser, FiniteSetTheorems, SequenceTheorems, TLAPS

Cost(line) == Stored(line) + SlotSize
LeastCost == MinKeyed + SlotSize

\* Page ids are handed out in order.
PagesBelowNext == \A p \in DataPages : p < next

\* The loader works on a page it has.
Busy == pc \in {"loading", "indexing"} /\ pageId \in DataPages

\* Between two loads no page is pinned but those of loads left by an exception.
PinsInv ==
    /\ IsFiniteSet(pinned)
    /\ Busy => pageId \in pinned
    /\ pc \notin {"undefined", "closed"} =>
         Cardinality(pinned) <= failures + (IF Busy THEN 1 ELSE 0)
    /\ pc = "loading" /\ pageId \notin DataPages => failures >= PoolSize

\* The rows of the page being filled took the space of rows with a key; of the last one that
\* is known once its key is.
Rows == Len(pages[pageId])
SpaceInv ==
    /\ pc = "indexing" =>
         /\ indexed /\ pageId \in DataPages /\ Rows > 0
         /\ (Rows - 1) * LeastCost + Cost(pages[pageId][Rows]) + free[pageId] <= Room
    /\ pc = "loading" /\ indexed /\ pageId \in DataPages =>
         Rows * LeastCost + free[pageId] <= Room

\* The entry of a key was made for a row with that key, which is still there.
RowNamed(rid, k) ==
    \E p \in DataPages, slot \in 0 .. RidBase - 1 :
        /\ rid = Rid(p, slot)
        /\ slot < Len(pages[p]) /\ pages[p][slot + 1].key = k
IndexInv == pc # "closed" => \A k \in Keys : index[k] # NoRid => RowNamed(index[k], k)

Inv == TypeOK /\ PagesBelowNext /\ PinsInv /\ SpaceInv /\ IndexInv

-----------------------------------------------------------------------------
(* Arithmetic *)

\* A row id splits into the page and the slot it was made of.
LEMMA RidSplits ==
    ASSUME NEW p \in Nat, NEW slot \in 0 .. RidBase - 1
    PROVE  Rid(p, slot) \in Nat /\ PageOf(Rid(p, slot)) = p /\ SlotOf(Rid(p, slot)) = slot
<1>1. /\ RidBase \in Nat \ {0}
      /\ p * RidBase + slot \in Nat
  BY LoadSizesAssumption
<1>2. (p * RidBase + slot) \div RidBase = p /\ (p * RidBase + slot) % RidBase = slot
  BY <1>1
<1>3. QED
  BY <1>1, <1>2 DEF Rid, PageOf, SlotOf

\* Rows that cost at least LeastCost each and fit in a page are fewer than RidBase.
LEMMA FewRows == ASSUME NEW n \in Nat, n * LeastCost <= Room PROVE n < RidBase
<1> DEFINE c == MinKeyed + SlotSize
<1>1. c \in Nat /\ c > 0 /\ RidBase \in Nat /\ n * c < RidBase * c
  BY LoadSizesAssumption, RidAssumption DEF LeastCost
<1> HIDE DEF c
<1>2. n >= RidBase => n * c >= RidBase * c
  BY <1>1
<1>3. QED
  BY <1>1, <1>2

\* The bytes of a line are a number, and of one with a key at least those of a key.
LEMMA CostType ==
    ASSUME NEW line \in Lines
    PROVE  /\ Stored(line) \in Nat /\ Cost(line) \in Nat /\ LeastCost \in Nat
           /\ line.key \in Keys => Cost(line) >= LeastCost
<1>1. line.length \in Nat /\ LengthBase \in Nat \ {0}
  BY LinesAssumption, LoadSizesAssumption
<1>2. line.length % LengthBase \in Nat
  BY <1>1
<1>3. QED
  BY <1>2, LinesAssumption, LoadSizesAssumption DEF Stored, Cost, LeastCost

-----------------------------------------------------------------------------
(* What the operators of the pool do *)

\* newPage adds a page of its own and pins it.
LEMMA NewPageEffect ==
    ASSUME TypeOK, PagesBelowNext,
           NEW pins \in SUBSET pinned, NEW lines \in Seq(Lines), NEW bytes \in 0 .. Room,
           NewPage(pins, lines, bytes)
    PROVE  /\ next \notin DataPages /\ next' = next + 1 /\ pageId' = next
           /\ next \in 1 .. MaxPages - 1 /\ next' \in 1 .. MaxPages
           /\ DataPages' = DataPages \cup {next}
           /\ DataPages' \subseteq 1 .. MaxPages - 1
           /\ pages' \in [DataPages' -> Seq(Lines)] /\ free' \in [DataPages' -> 0 .. Room]
           /\ pages'[next] = lines /\ free'[next] = Room - bytes
           /\ \A p \in DataPages : pages'[p] = pages[p]
           /\ pinned' = pins \cup {next} /\ pinned' \subseteq DataPages'
           /\ PagesBelowNext'
<1>1. /\ next \in 1 .. MaxPages /\ next < MaxPages /\ MaxPages \in Nat /\ Room \in Nat
      /\ DataPages \subseteq 1 .. MaxPages - 1
      /\ pages \in [DataPages -> Seq(Lines)] /\ free \in [DataPages -> 0 .. Room]
      /\ pinned \subseteq DataPages
  BY LoadSizesAssumption DEF TypeOK, NewPage
<1>2. next \notin DataPages
  BY <1>1 DEF PagesBelowNext
<1>3. /\ next' = next + 1 /\ pageId' = next
      /\ pages' = [p \in DataPages \cup {next} |-> IF p = next THEN lines ELSE pages[p]]
      /\ free' = [p \in DataPages \cup {next} |-> IF p = next THEN Room - bytes ELSE free[p]]
      /\ pinned' = pins \cup {next}
  BY DEF NewPage
<1>4. DataPages' = DataPages \cup {next}
  BY <1>3 DEF DataPages
<1>5. PagesBelowNext'
  BY <1>1, <1>3, <1>4 DEF PagesBelowNext
<1>6. Room - bytes \in 0 .. Room
  BY <1>1
<1>7. pages' \in [DataPages' -> Seq(Lines)] /\ free' \in [DataPages' -> 0 .. Room]
  BY <1>1, <1>3, <1>4, <1>6
<1>8. QED
  BY <1>1, <1>2, <1>3, <1>4, <1>5, <1>7

\* An entry stays right when pages are added and rows appended to them.
LEMMA NamesKept ==
    ASSUME TypeOK, NEW rid, NEW k, RowNamed(rid, k),
           DataPages \subseteq DataPages',
           \A p \in DataPages : /\ Len(pages'[p]) >= Len(pages[p]) /\ Len(pages'[p]) \in Nat
                                /\ \A n \in 1 .. Len(pages[p]) : pages'[p][n] = pages[p][n]
    PROVE  RowNamed(rid, k)'
<1>1. PICK p \in DataPages, slot \in 0 .. RidBase - 1 :
        /\ rid = Rid(p, slot)
        /\ slot < Len(pages[p]) /\ pages[p][slot + 1].key = k
  BY DEF RowNamed
<1>2. Len(pages[p]) \in Nat /\ RidBase \in Nat
  BY LoadSizesAssumption DEF TypeOK
<1>3. slot + 1 \in 1 .. Len(pages[p])
  BY <1>1, <1>2
<1>4. p \in DataPages' /\ slot < Len(pages'[p]) /\ pages'[p][slot + 1].key = k
  BY <1>1, <1>2, <1>3
<1>5. QED
  BY <1>1, <1>4 DEF RowNamed, Rid

\* The same for all entries, when the index is left alone.
LEMMA IndexKept ==
    ASSUME TypeOK, IndexInv, pc # "closed", UNCHANGED index,
           DataPages \subseteq DataPages',
           \A p \in DataPages : /\ Len(pages'[p]) >= Len(pages[p]) /\ Len(pages'[p]) \in Nat
                                /\ \A n \in 1 .. Len(pages[p]) : pages'[p][n] = pages[p][n]
    PROVE  IndexInv'
<1>1. \A k \in Keys : index[k] # NoRid => RowNamed(index[k], k)'
  BY NamesKept DEF IndexInv
<1>2. ASSUME NEW k \in Keys, index'[k] # NoRid PROVE RowNamed(index[k], k)'
  BY <1>1, <1>2
<1>3. QED
  BY <1>2 DEF IndexInv, RowNamed

-----------------------------------------------------------------------------
(* The invariant *)

\* Before the first load there are no pages and no entries.
LEMMA InitInv == Init => Inv
<1> SUFFICES ASSUME Init PROVE Inv
  OBVIOUS
<1>1. DataPages = {} /\ pinned = {} /\ failures = 0 /\ pc = "idle" /\ counted = <<>>
  BY DEF Init, DataPages
<1>2. TypeOK
  BY <1>1, LoadSizesAssumption DEF Init, TypeOK, NoRid
<1>3. PinsInv
  BY <1>1, FS_EmptySet DEF PinsInv, Busy
<1>4. PagesBelowNext /\ SpaceInv /\ IndexInv
  BY <1>1 DEF Init, PagesBelowNext, SpaceInv, IndexInv
<1>5. QED
  BY <1>2, <1>3, <1>4 DEF Inv

\* The rows of a page are counted by numbers.
LEMMA PageLengths ==
    ASSUME TypeOK, NEW p \in DataPages
    PROVE  pages[p] \in Seq(Lines) /\ Len(pages[p]) \in Nat
<1>1. pages \in [DataPages -> Seq(Lines)]
  BY DEF TypeOK
<1>2. pages[p] \in Seq(Lines)
  BY <1>1
<1>3. QED
  BY <1>2

\* Pinned pages are counted one by one.
LEMMA PinOne ==
    ASSUME NEW S, IsFiniteSet(S), NEW p
    PROVE  /\ Cardinality(S) \in Nat
           /\ IsFiniteSet(S \cup {p}) /\ IsFiniteSet(S \ {p})
           /\ Cardinality(S \cup {p}) <= Cardinality(S) + 1
           /\ p \in S => Cardinality(S \ {p}) = Cardinality(S) - 1
           /\ p \notin S => S \ {p} = S
<1>1. Cardinality(S) \in Nat
  BY FS_CardinalityType
<1>2. /\ IsFiniteSet(S \cup {p})
      /\ Cardinality(S \cup {p}) = IF p \in S THEN Cardinality(S) ELSE Cardinality(S) + 1
  BY FS_AddElement
<1>3. /\ IsFiniteSet(S \ {p})
      /\ Cardinality(S \ {p}) = IF p \in S THEN Cardinality(S) - 1 ELSE Cardinality(S)
  BY FS_RemoveElement
<1>4. QED
  BY <1>1, <1>2, <1>3

\* Between two loads the pins are those of failed loads.
LEMMA PinsOfIdle ==
    ASSUME TypeOK, PinsInv, pc \in {"idle", "threw"}
    PROVE  IsFiniteSet(pinned) /\ Cardinality(pinned) <= failures
<1>1. failures \in Nat /\ ~Busy /\ pc \notin {"undefined", "closed"}
  BY DEF TypeOK, Busy
<1>2. IsFiniteSet(pinned) /\ Cardinality(pinned) <= failures + 0
  BY <1>1 DEF PinsInv
<1>3. QED
  BY <1>1, <1>2, FS_CardinalityType

\* In a load there is one pin more, that of the page being filled.
LEMMA PinsOfBusy ==
    ASSUME TypeOK, PinsInv, Busy
    PROVE  /\ IsFiniteSet(pinned) /\ pageId \in pinned /\ failures \in Nat
           /\ Cardinality(pinned) \in Nat /\ Cardinality(pinned) <= failures + 1
<1>1. failures \in Nat /\ pc \notin {"undefined", "closed"}
  BY DEF TypeOK, Busy
<1>2. /\ IsFiniteSet(pinned) /\ pageId \in pinned
      /\ Cardinality(pinned) <= failures + (IF Busy THEN 1 ELSE 0)
  BY <1>1 DEF PinsInv
<1>3. QED
  BY <1>1, <1>2, FS_CardinalityType

\* The history stays one when pages are added.
LEMMA CountedKept ==
    ASSUME TypeOK, DataPages \subseteq DataPages'
    PROVE  counted \in Seq([page : DataPages', line : Lines])
<1>1. counted \in Seq([page : DataPages, line : Lines])
  BY DEF TypeOK
<1>2. [page : DataPages, line : Lines] \subseteq [page : DataPages', line : Lines]
  OBVIOUS
<1>3. QED
  BY <1>1, <1>2, SeqMonotonic

\* The invariant is kept by the first newPage of a load, which has a frame.
LEMMA StartInv == Inv /\ Start => Inv'
<1> SUFFICES ASSUME Inv, Start PROVE Inv'
  OBVIOUS
<1> USE DEF Inv
<1>1. /\ pc \in {"idle", "threw"} /\ pc' = "loading" /\ indexed' \in BOOLEAN
      /\ UNCHANGED <<dirty, index, counted, failures>>
  BY DEF Start
<1>2. <<>> \in Seq(Lines) /\ 0 \in 0 .. Room /\ pinned \in SUBSET pinned
  BY LoadSizesAssumption
<1>3. NewPage(pinned, <<>>, 0)
  BY DEF Start
<1>4. /\ next \notin DataPages /\ next' = next + 1 /\ pageId' = next
      /\ next \in 1 .. MaxPages - 1 /\ next' \in 1 .. MaxPages
      /\ DataPages' = DataPages \cup {next} /\ DataPages' \subseteq 1 .. MaxPages - 1
      /\ pages' \in [DataPages' -> Seq(Lines)] /\ free' \in [DataPages' -> 0 .. Room]
      /\ pages'[next] = <<>> /\ free'[next] = Room - 0
      /\ \A p \in DataPages : pages'[p] = pages[p]
      /\ pinned' = pinned \cup {next} /\ pinned' \subseteq DataPages'
      /\ PagesBelowNext'
  BY <1>2, <1>3, NewPageEffect
<1>5. TypeOK'
  <2>1. counted' \in Seq([page : DataPages', line : Lines])
    BY <1>1, <1>4, CountedKept
  <2>2. QED
    BY <1>1, <1>4, <2>1 DEF TypeOK
<1>6. PinsInv'
  <2>1. IsFiniteSet(pinned) /\ Cardinality(pinned) <= failures
    BY <1>1, PinsOfIdle
  <2>2. IsFiniteSet(pinned') /\ Cardinality(pinned') <= Cardinality(pinned) + 1
        /\ Cardinality(pinned) \in Nat /\ Cardinality(pinned') \in Nat
    BY <1>4, <2>1, PinOne
  <2>3. Busy' /\ pageId' \in pinned' /\ pageId' \in DataPages'
    BY <1>1, <1>4 DEF Busy
  <2>4. failures \in Nat
    BY DEF TypeOK
  <2>5. QED
    BY <1>1, <2>1, <2>2, <2>3, <2>4 DEF PinsInv
<1>7. SpaceInv'
  <2>1. Rows' = 0 /\ Room \in Nat /\ LeastCost \in Nat
    BY <1>4, LoadSizesAssumption DEF Rows, LeastCost
  <2>2. Rows' * LeastCost = 0 /\ free'[pageId'] = Room
    BY <1>4, <2>1
  <2>3. Rows' * LeastCost + free'[pageId'] <= Room
    BY <2>1, <2>2
  <2>4. QED
    BY <1>1, <2>3 DEF SpaceInv
<1>8. IndexInv'
  <2>1. \A p \in DataPages : Len(pages[p]) \in Nat
    BY PageLengths
  <2>2. QED
    BY <1>1, <1>4, <2>1, IndexKept
<1>9. QED
  BY <1>4, <1>5, <1>6, <1>7, <1>8

\* What an index that names rows of the pages names is still there if they stay as they are.
LEMMA IndexOfSamePages ==
    ASSUME UNCHANGED <<pages, pageId>>, pc' # "closed",
           \A k \in Keys : index'[k] # NoRid => RowNamed(index'[k], k)
    PROVE  IndexInv'
<1>1. DataPages' = DataPages
  BY DEF DataPages
<1>2. ASSUME NEW k \in Keys, index'[k] # NoRid PROVE RowNamed(index[k], k)'
  BY <1>1, <1>2 DEF RowNamed
<1>3. QED
  BY <1>2 DEF IndexInv

\* The invariant is kept by one that throws.
LEMMA StartThrowsInv == ASSUME Inv, StartThrows PROVE Inv'
<1> USE DEF Inv
<1>1. /\ pc \in {"idle", "threw"} /\ pc' = "threw"
      /\ UNCHANGED <<pages, free, pinned, dirty, pageId, next, index, indexed, counted, failures>>
  BY DEF StartThrows, pool
<1>2. DataPages' = DataPages /\ PagesBelowNext'
  BY <1>1 DEF DataPages, PagesBelowNext
<1>3. TypeOK'
  BY <1>1, <1>2 DEF TypeOK
<1>4. PinsInv'
  BY <1>1 DEF PinsInv, Busy
<1>5. SpaceInv'
  BY <1>1 DEF SpaceInv
<1>6. \A k \in Keys : index'[k] # NoRid => RowNamed(index'[k], k)
  BY <1>1 DEF IndexInv
<1>7. IndexInv'
  BY <1>1, <1>6, IndexOfSamePages
<1>8. QED
  BY <1>2, <1>3, <1>4, <1>5, <1>7

\* The invariant is kept by one that has none: each frame is pinned for good.
LEMMA StartNoFrameInv == Inv /\ StartNoFrame => Inv'
<1> SUFFICES ASSUME Inv, StartNoFrame PROVE Inv'
  OBVIOUS
<1> USE DEF Inv
<1>1. /\ pc \in {"idle", "threw"} /\ pc' = "loading" /\ indexed' \in BOOLEAN
      /\ next < MaxPages /\ ~HasFrame(pinned)
      /\ next' = next + 1 /\ pageId' = next
      /\ UNCHANGED <<pages, free, pinned, dirty, index, counted, failures>>
  BY DEF StartNoFrame
<1>2. /\ next \in 1 .. MaxPages /\ MaxPages \in Nat /\ PoolSize \in Nat /\ failures \in Nat
      /\ DataPages \subseteq 1 .. MaxPages - 1
  BY LoadSizesAssumption DEF TypeOK
<1>3. DataPages' = DataPages /\ next \notin DataPages /\ pageId' \notin DataPages'
  BY <1>1, <1>2 DEF DataPages, PagesBelowNext
<1>4. TypeOK'
  BY <1>1, <1>2, <1>3 DEF TypeOK
<1>5. PagesBelowNext'
  BY <1>1, <1>2, <1>3 DEF PagesBelowNext
<1>6. PinsInv'
  <2>1. IsFiniteSet(pinned) /\ Cardinality(pinned) <= failures /\ Cardinality(pinned) \in Nat
    BY <1>1, PinsOfIdle, FS_CardinalityType
  <2>2. failures >= PoolSize
    BY <1>1, <1>2, <2>1 DEF HasFrame
  <2>3. QED
    BY <1>1, <1>2, <1>3, <2>1, <2>2 DEF PinsInv, Busy
<1>7. SpaceInv'
  BY <1>1, <1>3 DEF SpaceInv
<1>8. IndexInv'
  <2>1. \A p \in DataPages : Len(pages[p]) \in Nat
    BY PageLengths
  <2>2. QED
    BY <1>1, <1>3, <2>1, IndexKept
<1>9. QED
  BY <1>4, <1>5, <1>6, <1>7, <1>8

\* The invariant is kept by a row stored where there is room.
LEMMA StoreRowInv == ASSUME Inv, NEW line \in Lines, StoreRow(line) PROVE Inv'
<1> USE DEF Inv
<1>1. /\ pc = "loading" /\ pageId \in DataPages
      /\ Fits(free[pageId], line)
      /\ pages' = [pages EXCEPT ![pageId] = Append(@, line)]
      /\ free' = [free EXCEPT ![pageId] = @ - (Stored(line) + SlotSize)]
      /\ counted' = Append(counted, [page |-> pageId, line |-> line])
      /\ pc' = (IF indexed THEN "indexing" ELSE "loading")
      /\ UNCHANGED <<pinned, dirty, pageId, next, index, indexed, failures>>
  BY DEF StoreRow, Row, Count
<1>2. /\ pages \in [DataPages -> Seq(Lines)] /\ free \in [DataPages -> 0 .. Room]
      /\ Room \in Nat /\ SlotSize \in Nat /\ indexed \in BOOLEAN /\ failures \in Nat
  BY LoadSizesAssumption DEF TypeOK
<1>3. DataPages' = DataPages
  BY <1>1 DEF DataPages
<1>4. Stored(line) \in Nat /\ Cost(line) \in Nat /\ Cost(line) = Stored(line) + SlotSize
      /\ LeastCost \in Nat
  BY CostType DEF Cost
<1>5. free[pageId] - (Stored(line) + SlotSize) \in 0 .. Room
  BY <1>1, <1>2, <1>4 DEF Fits
<1>6. TypeOK'
  <2>1. pages' \in [DataPages' -> Seq(Lines)]
    BY <1>1, <1>2, <1>3
  <2>2. free' \in [DataPages' -> 0 .. Room]
    BY <1>1, <1>2, <1>3, <1>5
  <2>3. counted' \in Seq([page : DataPages', line : Lines])
    BY <1>1, <1>3 DEF TypeOK
  <2>4. QED
    BY <1>1, <1>3, <2>1, <2>2, <2>3 DEF TypeOK
<1>7. PagesBelowNext'
  BY <1>1, <1>3 DEF PagesBelowNext
<1>8. PinsInv'
  BY <1>1, <1>2, <1>3 DEF PinsInv, Busy
<1>9. /\ Rows \in Nat /\ Rows' = Rows + 1
      /\ pages'[pageId] = Append(pages[pageId], line)
      /\ pages'[pageId][Rows'] = line
      /\ free'[pageId] = free[pageId] - Cost(line)
  BY <1>1, <1>2, <1>4 DEF Rows
<1>10. SpaceInv'
  <2>1. CASE indexed
    <3>1. pc' = "indexing" /\ Rows * LeastCost + free[pageId] <= Room
      BY <1>1, <2>1 DEF SpaceInv
    <3>2. Rows' - 1 = Rows /\ Rows' > 0
      BY <1>9
    <3>3. (Rows' - 1) * LeastCost = Rows * LeastCost /\ Rows * LeastCost \in Nat
      BY <1>4, <1>9, <3>2
    <3> DEFINE used == Rows * LeastCost
    <3>4. used \in Nat /\ (Rows' - 1) * LeastCost = used /\ used + free[pageId] <= Room
      BY <3>1, <3>3
    <3> HIDE DEF used
    <3>5. free[pageId] \in Nat /\ used + Cost(line) + (free[pageId] - Cost(line)) <= Room
      BY <1>1, <1>2, <1>4, <3>4
    <3>6. (Rows' - 1) * LeastCost + Cost(line) + free'[pageId] <= Room
      BY <1>9, <3>4, <3>5
    <3>7. Cost(pages[pageId][Rows])' = Cost(line) /\ indexed' /\ pageId' = pageId
      BY <1>1, <1>9, <2>1 DEF Cost, Stored
    <3>8. pageId' \in DataPages'
      BY <1>1, <1>3
    <3>9. QED
      BY <3>1, <3>2, <3>6, <3>7, <3>8 DEF SpaceInv
  <2>2. CASE ~indexed
    BY <1>1, <2>2 DEF SpaceInv
  <2>3. QED
    BY <2>1, <2>2
<1>11. IndexInv'
  <2>1. ASSUME NEW p \in DataPages
        PROVE  /\ Len(pages'[p]) >= Len(pages[p]) /\ Len(pages'[p]) \in Nat
               /\ \A n \in 1 .. Len(pages[p]) : pages'[p][n] = pages[p][n]
    <3>1. CASE p = pageId
      <4>1. pages'[p] = Append(pages[p], line) /\ pages[p] \in Seq(Lines)
        BY <1>2, <1>9, <3>1
      <4>2. QED
        BY <4>1
    <3>2. CASE p # pageId
      BY <1>1, <1>2, <3>2, PageLengths
    <3>3. QED
      BY <3>1, <3>2
  <2>2. QED
    BY <1>1, <1>3, <2>1, IndexKept
<1>12. QED
  BY <1>6, <1>7, <1>8, <1>10, <1>11

\* What the steps that let go of a full page and take a new one have in common.
LEMMA TurnPage ==
    ASSUME Inv, pc = "loading", pageId \in DataPages,
           NEW lines \in Seq(Lines), NEW bytes \in 0 .. Room,
           NewPage(pinned \ {pageId}, lines, bytes),
           dirty' = dirty \cup {pageId}, pc' \in {"loading", "indexing"},
           counted' \in Seq([page : DataPages', line : Lines]),
           UNCHANGED <<index, indexed, failures>>
    PROVE  /\ TypeOK' /\ PagesBelowNext' /\ PinsInv' /\ IndexInv'
           /\ pageId' \in DataPages' /\ pages'[pageId'] = lines /\ free'[pageId'] = Room - bytes
<1> USE DEF Inv
<1>1. pinned \ {pageId} \in SUBSET pinned
  OBVIOUS
<1>2. /\ next \notin DataPages /\ next' = next + 1 /\ pageId' = next
      /\ next \in 1 .. MaxPages - 1 /\ next' \in 1 .. MaxPages
      /\ DataPages' = DataPages \cup {next} /\ DataPages' \subseteq 1 .. MaxPages - 1
      /\ pages' \in [DataPages' -> Seq(Lines)] /\ free' \in [DataPages' -> 0 .. Room]
      /\ pages'[next] = lines /\ free'[next] = Room - bytes
      /\ \A p \in DataPages : pages'[p] = pages[p]
      /\ pinned' = (pinned \ {pageId}) \cup {next} /\ pinned' \subseteq DataPages'
      /\ PagesBelowNext'
  BY <1>1, NewPageEffect
<1>3. TypeOK'
  BY <1>2 DEF TypeOK
<1>4. PinsInv'
  <2>1. /\ IsFiniteSet(pinned) /\ pageId \in pinned /\ failures \in Nat
        /\ Cardinality(pinned) <= failures + 1
    BY PinsOfBusy DEF Busy
  <2>2. /\ IsFiniteSet(pinned \ {pageId}) /\ Cardinality(pinned) \in Nat
        /\ Cardinality(pinned \ {pageId}) = Cardinality(pinned) - 1
    BY <2>1, PinOne
  <2>3. PICK rest : rest = pinned \ {pageId}
    OBVIOUS
  <2>4. /\ IsFiniteSet(pinned') /\ Cardinality(pinned') \in Nat
        /\ Cardinality(pinned') <= Cardinality(rest) + 1
    BY <1>2, <2>2, <2>3, PinOne, FS_CardinalityType
  <2>5. Busy' /\ pageId' \in pinned' /\ pageId' \in DataPages'
    BY <1>2 DEF Busy
  <2>6. Cardinality(pinned') <= failures' + 1
    BY <2>1, <2>2, <2>3, <2>4
  <2>7. QED
    BY <2>4, <2>5, <2>6 DEF PinsInv
<1>5. IndexInv'
  <2>1. \A p \in DataPages : Len(pages[p]) \in Nat
    BY PageLengths
  <2>2. QED
    BY <1>2, <2>1, IndexKept
<1>6. QED
  BY <1>2, <1>3, <1>4, <1>5

\* The invariant is kept by a row stored on a new page.
LEMMA StoreOnNewPageInv == ASSUME Inv, NEW line \in Lines, StoreOnNewPage(line) PROVE Inv'
<1> USE DEF Inv
<1>1. /\ pc = "loading" /\ pageId \in DataPages /\ Fits(Room, line)
      /\ dirty' = dirty \cup {pageId}
      /\ NewPage(pinned \ {pageId}, <<line>>, Stored(line) + SlotSize)
      /\ counted' = Append(counted, [page |-> next, line |-> line])
      /\ pc' = (IF indexed THEN "indexing" ELSE "loading")
      /\ UNCHANGED <<index, indexed, failures>>
  BY DEF StoreOnNewPage, PageFull, Row, Count
<1>2. /\ Stored(line) \in Nat /\ Cost(line) \in Nat /\ Cost(line) = Stored(line) + SlotSize
      /\ LeastCost \in Nat /\ Room \in Nat /\ indexed \in BOOLEAN
  BY CostType, LoadSizesAssumption DEF Cost, TypeOK
<1>3. Cost(line) \in 0 .. Room /\ <<line>> \in Seq(Lines) /\ pinned \ {pageId} \in SUBSET pinned
  BY <1>1, <1>2 DEF Fits
<1>4. DataPages' = DataPages \cup {next}
  BY <1>1, <1>2, <1>3, NewPageEffect
<1>5. counted' \in Seq([page : DataPages', line : Lines])
  <2>1. counted \in Seq([page : DataPages', line : Lines])
    BY <1>4, CountedKept
  <2>2. [page |-> next, line |-> line] \in [page : DataPages', line : Lines]
    BY <1>4
  <2>3. QED
    BY <1>1, <2>1, <2>2
<1>6. /\ TypeOK' /\ PagesBelowNext' /\ PinsInv' /\ IndexInv'
      /\ pageId' \in DataPages' /\ pages'[pageId'] = <<line>> /\ free'[pageId'] = Room - Cost(line)
  BY <1>1, <1>2, <1>3, <1>5, TurnPage
<1>7. SpaceInv'
  <2>1. CASE indexed
    <3>1. pc' = "indexing" /\ indexed'
      BY <1>1, <2>1
    <3>2. Rows' = 1 /\ Cost(pages[pageId][Rows])' = Cost(line)
      BY <1>6 DEF Rows, Cost, Stored
    <3>3. (Rows' - 1) * LeastCost = 0
      BY <1>2, <3>2
    <3>4. (Rows' - 1) * LeastCost + Cost(line) + free'[pageId'] <= Room
      BY <1>2, <1>6, <3>3
    <3>5. QED
      BY <1>6, <3>1, <3>2, <3>4 DEF SpaceInv
  <2>2. CASE ~indexed
    BY <1>1, <2>2 DEF SpaceInv
  <2>3. QED
    BY <2>1, <2>2
<1>8. QED
  BY <1>6, <1>7

\* The invariant is kept by a line that fits in no page.
LEMMA SkipTooLongInv == ASSUME Inv, NEW line \in Lines, SkipTooLong(line) PROVE Inv'
<1> USE DEF Inv
<1>1. /\ pc = "loading" /\ pageId \in DataPages
      /\ dirty' = dirty \cup {pageId}
      /\ NewPage(pinned \ {pageId}, <<>>, 0)
      /\ UNCHANGED <<index, indexed, pc, counted, failures>>
  BY DEF SkipTooLong, PageFull, Row
<1>2. 0 \in 0 .. Room /\ <<>> \in Seq(Lines) /\ pinned \ {pageId} \in SUBSET pinned
      /\ Room \in Nat /\ LeastCost \in Nat
  BY LoadSizesAssumption DEF LeastCost
<1>3. DataPages' = DataPages \cup {next}
  BY <1>1, <1>2, NewPageEffect
<1>4. counted' \in Seq([page : DataPages', line : Lines])
  BY <1>1, <1>3, CountedKept
<1>5. /\ TypeOK' /\ PagesBelowNext' /\ PinsInv' /\ IndexInv'
      /\ pageId' \in DataPages' /\ pages'[pageId'] = <<>> /\ free'[pageId'] = Room - 0
  BY <1>1, <1>2, <1>4, TurnPage
<1>6. SpaceInv'
  <2>1. Rows' = 0 /\ free'[pageId'] = Room
    BY <1>2, <1>5 DEF Rows
  <2>2. Rows' * LeastCost = 0
    BY <1>2, <2>1
  <2>3. Rows' * LeastCost + free'[pageId'] <= Room
    BY <1>2, <2>1, <2>2
  <2>4. QED
    BY <1>1, <2>3 DEF SpaceInv
<1>7. QED
  BY <1>5, <1>6

\* Steps that leave pages and entries alone keep what is said of them.
LEMMA PagesLeft ==
    ASSUME Inv, pc # "closed", UNCHANGED <<pages, free, pageId, index>>,
           next' >= next, next' \in 1 .. MaxPages
    PROVE  DataPages' = DataPages /\ PagesBelowNext' /\ IndexInv'
<1> USE DEF Inv
<1>1. DataPages' = DataPages
  BY DEF DataPages
<1>2. PagesBelowNext'
  <2>1. ASSUME NEW p \in DataPages PROVE p < next'
    BY DEF PagesBelowNext, TypeOK
  <2>2. QED
    BY <1>1, <2>1 DEF PagesBelowNext
<1>3. IndexInv'
  BY <1>1, PageLengths, IndexKept
<1>4. QED
  BY <1>1, <1>2, <1>3

\* The invariant is kept when the page turned away from is the last of the file.
LEMMA NewPageThrowsInv == ASSUME Inv, NEW line \in Lines, NewPageThrows(line) PROVE Inv'
<1> USE DEF Inv
<1>1. /\ pc = "loading" /\ pageId \in DataPages /\ pc' = "threw" /\ failures' = failures + 1
      /\ dirty' = dirty \cup {pageId} /\ pinned' = pinned \ {pageId}
      /\ UNCHANGED <<pages, free, pageId, next, index, indexed, counted>>
  BY DEF NewPageThrows, PageFull, Row, Throw
<1>2. next \in 1 .. MaxPages /\ next <= next /\ failures \in Nat
  BY LoadSizesAssumption DEF TypeOK
<1>3. DataPages' = DataPages /\ PagesBelowNext' /\ IndexInv'
  BY <1>1, <1>2, PagesLeft
<1>4. TypeOK'
  BY <1>1, <1>2, <1>3 DEF TypeOK
<1>5. PinsInv'
  <2>1. /\ IsFiniteSet(pinned) /\ pageId \in pinned
        /\ Cardinality(pinned) \in Nat /\ Cardinality(pinned) <= failures + 1
    BY <1>1, PinsOfBusy DEF Busy
  <2>2. IsFiniteSet(pinned') /\ Cardinality(pinned') = Cardinality(pinned) - 1
    BY <1>1, <2>1, PinOne
  <2>3. Cardinality(pinned') <= failures'
    BY <1>1, <1>2, <2>1, <2>2
  <2>4. ~Busy' /\ failures' + 0 = failures'
    BY <1>1, <1>2 DEF Busy
  <2>5. QED
    BY <1>1, <2>2, <2>3, <2>4 DEF PinsInv
<1>6. SpaceInv'
  BY <1>1 DEF SpaceInv
<1>7. QED
  BY <1>3, <1>4, <1>5, <1>6

\* Nothing is said of the loader after it used a page or a field that is not there.
LEMMA UndefinedInv ==
    ASSUME Inv, pc \in {"loading", "indexing"}, pc' = "undefined",
           UNCHANGED <<pool, next, index, indexed, counted, failures>>
    PROVE  Inv'
<1> USE DEF Inv
<1>1. UNCHANGED <<pages, free, pinned, dirty, pageId, next, index, indexed, counted, failures>>
  BY DEF pool
<1>2. next \in 1 .. MaxPages /\ next' = next /\ next <= next
  BY <1>1, LoadSizesAssumption DEF TypeOK
<1>3. DataPages' = DataPages /\ PagesBelowNext' /\ IndexInv'
  BY <1>1, <1>2, PagesLeft
<1>4. TypeOK'
  BY <1>1, <1>3 DEF TypeOK
<1>5. PinsInv' /\ SpaceInv'
  BY <1>1 DEF PinsInv, SpaceInv, Busy
<1>6. QED
  BY <1>3, <1>4, <1>5

\* The rid of the row just stored names it: it is the last of its page, which has fewer than
\* RidBase.
LEMMA NewRow ==
    ASSUME Inv, pc = "indexing", NewKey \in Keys
    PROVE  /\ pageId \in DataPages /\ Rows * LeastCost + free[pageId] <= Room
           /\ NewRid \in Nat /\ RowNamed(NewRid, NewKey)
<1> USE DEF Inv
<1>1. /\ indexed /\ pageId \in DataPages /\ Rows > 0
      /\ (Rows - 1) * LeastCost + Cost(pages[pageId][Rows]) + free[pageId] <= Room
  BY DEF SpaceInv
<1>2. Rows \in Nat /\ pages[pageId] \in Seq(Lines)
  BY <1>1, PageLengths DEF Rows
<1>3. PICK line \in Lines : line = pages[pageId][Rows]
  BY <1>1, <1>2 DEF Rows
<1>4. /\ line.key \in Keys /\ NewKey = line.key
      /\ Cost(line) \in Nat /\ LeastCost \in Nat /\ Cost(line) >= LeastCost
  BY <1>3, CostType DEF NewKey, Rows
<1>5. free[pageId] \in Nat /\ Room \in Nat
  BY <1>1, LoadSizesAssumption DEF TypeOK
<1>6. Rows * LeastCost + free[pageId] <= Room /\ Rows * LeastCost <= Room
  <2> DEFINE before == (Rows - 1) * LeastCost
  <2>1. before \in Nat /\ Rows * LeastCost = before + LeastCost
    BY <1>1, <1>2, <1>4
  <2>2. before + Cost(line) + free[pageId] <= Room
    BY <1>1, <1>3
  <2> HIDE DEF before
  <2>3. before + LeastCost + free[pageId] <= Room /\ before + LeastCost <= Room
    BY <1>4, <1>5, <2>1, <2>2
  <2>4. QED
    BY <2>1, <2>3
<1>7. Rows < RidBase
  BY <1>2, <1>6, FewRows
<1>8. Rows - 1 \in 0 .. RidBase - 1 /\ pageId \in Nat
  <2>1. RidBase \in Nat
    BY LoadSizesAssumption
  <2>2. QED
    BY <1>1, <1>2, <1>7, <2>1 DEF TypeOK
<1>9. NewRid = Rid(pageId, Rows - 1)
  BY DEF NewRid, Rows
<1>10. NewRid \in Nat
  BY <1>8, <1>9, RidSplits
<1>11. RowNamed(NewRid, NewKey)
  <2>1. Rows - 1 < Len(pages[pageId]) /\ pages[pageId][(Rows - 1) + 1].key = NewKey
    BY <1>2, <1>3, <1>4 DEF Rows
  <2>2. QED
    BY <1>1, <1>8, <1>9, <2>1 DEF RowNamed
<1>12. QED
  BY <1>1, <1>6, <1>10, <1>11

\* The tree may take pages after those of the rows.
LEMMA PagesTaken ==
    ASSUME TypeOK, PagesBelowNext, UNCHANGED pages, next' \in next .. MaxPages
    PROVE  DataPages' = DataPages /\ PagesBelowNext' /\ next' \in 1 .. MaxPages
<1>1. DataPages' = DataPages
  BY DEF DataPages
<1>2. next \in Nat /\ next' \in 1 .. MaxPages /\ next' >= next
  BY LoadSizesAssumption DEF TypeOK
<1>3. ASSUME NEW p \in DataPages PROVE p < next'
  BY <1>2 DEF PagesBelowNext, TypeOK
<1>4. QED
  BY <1>1, <1>2, <1>3 DEF PagesBelowNext

\* The invariant is kept by an entry.
LEMMA IndexRowInv == ASSUME Inv, IndexRow PROVE Inv'
<1> USE DEF Inv
<1>1. /\ pc = "indexing" /\ NewKey \in Keys /\ pc' = "loading"
      /\ index' = [index EXCEPT ![NewKey] = NewRid]
      /\ next' \in next .. MaxPages
      /\ UNCHANGED <<pages, free, pinned, dirty, pageId, indexed, counted, failures>>
  BY DEF IndexRow, pool
<1>2. /\ pageId \in DataPages /\ Rows * LeastCost + free[pageId] <= Room
      /\ NewRid \in Nat /\ RowNamed(NewRid, NewKey)
  BY <1>1, NewRow
<1>3. DataPages' = DataPages /\ PagesBelowNext' /\ next' \in 1 .. MaxPages
  BY <1>1, PagesTaken
<1>4. TypeOK'
  <2>1. index' \in [Keys -> Nat \cup {NoRid}]
    BY <1>1, <1>2 DEF TypeOK
  <2>2. QED
    BY <1>1, <1>3, <2>1 DEF TypeOK
<1>5. PinsInv'
  <2>1. Busy /\ Busy' /\ pageId' \in DataPages'
    BY <1>1, <1>2, <1>3 DEF Busy
  <2>2. QED
    BY <1>1, <2>1 DEF PinsInv
<1>6. SpaceInv'
  BY <1>1, <1>2 DEF SpaceInv, Rows
<1>7. IndexInv'
  <2>1. ASSUME NEW k \in Keys, index'[k] # NoRid PROVE RowNamed(index'[k], k)
    <3>1. CASE k = NewKey
      BY <1>1, <1>2, <3>1 DEF TypeOK
    <3>2. CASE k # NewKey
      <4>1. index'[k] = index[k]
        BY <1>1, <3>2 DEF TypeOK
      <4>2. QED
        BY <1>1, <2>1, <4>1 DEF IndexInv
    <3>3. QED
      BY <3>1, <3>2
  <2>2. QED
    BY <1>1, <2>1, IndexOfSamePages
<1>8. QED
  BY <1>3, <1>4, <1>5, <1>6, <1>7

\* The invariant is kept by an exception of the index, or of stoi, with the page pinned.
LEMMA IndexExceptionInv == ASSUME Inv, IndexFull \/ IndexThrows PROVE Inv'
<1> USE DEF Inv
<1>1. /\ pc = "indexing" /\ pc' = "threw" /\ failures' = failures + 1
      /\ UNCHANGED <<pages, free, pinned, dirty, pageId, indexed, counted>>
  BY DEF IndexFull, IndexThrows, Throw, pool
<1>2. next' \in next .. MaxPages
  BY LoadSizesAssumption DEF IndexFull, IndexThrows, TypeOK
<1>3. /\ index' \in [Keys -> Nat \cup {NoRid}]
      /\ \A k \in Keys : index'[k] # NoRid => RowNamed(index'[k], k)
  <2>1. index \in [Keys -> Nat \cup {NoRid}]
        /\ \A k \in Keys : index[k] # NoRid => RowNamed(index[k], k)
    BY <1>1 DEF TypeOK, IndexInv
  <2>2. CASE IndexFull
    <3>1. /\ NewKey \in Keys
          /\ \E lost \in SUBSET Keys :
                 index' = [k \in Keys |-> IF k \in lost THEN NoRid
                                           ELSE IF k = NewKey THEN NewRid ELSE index[k]]
      BY <2>2 DEF IndexFull
    <3>2. NewRid \in Nat /\ RowNamed(NewRid, NewKey)
      BY <1>1, <3>1, NewRow
    <3>3. QED
      BY <2>1, <3>1, <3>2
  <2>3. CASE IndexThrows
    BY <2>1, <2>3 DEF IndexThrows
  <2>4. QED
    BY <2>2, <2>3
<1>4. DataPages' = DataPages /\ PagesBelowNext' /\ next' \in 1 .. MaxPages
  BY <1>1, <1>2, PagesTaken
<1>5. failures \in Nat /\ TypeOK'
  BY <1>1, <1>3, <1>4 DEF TypeOK
<1>6. PinsInv'
  <2>1. Busy /\ ~Busy'
    BY <1>1 DEF Busy, SpaceInv
  <2>2. IsFiniteSet(pinned) /\ Cardinality(pinned) <= failures + 1
    BY <2>1, PinsOfBusy
  <2>3. Cardinality(pinned') <= failures' + 0
    BY <1>1, <1>5, <2>2
  <2>4. QED
    BY <1>1, <2>1, <2>2, <2>3 DEF PinsInv
<1>7. SpaceInv'
  BY <1>1 DEF SpaceInv
<1>8. IndexInv'
  BY <1>1, <1>3, IndexOfSamePages
<1>9. QED
  BY <1>4, <1>5, <1>6, <1>7, <1>8

\* The invariant is kept by the end of a load, with a page or with a null page.
LEMMA EndOfFileInv == ASSUME Inv, EndOfFile PROVE Inv'
<1> USE DEF Inv
<1>1. /\ pc = "loading" /\ pc' = "idle"
      /\ dirty' = dirty \cup ({pageId} \cap DataPages) /\ pinned' = pinned \ {pageId}
      /\ UNCHANGED <<pages, free, pageId, next, index, indexed, counted, failures>>
  BY DEF EndOfFile
<1>2. next \in 1 .. MaxPages /\ next' = next /\ next <= next /\ failures \in Nat
  BY <1>1, LoadSizesAssumption DEF TypeOK
<1>3. DataPages' = DataPages /\ PagesBelowNext' /\ IndexInv'
  BY <1>1, <1>2, PagesLeft
<1>4. TypeOK'
  BY <1>1, <1>3 DEF TypeOK
<1>5. IsFiniteSet(pinned') /\ Cardinality(pinned') <= failures
  <2>1. CASE pageId \in DataPages
    <3>1. /\ IsFiniteSet(pinned) /\ pageId \in pinned
          /\ Cardinality(pinned) \in Nat /\ Cardinality(pinned) <= failures + 1
      BY <1>1, <2>1, PinsOfBusy DEF Busy
    <3>2. IsFiniteSet(pinned') /\ Cardinality(pinned') = Cardinality(pinned) - 1
      BY <1>1, <3>1, PinOne
    <3>3. QED
      BY <1>2, <3>1, <3>2
  <2>2. CASE pageId \notin DataPages
    <3>1. pinned' = pinned
      BY <1>1, <2>2 DEF TypeOK
    <3>2. ~Busy /\ pc \notin {"undefined", "closed"}
      BY <1>1, <2>2 DEF Busy
    <3>3. IsFiniteSet(pinned) /\ Cardinality(pinned) <= failures + 0
      BY <3>2 DEF PinsInv
    <3>4. QED
      BY <1>2, <3>1, <3>3, FS_CardinalityType
  <2>3. QED
    BY <2>1, <2>2
<1>6. PinsInv'
  <2>1. ~Busy' /\ failures' = failures /\ failures + 0 = failures
    BY <1>1, <1>2 DEF Busy
  <2>2. QED
    BY <1>1, <1>5, <2>1 DEF PinsInv
<1>7. SpaceInv'
  BY <1>1 DEF SpaceInv
<1>8. QED
  BY <1>3, <1>4, <1>6, <1>7

\* The invariant is kept by the destructors.
LEMMA CloseInv == ASSUME Inv, Close PROVE Inv'
<1> USE DEF Inv
<1>1. /\ pc' = "closed"
      /\ pages' = [p \in DataPages |-> IF p \in dirty THEN pages[p] ELSE <<>>]
      /\ UNCHANGED <<free, pinned, dirty, pageId, next, index, indexed, counted, failures>>
  BY DEF Close
<1>2. DataPages' = DataPages
  BY <1>1 DEF DataPages
<1>3. pages' \in [DataPages' -> Seq(Lines)]
  BY <1>1, <1>2, PageLengths
<1>4. TypeOK'
  BY <1>1, <1>2, <1>3 DEF TypeOK
<1>5. PinsInv'
  BY <1>1 DEF PinsInv, Busy
<1>6. PagesBelowNext' /\ SpaceInv' /\ IndexInv'
  BY <1>1, <1>2 DEF PagesBelowNext, SpaceInv, IndexInv
<1>7. QED
  BY <1>4, <1>5, <1>6

\* Each step keeps the invariant.
LEMMA NextInv == Inv /\ [Next]_vars => Inv'
<1> SUFFICES ASSUME Inv, [Next]_vars PROVE Inv'
  OBVIOUS
<1>1. CASE Start \/ StartThrows \/ StartNoFrame
  BY <1>1, StartInv, StartThrowsInv, StartNoFrameInv
<1>2. ASSUME NEW line \in Lines,
             RowNoFrame(line) \/ StoreRow(line) \/ StoreOnNewPage(line)
               \/ SkipTooLong(line) \/ NewPageThrows(line)
      PROVE  Inv'
  <2>1. CASE RowNoFrame(line)
    <3>1. /\ pc = "loading" /\ pc' = "undefined"
          /\ UNCHANGED <<pool, next, index, indexed, counted, failures>>
      BY <2>1 DEF RowNoFrame, Row
    <3>2. QED
      BY <3>1, UndefinedInv
  <2>2. CASE StoreRow(line)
    BY <2>2, StoreRowInv
  <2>3. CASE StoreOnNewPage(line)
    BY <2>3, StoreOnNewPageInv
  <2>4. CASE SkipTooLong(line)
    BY <2>4, SkipTooLongInv
  <2>5. CASE NewPageThrows(line)
    BY <2>5, NewPageThrowsInv
  <2>6. QED
    BY <1>2, <2>1, <2>2, <2>3, <2>4, <2>5
<1>3. CASE IndexRow
  BY <1>3, IndexRowInv
<1>4. CASE IndexFull \/ IndexThrows
  BY <1>4, IndexExceptionInv
<1>5. CASE IndexUndefined
  <2>1. /\ pc = "indexing" /\ pc' = "undefined"
        /\ UNCHANGED <<pool, next, index, indexed, counted, failures>>
    BY <1>5 DEF IndexUndefined
  <2>2. QED
    BY <2>1, UndefinedInv
<1>6. CASE EndOfFile
  BY <1>6, EndOfFileInv
<1>7. CASE Close
  BY <1>7, CloseInv
<1>8. CASE UNCHANGED vars
  BY <1>8 DEF vars, Inv, TypeOK, PagesBelowNext, PinsInv, SpaceInv, IndexInv, DataPages, Busy,
              Rows, RowNamed, Cost, Stored
<1>9. QED
  BY <1>1, <1>2, <1>3, <1>4, <1>5, <1>6, <1>7, <1>8 DEF Next

-----------------------------------------------------------------------------
(* The rows in the pages *)

\* Pages whose rows would not be written at the end: not marked dirty, and not the one that
\* the loader still has.
Unmarked == {p \in DataPages : p \notin dirty /\ pages[p] # <<>> /\ ~(Busy /\ p = pageId)}

\* A page holds its rows in the order of the history, which has none of other pages.
HoldsInv ==
    pc # "closed" => \A p \in Nat : IF p \in DataPages THEN Holds(p) ELSE RowsOf(p) = {}

\* There are no more such pages than loads were left by an exception.
UnmarkedInv ==
    pc \notin {"undefined", "closed"} => IsFiniteSet(Unmarked) /\ Cardinality(Unmarked) <= failures

\* At the end only they are empty; without an exception no entry lost its row.
ClosedInv ==
    pc = "closed" =>
        /\ Cardinality({p \in DataPages : ~Holds(p)}) <= failures
        /\ failures = 0 => \A k \in Keys : index[k] # NoRid => RowNamed(index[k], k)

RowsInv == HoldsInv /\ UnmarkedInv /\ ClosedInv

\* What is counted is a sequence of rows.
LEMMA CountedIsSeq ==
    ASSUME TypeOK
    PROVE  /\ DOMAIN counted = 1 .. Len(counted) /\ Len(counted) \in Nat
           /\ \A p : IsFiniteSet(RowsOf(p)) /\ RowsOf(p) \in SUBSET (1 .. Len(counted))
<1>1. DOMAIN counted = 1 .. Len(counted) /\ Len(counted) \in Nat
  BY LenProperties DEF TypeOK
<1>2. ASSUME NEW p PROVE RowsOf(p) \in SUBSET (1 .. Len(counted))
  BY <1>1 DEF RowsOf
<1>3. IsFiniteSet(1 .. Len(counted))
  BY <1>1, FS_Interval
<1>4. QED
  BY <1>1, <1>2, <1>3, FS_Subset

\* A row counted for a page and put at its end is where the history says.
LEMMA RowCounted ==
    ASSUME TypeOK, NEW p, NEW line \in Lines, NEW rows \in Seq(Lines),
           Len(rows) = Cardinality(RowsOf(p)),
           \A n \in RowsOf(p) : rows[Cardinality(UpTo(p, n))] = counted[n].line,
           counted' = Append(counted, [page |-> p, line |-> line]),
           pages'[p] = Append(rows, line)
    PROVE  Holds(p)'
<1> DEFINE L == Len(counted)
           e == [page |-> p, line |-> line]
           T == [page : DataPages, line : Lines] \cup {e}
<1>1. DOMAIN counted = 1 .. L /\ L \in Nat
      /\ IsFiniteSet(RowsOf(p)) /\ RowsOf(p) \in SUBSET (1 .. L)
  BY CountedIsSeq
<1>2. e \in T /\ e.page = p /\ e.line = line /\ counted \in Seq(T)
  BY SeqMonotonic DEF TypeOK
<1> HIDE DEF T, e
<1>3. /\ DOMAIN counted' = 1 .. L + 1 /\ counted'[L + 1] = e
      /\ \A n \in 1 .. L : counted'[n] = counted[n]
  BY <1>2, AppendProperties, LenProperties DEF e
<1> HIDE DEF L
<1>4. RowsOf(p)' = RowsOf(p) \cup {L + 1} /\ L + 1 \notin RowsOf(p)
  BY <1>1, <1>2, <1>3 DEF RowsOf
<1>5. Cardinality(RowsOf(p)') = Cardinality(RowsOf(p)) + 1 /\ Cardinality(RowsOf(p)) \in Nat
  BY <1>1, <1>4, FS_AddElement, FS_CardinalityType
<1>6. /\ Len(pages'[p]) = Len(rows) + 1 /\ pages'[p][Len(rows) + 1] = line
      /\ \A m \in 1 .. Len(rows) : pages'[p][m] = rows[m]
  BY AppendProperties
<1>7. ASSUME NEW n \in RowsOf(p)'
      PROVE  pages'[p][Cardinality(UpTo(p, n)')] = counted'[n].line
  <2>1. CASE n = L + 1
    <3>1. UpTo(p, n)' = RowsOf(p)'
      BY <1>1, <1>4, <2>1 DEF UpTo
    <3>2. QED
      BY <1>2, <1>3, <1>5, <1>6, <2>1, <3>1
  <2>2. CASE n # L + 1
    <3>1. n \in RowsOf(p) /\ n \in 1 .. L /\ ~(L + 1 <= n)
      BY <1>1, <1>4, <1>7, <2>2
    <3>2. UpTo(p, n)' = UpTo(p, n) /\ n \in UpTo(p, n) /\ UpTo(p, n) \in SUBSET RowsOf(p)
      BY <1>4, <3>1 DEF UpTo
    <3>3. /\ Cardinality(UpTo(p, n)) \in Nat /\ Cardinality(UpTo(p, n)) # 0
          /\ Cardinality(UpTo(p, n)) <= Cardinality(RowsOf(p))
      BY <1>1, <3>2, FS_Subset, FS_CardinalityType, FS_EmptySet
    <3>4. Cardinality(UpTo(p, n)) \in 1 .. Len(rows)
      BY <1>5, <3>3
    <3>5. QED
      BY <1>3, <1>6, <3>1, <3>2, <3>4
  <2>3. QED
    BY <2>1, <2>2
<1>8. QED
  BY <1>5, <1>6, <1>7 DEF Holds

\* Where neither the page nor the history of it changes, it holds its rows.
LEMMA HoldsKept ==
    ASSUME NEW p, pages'[p] = pages[p], Holds(p), RowsOf(p)' = RowsOf(p),
           \A n \in RowsOf(p) : counted'[n] = counted[n]
    PROVE  Holds(p)'
<1>1. \A n : UpTo(p, n)' = UpTo(p, n)
  BY DEF UpTo
<1>2. QED
  BY <1>1 DEF Holds

\* A row of one page is none of another.
LEMMA OtherRows ==
    ASSUME TypeOK, NEW q, NEW line,
           counted' = Append(counted, [page |-> q, line |-> line])
    PROVE  \A p : p # q => /\ RowsOf(p)' = RowsOf(p)
                           /\ \A n \in RowsOf(p) : counted'[n] = counted[n]
<1> DEFINE L == Len(counted)
           e == [page |-> q, line |-> line]
           T == [page : DataPages, line : Lines] \cup {e}
<1>1. DOMAIN counted = 1 .. L /\ L \in Nat
  BY CountedIsSeq
<1>2. e \in T /\ e.page = q /\ counted \in Seq(T)
  BY SeqMonotonic DEF TypeOK
<1> HIDE DEF T, e
<1>3. /\ DOMAIN counted' = 1 .. L + 1 /\ counted'[L + 1] = e
      /\ \A n \in 1 .. L : counted'[n] = counted[n]
  BY <1>2, AppendProperties, LenProperties DEF e
<1> HIDE DEF L
<1>4. QED
  BY <1>1, <1>2, <1>3 DEF RowsOf

\* Pages are not counted for before they are allocated: so a step that leaves the history
\* alone may add empty ones.
LEMMA HoldsSame ==
    ASSUME Inv, HoldsInv, pc # "closed", UNCHANGED counted,
           DataPages \subseteq DataPages',
           \A p \in DataPages : pages'[p] = pages[p],
           \A p \in DataPages' \ DataPages : pages'[p] = <<>>
    PROVE  HoldsInv'
<1>1. \A p : RowsOf(p)' = RowsOf(p)
  BY DEF RowsOf
<1>2. ASSUME NEW p \in DataPages PROVE Holds(p)'
  <2>1. Holds(p)
    BY DEF Inv, TypeOK, HoldsInv
  <2>2. QED
    BY <1>1, <2>1, HoldsKept
<1>3. ASSUME NEW p \in Nat, p \in DataPages' \ DataPages PROVE Holds(p)'
  <2>1. RowsOf(p)' = {} /\ pages'[p] = <<>>
    BY <1>1, <1>3 DEF HoldsInv
  <2>2. QED
    BY <2>1, FS_EmptySet DEF Holds
<1>4. QED
  BY <1>1, <1>2, <1>3 DEF HoldsInv

\* A step that leaves no further page unmarked.
LEMMA UnmarkedSame ==
    ASSUME Inv, UnmarkedInv, pc \notin {"undefined", "closed"},
           Unmarked' \subseteq Unmarked, failures' = failures \/ failures' = failures + 1
    PROVE  UnmarkedInv'
<1>1. failures \in Nat /\ IsFiniteSet(Unmarked) /\ Cardinality(Unmarked) <= failures
  BY DEF Inv, TypeOK, UnmarkedInv
<1>2. IsFiniteSet(Unmarked') /\ Cardinality(Unmarked') <= Cardinality(Unmarked)
      /\ Cardinality(Unmarked') \in Nat /\ Cardinality(Unmarked) \in Nat
  BY <1>1, FS_Subset, FS_CardinalityType
<1>3. QED
  BY <1>1, <1>2 DEF UnmarkedInv

\* A step that adds a page, if any, leaves the marks and is of a load, or starts one.
LEMMA UnmarkedTurned ==
    ASSUME Inv, UnmarkedInv, pc \notin {"undefined", "closed"}, failures' = failures,
           DataPages \subseteq DataPages', pages' \in [DataPages' -> Seq(Lines)],
           dirty' = dirty \cup (IF Busy THEN {pageId} ELSE {}),
           \A p \in DataPages : pages'[p] = pages[p],
           \A p \in DataPages' \ DataPages : Busy' /\ p = pageId'
    PROVE  UnmarkedInv'
<1>1. ASSUME NEW p \in DataPages', p \notin dirty', pages'[p] # <<>>, ~(Busy' /\ p = pageId')
      PROVE  p \in Unmarked
  BY <1>1 DEF Unmarked
<1>2. Unmarked' \subseteq Unmarked
  BY <1>1 DEF Unmarked
<1>3. QED
  BY <1>2, UnmarkedSame

\* The rows are where they were counted after a row was stored where there is room.
LEMMA StoreRowRows ==
    ASSUME Inv, RowsInv, NEW line \in Lines, StoreRow(line)
    PROVE  RowsInv'
<1> USE DEF Inv, RowsInv
<1>1. /\ pc = "loading" /\ pageId \in DataPages
      /\ pages' = [pages EXCEPT ![pageId] = Append(@, line)]
      /\ counted' = Append(counted, [page |-> pageId, line |-> line])
      /\ pc' \in {"indexing", "loading"}
      /\ UNCHANGED <<pinned, dirty, pageId, next, index, indexed, failures>>
  BY DEF StoreRow, Row, Count
<1>2. DataPages' = DataPages /\ pages \in [DataPages -> Seq(Lines)] /\ pageId \in Nat
  BY <1>1 DEF DataPages, TypeOK
<1>3. PICK q \in DataPages : q = pageId
  BY <1>1
<1>4. /\ \A p \in DataPages : p # q => pages'[p] = pages[p]
      /\ pages'[q] = Append(pages[q], line) /\ pages[q] \in Seq(Lines)
  BY <1>1, <1>2, <1>3
<1>5. \A p : p # q => /\ RowsOf(p)' = RowsOf(p)
                      /\ \A n \in RowsOf(p) : counted'[n] = counted[n]
  BY <1>1, <1>3, OtherRows
<1>6. \A p \in DataPages : p \in Nat /\ Holds(p)
  BY <1>1 DEF TypeOK, HoldsInv
<1>7. Holds(q)'
  <2>1. PICK rows \in Seq(Lines) : rows = pages[q]
    BY <1>4
  <2>2. /\ Len(rows) = Cardinality(RowsOf(q))
        /\ \A n \in RowsOf(q) : rows[Cardinality(UpTo(q, n))] = counted[n].line
    BY <1>6, <2>1 DEF Holds
  <2>3. QED
    BY <1>1, <1>3, <1>4, <2>1, <2>2, RowCounted
<1>8. ASSUME NEW p \in DataPages, p # q PROVE Holds(p)'
  BY <1>4, <1>5, <1>6, <1>8, HoldsKept
<1>9. HoldsInv'
  BY <1>1, <1>2, <1>5, <1>7, <1>8 DEF HoldsInv
<1>10. Unmarked' \subseteq Unmarked
  BY <1>1, <1>2, <1>3, <1>4 DEF Unmarked, Busy
<1>11. UnmarkedInv'
  BY <1>1, <1>10, UnmarkedSame
<1>12. QED
  BY <1>1, <1>9, <1>11 DEF ClosedInv

\* The same of one stored on a new page.
LEMMA StoreOnNewPageRows ==
    ASSUME Inv, RowsInv, NEW line \in Lines, StoreOnNewPage(line)
    PROVE  RowsInv'
<1> USE DEF Inv, RowsInv
<1>1. /\ pc = "loading" /\ pageId \in DataPages /\ Fits(Room, line)
      /\ dirty' = dirty \cup {pageId}
      /\ NewPage(pinned \ {pageId}, <<line>>, Stored(line) + SlotSize)
      /\ counted' = Append(counted, [page |-> next, line |-> line])
      /\ pc' \in {"indexing", "loading"}
      /\ UNCHANGED <<index, indexed, failures>>
  BY DEF StoreOnNewPage, PageFull, Row, Count
<1>2. /\ Stored(line) + SlotSize \in 0 .. Room
      /\ <<line>> \in Seq(Lines) /\ pinned \ {pageId} \in SUBSET pinned
  BY <1>1, CostType, LoadSizesAssumption DEF Cost, Fits
<1>3. PICK q : q = next
  OBVIOUS
<1>4. /\ q \notin DataPages /\ q \in Nat /\ pageId' = q
      /\ DataPages' = DataPages \cup {q} /\ pages'[q] = <<line>>
      /\ pages' \in [DataPages' -> Seq(Lines)]
      /\ \A p \in DataPages : pages'[p] = pages[p]
  <2>1. /\ next \notin DataPages /\ next \in 1 .. MaxPages - 1 /\ pageId' = next
        /\ DataPages' = DataPages \cup {next} /\ pages'[next] = <<line>>
        /\ pages' \in [DataPages' -> Seq(Lines)]
        /\ \A p \in DataPages : pages'[p] = pages[p]
    BY <1>1, <1>2, NewPageEffect
  <2>2. QED
    BY <1>3, <2>1, LoadSizesAssumption
<1>5. \A p : p # q => /\ RowsOf(p)' = RowsOf(p)
                      /\ \A n \in RowsOf(p) : counted'[n] = counted[n]
  BY <1>1, <1>3, OtherRows
<1>6. /\ \A p \in DataPages : p \in Nat /\ Holds(p)
      /\ RowsOf(q) = {}
  BY <1>1, <1>4 DEF TypeOK, HoldsInv
<1>7. Holds(q)'
  <2>1. <<>> \in Seq(Lines) /\ Len(<<>>) = Cardinality(RowsOf(q))
        /\ pages'[q] = Append(<<>>, line)
    BY <1>4, <1>6, FS_EmptySet
  <2>2. QED
    BY <1>1, <1>3, <1>6, <2>1, RowCounted
<1>8. ASSUME NEW p \in DataPages PROVE Holds(p)'
  BY <1>4, <1>5, <1>6, <1>8, HoldsKept
<1>9. HoldsInv'
  BY <1>1, <1>4, <1>5, <1>7, <1>8 DEF HoldsInv
<1>10. Busy /\ Busy'
  BY <1>1, <1>4 DEF Busy
<1>11. UnmarkedInv'
  BY <1>1, <1>4, <1>10, UnmarkedTurned
<1>12. QED
  BY <1>1, <1>9, <1>11 DEF ClosedInv

\* And of a page that is let go of for one that stays empty, or of the first page of a load.
LEMMA EmptyPageRows ==
    ASSUME Inv, RowsInv, Start \/ \E line \in Lines : SkipTooLong(line)
    PROVE  RowsInv'
<1> USE DEF Inv, RowsInv
<1>1. /\ pc \in {"idle", "threw", "loading"} /\ pc' = "loading"
      /\ dirty' = dirty \cup (IF Busy THEN {pageId} ELSE {})
      /\ UNCHANGED <<counted, failures>>
  BY DEF SkipTooLong, Start, PageFull, Row, Busy
<1>2. PICK pins \in SUBSET pinned : NewPage(pins, <<>>, 0)
  BY DEF SkipTooLong, Start
<1>3. 0 \in 0 .. Room /\ <<>> \in Seq(Lines)
  BY LoadSizesAssumption
<1>4. /\ DataPages' = DataPages \cup {next} /\ pages'[next] = <<>> /\ pageId' = next
      /\ pages' \in [DataPages' -> Seq(Lines)]
      /\ \A p \in DataPages : pages'[p] = pages[p]
  BY <1>2, <1>3, NewPageEffect
<1>5. HoldsInv'
  BY <1>1, <1>4, HoldsSame
<1>6. Busy'
  BY <1>1, <1>4 DEF Busy
<1>7. UnmarkedInv'
  BY <1>1, <1>4, <1>6, UnmarkedTurned
<1>8. QED
  BY <1>1, <1>5, <1>7 DEF ClosedInv

\* The pages are left as they are: the loader finds no page or no field, or is at its end.
LEMMA PagesLeftRows ==
    ASSUME Inv, RowsInv, UNCHANGED <<pages, counted>>, pc \notin {"undefined", "closed"},
           pc' # "closed", pc' # "undefined" => UnmarkedInv'
    PROVE  RowsInv'
<1>1. DataPages' = DataPages
  BY DEF DataPages
<1>2. HoldsInv'
  BY <1>1, HoldsSame DEF RowsInv
<1>3. UnmarkedInv'
  BY DEF UnmarkedInv
<1>4. QED
  BY <1>2, <1>3 DEF RowsInv, ClosedInv

\* An exception may leave one page more unmarked, the one the loader had.
LEMMA UnmarkedOne ==
    ASSUME Inv, UnmarkedInv, pc \notin {"undefined", "closed"},
           Unmarked' \subseteq Unmarked \cup {pageId}, failures' = failures + 1
    PROVE  UnmarkedInv'
<1>1. failures \in Nat /\ IsFiniteSet(Unmarked) /\ Cardinality(Unmarked) <= failures
  BY DEF Inv, TypeOK, UnmarkedInv
<1>2. PICK more : more = Unmarked \cup {pageId}
  OBVIOUS
<1>3. /\ IsFiniteSet(more) /\ Cardinality(more) <= Cardinality(Unmarked) + 1
      /\ Cardinality(Unmarked) \in Nat
  BY <1>1, <1>2, PinOne
<1>4. IsFiniteSet(Unmarked') /\ Cardinality(Unmarked') <= Cardinality(more)
      /\ Cardinality(Unmarked') \in Nat /\ Cardinality(more) \in Nat
  BY <1>2, <1>3, FS_Subset, FS_CardinalityType
<1>5. QED
  BY <1>1, <1>3, <1>4 DEF UnmarkedInv

\* The steps that leave the pages as they are.
LEMMA OtherRowsSteps ==
    ASSUME Inv, RowsInv, NEW line,
           \/ StartThrows \/ StartNoFrame \/ RowNoFrame(line) \/ NewPageThrows(line)
           \/ IndexRow \/ IndexFull \/ IndexThrows \/ IndexUndefined \/ EndOfFile
    PROVE  RowsInv'
<1> USE DEF RowsInv
<1>1. CASE StartThrows \/ StartNoFrame
  <2>1. /\ pc \in {"idle", "threw"} /\ pc' \in {"threw", "loading"}
        /\ UNCHANGED <<pages, dirty, counted, failures>>
    BY <1>1 DEF StartThrows, StartNoFrame, pool
  <2>2. Unmarked' \subseteq Unmarked
    BY <2>1 DEF Unmarked, Busy, DataPages
  <2>3. QED
    BY <2>1, <2>2, UnmarkedSame, PagesLeftRows
<1>2. CASE RowNoFrame(line) \/ IndexUndefined
  <2>1. /\ pc \in {"loading", "indexing"} /\ pc' = "undefined"
        /\ UNCHANGED <<pages, counted>>
    BY <1>2 DEF RowNoFrame, IndexUndefined, Row, pool
  <2>2. QED
    BY <2>1, PagesLeftRows
<1>3. CASE NewPageThrows(line)
  <2>1. /\ pc = "loading" /\ pageId \in DataPages /\ pc' = "threw" /\ failures' = failures + 1
        /\ dirty' = dirty \cup {pageId} /\ UNCHANGED <<pages, pageId, counted>>
    BY <1>3 DEF NewPageThrows, PageFull, Row, Throw
  <2>2. Unmarked' \subseteq Unmarked
    BY <2>1 DEF Unmarked, Busy, DataPages
  <2>3. QED
    BY <2>1, <2>2, UnmarkedSame, PagesLeftRows
<1>4. CASE IndexRow
  <2>1. /\ pc = "indexing" /\ pc' = "loading"
        /\ UNCHANGED <<pages, dirty, pageId, counted, failures>>
    BY <1>4 DEF IndexRow, pool
  <2>2. Unmarked' \subseteq Unmarked
    BY <2>1 DEF Unmarked, Busy, DataPages
  <2>3. QED
    BY <2>1, <2>2, UnmarkedSame, PagesLeftRows
<1>5. CASE IndexFull \/ IndexThrows
  <2>1. /\ pc = "indexing" /\ pc' = "threw" /\ failures' = failures + 1
        /\ UNCHANGED <<pages, dirty, pageId, counted>>
    BY <1>5 DEF IndexFull, IndexThrows, Throw, pool
  <2>2. Unmarked' \subseteq Unmarked \cup {pageId}
    BY <2>1 DEF Unmarked, Busy, DataPages
  <2>3. QED
    BY <2>1, <2>2, UnmarkedOne, PagesLeftRows
<1>6. CASE EndOfFile
  <2>1. /\ pc = "loading" /\ pc' = "idle"
        /\ dirty' = dirty \cup ({pageId} \cap DataPages)
        /\ UNCHANGED <<pages, pageId, counted, failures>>
    BY <1>6 DEF EndOfFile
  <2>2. Unmarked' \subseteq Unmarked
    BY <2>1 DEF Unmarked, Busy, DataPages
  <2>3. QED
    BY <2>1, <2>2, UnmarkedSame, PagesLeftRows
<1>7. QED
  BY <1>1, <1>2, <1>3, <1>4, <1>5, <1>6

\* The end of the session empties the pages that were not marked, which are those of loads
\* left by an exception; without any, each entry names a row that is in a page marked.
LEMMA CloseRows == ASSUME Inv, RowsInv, Close PROVE RowsInv'
<1> USE DEF Inv, RowsInv
<1>1. /\ pc \in {"idle", "threw"} /\ pc' = "closed"
      /\ pages' = [p \in DataPages |-> IF p \in dirty THEN pages[p] ELSE <<>>]
      /\ UNCHANGED <<dirty, index, counted, failures>>
  BY DEF Close
<1>2. DataPages' = DataPages /\ ~Busy /\ failures \in Nat
  BY <1>1 DEF DataPages, Busy, TypeOK
<1>3. IsFiniteSet(Unmarked) /\ Cardinality(Unmarked) <= failures /\ Cardinality(Unmarked) \in Nat
  BY <1>1, FS_CardinalityType DEF UnmarkedInv
<1>4. \A p \in DataPages : p \notin Unmarked => pages'[p] = pages[p]
  BY <1>1, <1>2 DEF Unmarked
<1>5. ASSUME NEW p \in DataPages, ~Holds(p)' PROVE p \in Unmarked
  <2>1. Holds(p) /\ RowsOf(p)' = RowsOf(p)
    BY <1>1 DEF HoldsInv, TypeOK, RowsOf
  <2>2. QED
    BY <1>1, <1>4, <1>5, <2>1, HoldsKept
<1>6. Cardinality({p \in DataPages : ~Holds(p)}') <= failures'
  <2>1. {p \in DataPages : ~Holds(p)}' \subseteq Unmarked
    BY <1>2, <1>5
  <2>2. PICK lost : lost = {p \in DataPages : ~Holds(p)}'
    OBVIOUS
  <2>3. Cardinality(lost) <= Cardinality(Unmarked) /\ Cardinality(lost) \in Nat
    BY <1>3, <2>1, <2>2, FS_Subset, FS_CardinalityType
  <2>4. QED
    BY <1>1, <1>2, <1>3, <2>2, <2>3
<1>7. ASSUME failures = 0, NEW k \in Keys, index[k] # NoRid PROVE RowNamed(index[k], k)'
  <2>1. PICK p \in DataPages, slot \in 0 .. RidBase - 1 :
            /\ index[k] = Rid(p, slot)
            /\ slot < Len(pages[p]) /\ pages[p][slot + 1].key = k
    BY <1>1, <1>7 DEF IndexInv, RowNamed
  <2>2. Unmarked = {}
    BY <1>3, <1>7, FS_EmptySet
  <2>3. pages'[p] = pages[p]
    BY <1>4, <2>2
  <2>4. QED
    BY <1>1, <1>2, <2>1, <2>3 DEF RowNamed, Rid
<1>8. ClosedInv'
  BY <1>1, <1>6, <1>7 DEF ClosedInv, RowNamed
<1>9. QED
  BY <1>1, <1>8 DEF HoldsInv, UnmarkedInv

\* Each step keeps what is said of the rows.
LEMMA NextRows == Inv /\ RowsInv /\ [Next]_vars => RowsInv'
<1> SUFFICES ASSUME Inv, RowsInv, [Next]_vars PROVE RowsInv'
  OBVIOUS
<1>1. ASSUME NEW line \in Lines,
             \/ RowNoFrame(line) \/ StoreRow(line) \/ StoreOnNewPage(line)
             \/ SkipTooLong(line) \/ NewPageThrows(line)
      PROVE  RowsInv'
  BY <1>1, StoreRowRows, StoreOnNewPageRows, EmptyPageRows, OtherRowsSteps
<1>2. CASE \/ Start \/ StartThrows \/ StartNoFrame \/ IndexRow \/ IndexFull \/ IndexThrows
           \/ IndexUndefined \/ EndOfFile
  BY <1>2, EmptyPageRows, OtherRowsSteps
<1>3. CASE Close
  BY <1>3, CloseRows
<1>4. CASE UNCHANGED vars
  BY <1>4 DEF vars, RowsInv, HoldsInv, UnmarkedInv, ClosedInv, Unmarked, Busy, DataPages, Holds,
              RowsOf, UpTo, RowNamed
<1>5. QED
  BY <1>1, <1>2, <1>3, <1>4 DEF Next

-----------------------------------------------------------------------------
(* The theorems *)

\* Space, pins and entries agree at each moment of any sequence of loads, with an index or
\* without, to their end or cut by an exception.
THEOREM Invariance == Spec => []Inv
<1>1. QED
  BY InitInv, NextInv, PTL DEF Spec

\* Every variable keeps its type: no page has less than no bytes left, and the pages are
\* those of the file.
THEOREM TypeCorrect == Spec => []TypeOK
<1>1. Inv => TypeOK
  BY DEF Inv
<1>2. QED
  BY Invariance, <1>1, PTL

\* A row id of the index, taken apart with / and % as IndexScanOperator does, names a row
\* with the key it was entered for.
THEOREM RidsCorrect == Spec => []IndexNamesRows
<1>1. ASSUME Inv, pc # "closed", NEW k \in Keys, index[k] # NoRid
      PROVE  /\ PageOf(index[k]) \in DataPages
             /\ SlotOf(index[k]) < Len(pages[PageOf(index[k])])
             /\ pages[PageOf(index[k])][SlotOf(index[k]) + 1].key = k
  <2>1. PICK p \in DataPages, slot \in 0 .. RidBase - 1 :
            /\ index[k] = Rid(p, slot)
            /\ slot < Len(pages[p]) /\ pages[p][slot + 1].key = k
    BY <1>1 DEF Inv, IndexInv, RowNamed
  <2>2. p \in Nat
    BY <1>1 DEF Inv, TypeOK
  <2>3. PageOf(index[k]) = p /\ SlotOf(index[k]) = slot
    BY <2>1, <2>2, RidSplits
  <2>4. QED
    BY <2>1, <2>3
<1>2. Inv => IndexNamesRows
  BY <1>1 DEF IndexNamesRows
<1>3. QED
  BY Invariance, <1>2, PTL

\* newPage gives the loader a null page only after as many loads have been left by an
\* exception as the pool has frames.
THEOREM NullPageCorrect == Spec => []NullPageOnlyAfterThrows
<1>1. Inv => NullPageOnlyAfterThrows
  BY DEF Inv, PinsInv, NullPageOnlyAfterThrows
<1>2. QED
  BY Invariance, <1>1, PTL

\* Pages hold the rows counted for them, and those whose rows may be lost are no more than the
\* loads left by an exception.
THEOREM RowsInvariance == Spec => []RowsInv
<1>1. ASSUME Init PROVE RowsInv
  <2>1. /\ pc = "idle" /\ counted = <<>> /\ failures = 0 /\ DataPages = {} /\ ~Busy
    BY <1>1 DEF Init, DataPages, Busy
  <2>2. HoldsInv
    BY <2>1 DEF HoldsInv, RowsOf
  <2>3. Unmarked = {}
    BY <2>1 DEF Unmarked
  <2>4. QED
    BY <2>1, <2>2, <2>3, FS_EmptySet DEF RowsInv, UnmarkedInv, ClosedInv
<1>2. QED
  BY <1>1, NextRows, Invariance, PTL DEF Spec

\* A page holds the rows counted for it, each where it was put; after the session the pages
\* that lost theirs are no more than the loads left by an exception.
THEOREM RowsCorrect == Spec => []RowsStored
<1>1. ASSUME Inv, RowsInv PROVE RowsStored
  <2>1. pc # "closed" => \A p \in DataPages : Holds(p)
    BY <1>1 DEF RowsInv, HoldsInv, Inv, TypeOK
  <2>2. CASE pc = "closed"
    BY <1>1, <2>2 DEF RowsInv, ClosedInv, RowsStored
  <2>3. CASE pc # "closed"
    <3>1. {p \in DataPages : ~Holds(p)} = {} /\ failures \in Nat
      BY <1>1, <2>1, <2>3 DEF Inv, TypeOK
    <3>2. QED
      BY <2>1, <3>1, FS_EmptySet DEF RowsStored
  <2>4. QED
    BY <2>2, <2>3
<1>2. QED
  BY <1>1, Invariance, RowsInvariance, PTL

\* If no load was left by an exception, what the index names can be read in the session and
\* in the next one.
THEOREM ReadableCorrect == Spec => []IndexedRowsReadable
<1>1. ASSUME Inv, RowsInv, failures = 0, NEW k \in Keys, index[k] # NoRid
      PROVE  SlotOf(index[k]) < Len(pages[PageOf(index[k])])
  <2>1. RowNamed(index[k], k)
    BY <1>1 DEF Inv, IndexInv, RowsInv, ClosedInv
  <2>2. PICK p \in DataPages, slot \in 0 .. RidBase - 1 :
            index[k] = Rid(p, slot) /\ slot < Len(pages[p])
    BY <2>1 DEF RowNamed
  <2>3. p \in Nat
    BY <1>1 DEF Inv, TypeOK
  <2>4. PageOf(index[k]) = p /\ SlotOf(index[k]) = slot
    BY <2>2, <2>3, RidSplits
  <2>5. QED
    BY <2>2, <2>4
<1>2. Inv /\ RowsInv => IndexedRowsReadable
  BY <1>1 DEF IndexedRowsReadable
<1>3. QED
  BY <1>2, Invariance, RowsInvariance, PTL

-----------------------------------------------------------------------------
(* QueryParser *)

Statement == [select_columns : Seq(Tokens), from_table : Seq(Tokens),
              where_clause : Seq(Tokens), order_by : Seq(Tokens)]
Ended == {"accepted", "truncated", "error"}
Places == {"start", "columns", "table", "from read", "where", "where read",
           "order", "by", "order read", "read"} \cup Ended

ParserTypeInv == tokens \in Seq(Tokens) /\ at \in Places /\ stmt \in Statement

\* s lists columns up to its first FROM, which stands at f.
Heads(s, f) ==
    /\ f \in Nat /\ 2 < f /\ f <= Len(s)
    /\ s[1] = "SELECT" /\ s[f] = "FROM"
    /\ \A k \in 2 .. f - 1 : s[k] # "FROM"

\* Where FROM stands in the text of the statement st, and where ORDER does.
FromAt(st) == Len(st.select_columns) + 2
OrderAt(st) == FromAt(st) + 2 + (IF st.where_clause = <<>> THEN 0 ELSE 4)

\* What has been read of a text s into the statement st: its columns, its table, its
\* condition if it has one, and all of its order but the direction.
ColumnsRead(s, st) ==
    /\ Len(s) > Len(st.select_columns) /\ s[1] = "SELECT"
    /\ \A k \in 1 .. Len(st.select_columns) :
          s[k + 1] = st.select_columns[k] /\ st.select_columns[k] # "FROM"
FromRead(s, st) == ColumnsRead(s, st) /\ Heads(s, FromAt(st))
TableRead(s, st) ==
    FromRead(s, st) /\ Len(s) > FromAt(st) /\ st.from_table = <<s[FromAt(st) + 1]>>
WhereRead(s, st) ==
    \/ st.where_clause = <<>>
    \/ /\ Len(s) >= FromAt(st) + 5
       /\ s[FromAt(st) + 2] = "WHERE"
       /\ st.where_clause = <<s[FromAt(st) + 3], s[FromAt(st) + 4], s[FromAt(st) + 5]>>
OrderRead(s, st) ==
    /\ TableRead(s, st) /\ WhereRead(s, st)
    /\ Len(s) >= OrderAt(st) /\ s[OrderAt(st)] = "ORDER"
ByRead(s, st) == OrderRead(s, st) /\ Len(s) > OrderAt(st) /\ s[OrderAt(st) + 1] = "BY"

\* What has been read of the text s at each place.
AtStart(s, st) == s = <<>> /\ st = Empty
AtColumns(s, st) ==
    /\ ColumnsRead(s, st) /\ Len(s) = Len(st.select_columns) + 1
    /\ st.from_table = <<>> /\ st.where_clause = <<>> /\ st.order_by = <<>>
AtTable(s, st) ==
    /\ FromRead(s, st) /\ Len(s) = FromAt(st)
    /\ st.from_table = <<>> /\ st.where_clause = <<>> /\ st.order_by = <<>>
AtFromRead(s, st) ==
    /\ TableRead(s, st) /\ Len(s) = FromAt(st) + 1
    /\ st.where_clause = <<>> /\ st.order_by = <<>>
AtWhere(s, st) ==
    /\ TableRead(s, st) /\ Len(s) = FromAt(st) + 2 + Len(st.where_clause)
    /\ Len(st.where_clause) < 3 /\ st.order_by = <<>>
    /\ s[FromAt(st) + 2] = "WHERE"
    /\ \A k \in 1 .. Len(st.where_clause) : st.where_clause[k] = s[FromAt(st) + 2 + k]
AtWhereRead(s, st) ==
    /\ TableRead(s, st) /\ WhereRead(s, st) /\ st.where_clause # <<>>
    /\ Len(s) = FromAt(st) + 5 /\ st.order_by = <<>>
AtOrder(s, st) == OrderRead(s, st) /\ Len(s) = OrderAt(st) /\ st.order_by = <<>>
AtBy(s, st) == ByRead(s, st) /\ Len(s) = OrderAt(st) + 1 /\ st.order_by = <<>>
AtOrderRead(s, st) ==
    /\ ByRead(s, st) /\ Len(s) = OrderAt(st) + 2
    /\ st.order_by = <<s[OrderAt(st) + 2], "ASC">>
AtRead(s, st) ==
    /\ ByRead(s, st) /\ Len(s) = OrderAt(st) + 3
    /\ s[OrderAt(st) + 3] \in {"ASC", "DESC"}
    /\ st.order_by = <<s[OrderAt(st) + 2], s[OrderAt(st) + 3]>>

\* The text s is what the parser has read when it stands at p with the statement st.
Layout(p, s, st) ==
    /\ p = "start" => AtStart(s, st)
    /\ p = "columns" => AtColumns(s, st)
    /\ p = "table" => AtTable(s, st)
    /\ p = "from read" => AtFromRead(s, st)
    /\ p = "where" => AtWhere(s, st)
    /\ p = "where read" => AtWhereRead(s, st)
    /\ p = "order" => AtOrder(s, st)
    /\ p = "by" => AtBy(s, st)
    /\ p = "order read" => AtOrderRead(s, st)
    /\ p = "read" => AtRead(s, st)
LayoutInv == Layout(at, tokens, stmt)

\* The inductive invariant.
ParserInv == ParserTypeInv /\ LayoutInv /\ AcceptsTheGrammar /\ StatementSaysTheText

-----------------------------------------------------------------------------
\* Some name is no keyword.
LEMMA NameIsToken == Name \in Tokens /\ Name \notin Keywords
  BY NamesAssumption DEF Name, Tokens

\* The keywords and the ways to go on are sequences of tokens.
LEMMA EndingsType == Endings \subseteq Seq(Tokens)
  BY NameIsToken DEF Endings, Tokens, Keywords

\* A text that goes on still has its first FROM where it had it.
LEMMA HeadsGoesOn ==
  ASSUME NEW s \in Seq(Tokens), NEW e \in Seq(Tokens), NEW f, Heads(s, f)
  PROVE  Heads(s \o e, f)
  BY ConcatProperties DEF Heads

\* Where FROM stands first is where the grammar has it.
LEMMA FromStands ==
  ASSUME NEW q \in Seq(Tokens), NEW f, Heads(q, f),
         NEW w \in {0, 4}, NEW o \in {0, 3, 4}, Matches(q, w, o)
  PROVE  Len(q) = f + 1 + w + o
  <1> DEFINE g == Len(q) - 1 - w - o
  <1>1. g \in Int /\ g > 2 /\ g < Len(q)
    BY DEF Matches
  <1>2. q[g] = "FROM" /\ \A k \in 2 .. g - 1 : q[k] # "FROM"
    BY DEF Matches
  <1>3. ~(f < g)
    BY <1>1, <1>2 DEF Heads
  <1>4. ~(g < f)
    BY <1>1, <1>2 DEF Heads
  <1> QED
    BY <1>1, <1>3, <1>4 DEF Heads

\* What the grammar says of a text whose first FROM stands at f.
LEMMA AfterFrom ==
  ASSUME NEW q \in Seq(Tokens), NEW f, Heads(q, f), IsQuery(q)
  PROVE  \E w \in {0, 4}, o \in {0, 3, 4} :
            /\ Len(q) = f + 1 + w + o
            /\ w = 4 => q[f + 2] = "WHERE"
            /\ o > 0 => q[f + 2 + w] = "ORDER" /\ q[f + 3 + w] = "BY"
            /\ o = 4 => q[f + 5 + w] \in {"ASC", "DESC"}
  <1>1. PICK w \in {0, 4}, o \in {0, 3, 4} : Matches(q, w, o)
    BY DEF IsQuery
  <1>2. Len(q) = f + 1 + w + o
    BY <1>1, FromStands
  <1>3. Len(q) - 1 - w - o = f /\ f \in Nat
    BY <1>2 DEF Heads
  <1>4. o = 4 => Len(q) = f + 5 + w
    BY <1>2, <1>3
  <1> QED
    BY <1>1, <1>2, <1>3, <1>4 DEF Matches, Last

\* A text with its first FROM at f is a query if it ends with its table,
LEMMA QueryWithTable ==
  ASSUME NEW q \in Seq(Tokens), NEW f, Heads(q, f), Len(q) = f + 1
  PROVE  IsQuery(q)
  <1>1. Matches(q, 0, 0)
    BY DEF Matches, Heads
  <1> QED
    BY <1>1 DEF IsQuery

\* or with a condition,
LEMMA QueryWithCondition ==
  ASSUME NEW q \in Seq(Tokens), NEW f, Heads(q, f), Len(q) = f + 5, q[f + 2] = "WHERE"
  PROVE  IsQuery(q)
  <1>1. Matches(q, 4, 0)
    BY DEF Matches, Heads
  <1> QED
    BY <1>1 DEF IsQuery

\* or with an order, which may name a direction.
LEMMA QueryWithOrder ==
  ASSUME NEW q \in Seq(Tokens), NEW f, Heads(q, f), NEW v \in {0, 4},
         v = 4 => q[f + 2] = "WHERE", q[f + 2 + v] = "ORDER", q[f + 3 + v] = "BY",
         \/ Len(q) = f + 4 + v
         \/ Len(q) = f + 5 + v /\ q[f + 5 + v] \in {"ASC", "DESC"}
  PROVE  IsQuery(q)
  <1>1. CASE Len(q) = f + 4 + v
    <2>1. Len(q) - 1 - v - 3 = f /\ f \in Nat
      BY <1>1 DEF Heads
    <2>2. Matches(q, v, 3)
      BY <2>1 DEF Matches, Heads
    <2> QED
      BY <2>2 DEF IsQuery
  <1>2. CASE Len(q) = f + 5 + v /\ q[f + 5 + v] \in {"ASC", "DESC"}
    <2>1. Len(q) - 1 - v - 4 = f /\ f \in Nat
      BY <1>2 DEF Heads
    <2>2. Matches(q, v, 4)
      BY <1>2, <2>1 DEF Matches, Heads, Last
    <2> QED
      BY <2>2 DEF IsQuery
  <1> QED
    BY <1>1, <1>2

-----------------------------------------------------------------------------
(* After a token that does not fit, no text is a query. *)

\* A text that goes on with t and an ending has s and t where they were.
LEMMA GoesOn ==
  ASSUME NEW s \in Seq(Tokens), NEW t \in Tokens, NEW e \in Endings
  PROVE  LET q == Append(s, t) \o e IN
         /\ q \in Seq(Tokens)
         /\ Len(q) > Len(s) /\ q[Len(s) + 1] = t
         /\ \A k \in 1 .. Len(s) : q[k] = s[k]
         /\ \A f : Heads(s, f) => Heads(q, f)
  <1>1. Append(s, t) \in Seq(Tokens) /\ e \in Seq(Tokens)
    BY EndingsType
  <1>2. \A f : Heads(s, f) => Heads(Append(s, t), f)
    BY DEF Heads
  <1>3. \A f : Heads(s, f) => Heads(Append(s, t) \o e, f)
    BY <1>1, <1>2, HeadsGoesOn
  <1> QED
    BY <1>1, <1>3, ConcatProperties

\* Nothing but SELECT begins a query.
LEMMA StartFails ==
  ASSUME NEW t \in Tokens \ {"SELECT"}
  PROVE  ~Viable(Append(<<>>, t))
  <1> SUFFICES ASSUME NEW e \in Endings, IsQuery(Append(<<>>, t) \o e)
               PROVE  FALSE
    BY DEF Viable
  <1> DEFINE q == Append(<<>>, t) \o e
  <1>1. <<>> \in Seq(Tokens) /\ Len(<<>>) = 0
    BY EmptySeq
  <1>2. q[1] = t
    BY <1>1, GoesOn
  <1> QED
    BY <1>2 DEF IsQuery, Matches

\* A query lists a column before FROM.
LEMMA NoColumnFails ==
  ASSUME NEW s \in Seq(Tokens), Len(s) = 1
  PROVE  ~Viable(Append(s, "FROM"))
  <1> SUFFICES ASSUME NEW e \in Endings, IsQuery(Append(s, "FROM") \o e)
               PROVE  FALSE
    BY DEF Viable
  <1> DEFINE q == Append(s, "FROM") \o e
  <1>1. "FROM" \in Tokens
    BY DEF Tokens, Keywords
  <1>2. q \in Seq(Tokens) /\ q[2] = "FROM"
    BY <1>1, GoesOn
  <1>3. PICK w \in {0, 4}, o \in {0, 3, 4} : Matches(q, w, o)
    BY DEF IsQuery
  <1> DEFINE f == Len(q) - 1 - w - o
  <1>4. f \in Int /\ f > 2 /\ \A k \in 2 .. f - 1 : q[k] # "FROM"
    BY <1>2, <1>3 DEF Matches
  <1> QED
    BY <1>2, <1>4

\* The table is followed by WHERE, by ORDER or by nothing.
LEMMA AfterTableFails ==
  ASSUME NEW s \in Seq(Tokens), NEW f, Heads(s, f), Len(s) = f + 1,
         NEW t \in Tokens \ {"WHERE", "ORDER"}
  PROVE  ~Viable(Append(s, t))
  <1> SUFFICES ASSUME NEW e \in Endings, IsQuery(Append(s, t) \o e)
               PROVE  FALSE
    BY DEF Viable
  <1> DEFINE q == Append(s, t) \o e
  <1>0. f \in Nat
    BY DEF Heads
  <1>1. q \in Seq(Tokens) /\ Len(q) > f + 1 /\ q[f + 2] = t /\ Heads(q, f)
    BY <1>0, GoesOn
  <1> HIDE DEF q
  <1>2. PICK w \in {0, 4}, o \in {0, 3, 4} :
            /\ Len(q) = f + 1 + w + o
            /\ w = 4 => q[f + 2] = "WHERE"
            /\ o > 0 => q[f + 2 + w] = "ORDER" /\ q[f + 3 + w] = "BY"
            /\ o = 4 => q[f + 5 + w] \in {"ASC", "DESC"}
    BY <1>1, AfterFrom DEF q
  <1> QED
    BY <1>0, <1>1, <1>2

\* The condition is followed by ORDER or by nothing.
LEMMA AfterWhereFails ==
  ASSUME NEW s \in Seq(Tokens), NEW f, Heads(s, f), Len(s) = f + 5, s[f + 2] = "WHERE",
         NEW t \in Tokens \ {"ORDER"}
  PROVE  ~Viable(Append(s, t))
  <1> SUFFICES ASSUME NEW e \in Endings, IsQuery(Append(s, t) \o e)
               PROVE  FALSE
    BY DEF Viable
  <1> DEFINE q == Append(s, t) \o e
  <1>0. f \in Nat
    BY DEF Heads
  <1>1. /\ q \in Seq(Tokens) /\ Len(q) > f + 5 /\ q[f + 6] = t /\ Heads(q, f)
        /\ q[f + 2] = "WHERE"
    BY <1>0, GoesOn
  <1> HIDE DEF q
  <1>2. PICK w \in {0, 4}, o \in {0, 3, 4} :
            /\ Len(q) = f + 1 + w + o
            /\ w = 4 => q[f + 2] = "WHERE"
            /\ o > 0 => q[f + 2 + w] = "ORDER" /\ q[f + 3 + w] = "BY"
            /\ o = 4 => q[f + 5 + w] \in {"ASC", "DESC"}
    BY <1>1, AfterFrom DEF q
  <1> QED
    BY <1>0, <1>1, <1>2

\* ORDER is followed by BY, a column, and one direction at most.
LEMMA AfterOrderFails ==
  ASSUME NEW s \in Seq(Tokens), NEW f, Heads(s, f), NEW v \in {0, 4}, Len(s) >= f + 2 + v,
         s[f + 2 + v] = "ORDER", v = 4 => s[f + 2] = "WHERE", NEW t \in Tokens,
         \/ Len(s) = f + 2 + v /\ t # "BY"
         \/ Len(s) = f + 4 + v /\ t \notin {"ASC", "DESC"}
         \/ Len(s) = f + 5 + v
  PROVE  ~Viable(Append(s, t))
  <1> SUFFICES ASSUME NEW e \in Endings, IsQuery(Append(s, t) \o e)
               PROVE  FALSE
    BY DEF Viable
  <1> DEFINE q == Append(s, t) \o e
  <1>0. f \in Nat
    BY DEF Heads
  <1>1. /\ q \in Seq(Tokens) /\ Len(q) > Len(s) /\ q[Len(s) + 1] = t /\ Heads(q, f)
        /\ \A k \in 1 .. Len(s) : q[k] = s[k]
    BY GoesOn
  <1>2. q[f + 2 + v] = "ORDER" /\ (v = 4 => q[f + 2] = "WHERE")
    BY <1>0, <1>1
  <1> HIDE DEF q
  <1>3. PICK w \in {0, 4}, o \in {0, 3, 4} :
            /\ Len(q) = f + 1 + w + o
            /\ w = 4 => q[f + 2] = "WHERE"
            /\ o > 0 => q[f + 2 + w] = "ORDER" /\ q[f + 3 + w] = "BY"
            /\ o = 4 => q[f + 5 + w] \in {"ASC", "DESC"}
    BY <1>1, AfterFrom DEF q
  <1>4. w = v
    BY <1>0, <1>1, <1>2, <1>3
  <1> QED
    BY <1>0, <1>1, <1>3, <1>4

-----------------------------------------------------------------------------
(* Where the text may go on, some ending makes it a query; and where it may not end, it is *)
(* not one yet. *)

\* A query goes on to itself.
LEMMA QueryIsViable ==
  ASSUME NEW s \in Seq(Tokens), IsQuery(s)
  PROVE  Viable(s)
  <1>1. s \o <<>> = s
    BY ConcatEmptySeq
  <1> QED
    BY <1>1 DEF Viable, Endings

\* Before FROM no text is a query, and each can become one.
LEMMA BeforeFrom ==
  ASSUME NEW s \in Seq(Tokens), Len(s) > 0 => s[1] = "SELECT",
         \A k \in 2 .. Len(s) : s[k] # "FROM"
  PROVE  Viable(s) /\ ~IsQuery(s)
  <1>1. ~IsQuery(s)
    <2> SUFFICES ASSUME NEW w \in {0, 4}, NEW o \in {0, 3, 4}, Matches(s, w, o)
                 PROVE  FALSE
      BY DEF IsQuery
    <2>1. Len(s) - 1 - w - o > 2 /\ s[Len(s) - 1 - w - o] = "FROM"
      BY DEF Matches
    <2> QED
      BY <2>1
  <1>2. CASE Len(s) = 0
    <2> DEFINE e == <<"SELECT", Name, "FROM", Name>>
    <2>1. s \o e = e
      BY <1>2, NameIsToken, EndingsType, EmptySeq, ConcatEmptySeq DEF Endings
    <2>2. Heads(e, 3) /\ e \in Seq(Tokens) /\ Len(e) = 4
      BY NameIsToken, EndingsType DEF Heads, Endings, Keywords
    <2>3. IsQuery(e)
      <3> HIDE DEF e
      <3>1. Len(e) = 3 + 1
        BY <2>2
      <3> QED
        BY <2>2, <3>1, QueryWithTable
    <2> QED
      BY <1>1, <2>1, <2>3 DEF Viable, Endings
  <1>3. CASE Len(s) = 1
    <2> DEFINE e == <<Name, "FROM", Name>>
    <2>0. e \in Seq(Tokens) /\ Len(e) = 3
      BY EndingsType DEF Endings
    <2>1. s \o e \in Seq(Tokens) /\ Len(s \o e) = 3 + 1
      <3> HIDE DEF e
      <3>1. s \o e \in Seq(Tokens) /\ Len(s \o e) = Len(s) + Len(e)
        BY <2>0, ConcatProperties
      <3> QED
        BY <1>3, <2>0, <3>1
    <2>2. (s \o e)[1] = "SELECT" /\ (s \o e)[2] = Name /\ (s \o e)[3] = "FROM"
      BY <1>3, <2>0, <2>1, ConcatProperties
    <2>3. Heads(s \o e, 3)
      BY <2>1, <2>2, NameIsToken DEF Heads, Keywords
    <2>4. IsQuery(s \o e)
      BY <2>1, <2>3, QueryWithTable
    <2> QED
      BY <1>1, <2>4 DEF Viable, Endings
  <1>4. CASE Len(s) > 1
    <2> DEFINE e == <<"FROM", Name>>  f == Len(s) + 1
    <2>1. e \in Seq(Tokens) /\ s \o e \in Seq(Tokens) /\ Len(s \o e) = f + 1
      BY EndingsType, ConcatProperties DEF Endings
    <2>2. /\ (s \o e)[f] = "FROM"
          /\ \A k \in 1 .. Len(s) : (s \o e)[k] = s[k]
      BY <2>1, ConcatProperties
    <2>3. Heads(s \o e, f)
      BY <1>4, <2>1, <2>2 DEF Heads
    <2>4. IsQuery(s \o e)
      BY <2>1, <2>3, QueryWithTable
    <2> QED
      BY <1>1, <2>4 DEF Viable, Endings
  <1>5. Len(s) = 0 \/ Len(s) = 1 \/ Len(s) > 1
    <2>1. Len(s) \in Nat
      BY LenProperties
    <2> QED
      BY <2>1
  <1> QED
    BY <1>2, <1>3, <1>4, <1>5

\* After FROM the table is missing.
LEMMA TableMissing ==
  ASSUME NEW s \in Seq(Tokens), NEW f, Heads(s, f), Len(s) = f
  PROVE  Viable(s) /\ ~IsQuery(s)
  <1> DEFINE e == <<Name>>
  <1>0. f \in Nat
    BY DEF Heads
  <1>1. ~IsQuery(s)
    BY <1>0, AfterFrom
  <1>2. e \in Seq(Tokens) /\ s \o e \in Seq(Tokens) /\ Len(s \o e) = f + 1
    BY EndingsType, ConcatProperties DEF Endings
  <1>3. Heads(s \o e, f)
    BY <1>2, HeadsGoesOn
  <1>4. IsQuery(s \o e)
    BY <1>0, <1>2, <1>3, QueryWithTable
  <1> QED
    BY <1>1, <1>4 DEF Viable, Endings

\* After WHERE a part of the condition is missing.
LEMMA ConditionMissing ==
  ASSUME NEW s \in Seq(Tokens), NEW f, Heads(s, f), Len(s) \in f + 2 .. f + 4,
         s[f + 2] = "WHERE"
  PROVE  Viable(s) /\ ~IsQuery(s)
  <1>0. f \in Nat
    BY DEF Heads
  <1>1. ~IsQuery(s)
    BY <1>0, AfterFrom
  <1>2. ASSUME NEW e \in Endings, Len(e) = f + 5 - Len(s)
        PROVE  IsQuery(s \o e)
    <2>1. e \in Seq(Tokens) /\ s \o e \in Seq(Tokens) /\ Len(s \o e) = f + 5
      BY <1>0, <1>2, EndingsType, ConcatProperties
    <2>2. Heads(s \o e, f) /\ (s \o e)[f + 2] = "WHERE"
      BY <1>0, <2>1, HeadsGoesOn, ConcatProperties
    <2> QED
      BY <1>0, <2>1, <2>2, QueryWithCondition
  <1>3. <<Name>> \in Endings /\ <<Name, Name>> \in Endings /\ <<Name, Name, Name>> \in Endings
    BY DEF Endings
  <1>4. CASE Len(s) = f + 4
    BY <1>0, <1>1, <1>2, <1>3, <1>4 DEF Viable
  <1>5. CASE Len(s) = f + 3
    BY <1>0, <1>1, <1>2, <1>3, <1>5 DEF Viable
  <1>6. CASE Len(s) = f + 2
    BY <1>0, <1>1, <1>2, <1>3, <1>6 DEF Viable
  <1> QED
    BY <1>0, <1>4, <1>5, <1>6

\* After ORDER or ORDER BY the column is missing.
LEMMA OrderMissing ==
  ASSUME NEW s \in Seq(Tokens), NEW f, Heads(s, f), NEW v \in {0, 4}, Len(s) >= f + 2 + v,
         s[f + 2 + v] = "ORDER", v = 4 => s[f + 2] = "WHERE",
         \/ Len(s) = f + 2 + v
         \/ Len(s) = f + 3 + v /\ s[f + 3 + v] = "BY"
  PROVE  Viable(s) /\ ~IsQuery(s)
  <1>0. f \in Nat
    BY DEF Heads
  <1>1. ~IsQuery(s)
    <2>1. ASSUME NEW w \in {0, 4}, NEW o \in {0, 3, 4}, Len(s) = f + 1 + w + o,
                 w = 4 => s[f + 2] = "WHERE"
          PROVE  FALSE
      BY <1>0, <2>1
    <2> QED
      BY <2>1, AfterFrom
  <1>2. ASSUME NEW e \in Endings, Len(e) = f + 4 + v - Len(s),
               Len(s) = f + 2 + v => e[1] = "BY"
        PROVE  IsQuery(s \o e)
    <2>1. e \in Seq(Tokens) /\ s \o e \in Seq(Tokens) /\ Len(s \o e) = f + 4 + v
      BY <1>0, <1>2, EndingsType, ConcatProperties
    <2>2. Heads(s \o e, f)
      BY <2>1, HeadsGoesOn
    <2>a. Len(e) > 0
      BY <1>0, <1>2
    <2>3. /\ \A k \in 1 .. Len(s) : (s \o e)[k] = s[k]
          /\ (s \o e)[Len(s) + 1] = e[1]
      BY <2>1, <2>a, ConcatProperties
    <2>4. /\ v = 4 => (s \o e)[f + 2] = "WHERE"
          /\ (s \o e)[f + 2 + v] = "ORDER" /\ (s \o e)[f + 3 + v] = "BY"
      BY <1>0, <1>2, <2>3
    <2> QED
      BY <1>0, <2>1, <2>2, <2>4, QueryWithOrder
  <1>3. <<Name>> \in Endings /\ <<"BY", Name>> \in Endings
    BY DEF Endings
  <1>4. CASE Len(s) = f + 2 + v
    <2>1. f + 4 + v - Len(s) = 2
      BY <1>0, <1>4
    <2>2. IsQuery(s \o <<"BY", Name>>)
      BY <1>2, <1>3, <2>1
    <2> QED
      BY <1>1, <1>3, <2>2 DEF Viable
  <1>5. CASE Len(s) = f + 3 + v
    <2>1. f + 4 + v - Len(s) = 1 /\ Len(s) # f + 2 + v
      BY <1>0, <1>5
    <2>2. IsQuery(s \o <<Name>>)
      BY <1>2, <1>3, <2>1
    <2> QED
      BY <1>1, <1>3, <2>2 DEF Viable
  <1> QED
    BY <1>4, <1>5

-----------------------------------------------------------------------------
(* What the places of the statement say of the text. *)

\* Where the statement is complete its text is a query, elsewhere it can become one.
LEMMA Going ==
  ASSUME NEW p \in Places \ Ended, NEW s \in Seq(Tokens), NEW st \in Statement,
         Layout(p, s, st)
  PROVE  Viable(s) /\ (IsQuery(s) <=> p \in Complete)
  <1> DEFINE f == FromAt(st)
             v == IF st.where_clause = <<>> THEN 0 ELSE 4
  <1>1. f \in Nat /\ v \in {0, 4} /\ OrderAt(st) = f + 2 + v
    BY DEF Statement, FromAt, OrderAt
  <1>2. TableRead(s, st) => Heads(s, f)
    BY DEF TableRead, FromRead
  <1>3. WhereRead(s, st) /\ v = 4 => s[f + 2] = "WHERE"
    BY DEF WhereRead
  <1>12. OrderRead(s, st) =>
            /\ Heads(s, f) /\ (v = 4 => s[f + 2] = "WHERE")
            /\ Len(s) >= f + 2 + v /\ s[f + 2 + v] = "ORDER"
    BY <1>1, <1>2, <1>3 DEF OrderRead
  <1>13. ByRead(s, st) => OrderRead(s, st) /\ s[f + 3 + v] = "BY"
    <2>1. OrderAt(st) + 1 = f + 3 + v
      BY <1>1
    <2> QED
      BY <2>1 DEF ByRead
  <1>14. st.where_clause # <<>> => v = 4
    OBVIOUS
  <1>15. Len(st.where_clause) \in Nat /\ Len(st.select_columns) \in Nat /\ Len(s) \in Nat
    BY DEF Statement
  <1> HIDE DEF v
  <1>4. CASE p = "start"
    <2>1. s = <<>>
      BY <1>4 DEF Layout, AtStart
    <2>2. Len(s) = 0
      BY <2>1
    <2>3. Viable(s) /\ ~IsQuery(s)
      <3>1. (Len(s) > 0 => s[1] = "SELECT") /\ \A k \in 2 .. Len(s) : s[k] # "FROM"
        BY <2>2
      <3> QED
        BY <3>1, BeforeFrom
    <2> QED
      BY <1>4, <2>3 DEF Complete
  <1>5. CASE p = "columns"
    <2> DEFINE c == Len(st.select_columns)
    <2>1. /\ s[1] = "SELECT" /\ Len(s) = c + 1
          /\ \A k \in 1 .. c : s[k + 1] # "FROM"
      BY <1>5 DEF Layout, AtColumns, ColumnsRead
    <2> HIDE DEF c
    <2>2. \A k \in 2 .. Len(s) : s[k] # "FROM"
      <3> TAKE k \in 2 .. Len(s)
      <3>1. c \in Nat
        BY <1>15 DEF c
      <3>2. k - 1 \in 1 .. c /\ (k - 1) + 1 = k
        BY <2>1, <3>1
      <3> QED
        BY <2>1, <3>2
    <2>3. Viable(s) /\ ~IsQuery(s)
      BY <2>1, <2>2, BeforeFrom
    <2> QED
      BY <1>5, <2>3 DEF Complete
  <1>6. CASE p = "table"
    <2>1. Heads(s, f) /\ Len(s) = f
      BY <1>6 DEF Layout, AtTable, FromRead
    <2> QED
      BY <1>6, <2>1, TableMissing DEF Complete
  <1>7. CASE p = "from read"
    <2>1. Heads(s, f) /\ Len(s) = f + 1
      BY <1>2, <1>7 DEF Layout, AtFromRead
    <2> QED
      BY <1>7, <2>1, QueryWithTable, QueryIsViable DEF Complete
  <1>8. CASE p = "where"
    <2>1. /\ Heads(s, f) /\ Len(s) = f + 2 + Len(st.where_clause)
          /\ Len(st.where_clause) < 3 /\ s[f + 2] = "WHERE"
      BY <1>2, <1>8 DEF Layout, AtWhere
    <2> DEFINE n == Len(st.where_clause)
    <2>2. Len(s) \in f + 2 .. f + 4
      <3> HIDE DEF f, n
      <3>1. n \in Nat /\ Len(s) = f + 2 + n /\ n < 3
        BY <1>15, <2>1 DEF n
      <3> QED
        BY <1>1, <3>1
    <2> QED
      BY <1>8, <2>1, <2>2, ConditionMissing DEF Complete
  <1>9. CASE p = "where read"
    <2>1. Heads(s, f) /\ Len(s) = f + 5 /\ s[f + 2] = "WHERE"
      BY <1>2, <1>3, <1>9, <1>14 DEF Layout, AtWhereRead
    <2> QED
      BY <1>9, <2>1, QueryWithCondition, QueryIsViable DEF Complete
  <1>10. CASE p \in {"order", "by"}
    <2>1. /\ Heads(s, f) /\ (v = 4 => s[f + 2] = "WHERE")
          /\ Len(s) >= f + 2 + v /\ s[f + 2 + v] = "ORDER"
          /\ \/ Len(s) = OrderAt(st)
             \/ Len(s) = OrderAt(st) + 1 /\ s[f + 3 + v] = "BY"
      BY <1>10, <1>12, <1>13 DEF Layout, AtOrder, AtBy
    <2> HIDE DEF f
    <2>2. \/ Len(s) = f + 2 + v
          \/ Len(s) = f + 3 + v /\ s[f + 3 + v] = "BY"
      BY <1>1, <2>1
    <2> QED
      BY <1>1, <1>10, <2>1, <2>2, OrderMissing DEF Complete
  <1>11. CASE p \in {"order read", "read"}
    <2>1. /\ Heads(s, f) /\ (v = 4 => s[f + 2] = "WHERE")
          /\ s[f + 2 + v] = "ORDER" /\ s[f + 3 + v] = "BY"
          /\ \/ Len(s) = OrderAt(st) + 2
             \/ Len(s) = OrderAt(st) + 3 /\ s[OrderAt(st) + 3] \in {"ASC", "DESC"}
      BY <1>11, <1>12, <1>13 DEF Layout, AtOrderRead, AtRead
    <2> HIDE DEF f
    <2>2. OrderAt(st) + 2 = f + 4 + v /\ OrderAt(st) + 3 = f + 5 + v
      BY <1>1
    <2>3. IsQuery(s)
      BY <1>1, <2>1, <2>2, QueryWithOrder
    <2> QED
      BY <1>11, <2>3, QueryIsViable DEF Complete
  <1> QED
    BY <1>4, <1>5, <1>6, <1>7, <1>8, <1>9, <1>10, <1>11 DEF Places

-----------------------------------------------------------------------------
(* Every step reads its token at the place that follows. *)

\* What was read of a text stays read when the text goes on.
LEMMA ReadStays ==
  ASSUME NEW s \in Seq(Tokens), NEW t \in Tokens, NEW st \in Statement
  PROVE  LET q == Append(s, t) IN
         /\ q \in Seq(Tokens) /\ Len(q) = Len(s) + 1 /\ q[Len(s) + 1] = t
         /\ \A k \in 1 .. Len(s) : q[k] = s[k]
         /\ ColumnsRead(s, st) => ColumnsRead(q, st)
         /\ FromRead(s, st) => FromRead(q, st)
         /\ TableRead(s, st) => TableRead(q, st)
         /\ WhereRead(s, st) => WhereRead(q, st)
         /\ OrderRead(s, st) => OrderRead(q, st)
         /\ ByRead(s, st) => ByRead(q, st)
  <1> DEFINE q == Append(s, t)
             c == Len(st.select_columns)
             f == FromAt(st)
             g == OrderAt(st)
  <1>1. q \in Seq(Tokens) /\ Len(q) = Len(s) + 1 /\ q[Len(s) + 1] = t
    OBVIOUS
  <1>2. \A k \in 1 .. Len(s) : q[k] = s[k]
    OBVIOUS
  <1>3. Len(s) \in Nat /\ c \in Nat /\ f = c + 2 /\ g \in Nat /\ g > 0
    BY DEF Statement, FromAt, OrderAt
  <1> HIDE DEF q, c, f, g
  <1>4. ColumnsRead(s, st) => ColumnsRead(q, st)
    BY <1>1, <1>2, <1>3 DEF ColumnsRead, c
  <1>5. FromRead(s, st) => FromRead(q, st)
    BY <1>1, <1>2, <1>3, <1>4 DEF FromRead, Heads, f
  <1>6. TableRead(s, st) => TableRead(q, st)
    BY <1>1, <1>2, <1>3, <1>5 DEF TableRead, f
  <1>7. WhereRead(s, st) => WhereRead(q, st)
    BY <1>1, <1>2, <1>3 DEF WhereRead, f
  <1>8. OrderRead(s, st) => OrderRead(q, st)
    BY <1>1, <1>2, <1>3, <1>6, <1>7 DEF OrderRead, g
  <1>9. ByRead(s, st) => ByRead(q, st)
    BY <1>1, <1>2, <1>3, <1>8 DEF ByRead, g
  <1> QED
    BY <1>1, <1>2, <1>4, <1>5, <1>6, <1>7, <1>8, <1>9 DEF q

\* SELECT and each column.
LEMMA ColumnStep ==
  ASSUME NEW s \in Seq(Tokens), NEW t \in Tokens \ {"FROM"}, NEW st \in Statement,
         AtColumns(s, st)
  PROVE  LET cols == Append(st.select_columns, t)
             st2 == [st EXCEPT !.select_columns = Append(@, t)]
         IN  st2 \in Statement /\ AtColumns(Append(s, t), st2)
  <1> DEFINE cols == st.select_columns
             st2 == [st EXCEPT !.select_columns = Append(@, t)]
             q == Append(s, t)
  <1>0. cols \in Seq(Tokens) /\ Append(cols, t) \in Seq(Tokens)
    BY DEF Statement
  <1>1. cols \in Seq(Tokens) /\ st2 \in Statement /\ st2.select_columns = Append(cols, t)
    BY <1>0 DEF Statement
  <1>2. /\ st2.from_table = st.from_table /\ st2.where_clause = st.where_clause
        /\ st2.order_by = st.order_by
    BY DEF Statement
  <1>3. q \in Seq(Tokens) /\ Len(q) = Len(s) + 1 /\ q[Len(s) + 1] = t
    OBVIOUS
  <1>4. \A k \in 1 .. Len(s) : q[k] = s[k]
    OBVIOUS
  <1>5. /\ Len(s) = Len(cols) + 1 /\ s[1] = "SELECT"
        /\ \A k \in 1 .. Len(cols) : s[k + 1] = cols[k] /\ cols[k] # "FROM"
    BY DEF AtColumns, ColumnsRead
  <1>6. /\ Len(Append(cols, t)) = Len(cols) + 1 /\ Append(cols, t)[Len(cols) + 1] = t
        /\ \A k \in 1 .. Len(cols) : Append(cols, t)[k] = cols[k]
    BY <1>1
  <1>7. Len(cols) \in Nat
    BY <1>1
  <1>8. ColumnsRead(q, st2)
    <2> DEFINE more == Append(cols, t)  c == Len(cols)
    <2> SUFFICES /\ Len(q) > Len(more) /\ q[1] = "SELECT"
                 /\ \A k \in 1 .. Len(more) : q[k + 1] = more[k] /\ more[k] # "FROM"
      BY <1>1 DEF ColumnsRead
    <2>1. /\ Len(more) = c + 1 /\ more[c + 1] = t
          /\ \A k \in 1 .. c : more[k] = cols[k]
      BY <1>6
    <2>2. Len(q) = c + 2 /\ q[c + 2] = t /\ \A k \in 1 .. c + 1 : q[k] = s[k]
      BY <1>3, <1>4, <1>5, <1>7
    <2> HIDE DEF more, q
    <2>3. Len(q) > Len(more) /\ q[1] = "SELECT"
      BY <1>5, <1>7, <2>1, <2>2
    <2>4. ASSUME NEW k \in 1 .. Len(more)
          PROVE  q[k + 1] = more[k] /\ more[k] # "FROM"
      <3>1. CASE k = c + 1
        <4>1. k + 1 = c + 2
          BY <1>7, <3>1
        <4> QED
          BY <2>1, <2>2, <3>1, <4>1
      <3>2. CASE k \in 1 .. c
        <4>1. k + 1 \in 1 .. c + 1
          BY <1>7, <3>2
        <4>2. s[k + 1] = cols[k] /\ cols[k] # "FROM"
          BY <1>5, <3>2
        <4> QED
          BY <2>1, <2>2, <3>2, <4>1, <4>2
      <3>3. k \in 1 .. c \/ k = c + 1
        BY <1>7, <2>1
      <3> QED
        BY <3>1, <3>2, <3>3
    <2> QED
      BY <2>3, <2>4
  <1> QED
    BY <1>1, <1>2, <1>3, <1>5, <1>6, <1>8 DEF AtColumns
\* SELECT begins the columns, of which there are none yet.
LEMMA SelectStep == "SELECT" \in Tokens /\ AtColumns(Append(<<>>, "SELECT"), Empty)
  <1>1. /\ "SELECT" \in Tokens /\ Len(Append(<<>>, "SELECT")) = 1
        /\ Append(<<>>, "SELECT")[1] = "SELECT"
    BY DEF Tokens, Keywords
  <1>2. Len(Empty.select_columns) = 0
    BY DEF Empty
  <1> QED
    BY <1>1, <1>2 DEF AtColumns, ColumnsRead, Empty

\* FROM follows the last column.
LEMMA FromStep ==
  ASSUME NEW s \in Seq(Tokens), NEW st \in Statement, AtColumns(s, st),
         st.select_columns # <<>>
  PROVE  "FROM" \in Tokens /\ AtTable(Append(s, "FROM"), st)
  <1> DEFINE q == Append(s, "FROM")  c == Len(st.select_columns)
  <1>1. "FROM" \in Tokens
    BY DEF Tokens, Keywords
  <1>2. c \in Nat /\ c > 0 /\ FromAt(st) = c + 2
    BY DEF Statement, FromAt
  <1>3. /\ Len(q) = Len(s) + 1 /\ q[Len(s) + 1] = "FROM"
        /\ \A k \in 1 .. Len(s) : q[k] = s[k]
    BY <1>1, ReadStays
  <1>4. ColumnsRead(q, st)
    BY <1>1, ReadStays DEF AtColumns
  <1>5. /\ Len(s) = c + 1 /\ q[1] = "SELECT"
        /\ \A k \in 1 .. c : q[k + 1] # "FROM"
    BY <1>4 DEF AtColumns, ColumnsRead
  <1> HIDE DEF q, c
  <1>6. \A k \in 2 .. FromAt(st) - 1 : q[k] # "FROM"
    <2> TAKE k \in 2 .. FromAt(st) - 1
    <2>1. k - 1 \in 1 .. c /\ (k - 1) + 1 = k
      BY <1>2
    <2> QED
      BY <1>5, <2>1
  <1>7. Len(q) = c + 2 /\ q[c + 2] = "FROM"
    BY <1>2, <1>3, <1>5
  <1>8. Heads(q, FromAt(st))
    BY <1>2, <1>5, <1>6, <1>7 DEF Heads
  <1> QED
    BY <1>1, <1>2, <1>4, <1>7, <1>8 DEF AtTable, FromRead, AtColumns, q

\* The table follows FROM.
LEMMA TableStep ==
  ASSUME NEW s \in Seq(Tokens), NEW t \in Tokens, NEW st \in Statement, AtTable(s, st)
  PROVE  LET st2 == [st EXCEPT !.from_table = Append(@, t)]
         IN  st2 \in Statement /\ AtFromRead(Append(s, t), st2)
  <1> DEFINE st2 == [st EXCEPT !.from_table = Append(@, t)]
             q == Append(s, t)
  <1>1. Append(st.from_table, t) = <<t>> /\ <<t>> \in Seq(Tokens)
    BY DEF AtTable
  <1>2. /\ st2 \in Statement /\ st2.from_table = <<t>>
        /\ st2.select_columns = st.select_columns
        /\ st2.where_clause = <<>> /\ st2.order_by = <<>>
    BY <1>1 DEF Statement, AtTable
  <1>3. FromAt(st2) = FromAt(st)
    BY <1>2 DEF FromAt
  <1>4. FromRead(q, st2)
    <2>1. FromRead(q, st)
      BY ReadStays DEF AtTable
    <2> HIDE DEF st2, q
    <2> QED
      BY <1>2, <1>3, <2>1 DEF FromRead, ColumnsRead
  <1>5. FromAt(st) \in Nat
    BY DEF Statement, FromAt
  <1>6. Len(q) = FromAt(st) + 1 /\ q[FromAt(st) + 1] = t
    BY ReadStays DEF AtTable
  <1> HIDE DEF st2, q
  <1> QED
    BY <1>2, <1>3, <1>4, <1>5, <1>6 DEF AtFromRead, TableRead, st2, q

\* WHERE follows the table.
LEMMA WhereStep ==
  ASSUME NEW s \in Seq(Tokens), NEW st \in Statement, AtFromRead(s, st)
  PROVE  "WHERE" \in Tokens /\ AtWhere(Append(s, "WHERE"), st)
  <1> DEFINE q == Append(s, "WHERE")
  <1>1. "WHERE" \in Tokens
    BY DEF Tokens, Keywords
  <1>2. /\ Len(q) = Len(s) + 1 /\ q[Len(s) + 1] = "WHERE" /\ TableRead(q, st)
    BY <1>1, ReadStays DEF AtFromRead
  <1>3. FromAt(st) \in Nat /\ Len(st.where_clause) = 0 /\ st.order_by = <<>>
    BY DEF Statement, FromAt, AtFromRead
  <1> HIDE DEF q
  <1>4. Len(q) = FromAt(st) + 2 /\ q[FromAt(st) + 2] = "WHERE"
    BY <1>2, <1>3 DEF AtFromRead
  <1> QED
    BY <1>1, <1>2, <1>3, <1>4 DEF AtWhere, q

\* Each part of the condition; the third is the last.
LEMMA ConditionStep ==
  ASSUME NEW s \in Seq(Tokens), NEW t \in Tokens, NEW st \in Statement, AtWhere(s, st)
  PROVE  LET st2 == [st EXCEPT !.where_clause = Append(@, t)]
         IN  /\ st2 \in Statement
             /\ Len(st.where_clause) = 2 => AtWhereRead(Append(s, t), st2)
             /\ Len(st.where_clause) # 2 => AtWhere(Append(s, t), st2)
  <1> DEFINE wh == st.where_clause
             more == Append(wh, t)
             st2 == [st EXCEPT !.where_clause = Append(@, t)]
             q == Append(s, t)
             f == FromAt(st)
             n == Len(wh)
  <1>1. wh \in Seq(Tokens) /\ more \in Seq(Tokens) /\ n \in Nat
    BY DEF Statement
  <1>2. /\ st2 \in Statement /\ st2.where_clause = more
        /\ st2.select_columns = st.select_columns
        /\ st2.from_table = st.from_table /\ st2.order_by = <<>>
    BY <1>1 DEF Statement, AtWhere
  <1>3. FromAt(st2) = f
    BY <1>2 DEF FromAt
  <1>4. f \in Nat
    BY DEF Statement, FromAt
  <1>5. TableRead(q, st2)
    <2>1. TableRead(q, st)
      BY ReadStays DEF AtWhere
    <2> HIDE DEF st2, q, f
    <2> QED
      BY <1>2, <1>3, <2>1 DEF TableRead, FromRead, ColumnsRead, f
  <1>6. /\ Len(s) = f + 2 + n /\ n < 3 /\ s[f + 2] = "WHERE"
        /\ \A k \in 1 .. n : wh[k] = s[f + 2 + k]
    BY DEF AtWhere
  <1>7. /\ Len(q) = Len(s) + 1 /\ q[Len(s) + 1] = t
        /\ \A k \in 1 .. Len(s) : q[k] = s[k]
    BY ReadStays
  <1>8. Len(more) = n + 1 /\ more[n + 1] = t /\ \A k \in 1 .. n : more[k] = wh[k]
    BY <1>1
  <1> HIDE DEF wh, more, q, f, n
  <1>9. Len(q) = f + 3 + n /\ q[f + 3 + n] = t /\ q[f + 2] = "WHERE"
    BY <1>1, <1>4, <1>6, <1>7
  <1>10. \A k \in 1 .. n + 1 : more[k] = q[f + 2 + k]
    <2> TAKE k \in 1 .. n + 1
    <2>1. CASE k = n + 1
      <3>1. f + 2 + k = f + 3 + n
        BY <1>1, <1>4, <2>1
      <3> QED
        BY <1>8, <1>9, <2>1, <3>1
    <2>2. CASE k \in 1 .. n
      <3>1. f + 2 + k \in 1 .. Len(s)
        BY <1>1, <1>4, <1>6, <2>2
      <3> QED
        BY <1>6, <1>7, <1>8, <2>2, <3>1
    <2>3. k = n + 1 \/ k \in 1 .. n
      BY <1>1
    <2> QED
      BY <2>1, <2>2, <2>3
  <1>11. ASSUME n = 2
         PROVE  AtWhereRead(q, st2)
    <2>1. /\ Len(q) = f + 5 /\ Len(more) = 3
          /\ more[1] = q[f + 3] /\ more[2] = q[f + 4] /\ more[3] = q[f + 5]
      <3>0. n + 1 = 3
        BY <1>11
      <3>1. \A k \in 1 .. 3 : more[k] = q[f + 2 + k]
        BY <1>10, <3>0
      <3>2. f + 2 + 1 = f + 3 /\ f + 2 + 2 = f + 4 /\ f + 2 + 3 = f + 5
        BY <1>4
      <3> QED
        BY <1>4, <1>8, <1>9, <1>11, <3>1, <3>2
    <2>2. more = <<q[f + 3], q[f + 4], q[f + 5]>>
      BY <1>1, <2>1
    <2>3. WhereRead(q, st2) /\ st2.where_clause # <<>>
      BY <1>2, <1>3, <1>4, <1>9, <2>1, <2>2 DEF WhereRead
    <2> QED
      BY <1>2, <1>3, <1>5, <2>1, <2>3 DEF AtWhereRead
  <1>12. ASSUME n # 2
         PROVE  AtWhere(q, st2)
    <2>1. Len(more) < 3 /\ Len(q) = f + 2 + Len(more)
      BY <1>1, <1>4, <1>6, <1>8, <1>9, <1>12
    <2>2. \A k \in 1 .. Len(more) : more[k] = q[f + 2 + k]
      BY <1>8, <1>10
    <2> HIDE DEF st2
    <2> QED
      BY <1>2, <1>3, <1>5, <1>9, <2>1, <2>2 DEF AtWhere
  <1> QED
    BY <1>2, <1>11, <1>12 DEF q, n, wh
\* ORDER follows the table or the condition.
LEMMA OrderStep ==
  ASSUME NEW s \in Seq(Tokens), NEW st \in Statement,
         AtFromRead(s, st) \/ AtWhereRead(s, st)
  PROVE  "ORDER" \in Tokens /\ AtOrder(Append(s, "ORDER"), st)
  <1> DEFINE q == Append(s, "ORDER")
  <1>1. "ORDER" \in Tokens
    BY DEF Tokens, Keywords
  <1>2. /\ Len(q) = Len(s) + 1 /\ q[Len(s) + 1] = "ORDER"
        /\ TableRead(q, st) /\ WhereRead(q, st)
    BY <1>1, ReadStays DEF AtFromRead, AtWhereRead, WhereRead
  <1>3. FromAt(st) \in Nat
    BY DEF Statement, FromAt
  <1>4. Len(s) + 1 = OrderAt(st)
    <2>1. CASE AtFromRead(s, st)
      BY <1>3, <2>1 DEF AtFromRead, OrderAt
    <2>2. CASE AtWhereRead(s, st)
      BY <1>3, <2>2 DEF AtWhereRead, OrderAt
    <2> QED
      BY <2>1, <2>2
  <1>5. Len(q) = OrderAt(st) /\ OrderAt(st) \in Nat /\ st.order_by = <<>>
    BY <1>2, <1>4 DEF AtFromRead, AtWhereRead
  <1> HIDE DEF q
  <1> QED
    BY <1>1, <1>2, <1>4, <1>5 DEF AtOrder, OrderRead, q

\* BY follows ORDER.
LEMMA ByStep ==
  ASSUME NEW s \in Seq(Tokens), NEW st \in Statement, AtOrder(s, st)
  PROVE  "BY" \in Tokens /\ AtBy(Append(s, "BY"), st)
  <1> DEFINE q == Append(s, "BY")
  <1>1. "BY" \in Tokens
    BY DEF Tokens, Keywords
  <1>2. /\ Len(q) = Len(s) + 1 /\ q[Len(s) + 1] = "BY" /\ OrderRead(q, st)
    BY <1>1, ReadStays DEF AtOrder
  <1>3. Len(s) = OrderAt(st) /\ Len(s) \in Nat /\ st.order_by = <<>>
    BY DEF AtOrder
  <1> HIDE DEF q
  <1> QED
    BY <1>1, <1>2, <1>3 DEF AtBy, ByRead, q

\* A statement with another order has read the same up to there.
LEMMA OtherOrder ==
  ASSUME NEW s, NEW st \in Statement, NEW x \in Seq(Tokens), ByRead(s, st)
  PROVE  LET st2 == [st EXCEPT !.order_by = x]
         IN  /\ st2 \in Statement /\ st2.order_by = x
             /\ OrderAt(st2) = OrderAt(st) /\ ByRead(s, st2)
  <1> DEFINE st2 == [st EXCEPT !.order_by = x]
  <1>1. /\ st2 \in Statement /\ st2.order_by = x
        /\ st2.select_columns = st.select_columns
        /\ st2.from_table = st.from_table
        /\ st2.where_clause = st.where_clause
    BY DEF Statement
  <1> HIDE DEF st2
  <1>2. FromAt(st2) = FromAt(st) /\ OrderAt(st2) = OrderAt(st)
    BY <1>1 DEF FromAt, OrderAt
  <1>3. TableRead(s, st2)
    BY <1>1, <1>2 DEF ByRead, OrderRead, TableRead, FromRead, ColumnsRead
  <1>4. WhereRead(s, st2)
    BY <1>1, <1>2 DEF ByRead, OrderRead, WhereRead
  <1>5. ByRead(s, st2)
    BY <1>2, <1>3, <1>4 DEF ByRead, OrderRead
  <1> QED
    BY <1>1, <1>2, <1>5 DEF st2

\* The column of the order follows BY.
LEMMA OrderColumnStep ==
  ASSUME NEW s \in Seq(Tokens), NEW t \in Tokens, NEW st \in Statement, AtBy(s, st)
  PROVE  LET st2 == [st EXCEPT !.order_by = <<t, "ASC">>]
         IN  st2 \in Statement /\ AtOrderRead(Append(s, t), st2)
  <1> DEFINE q == Append(s, t)  st2 == [st EXCEPT !.order_by = <<t, "ASC">>]
  <1>1. <<t, "ASC">> \in Seq(Tokens)
    BY DEF Tokens, Keywords
  <1>2. /\ Len(q) = Len(s) + 1 /\ q[Len(s) + 1] = t /\ ByRead(q, st)
    BY ReadStays DEF AtBy
  <1>3. Len(s) = OrderAt(st) + 1 /\ OrderAt(st) \in Int
    BY DEF AtBy, OrderAt, FromAt, Statement
  <1>4. /\ st2 \in Statement /\ st2.order_by = <<t, "ASC">>
        /\ OrderAt(st2) = OrderAt(st) /\ ByRead(q, st2)
    BY <1>1, <1>2, OtherOrder
  <1> HIDE DEF q, st2
  <1>5. Len(q) = OrderAt(st) + 2 /\ q[OrderAt(st) + 2] = t
    BY <1>2, <1>3
  <1> QED
    BY <1>4, <1>5 DEF AtOrderRead, q, st2

\* The direction follows the column of the order.
LEMMA DirectionStep ==
  ASSUME NEW s \in Seq(Tokens), NEW t \in {"ASC", "DESC"}, NEW st \in Statement,
         AtOrderRead(s, st)
  PROVE  LET st2 == [st EXCEPT !.order_by[2] = t]
         IN  t \in Tokens /\ st2 \in Statement /\ AtRead(Append(s, t), st2)
  <1> DEFINE q == Append(s, t)
             g == OrderAt(st)
             column == s[OrderAt(st) + 2]
             st2 == [st EXCEPT !.order_by[2] = t]
  <1>1. t \in Tokens
    BY DEF Tokens, Keywords
  <1>2. /\ Len(q) = Len(s) + 1 /\ q[Len(s) + 1] = t /\ ByRead(q, st)
        /\ \A k \in 1 .. Len(s) : q[k] = s[k]
    BY <1>1, ReadStays DEF AtOrderRead
  <1>3. Len(s) = g + 2 /\ g \in Nat /\ st.order_by = <<column, "ASC">>
    BY DEF AtOrderRead, OrderAt, FromAt, Statement
  <1>4. column \in Tokens
    BY <1>3, ElementOfSeq
  <1>5. st2 = [st EXCEPT !.order_by = <<column, t>>]
    <2>1. [st.order_by EXCEPT ![2] = t] = <<column, t>>
      BY <1>3
    <2> QED
      BY <2>1 DEF Statement
  <1>6. <<column, t>> \in Seq(Tokens)
    BY <1>1, <1>4
  <1>7. /\ st2 \in Statement /\ st2.order_by = <<column, t>>
        /\ OrderAt(st2) = g /\ ByRead(q, st2)
    <2> DEFINE x == <<column, t>>
    <2> HIDE DEF x
    <2>1. x \in Seq(Tokens) /\ st2 = [st EXCEPT !.order_by = x]
      BY <1>5, <1>6 DEF x
    <2> HIDE DEF st2, q, g
    <2>2. st2 \in Statement /\ st2.order_by = x /\ OrderAt(st2) = g /\ ByRead(q, st2)
      BY <1>2, <2>1, OtherOrder DEF g
    <2> QED
      BY <2>2 DEF x
  <1>8. q[g + 2] = column
    <2>1. g + 2 \in 1 .. Len(s)
      BY <1>3
    <2> QED
      BY <1>2, <2>1
  <1> HIDE DEF q, st2, g, column
  <1>9. Len(q) = g + 3 /\ q[g + 3] = t
    BY <1>2, <1>3
  <1> QED
    BY <1>1, <1>7, <1>8, <1>9 DEF AtRead, q, st2

-----------------------------------------------------------------------------
(* A statement says what its text says. *)

TextOfTable(st) == <<"SELECT">> \o st.select_columns \o <<"FROM">> \o st.from_table
TextOfWhere(st) ==
    IF st.where_clause = <<>> THEN <<>> ELSE <<"WHERE">> \o st.where_clause
TextOfOrder(st) ==
    IF st.order_by = <<>> THEN <<>> ELSE <<"ORDER", "BY">> \o st.order_by
TextOf(st) == TextOfTable(st) \o TextOfWhere(st) \o TextOfOrder(st)

\* A text followed by another.
LEMMA ConcatAt ==
  ASSUME NEW a \in Seq(Tokens), NEW b \in Seq(Tokens)
  PROVE  /\ a \o b \in Seq(Tokens) /\ Len(a \o b) = Len(a) + Len(b)
         /\ \A k \in 1 .. Len(a) : (a \o b)[k] = a[k]
         /\ \A k \in 1 .. Len(b) : (a \o b)[Len(a) + k] = b[k]
  <1> DEFINE n == Len(a)  m == Len(b)
  <1>1. n \in Nat /\ m \in Nat
    OBVIOUS
  <1>2. /\ a \o b \in Seq(Tokens) /\ Len(a \o b) = n + m
        /\ \A i \in 1 .. n + m : (a \o b)[i] = IF i <= n THEN a[i] ELSE b[i - n]
    BY ConcatProperties
  <1> DEFINE c == a \o b
  <1> HIDE DEF n, m, c
  <1>3. ASSUME NEW k \in 1 .. n
        PROVE  c[k] = a[k]
    <2>1. k \in 1 .. n + m /\ k <= n
      BY <1>1
    <2> QED
      BY <1>2, <2>1 DEF c
  <1>4. ASSUME NEW k \in 1 .. m
        PROVE  c[n + k] = b[k]
    <2>1. n + k \in 1 .. n + m /\ ~(n + k <= n) /\ (n + k) - n = k
      BY <1>1
    <2> QED
      BY <1>2, <2>1 DEF c
  <1> QED
    BY <1>2, <1>3, <1>4 DEF c, n, m

\* What has been read of the columns and the table is the text of them.
LEMMA TableSays ==
  ASSUME NEW s \in Seq(Tokens), NEW st \in Statement, TableRead(s, st)
  PROVE  /\ TextOfTable(st) \in Seq(Tokens) /\ Len(TextOfTable(st)) = FromAt(st) + 1
         /\ \A k \in 1 .. FromAt(st) + 1 : TextOfTable(st)[k] = s[k]
  <1> DEFINE cols == st.select_columns
             c == Len(st.select_columns)
             from == st.from_table
             A == <<"SELECT">> \o cols
             B == A \o <<"FROM">>
             C == B \o from
  <1>1. /\ cols \in Seq(Tokens) /\ from \in Seq(Tokens) /\ c \in Nat /\ FromAt(st) = c + 2
        /\ <<"SELECT">> \in Seq(Tokens) /\ <<"FROM">> \in Seq(Tokens)
    BY DEF Statement, FromAt, Tokens, Keywords
  <1>2. /\ s[1] = "SELECT" /\ \A k \in 1 .. c : s[k + 1] = cols[k]
    BY DEF TableRead, FromRead, ColumnsRead
  <1>3. s[c + 2] = "FROM" /\ from = <<s[c + 3]>>
    BY <1>1 DEF TableRead, FromRead, Heads
  <1> HIDE DEF cols, from
  <1>4. /\ A \in Seq(Tokens) /\ Len(A) = c + 1 /\ A[1] = "SELECT"
        /\ \A k \in 2 .. c + 1 : A[k] = cols[k - 1]
    BY <1>1, ConcatProperties DEF cols
  <1> HIDE DEF A, c
  <1>5. /\ B \in Seq(Tokens) /\ Len(B) = c + 2 /\ B[c + 2] = "FROM"
        /\ \A k \in 1 .. c + 1 : B[k] = A[k]
    BY <1>1, <1>4, ConcatProperties
  <1> HIDE DEF B
  <1>6. Len(from) = 1 /\ from[1] = s[c + 3]
    BY <1>3
  <1>7. /\ C \in Seq(Tokens) /\ Len(C) = c + 3 /\ C[c + 3] = s[c + 3]
        /\ \A k \in 1 .. c + 2 : C[k] = B[k]
    <2>1. c + 2 \in Nat /\ (c + 2) + 1 = c + 3
      BY <1>1
    <2>2. /\ C \in Seq(Tokens) /\ Len(C) = (c + 2) + 1
          /\ \A k \in 1 .. c + 2 : C[k] = B[k]
          /\ \A k \in 1 .. 1 : C[(c + 2) + k] = from[k]
      <3>1. /\ C \in Seq(Tokens) /\ Len(C) = Len(B) + Len(from)
            /\ \A k \in 1 .. Len(B) : C[k] = B[k]
            /\ \A k \in 1 .. Len(from) : C[Len(B) + k] = from[k]
        BY <1>1, <1>5, ConcatAt
      <3> HIDE DEF C
      <3> QED
        BY <1>5, <1>6, <3>1
    <2> HIDE DEF C
    <2> QED
      BY <1>6, <2>1, <2>2
  <1> HIDE DEF C
  <1>8. ASSUME NEW k \in 1 .. c + 3
        PROVE  C[k] = s[k]
    <2>1. CASE k = 1
      BY <1>1, <1>2, <1>4, <1>5, <1>7, <2>1
    <2>2. CASE k \in 2 .. c + 1
      <3>1. k \in 1 .. c + 1 /\ k \in 1 .. c + 2 /\ k - 1 \in 1 .. c /\ (k - 1) + 1 = k
        BY <1>1, <2>2
      <3> QED
        BY <1>2, <1>4, <1>5, <1>7, <2>2, <3>1
    <2>3. CASE k = c + 2
      BY <1>1, <1>3, <1>5, <1>7, <2>3
    <2>4. CASE k = c + 3
      BY <1>7, <2>4
    <2> QED
      BY <1>1, <2>1, <2>2, <2>3, <2>4
  <1>9. TextOfTable(st) = C
    BY DEF TextOfTable, A, B, C, cols, from
  <1>10. FromAt(st) + 1 = c + 3
    BY <1>1
  <1> QED
    BY <1>7, <1>8, <1>9, <1>10

\* And with the condition it is the text of both.
LEMMA WhereSays ==
  ASSUME NEW s \in Seq(Tokens), NEW st \in Statement, TableRead(s, st), WhereRead(s, st)
  PROVE  LET head == TextOfTable(st) \o TextOfWhere(st) IN
         /\ head \in Seq(Tokens) /\ Len(head) = OrderAt(st) - 1
         /\ \A k \in 1 .. OrderAt(st) - 1 : head[k] = s[k]
  <1> DEFINE f == FromAt(st)  T == TextOfTable(st)
  <1>1. T \in Seq(Tokens) /\ Len(T) = f + 1 /\ \A k \in 1 .. f + 1 : T[k] = s[k]
    BY TableSays
  <1>2. f \in Nat
    BY DEF Statement, FromAt
  <1>3. CASE st.where_clause = <<>>
    <2>1. T \o TextOfWhere(st) = T
      BY <1>1, <1>3, ConcatEmptySeq DEF TextOfWhere
    <2>2. OrderAt(st) - 1 = f + 1
      BY <1>2, <1>3 DEF OrderAt
    <2> HIDE DEF f, T
    <2> QED
      BY <1>1, <2>1, <2>2 DEF T
  <1>4. CASE st.where_clause # <<>>
    <2> DEFINE wh == st.where_clause  W == TextOfWhere(st)
    <2>1. wh = <<s[f + 3], s[f + 4], s[f + 5]>> /\ s[f + 2] = "WHERE" /\ wh \in Seq(Tokens)
      BY <1>4 DEF WhereRead, Statement
    <2>2. Len(wh) = 3 /\ wh[1] = s[f + 3] /\ wh[2] = s[f + 4] /\ wh[3] = s[f + 5]
      BY <2>1
    <2>3. W = <<"WHERE">> \o wh /\ <<"WHERE">> \in Seq(Tokens)
      BY <1>4 DEF TextOfWhere, Tokens, Keywords
    <2> HIDE DEF wh, W
    <2>4. /\ W \in Seq(Tokens) /\ Len(W) = 4 /\ W[1] = "WHERE"
          /\ W[2] = wh[1] /\ W[3] = wh[2] /\ W[4] = wh[3]
      BY <2>1, <2>2, <2>3, ConcatProperties
    <2>5. OrderAt(st) - 1 = f + 5
      BY <1>2, <1>4 DEF OrderAt
    <2> HIDE DEF T, f
    <2>6. /\ T \o W \in Seq(Tokens) /\ Len(T \o W) = f + 5
          /\ \A k \in 1 .. f + 1 : (T \o W)[k] = T[k]
          /\ (T \o W)[f + 2] = W[1] /\ (T \o W)[f + 3] = W[2]
          /\ (T \o W)[f + 4] = W[3] /\ (T \o W)[f + 5] = W[4]
      <3>1. f + 1 \in Nat /\ (f + 1) + 1 = f + 2 /\ (f + 1) + 2 = f + 3
            /\ (f + 1) + 3 = f + 4 /\ (f + 1) + 4 = f + 5
        BY <1>2
      <3>2. /\ T \o W \in Seq(Tokens) /\ Len(T \o W) = (f + 1) + 4
            /\ \A k \in 1 .. f + 1 : (T \o W)[k] = T[k]
            /\ \A k \in 1 .. 4 : (T \o W)[(f + 1) + k] = W[k]
        <4>1. /\ T \o W \in Seq(Tokens) /\ Len(T \o W) = Len(T) + Len(W)
              /\ \A k \in 1 .. Len(T) : (T \o W)[k] = T[k]
              /\ \A k \in 1 .. Len(W) : (T \o W)[Len(T) + k] = W[k]
          BY <1>1, <2>4, ConcatAt
        <4> QED
          BY <1>1, <2>4, <4>1
      <3> DEFINE TW == T \o W
      <3> HIDE DEF TW
      <3>3. 1 \in 1 .. 4 /\ 2 \in 1 .. 4 /\ 3 \in 1 .. 4 /\ 4 \in 1 .. 4
        OBVIOUS
      <3> QED
        BY <3>1, <3>2, <3>3
    <2>7. ASSUME NEW k \in 1 .. f + 5
          PROVE  (T \o W)[k] = s[k]
      <3>1. k \in 1 .. f + 1 \/ k = f + 2 \/ k = f + 3 \/ k = f + 4 \/ k = f + 5
        BY <1>2
      <3> QED
        BY <1>1, <2>1, <2>2, <2>4, <2>6, <3>1
    <2> QED
      BY <2>5, <2>6, <2>7 DEF T, W
  <1> QED
    BY <1>3, <1>4
\* A statement whose order has been read is said by its text with the direction, which may be
\* missing if it is ASC.
LEMMA OrderSays ==
  ASSUME NEW s \in Seq(Tokens), NEW st \in Statement, ByRead(s, st),
         NEW column \in Tokens, NEW way \in Tokens, st.order_by = <<column, way>>,
         s[OrderAt(st) + 2] = column,
         \/ Len(s) = OrderAt(st) + 2
         \/ Len(s) = OrderAt(st) + 3 /\ s[OrderAt(st) + 3] = way
  PROVE  /\ Len(s) = OrderAt(st) + 3 => s = TextOf(st)
         /\ Len(s) = OrderAt(st) + 2 => s = Front(TextOf(st)) /\ Last(TextOf(st)) = way
  <1> DEFINE g == OrderAt(st)
             H == TextOfTable(st) \o TextOfWhere(st)
             O == TextOfOrder(st)
             T == TextOf(st)
  <1>1. g - 1 \in Nat /\ g \in Nat
    BY DEF OrderAt, FromAt, Statement
  <1>2. H \in Seq(Tokens) /\ Len(H) = g - 1 /\ \A k \in 1 .. g - 1 : H[k] = s[k]
    BY WhereSays DEF ByRead, OrderRead
  <1>3. /\ O \in Seq(Tokens) /\ Len(O) = 4 /\ O[1] = "ORDER" /\ O[2] = "BY"
        /\ O[3] = column /\ O[4] = way
    <2>1. <<"ORDER", "BY">> \in Seq(Tokens) /\ <<column, way>> \in Seq(Tokens)
      BY DEF Tokens, Keywords
    <2>2. O = <<"ORDER", "BY">> \o <<column, way>>
      BY DEF TextOfOrder
    <2> QED
      BY <2>1, <2>2
  <1>4. T = H \o O
    BY DEF TextOf
  <1>5. s[g] = "ORDER" /\ s[g + 1] = "BY"
    BY DEF ByRead, OrderRead
  <1> HIDE DEF H, O
  <1>6. /\ T \in Seq(Tokens) /\ Len(T) = (g - 1) + 4
        /\ \A k \in 1 .. g - 1 : T[k] = H[k]
        /\ \A k \in 1 .. 4 : T[(g - 1) + k] = O[k]
    <2>1. /\ T \in Seq(Tokens) /\ Len(T) = Len(H) + Len(O)
          /\ \A k \in 1 .. Len(H) : T[k] = H[k]
          /\ \A k \in 1 .. Len(O) : T[Len(H) + k] = O[k]
      <3>1. H \in Seq(Tokens) /\ O \in Seq(Tokens)
        BY <1>2, <1>3
      <3>2. /\ H \o O \in Seq(Tokens) /\ Len(H \o O) = Len(H) + Len(O)
            /\ \A k \in 1 .. Len(H) : (H \o O)[k] = H[k]
            /\ \A k \in 1 .. Len(O) : (H \o O)[Len(H) + k] = O[k]
        BY ONLY <3>1, ConcatAt
      <3> HIDE DEF T
      <3> QED
        BY ONLY <1>4, <3>2
    <2> HIDE DEF T, g
    <2> QED
      BY <1>2, <1>3, <2>1
  <1>7. s[g + 2] = column /\ (Len(s) = g + 3 => s[g + 3] = way)
    BY <1>1
  <1> HIDE DEF T, g
  <1>8. /\ Len(T) = g + 3 /\ T[g] = "ORDER" /\ T[g + 1] = "BY"
        /\ T[g + 2] = column /\ T[g + 3] = way
    <2>1. /\ (g - 1) + 1 = g /\ (g - 1) + 2 = g + 1 /\ (g - 1) + 3 = g + 2
          /\ (g - 1) + 4 = g + 3
      BY <1>1
    <2>2. 1 \in 1 .. 4 /\ 2 \in 1 .. 4 /\ 3 \in 1 .. 4 /\ 4 \in 1 .. 4
      OBVIOUS
    <2> QED
      BY <1>3, <1>6, <2>1, <2>2
  <1>9. ASSUME NEW k \in 1 .. g + 2
        PROVE  T[k] = s[k]
    <2>1. k \in 1 .. g - 1 \/ k = g \/ k = g + 1 \/ k = g + 2
      BY <1>1
    <2> QED
      BY <1>2, <1>5, <1>6, <1>7, <1>8, <2>1
  <1>10. ASSUME Len(s) = g + 3
         PROVE  s = T
    <2>1. \A k \in 1 .. g + 3 : s[k] = T[k]
      <3> TAKE k \in 1 .. g + 3
      <3>1. k \in 1 .. g + 2 \/ k = g + 3
        BY <1>1
      <3> QED
        BY <1>7, <1>8, <1>9, <1>10, <3>1
    <2> QED
      BY <1>6, <1>8, <1>10, <2>1, SeqEqual
  <1>11. ASSUME Len(s) = g + 2
         PROVE  s = Front(T) /\ Last(T) = way
    <2>1. Front(T) = SubSeq(T, 1, g + 2) /\ Last(T) = way
      <3>1. Len(T) - 1 = g + 2
        BY <1>1, <1>8
      <3> QED
        BY <1>8, <3>1 DEF Front, Last
    <2>2. \A k \in 1 .. g + 2 : T[k] \in Tokens
      BY <1>1, <1>6, <1>8, ElementOfSeq
    <2>3. /\ SubSeq(T, 1, g + 2) \in Seq(Tokens) /\ Len(SubSeq(T, 1, g + 2)) = g + 2
          /\ \A k \in 1 .. g + 2 : SubSeq(T, 1, g + 2)[k] = T[k]
      BY <1>1, <2>2, SubSeqProperties
    <2> QED
      BY <1>9, <1>11, <2>1, <2>3, SeqEqual
  <1> QED
    BY <1>10, <1>11 DEF T, g
\* Where the statement is complete it says what its text says.
LEMMA Says ==
  ASSUME NEW p \in Complete, NEW s \in Seq(Tokens), NEW st \in Statement, Layout(p, s, st)
  PROVE  \/ s = TextOf(st)
         \/ st.order_by # <<>> /\ Last(TextOf(st)) = "ASC" /\ s = Front(TextOf(st))
  <1> DEFINE H == TextOfTable(st) \o TextOfWhere(st)
  <1>1. OrderAt(st) \in Int
    BY DEF OrderAt, FromAt, Statement
  <1>2. CASE p \in {"from read", "where read"}
    <2>1. /\ TableRead(s, st) /\ WhereRead(s, st) /\ st.order_by = <<>>
          /\ Len(s) = OrderAt(st) - 1
      <3>1. FromAt(st) \in Nat
        BY DEF FromAt, Statement
      <3>2. CASE p = "from read"
        <4>1. AtFromRead(s, st)
          BY <3>2 DEF Layout
        <4>2. OrderAt(st) = FromAt(st) + 2
          BY ONLY <3>1, <4>1 DEF AtFromRead, OrderAt
        <4> QED
          BY ONLY <3>1, <4>1, <4>2 DEF AtFromRead, WhereRead
      <3>3. CASE p = "where read"
        <4>1. AtWhereRead(s, st)
          BY <3>3 DEF Layout
        <4>2. OrderAt(st) = FromAt(st) + 6
          BY ONLY <3>1, <4>1 DEF AtWhereRead, OrderAt
        <4> QED
          BY ONLY <3>1, <4>1, <4>2 DEF AtWhereRead
      <3> QED
        BY <1>2, <3>2, <3>3
    <2>2. /\ H \in Seq(Tokens) /\ Len(H) = Len(s)
          /\ \A k \in 1 .. Len(s) : s[k] = H[k]
      BY <2>1, WhereSays
    <2>3. s = H
      BY <2>2, SeqEqual
    <2>4. TextOf(st) = H
      <3>1. H \o <<>> = H
        BY <2>2, ConcatEmptySeq
      <3> QED
        BY <2>1, <3>1 DEF TextOf, TextOfOrder
    <2> QED
      BY <2>3, <2>4
  <1>3. CASE p = "order read"
    <2>1. /\ ByRead(s, st) /\ Len(s) = OrderAt(st) + 2
          /\ st.order_by = <<s[OrderAt(st) + 2], "ASC">>
      BY <1>3 DEF Layout, AtOrderRead
    <2>2. s[OrderAt(st) + 2] \in Tokens /\ "ASC" \in Tokens
      <3>1. OrderAt(st) + 2 \in 1 .. Len(s)
        BY <2>1 DEF OrderAt, FromAt, Statement
      <3> QED
        BY <3>1, ElementOfSeq DEF Tokens, Keywords
    <2>3. s = Front(TextOf(st)) /\ Last(TextOf(st)) = "ASC"
      BY <2>1, <2>2, OrderSays
    <2> QED
      BY <2>1, <2>3
  <1>4. CASE p = "read"
    <2>1. /\ ByRead(s, st) /\ Len(s) = OrderAt(st) + 3
          /\ st.order_by = <<s[OrderAt(st) + 2], s[OrderAt(st) + 3]>>
      BY <1>4 DEF Layout, AtRead
    <2>2. s[OrderAt(st) + 2] \in Tokens /\ s[OrderAt(st) + 3] \in Tokens
      <3>1. OrderAt(st) + 2 \in 1 .. Len(s) /\ OrderAt(st) + 3 \in 1 .. Len(s)
        BY <2>1 DEF OrderAt, FromAt, Statement
      <3> QED
        BY <3>1, ElementOfSeq
    <2>3. s = TextOf(st)
      BY <2>1, <2>2, OrderSays
    <2> QED
      BY <2>3
  <1> QED
    BY <1>2, <1>3, <1>4 DEF Complete

-----------------------------------------------------------------------------
(* The invariant *)

\* Nothing has been read at first.
LEMMA InitLayout == ParserInit => ParserTypeInv /\ LayoutInv
  BY DEF ParserInit, ParserTypeInv, LayoutInv, Layout, AtStart, Places, Ended, Statement, Empty

\* A step that reads a token and goes on keeps to the layout.
LEMMA StepLayout ==
  ASSUME ParserTypeInv, LayoutInv, ParserNext, at' \notin Ended
  PROVE  ParserTypeInv' /\ LayoutInv'
  <1>0. tokens \in Seq(Tokens) /\ at \in Places /\ stmt \in Statement /\ Layout(at, tokens, stmt)
    BY DEF ParserTypeInv, LayoutInv
  <1>1. CASE Select
    <2>1. at = "start" /\ tokens' = Append(tokens, "SELECT") /\ at' = "columns" /\ stmt' = stmt
      BY <1>1 DEF Select, Read
    <2>2. tokens = <<>> /\ stmt = Empty
      BY <1>0, <2>1 DEF Layout, AtStart
    <2>9. tokens' \in Seq(Tokens) /\ stmt' \in Statement /\ AtColumns(tokens', stmt')
      BY ONLY <1>0, <2>1, <2>2, SelectStep
    <2> QED
      BY <2>1, <2>9 DEF Layout, Places, ParserTypeInv, LayoutInv
  <1>2. CASE Column
    <2>1. PICK t \in Taken \ {"FROM"} : Read(t, "columns", "columns", With("select_columns", t))
      BY <1>2 DEF Column
    <2>2. t \in Tokens \ {"FROM"}
      BY TakenAssumption
    <2>3. /\ at = "columns" /\ tokens' = Append(tokens, t) /\ at' = "columns"
          /\ stmt' = [stmt EXCEPT !.select_columns = Append(@, t)]
      BY <1>0, <2>1 DEF Read, With, Statement
    <2>4. AtColumns(tokens, stmt)
      BY <1>0, <2>3 DEF Layout
    <2>9. tokens' \in Seq(Tokens) /\ stmt' \in Statement /\ AtColumns(tokens', stmt')
      BY ONLY <1>0, <2>2, <2>3, <2>4, ColumnStep
    <2> QED
      BY <2>3, <2>9 DEF Layout, Places, ParserTypeInv, LayoutInv
  <1>3. CASE From
    <2>1. /\ at = "columns" /\ tokens' = Append(tokens, "FROM") /\ at' = "table"
          /\ stmt' = stmt /\ stmt.select_columns # <<>>
      BY <1>3 DEF From, Read
    <2>2. AtColumns(tokens, stmt)
      BY <1>0, <2>1 DEF Layout
    <2>9. tokens' \in Seq(Tokens) /\ stmt' \in Statement /\ AtTable(tokens', stmt')
      BY ONLY <1>0, <2>1, <2>2, FromStep
    <2> QED
      BY <2>1, <2>9 DEF Layout, Places, ParserTypeInv, LayoutInv
  <1>4. CASE Table
    <2>1. PICK t \in Taken : Read(t, "table", "from read", With("from_table", t))
      BY <1>4 DEF Table
    <2>2. t \in Tokens
      BY TakenAssumption
    <2>3. /\ at = "table" /\ tokens' = Append(tokens, t) /\ at' = "from read"
          /\ stmt' = [stmt EXCEPT !.from_table = Append(@, t)]
      BY <1>0, <2>1 DEF Read, With, Statement
    <2>4. AtTable(tokens, stmt)
      BY <1>0, <2>3 DEF Layout
    <2>7. LET st2 == [stmt EXCEPT !.from_table = Append(@, t)]
          IN  st2 \in Statement /\ AtFromRead(Append(tokens, t), st2)
      BY ONLY <1>0, <2>2, <2>3, <2>4, TableStep
    <2>8. Append(tokens, t) \in Seq(Tokens)
      BY ONLY <1>0, <2>2
    <2>9. tokens' \in Seq(Tokens) /\ stmt' \in Statement /\ AtFromRead(tokens', stmt')
      BY ONLY <1>0, <2>3, <2>7, <2>8
    <2> QED
      BY <2>3, <2>9 DEF Layout, Places, ParserTypeInv, LayoutInv
  <1>5. CASE Where
    <2>1. /\ at = "from read" /\ tokens' = Append(tokens, "WHERE") /\ at' = "where"
          /\ stmt' = stmt
      BY <1>5 DEF Where, Read
    <2>2. AtFromRead(tokens, stmt)
      BY <1>0, <2>1 DEF Layout
    <2>7. "WHERE" \in Tokens /\ AtWhere(Append(tokens, "WHERE"), stmt)
      BY ONLY <1>0, <2>1, <2>2, WhereStep
    <2>8. Append(tokens, "WHERE") \in Seq(Tokens)
      BY ONLY <1>0, <2>7
    <2>9. tokens' \in Seq(Tokens) /\ stmt' \in Statement /\ AtWhere(tokens', stmt')
      BY ONLY <1>0, <2>1, <2>7, <2>8
    <2> QED
      BY <2>1, <2>9 DEF Layout, Places, ParserTypeInv, LayoutInv
  <1>6. CASE Condition
    <2>1. PICK t \in Taken :
             Read(t, "where", IF Len(stmt.where_clause) = 2 THEN "where read" ELSE "where",
                  With("where_clause", t))
      BY <1>6 DEF Condition
    <2>2. t \in Tokens
      BY TakenAssumption
    <2>3. /\ at = "where" /\ tokens' = Append(tokens, t)
          /\ at' = IF Len(stmt.where_clause) = 2 THEN "where read" ELSE "where"
          /\ stmt' = [stmt EXCEPT !.where_clause = Append(@, t)]
      BY <1>0, <2>1 DEF Read, With, Statement
    <2>4. AtWhere(tokens, stmt)
      BY <1>0, <2>3 DEF Layout
    <2>5. /\ tokens' \in Seq(Tokens) /\ stmt' \in Statement
          /\ Len(stmt.where_clause) = 2 => AtWhereRead(tokens', stmt')
          /\ Len(stmt.where_clause) # 2 => AtWhere(tokens', stmt')
      <3>1. LET st2 == [stmt EXCEPT !.where_clause = Append(@, t)]
            IN  /\ st2 \in Statement
                /\ Len(stmt.where_clause) = 2 => AtWhereRead(Append(tokens, t), st2)
                /\ Len(stmt.where_clause) # 2 => AtWhere(Append(tokens, t), st2)
        BY ONLY <1>0, <2>2, <2>4, ConditionStep
      <3>2. Append(tokens, t) \in Seq(Tokens)
        BY ONLY <1>0, <2>2
      <3> QED
        BY ONLY <2>3, <3>1, <3>2
    <2> QED
      BY <2>3, <2>5 DEF Layout, Places, ParserTypeInv, LayoutInv
  <1>7. CASE Order
    <2>1. /\ at \in {"from read", "where read"} /\ tokens' = Append(tokens, "ORDER")
          /\ at' = "order" /\ stmt' = stmt
      BY <1>7 DEF Order, Read
    <2>2. AtFromRead(tokens, stmt) \/ AtWhereRead(tokens, stmt)
      BY <1>0, <2>1 DEF Layout
    <2>7. "ORDER" \in Tokens /\ AtOrder(Append(tokens, "ORDER"), stmt)
      BY ONLY <1>0, <2>1, <2>2, OrderStep
    <2>8. Append(tokens, "ORDER") \in Seq(Tokens)
      BY ONLY <1>0, <2>7
    <2>9. tokens' \in Seq(Tokens) /\ stmt' \in Statement /\ AtOrder(tokens', stmt')
      BY ONLY <1>0, <2>1, <2>7, <2>8
    <2> QED
      BY <2>1, <2>9 DEF Layout, Places, ParserTypeInv, LayoutInv
  <1>8. CASE By
    <2>1. at = "order" /\ tokens' = Append(tokens, "BY") /\ at' = "by" /\ stmt' = stmt
      BY <1>8 DEF By, Read
    <2>2. AtOrder(tokens, stmt)
      BY <1>0, <2>1 DEF Layout
    <2>9. tokens' \in Seq(Tokens) /\ stmt' \in Statement /\ AtBy(tokens', stmt')
      BY ONLY <1>0, <2>1, <2>2, ByStep
    <2> QED
      BY <2>1, <2>9 DEF Layout, Places, ParserTypeInv, LayoutInv
  <1>9. CASE OrderColumn
    <2>1. PICK t \in Taken :
             Read(t, "by", "order read", [stmt EXCEPT !.order_by = <<t, "ASC">>])
      BY <1>9 DEF OrderColumn
    <2>2. t \in Tokens
      BY TakenAssumption
    <2>3. /\ at = "by" /\ tokens' = Append(tokens, t) /\ at' = "order read"
          /\ stmt' = [stmt EXCEPT !.order_by = <<t, "ASC">>]
      BY <2>1 DEF Read
    <2>4. AtBy(tokens, stmt)
      BY <1>0, <2>3 DEF Layout
    <2>7. LET st2 == [stmt EXCEPT !.order_by = <<t, "ASC">>]
          IN  st2 \in Statement /\ AtOrderRead(Append(tokens, t), st2)
      BY ONLY <1>0, <2>2, <2>3, <2>4, OrderColumnStep
    <2>8. Append(tokens, t) \in Seq(Tokens)
      BY ONLY <1>0, <2>2
    <2>9. tokens' \in Seq(Tokens) /\ stmt' \in Statement /\ AtOrderRead(tokens', stmt')
      BY ONLY <1>0, <2>3, <2>7, <2>8
    <2> QED
      BY <2>3, <2>9 DEF Layout, Places, ParserTypeInv, LayoutInv
  <1>10. CASE Direction
    <2>1. PICK t \in {"ASC", "DESC"} :
             Read(t, "order read", "read", [stmt EXCEPT !.order_by[2] = t])
      BY <1>10 DEF Direction
    <2>2. /\ at = "order read" /\ tokens' = Append(tokens, t) /\ at' = "read"
          /\ stmt' = [stmt EXCEPT !.order_by[2] = t]
      BY <2>1 DEF Read
    <2>3. AtOrderRead(tokens, stmt)
      BY <1>0, <2>2 DEF Layout
    <2>7. LET st2 == [stmt EXCEPT !.order_by[2] = t]
          IN  t \in Tokens /\ st2 \in Statement /\ AtRead(Append(tokens, t), st2)
      BY ONLY <1>0, <2>2, <2>3, <2>1, DirectionStep
    <2>8. Append(tokens, t) \in Seq(Tokens)
      BY ONLY <1>0, <2>7
    <2>9. tokens' \in Seq(Tokens) /\ stmt' \in Statement /\ AtRead(tokens', stmt')
      BY ONLY <1>0, <2>2, <2>7, <2>8
    <2> QED
      BY <2>2, <2>9 DEF Layout, Places, ParserTypeInv, LayoutInv
  <1>11. CASE Accept \/ Unexpected \/ Truncated
    BY <1>11 DEF Accept, Unexpected, Truncated, Read, Ended
  <1> QED
    BY <1>1, <1>2, <1>3, <1>4, <1>5, <1>6, <1>7, <1>8, <1>9, <1>10, <1>11 DEF ParserNext
\* The query ends where it is complete.
LEMMA AcceptStep ==
  ASSUME ParserTypeInv, LayoutInv, Accept
  PROVE  ParserInv'
  <1>1. /\ at \in Complete /\ at' = "accepted" /\ tokens' = tokens /\ stmt' = stmt
        /\ tokens \in Seq(Tokens) /\ stmt \in Statement /\ Layout(at, tokens, stmt)
    BY DEF Accept, ParserTypeInv, LayoutInv
  <1>2. at \in Places \ Ended
    BY <1>1 DEF Complete, Places, Ended
  <1>3. Viable(tokens) /\ IsQuery(tokens)
    BY <1>1, <1>2, Going
  <1>4. \/ tokens = TextOf(stmt)
        \/ /\ stmt.order_by # <<>> /\ Last(TextOf(stmt)) = "ASC"
           /\ tokens = Front(TextOf(stmt))
    BY <1>1, Says
  <1>5. ParserTypeInv' /\ LayoutInv'
    BY <1>1 DEF ParserTypeInv, LayoutInv, Layout, Places, Ended
  <1>6. AcceptsTheGrammar'
    BY <1>1, <1>3 DEF AcceptsTheGrammar
  <1>7. StatementSaysTheText'
    BY <1>1, <1>4
    DEF StatementSaysTheText, TextOf, TextOfTable, TextOfWhere, TextOfOrder
  <1> QED
    BY <1>5, <1>6, <1>7 DEF ParserInv

\* After a token that does not fit no query is possible.
LEMMA UnexpectedStep ==
  ASSUME ParserTypeInv, LayoutInv, Unexpected
  PROVE  ParserInv'
  <1>0. tokens \in Seq(Tokens) /\ stmt \in Statement /\ Layout(at, tokens, stmt)
    BY DEF ParserTypeInv, LayoutInv
  <1>1. PICK t \in Tokens \ Expected : Read(t, at, "error", stmt)
    BY DEF Unexpected
  <1>2. /\ tokens' = Append(tokens, t) /\ at' = "error" /\ stmt' = stmt
        /\ at \in Places \ Ended
    BY <1>1 DEF Unexpected, Read, ParserTypeInv, Ended
  <1> DEFINE f == FromAt(stmt)
             v == IF stmt.where_clause = <<>> THEN 0 ELSE 4
  <1>3. f \in Nat /\ v \in {0, 4} /\ OrderAt(stmt) = f + 2 + v
    BY <1>0 DEF Statement, FromAt, OrderAt
  <1>4. TableRead(tokens, stmt) => Heads(tokens, f)
    BY DEF TableRead, FromRead
  <1>5. WhereRead(tokens, stmt) /\ v = 4 => tokens[f + 2] = "WHERE"
    BY DEF WhereRead
  <1>6. OrderRead(tokens, stmt) =>
            /\ Heads(tokens, f) /\ (v = 4 => tokens[f + 2] = "WHERE")
            /\ Len(tokens) >= f + 2 + v /\ tokens[f + 2 + v] = "ORDER"
    BY <1>3, <1>4, <1>5 DEF OrderRead
  <1>7. stmt.where_clause # <<>> => v = 4
    OBVIOUS
  <1> HIDE DEF v
  <1>8. ~Viable(Append(tokens, t))
    <2>1. CASE at = "start"
      <3>1. tokens = <<>>
        BY <1>0, <2>1 DEF Layout, AtStart
      <3>2. t \in Tokens \ {"SELECT"}
        BY <1>1, <2>1 DEF Expected
      <3> QED
        BY <3>1, <3>2, StartFails
    <2>2. CASE at = "columns"
      <3>1. stmt.select_columns = <<>> /\ t = "FROM"
        BY <1>1, <2>2 DEF Expected
      <3>2. Len(tokens) = 1
        BY <1>0, <2>2, <3>1 DEF Layout, AtColumns
      <3> QED
        BY <1>0, <3>1, <3>2, NoColumnFails
    <2>3. CASE at = "from read"
      <3>1. Heads(tokens, f) /\ Len(tokens) = f + 1
        BY <1>0, <1>4, <2>3 DEF Layout, AtFromRead
      <3>2. t \in Tokens \ {"WHERE", "ORDER"}
        BY <1>1, <2>3 DEF Expected
      <3> QED
        BY <1>0, <3>1, <3>2, AfterTableFails
    <2>4. CASE at = "where read"
      <3>1. Heads(tokens, f) /\ Len(tokens) = f + 5 /\ tokens[f + 2] = "WHERE"
        BY <1>0, <1>4, <1>5, <1>7, <2>4 DEF Layout, AtWhereRead
      <3>2. t \in Tokens \ {"ORDER"}
        BY <1>1, <2>4 DEF Expected
      <3> QED
        BY <1>0, <3>1, <3>2, AfterWhereFails
    <2>5. CASE at \in {"order", "order read", "read"}
      <3>1. /\ OrderRead(tokens, stmt)
            /\ \/ at = "order" /\ Len(tokens) = OrderAt(stmt)
               \/ at = "order read" /\ Len(tokens) = OrderAt(stmt) + 2
               \/ at = "read" /\ Len(tokens) = OrderAt(stmt) + 3
        BY <1>0, <2>5 DEF Layout, AtOrder, AtOrderRead, AtRead, ByRead
      <3>2. /\ at = "order" => t # "BY"
            /\ at = "order read" => t \notin {"ASC", "DESC"}
        BY <1>1, <2>5 DEF Expected
      <3>3. OrderAt(stmt) + 2 = f + 4 + v /\ OrderAt(stmt) + 3 = f + 5 + v
        BY <1>3
      <3>4. \/ Len(tokens) = f + 2 + v /\ t # "BY"
            \/ Len(tokens) = f + 4 + v /\ t \notin {"ASC", "DESC"}
            \/ Len(tokens) = f + 5 + v
        BY <1>3, <3>1, <3>2, <3>3
      <3>5. /\ Heads(tokens, f) /\ (v = 4 => tokens[f + 2] = "WHERE")
            /\ Len(tokens) >= f + 2 + v /\ tokens[f + 2 + v] = "ORDER"
        BY <1>6, <3>1
      <3> HIDE DEF f
      <3> QED
        BY <1>0, <1>3, <3>4, <3>5, AfterOrderFails
    <2>6. CASE at \in {"table", "where", "by"}
      BY <1>1, <2>6 DEF Expected
    <2> QED
      BY <1>2, <2>1, <2>2, <2>3, <2>4, <2>5, <2>6 DEF Places, Ended
  <1>9. ParserTypeInv' /\ LayoutInv'
    <2>1. Append(tokens, t) \in Seq(Tokens)
      BY ONLY <1>0, <1>1
    <2> QED
      BY ONLY <1>0, <1>2, <2>1 DEF ParserTypeInv, LayoutInv, Layout, Places, Ended
  <1>10. AcceptsTheGrammar' /\ StatementSaysTheText'
    BY <1>2, <1>8 DEF AcceptsTheGrammar, StatementSaysTheText
  <1> QED
    BY <1>9, <1>10 DEF ParserInv

\* A text that ends before it is complete is no query yet.
LEMMA TruncatedStep ==
  ASSUME ParserTypeInv, LayoutInv, Truncated
  PROVE  ParserInv'
  <1>1. /\ at \in Places \ Ended /\ at \notin Complete
        /\ at' = "truncated" /\ tokens' = tokens /\ stmt' = stmt
        /\ tokens \in Seq(Tokens) /\ stmt \in Statement /\ Layout(at, tokens, stmt)
    BY DEF Truncated, ParserTypeInv, LayoutInv, Ended
  <1>2. Viable(tokens) /\ ~IsQuery(tokens)
    BY <1>1, Going
  <1>3. ParserTypeInv' /\ LayoutInv'
    BY <1>1 DEF ParserTypeInv, LayoutInv, Layout, Places, Ended
  <1>4. AcceptsTheGrammar' /\ StatementSaysTheText'
    BY <1>1, <1>2 DEF AcceptsTheGrammar, StatementSaysTheText
  <1> QED
    BY <1>3, <1>4 DEF ParserInv

\* Every behaviour of the parser keeps the invariant.
THEOREM ParserInvariance == ParserSpec => []ParserInv
  <1>1. ASSUME ParserTypeInv, LayoutInv, at \notin Ended
        PROVE  ParserInv
    <2>1. Viable(tokens)
      BY <1>1, Going DEF ParserTypeInv, LayoutInv
    <2>2. AcceptsTheGrammar /\ StatementSaysTheText
      BY <1>1, <2>1 DEF AcceptsTheGrammar, StatementSaysTheText, Ended
    <2> QED
      BY <1>1, <2>2 DEF ParserInv
  <1>2. ParserInit => ParserInv
    BY <1>1, InitLayout DEF ParserInit, Ended
  <1>3. ParserInv /\ [ParserNext]_parserVars => ParserInv'
    <2> SUFFICES ASSUME ParserInv, [ParserNext]_parserVars
                 PROVE  ParserInv'
      OBVIOUS
    <2>0. ParserTypeInv /\ LayoutInv
      BY DEF ParserInv
    <2>1. CASE Accept
      BY <2>0, <2>1, AcceptStep
    <2>2. CASE Unexpected
      BY <2>0, <2>2, UnexpectedStep
    <2>3. CASE Truncated
      BY <2>0, <2>3, TruncatedStep
    <2>4. CASE ParserNext /\ ~(Accept \/ Unexpected \/ Truncated)
      <3>1. at' \notin Ended
        BY <2>4 DEF ParserNext, Select, Column, From, Table, Where, Condition, Order, By,
                    OrderColumn, Direction, Read, Ended
      <3>2. ParserTypeInv' /\ LayoutInv'
        BY <2>0, <2>4, <3>1, StepLayout
      <3>3. Viable(tokens')
        BY <3>1, <3>2, Going DEF ParserTypeInv, LayoutInv
      <3>4. AcceptsTheGrammar' /\ StatementSaysTheText'
        BY <3>1, <3>3 DEF AcceptsTheGrammar, StatementSaysTheText, Ended
      <3> QED
        BY <3>2, <3>4 DEF ParserInv
    <2>5. CASE UNCHANGED parserVars
      BY <2>5 DEF parserVars, ParserInv, ParserTypeInv, LayoutInv, AcceptsTheGrammar, StatementSaysTheText
    <2> QED
      BY <2>1, <2>2, <2>3, <2>4, <2>5
  <1> QED
    BY <1>2, <1>3, PTL DEF ParserSpec

\* For any names, any text and any number of columns: the parser accepts the queries of the
\* grammar and no other text, and gives up at the first token after which none is possible.
THEOREM GrammarCorrect == ParserSpec => []AcceptsTheGrammar
  <1>1. ParserInv => AcceptsTheGrammar
    BY DEF ParserInv
  <1> QED
    BY <1>1, ParserInvariance, PTL

\* An accepted statement says what its text says, for any of them.
THEOREM StatementCorrect == ParserSpec => []StatementSaysTheText
  <1>1. ParserInv => StatementSaysTheText
    BY DEF ParserInv
  <1> QED
    BY <1>1, ParserInvariance, PTL
=============================================================================
