---------------------------- MODULE BTreeLemmas -----------------------------
(***************************************************************************)
(* What the changes of BTreeIndex.cpp do to a search tree, whatever the    *)
(* tree. A tree is a map of pages together with what no page records:      *)
(* which pages are live, how high each is above the leaves, between which  *)
(* bounds its keys are and whose child it is. Each lemma takes a tree and  *)
(* one change of its pages (a page is split, a child is put in or taken    *)
(* out, two siblings become one, a sibling lends a key) and says that a    *)
(* tree is left, and which entries its leaves hold then. First come the    *)
(* lemmas on ascending keys, on sequences and on entries that they need,   *)
(* last the path from the root and the steps that change or split a leaf.  *)
(***************************************************************************)
EXTENDS IndexRecovery, FiniteSetTheorems, SequenceTheorems, WellFoundedInduction, TLAPS

-----------------------------------------------------------------------------
(* Positions *)

\* Where a key belongs among ascending keys: behind u of them.
IsSlot(keys, k, u) ==
    /\ u \in 0 .. Len(keys)
    /\ \A j \in 1 .. u : keys[j] <= k
    /\ \A j \in u + 1 .. Len(keys) : k < keys[j]

\* The keys of a node are in ascending order.
Ascending(keys) == \A i, j \in DOMAIN keys : i < j => keys[i] < keys[j]

\* A set of numbers that is not empty has a least one.
LEMMA LeastOf ==
    ASSUME NEW S \in SUBSET Nat, S # {}
    PROVE  \E n \in S : \A m \in S : n <= m
  <1>1. PICK n \in S : \A m \in S : ~(<<m, n>> \in OpToRel(<, Nat))
    BY WFMin, NatLessThanWellFounded
  <1>2. \A m \in S : ~(m < n)
    BY <1>1 DEF OpToRel
  <1> QED
    BY <1>2

\* The positions up to which something holds, if it holds of those before each of them.
LEMMA PrefixIsInterval ==
    ASSUME NEW n \in Nat, NEW S \in SUBSET (1 .. n),
           \A i \in S, j \in 1 .. n : j < i => j \in S
    PROVE  \E u \in 0 .. n : S = 1 .. u /\ Cardinality(S) = u
  <1> DEFINE T == (1 .. n + 1) \ S
  <1>1. n + 1 \in T
    OBVIOUS
  <1>2. T \in SUBSET Nat /\ T # {}
    BY <1>1
  <1> HIDE DEF T
  <1>3. PICK m \in T : \A x \in T : m <= x
    BY <1>2, LeastOf
  <1>4. m \in 1 .. n + 1 /\ m \notin S /\ \A x \in 1 .. n + 1 : x < m => x \in S
    BY <1>3 DEF T
  <1>5. S = 1 .. m - 1
    <2>1. ASSUME NEW x \in S PROVE x \in 1 .. m - 1
      <3>1. x \in 1 .. n /\ ~(m < x) /\ x # m
        BY <1>4
      <3> QED
        BY <1>4, <3>1
    <2>2. ASSUME NEW x \in 1 .. m - 1 PROVE x \in S
      BY <1>4
    <2> QED
      BY <2>1, <2>2
  <1>6. Cardinality(1 .. m - 1) = m - 1
    BY <1>4, FS_Interval
  <1> QED
    BY <1>4, <1>5, <1>6

\* UpperBound is the place of a key,
LEMMA UpperBoundIsSlot ==
    ASSUME NEW keys \in Seq(Int), Ascending(keys), NEW k \in Int
    PROVE  IsSlot(keys, k, UpperBound(keys, k))
  <1> DEFINE S == {j \in DOMAIN keys : keys[j] <= k}
  <1>1. S \in SUBSET (1 .. Len(keys)) /\ Len(keys) \in Nat
    OBVIOUS
  <1>2. \A i \in S, j \in 1 .. Len(keys) : j < i => j \in S
    BY DEF Ascending
  <1>3. PICK u \in 0 .. Len(keys) : S = 1 .. u /\ Cardinality(S) = u
    BY <1>1, <1>2, PrefixIsInterval
  <1>4. UpperBound(keys, k) = u
    BY <1>3 DEF UpperBound
  <1>5. \A j \in 1 .. Len(keys) : keys[j] \in Int /\ (j \in 1 .. u <=> keys[j] <= k)
    BY <1>3
  <1> QED
    BY <1>4, <1>5 DEF IsSlot

\* and there is only one.
LEMMA SlotUnique ==
    ASSUME NEW keys \in Seq(Int), NEW k \in Int, NEW u, NEW v,
           IsSlot(keys, k, u), IsSlot(keys, k, v)
    PROVE  u = v
  <1>1. u \in 0 .. Len(keys) /\ v \in 0 .. Len(keys) /\ Len(keys) \in Nat
    BY DEF IsSlot
  <1>2. ~(u < v)
    <2> SUFFICES ASSUME u < v PROVE FALSE
      OBVIOUS
    <2>1. v \in u + 1 .. Len(keys) /\ v \in 1 .. v
      BY <1>1
    <2> QED
      BY <2>1 DEF IsSlot
  <1>3. ~(v < u)
    <2> SUFFICES ASSUME v < u PROVE FALSE
      OBVIOUS
    <2>1. u \in v + 1 .. Len(keys) /\ u \in 1 .. u
      BY <1>1
    <2> QED
      BY <2>1 DEF IsSlot
  <1> QED
    BY <1>1, <1>2, <1>3

\* LowerBound is the place before the key, if it is there.
LEMMA LowerBoundFinds ==
    ASSUME NEW keys \in Seq(Int), Ascending(keys), NEW k \in Int
    PROVE  /\ LowerBound(keys, k) \in 0 .. Len(keys)
           /\ \A j \in DOMAIN keys : j <= LowerBound(keys, k) <=> keys[j] < k
           /\ \A j \in DOMAIN keys : keys[j] = k => j = LowerBound(keys, k) + 1
  <1> DEFINE S == {j \in DOMAIN keys : keys[j] < k}
  <1>1. S \in SUBSET (1 .. Len(keys)) /\ Len(keys) \in Nat
    OBVIOUS
  <1>2. \A i \in S, j \in 1 .. Len(keys) : j < i => j \in S
    BY DEF Ascending
  <1>3. PICK u \in 0 .. Len(keys) : S = 1 .. u /\ Cardinality(S) = u
    BY <1>1, <1>2, PrefixIsInterval
  <1>4. LowerBound(keys, k) = u
    BY <1>3 DEF LowerBound
  <1>5. \A j \in DOMAIN keys : keys[j] \in Int /\ (j \in 1 .. u <=> keys[j] < k)
    BY <1>3
  <1>6. ASSUME NEW j \in DOMAIN keys, keys[j] = k PROVE j = u + 1
    <2>1. j > u /\ j \in 1 .. Len(keys)
      BY <1>5, <1>6
    <2>2. CASE j > u + 1
      <3>1. u + 1 \in DOMAIN keys /\ u + 1 < j
        BY <2>1, <2>2
      <3>2. keys[u + 1] < k
        BY <3>1, <1>6 DEF Ascending
      <3> QED
        BY <3>1, <3>2, <1>5
    <2> QED
      BY <2>1, <2>2
  <1> QED
    BY <1>4, <1>5, <1>6

-----------------------------------------------------------------------------
(* Sequences *)

\* The elements of a part of a sequence.
LEMMA PartOf ==
    ASSUME NEW T, NEW s \in Seq(T), NEW m \in 1 .. Len(s) + 1, NEW n \in 0 .. Len(s), m <= n + 1
    PROVE  /\ SubSeq(s, m, n) \in Seq(T) /\ Len(SubSeq(s, m, n)) = n - m + 1
           /\ \A j \in 1 .. n - m + 1 : SubSeq(s, m, n)[j] = s[j + m - 1]
  <1>1. \A j \in m .. n : j \in 1 .. Len(s)
    OBVIOUS
  <1> QED
    BY <1>1, SubSeqProperties

\* What Take gives.
LEMMA TakeEffect ==
    ASSUME NEW T, NEW s \in Seq(T), NEW n \in 0 .. Len(s)
    PROVE  /\ Take(s, n) \in Seq(T) /\ Len(Take(s, n)) = n /\ DOMAIN Take(s, n) = 1 .. n
           /\ \A j \in 1 .. n : Take(s, n)[j] = s[j]
  <1>1. 1 \in 1 .. Len(s) + 1 /\ 1 <= n + 1 /\ n - 1 + 1 = n /\ \A j \in 1 .. n : j + 1 - 1 = j
    OBVIOUS
  <1> QED
    BY <1>1, PartOf DEF Take

\* What Drop gives.
LEMMA DropEffect ==
    ASSUME NEW T, NEW s \in Seq(T), NEW n \in 0 .. Len(s)
    PROVE  /\ Drop(s, n) \in Seq(T) /\ Len(Drop(s, n)) = Len(s) - n
           /\ DOMAIN Drop(s, n) = 1 .. Len(s) - n
           /\ \A j \in 1 .. Len(s) - n : Drop(s, n)[j] = s[j + n]
  <1> DEFINE d == SubSeq(s, n + 1, Len(s))
  <1>1. n + 1 \in 1 .. Len(s) + 1 /\ Len(s) \in 0 .. Len(s) /\ n + 1 <= Len(s) + 1
    OBVIOUS
  <1>2. /\ d \in Seq(T) /\ Len(d) = Len(s) - (n + 1) + 1
        /\ \A j \in 1 .. Len(s) - (n + 1) + 1 : d[j] = s[j + (n + 1) - 1]
    BY <1>1, PartOf
  <1>3. Len(s) - (n + 1) + 1 = Len(s) - n /\ \A j \in 1 .. Len(s) - n : j + (n + 1) - 1 = j + n
    OBVIOUS
  <1>4. Drop(s, n) = d
    BY DEF Drop
  <1> HIDE DEF d
  <1>5. Len(d) = Len(s) - n /\ \A j \in 1 .. Len(s) - n : d[j] = s[j + n]
    BY <1>2, <1>3
  <1> QED
    BY <1>2, <1>4, <1>5

\* An element comes in between, or goes.
LEMMA InsertAtEffect ==
    ASSUME NEW T, NEW s \in Seq(T), NEW i \in 1 .. Len(s) + 1, NEW e \in T
    PROVE  /\ InsertAt(s, i, e) \in Seq(T) /\ Len(InsertAt(s, i, e)) = Len(s) + 1
           /\ DOMAIN InsertAt(s, i, e) = 1 .. Len(s) + 1
           /\ \A j \in 1 .. Len(s) + 1 :
                 InsertAt(s, i, e)[j] = IF j < i THEN s[j] ELSE IF j = i THEN e ELSE s[j - 1]
  <1> DEFINE a == SubSeq(s, 1, i - 1)
             b == SubSeq(s, i, Len(s))
  <1>1. /\ a \in Seq(T) /\ Len(a) = i - 1
        /\ \A j \in 1 .. i - 1 : a[j] = s[j]
    <2>1. /\ 1 \in 1 .. Len(s) + 1 /\ i - 1 \in 0 .. Len(s) /\ 1 <= (i - 1) + 1
          /\ i - 1 - 1 + 1 = i - 1 /\ \A j \in 1 .. i - 1 : j + 1 - 1 = j
      OBVIOUS
    <2> QED
      BY <2>1, PartOf
  <1>2. /\ b \in Seq(T) /\ Len(b) = Len(s) - i + 1
        /\ \A j \in 1 .. Len(s) - i + 1 : b[j] = s[j + i - 1]
    <2>1. Len(s) \in 0 .. Len(s) /\ i <= Len(s) + 1
      OBVIOUS
    <2> QED
      BY <2>1, PartOf
  <1>3. InsertAt(s, i, e) = a \o <<e>> \o b
    BY DEF InsertAt
  <1> HIDE DEF a, b
  <1>4. <<e>> \in Seq(T)
    OBVIOUS
  <1>5. /\ (a \o <<e>>) \in Seq(T) /\ Len(a \o <<e>>) = i
        /\ \A j \in 1 .. i : (a \o <<e>>)[j] = IF j < i THEN s[j] ELSE e
    BY <1>1, <1>4
  <1> DEFINE c == a \o <<e>>
  <1> HIDE DEF c
  <1>6. c \in Seq(T) /\ Len(c) = i /\ \A j \in 1 .. i : c[j] = IF j < i THEN s[j] ELSE e
    BY <1>5 DEF c
  <1>7. /\ (c \o b) \in Seq(T) /\ Len(c \o b) = Len(c) + Len(b)
        /\ \A j \in 1 .. Len(c) + Len(b) :
              (c \o b)[j] = IF j <= Len(c) THEN c[j] ELSE b[j - Len(c)]
    BY <1>2, <1>6, ConcatProperties
  <1>8. Len(c) + Len(b) = Len(s) + 1
    BY <1>2, <1>6
  <1> DEFINE r == c \o b
  <1>12. r = c \o b
    OBVIOUS
  <1> HIDE DEF r
  <1>9. ASSUME NEW j \in 1 .. Len(s) + 1
        PROVE  r[j] = IF j < i THEN s[j] ELSE IF j = i THEN e ELSE s[j - 1]
    <2>1. CASE j <= i
      <3>1. r[j] = c[j]
        BY <1>6, <1>7, <1>8, <1>12, <2>1
      <3> QED
        BY <1>6, <2>1, <3>1
    <2>2. CASE j > i
      <3>1. j - i \in 1 .. Len(s) - i + 1 /\ (j - i) + i - 1 = j - 1 /\ ~(j <= i) /\ ~(j < i)
        BY <2>2
      <3>2. r[j] = b[j - i]
        BY <1>6, <1>7, <1>8, <1>12, <3>1
      <3>3. b[j - i] = s[(j - i) + i - 1]
        BY <1>2, <3>1
      <3> QED
        BY <2>2, <3>1, <3>2, <3>3
    <2> QED
      BY <2>1, <2>2
  <1>10. InsertAt(s, i, e) = r
    BY <1>3, <1>12 DEF c
  <1>11. r \in Seq(T) /\ Len(r) = Len(s) + 1 /\ DOMAIN r = 1 .. Len(r)
    BY <1>7, <1>8, <1>12
  <1> QED
    BY <1>9, <1>10, <1>11

\* What RemoveAt gives.
LEMMA RemoveAtEffect ==
    ASSUME NEW T, NEW s \in Seq(T), NEW i \in 1 .. Len(s)
    PROVE  /\ RemoveAt(s, i) \in Seq(T) /\ Len(RemoveAt(s, i)) = Len(s) - 1
           /\ DOMAIN RemoveAt(s, i) = 1 .. Len(s) - 1
           /\ \A j \in 1 .. Len(s) - 1 :
                 RemoveAt(s, i)[j] = IF j < i THEN s[j] ELSE s[j + 1]
  <1> DEFINE a == SubSeq(s, 1, i - 1)
             b == SubSeq(s, i + 1, Len(s))
  <1>1. /\ a \in Seq(T) /\ Len(a) = i - 1
        /\ \A j \in 1 .. i - 1 : a[j] = s[j]
    <2>1. /\ 1 \in 1 .. Len(s) + 1 /\ i - 1 \in 0 .. Len(s) /\ 1 <= (i - 1) + 1
          /\ i - 1 - 1 + 1 = i - 1 /\ \A j \in 1 .. i - 1 : j + 1 - 1 = j
      OBVIOUS
    <2> QED
      BY <2>1, PartOf
  <1>2. /\ b \in Seq(T) /\ Len(b) = Len(s) - i
        /\ \A j \in 1 .. Len(s) - i : b[j] = s[j + i]
    <2>1. i \in 0 .. Len(s) /\ b = Drop(s, i)
      BY DEF Drop
    <2> QED
      BY <2>1, DropEffect
  <1>3. RemoveAt(s, i) = a \o b
    BY DEF RemoveAt
  <1> HIDE DEF a, b
  <1>4. /\ (a \o b) \in Seq(T) /\ Len(a \o b) = Len(a) + Len(b)
        /\ \A j \in 1 .. Len(a) + Len(b) :
              (a \o b)[j] = IF j <= Len(a) THEN a[j] ELSE b[j - Len(a)]
    BY <1>1, <1>2, ConcatProperties
  <1>5. Len(a) + Len(b) = Len(s) - 1
    BY <1>1, <1>2
  <1>6. ASSUME NEW j \in 1 .. Len(s) - 1
        PROVE  (a \o b)[j] = IF j < i THEN s[j] ELSE s[j + 1]
    <2>1. CASE j < i
      BY <1>1, <1>4, <1>5, <2>1
    <2>2. CASE ~(j < i)
      <3>1. j - (i - 1) \in 1 .. Len(s) - i /\ (j - (i - 1)) + i = j + 1 /\ ~(j <= i - 1)
        BY <2>2
      <3> QED
        BY <1>1, <1>2, <1>4, <1>5, <2>2, <3>1
    <2> QED
      BY <2>1, <2>2
  <1>7. DOMAIN (a \o b) = 1 .. Len(a \o b)
    BY <1>4
  <1> QED
    BY <1>3, <1>4, <1>5, <1>6, <1>7

\* The operations of the code at either end are insertions and removals too.
LEMMA EndsAsInsertions ==
    ASSUME NEW T, NEW s \in Seq(T), NEW e \in T
    PROVE  /\ <<e>> \o s = InsertAt(s, 1, e)
           /\ Append(s, e) = InsertAt(s, Len(s) + 1, e)
  <1>1. SubSeq(s, 1, 0) = <<>> /\ SubSeq(s, 1, Len(s)) = s /\ SubSeq(s, Len(s) + 1, Len(s)) = <<>>
    <2>1. /\ SubSeq(s, 1, 0) \in Seq(T) /\ Len(SubSeq(s, 1, 0)) = 0
          /\ SubSeq(s, Len(s) + 1, Len(s)) \in Seq(T) /\ Len(SubSeq(s, Len(s) + 1, Len(s))) = 0
      <3>1. /\ 1 \in 1 .. Len(s) + 1 /\ 0 \in 0 .. Len(s) /\ 1 <= 0 + 1 /\ 0 - 1 + 1 = 0
            /\ Len(s) + 1 \in 1 .. Len(s) + 1 /\ Len(s) \in 0 .. Len(s)
            /\ Len(s) + 1 <= Len(s) + 1 /\ Len(s) - (Len(s) + 1) + 1 = 0
        OBVIOUS
      <3> QED
        BY <3>1, PartOf
    <2>2. \A t \in Seq(T) : Len(t) = 0 => t = <<>>
      BY EmptySeq
    <2>3. Take(s, Len(s)) \in Seq(T) /\ Len(Take(s, Len(s))) = Len(s)
          /\ \A j \in 1 .. Len(s) : Take(s, Len(s))[j] = s[j]
      BY TakeEffect
    <2>4. Take(s, Len(s)) = s
      BY <2>3, SeqEqual
    <2> QED
      BY <2>1, <2>2, <2>4 DEF Take
  <1>2. SubSeq(s, 1, 1 - 1) = <<>> /\ SubSeq(s, 1, Len(s) + 1 - 1) = s
    BY <1>1
  <1>3. <<>> \o <<e>> = <<e>> /\ (s \o <<e>>) \o <<>> = s \o <<e>> /\ s \o <<e>> = Append(s, e)
    <2>1. <<e>> \in Seq(T) /\ s \o <<e>> \in Seq(T)
      OBVIOUS
    <2> QED
      BY <2>1, ConcatEmptySeq, AppendIsConcat
  <1> QED
    BY <1>1, <1>2, <1>3 DEF InsertAt

\* Front and Tail remove the last and the first element.
LEMMA EndsAsRemovals ==
    ASSUME NEW T, NEW s \in Seq(T), s # <<>>
    PROVE  /\ Len(s) \in 1 .. Len(s) /\ 1 \in 1 .. Len(s)
           /\ Front(s) = RemoveAt(s, Len(s)) /\ Last(s) = s[Len(s)]
           /\ Tail(s) = RemoveAt(s, 1) /\ Head(s) = s[1]
  <1>1. Len(s) \in 1 .. Len(s) /\ 1 \in 1 .. Len(s)
    BY EmptySeq
  <1>2. Front(s) \in Seq(T) /\ Len(Front(s)) = Len(s) - 1
        /\ \A j \in 1 .. Len(s) - 1 : Front(s)[j] = s[j]
    <2>1. Front(s) = Take(s, Len(s) - 1) /\ Len(s) - 1 \in 0 .. Len(s)
      BY <1>1 DEF Front, Take
    <2> QED
      BY <2>1, TakeEffect
  <1>3. Front(s) = RemoveAt(s, Len(s))
    <2>1. RemoveAt(s, Len(s)) \in Seq(T) /\ Len(RemoveAt(s, Len(s))) = Len(s) - 1
          /\ \A j \in 1 .. Len(s) - 1 : RemoveAt(s, Len(s))[j] = s[j]
      BY <1>1, RemoveAtEffect
    <2> QED
      BY <1>2, <2>1, SeqEqual
  <1>4. Tail(s) = RemoveAt(s, 1)
    <2>1. RemoveAt(s, 1) \in Seq(T) /\ Len(RemoveAt(s, 1)) = Len(s) - 1
          /\ \A j \in 1 .. Len(s) - 1 : RemoveAt(s, 1)[j] = s[j + 1]
      BY <1>1, RemoveAtEffect
    <2>2. Tail(s) \in Seq(T) /\ Len(Tail(s)) = Len(s) - 1
          /\ \A j \in 1 .. Len(s) - 1 : Tail(s)[j] = s[j + 1]
      BY <1>1, HeadTailProperties
    <2> QED
      BY <2>1, <2>2, SeqEqual
  <1> QED
    BY <1>1, <1>3, <1>4 DEF Last

-----------------------------------------------------------------------------
(* Keys in order *)

\* A key put where it belongs leaves the keys in order.
LEMMA AscendingInsert ==
    ASSUME NEW keys \in Seq(Int), Ascending(keys), NEW i \in 1 .. Len(keys) + 1, NEW r \in Int,
           \A j \in 1 .. i - 1 : keys[j] < r, \A j \in i .. Len(keys) : r < keys[j]
    PROVE  Ascending(InsertAt(keys, i, r))
  <1> DEFINE t == InsertAt(keys, i, r)
             n == Len(keys)
  <1>1. /\ DOMAIN t = 1 .. n + 1
        /\ \A j \in 1 .. n + 1 :
              t[j] = IF j < i THEN keys[j] ELSE IF j = i THEN r ELSE keys[j - 1]
    BY InsertAtEffect
  <1>2. n \in Nat /\ i \in 1 .. n + 1
    OBVIOUS
  <1>3. /\ \A j, l \in 1 .. n : j < l => keys[j] < keys[l]
        /\ \A j \in 1 .. n : keys[j] \in Int
        /\ \A j \in 1 .. i - 1 : keys[j] < r
        /\ \A j \in i .. n : r < keys[j]
    BY DEF Ascending
  <1> HIDE DEF t, n
  <1>4. ASSUME NEW j \in 1 .. n + 1, NEW l \in 1 .. n + 1, j < l PROVE t[j] < t[l]
    <2>1. CASE l < i
      <3>1. j \in 1 .. n /\ l \in 1 .. n /\ j < i
        BY <1>2, <1>4, <2>1
      <3>2. t[j] = keys[j] /\ t[l] = keys[l]
        BY <1>1, <2>1, <3>1
      <3> QED
        BY <1>3, <1>4, <3>1, <3>2
    <2>2. CASE l = i
      <3>1. j \in 1 .. i - 1 /\ t[j] = keys[j] /\ t[l] = r
        BY <1>1, <1>2, <1>4, <2>2
      <3> QED
        BY <1>3, <3>1
    <2>3. CASE l > i
      <3> DEFINE m == l - 1
      <3>1. m \in i .. n /\ m \in 1 .. n /\ t[l] = keys[m]
        BY <1>1, <1>2, <2>3
      <3>2. CASE j = i
        <4>1. t[j] = r
          BY <1>1, <3>2
        <4> QED
          BY <1>3, <3>1, <4>1
      <3>3. CASE j < i
        <4>1. j \in 1 .. n /\ j < m /\ t[j] = keys[j]
          BY <1>1, <1>2, <2>3, <3>3
        <4> HIDE DEF m
        <4> QED
          BY <1>3, <3>1, <4>1
      <3>4. CASE j > i
        <4> DEFINE o == j - 1
        <4>1. o \in 1 .. n /\ o < m /\ t[j] = keys[o]
          BY <1>1, <1>2, <1>4, <3>4
        <4> HIDE DEF m, o
        <4> QED
          BY <1>3, <3>1, <4>1
      <3> QED
        BY <1>2, <3>2, <3>3, <3>4
    <2> QED
      BY <1>2, <2>1, <2>2, <2>3
  <1> QED
    BY <1>1, <1>4 DEF Ascending, t

\* A key that comes in moves the places of those behind it.
LEMMA SlotInsert ==
    ASSUME NEW keys \in Seq(Int), NEW r \in Int, NEW i \in 1 .. Len(keys) + 1,
           IsSlot(keys, r, i - 1), NEW x \in Int, NEW v, IsSlot(keys, x, v)
    PROVE  IsSlot(InsertAt(keys, i, r), x, IF x < r THEN v ELSE v + 1)
  <1> DEFINE t == InsertAt(keys, i, r)
             n == Len(keys)
  <1>1. i \in 1 .. n + 1 /\ v \in 0 .. n /\ n \in Nat
    BY DEF IsSlot
  <1>2. /\ Len(t) = n + 1
        /\ \A j \in 1 .. n + 1 :
              t[j] = IF j < i THEN keys[j] ELSE IF j = i THEN r ELSE keys[j - 1]
    BY InsertAtEffect
  <1>3. /\ \A j \in 1 .. n : keys[j] \in Int
        /\ \A j \in 1 .. i - 1 : keys[j] <= r
        /\ \A j \in i .. n : r < keys[j]
        /\ \A j \in 1 .. v : keys[j] <= x
        /\ \A j \in v + 1 .. n : x < keys[j]
    <2>1. \A j \in i .. n : j \in (i - 1) + 1 .. n
      BY <1>1
    <2> QED
      BY <2>1 DEF IsSlot
  <1> HIDE DEF t, n
  <1>4. CASE x < r
    <2>1. v < i
      <3> SUFFICES ASSUME i <= v PROVE FALSE
        BY <1>1
      <3>1. v \in i .. n /\ v \in 1 .. v /\ v \in 1 .. n
        BY <1>1
      <3>2. r < keys[v] /\ keys[v] <= x /\ keys[v] \in Int
        BY <1>3, <3>1
      <3> QED
        BY <1>4, <3>2
    <2>2. \A j \in 1 .. v : t[j] <= x
      <3> TAKE j \in 1 .. v
      <3>1. j \in 1 .. n + 1 /\ j < i
        BY <1>1, <2>1
      <3>2. t[j] = keys[j]
        BY <1>2, <3>1
      <3>3. keys[j] <= x
        BY <1>3
      <3> QED
        BY <3>2, <3>3
    <2>3. ASSUME NEW j \in v + 1 .. n + 1 PROVE x < t[j]
      <3>1. j \in 1 .. n + 1
        BY <1>1
      <3>2. CASE j < i
        <4>1. j \in v + 1 .. n /\ t[j] = keys[j]
          BY <1>1, <1>2, <3>1, <3>2
        <4> QED
          BY <1>3, <4>1
      <3>3. CASE j = i
        BY <1>1, <1>2, <1>4, <3>1, <3>3
      <3>4. CASE j > i
        <4> DEFINE o == j - 1
        <4>1. o \in v + 1 .. n /\ t[j] = keys[o]
          BY <1>1, <1>2, <2>1, <3>1, <3>4
        <4> HIDE DEF o
        <4> QED
          BY <1>3, <4>1
      <3> QED
        BY <1>1, <3>2, <3>3, <3>4
    <2> QED
      BY <1>1, <1>2, <1>4, <2>2, <2>3 DEF IsSlot, t
  <1>5. CASE ~(x < r)
    <2>1. i - 1 <= v
      <3> SUFFICES ASSUME v < i - 1 PROVE FALSE
        BY <1>1
      <3> DEFINE o == i - 1
      <3>1. o \in v + 1 .. n /\ o \in 1 .. i - 1 /\ o \in 1 .. n
        BY <1>1
      <3> HIDE DEF o
      <3>2. keys[o] <= r /\ x < keys[o] /\ keys[o] \in Int
        BY <1>3, <3>1
      <3> QED
        BY <1>5, <3>2
    <2>2. ASSUME NEW j \in 1 .. v + 1 PROVE t[j] <= x
      <3>1. j \in 1 .. n + 1
        BY <1>1
      <3>2. CASE j < i
        <4>1. j \in 1 .. v /\ t[j] = keys[j]
          BY <1>1, <1>2, <2>1, <3>1, <3>2
        <4> QED
          BY <1>3, <4>1
      <3>3. CASE j = i
        BY <1>1, <1>2, <1>5, <3>1, <3>3
      <3>4. CASE j > i
        <4> DEFINE o == j - 1
        <4>1. o \in 1 .. v /\ t[j] = keys[o]
          BY <1>1, <1>2, <2>1, <3>1, <3>4
        <4> HIDE DEF o
        <4> QED
          BY <1>3, <4>1
      <3> QED
        BY <1>1, <3>2, <3>3, <3>4
    <2>3. ASSUME NEW j \in v + 2 .. n + 1 PROVE x < t[j]
      <3> DEFINE o == j - 1
      <3>1. o \in v + 1 .. n /\ t[j] = keys[o]
        BY <1>1, <1>2, <2>1
      <3> HIDE DEF o
      <3> QED
        BY <1>3, <3>1
    <2>4. v + 1 \in 0 .. n + 1 /\ v + 1 + 1 = v + 2
      BY <1>1
    <2> QED
      BY <1>1, <1>2, <1>5, <2>2, <2>3, <2>4 DEF IsSlot, t
  <1> QED
    BY <1>4, <1>5

\* A key that goes moves them back.
LEMMA AscendingRemove ==
    ASSUME NEW keys \in Seq(Int), Ascending(keys), NEW i \in 1 .. Len(keys)
    PROVE  Ascending(RemoveAt(keys, i))
  <1> DEFINE t == RemoveAt(keys, i)
             n == Len(keys)
  <1>1. /\ DOMAIN t = 1 .. n - 1
        /\ \A j \in 1 .. n - 1 : t[j] = IF j < i THEN keys[j] ELSE keys[j + 1]
    BY RemoveAtEffect
  <1>2. n \in Nat /\ i \in 1 .. n /\ \A j, l \in 1 .. n : j < l => keys[j] < keys[l]
    BY DEF Ascending
  <1> HIDE DEF t, n
  <1>3. ASSUME NEW j \in 1 .. n - 1, NEW l \in 1 .. n - 1, j < l PROVE t[j] < t[l]
    <2> DEFINE jj == IF j < i THEN j ELSE j + 1
               ll == IF l < i THEN l ELSE l + 1
    <2>1. jj \in 1 .. n /\ ll \in 1 .. n /\ jj < ll
      BY <1>2, <1>3
    <2>2. t[j] = keys[jj] /\ t[l] = keys[ll]
      BY <1>1
    <2> HIDE DEF jj, ll
    <2> QED
      BY <1>2, <2>1, <2>2
  <1> QED
    BY <1>1, <1>3 DEF Ascending, t

\* The slot of x when another key is removed.
LEMMA SlotRemove ==
    ASSUME NEW keys \in Seq(Int), NEW i \in 1 .. Len(keys), NEW x, NEW v, IsSlot(keys, x, v)
    PROVE  IsSlot(RemoveAt(keys, i), x, IF v < i THEN v ELSE v - 1)
  <1> DEFINE t == RemoveAt(keys, i)
             n == Len(keys)
             w == IF v < i THEN v ELSE v - 1
  <1>1. /\ Len(t) = n - 1
        /\ \A j \in 1 .. n - 1 : t[j] = IF j < i THEN keys[j] ELSE keys[j + 1]
    BY RemoveAtEffect
  <1>2. /\ n \in Nat /\ i \in 1 .. n /\ v \in 0 .. n
        /\ \A j \in 1 .. v : keys[j] <= x
        /\ \A j \in v + 1 .. n : x < keys[j]
    BY DEF IsSlot
  <1>3. w \in 0 .. n - 1
    BY <1>2
  <1> HIDE DEF t, n
  <1>4. ASSUME NEW j \in 1 .. w PROVE t[j] <= x
    <2> DEFINE jj == IF j < i THEN j ELSE j + 1
    <2>1. jj \in 1 .. v /\ j \in 1 .. n - 1
      BY <1>2
    <2>2. t[j] = keys[jj]
      BY <1>1, <2>1
    <2> HIDE DEF jj
    <2> QED
      BY <1>2, <2>1, <2>2
  <1>5. ASSUME NEW j \in w + 1 .. n - 1 PROVE x < t[j]
    <2> DEFINE jj == IF j < i THEN j ELSE j + 1
    <2>1. jj \in v + 1 .. n /\ j \in 1 .. n - 1
      BY <1>2
    <2>2. t[j] = keys[jj]
      BY <1>1, <2>1
    <2> HIDE DEF jj
    <2> QED
      BY <1>2, <2>1, <2>2
  <1> HIDE DEF w
  <1>6. IsSlot(t, x, w)
    BY <1>1, <1>3, <1>4, <1>5 DEF IsSlot
  <1> QED
    BY <1>6 DEF t, w

\* The first keys, and the last.
LEMMA AscendingParts ==
    ASSUME NEW keys \in Seq(Int), Ascending(keys), NEW m \in 0 .. Len(keys)
    PROVE  Ascending(Take(keys, m)) /\ Ascending(Drop(keys, m))
  <1> DEFINE n == Len(keys)
             t == Take(keys, m)
             d == Drop(keys, m)
  <1>1. DOMAIN t = 1 .. m /\ \A j \in 1 .. m : t[j] = keys[j]
    BY TakeEffect
  <1>2. DOMAIN d = 1 .. n - m /\ \A j \in 1 .. n - m : d[j] = keys[j + m]
    BY DropEffect
  <1>3. /\ n \in Nat /\ m \in 0 .. n
        /\ \A j, l \in 1 .. n : j < l => keys[j] < keys[l]
    BY DEF Ascending
  <1> HIDE DEF t, d, n
  <1>4. Ascending(t)
    BY <1>1, <1>3 DEF Ascending
  <1>5. ASSUME NEW j \in 1 .. n - m, NEW l \in 1 .. n - m, j < l PROVE d[j] < d[l]
    <2> DEFINE jj == j + m
               ll == l + m
    <2>1. jj \in 1 .. n /\ ll \in 1 .. n /\ jj < ll
      BY <1>3, <1>5
    <2>2. d[j] = keys[jj] /\ d[l] = keys[ll]
      BY <1>2
    <2> HIDE DEF jj, ll
    <2> QED
      BY <1>3, <2>1, <2>2
  <1>6. Ascending(d)
    BY <1>2, <1>5 DEF Ascending
  <1> QED
    BY <1>4, <1>6 DEF t, d

\* The slot of x in the half of the keys where it is.
LEMMA SlotParts ==
    ASSUME NEW keys \in Seq(Int), NEW m \in 0 .. Len(keys), NEW x, NEW v, IsSlot(keys, x, v)
    PROVE  /\ v <= m => IsSlot(Take(keys, m), x, v)
           /\ m <= v => IsSlot(Drop(keys, m), x, v - m)
  <1> DEFINE n == Len(keys)
             t == Take(keys, m)
             d == Drop(keys, m)
  <1>1. Len(t) = m /\ \A j \in 1 .. m : t[j] = keys[j]
    BY TakeEffect
  <1>2. Len(d) = n - m /\ \A j \in 1 .. n - m : d[j] = keys[j + m]
    BY DropEffect
  <1>3. /\ n \in Nat /\ m \in 0 .. n /\ v \in 0 .. n
        /\ \A j \in 1 .. v : keys[j] <= x
        /\ \A j \in v + 1 .. n : x < keys[j]
    BY DEF IsSlot
  <1> HIDE DEF t, d, n
  <1>4. ASSUME v <= m PROVE IsSlot(t, x, v)
    <2>1. v \in 0 .. Len(t) /\ 1 .. v \subseteq 1 .. m /\ v + 1 .. Len(t) \subseteq v + 1 .. n
      BY <1>1, <1>3, <1>4
    <2>2. \A j \in 1 .. v : t[j] <= x
      BY <1>1, <1>3, <2>1
    <2>3. ASSUME NEW j \in v + 1 .. Len(t) PROVE x < t[j]
      <3>1. j \in 1 .. m /\ j \in v + 1 .. n
        BY <1>1, <1>3, <2>1
      <3> QED
        BY <1>1, <1>3, <3>1
    <2> QED
      BY <2>1, <2>2, <2>3 DEF IsSlot
  <1>5. ASSUME m <= v PROVE IsSlot(d, x, v - m)
    <2>1. ASSUME NEW j \in 1 .. v - m PROVE d[j] <= x
      <3> DEFINE jj == j + m
      <3>1. jj \in 1 .. v /\ d[j] = keys[jj]
        BY <1>2, <1>3
      <3> HIDE DEF jj
      <3> QED
        BY <1>3, <3>1
    <2>2. ASSUME NEW j \in v - m + 1 .. n - m PROVE x < d[j]
      <3> DEFINE jj == j + m
      <3>1. jj \in v + 1 .. n /\ d[j] = keys[jj]
        BY <1>2, <1>3, <1>5
      <3> HIDE DEF jj
      <3> QED
        BY <1>3, <3>1
    <2>3. v - m \in 0 .. n - m
      BY <1>3, <1>5
    <2> QED
      BY <1>2, <2>1, <2>2, <2>3 DEF IsSlot
  <1> QED
    BY <1>4, <1>5 DEF t, d

\* A key that is replaced goes, and another comes.
LEMMA ReplacedKey ==
    ASSUME NEW T, NEW keys \in Seq(T), NEW i \in 1 .. Len(keys), NEW s \in T
    PROVE  /\ i \in 1 .. Len(RemoveAt(keys, i)) + 1 /\ RemoveAt(keys, i) \in Seq(T)
           /\ [keys EXCEPT ![i] = s] = InsertAt(RemoveAt(keys, i), i, s)
  <1> DEFINE r == RemoveAt(keys, i)
             t == InsertAt(r, i, s)
             e == [keys EXCEPT ![i] = s]
             n == Len(keys)
  <1>1. /\ r \in Seq(T) /\ Len(r) = n - 1
        /\ \A j \in 1 .. n - 1 : r[j] = IF j < i THEN keys[j] ELSE keys[j + 1]
    BY RemoveAtEffect
  <1>2. n \in Nat /\ i \in 1 .. n /\ i \in 1 .. Len(r) + 1
    BY <1>1
  <1> HIDE DEF r
  <1>3. /\ t \in Seq(T) /\ Len(t) = Len(r) + 1
        /\ \A j \in 1 .. Len(r) + 1 :
              t[j] = IF j < i THEN r[j] ELSE IF j = i THEN s ELSE r[j - 1]
    BY <1>1, <1>2, InsertAtEffect
  <1>4. /\ e \in Seq(T) /\ Len(e) = n
        /\ \A j \in 1 .. n : e[j] = IF j = i THEN s ELSE keys[j]
    BY ExceptSeq
  <1> HIDE DEF t, e, n
  <1>5. ASSUME NEW j \in 1 .. n PROVE t[j] = e[j]
    <2>1. CASE j < i
      <3>1. j \in 1 .. n - 1 /\ j \in 1 .. Len(r) + 1 /\ j # i
        BY <1>1, <1>2, <2>1
      <3>2. t[j] = r[j] /\ r[j] = keys[j] /\ e[j] = keys[j]
        BY <1>1, <1>3, <1>4, <2>1, <3>1
      <3> QED
        BY <3>2
    <2>2. CASE j = i
      BY <1>1, <1>3, <1>4, <2>2
    <2>3. CASE j > i
      <3> DEFINE o == j - 1
      <3>1. o \in 1 .. n - 1 /\ o + 1 = j /\ ~(o < i) /\ j \in 1 .. Len(r) + 1
        BY <1>1, <1>2, <2>3
      <3>2. t[j] = r[o]
        BY <1>3, <2>3, <3>1
      <3> HIDE DEF o
      <3> QED
        BY <1>1, <1>4, <2>3, <3>1, <3>2
    <2> QED
      BY <1>2, <2>1, <2>2, <2>3
  <1>6. t = e
    BY <1>1, <1>2, <1>3, <1>4, <1>5, SeqEqual
  <1> QED
    BY <1>1, <1>2, <1>6 DEF r, t, e

\* Keys behind others.
LEMMA AscendingConcat ==
    ASSUME NEW a \in Seq(Int), Ascending(a), NEW b \in Seq(Int), Ascending(b),
           \A i \in DOMAIN a, j \in DOMAIN b : a[i] < b[j]
    PROVE  Ascending(a \o b)
  <1> DEFINE t == a \o b
             m == Len(a)
             n == Len(b)
  <1>1. /\ DOMAIN t = 1 .. m + n /\ m \in Nat /\ n \in Nat
        /\ \A j \in 1 .. m + n : t[j] = IF j <= m THEN a[j] ELSE b[j - m]
    <2>1. /\ t \in Seq(Int) /\ Len(t) = Len(a) + Len(b)
          /\ \A j \in 1 .. Len(a) + Len(b) : t[j] = IF j <= Len(a) THEN a[j] ELSE b[j - Len(a)]
      BY ConcatProperties
    <2>2. DOMAIN t = 1 .. Len(t)
      BY <2>1
    <2> QED
      BY <2>1, <2>2
  <1>2. /\ \A i, j \in 1 .. m : i < j => a[i] < a[j]
        /\ \A i, j \in 1 .. n : i < j => b[i] < b[j]
        /\ \A i \in 1 .. m, j \in 1 .. n : a[i] < b[j]
    BY DEF Ascending
  <1> HIDE DEF t, m, n
  <1>3. ASSUME NEW j \in 1 .. m + n, NEW l \in 1 .. m + n, j < l PROVE t[j] < t[l]
    <2> DEFINE jj == j - m
               ll == l - m
    <2>1. CASE l <= m
      <3>1. j \in 1 .. m /\ l \in 1 .. m /\ j <= m
        BY <1>1, <1>3, <2>1
      <3> QED
        BY <1>1, <1>2, <1>3, <2>1, <3>1
    <2>2. CASE m < l /\ j <= m
      <3>1. ll \in 1 .. n /\ j \in 1 .. m /\ t[l] = b[ll] /\ t[j] = a[j]
        BY <1>1, <2>2
      <3> HIDE DEF ll
      <3> QED
        BY <1>2, <3>1
    <2>3. CASE m < j
      <3>1. /\ jj \in 1 .. n /\ ll \in 1 .. n /\ jj < ll
            /\ t[l] = b[ll] /\ t[j] = b[jj]
        BY <1>1, <1>3, <2>3
      <3> HIDE DEF jj, ll
      <3> QED
        BY <1>2, <3>1
    <2> QED
      BY <1>1, <2>1, <2>2, <2>3
  <1> QED
    BY <1>1, <1>3 DEF Ascending, t

\* The slot of x in the keys of two nodes, one after the other.
LEMMA SlotConcat ==
    ASSUME NEW a \in Seq(Int), NEW b \in Seq(Int), NEW x, NEW v
    PROVE  /\ IsSlot(a, x, v) /\ (\A j \in DOMAIN b : x < b[j]) => IsSlot(a \o b, x, v)
           /\ IsSlot(b, x, v) /\ (\A j \in DOMAIN a : a[j] <= x) => IsSlot(a \o b, x, Len(a) + v)
  <1> DEFINE t == a \o b
             m == Len(a)
             n == Len(b)
  <1>1. /\ Len(t) = m + n /\ m \in Nat /\ n \in Nat
        /\ \A j \in 1 .. m + n : t[j] = IF j <= m THEN a[j] ELSE b[j - m]
    BY ConcatProperties
  <1>2. DOMAIN a = 1 .. m /\ DOMAIN b = 1 .. n
    OBVIOUS
  <1>3. ASSUME IsSlot(a, x, v), \A j \in DOMAIN b : x < b[j] PROVE IsSlot(t, x, v)
    <2>1. /\ v \in 0 .. m
          /\ \A j \in 1 .. v : a[j] <= x
          /\ \A j \in v + 1 .. m : x < a[j]
      BY <1>3 DEF IsSlot
    <2> HIDE DEF t, m, n
    <2>2. \A j \in 1 .. v : t[j] <= x
      BY <1>1, <2>1
    <2>3. ASSUME NEW j \in v + 1 .. m + n PROVE x < t[j]
      <3> DEFINE jj == j - m
      <3>1. CASE j <= m
        <4>1. j \in v + 1 .. m /\ t[j] = a[j]
          BY <1>1, <2>1, <3>1
        <4> QED
          BY <2>1, <4>1
      <3>2. CASE j > m
        <4>1. jj \in 1 .. n /\ t[j] = b[jj]
          BY <1>1, <2>1, <3>2
        <4> HIDE DEF jj
        <4> QED
          BY <1>2, <1>3, <4>1
      <3> QED
        BY <1>1, <2>1, <3>1, <3>2
    <2> QED
      BY <1>1, <2>1, <2>2, <2>3 DEF IsSlot
  <1>4. ASSUME IsSlot(b, x, v), \A j \in DOMAIN a : a[j] <= x PROVE IsSlot(t, x, m + v)
    <2>1. /\ v \in 0 .. n
          /\ \A j \in 1 .. v : b[j] <= x
          /\ \A j \in v + 1 .. n : x < b[j]
      BY <1>4 DEF IsSlot
    <2> HIDE DEF t, m, n
    <2>2. ASSUME NEW j \in 1 .. m + v PROVE t[j] <= x
      <3> DEFINE jj == j - m
      <3>1. CASE j <= m
        <4>1. j \in 1 .. m /\ t[j] = a[j]
          BY <1>1, <2>1, <3>1
        <4> QED
          BY <1>2, <1>4, <4>1
      <3>2. CASE j > m
        <4>1. jj \in 1 .. v /\ t[j] = b[jj]
          BY <1>1, <2>1, <3>2
        <4> HIDE DEF jj
        <4> QED
          BY <2>1, <4>1
      <3> QED
        BY <1>1, <2>1, <3>1, <3>2
    <2>3. ASSUME NEW j \in m + v + 1 .. m + n PROVE x < t[j]
      <3> DEFINE jj == j - m
      <3>1. jj \in v + 1 .. n /\ t[j] = b[jj]
        BY <1>1, <2>1
      <3> HIDE DEF jj
      <3> QED
        BY <2>1, <3>1
    <2> QED
      BY <1>1, <2>1, <2>2, <2>3 DEF IsSlot
  <1> QED
    BY <1>3, <1>4 DEF t, m

-----------------------------------------------------------------------------
(* Entries *)

\* The keys of a leaf with their values.
EntriesOf(keys, values) == {<<keys[j], values[j]>> : j \in DOMAIN keys}

\* An entry is added by inserting its key and its value at the same place.
LEMMA EntriesInsert ==
    ASSUME NEW T, NEW keys \in Seq(Int), NEW values \in Seq(T), Len(values) = Len(keys),
           NEW i \in 1 .. Len(keys) + 1, NEW k \in Int, NEW v \in T
    PROVE  EntriesOf(InsertAt(keys, i, k), InsertAt(values, i, v))
               = EntriesOf(keys, values) \cup {<<k, v>>}
  <1> DEFINE a == InsertAt(keys, i, k)
             b == InsertAt(values, i, v)
             n == Len(keys)
  <1>1. /\ DOMAIN a = 1 .. n + 1 /\ DOMAIN keys = 1 .. n /\ n \in Nat /\ i \in 1 .. n + 1
        /\ \A j \in 1 .. n + 1 : a[j] = IF j < i THEN keys[j] ELSE IF j = i THEN k ELSE keys[j - 1]
    <2>1. DOMAIN keys = 1 .. n /\ n \in Nat
      OBVIOUS
    <2>2. /\ DOMAIN a = 1 .. n + 1
          /\ \A j \in 1 .. n + 1 :
                a[j] = IF j < i THEN keys[j] ELSE IF j = i THEN k ELSE keys[j - 1]
      <3>1. keys \in Seq(Int) /\ i \in 1 .. Len(keys) + 1 /\ k \in Int
        OBVIOUS
      <3> QED
        BY ONLY <3>1, InsertAtEffect
    <2> QED
      BY <2>1, <2>2
  <1>2. \A j \in 1 .. n + 1 : b[j] = IF j < i THEN values[j] ELSE IF j = i THEN v ELSE values[j - 1]
    BY InsertAtEffect
  <1> HIDE DEF a, b, n
  <1>3. ASSUME NEW j \in 1 .. n + 1
        PROVE  <<a[j], b[j]>> \in {<<keys[l], values[l]>> : l \in 1 .. n} \cup {<<k, v>>}
    <2> DEFINE o == j - 1
    <2>1. CASE j < i
      <3>1. j \in 1 .. n /\ a[j] = keys[j] /\ b[j] = values[j]
        BY <1>1, <1>2, <2>1
      <3> QED
        BY <3>1
    <2>2. CASE j = i
      BY <1>1, <1>2, <2>2
    <2>3. CASE j > i
      <3>1. o \in 1 .. n /\ a[j] = keys[o] /\ b[j] = values[o]
        BY <1>1, <1>2, <2>3
      <3> HIDE DEF o
      <3> QED
        BY <3>1
    <2> QED
      BY <1>1, <2>1, <2>2, <2>3
  <1>4. ASSUME NEW j \in 1 .. n
        PROVE  <<keys[j], values[j]>> \in {<<a[l], b[l]>> : l \in 1 .. n + 1}
    <2> DEFINE o == j + 1
    <2>1. CASE j < i
      <3>1. j \in 1 .. n + 1 /\ a[j] = keys[j] /\ b[j] = values[j]
        BY <1>1, <1>2, <2>1
      <3> QED
        BY <3>1
    <2>2. CASE ~(j < i)
      <3>1. o \in 1 .. n + 1 /\ a[o] = keys[j] /\ b[o] = values[j]
        BY <1>1, <1>2, <2>2
      <3> HIDE DEF o
      <3> QED
        BY <3>1
    <2> QED
      BY <2>1, <2>2
  <1>5. a[i] = k /\ b[i] = v
    BY <1>1, <1>2
  <1>6. EntriesOf(a, b) = {<<a[l], b[l]>> : l \in 1 .. n + 1}
    BY <1>1 DEF EntriesOf
  <1>7. EntriesOf(keys, values) = {<<keys[l], values[l]>> : l \in 1 .. n}
    BY <1>1 DEF EntriesOf
  <1>8. EntriesOf(a, b) \subseteq EntriesOf(keys, values) \cup {<<k, v>>}
    BY <1>3, <1>6, <1>7
  <1>9. EntriesOf(keys, values) \cup {<<k, v>>} \subseteq EntriesOf(a, b)
    BY <1>1, <1>4, <1>5, <1>6, <1>7
  <1> QED
    BY <1>8, <1>9 DEF a, b

\* An entry is removed with its key and its value.
LEMMA EntriesRemove ==
    ASSUME NEW T, NEW keys \in Seq(Int), NEW values \in Seq(T), Len(values) = Len(keys),
           Ascending(keys), NEW i \in 1 .. Len(keys)
    PROVE  EntriesOf(RemoveAt(keys, i), RemoveAt(values, i))
               = {e \in EntriesOf(keys, values) : e[1] # keys[i]}
  <1> DEFINE a == RemoveAt(keys, i)
             b == RemoveAt(values, i)
             n == Len(keys)
  <1>1. /\ DOMAIN a = 1 .. n - 1 /\ DOMAIN keys = 1 .. n /\ n \in Nat /\ i \in 1 .. n
        /\ \A j \in 1 .. n - 1 : a[j] = IF j < i THEN keys[j] ELSE keys[j + 1]
    <2>1. DOMAIN keys = 1 .. n /\ n \in Nat
      OBVIOUS
    <2>2. /\ DOMAIN a = 1 .. n - 1
          /\ \A j \in 1 .. n - 1 : a[j] = IF j < i THEN keys[j] ELSE keys[j + 1]
      BY RemoveAtEffect
    <2> QED
      BY <2>1, <2>2
  <1>2. \A j \in 1 .. n - 1 : b[j] = IF j < i THEN values[j] ELSE values[j + 1]
    <2>1. i \in 1 .. Len(values) /\ Len(values) = n
      OBVIOUS
    <2>2. \A j \in 1 .. Len(values) - 1 : b[j] = IF j < i THEN values[j] ELSE values[j + 1]
      BY <2>1, RemoveAtEffect
    <2> QED
      BY <2>1, <2>2
  <1>3. \A j \in 1 .. n : keys[j] \in Int /\ (keys[j] = keys[i] => j = i)
    <2> TAKE j \in 1 .. n
    <2>1. keys[j] \in Int /\ keys[i] \in Int
      BY <1>1
    <2>2. j < i => keys[j] < keys[i]
      BY <1>1 DEF Ascending
    <2>3. i < j => keys[i] < keys[j]
      BY <1>1 DEF Ascending
    <2> QED
      BY <1>1, <2>1, <2>2, <2>3
  <1> HIDE DEF a, b, n
  <1>4. ASSUME NEW j \in 1 .. n - 1
        PROVE  \E l \in 1 .. n : l # i /\ a[j] = keys[l] /\ b[j] = values[l]
    <2> DEFINE o == IF j < i THEN j ELSE j + 1
    <2>1. o \in 1 .. n /\ o # i /\ a[j] = keys[o] /\ b[j] = values[o]
      BY <1>1, <1>2
    <2> HIDE DEF o
    <2> QED
      BY <2>1
  <1>5. ASSUME NEW j \in 1 .. n, j # i
        PROVE  \E l \in 1 .. n - 1 : keys[j] = a[l] /\ values[j] = b[l]
    <2> DEFINE o == IF j < i THEN j ELSE j - 1
    <2>1. o \in 1 .. n - 1 /\ a[o] = keys[j] /\ b[o] = values[j]
      BY <1>1, <1>2, <1>5
    <2> HIDE DEF o
    <2> QED
      BY <2>1
  <1>6. EntriesOf(a, b) = {<<a[l], b[l]>> : l \in 1 .. n - 1}
    BY <1>1 DEF EntriesOf
  <1>7. EntriesOf(keys, values) = {<<keys[l], values[l]>> : l \in 1 .. n}
    BY <1>1 DEF EntriesOf
  <1>8. EntriesOf(a, b) \subseteq {e \in EntriesOf(keys, values) : e[1] # keys[i]}
    <2> SUFFICES ASSUME NEW j \in 1 .. n - 1
                 PROVE  <<a[j], b[j]>> \in EntriesOf(keys, values) /\ a[j] # keys[i]
      BY <1>6
    <2>1. PICK l \in 1 .. n : l # i /\ a[j] = keys[l] /\ b[j] = values[l]
      BY <1>4
    <2>2. <<a[j], b[j]>> \in EntriesOf(keys, values)
      BY <1>7, <2>1
    <2>3. a[j] # keys[i]
      BY <1>3, <2>1
    <2> QED
      BY <2>2, <2>3
  <1>9. {e \in EntriesOf(keys, values) : e[1] # keys[i]} \subseteq EntriesOf(a, b)
    <2> SUFFICES ASSUME NEW j \in 1 .. n, keys[j] # keys[i]
                 PROVE  <<keys[j], values[j]>> \in EntriesOf(a, b)
      BY <1>7
    <2>1. PICK l \in 1 .. n - 1 : keys[j] = a[l] /\ values[j] = b[l]
      BY <1>5
    <2> QED
      BY <1>6, <2>1
  <1> QED
    BY <1>8, <1>9 DEF a, b

\* Two halves have the entries of the whole.
LEMMA EntriesParts ==
    ASSUME NEW T, NEW keys \in Seq(Int), NEW values \in Seq(T), Len(values) = Len(keys),
           NEW m \in 0 .. Len(keys)
    PROVE  EntriesOf(Take(keys, m), Take(values, m)) \cup EntriesOf(Drop(keys, m), Drop(values, m))
               = EntriesOf(keys, values)
  <1> DEFINE a == Take(keys, m)
             b == Take(values, m)
             c == Drop(keys, m)
             d == Drop(values, m)
             n == Len(keys)
  <1>1. /\ DOMAIN a = 1 .. m /\ DOMAIN c = 1 .. n - m /\ DOMAIN keys = 1 .. n
        /\ n \in Nat /\ m \in 0 .. n
    BY TakeEffect, DropEffect
  <1>2. \A j \in 1 .. m : a[j] = keys[j] /\ b[j] = values[j]
    BY TakeEffect
  <1>3. \A j \in 1 .. n - m : c[j] = keys[j + m] /\ d[j] = values[j + m]
    <2>1. \A j \in 1 .. n - m : c[j] = keys[j + m]
      BY DropEffect
    <2>2. m \in 0 .. Len(values) /\ Len(values) = n
      OBVIOUS
    <2>3. \A j \in 1 .. Len(values) - m : d[j] = values[j + m]
      BY <2>2, DropEffect
    <2> QED
      BY <2>1, <2>2, <2>3
  <1> HIDE DEF a, b, c, d, n
  <1>4. ASSUME NEW j \in 1 .. m PROVE <<a[j], b[j]>> \in {<<keys[l], values[l]>> : l \in 1 .. n}
    <2>1. j \in 1 .. n
      BY <1>1
    <2> QED
      BY <1>2, <2>1
  <1>5. ASSUME NEW j \in 1 .. n - m
        PROVE  <<c[j], d[j]>> \in {<<keys[l], values[l]>> : l \in 1 .. n}
    <2> DEFINE o == j + m
    <2>1. o \in 1 .. n /\ c[j] = keys[o] /\ d[j] = values[o]
      BY <1>1, <1>3
    <2> HIDE DEF o
    <2> QED
      BY <2>1
  <1>6. ASSUME NEW j \in 1 .. n
        PROVE  \/ <<keys[j], values[j]>> \in {<<a[l], b[l]>> : l \in 1 .. m}
               \/ <<keys[j], values[j]>> \in {<<c[l], d[l]>> : l \in 1 .. n - m}
    <2> DEFINE o == j - m
    <2>1. CASE j <= m
      <3>1. j \in 1 .. m
        BY <1>1, <2>1
      <3> QED
        BY <1>2, <3>1
    <2>2. CASE j > m
      <3>1. o \in 1 .. n - m /\ o + m = j
        BY <1>1, <2>2
      <3> HIDE DEF o
      <3> QED
        BY <1>3, <3>1
    <2> QED
      BY <1>1, <2>1, <2>2
  <1>7. /\ EntriesOf(a, b) = {<<a[l], b[l]>> : l \in 1 .. m}
        /\ EntriesOf(c, d) = {<<c[l], d[l]>> : l \in 1 .. n - m}
        /\ EntriesOf(keys, values) = {<<keys[l], values[l]>> : l \in 1 .. n}
    BY <1>1 DEF EntriesOf
  <1>8. EntriesOf(a, b) \subseteq EntriesOf(keys, values)
    BY <1>4, <1>7
  <1>9. EntriesOf(c, d) \subseteq EntriesOf(keys, values)
    BY <1>5, <1>7
  <1>10. EntriesOf(keys, values) \subseteq EntriesOf(a, b) \cup EntriesOf(c, d)
    BY <1>6, <1>7
  <1> QED
    BY <1>8, <1>9, <1>10 DEF a, b, c, d

\* The entries of two leaves, one after the other.
LEMMA EntriesConcat ==
    ASSUME NEW T, NEW k1 \in Seq(Int), NEW v1 \in Seq(T), Len(v1) = Len(k1),
           NEW k2 \in Seq(Int), NEW v2 \in Seq(T), Len(v2) = Len(k2)
    PROVE  EntriesOf(k1 \o k2, v1 \o v2) = EntriesOf(k1, v1) \cup EntriesOf(k2, v2)
  <1> DEFINE a == k1 \o k2
             b == v1 \o v2
             m == Len(k1)
             n == Len(k2)
  <1>1. /\ a \in Seq(Int) /\ Len(a) = m + n /\ m \in Nat /\ n \in Nat
        /\ DOMAIN k1 = 1 .. m /\ DOMAIN k2 = 1 .. n
        /\ \A j \in 1 .. m + n : a[j] = IF j <= m THEN k1[j] ELSE k2[j - m]
    BY ConcatProperties
  <1>2. DOMAIN a = 1 .. m + n
    BY <1>1
  <1>3. \A j \in 1 .. m + n : b[j] = IF j <= m THEN v1[j] ELSE v2[j - m]
    BY ConcatProperties
  <1> HIDE DEF a, b, m, n
  <1>4. ASSUME NEW j \in 1 .. m + n
        PROVE  \/ <<a[j], b[j]>> \in {<<k1[l], v1[l]>> : l \in 1 .. m}
               \/ <<a[j], b[j]>> \in {<<k2[l], v2[l]>> : l \in 1 .. n}
    <2> DEFINE o == j - m
    <2>1. CASE j <= m
      <3>1. j \in 1 .. m
        BY <1>1, <2>1
      <3> QED
        BY <1>1, <1>3, <2>1, <3>1
    <2>2. CASE j > m
      <3>1. o \in 1 .. n /\ a[j] = k2[o] /\ b[j] = v2[o]
        BY <1>1, <1>3, <2>2
      <3> HIDE DEF o
      <3> QED
        BY <3>1
    <2> QED
      BY <1>1, <2>1, <2>2
  <1>5. ASSUME NEW j \in 1 .. m
        PROVE  <<k1[j], v1[j]>> \in {<<a[l], b[l]>> : l \in 1 .. m + n}
    <2>1. j \in 1 .. m + n /\ j <= m
      BY <1>1
    <2> QED
      BY <1>1, <1>3, <2>1
  <1>6. ASSUME NEW j \in 1 .. n
        PROVE  <<k2[j], v2[j]>> \in {<<a[l], b[l]>> : l \in 1 .. m + n}
    <2> DEFINE o == j + m
    <2>1. o \in 1 .. m + n /\ ~(o <= m) /\ o - m = j
      BY <1>1
    <2> HIDE DEF o
    <2> QED
      BY <1>1, <1>3, <2>1
  <1>7. /\ EntriesOf(a, b) = {<<a[l], b[l]>> : l \in 1 .. m + n}
        /\ EntriesOf(k1, v1) = {<<k1[l], v1[l]>> : l \in 1 .. m}
        /\ EntriesOf(k2, v2) = {<<k2[l], v2[l]>> : l \in 1 .. n}
    BY <1>1, <1>2 DEF EntriesOf
  <1>8. EntriesOf(a, b) \subseteq EntriesOf(k1, v1) \cup EntriesOf(k2, v2)
    BY <1>4, <1>7
  <1>9. EntriesOf(k1, v1) \subseteq EntriesOf(a, b)
    BY <1>5, <1>7
  <1>10. EntriesOf(k2, v2) \subseteq EntriesOf(a, b)
    BY <1>6, <1>7
  <1> QED
    BY <1>8, <1>9, <1>10 DEF a, b

-----------------------------------------------------------------------------
(* Trees.  Of a map N of pages, live are the pages of the tree, and tops those of them     *)
(* that are no page's child: the root, and for a while the right half of a page that was   *)
(* split.  A page p has the height h[p], holds keys of rng[p] only, and is a child of      *)
(* par[p].                                                                                 *)

\* No element occurs twice.
Injective(s) == \A i, j \in DOMAIN s : s[i] = s[j] => i = j

\* A node by itself, at height hp, for keys in rp.
LocalOK(n, hp, rp) ==
    /\ n \in Node /\ Ascending(n.keys)
    /\ \A j \in DOMAIN n.keys : n.keys[j] \in rp /\ n.keys[j] \in AllKeys
    /\ rp # {}
    /\ n.isLeaf <=> hp = 0
    /\ n.isLeaf => Len(n.values) = Len(n.keys)
    /\ ~n.isLeaf => Len(n.children) = Len(n.keys) + 1 /\ Injective(n.children)

\* A page c as the child number j of the node n of page p.
LinkOK(n, p, j, c, tops, live, h, rng, par) ==
    /\ c \in live /\ c \notin tops
    /\ h[c] = h[p] - 1 /\ par[c] = p
    /\ \A k \in rng[c] : k \in rng[p] /\ IsSlot(n.keys, k, j - 1)

\* A node with its children.
NodeOK(n, p, tops, live, h, rng, par) ==
    /\ LocalOK(n, h[p], rng[p])
    /\ ~n.isLeaf => \A j \in DOMAIN n.children :
                       LinkOK(n, p, j, n.children[j], tops, live, h, rng, par)

\* q is a child of p.
IsChild(N, p, q) ==
    ~N[p].isLeaf /\ \E j \in DOMAIN N[p].children : N[p].children[j] = q

\* The live pages are trees below tops: h is the height of a page, rng the keys that may be
\* below it and par its parent.
TreeOK(N, tops, live, h, rng, par) ==
    /\ tops \subseteq live /\ live \subseteq DOMAIN N
    /\ \A p \in live : NodeOK(N[p], p, tops, live, h, rng, par)
    /\ \A q \in live \ tops : par[q] \in live /\ IsChild(N, par[q], q)

\* The ghosts of all pages.
GhostType(live, h, rng, par) ==
    /\ live \subseteq Pages
    /\ h \in [Pages -> Nat] /\ rng \in [Pages -> SUBSET Int] /\ par \in [Pages -> Pages]

\* A tree, with ghosts for all pages.
IsTree(N, tops, live, h, rng, par) ==
    TreeOK(N, tops, live, h, rng, par) /\ GhostType(live, h, rng, par)

\* Numbers, and what is a number.
LEMMA KeysAreNumbers == AllKeys \subseteq Int /\ BTREE_MIN \in Nat /\ BTREE_MIN > 0
  <1>1. ToSet(Load) \subseteq Int
    BY LoadAssumption DEF ToSet
  <1>2. BTREE_MIN \in Nat /\ BTREE_MIN > 0
    BY OrderAssumption DEF BTREE_MIN
  <1> QED
    BY <1>1, <1>2, LoadAssumption DEF AllKeys

\* A node has keys, values and children.
LEMMA NodeFields ==
    ASSUME NEW n \in Node
    PROVE  /\ n.keys \in Seq(Int) /\ n.values \in Seq(Values) /\ n.children \in Seq(Pages)
           /\ n.isLeaf \in BOOLEAN /\ n.nextLeaf \in Pages \cup {-1}
           /\ Len(n.keys) \in Nat /\ DOMAIN n.keys = 1 .. Len(n.keys)
           /\ Len(n.children) \in Nat /\ DOMAIN n.children = 1 .. Len(n.children)
  <1>1. n.keys \in Seq(Int) /\ n.children \in Seq(Pages) /\ n.values \in Seq(Values)
        /\ n.isLeaf \in BOOLEAN /\ n.nextLeaf \in Pages \cup {-1}
    BY DEF Node
  <1> QED
    BY <1>1

\* A leaf is a node.
LEMMA LeafIsNode ==
    ASSUME NEW keys \in Seq(Int), NEW values \in Seq(Values), NEW next \in Pages \cup {-1}
    PROVE  Leaf(keys, values, next) \in Node
  BY DEF Leaf, Node

\* So is an internal node.
LEMMA InternalIsNode ==
    ASSUME NEW keys \in Seq(Int), NEW children \in Seq(Pages)
    PROVE  Internal(keys, children) \in Node
  BY DEF Internal, Node

\* Where some pages D changed: the others keep their nodes, their heights and their keys, and
\* so do their children, which may only be asked for fewer keys.
Fits(N, rng, p, c, ks) ==
    \A j \in DOMAIN N[p].children : N[p].children[j] = c =>
        \A k \in ks : k \in rng[p] /\ IsSlot(N[p].keys, k, j - 1)

\* The pages D are new or changed, all others are as they were, and so are their children.
LocalChange(N, tops, live, h, rng, par, N2, tops2, live2, h2, rng2, par2, D) ==
    /\ D \subseteq live2 /\ tops2 \subseteq live2 /\ live2 \subseteq DOMAIN N2
    /\ \A p \in live2 \ D :
          p \in live /\ N2[p] = N[p] /\ h2[p] = h[p] /\ rng2[p] = rng[p]
    /\ \A c \in live \ tops : par[c] \in live2 \ D =>
          /\ c \in live2 /\ c \notin tops2 /\ h2[c] = h[c] /\ par2[c] = par[c]
          /\ rng2[c] \subseteq rng[c] \/ Fits(N, rng, par[c], c, rng2[c])
    /\ \A p \in D : NodeOK(N2[p], p, tops2, live2, h2, rng2, par2)
    /\ \A q \in live2 \ tops2 :
          \/ par2[q] \in D /\ IsChild(N2, par2[q], q)
          \/ q \in live \ tops /\ par2[q] \in live2 \ D /\ par2[q] = par[q]

\* A change of the pages D is a tree again if those pages are nodes of it.
LEMMA Rebuild ==
    ASSUME NEW N, NEW tops, NEW live, NEW h, NEW rng, NEW par,
           TreeOK(N, tops, live, h, rng, par),
           NEW N2, NEW tops2, NEW live2, NEW h2, NEW rng2, NEW par2, NEW D,
           LocalChange(N, tops, live, h, rng, par, N2, tops2, live2, h2, rng2, par2, D)
    PROVE  TreeOK(N2, tops2, live2, h2, rng2, par2)
  <1> USE DEF LocalChange
  <1>1. ASSUME NEW p \in live2 PROVE NodeOK(N2[p], p, tops2, live2, h2, rng2, par2)
    <2>1. CASE p \in D
      BY <2>1
    <2>2. CASE p \notin D
      <3>1. /\ p \in live /\ N2[p] = N[p] /\ h2[p] = h[p] /\ rng2[p] = rng[p]
            /\ NodeOK(N[p], p, tops, live, h, rng, par)
        BY <2>2 DEF TreeOK
      <3>2. ASSUME ~N2[p].isLeaf, NEW j \in DOMAIN N2[p].children
            PROVE  LinkOK(N2[p], p, j, N2[p].children[j], tops2, live2, h2, rng2, par2)
        <4> DEFINE c == N[p].children[j]
        <4>1. LinkOK(N[p], p, j, c, tops, live, h, rng, par)
          BY <3>1, <3>2 DEF NodeOK
        <4>2. c \in live \ tops /\ par[c] = p
          BY <4>1 DEF LinkOK
        <4>3. /\ c \in live2 /\ c \notin tops2 /\ h2[c] = h[c] /\ par2[c] = par[c]
              /\ rng2[c] \subseteq rng[c] \/ Fits(N, rng, p, c, rng2[c])
          BY <2>2, <4>2
        <4>4. \A k \in rng2[c] : k \in rng[p] /\ IsSlot(N[p].keys, k, j - 1)
          <5>1. CASE rng2[c] \subseteq rng[c]
            BY <4>1, <5>1 DEF LinkOK
          <5>2. CASE Fits(N, rng, p, c, rng2[c])
            BY <3>1, <3>2, <5>2 DEF Fits
          <5> QED
            BY <4>3, <5>1, <5>2
        <4> HIDE DEF c
        <4>5. LinkOK(N2[p], p, j, c, tops2, live2, h2, rng2, par2)
          BY <3>1, <4>1, <4>3, <4>4 DEF LinkOK
        <4> QED
          BY <3>1, <4>5 DEF c
      <3> QED
        BY <3>1, <3>2 DEF NodeOK
    <2> QED
      BY <2>1, <2>2
  <1>2. ASSUME NEW q \in live2 \ tops2 PROVE par2[q] \in live2 /\ IsChild(N2, par2[q], q)
    <2>1. CASE par2[q] \in D /\ IsChild(N2, par2[q], q)
      BY <2>1
    <2>2. CASE q \in live \ tops /\ par2[q] \in live2 \ D /\ par2[q] = par[q]
      <3>1. IsChild(N, par[q], q) /\ N2[par[q]] = N[par[q]]
        BY <2>2 DEF TreeOK
      <3> QED
        BY <2>2, <3>1 DEF IsChild
    <2> QED
      BY <2>1, <2>2
  <1> QED
    BY <1>1, <1>2 DEF TreeOK

\* The child of a page.
LEMMA ChildOf ==
    ASSUME NEW N, NEW tops, NEW live, NEW h, NEW rng, NEW par,
           TreeOK(N, tops, live, h, rng, par), GhostType(live, h, rng, par),
           NEW p \in live, ~N[p].isLeaf, NEW j \in DOMAIN N[p].children
    PROVE  /\ N[p].children[j] \in live \ tops /\ N[p].children[j] \in Pages /\ p \in Pages
           /\ h[N[p].children[j]] = h[p] - 1 /\ h[p] \in Nat /\ h[p] > 0
           /\ par[N[p].children[j]] = p
           /\ \A k \in rng[N[p].children[j]] : k \in Int /\ k \in rng[p]
               /\ IsSlot(N[p].keys, k, j - 1)
  <1>1. NodeOK(N[p], p, tops, live, h, rng, par)
    BY DEF TreeOK
  <1>2. LinkOK(N[p], p, j, N[p].children[j], tops, live, h, rng, par) /\ LocalOK(N[p], h[p], rng[p])
    BY <1>1 DEF NodeOK
  <1>3. h[p] \in Nat /\ p \in Pages /\ N[p].children[j] \in Pages
    BY <1>2 DEF GhostType, LinkOK
  <1>4. h[p] # 0
    BY <1>2 DEF LocalOK
  <1>5. rng[N[p].children[j]] \subseteq Int
    BY <1>3 DEF GhostType
  <1> QED
    BY <1>2, <1>3, <1>4, <1>5 DEF LinkOK

\* A live page.
LEMMA LiveNode ==
    ASSUME NEW N, NEW tops, NEW live, NEW h, NEW rng, NEW par,
           TreeOK(N, tops, live, h, rng, par), NEW p \in live
    PROVE  /\ N[p] \in Node /\ Ascending(N[p].keys) /\ p \in DOMAIN N
           /\ \A j \in DOMAIN N[p].keys : N[p].keys[j] \in rng[p] /\ N[p].keys[j] \in AllKeys
           /\ rng[p] # {}
           /\ N[p].isLeaf <=> h[p] = 0
           /\ N[p].isLeaf => Len(N[p].values) = Len(N[p].keys)
           /\ ~N[p].isLeaf => Len(N[p].children) = Len(N[p].keys) + 1 /\ Injective(N[p].children)
  BY DEF TreeOK, NodeOK, LocalOK

-----------------------------------------------------------------------------
(* Changes of a tree *)

\* The entries of the leaves among some pages.
Holds(N, p, e) == N[p].isLeaf /\ e \in EntriesOf(N[p].keys, N[p].values)
Stored(N, live) == UNION {EntriesOf(N[p].keys, N[p].values) : p \in {x \in live : N[x].isLeaf}}

\* The keys of p from r on are those of q now, q is as high as p, and S are children of q.
CutRange(rng, p, q, r) == [rng EXCEPT ![p] = {k \in rng[p] : k < r}, ![q] = {k \in rng[p] : r <= k}]
AsHigh(h, p, q) == [h EXCEPT ![q] = h[p]]
Adopt(par, S, q) == [x \in Pages |-> IF x \in S THEN q ELSE par[x]]

\* q is what a split made of the right half of p, and r the key between them.
Beside(p, q, r, h, rng) ==
    /\ h[q] = h[p]
    /\ \A k \in rng[p] : k < r
    /\ \A k \in rng[q] : r <= k

\* What is stored is in some leaf.
LEMMA StoredHas ==
    ASSUME NEW N, NEW live, NEW e
    PROVE  e \in Stored(N, live) <=> \E p \in live : Holds(N, p, e)
  BY DEF Stored, Holds

\* The entries of two pages together.
SameEntries(N, live, N2, live2, D) ==
    /\ \A x : x \notin D => (x \in live <=> x \in live2)
    /\ \A x \in live : x \notin D => N2[x] = N[x]
    /\ \A e : (\E x \in live \cap D : Holds(N, x, e)) <=> (\E x \in live2 \cap D : Holds(N2, x, e))

\* A change that only moves entries among the pages D stores the same.
LEMMA StoredTwo ==
    ASSUME NEW N, NEW live, NEW N2, NEW live2, NEW D, SameEntries(N, live, N2, live2, D)
    PROVE  Stored(N2, live2) = Stored(N, live)
  <1> USE DEF SameEntries
  <1>1. ASSUME NEW e PROVE e \in Stored(N, live) <=> e \in Stored(N2, live2)
    <2>1. \A x \in live : x \notin D => x \in live2 /\ (Holds(N, x, e) <=> Holds(N2, x, e))
      BY DEF Holds
    <2>2. \A x \in live2 : x \notin D => x \in live
      OBVIOUS
    <2> QED
      BY <2>1, <2>2, StoredHas
  <1> QED
    BY <1>1

\* A leaf p split behind its m-th key, with the right half in q.
SplitsLeaf(N, live, p, q, m, r, n1, n2, N2) ==
    /\ p \in live /\ q \in Pages \ live /\ N[p].isLeaf
    /\ m \in 1 .. Len(N[p].keys) - 1 /\ r \in Int /\ r = N[p].keys[m + 1]
    /\ live \cup {q} \subseteq DOMAIN N2 /\ \A x \in live \ {p} : N2[x] = N[x]
    /\ n1 \in Pages \cup {-1} /\ n2 \in Pages \cup {-1}
    /\ N2[p] = Leaf(Take(N[p].keys, m), Take(N[p].values, m), n1)
    /\ N2[q] = Leaf(Drop(N[p].keys, m), Drop(N[p].values, m), n2)

\* A leaf that is split.
LEMMA SplitLeafTree ==
    ASSUME NEW N, NEW tops, NEW live, NEW h, NEW rng, NEW par,
           IsTree(N, tops, live, h, rng, par),
           NEW p, NEW q, NEW m, NEW r, NEW n1, NEW n2, NEW N2,
           SplitsLeaf(N, live, p, q, m, r, n1, n2, N2)
    PROVE  /\ IsTree(N2, tops \cup {q}, live \cup {q}, AsHigh(h, p, q), CutRange(rng, p, q, r), par)
           /\ Beside(p, q, r, AsHigh(h, p, q), CutRange(rng, p, q, r)) /\ r \in rng[p] /\ r \in Int
           /\ Stored(N2, live \cup {q}) = Stored(N, live)
  <1> DEFINE h2 == AsHigh(h, p, q)
             rng2 == CutRange(rng, p, q, r)
  <1> SUFFICES ASSUME TreeOK(N, tops, live, h, rng, par), GhostType(live, h, rng, par),
                      p \in live, q \in Pages \ live, N[p].isLeaf,
                      m \in 1 .. Len(N[p].keys) - 1, r \in Int, r = N[p].keys[m + 1],
                      live \cup {q} \subseteq DOMAIN N2, \A x \in live \ {p} : N2[x] = N[x],
                      n1 \in Pages \cup {-1}, n2 \in Pages \cup {-1},
                      N2[p] = Leaf(Take(N[p].keys, m), Take(N[p].values, m), n1),
                      N2[q] = Leaf(Drop(N[p].keys, m), Drop(N[p].values, m), n2),
                      h2 = AsHigh(h, p, q), rng2 = CutRange(rng, p, q, r)
               PROVE  /\ TreeOK(N2, tops \cup {q}, live \cup {q}, h2, rng2, par)
                      /\ GhostType(live \cup {q}, h2, rng2, par)
                      /\ Beside(p, q, r, h2, rng2) /\ r \in rng[p] /\ r \in Int
                      /\ Stored(N2, live \cup {q}) = Stored(N, live)
    BY DEF IsTree, SplitsLeaf
  <1> HIDE DEF h2, rng2
  <1> DEFINE keys == N[p].keys
             values == N[p].values
  <1>1. /\ N[p] \in Node /\ Ascending(keys) /\ h[p] = 0 /\ Len(values) = Len(keys)
        /\ \A j \in DOMAIN keys : keys[j] \in rng[p] /\ keys[j] \in AllKeys
    BY LiveNode
  <1>2. /\ keys \in Seq(Int) /\ values \in Seq(Values) /\ Len(keys) \in Nat
        /\ DOMAIN keys = 1 .. Len(keys)
    BY <1>1, NodeFields
  <1>3. m + 1 \in 1 .. Len(keys) /\ m \in 1 .. Len(keys) /\ 1 \in 1 .. Len(keys)
      /\ m \in 0 .. Len(keys)
    <2>1. m \in 1 .. Len(keys) - 1 /\ Len(keys) \in Nat
      BY <1>2
    <2> HIDE DEF keys
    <2> QED
      BY ONLY <2>1
  <1>4. r \in Int /\ r \in rng[p] /\ p \in Pages /\ p # q /\ r = keys[m + 1]
    BY <1>1, <1>2, <1>3 DEF GhostType
  <1> HIDE DEF keys, values
  <1>5. /\ Take(keys, m) \in Seq(Int) /\ Take(values, m) \in Seq(Values)
        /\ Len(Take(keys, m)) = m /\ Len(Take(values, m)) = m /\ DOMAIN Take(keys, m) = 1 .. m
        /\ \A j \in 1 .. m : Take(keys, m)[j] = keys[j]
    <2>1. m \in 0 .. Len(values)
      BY <1>1, <1>3
    <2>2. Take(values, m) \in Seq(Values) /\ Len(Take(values, m)) = m
      BY ONLY <1>2, <2>1, TakeEffect
    <2>3. /\ Take(keys, m) \in Seq(Int) /\ Len(Take(keys, m)) = m /\ DOMAIN Take(keys, m) = 1 .. m
          /\ \A j \in 1 .. m : Take(keys, m)[j] = keys[j]
      BY ONLY <1>2, <1>3, TakeEffect
    <2> QED
      BY <2>2, <2>3
  <1>6. /\ Drop(keys, m) \in Seq(Int) /\ Drop(values, m) \in Seq(Values)
        /\ Len(Drop(keys, m)) = Len(keys) - m /\ Len(Drop(values, m)) = Len(keys) - m
        /\ DOMAIN Drop(keys, m) = 1 .. Len(keys) - m
        /\ \A j \in 1 .. Len(keys) - m : Drop(keys, m)[j] = keys[j + m]
    <2>1. m \in 0 .. Len(values)
      BY <1>1, <1>3
    <2>2. Drop(values, m) \in Seq(Values) /\ Len(Drop(values, m)) = Len(values) - m
      BY ONLY <1>2, <2>1, DropEffect
    <2>3. Drop(values, m) \in Seq(Values) /\ Len(Drop(values, m)) = Len(keys) - m
      BY <2>2, <1>1
    <2>4. /\ Drop(keys, m) \in Seq(Int) /\ Len(Drop(keys, m)) = Len(keys) - m
          /\ DOMAIN Drop(keys, m) = 1 .. Len(keys) - m
          /\ \A j \in 1 .. Len(keys) - m : Drop(keys, m)[j] = keys[j + m]
      BY ONLY <1>2, <1>3, DropEffect
    <2> QED
      BY <2>3, <2>4
  <1>7. Ascending(Take(keys, m)) /\ Ascending(Drop(keys, m))
    BY <1>1, <1>2, <1>3, AscendingParts
  <1>8. /\ h2 = [h EXCEPT ![q] = h[p]] /\ h2[p] = 0 /\ h2[q] = 0
        /\ rng2[p] = {k \in rng[p] : k < r} /\ rng2[q] = {k \in rng[p] : r <= k}
        /\ \A x \in Pages \ {p, q} : rng2[x] = rng[x] /\ h2[x] = h[x]
    BY <1>1, <1>4 DEF AsHigh, CutRange, GhostType
  <1>9. \A j \in 1 .. m : keys[j] \in rng2[p] /\ keys[j] \in AllKeys
    <2>1. \A j \in 1 .. m : keys[j] < keys[m + 1]
      <3>1. \A i, j \in 1 .. Len(keys) : i < j => keys[i] < keys[j]
        BY <1>1, <1>2 DEF Ascending
      <3>2. \A j \in 1 .. m : j \in 1 .. Len(keys) /\ j < m + 1
        BY <1>2, <1>3
      <3> QED
        BY <3>1, <3>2, <1>3
    <2>2. \A j \in 1 .. m : j \in DOMAIN keys
      BY <1>2, <1>3
    <2>3. \A j \in 1 .. m : keys[j] \in rng[p] /\ keys[j] \in AllKeys
      BY <2>2, <1>1
    <2> QED
      BY <2>1, <2>3, <1>4, <1>8
  <1>10. \A j \in 1 .. Len(keys) - m : keys[j + m] \in rng2[q] /\ keys[j + m] \in AllKeys
    <2>1. ASSUME NEW j \in 1 .. Len(keys) - m PROVE keys[m + 1] <= keys[j + m]
      <3>1. j + m \in 1 .. Len(keys) /\ (j + m = m + 1 \/ m + 1 < j + m)
        BY <1>2, <1>3
      <3>2. \A i, l \in 1 .. Len(keys) : i < l => keys[i] < keys[l]
        BY <1>1, <1>2 DEF Ascending
      <3>3. keys[m + 1] \in Int
        BY <1>2, <1>3
      <3>4. j + m = m + 1 => keys[j + m] = keys[m + 1]
        OBVIOUS
      <3>5. m + 1 < j + m => keys[m + 1] < keys[j + m]
        BY <3>1, <3>2, <1>3
      <3>6. keys[j + m] \in Int
        BY <3>1, <1>2
      <3> QED
        BY <3>1, <3>3, <3>4, <3>5, <3>6
    <2>2. \A j \in 1 .. Len(keys) - m : j + m \in DOMAIN keys
      BY <1>2, <1>3
    <2>3. \A j \in 1 .. Len(keys) - m : keys[j + m] \in rng[p] /\ keys[j + m] \in AllKeys
      BY <2>2, <1>1
    <2> QED
      BY <2>1, <2>3, <1>4, <1>8
  <1>11. LocalOK(N2[p], h2[p], rng2[p])
    <2>1. rng2[p] # {}
      <3>1. 1 \in 1 .. m
        OBVIOUS
      <3> QED
        BY <3>1, <1>9
    <2>2. N2[p] \in Node /\ N2[p].keys = Take(keys, m) /\ N2[p].values = Take(values, m)
        /\ N2[p].isLeaf
      BY <1>5, LeafIsNode DEF Leaf, keys, values
    <2> PICK keys1, values1 : keys1 = Take(keys, m) /\ values1 = Take(values, m)
      OBVIOUS
    <2>3. /\ Ascending(keys1) /\ DOMAIN keys1 = 1 .. m /\ Len(values1) = Len(keys1)
          /\ \A j \in 1 .. m : keys1[j] \in rng2[p] /\ keys1[j] \in AllKeys
      BY <1>5, <1>7, <1>9
    <2> QED
      BY <2>1, <2>2, <2>3, <1>8 DEF LocalOK
  <1>12. LocalOK(N2[q], h2[q], rng2[q])
    <2>1. rng2[q] # {}
      BY <1>4, <1>8
    <2>2. N2[q] \in Node /\ N2[q].keys = Drop(keys, m) /\ N2[q].values = Drop(values, m)
        /\ N2[q].isLeaf
      BY <1>6, LeafIsNode DEF Leaf, keys, values
    <2>3. h2[q] = 0
      BY <1>8
    <2>4. \A j \in DOMAIN N2[q].keys : N2[q].keys[j] \in rng2[q] /\ N2[q].keys[j] \in AllKeys
      BY ONLY <1>6, <1>10, <2>2
    <2>5. Len(N2[q].values) = Len(N2[q].keys) /\ Ascending(N2[q].keys)
      BY ONLY <1>6, <1>7, <2>2
    <2> QED
      BY ONLY <2>1, <2>2, <2>3, <2>4, <2>5 DEF LocalOK
  <1>13. N2[p].isLeaf /\ N2[q].isLeaf
    BY DEF Leaf
  <1>14. GhostType(live \cup {q}, h2, rng2, par)
    <2>1. /\ h2 \in [Pages -> Nat] /\ live \cup {q} \subseteq Pages /\ par \in [Pages -> Pages]
      BY <1>4, <1>8 DEF GhostType
    <2>2. rng2 \in [Pages -> SUBSET Int]
      <3>1. /\ rng \in [Pages -> SUBSET Int] /\ {k \in rng[p] : k < r} \in SUBSET Int
            /\ {k \in rng[p] : r <= k} \in SUBSET Int
        BY <1>4 DEF GhostType
      <3> QED
        BY <3>1 DEF CutRange
    <2> QED
      BY <2>1, <2>2 DEF GhostType
  <1>15. TreeOK(N2, tops \cup {q}, live \cup {q}, h2, rng2, par)
    <2> DEFINE live2 == live \cup {q}
               tops2 == tops \cup {q}
               D == {p, q}
    <2>1. D \subseteq live2 /\ tops2 \subseteq live2 /\ live2 \subseteq DOMAIN N2
      BY DEF TreeOK
    <2>2. \A x \in live2 \ D :
             x \in live /\ N2[x] = N[x] /\ h2[x] = h[x] /\ rng2[x] = rng[x]
      BY <1>8 DEF GhostType
    <2>3. \A c \in live \ tops : par[c] \in live2 \ D =>
              /\ c \in live2 /\ c \notin tops2 /\ h2[c] = h[c] /\ par[c] = par[c]
              /\ rng2[c] \subseteq rng[c]
      BY <1>1, <1>8 DEF GhostType
    <2>4. \A x \in D : NodeOK(N2[x], x, tops2, live2, h2, rng2, par)
      BY <1>11, <1>12, <1>13 DEF NodeOK
    <2>5. \A x \in live2 \ tops2 : x \in live \ tops /\ par[x] \in live2 \ D /\ par[x] = par[x]
      <3>1. ASSUME NEW x \in live2 \ tops2 PROVE par[x] \in live2 \ D
        <4>1. x \in live \ tops
          OBVIOUS
        <4>2. par[x] \in live /\ ~N[par[x]].isLeaf
          BY <4>1 DEF TreeOK, IsChild
        <4> QED
          BY <4>2
      <3> QED
        BY <3>1
    <2> HIDE DEF live2, tops2, D
    <2>6. TreeOK(N2, tops2, live2, h2, rng2, par)
      <3>1. LocalChange(N, tops, live, h, rng, par, N2, tops2, live2, h2, rng2, par, D)
        BY <2>1, <2>2, <2>3, <2>4, <2>5 DEF LocalChange
      <3> QED
        BY <3>1, Rebuild
    <2> QED
      BY <2>6 DEF live2, tops2
  <1>16. Stored(N2, live \cup {q}) = Stored(N, live)
    <2>1. EntriesOf(N2[p].keys, N2[p].values) \cup EntriesOf(N2[q].keys, N2[q].values)
              = EntriesOf(keys, values)
      <3>1. EntriesOf(Take(keys, m), Take(values, m)) \cup EntriesOf(Drop(keys, m), Drop(values, m))
                = EntriesOf(keys, values)
        BY ONLY <1>1, <1>2, <1>3, EntriesParts
      <3>2. /\ N2[p].keys = Take(keys, m) /\ N2[p].values = Take(values, m)
            /\ N2[q].keys = Drop(keys, m) /\ N2[q].values = Drop(values, m)
        BY DEF Leaf, keys, values
      <3> QED
        BY ONLY <3>1, <3>2
    <2>2. ASSUME NEW e
          PROVE  (\E x \in live \cap {p, q} : Holds(N, x, e)) <=>
                     (\E x \in (live \cup {q}) \cap {p, q} : Holds(N2, x, e))
      <3>1. /\ Holds(N, p, e) <=> e \in EntriesOf(keys, values)
            /\ Holds(N2, p, e) <=> e \in EntriesOf(N2[p].keys, N2[p].values)
            /\ Holds(N2, q, e) <=> e \in EntriesOf(N2[q].keys, N2[q].values)
        BY <1>13 DEF Holds, keys, values
      <3> QED
        BY <3>1, <2>1
    <2>3. /\ \A x : x \notin {p, q} => (x \in live <=> x \in live \cup {q})
          /\ \A x \in live : x \notin {p, q} => N2[x] = N[x]
      OBVIOUS
    <2>4. SameEntries(N, live, N2, live \cup {q}, {p, q})
      BY <2>2, <2>3 DEF SameEntries
    <2> QED
      BY <2>4, StoredTwo
  <1>17. Beside(p, q, r, h2, rng2)
    BY <1>8 DEF Beside
  <1> QED
    BY <1>4, <1>14, <1>15, <1>16, <1>17

\* An internal node p split behind its m-th key, with the right half in q; the next key goes up.
SplitsInternal(N, live, p, q, m, r, N2) ==
    /\ p \in live /\ q \in Pages \ live /\ ~N[p].isLeaf
    /\ m \in 0 .. Len(N[p].keys) - 1 /\ r \in Int /\ r = N[p].keys[m + 1]
    /\ live \cup {q} \subseteq DOMAIN N2 /\ \A x \in live \ {p} : N2[x] = N[x]
    /\ N2[p] = Internal(Take(N[p].keys, m), Take(N[p].children, m + 1))
    /\ N2[q] = Internal(Drop(N[p].keys, m + 1), Drop(N[p].children, m + 1))

\* The parents after that.
SplitPar(N, p, q, m, par) ==
    Adopt(par, {N[p].children[j] : j \in m + 2 .. Len(N[p].children)}, q)

\* An internal node that is split.
LEMMA SplitInternalTree ==
    ASSUME NEW N, NEW tops, NEW live, NEW h, NEW rng, NEW par,
           IsTree(N, tops, live, h, rng, par),
           NEW p, NEW q, NEW m, NEW r, NEW N2, SplitsInternal(N, live, p, q, m, r, N2)
    PROVE  /\ IsTree(N2, tops \cup {q}, live \cup {q}, AsHigh(h, p, q), CutRange(rng, p, q, r),
                     SplitPar(N, p, q, m, par))
           /\ Beside(p, q, r, AsHigh(h, p, q), CutRange(rng, p, q, r)) /\ r \in rng[p] /\ r \in Int
           /\ Stored(N2, live \cup {q}) = Stored(N, live)
  <1> DEFINE h2 == AsHigh(h, p, q)
             rng2 == CutRange(rng, p, q, r)
             par2 == SplitPar(N, p, q, m, par)
  <1> SUFFICES ASSUME TreeOK(N, tops, live, h, rng, par), GhostType(live, h, rng, par),
                      p \in live, q \in Pages \ live, ~N[p].isLeaf,
                      m \in 0 .. Len(N[p].keys) - 1, r \in Int, r = N[p].keys[m + 1],
                      live \cup {q} \subseteq DOMAIN N2, \A x \in live \ {p} : N2[x] = N[x],
                      N2[p] = Internal(Take(N[p].keys, m), Take(N[p].children, m + 1)),
                      N2[q] = Internal(Drop(N[p].keys, m + 1), Drop(N[p].children, m + 1)),
                      h2 = AsHigh(h, p, q), rng2 = CutRange(rng, p, q, r),
                      par2 = Adopt(par, {N[p].children[j] : j \in m + 2 .. Len(N[p].children)}, q)
               PROVE  /\ TreeOK(N2, tops \cup {q}, live \cup {q}, h2, rng2, par2)
                      /\ GhostType(live \cup {q}, h2, rng2, par2)
                      /\ Beside(p, q, r, h2, rng2) /\ r \in rng[p] /\ r \in Int
                      /\ Stored(N2, live \cup {q}) = Stored(N, live)
    BY DEF IsTree, SplitsInternal, SplitPar
  <1> HIDE DEF h2, rng2, par2
  <1> DEFINE keys == N[p].keys
             children == N[p].children
             moved == {children[j] : j \in m + 2 .. Len(children)}
  <1>1. /\ N[p] \in Node /\ Ascending(keys) /\ h[p] # 0 /\ Len(children) = Len(keys) + 1
        /\ Injective(children)
        /\ \A j \in DOMAIN keys : keys[j] \in rng[p] /\ keys[j] \in AllKeys
    BY LiveNode
  <1>2. /\ keys \in Seq(Int) /\ children \in Seq(Pages) /\ Len(keys) \in Nat
        /\ DOMAIN keys = 1 .. Len(keys) /\ DOMAIN children = 1 .. Len(keys) + 1
    BY <1>1, NodeFields
  <1>3. /\ m + 1 \in 1 .. Len(keys) /\ m \in 0 .. Len(keys) /\ m + 1 \in 0 .. Len(keys)
        /\ m + 1 \in 0 .. Len(children) /\ m \in Nat
    BY <1>1, <1>2
  <1>4. r \in Int /\ r \in rng[p] /\ p \in Pages /\ p # q /\ r = keys[m + 1]
    BY <1>1, <1>2, <1>3 DEF GhostType
  <1>5. /\ par2 = Adopt(par, moved, q)
        /\ N2[p] = Internal(Take(keys, m), Take(children, m + 1))
        /\ N2[q] = Internal(Drop(keys, m + 1), Drop(children, m + 1))
    OBVIOUS
  <1>6. \A j \in DOMAIN children :
           /\ children[j] \in live \ tops /\ children[j] \in Pages
           /\ h[children[j]] = h[p] - 1 /\ h[p] \in Nat /\ h[p] > 0
           /\ par[children[j]] = p
           /\ \A k \in rng[children[j]] : k \in Int /\ k \in rng[p] /\ IsSlot(keys, k, j - 1)
    BY ChildOf
  <1>7. \A x \in live \ tops : par[x] = p => \E j \in DOMAIN children : children[j] = x
    BY DEF TreeOK, IsChild
  <1>8. /\ h2 = [h EXCEPT ![q] = h[p]] /\ h2[p] = h[p] /\ h2[q] = h[p]
        /\ rng2[p] = {k \in rng[p] : k < r} /\ rng2[q] = {k \in rng[p] : r <= k}
        /\ \A x \in Pages \ {p, q} : rng2[x] = rng[x] /\ h2[x] = h[x]
    BY <1>1, <1>4 DEF AsHigh, CutRange, GhostType
  <1>9. par2 \in [Pages -> Pages] /\ \A x \in Pages : par2[x] = IF x \in moved THEN q ELSE par[x]
    BY <1>5 DEF Adopt, GhostType
  <1> HIDE DEF keys, children
  <1>10. /\ \A j \in DOMAIN children : j <= m + 1 => children[j] \notin moved
         /\ \A j \in DOMAIN children : j > m + 1 => children[j] \in moved
    <2>1. ASSUME NEW j \in DOMAIN children, j <= m + 1, NEW l \in m + 2 .. Len(children)
          PROVE  children[j] # children[l]
      <3>1. l \in DOMAIN children /\ j # l
        BY <1>1, <1>2, <1>3, <2>1
      <3> QED
        BY <3>1, <1>1 DEF Injective
    <2>2. ASSUME NEW j \in DOMAIN children, j > m + 1 PROVE j \in m + 2 .. Len(children)
      BY <1>1, <1>2, <1>3, <2>2
    <2> QED
      BY <2>1, <2>2
  <1>11. \A x \in moved : x \in live \ tops /\ par[x] = p /\ x # p /\ x # q
    <2>1. \A j \in m + 2 .. Len(children) : j \in DOMAIN children
      BY <1>1, <1>2, <1>3
    <2>2. h[p] \in Nat /\ h[p] - 1 # h[p]
      BY <1>4 DEF GhostType
    <2> QED
      BY <2>1, <2>2, <1>6
  <1> HIDE DEF moved
  <1>12. /\ Take(keys, m) \in Seq(Int) /\ Len(Take(keys, m)) = m /\ DOMAIN Take(keys, m) = 1 .. m
         /\ \A j \in 1 .. m : Take(keys, m)[j] = keys[j]
    BY ONLY <1>2, <1>3, TakeEffect
  <1> DEFINE o == m + 1
  <1>13. o \in 1 .. Len(keys) /\ o \in 0 .. Len(keys) /\ o \in 0 .. Len(children) /\ o = m + 1
      /\ o \in Nat
    BY <1>3
  <1> HIDE DEF o
  <1>14. /\ Take(children, o) \in Seq(Pages) /\ Len(Take(children, o)) = o
         /\ DOMAIN Take(children, o) = 1 .. o
         /\ \A j \in 1 .. o : Take(children, o)[j] = children[j]
    <2>1. children \in Seq(Pages) /\ o \in 0 .. Len(children)
      BY <1>2, <1>13
    <2> QED
      BY ONLY <2>1, TakeEffect
  <1>14a. \A j \in 1 .. Len(keys) - o : j + o \in 1 .. Len(keys) /\ o < j + o
    <2>1. Len(keys) \in Nat /\ o \in Nat
      BY <1>2, <1>13
    <2> QED
      BY ONLY <2>1
  <1>14b. \A j \in 1 .. Len(children) - o :
             /\ j + o \in 1 .. Len(children) /\ o < j + o /\ o <= j + o - 1
             /\ o \in 1 .. j + o - 1 /\ j + o - 1 - o = j - 1
    <2>1. Len(children) \in Nat /\ o \in Nat /\ o > 0
      BY <1>1, <1>2, <1>13
    <2> QED
      BY ONLY <2>1
  <1>15. /\ Drop(keys, o) \in Seq(Int) /\ Len(Drop(keys, o)) = Len(keys) - o
         /\ DOMAIN Drop(keys, o) = 1 .. Len(keys) - o
         /\ \A j \in 1 .. Len(keys) - o : Drop(keys, o)[j] = keys[j + o]
    BY ONLY <1>2, <1>13, DropEffect
  <1>16. /\ Drop(children, o) \in Seq(Pages) /\ Len(Drop(children, o)) = Len(children) - o
         /\ DOMAIN Drop(children, o) = 1 .. Len(children) - o
         /\ \A j \in 1 .. Len(children) - o : Drop(children, o)[j] = children[j + o]
    BY ONLY <1>2, <1>13, DropEffect
  <1>17. Ascending(Take(keys, m)) /\ Ascending(Drop(keys, o))
    BY <1>1, <1>2, <1>3, <1>13, AscendingParts
  <1>18. /\ ~N2[p].isLeaf /\ N2[p].keys = Take(keys, m) /\ N2[p].children = Take(children, o)
         /\ ~N2[q].isLeaf /\ N2[q].keys = Drop(keys, o) /\ N2[q].children = Drop(children, o)
         /\ N2[p] \in Node /\ N2[q] \in Node
    <2>1. Internal(Take(keys, m), Take(children, o)) \in Node
      BY <1>12, <1>14, InternalIsNode
    <2>2. Internal(Drop(keys, o), Drop(children, o)) \in Node
      BY <1>15, <1>16, InternalIsNode
    <2> QED
      BY <2>1, <2>2, <1>5, <1>13 DEF Internal
  <1>19. \A i, l \in 1 .. Len(keys) : i < l => keys[i] < keys[l]
    BY <1>1, <1>2 DEF Ascending
  \* The children and keys of each half lie on its side of r.
  <1>20. ASSUME NEW j \in 1 .. o, NEW k \in rng[children[j]]
         PROVE  k \in rng2[p] /\ IsSlot(Take(keys, m), k, j - 1)
    <2>1. j \in DOMAIN children /\ j - 1 <= m /\ o \in j - 1 + 1 .. Len(keys)
      BY <1>2, <1>13
    <2>2. k \in Int /\ k \in rng[p] /\ IsSlot(keys, k, j - 1)
      BY <2>1, <1>6
    <2>3. k < keys[o]
      BY <2>1, <2>2 DEF IsSlot
    <2>4. IsSlot(Take(keys, m), k, j - 1)
      BY <2>1, <2>2, <1>2, <1>3, SlotParts
    <2> QED
      BY <2>2, <2>3, <2>4, <1>4, <1>8, <1>13
  <1>21. ASSUME NEW j \in 1 .. Len(children) - o, NEW k \in rng[children[j + o]]
         PROVE  k \in rng2[q] /\ IsSlot(Drop(keys, o), k, j - 1)
    <2> DEFINE i == j + o
    <2>1. i \in DOMAIN children /\ o <= i - 1 /\ o \in 1 .. i - 1 /\ i - 1 - o = j - 1
      <3>1. DOMAIN children = 1 .. Len(children)
        BY <1>1, <1>2
      <3> QED
        BY <3>1, <1>14b
    <2>2. k \in Int /\ k \in rng[p] /\ IsSlot(keys, k, i - 1)
      BY <2>1, <1>6
    <2>3. keys[o] <= k
      BY <2>1, <2>2 DEF IsSlot
    <2>4. IsSlot(Drop(keys, o), k, j - 1)
      <3> HIDE DEF i
      <3>1. \A v : IsSlot(keys, k, v) /\ o <= v => IsSlot(Drop(keys, o), k, v - o)
        BY <1>2, <1>13, <2>2, SlotParts
      <3>2. IsSlot(Drop(keys, o), k, i - 1 - o)
        BY <3>1, <2>1, <2>2
      <3> QED
        BY <3>2, <2>1
    <2> QED
      BY <2>2, <2>3, <2>4, <1>4, <1>8, <1>13
  <1>22. \A j \in 1 .. m : keys[j] \in rng2[p] /\ keys[j] \in AllKeys
    <2>1. \A j \in 1 .. m : j \in DOMAIN keys /\ j \in 1 .. Len(keys) /\ j < o
      BY <1>2, <1>13
    <2>2. \A j \in 1 .. m : keys[j] < keys[o] /\ keys[j] \in rng[p] /\ keys[j] \in AllKeys
      BY <2>1, <1>1, <1>13, <1>19
    <2> QED
      BY <2>2, <1>4, <1>8, <1>13
  <1>23. \A j \in 1 .. Len(keys) - o : keys[j + o] \in rng2[q] /\ keys[j + o] \in AllKeys
    <2>1. \A j \in 1 .. Len(keys) - o : j + o \in DOMAIN keys /\ j + o \in 1 .. Len(keys)
        /\ o < j + o
      BY <1>2, <1>14a
    <2>2. \A j \in 1 .. Len(keys) - o :
             keys[o] < keys[j + o] /\ keys[j + o] \in rng[p] /\ keys[j + o] \in AllKeys
      BY <2>1, <1>1, <1>13, <1>19
    <2>3. \A j \in 1 .. Len(keys) - o : keys[o] <= keys[j + o]
      <3>1. \A j \in 1 .. Len(keys) - o : keys[j + o] \in Int /\ keys[o] \in Int
        BY <2>1, <1>2, <1>13
      <3> QED
        BY <2>2, <3>1
    <2> QED
      BY <2>2, <2>3, <1>4, <1>8, <1>13
  <1>24. LocalOK(N2[p], h2[p], rng2[p])
    <2>1. rng2[p] # {}
      <3>1. 1 \in 1 .. o /\ 1 \in DOMAIN children
        BY <1>2, <1>13
      <3>2. rng[children[1]] # {}
        BY <3>1, <1>6, LiveNode
      <3> QED
        BY <3>1, <3>2, <1>20
    <2>2. Injective(Take(children, o))
      <3>1. \A j \in 1 .. o : j \in DOMAIN children
        BY <1>2, <1>13
      <3> QED
        BY <3>1, <1>1, <1>14 DEF Injective
    <2>3. h2[p] # 0
      BY <1>1, <1>8
    <2> QED
      BY <2>1, <2>2, <2>3, <1>12, <1>13, <1>14, <1>17, <1>18, <1>22 DEF LocalOK
  <1>25. LocalOK(N2[q], h2[q], rng2[q])
    <2>1. rng2[q] # {}
      BY <1>4, <1>8
    <2>2. Injective(Drop(children, o))
      <3>1. \A j \in 1 .. Len(children) - o : j + o \in DOMAIN children
        BY ONLY <1>1, <1>2, <1>13
      <3>2. \A i, l \in 1 .. Len(children) - o : i + o = l + o => i = l
        BY <1>13
      <3> QED
        BY <3>1, <3>2, <1>1, <1>16 DEF Injective
    <2>3. h2[q] # 0
      BY <1>1, <1>8
    <2>4. Len(Drop(children, o)) = Len(Drop(keys, o)) + 1
      <3>1. PICK l : l = Len(keys)
        OBVIOUS
      <3>2. Len(children) = l + 1 /\ l \in Nat
        BY <1>1, <1>2, <3>1
      <3> QED
        BY ONLY <1>13, <1>15, <1>16, <3>1, <3>2
    <2>5. \A j \in DOMAIN N2[q].keys : N2[q].keys[j] \in rng2[q] /\ N2[q].keys[j] \in AllKeys
      BY ONLY <1>15, <1>18, <1>23
    <2> QED
      BY ONLY <2>1, <2>2, <2>3, <2>4, <2>5, <1>17, <1>18 DEF LocalOK
  <1>26. GhostType(live \cup {q}, h2, rng2, par2)
    <2>1. /\ h2 \in [Pages -> Nat] /\ live \cup {q} \subseteq Pages /\ par2 \in [Pages -> Pages]
      BY <1>4, <1>8, <1>9 DEF GhostType
    <2>2. rng2 \in [Pages -> SUBSET Int]
      <3>1. /\ rng \in [Pages -> SUBSET Int] /\ {k \in rng[p] : k < r} \in SUBSET Int
            /\ {k \in rng[p] : r <= k} \in SUBSET Int
        BY <1>4 DEF GhostType
      <3> QED
        BY <3>1 DEF CutRange
    <2> QED
      BY <2>1, <2>2 DEF GhostType
  <1>27. TreeOK(N2, tops \cup {q}, live \cup {q}, h2, rng2, par2)
    <2> DEFINE live2 == live \cup {q}
               tops2 == tops \cup {q}
               D == {p, q}
    <2>1. D \subseteq live2 /\ tops2 \subseteq live2 /\ live2 \subseteq DOMAIN N2
      BY DEF TreeOK
    <2>2. \A x \in live2 \ D :
             x \in live /\ N2[x] = N[x] /\ h2[x] = h[x] /\ rng2[x] = rng[x]
      BY <1>8 DEF GhostType
    <2>3. ASSUME NEW c \in live \ tops, c # p
          PROVE  /\ c \in live2 /\ c \notin tops2 /\ h2[c] = h[c] /\ rng2[c] = rng[c]
                 /\ par2[c] = IF c \in moved THEN q ELSE par[c]
      BY <1>8, <1>9, <2>3 DEF GhostType
    <2>4. ASSUME NEW c \in live \ tops, par[c] \in live2 \ D
          PROVE  /\ c \in live2 /\ c \notin tops2 /\ h2[c] = h[c] /\ par2[c] = par[c]
                 /\ rng2[c] \subseteq rng[c]
      <3>1. c \notin moved /\ c \in Pages /\ c # q
        BY <1>11, <2>4 DEF GhostType
      <3> QED
        BY <3>1, <1>8, <1>9
    <2>5. NodeOK(N2[p], p, tops2, live2, h2, rng2, par2)
      <3>1. ASSUME NEW j \in DOMAIN N2[p].children
            PROVE  LinkOK(N2[p], p, j, N2[p].children[j], tops2, live2, h2, rng2, par2)
        <4>1. j \in 1 .. o /\ j \in DOMAIN children /\ j <= m + 1 /\ N2[p].children[j] = children[j]
          <5>1. j \in 1 .. o
            BY <1>14, <1>18
          <5>2. N2[p].children[j] = children[j]
            BY <5>1, <1>14, <1>18
          <5>3. j \in DOMAIN children /\ j <= m + 1
            BY ONLY <5>1, <1>2, <1>13
          <5> QED
            BY <5>1, <5>2, <5>3
        <4> DEFINE c == children[j]
        <4>2. c \in live \ tops /\ h[c] = h[p] - 1 /\ par[c] = p /\ c \notin moved /\ c # p
          <5>1. h[p] # h[p] - 1
            BY <4>1, <1>6
          <5> QED
            BY <5>1, <4>1, <1>6, <1>10
        <4>3. /\ c \in live2 /\ c \notin tops2 /\ h2[c] = h2[p] - 1 /\ rng2[c] = rng[c]
                 /\ par2[c] = p
          BY <4>2, <2>3, <1>8
        <4>4. \A k \in rng[c] : k \in rng2[p] /\ IsSlot(N2[p].keys, k, j - 1)
          BY <4>1, <1>18, <1>20
        <4> HIDE DEF c
        <4>5. LinkOK(N2[p], p, j, c, tops2, live2, h2, rng2, par2)
          BY <4>3, <4>4 DEF LinkOK
        <4> QED
          BY <4>1, <4>5 DEF c
      <3> QED
        BY <3>1, <1>18, <1>24 DEF NodeOK
    <2>6. NodeOK(N2[q], q, tops2, live2, h2, rng2, par2)
      <3>1. ASSUME NEW j \in DOMAIN N2[q].children
            PROVE  LinkOK(N2[q], q, j, N2[q].children[j], tops2, live2, h2, rng2, par2)
        <4>1. /\ j \in 1 .. Len(children) - o /\ j + o \in DOMAIN children /\ j + o > m + 1
              /\ N2[q].children[j] = children[j + o]
          <5>1. DOMAIN children = 1 .. Len(children) /\ j \in 1 .. Len(children) - o
            BY <1>1, <1>2, <1>16, <1>18
          <5> QED
            BY <5>1, <1>13, <1>14b, <1>16, <1>18
        <4> DEFINE c == children[j + o]
        <4>2. c \in live \ tops /\ h[c] = h[p] - 1 /\ c \in moved /\ c # p
          BY <4>1, <1>6, <1>10, <1>11
        <4>3. /\ c \in live2 /\ c \notin tops2 /\ h2[c] = h2[q] - 1 /\ rng2[c] = rng[c]
                 /\ par2[c] = q
          BY <4>2, <2>3, <1>8
        <4>4. \A k \in rng[c] : k \in rng2[q] /\ IsSlot(N2[q].keys, k, j - 1)
          BY <4>1, <1>18, <1>21
        <4> HIDE DEF c
        <4>5. LinkOK(N2[q], q, j, c, tops2, live2, h2, rng2, par2)
          BY <4>3, <4>4 DEF LinkOK
        <4> QED
          BY <4>1, <4>5 DEF c
      <3> QED
        BY <3>1, <1>18, <1>25 DEF NodeOK
    <2>7. ASSUME NEW x \in live2 \ tops2
          PROVE  \/ par2[x] \in D /\ IsChild(N2, par2[x], x)
                 \/ x \in live \ tops /\ par2[x] \in live2 \ D /\ par2[x] = par[x]
      <3>1. x \in live \ tops /\ x \in Pages /\ par[x] \in live
        BY DEF TreeOK, GhostType
      <3>2. CASE par[x] # p
        <4>1. x \notin moved
          BY <3>2, <1>11
        <4> QED
          BY <3>1, <3>2, <4>1, <1>9
      <3>3. CASE par[x] = p
        <4>1. PICK j \in DOMAIN children : children[j] = x
          BY <3>1, <3>3, <1>7
        <4>2. CASE j <= m + 1
          <5>1. j \in 1 .. o /\ x \notin moved
            BY <4>1, <4>2, <1>2, <1>10, <1>13
          <5>2. par2[x] = p /\ j \in DOMAIN N2[p].children /\ N2[p].children[j] = x
            BY <5>1, <3>1, <3>3, <4>1, <1>9, <1>14, <1>18
          <5> QED
            BY <5>2, <1>18 DEF IsChild
        <4>3. CASE j > m + 1
          <5>1. j - o \in 1 .. Len(children) - o /\ j - o + o = j /\ x \in moved
            BY <4>1, <4>3, <1>1, <1>2, <1>10, <1>13
          <5>2. par2[x] = q /\ j - o \in DOMAIN N2[q].children /\ N2[q].children[j - o] = x
            BY <5>1, <3>1, <4>1, <1>9, <1>16, <1>18
          <5> QED
            BY <5>2, <1>18 DEF IsChild
        <4> QED
          BY ONLY <4>2, <4>3, <1>2, <1>3
      <3> QED
        BY <3>2, <3>3
    <2>8. \A x \in D : NodeOK(N2[x], x, tops2, live2, h2, rng2, par2)
      BY <2>5, <2>6
    <2> HIDE DEF live2, tops2, D
    <2>9. TreeOK(N2, tops2, live2, h2, rng2, par2)
      <3>1. LocalChange(N, tops, live, h, rng, par, N2, tops2, live2, h2, rng2, par2, D)
        BY <2>1, <2>2, <2>4, <2>7, <2>8 DEF LocalChange
      <3> QED
        BY <3>1, Rebuild
    <2> QED
      BY <2>9 DEF live2, tops2
  <1>28. Stored(N2, live \cup {q}) = Stored(N, live)
    <2>1. \A e : ~Holds(N, p, e) /\ ~Holds(N2, p, e) /\ ~Holds(N2, q, e)
      BY <1>18 DEF Holds
    <2>2. SameEntries(N, live, N2, live \cup {q}, {p, q})
      BY <2>1 DEF SameEntries
    <2> QED
      BY <2>2, StoredTwo
  <1>29. Beside(p, q, r, h2, rng2)
    BY <1>8 DEF Beside
  <1> QED
    BY <1>4, <1>26, <1>27, <1>28, <1>29

\* A leaf that gets other entries, of keys it may hold.
LEMMA ChangedLeafTree ==
    ASSUME NEW N, NEW tops, NEW live, NEW h, NEW rng, NEW par,
           TreeOK(N, tops, live, h, rng, par),
           NEW p \in live, N[p].isLeaf,
           NEW N2, live \subseteq DOMAIN N2, \A x \in live \ {p} : N2[x] = N[x],
           N2[p].isLeaf, LocalOK(N2[p], h[p], rng[p])
    PROVE  TreeOK(N2, tops, live, h, rng, par)
  <1>1. \A x \in live \ tops : par[x] \in live /\ par[x] # p
    BY DEF TreeOK, IsChild
  <1>2. NodeOK(N2[p], p, tops, live, h, rng, par)
    BY DEF NodeOK
  <1>3. tops \subseteq live
    BY DEF TreeOK
  <1>4. LocalChange(N, tops, live, h, rng, par, N2, tops, live, h, rng, par, {p})
    BY <1>1, <1>2, <1>3 DEF LocalChange
  <1> QED
    BY <1>4, Rebuild

\* A page that may hold more keys.
LEMMA WiderTree ==
    ASSUME NEW N, NEW tops, NEW live, NEW h, NEW rng, NEW par,
           TreeOK(N, tops, live, h, rng, par), GhostType(live, h, rng, par),
           NEW p \in live, NEW k \in Int, p \notin tops => Fits(N, rng, par[p], p, {k}),
           NEW rng2, rng2 = [rng EXCEPT ![p] = rng[p] \cup {k}]
    PROVE  TreeOK(N, tops, live, h, rng2, par) /\ GhostType(live, h, rng2, par)
  <1>1. /\ p \in Pages /\ rng2 \in [Pages -> SUBSET Int]
        /\ rng2[p] = rng[p] \cup {k} /\ \A x \in Pages : x # p => rng2[x] = rng[x]
    BY DEF GhostType
  <1>2. GhostType(live, h, rng2, par)
    BY <1>1 DEF GhostType
  <1>3. NodeOK(N[p], p, tops, live, h, rng2, par)
    <2>1. NodeOK(N[p], p, tops, live, h, rng, par)
      BY DEF TreeOK
    <2>2. LocalOK(N[p], h[p], rng2[p])
      BY <1>1, <2>1 DEF NodeOK, LocalOK
    <2>3. ASSUME ~N[p].isLeaf, NEW j \in DOMAIN N[p].children
          PROVE  LinkOK(N[p], p, j, N[p].children[j], tops, live, h, rng2, par)
      <3> DEFINE c == N[p].children[j]
      <3>1. LinkOK(N[p], p, j, c, tops, live, h, rng, par) /\ c # p /\ c \in Pages
        <4>1. LinkOK(N[p], p, j, c, tops, live, h, rng, par)
          BY <2>1, <2>3 DEF NodeOK
        <4>2. h[c] = h[p] - 1 /\ h[p] \in Nat /\ c \in Pages
          BY <4>1, <1>1 DEF LinkOK, GhostType
        <4> QED
          BY <4>1, <4>2
      <3> HIDE DEF c
      <3>2. LinkOK(N[p], p, j, c, tops, live, h, rng2, par)
        BY <3>1, <1>1 DEF LinkOK
      <3> QED
        BY <3>2 DEF c
    <2> QED
      BY <2>2, <2>3 DEF NodeOK
  <1>4. LocalChange(N, tops, live, h, rng, par, N, tops, live, h, rng2, par, {p})
    <2>1. tops \subseteq live /\ live \subseteq DOMAIN N /\ live \subseteq Pages
      BY DEF TreeOK, GhostType
    <2>2. ASSUME NEW c \in live \ tops
          PROVE  rng2[c] \subseteq rng[c] \/ Fits(N, rng, par[c], c, rng2[c])
      <3>1. CASE c # p
        BY <3>1, <1>1, <2>1
      <3>2. CASE c = p
        <4> DEFINE pp == par[p]
        <4>1. Fits(N, rng, pp, p, {k}) /\ pp \in live /\ ~N[pp].isLeaf
          BY <2>2, <3>2 DEF TreeOK, IsChild
        <4> HIDE DEF pp
        <4>2. \A j \in DOMAIN N[pp].children : N[pp].children[j] = p =>
                 \A x \in rng[p] : x \in rng[pp] /\ IsSlot(N[pp].keys, x, j - 1)
          BY <4>1, ChildOf
        <4>3. Fits(N, rng, pp, p, rng2[p])
          BY <4>1, <4>2, <1>1 DEF Fits
        <4> QED
          BY <3>2, <4>3 DEF pp
      <3> QED
        BY <3>1, <3>2
    <2>3. \A x \in live \ tops : par[x] \in live /\ (par[x] = p => IsChild(N, p, x))
      BY DEF TreeOK
    <2>4. \A x \in live \ {p} : rng2[x] = rng[x]
      BY <1>1, <2>1
    <2> HIDE DEF TreeOK
    <2> QED
      BY <1>3, <2>1, <2>2, <2>3, <2>4 DEF LocalChange
  <1> QED
    BY <1>2, <1>4, Rebuild

\* A top that is left out with all that is below it.
LEMMA DetachTree ==
    ASSUME NEW N, NEW tops, NEW live, NEW h, NEW rng, NEW par,
           TreeOK(N, tops, live, h, rng, par), NEW q \in tops
    PROVE  \E live2 \in SUBSET live : q \notin live2 /\ TreeOK(N, tops \ {q}, live2, h, rng, par)
  <1> DEFINE Rooted(S) == q \notin S /\ \A y \in S : y \in tops \/ par[y] \in S
             live2 == {x \in live : \E S \in SUBSET live : x \in S /\ Rooted(S)}
             tops2 == tops \ {q}
  <1>1. tops \subseteq live /\ live \subseteq DOMAIN N /\ \A x \in live \ tops : par[x] \in live
    BY DEF TreeOK
  <1>2. tops2 \subseteq live2
    <2>1. ASSUME NEW t \in tops2 PROVE t \in live2
      <3>1. {t} \in SUBSET live /\ t \in {t} /\ Rooted({t})
        BY <1>1
      <3> QED
        BY <3>1
    <2> QED
      BY <2>1
  <1>3. ASSUME NEW x \in live2, x \notin tops PROVE par[x] \in live2
    <2>1. PICK S \in SUBSET live : x \in S /\ Rooted(S)
      OBVIOUS
    <2>2. par[x] \in S
      BY <1>3, <2>1
    <2> QED
      BY <2>1, <2>2
  <1>4. q \notin live2
    OBVIOUS
  <1>5. ASSUME NEW c \in live \ tops, par[c] \in live2, c # q PROVE c \in live2
    <2>1. PICK S \in SUBSET live : par[c] \in S /\ Rooted(S)
      BY <1>5
    <2>2. S \cup {c} \in SUBSET live /\ c \in S \cup {c} /\ Rooted(S \cup {c})
      BY <1>5, <2>1
    <2> QED
      BY <2>2
  <1>6. live2 \subseteq live
    OBVIOUS
  <1> HIDE DEF live2, tops2
  <1>7. LocalChange(N, tops, live, h, rng, par, N, tops2, live2, h, rng, par, {})
    <2>1. \A c \in live \ tops : c # q /\ c \notin tops2
      BY DEF tops2
    <2>2. \A x \in live2 \ tops2 : x \in live \ tops /\ par[x] \in live2
      BY <1>3, <1>4, <1>6 DEF tops2
    <2> QED
      BY <1>1, <1>2, <1>5, <1>6, <2>1, <2>2 DEF LocalChange
  <1> QED
    BY <1>4, <1>6, <1>7, Rebuild DEF tops2

\* p is an internal node without keys, and c its child.
OnlyChild(N, p, c) == ~N[p].isLeaf /\ N[p].keys = <<>> /\ c = Head(N[p].children)

\* The root is left out for its only child.
LEMMA ShrinkTree ==
    ASSUME NEW N, NEW tops, NEW live, NEW h, NEW rng, NEW par,
           TreeOK(N, tops, live, h, rng, par), GhostType(live, h, rng, par),
           NEW p \in tops, NEW c, OnlyChild(N, p, c)
    PROVE  /\ c \in live /\ h[c] = h[p] - 1 /\ h[p] \in Nat /\ c # p
           /\ TreeOK(N, (tops \ {p}) \cup {c}, live \ {p}, h, rng, par)
           /\ Stored(N, live \ {p}) = Stored(N, live)
  <1> USE DEF OnlyChild
  <1>1. p \in live /\ tops \subseteq live /\ live \subseteq DOMAIN N
    BY DEF TreeOK
  <1>2. N[p] \in Node /\ Len(N[p].children) = 1
    <2>1. N[p] \in Node /\ Len(N[p].children) = Len(N[p].keys) + 1
      BY <1>1, LiveNode
    <2>2. Len(<<>>) = 0
      OBVIOUS
    <2> QED
      BY <2>1, <2>2
  <1>3. DOMAIN N[p].children = {1} /\ c = N[p].children[1]
    BY <1>2, NodeFields
  <1>4. c \in live \ tops /\ h[c] = h[p] - 1 /\ h[p] \in Nat /\ par[c] = p
    <2>1. 1 \in DOMAIN N[p].children
      BY <1>3
    <2> QED
      BY <1>1, <1>3, <2>1, ChildOf
  <1>5. \A x \in live \ tops : par[x] \in live /\ (par[x] = p => x = c)
    BY <1>3 DEF TreeOK, IsChild
  <1>6. LocalChange(N, tops, live, h, rng, par, N, (tops \ {p}) \cup {c}, live \ {p}, h, rng, par,
      {})
    BY <1>1, <1>4, <1>5 DEF LocalChange
  <1>7. TreeOK(N, (tops \ {p}) \cup {c}, live \ {p}, h, rng, par)
    BY <1>6, Rebuild
  <1>8. Stored(N, live \ {p}) = Stored(N, live)
    <2>1. SameEntries(N, live, N, live \ {p}, {p})
      BY DEF SameEntries, Holds
    <2> QED
      BY <2>1, StoredTwo
  <1>9. c # p
    BY <1>1, <1>4
  <1> QED
    BY <1>4, <1>7, <1>8, <1>9

\* A new root q above p and the right half s that was split off it at r.
GrowsRoot(N, tops, live, h, rng, p, s, r, q, N2) ==
    /\ p \in tops /\ s \in tops /\ p # s
    /\ r \in AllKeys /\ r \in Int /\ r \in rng[s] /\ Beside(p, s, r, h, rng)
    /\ q \in Pages \ live
    /\ live \cup {q} \subseteq DOMAIN N2 /\ \A x \in live : N2[x] = N[x]
    /\ N2[q] = Internal(<<r>>, <<p, s>>)

\* The height of a new root, and the keys that may be below it.
RootHeight(h, p, q) == [h EXCEPT ![q] = h[p] + 1]
RootRange(rng, p, s, q) == [rng EXCEPT ![q] = rng[p] \cup rng[s]]

\* Two tops get a common parent.
LEMMA GrowTree ==
    ASSUME NEW N, NEW tops, NEW live, NEW h, NEW rng, NEW par,
           IsTree(N, tops, live, h, rng, par),
           NEW p, NEW s, NEW r, NEW q, NEW N2,
           GrowsRoot(N, tops, live, h, rng, p, s, r, q, N2)
    PROVE  /\ IsTree(N2, (tops \ {p, s}) \cup {q}, live \cup {q}, RootHeight(h, p, q),
                     RootRange(rng, p, s, q), Adopt(par, {p, s}, q))
           /\ Stored(N2, live \cup {q}) = Stored(N, live)
  <1> DEFINE h2 == RootHeight(h, p, q)
             rng2 == RootRange(rng, p, s, q)
             par2 == Adopt(par, {p, s}, q)
  <1> SUFFICES ASSUME TreeOK(N, tops, live, h, rng, par), GhostType(live, h, rng, par),
                      p \in tops, s \in tops, p # s, r \in AllKeys, r \in Int, r \in rng[s],
                      Beside(p, s, r, h, rng), q \in Pages \ live,
                      live \cup {q} \subseteq DOMAIN N2, \A x \in live : N2[x] = N[x],
                      N2[q] = Internal(<<r>>, <<p, s>>),
                      h2 = [h EXCEPT ![q] = h[p] + 1],
                      rng2 = [rng EXCEPT ![q] = rng[p] \cup rng[s]],
                      par2 = Adopt(par, {p, s}, q)
               PROVE  /\ TreeOK(N2, (tops \ {p, s}) \cup {q}, live \cup {q}, h2, rng2, par2)
                      /\ GhostType(live \cup {q}, h2, rng2, par2)
                      /\ Stored(N2, live \cup {q}) = Stored(N, live)
    BY DEF IsTree, GrowsRoot, RootHeight, RootRange
  <1> HIDE DEF h2, rng2, par2
  <1> DEFINE tops2 == (tops \ {p, s}) \cup {q}
             live2 == live \cup {q}
  <1>1. /\ tops \subseteq live /\ live \subseteq DOMAIN N /\ live \subseteq Pages
        /\ p \in live /\ s \in live /\ p \in Pages /\ s \in Pages /\ p # q /\ s # q
    BY DEF TreeOK, GhostType
  <1>2. /\ h2 \in [Pages -> Nat] /\ h2[q] = h[p] + 1 /\ \A x \in Pages : x # q => h2[x] = h[x]
        /\ rng2 \in [Pages -> SUBSET Int] /\ rng2[q] = rng[p] \cup rng[s]
        /\ \A x \in Pages : x # q => rng2[x] = rng[x]
        /\ h[p] \in Nat /\ h[s] = h[p] /\ rng[p] \subseteq Int /\ rng[s] \subseteq Int
    BY <1>1 DEF GhostType, Beside
  <1>3. /\ par2 \in [Pages -> Pages]
        /\ \A x \in Pages : par2[x] = IF x \in {p, s} THEN q ELSE par[x]
    BY DEF Adopt, GhostType
  <1>4. GhostType(live2, h2, rng2, par2)
    <2>1. live2 \subseteq Pages
      BY <1>1
    <2> HIDE DEF live2
    <2> QED
      BY <2>1, <1>2, <1>3 DEF GhostType
  <1>5. /\ N2[q] \in Node /\ ~N2[q].isLeaf /\ N2[q].keys = <<r>> /\ N2[q].children = <<p, s>>
        /\ DOMAIN <<p, s>> = {1, 2} /\ DOMAIN <<r>> = {1}
        /\ Len(<<p, s>>) = Len(<<r>>) + 1 /\ Ascending(<<r>>) /\ Injective(<<p, s>>)
    <2>1. <<r>> \in Seq(Int) /\ <<p, s>> \in Seq(Pages)
      BY <1>1
    <2>2. N2[q] \in Node
      BY <2>1, InternalIsNode
    <2> QED
      BY <2>2 DEF Internal, Ascending, Injective
  <1>6. \A k \in rng[p] : IsSlot(<<r>>, k, 1 - 1)
    BY <1>2 DEF IsSlot, Beside
  <1>7. \A k \in rng[s] : IsSlot(<<r>>, k, 2 - 1)
    BY <1>2 DEF IsSlot, Beside
  <1>8. LocalOK(N2[q], h2[q], rng2[q])
    <2>1. h2[q] # 0 /\ r \in rng2[q] /\ <<r>>[1] = r
      BY <1>2
    <2>2. \A j \in DOMAIN <<r>> : <<r>>[j] \in rng2[q] /\ <<r>>[j] \in AllKeys
      BY <1>5, <2>1
    <2>3. rng2[q] # {}
      BY ONLY <2>1
    <2> QED
      BY ONLY <1>5, <2>1, <2>2, <2>3 DEF LocalOK
  <1>9. NodeOK(N2[q], q, tops2, live2, h2, rng2, par2)
    <2>0. /\ p \in live2 /\ p \notin tops2 /\ s \in live2 /\ s \notin tops2
          /\ h2[p] = h2[q] - 1 /\ h2[s] = h2[q] - 1 /\ par2[p] = q /\ par2[s] = q
          /\ rng2[p] = rng[p] /\ rng2[s] = rng[s]
      <3>1. p \in live2 /\ p \notin tops2 /\ s \in live2 /\ s \notin tops2
        BY <1>1
      <3> HIDE DEF tops2, live2
      <3>2. h2[p] = h[p] /\ h2[s] = h[p] /\ h[p] + 1 - 1 = h[p]
        BY <1>1, <1>2
      <3>3. par2[p] = q /\ par2[s] = q
        BY <1>1, <1>3
      <3>4. rng2[p] = rng[p] /\ rng2[s] = rng[s]
        BY <1>1, <1>2
      <3> QED
        BY <3>1, <3>2, <3>3, <3>4, <1>2
    <2> HIDE DEF tops2, live2
    <2>1. LinkOK(N2[q], q, 1, p, tops2, live2, h2, rng2, par2)
      BY <2>0, <1>2, <1>5, <1>6 DEF LinkOK
    <2>2. LinkOK(N2[q], q, 2, s, tops2, live2, h2, rng2, par2)
      BY <2>0, <1>2, <1>5, <1>7 DEF LinkOK
    <2> QED
      BY <1>5, <1>8, <2>1, <2>2 DEF NodeOK
  <1>10. ASSUME NEW x \in live2 \ tops2
         PROVE  \/ par2[x] = q /\ IsChild(N2, q, x)
                \/ x \in live \ tops /\ par2[x] \in live /\ par2[x] = par[x]
    <2>1. CASE x \in {p, s}
      <3>1. par2[x] = q
        BY <1>1, <1>3, <2>1
      <3>2. \E j \in DOMAIN <<p, s>> : <<p, s>>[j] = x
        BY <1>5, <2>1
      <3> QED
        BY <1>5, <3>1, <3>2 DEF IsChild
    <2>2. CASE x \notin {p, s}
      <3>1. x \in live \ tops /\ x \in Pages /\ par[x] \in live
        BY <1>1, <2>2 DEF TreeOK
      <3> QED
        BY <3>1, <2>2, <1>3
    <2> QED
      BY <2>1, <2>2
  <1>11. TreeOK(N2, tops2, live2, h2, rng2, par2)
    <2>1. tops2 \subseteq live2
      BY <1>1
    <2>2. \A c \in live \ tops : c \in live2 /\ c \notin tops2 /\ h2[c] = h[c] /\ par2[c] = par[c]
                                 /\ rng2[c] = rng[c]
      <3>1. \A c \in live \ tops : c \in Pages /\ c # q /\ c \notin {p, s}
        BY <1>1
      <3>2. \A c \in live \ tops : c \in live2 /\ c \notin tops2
        BY <3>1
      <3>3. \A c \in live \ tops : h2[c] = h[c] /\ rng2[c] = rng[c]
        BY ONLY <3>1, <1>2
      <3>4. \A c \in live \ tops : par2[c] = par[c]
        BY ONLY <3>1, <1>3
      <3> QED
        BY ONLY <3>2, <3>3, <3>4
    <2>3. \A x \in live2 \ {q} : x \in live /\ N2[x] = N[x] /\ h2[x] = h[x] /\ rng2[x] = rng[x]
      BY <1>1, <1>2
    <2>4. live2 \subseteq DOMAIN N2 /\ q \in live2 /\ live = live2 \ {q}
      OBVIOUS
    <2> HIDE DEF tops2, live2
    <2>5. LocalChange(N, tops, live, h, rng, par, N2, tops2, live2, h2, rng2, par2, {q})
      BY ONLY <1>9, <1>10, <2>1, <2>2, <2>3, <2>4 DEF LocalChange
    <2> QED
      BY <2>5, Rebuild
  <1>12. Stored(N2, live2) = Stored(N, live)
    <2>1. SameEntries(N, live, N2, live2, {q})
      BY <1>5 DEF SameEntries, Holds
    <2> QED
      BY <2>1, StoredTwo
  <1> QED
    BY <1>4, <1>11, <1>12

\* t is s with e as its i-th element.
Inserted(s, i, e, t) ==
    /\ Len(t) = Len(s) + 1 /\ DOMAIN t = 1 .. Len(s) + 1
    /\ \A j \in 1 .. Len(s) + 1 :
          t[j] = IF j < i THEN s[j] ELSE IF j = i THEN e ELSE s[j - 1]

\* What InsertAt gives.
LEMMA InsertAtIs ==
    ASSUME NEW T, NEW s \in Seq(T), NEW i \in 1 .. Len(s) + 1, NEW e \in T
    PROVE  InsertAt(s, i, e) \in Seq(T) /\ Inserted(s, i, e, InsertAt(s, i, e))
  <1>1. /\ InsertAt(s, i, e) \in Seq(T) /\ Len(InsertAt(s, i, e)) = Len(s) + 1
        /\ DOMAIN InsertAt(s, i, e) = 1 .. Len(s) + 1
        /\ \A j \in 1 .. Len(s) + 1 :
              InsertAt(s, i, e)[j] = IF j < i THEN s[j] ELSE IF j = i THEN e ELSE s[j - 1]
    BY ONLY InsertAtEffect
  <1> QED
    BY ONLY <1>1 DEF Inserted

\* q goes behind the child number i, which is p, of a page a, with the key r between them.
Attaches(N, tops, live, h, rng, a, i, p, q, r, N2) ==
    /\ a \in live /\ ~N[a].isLeaf /\ i \in 1 .. Len(N[a].keys) + 1
    /\ p = N[a].children[i] /\ q \in tops /\ q # a
    /\ r \in AllKeys /\ r \in Int /\ r \in rng[a] /\ IsSlot(N[a].keys, r, i - 1)
    /\ Beside(p, q, r, h, rng)
    /\ \A k \in rng[q] : k \in rng[a] /\ IsSlot(N[a].keys, k, i - 1)
    /\ live \subseteq DOMAIN N2 /\ \A x \in live \ {a} : N2[x] = N[x]
    /\ N2[a] = Internal(InsertAt(N[a].keys, i, r), InsertAt(N[a].children, i + 1, q))

\* The right half q of the child p of a page goes behind p in the page.
LEMMA AttachTree ==
    ASSUME NEW N, NEW tops, NEW live, NEW h, NEW rng, NEW par,
           IsTree(N, tops, live, h, rng, par),
           NEW a, NEW i, NEW p, NEW q, NEW r, NEW N2,
           Attaches(N, tops, live, h, rng, a, i, p, q, r, N2)
    PROVE  /\ IsTree(N2, tops \ {q}, live, h, rng, [par EXCEPT ![q] = a])
           /\ Stored(N2, live) = Stored(N, live)
  <1> DEFINE par2 == [par EXCEPT ![q] = a]
  <1> SUFFICES ASSUME TreeOK(N, tops, live, h, rng, par), GhostType(live, h, rng, par),
                      a \in live, ~N[a].isLeaf, i \in 1 .. Len(N[a].keys) + 1,
                      p = N[a].children[i], q \in tops, q # a,
                      r \in AllKeys, r \in Int, r \in rng[a], IsSlot(N[a].keys, r, i - 1),
                      Beside(p, q, r, h, rng),
                      \A k \in rng[q] : k \in rng[a] /\ IsSlot(N[a].keys, k, i - 1),
                      live \subseteq DOMAIN N2, \A x \in live \ {a} : N2[x] = N[x],
                      N2[a] = Internal(InsertAt(N[a].keys, i, r),
                          InsertAt(N[a].children, i + 1, q)),
                      par2 = [par EXCEPT ![q] = a]
               PROVE  /\ TreeOK(N2, tops \ {q}, live, h, rng, par2)
                      /\ GhostType(live, h, rng, par2)
                      /\ Stored(N2, live) = Stored(N, live)
    BY DEF IsTree, Attaches
  <1> HIDE DEF par2
  <1> DEFINE keys == N[a].keys
             children == N[a].children
             o == i + 1
             keys2 == InsertAt(keys, i, r)
             children2 == InsertAt(children, o, q)
  <1>1. /\ N[a] \in Node /\ Ascending(keys) /\ h[a] # 0 /\ Len(children) = Len(keys) + 1
        /\ Injective(children)
        /\ \A j \in DOMAIN keys : keys[j] \in rng[a] /\ keys[j] \in AllKeys
        /\ rng[a] # {}
    BY LiveNode
  <1>2. /\ keys \in Seq(Int) /\ children \in Seq(Pages) /\ Len(keys) \in Nat
        /\ DOMAIN keys = 1 .. Len(keys) /\ DOMAIN children = 1 .. Len(keys) + 1
        /\ \A j \in 1 .. Len(keys) : keys[j] \in Int
    BY <1>1, NodeFields
  <1>3. \A j \in DOMAIN children :
           /\ children[j] \in live \ tops /\ children[j] \in Pages
           /\ h[children[j]] = h[a] - 1
           /\ par[children[j]] = a
           /\ \A k \in rng[children[j]] : k \in Int /\ k \in rng[a] /\ IsSlot(keys, k, j - 1)
    BY ChildOf
  <1>4. \A x \in live \ tops : par[x] \in live
      /\ (par[x] = a => \E j \in DOMAIN children : children[j] = x)
    BY DEF TreeOK, IsChild
  <1>5. /\ N2[a] = Internal(keys2, children2) /\ i \in 1 .. Len(keys) + 1 /\ p = children[i]
        /\ o = i + 1 /\ o \in 1 .. Len(children) + 1 /\ i \in DOMAIN children
        /\ IsSlot(keys, r, i - 1) /\ \A k \in rng[q] : k \in rng[a] /\ IsSlot(keys, k, i - 1)
    BY <1>1, <1>2
  <1>6. /\ tops \subseteq live /\ live \subseteq DOMAIN N /\ live \subseteq Pages /\ q \in Pages
        /\ q \in live /\ a \in Pages
    BY DEF TreeOK, GhostType
  <1> HIDE DEF keys, children, o
  <1>7. /\ p \in live /\ h[p] = h[a] - 1 /\ \A k \in rng[p] : k \in Int
           /\ IsSlot(keys, k, i - 1) /\ k < r
        /\ h[q] = h[a] - 1 /\ \A k \in rng[q] : k \in Int /\ r <= k
    BY <1>3, <1>5, <1>6 DEF Beside, GhostType
  <1>8. PICK x \in rng[p] : x \in Int /\ IsSlot(keys, x, i - 1) /\ x < r
    BY <1>7, LiveNode
  <1>9. (\A j \in 1 .. i - 1 : keys[j] < r) /\ (\A j \in i .. Len(keys) : r < keys[j])
    <2>1. \A j \in 1 .. i - 1 : keys[j] <= x /\ j \in 1 .. Len(keys)
      BY <1>2, <1>5, <1>8 DEF IsSlot
    <2>2. \A j \in 1 .. i - 1 : keys[j] < r
      BY <2>1, <1>2, <1>8
    <2>3. i - 1 + 1 = i
      BY <1>2, <1>5
    <2> QED
      BY <2>2, <2>3, <1>5 DEF IsSlot
  <1>10. Ascending(keys2)
    BY <1>1, <1>2, <1>5, <1>9, AscendingInsert
  <1>11. /\ keys2 \in Seq(Int) /\ Len(keys2) = Len(keys) + 1 /\ DOMAIN keys2 = 1 .. Len(keys) + 1
         /\ \A j \in 1 .. Len(keys) + 1 :
               keys2[j] = IF j < i THEN keys[j] ELSE IF j = i THEN r ELSE keys[j - 1]
    <2>1. keys \in Seq(Int) /\ i \in 1 .. Len(keys) + 1 /\ r \in Int
      BY <1>2, <1>5
    <2>2. keys2 \in Seq(Int) /\ Inserted(keys, i, r, keys2)
      BY <2>1, InsertAtIs
    <2> QED
      BY <2>2 DEF Inserted
  <1>12. /\ children2 \in Seq(Pages) /\ Len(children2) = Len(children) + 1
         /\ DOMAIN children2 = 1 .. Len(children) + 1
         /\ \A j \in 1 .. Len(children) + 1 : children2[j] =
               IF j < o THEN children[j] ELSE IF j = o THEN q ELSE children[j - 1]
    <2>1. children \in Seq(Pages) /\ o \in 1 .. Len(children) + 1 /\ q \in Pages
      BY <1>2, <1>5, <1>6
    <2>2. children2 \in Seq(Pages) /\ Inserted(children, o, q, children2)
      BY <2>1, InsertAtIs
    <2> QED
      BY <2>2 DEF Inserted
  <1>13. \A k, v : k \in Int /\ IsSlot(keys, k, v) => IsSlot(keys2, k, IF k < r THEN v ELSE v + 1)
    BY <1>2, <1>5, SlotInsert
  <1> HIDE DEF keys2, children2
  <1>14. N2[a] \in Node /\ ~N2[a].isLeaf /\ N2[a].keys = keys2 /\ N2[a].children = children2
    BY <1>5, <1>11, <1>12, InternalIsNode DEF Internal
  <1>15. ASSUME NEW j \in 1 .. Len(children) + 1, j < o
         PROVE  /\ j \in DOMAIN children /\ children2[j] = children[j]
                /\ \A k \in rng[children[j]] : k \in rng[a] /\ IsSlot(keys2, k, j - 1)
    <2>1. j \in DOMAIN children /\ j <= i /\ children2[j] = children[j]
      <3>1. Len(children) \in Nat /\ i \in Nat /\ o = i + 1 /\ o <= Len(children) + 1
        BY <1>1, <1>2, <1>5
      <3>2. j \in 1 .. Len(children) /\ j <= i
        BY ONLY <3>1, <1>15, j \in 1 .. Len(children) + 1
      <3> QED
        BY <3>2, <1>1, <1>2, <1>12, <1>15
    <2>2. ASSUME NEW k \in rng[children[j]] PROVE k \in rng[a] /\ IsSlot(keys2, k, j - 1)
      <3>1. k \in Int /\ k \in rng[a] /\ IsSlot(keys, k, j - 1)
        BY <2>1, <1>3
      <3>2. k < r
        <4>1. CASE j = i
          BY <4>1, <1>5, <1>7
        <4>2. CASE j < i
          <5>1. j \in 1 .. Len(keys) /\ j \in 1 .. i - 1 /\ j \in j - 1 + 1 .. Len(keys)
            BY <4>2, <1>2, <1>5
          <5>2. k < keys[j] /\ keys[j] < r /\ keys[j] \in Int
            BY <5>1, <3>1, <1>2, <1>9 DEF IsSlot
          <5> QED
            BY <5>2, <3>1
        <4> QED
          BY <2>1, <4>1, <4>2, <1>5
      <3>3. IsSlot(keys2, k, IF k < r THEN j - 1 ELSE j - 1 + 1)
        BY <3>1, <1>13
      <3> QED
        BY <3>1, <3>2, <3>3
    <2> QED
      BY <2>1, <2>2
  <1>16. \A k \in rng[q] : k \in rng[a] /\ IsSlot(keys2, k, o - 1)
    <2>1. ASSUME NEW k \in rng[q] PROVE k \in rng[a] /\ IsSlot(keys2, k, o - 1)
      <3>1. k \in rng[a] /\ k \in Int /\ ~(k < r) /\ IsSlot(keys, k, i - 1)
        BY <1>5, <1>7
      <3>2. IsSlot(keys2, k, IF k < r THEN i - 1 ELSE i - 1 + 1)
        BY <3>1, <1>13
      <3>3. i - 1 + 1 = o - 1
        BY <1>2, <1>5
      <3> QED
        BY <3>1, <3>2, <3>3
    <2> QED
      BY <2>1
  <1>17. ASSUME NEW j \in 1 .. Len(children) + 1, j > o
         PROVE  /\ j - 1 \in DOMAIN children /\ children2[j] = children[j - 1]
                /\ \A k \in rng[children[j - 1]] : k \in rng[a] /\ IsSlot(keys2, k, j - 1)
    <2> DEFINE l == j - 1
    <2>1. l \in DOMAIN children /\ l > i /\ children2[j] = children[l] /\ l \in Nat
      BY <1>1, <1>2, <1>5, <1>12, <1>17
    <2>2. l - 1 \in 1 .. Len(keys) /\ l - 1 \in i .. Len(keys) /\ l - 1 \in 1 .. l - 1
        /\ l - 1 + 1 = l
      BY <2>1, <1>2, <1>5
    <2> HIDE DEF l
    <2>3. ASSUME NEW k \in rng[children[l]] PROVE k \in rng[a] /\ IsSlot(keys2, k, l)
      <3>1. k \in Int /\ k \in rng[a] /\ IsSlot(keys, k, l - 1)
        BY <2>1, <1>3
      <3>2. ~(k < r)
        <4>1. keys[l - 1] <= k /\ r < keys[l - 1] /\ keys[l - 1] \in Int
          BY <2>2, <3>1, <1>2, <1>9 DEF IsSlot
        <4> QED
          BY <4>1, <3>1
      <3>3. IsSlot(keys2, k, IF k < r THEN l - 1 ELSE l - 1 + 1)
        BY <3>1, <1>13
      <3> QED
        BY <2>2, <3>1, <3>2, <3>3
    <2> QED
      BY <2>1, <2>3 DEF l
  <1>18. Injective(children2)
    <2>1. \A j \in 1 .. Len(children) + 1 :
             /\ j < o => j \in DOMAIN children /\ children2[j] = children[j] /\ children2[j] # q
             /\ j = o => children2[j] = q
             /\ j > o => j - 1 \in DOMAIN children /\ children2[j] = children[j - 1]
                 /\ children2[j] # q
      <3>1. \A j \in DOMAIN children : children[j] # q
        BY <1>3
      <3>2. children2[o] = q
        BY <1>5, <1>12
      <3> QED
        BY <3>1, <3>2, <1>15, <1>17
    <2>2. ASSUME NEW u \in 1 .. Len(children) + 1, NEW v \in 1 .. Len(children) + 1,
                 children2[u] = children2[v]
          PROVE  u = v
      <3>1. \A x1, x2 \in DOMAIN children : children[x1] = children[x2] => x1 = x2
        BY <1>1 DEF Injective
      <3>2. u \in Int /\ v \in Int /\ o \in Int
        BY <1>1, <1>2, <1>5
      <3>3. CASE u < o /\ v < o
        BY <2>1, <2>2, <3>1, <3>3
      <3>4. CASE u > o /\ v > o
        BY <2>1, <2>2, <3>1, <3>2, <3>4
      <3>5. CASE u < o /\ v > o
        <4>1. u = v - 1
          BY <2>1, <2>2, <3>1, <3>5
        <4> QED
          BY <4>1, <3>2, <3>5
      <3>6. CASE u > o /\ v < o
        <4>1. v = u - 1
          BY <2>1, <2>2, <3>1, <3>6
        <4> QED
          BY <4>1, <3>2, <3>6
      <3>7. CASE u = o \/ v = o
        BY <2>1, <2>2, <3>2, <3>7
      <3> QED
        BY <3>2, <3>3, <3>4, <3>5, <3>6, <3>7
    <2> QED
      BY <2>2, <1>12 DEF Injective
  <1>19. LocalOK(N2[a], h[a], rng[a])
    <2>1. ASSUME NEW j \in DOMAIN keys2 PROVE keys2[j] \in rng[a] /\ keys2[j] \in AllKeys
      <3>1. CASE j < i
        <4>1. j \in DOMAIN keys /\ keys2[j] = keys[j]
          BY <3>1, <1>2, <1>5, <1>11
        <4> QED
          BY <4>1, <1>1
      <3>2. CASE j = i
        BY <3>2, <1>11
      <3>3. CASE j > i
        <4>1. j - 1 \in DOMAIN keys /\ keys2[j] = keys[j - 1]
          <5>1. Len(keys) \in Nat /\ i \in Nat /\ i > 0 /\ j \in 1 .. Len(keys) + 1
            BY <1>2, <1>5, <1>11
          <5>2. j - 1 \in 1 .. Len(keys) /\ ~(j < i) /\ j # i
            BY ONLY <5>1, <3>3
          <5> QED
            BY <5>1, <5>2, <1>2, <1>11
        <4> QED
          BY <4>1, <1>1
      <3> QED
        BY <3>1, <3>2, <3>3, <1>5, <1>11
    <2> QED
      BY <2>1, <1>1, <1>2, <1>10, <1>11, <1>12, <1>14, <1>18 DEF LocalOK
  <1>20. /\ par2 \in [Pages -> Pages] /\ par2[q] = a /\ \A y \in Pages : y # q => par2[y] = par[y]
    BY <1>6 DEF GhostType
  <1>21. GhostType(live, h, rng, par2)
    BY <1>20 DEF GhostType
  <1>22. NodeOK(N2[a], a, tops \ {q}, live, h, rng, par2)
    <2>1. ASSUME NEW j \in 1 .. Len(children) + 1
          PROVE  LinkOK(N2[a], a, j, children2[j], tops \ {q}, live, h, rng, par2)
      <3>1. CASE j < o
        <4> DEFINE c == children[j]
        <4>1. j \in DOMAIN children /\ children2[j] = c
          BY <3>1, <1>15
        <4>2. \A k \in rng[c] : k \in rng[a] /\ IsSlot(keys2, k, j - 1)
          BY <3>1, <1>15
        <4>3. c \in live /\ c \notin tops /\ h[c] = h[a] - 1 /\ par2[c] = a
          BY <4>1, <1>3, <1>20
        <4> HIDE DEF c
        <4> QED
          BY <4>1, <4>2, <4>3, <1>14 DEF LinkOK
      <3>2. CASE j = o
        <4>1. children2[j] = q
          BY <3>2, <1>5, <1>12
        <4> QED
          BY <3>2, <4>1, <1>6, <1>7, <1>14, <1>16, <1>20 DEF LinkOK
      <3>3. CASE j > o
        <4> DEFINE c == children[j - 1]
        <4>1. j - 1 \in DOMAIN children /\ children2[j] = c
          BY <3>3, <1>17
        <4>2. \A k \in rng[c] : k \in rng[a] /\ IsSlot(keys2, k, j - 1)
          BY <3>3, <1>17
        <4>3. c \in live /\ c \notin tops /\ h[c] = h[a] - 1 /\ par2[c] = a
          BY <4>1, <1>3, <1>20
        <4> HIDE DEF c
        <4> QED
          BY <4>1, <4>2, <4>3, <1>14 DEF LinkOK
      <3> QED
        BY <3>1, <3>2, <3>3, <1>5
    <2> QED
      BY <2>1, <1>12, <1>14, <1>19 DEF NodeOK
  <1>23. ASSUME NEW y \in live \ (tops \ {q})
         PROVE  \/ par2[y] = a /\ IsChild(N2, a, y)
                \/ y \in live \ tops /\ par2[y] \in live \ {a} /\ par2[y] = par[y]
    <2>1. CASE y = q
      <3>1. o \in DOMAIN children2 /\ children2[o] = q
        BY <1>5, <1>12
      <3> QED
        BY <2>1, <3>1, <1>14, <1>20 DEF IsChild
    <2>2. CASE y # q
      <3>1. y \in live \ tops /\ par2[y] = par[y] /\ par[y] \in live
        BY <2>2, <1>4, <1>6, <1>20
      <3>2. CASE par[y] = a
        <4>1. PICK j \in DOMAIN children : children[j] = y
          BY <3>1, <3>2, <1>4
        <4>2. \E l \in DOMAIN children2 : children2[l] = y
          <5>1. CASE j < o
            <6>1. j \in 1 .. Len(children) + 1
              BY <4>1, <1>1, <1>2
            <6> QED
              BY <4>1, <5>1, <6>1, <1>12, <1>15
          <5>2. CASE j >= o
            <6>1. j + 1 \in 1 .. Len(children) + 1 /\ j + 1 > o /\ j + 1 - 1 = j
              BY ONLY <4>1, <5>2, <1>1, <1>2, <1>5
            <6>2. children2[j + 1] = children[j + 1 - 1]
              <7>1. ~(j + 1 < o) /\ j + 1 # o
                BY <6>1, <5>2, <1>2, <1>5
              <7> QED
                BY ONLY <6>1, <7>1, <1>12
            <6> QED
              BY <4>1, <6>1, <6>2, <1>12
          <5> QED
            BY <5>1, <5>2, <1>2, <1>5
        <4> QED
          BY <3>1, <3>2, <4>2, <1>14 DEF IsChild
      <3> QED
        BY <3>1, <3>2
    <2> QED
      BY <2>1, <2>2
  <1>24. TreeOK(N2, tops \ {q}, live, h, rng, par2)
    <2>1. \A c \in live \ tops : par2[c] = par[c]
      BY <1>6, <1>20
    <2>2. LocalChange(N, tops, live, h, rng, par, N2, tops \ {q}, live, h, rng, par2, {a})
      BY <2>1, <1>6, <1>22, <1>23 DEF LocalChange
    <2> QED
      BY <2>2, Rebuild
  <1>25. Stored(N2, live) = Stored(N, live)
    <2>1. SameEntries(N, live, N2, live, {a})
      BY <1>14 DEF SameEntries, Holds
    <2> QED
      BY <2>1, StoredTwo
  <1> QED
    BY <1>21, <1>24, <1>25

\* t is s without its i-th element.
Removed(s, i, t) ==
    /\ Len(t) = Len(s) - 1 /\ DOMAIN t = 1 .. Len(s) - 1
    /\ \A j \in 1 .. Len(s) - 1 : t[j] = IF j < i THEN s[j] ELSE s[j + 1]

\* What RemoveAt gives, in one formula.
LEMMA RemoveAtIs ==
    ASSUME NEW T, NEW s \in Seq(T), NEW i \in 1 .. Len(s)
    PROVE  RemoveAt(s, i) \in Seq(T) /\ Removed(s, i, RemoveAt(s, i))
  BY RemoveAtEffect DEF Removed

\* The child number i + 1 of a page a, which is q, leaves it, with the key r before it.
Unattaches(N, live, a, i, p, q, r, N2) ==
    /\ a \in live /\ ~N[a].isLeaf /\ i \in 1 .. Len(N[a].keys)
    /\ p = N[a].children[i] /\ q = N[a].children[i + 1] /\ r = N[a].keys[i]
    /\ live \subseteq DOMAIN N2 /\ \A x \in live \ {a} : N2[x] = N[x]
    /\ N2[a] = Internal(RemoveAt(N[a].keys, i), RemoveAt(N[a].children, i + 1))

\* How the two are then.
Unattached(N2, tops, live, h, rng, par, a, i, p, q, r) ==
    /\ p \in live \ tops /\ q \in live \ tops /\ p # q /\ p # a /\ q # a
    /\ h[p] = h[a] - 1 /\ Beside(p, q, r, h, rng)
    /\ r \in AllKeys /\ r \in Int /\ r \in rng[a] /\ IsSlot(N2[a].keys, r, i - 1)
    /\ \A k \in rng[q] : k \in rng[a] /\ IsSlot(N2[a].keys, k, i - 1)
    /\ ~N2[a].isLeaf /\ N2[a].children[i] = p /\ par[p] = a /\ i \in DOMAIN N2[a].children

\* A child q of a page leaves it, with the key r before it.
LEMMA UnattachTree ==
    ASSUME NEW N, NEW tops, NEW live, NEW h, NEW rng, NEW par,
           IsTree(N, tops, live, h, rng, par),
           NEW a, NEW i, NEW p, NEW q, NEW r, NEW N2,
           Unattaches(N, live, a, i, p, q, r, N2)
    PROVE  /\ IsTree(N2, tops \cup {q}, live, h, rng, par)
           /\ Stored(N2, live) = Stored(N, live)
           /\ Unattached(N2, tops, live, h, rng, par, a, i, p, q, r)
  <1> SUFFICES ASSUME TreeOK(N, tops, live, h, rng, par), GhostType(live, h, rng, par),
                      a \in live, ~N[a].isLeaf, i \in 1 .. Len(N[a].keys),
                      p = N[a].children[i], q = N[a].children[i + 1], r = N[a].keys[i],
                      live \subseteq DOMAIN N2, \A x \in live \ {a} : N2[x] = N[x],
                      N2[a] = Internal(RemoveAt(N[a].keys, i), RemoveAt(N[a].children, i + 1))
               PROVE  /\ TreeOK(N2, tops \cup {q}, live, h, rng, par)
                      /\ Stored(N2, live) = Stored(N, live)
                      /\ p \in live \ tops /\ q \in live \ tops /\ p # q /\ p # a /\ q # a
                      /\ h[p] = h[a] - 1 /\ Beside(p, q, r, h, rng)
                      /\ r \in AllKeys /\ r \in Int /\ r \in rng[a] /\ IsSlot(N2[a].keys, r, i - 1)
                      /\ \A k \in rng[q] : k \in rng[a] /\ IsSlot(N2[a].keys, k, i - 1)
                      /\ ~N2[a].isLeaf /\ N2[a].children[i] = p /\ par[p] = a
                      /\ i \in DOMAIN N2[a].children
    BY DEF IsTree, Unattaches, Unattached
  <1> DEFINE keys == N[a].keys
             children == N[a].children
             o == i + 1
             keys2 == RemoveAt(keys, i)
             children2 == RemoveAt(children, o)
  <1>1. /\ N[a] \in Node /\ Ascending(keys) /\ h[a] # 0 /\ Len(children) = Len(keys) + 1
        /\ Injective(children)
        /\ \A j \in DOMAIN keys : keys[j] \in rng[a] /\ keys[j] \in AllKeys
        /\ rng[a] # {}
    BY LiveNode
  <1>2. /\ keys \in Seq(Int) /\ children \in Seq(Pages) /\ Len(keys) \in Nat
        /\ DOMAIN keys = 1 .. Len(keys) /\ DOMAIN children = 1 .. Len(keys) + 1
        /\ \A j \in 1 .. Len(keys) : keys[j] \in Int
    <2>1. /\ keys \in Seq(Int) /\ children \in Seq(Pages) /\ Len(keys) \in Nat
          /\ DOMAIN keys = 1 .. Len(keys) /\ DOMAIN children = 1 .. Len(children)
      BY Zenon, <1>1, NodeFields
    <2>2. \A j \in 1 .. Len(keys) : keys[j] \in Int
      BY Zenon, <2>1, ElementOfSeq
    <2> QED
      BY Zenon, <1>1, <2>1, <2>2
  <1>3. \A j \in DOMAIN children :
           /\ children[j] \in live \ tops /\ children[j] \in Pages
           /\ h[children[j]] = h[a] - 1
           /\ par[children[j]] = a
           /\ \A k \in rng[children[j]] : k \in Int /\ k \in rng[a] /\ IsSlot(keys, k, j - 1)
    BY ChildOf
  <1>4. \A x \in live \ tops : par[x] \in live
      /\ (par[x] = a => \E j \in DOMAIN children : children[j] = x)
    BY DEF TreeOK, IsChild
  <1>5. /\ N2[a] = Internal(keys2, children2) /\ i \in 1 .. Len(keys) /\ p = children[i]
        /\ q = children[o] /\ r = keys[i]
        /\ o = i + 1 /\ o \in 1 .. Len(children) /\ i \in DOMAIN children /\ o \in DOMAIN children
    BY <1>1, <1>2
  <1>6. /\ tops \subseteq live /\ live \subseteq DOMAIN N /\ live \subseteq Pages
        /\ a \in Pages /\ h[a] \in Nat
    BY DEF TreeOK, GhostType
  <1> HIDE DEF keys, children, o
  <1>7. Ascending(keys2)
    BY <1>1, <1>2, <1>5, AscendingRemove
  <1>8. keys2 \in Seq(Int) /\ Removed(keys, i, keys2)
    BY <1>2, <1>5, RemoveAtIs
  <1>9. children2 \in Seq(Pages) /\ Removed(children, o, children2)
    BY <1>2, <1>5, RemoveAtIs
  <1>10. \A k, v : IsSlot(keys, k, v) => IsSlot(keys2, k, IF v < i THEN v ELSE v - 1)
    BY <1>2, <1>5, SlotRemove
  <1> HIDE DEF keys2, children2
  <1>11. /\ Len(keys2) = Len(keys) - 1 /\ DOMAIN keys2 = 1 .. Len(keys) - 1
         /\ \A j \in 1 .. Len(keys) - 1 : keys2[j] = IF j < i THEN keys[j] ELSE keys[j + 1]
    BY <1>8 DEF Removed
  <1>12. /\ Len(children2) = Len(keys) /\ DOMAIN children2 = 1 .. Len(keys)
         /\ \A j \in 1 .. Len(keys) : children2[j] = IF j < o THEN children[j] ELSE children[j + 1]
    <2>1. Len(children) - 1 = Len(keys)
      BY <1>1, <1>2
    <2> QED
      BY <2>1, <1>9 DEF Removed
  <1>13. N2[a] \in Node /\ ~N2[a].isLeaf /\ N2[a].keys = keys2 /\ N2[a].children = children2
    BY <1>5, <1>8, <1>9, InternalIsNode DEF Internal
  <1>14. /\ p \in live \ tops /\ q \in live \ tops /\ p # a /\ q # a /\ h[p] = h[a] - 1
            /\ h[q] = h[p]
         /\ par[p] = a /\ par[q] = a
    <2>1. h[a] # h[a] - 1
      BY <1>6
    <2> QED
      BY <2>1, <1>3, <1>5
  <1>15. p # q /\ \A j \in DOMAIN children : children[j] = q => j = o
    <2>1. i # o
      BY <1>2, <1>5
    <2> QED
      BY <2>1, <1>1, <1>5 DEF Injective
  <1>16. /\ \A k \in rng[p] : k \in Int /\ IsSlot(keys, k, i - 1) /\ k < r
         /\ \A k \in rng[q] : k \in Int /\ k \in rng[a] /\ IsSlot(keys, k, i) /\ r <= k
    <2>1. ASSUME NEW k \in rng[p] PROVE k \in Int /\ IsSlot(keys, k, i - 1) /\ k < r
      <3>1. k \in Int /\ IsSlot(keys, k, i - 1) /\ i \in i - 1 + 1 .. Len(keys)
        BY <1>2, <1>3, <1>5
      <3> QED
        BY <3>1, <1>5 DEF IsSlot
    <2>2. ASSUME NEW k \in rng[q] PROVE k \in Int /\ k \in rng[a] /\ IsSlot(keys, k, i) /\ r <= k
      <3>1. o - 1 = i /\ i \in 1 .. i
        BY <1>2, <1>5
      <3>2. k \in Int /\ k \in rng[a] /\ IsSlot(keys, k, o - 1)
        BY <1>3, <1>5
      <3> QED
        BY <3>1, <3>2, <1>5 DEF IsSlot
    <2> QED
      BY <2>1, <2>2
  <1>17. IsSlot(keys, r, i)
    <2>1. \A j \in 1 .. i : j \in 1 .. Len(keys) /\ (j = i \/ j < i)
      BY <1>2, <1>5
    <2>2. \A j \in i + 1 .. Len(keys) : j \in 1 .. Len(keys) /\ i < j
      BY <1>2, <1>5
    <2>3. \A j, l \in 1 .. Len(keys) : j < l => keys[j] < keys[l]
      BY <1>1, <1>2 DEF Ascending
    <2>4. \A j \in 1 .. i : keys[j] <= r
      BY <2>1, <2>3, <1>2, <1>5
    <2>5. \A j \in i + 1 .. Len(keys) : r < keys[j]
      BY <2>2, <2>3, <1>5
    <2>6. i \in 0 .. Len(keys)
      BY <1>2, <1>5
    <2> QED
      BY <2>4, <2>5, <2>6 DEF IsSlot
  <1>18. \A k : IsSlot(keys, k, i) => IsSlot(keys2, k, i - 1)
    <2>1. ~(i < i)
      BY <1>5
    <2> QED
      BY <2>1, <1>10
  <1>19. ASSUME NEW j \in 1 .. Len(keys), j < o
         PROVE  /\ j \in DOMAIN children /\ children2[j] = children[j] /\ j # o
                /\ \A k \in rng[children[j]] : k \in rng[a] /\ IsSlot(keys2, k, j - 1)
    <2>1. j \in 1 .. Len(keys) + 1 /\ j - 1 < i /\ j # o
      BY <1>2, <1>5, <1>19
    <2> QED
      BY <2>1, <1>2, <1>3, <1>10, <1>12, <1>19
  <1>20. ASSUME NEW j \in 1 .. Len(keys), ~(j < o)
         PROVE  /\ j + 1 \in DOMAIN children /\ children2[j] = children[j + 1] /\ j + 1 # o
                /\ \A k \in rng[children[j + 1]] : k \in rng[a] /\ IsSlot(keys2, k, j - 1)
    <2> DEFINE l == j + 1
    <2>1. /\ l \in 1 .. Len(keys) + 1 /\ ~(l - 1 < i) /\ l # o /\ l - 1 = j
      BY <1>2, <1>5, <1>20
    <2>2. children2[j] = children[l]
      BY <1>12, <1>20
    <2> HIDE DEF l
    <2>3. ASSUME NEW k \in rng[children[l]] PROVE k \in rng[a] /\ IsSlot(keys2, k, j - 1)
      <3>1. k \in rng[a] /\ IsSlot(keys, k, l - 1)
        BY <2>1, <1>2, <1>3
      <3>2. IsSlot(keys2, k, IF l - 1 < i THEN l - 1 ELSE l - 1 - 1)
        BY <3>1, <1>10
      <3> QED
        BY <3>1, <3>2, <2>1
    <2> QED
      BY <2>1, <2>2, <2>3, <1>2 DEF l
  <1>21. Injective(children2)
    <2>1. ASSUME NEW u \in 1 .. Len(keys), NEW v \in 1 .. Len(keys), children2[u] = children2[v]
          PROVE  u = v
      <3>1. \A x1, x2 \in DOMAIN children : children[x1] = children[x2] => x1 = x2
        BY <1>1 DEF Injective
      <3>2. u \in Int /\ v \in Int /\ o \in Int
        BY <1>2, <1>5
      <3>3. CASE u < o /\ v < o
        BY <2>1, <3>1, <3>3, <1>19
      <3>4. CASE ~(u < o) /\ ~(v < o)
        <4>1. u + 1 = v + 1
          BY <2>1, <3>1, <3>4, <1>20
        <4> QED
          BY <4>1, <3>2
      <3>5. CASE u < o /\ ~(v < o)
        <4>1. u = v + 1
          BY <2>1, <3>1, <3>5, <1>19, <1>20
        <4> QED
          BY <4>1, <3>2, <3>5
      <3>6. CASE ~(u < o) /\ v < o
        <4>1. v = u + 1
          BY <2>1, <3>1, <3>6, <1>19, <1>20
        <4> QED
          BY <4>1, <3>2, <3>6
      <3> QED
        BY <3>3, <3>4, <3>5, <3>6
    <2> QED
      BY <2>1, <1>12 DEF Injective
  <1>22. LocalOK(N2[a], h[a], rng[a])
    <2>1. ASSUME NEW j \in DOMAIN keys2 PROVE keys2[j] \in rng[a] /\ keys2[j] \in AllKeys
      <3>1. j \in 1 .. Len(keys) /\ j + 1 \in 1 .. Len(keys)
        BY ONLY <1>2, <1>11
      <3> QED
        BY <3>1, <1>1, <1>2, <1>11
    <2>2. Len(children2) = Len(keys2) + 1
      BY <1>2, <1>11, <1>12
    <2> QED
      BY <2>1, <2>2, <1>1, <1>7, <1>13, <1>21 DEF LocalOK
  <1>23. NodeOK(N2[a], a, tops \cup {q}, live, h, rng, par)
    <2>1. ASSUME NEW j \in 1 .. Len(keys)
          PROVE  LinkOK(N2[a], a, j, children2[j], tops \cup {q}, live, h, rng, par)
      <3>1. CASE j < o
        <4> DEFINE c == children[j]
        <4>1. j \in DOMAIN children /\ children2[j] = c /\ j # o
          BY <3>1, <1>19
        <4>2. \A k \in rng[c] : k \in rng[a] /\ IsSlot(keys2, k, j - 1)
          BY <3>1, <1>19
        <4>3. c \in live /\ c \notin tops \cup {q} /\ h[c] = h[a] - 1 /\ par[c] = a
          BY <4>1, <1>3, <1>15
        <4> HIDE DEF c
        <4> QED
          BY <4>1, <4>2, <4>3, <1>13 DEF LinkOK
      <3>2. CASE ~(j < o)
        <4> DEFINE c == children[j + 1]
        <4>1. j + 1 \in DOMAIN children /\ children2[j] = c /\ j + 1 # o
          BY <3>2, <1>20
        <4>2. \A k \in rng[c] : k \in rng[a] /\ IsSlot(keys2, k, j - 1)
          BY <3>2, <1>20
        <4>3. c \in live /\ c \notin tops \cup {q} /\ h[c] = h[a] - 1 /\ par[c] = a
          BY <4>1, <1>3, <1>15
        <4> HIDE DEF c
        <4> QED
          BY <4>1, <4>2, <4>3, <1>13 DEF LinkOK
      <3> QED
        BY <3>1, <3>2
    <2> QED
      BY <2>1, <1>12, <1>13, <1>22 DEF NodeOK
  <1>24. ASSUME NEW y \in live \ (tops \cup {q})
         PROVE  \/ par[y] = a /\ IsChild(N2, a, y)
                \/ y \in live \ tops /\ par[y] \in live \ {a}
    <2>1. y \in live \ tops /\ par[y] \in live
      BY <1>4
    <2>2. CASE par[y] = a
      <3>1. PICK j \in DOMAIN children : children[j] = y
        BY <2>1, <2>2, <1>4
      <3>2. j \in 1 .. Len(keys) + 1 /\ j # o
        BY <3>1, <1>2, <1>5
      <3>3. \E l \in DOMAIN children2 : children2[l] = y
        <4>1. CASE j < o
          <5>1. j \in 1 .. Len(keys)
            BY <4>1, <3>2, <1>2, <1>5
          <5> QED
            BY <3>1, <4>1, <5>1, <1>12
        <4>2. CASE j > o
          <5>1. j - 1 \in 1 .. Len(keys) /\ ~(j - 1 < o) /\ j - 1 + 1 = j
            BY <4>2, <3>2, <1>2, <1>5
          <5> QED
            BY <3>1, <5>1, <1>12
        <4> QED
          BY <4>1, <4>2, <3>2, <1>2, <1>5
      <3> QED
        BY <2>2, <3>3, <1>13 DEF IsChild
    <2> QED
      BY <2>1, <2>2
  <1>25. TreeOK(N2, tops \cup {q}, live, h, rng, par)
    <2>1. \A c \in live \ tops : par[c] \in live \ {a} => c \notin tops \cup {q}
      BY <1>14
    <2>2. tops \cup {q} \subseteq live
      BY <1>6, <1>14
    <2>3. LocalChange(N, tops, live, h, rng, par, N2, tops \cup {q}, live, h, rng, par, {a})
      BY <2>1, <2>2, <1>23, <1>24 DEF LocalChange
    <2> QED
      BY <2>3, Rebuild
  <1>26. Stored(N2, live) = Stored(N, live)
    <2>1. SameEntries(N, live, N2, live, {a})
      BY <1>13 DEF SameEntries, Holds
    <2> QED
      BY <2>1, StoredTwo
  <1>27. Beside(p, q, r, h, rng)
    BY <1>14, <1>16 DEF Beside
  <1>28. r \in AllKeys /\ r \in Int /\ r \in rng[a]
    BY <1>1, <1>2, <1>5
  <1>29. /\ IsSlot(keys2, r, i - 1)
         /\ \A k \in rng[q] : k \in rng[a] /\ IsSlot(keys2, k, i - 1)
    BY <1>16, <1>17, <1>18
  <1>30. i \in DOMAIN children2 /\ children2[i] = p
    <2>1. i < o
      BY <1>2, <1>5
    <2> QED
      BY <2>1, <1>5, <1>12
  <1> QED
    BY <1>13, <1>14, <1>15, <1>25, <1>26, <1>27, <1>28, <1>29, <1>30

\* t is a and b, one after the other.
Concatenated(a, b, t) ==
    /\ Len(t) = Len(a) + Len(b) /\ DOMAIN t = 1 .. Len(a) + Len(b)
    /\ \A j \in 1 .. Len(a) + Len(b) : t[j] = IF j <= Len(a) THEN a[j] ELSE b[j - Len(a)]

\* What concatenation gives.
LEMMA ConcatIs ==
    ASSUME NEW T, NEW a \in Seq(T), NEW b \in Seq(T)
    PROVE  a \o b \in Seq(T) /\ Concatenated(a, b, a \o b)
  <1>1. /\ a \o b \in Seq(T) /\ Len(a \o b) = Len(a) + Len(b)
        /\ \A j \in 1 .. Len(a) + Len(b) : (a \o b)[j] = IF j <= Len(a) THEN a[j] ELSE b[j - Len(a)]
    BY ConcatProperties
  <1>2. DOMAIN (a \o b) = 1 .. Len(a) + Len(b)
    BY <1>1
  <1> QED
    BY <1>1, <1>2 DEF Concatenated

\* The keys that may be on p once q and the key r between them are merged into it, and the
\* parents of the children.
JoinRange(rng, p, q, r) == [rng EXCEPT ![p] = rng[p] \cup rng[q] \cup {r}]

\* The range of p fits in the page above when it has become that of p and q.
LEMMA JoinedFits ==
    ASSUME NEW N, NEW tops, NEW live, NEW h, NEW rng, NEW par,
           TreeOK(N, tops, live, h, rng, par), GhostType(live, h, rng, par),
           NEW p \in live \ tops, NEW q, NEW r, Fits(N, rng, par[p], p, rng[q] \cup {r})
    PROVE  Fits(N, rng, par[p], p, rng[p] \cup rng[q] \cup {r})
  <1> DEFINE a == par[p]
  <1>1. a \in live /\ ~N[a].isLeaf
    BY DEF TreeOK, IsChild
  <1> HIDE DEF a
  <1>2. \A j \in DOMAIN N[a].children : N[a].children[j] = p =>
           \A x \in rng[p] : x \in rng[a] /\ IsSlot(N[a].keys, x, j - 1)
    <2>1. ASSUME NEW j \in DOMAIN N[a].children
          PROVE  \A x \in rng[N[a].children[j]] : x \in rng[a] /\ IsSlot(N[a].keys, x, j - 1)
      BY <1>1, ChildOf
    <2> QED
      BY <2>1
  <1>3. Fits(N, rng, a, p, rng[q] \cup {r})
    BY DEF a
  <1>4. Fits(N, rng, a, p, rng[p] \cup rng[q] \cup {r})
    BY <1>2, <1>3 DEF Fits
  <1> QED
    BY <1>4 DEF a

\* The leaf p takes the entries of the leaf q, which is given up.
JoinsLeaf(N, tops, live, h, rng, par, p, q, r, n1, N2) ==
    /\ p \in live /\ N[p].isLeaf /\ q \in tops /\ N[q].isLeaf /\ p # q
    /\ r \in Int /\ Beside(p, q, r, h, rng)
    /\ p \notin tops => Fits(N, rng, par[p], p, rng[q] \cup {r})
    /\ n1 \in Pages \cup {-1}
    /\ live \ {q} \subseteq DOMAIN N2 /\ \A x \in live \ {p, q} : N2[x] = N[x]
    /\ N2[p] = Leaf(N[p].keys \o N[q].keys, N[p].values \o N[q].values, n1)

\* Two leaves become one.
LEMMA JoinLeafTree ==
    ASSUME NEW N, NEW tops, NEW live, NEW h, NEW rng, NEW par,
           IsTree(N, tops, live, h, rng, par),
           NEW p, NEW q, NEW r, NEW n1, NEW N2,
           JoinsLeaf(N, tops, live, h, rng, par, p, q, r, n1, N2)
    PROVE  /\ IsTree(N2, tops \ {q}, live \ {q}, h, JoinRange(rng, p, q, r), par)
           /\ Stored(N2, live \ {q}) = Stored(N, live)
  <1> DEFINE rng2 == JoinRange(rng, p, q, r)
  <1> SUFFICES ASSUME TreeOK(N, tops, live, h, rng, par), GhostType(live, h, rng, par),
                      p \in live, N[p].isLeaf, q \in tops, N[q].isLeaf, p # q,
                      r \in Int, Beside(p, q, r, h, rng),
                      p \notin tops => Fits(N, rng, par[p], p, rng[q] \cup {r}),
                      n1 \in Pages \cup {-1},
                      live \ {q} \subseteq DOMAIN N2, \A x \in live \ {p, q} : N2[x] = N[x],
                      N2[p] = Leaf(N[p].keys \o N[q].keys, N[p].values \o N[q].values, n1),
                      rng2 = JoinRange(rng, p, q, r)
               PROVE  /\ TreeOK(N2, tops \ {q}, live \ {q}, h, rng2, par)
                      /\ GhostType(live \ {q}, h, rng2, par)
                      /\ Stored(N2, live \ {q}) = Stored(N, live)
    BY DEF IsTree, JoinsLeaf
  <1> HIDE DEF rng2
  <1> DEFINE pk == N[p].keys
             pv == N[p].values
             qk == N[q].keys
             qv == N[q].values
             keys2 == pk \o qk
             values2 == pv \o qv
  <1>1. tops \subseteq live /\ live \subseteq Pages /\ q \in live /\ p \in Pages /\ q \in Pages
    BY DEF TreeOK, GhostType
  <1>2. /\ N[p] \in Node /\ Ascending(pk) /\ h[p] = 0 /\ Len(pv) = Len(pk)
        /\ \A j \in DOMAIN pk : pk[j] \in rng[p] /\ pk[j] \in AllKeys
        /\ N[q] \in Node /\ Ascending(qk) /\ h[q] = 0 /\ Len(qv) = Len(qk)
        /\ \A j \in DOMAIN qk : qk[j] \in rng[q] /\ qk[j] \in AllKeys
        /\ rng[p] # {}
    BY <1>1, LiveNode
  <1>3. /\ pk \in Seq(Int) /\ qk \in Seq(Int) /\ pv \in Seq(Values) /\ qv \in Seq(Values)
        /\ DOMAIN pk = 1 .. Len(pk) /\ DOMAIN qk = 1 .. Len(qk)
    BY <1>2, NodeFields
  <1>4. N2[p] = Leaf(keys2, values2, n1)
    OBVIOUS
  <1>5. /\ rng2 \in [Pages -> SUBSET Int] /\ rng2[p] = rng[p] \cup rng[q] \cup {r}
        /\ \A x \in Pages : x # p => rng2[x] = rng[x]
        /\ rng[p] \subseteq Int /\ rng[q] \subseteq Int
    BY <1>1 DEF JoinRange, GhostType
  <1>7. \A e : /\ Holds(N, p, e) <=> e \in EntriesOf(pk, pv)
               /\ Holds(N, q, e) <=> e \in EntriesOf(qk, qv)
    BY DEF Holds
  <1> HIDE DEF pk, pv, qk, qv
  <1>6. EntriesOf(keys2, values2) = EntriesOf(pk, pv) \cup EntriesOf(qk, qv)
    BY <1>2, <1>3, EntriesConcat
  <1>9. Ascending(keys2)
    <2>1. \A i \in DOMAIN pk, j \in DOMAIN qk : pk[i] < qk[j]
      <3>1. ASSUME NEW i \in DOMAIN pk, NEW j \in DOMAIN qk PROVE pk[i] < qk[j]
        <4>1. pk[i] < r /\ r <= qk[j] /\ pk[i] \in Int /\ qk[j] \in Int
          BY <1>2, <1>3 DEF Beside
        <4> QED
          BY <4>1
      <3> QED
        BY <3>1
    <2> QED
      BY <2>1, <1>2, <1>3, AscendingConcat
  <1>10. /\ keys2 \in Seq(Int) /\ values2 \in Seq(Values)
         /\ Concatenated(pk, qk, keys2) /\ Concatenated(pv, qv, values2)
    BY <1>3, ConcatIs
  <1> HIDE DEF keys2, values2
  <1>10a. /\ Len(values2) = Len(keys2) /\ DOMAIN keys2 = 1 .. Len(pk) + Len(qk)
          /\ \A j \in 1 .. Len(pk) + Len(qk) : keys2[j]
              = IF j <= Len(pk) THEN pk[j] ELSE qk[j - Len(pk)]
    BY <1>2, <1>10 DEF Concatenated
  <1>8. \A e : Holds(N2, p, e) <=> e \in EntriesOf(keys2, values2)
    BY ONLY <1>4 DEF Holds, Leaf
  <1>11. \A j \in DOMAIN keys2 : keys2[j] \in rng2[p] /\ keys2[j] \in AllKeys
    <2>1. ASSUME NEW j \in 1 .. Len(pk) + Len(qk)
          PROVE keys2[j] \in rng2[p] /\ keys2[j] \in AllKeys
      <3>1. CASE j <= Len(pk)
        <4>1. j \in DOMAIN pk
          BY <3>1, <1>3
        <4> QED
          BY <3>1, <4>1, <1>2, <1>5, <1>10a
      <3>2. CASE ~(j <= Len(pk))
        <4>1. j - Len(pk) \in DOMAIN qk
          BY <3>2, <1>3
        <4> QED
          BY <3>2, <4>1, <1>2, <1>5, <1>10a
      <3> QED
        BY <3>1, <3>2
    <2> QED
      BY <2>1, <1>10a
  <1>12. LocalOK(N2[p], h[p], rng2[p]) /\ N2[p].isLeaf
    <2>1. N2[p] \in Node /\ N2[p].keys = keys2 /\ N2[p].values = values2 /\ N2[p].isLeaf
      <3>1. Leaf(keys2, values2, n1) \in Node
        BY <1>10, LeafIsNode
      <3> QED
        BY ONLY <1>4, <3>1 DEF Leaf
    <2>2. rng2[p] # {}
      BY <1>2, <1>5
    <2> HIDE DEF JoinRange
    <2> QED
      BY <2>1, <2>2, <1>2, <1>9, <1>10a, <1>11 DEF LocalOK
  <1>13. GhostType(live \ {q}, h, rng2, par)
    BY <1>1, <1>5 DEF GhostType
  <1>14. TreeOK(N2, tops \ {q}, live \ {q}, h, rng2, par)
    <2> DEFINE live2 == live \ {q}
               tops2 == tops \ {q}
    <2>1. \A x \in live \ tops : par[x] \in live /\ par[x] # p /\ par[x] # q
      BY DEF TreeOK, IsChild
    <2>2. NodeOK(N2[p], p, tops2, live2, h, rng2, par)
      BY <1>12 DEF NodeOK
    <2>3. ASSUME NEW c \in live \ tops
          PROVE  rng2[c] \subseteq rng[c] \/ Fits(N, rng, par[c], c, rng2[c])
      <3>1. CASE c = p
        <4>1. Fits(N, rng, par[p], p, rng[p] \cup rng[q] \cup {r})
          BY <3>1, <2>3, JoinedFits
        <4> QED
          BY <3>1, <4>1, <1>5
      <3>2. CASE c # p
        BY <3>2, <1>1, <1>5
      <3> QED
        BY <3>1, <3>2
    <2>4. \A x \in live2 \ {p} : x \in live /\ N2[x] = N[x] /\ rng2[x] = rng[x]
      BY <1>1, <1>5
    <2>5. p \in live2 /\ tops2 \subseteq live2 /\ live2 \subseteq DOMAIN N2
      BY <1>1
    <2>6. \A c \in live \ tops : c \in live2 /\ c \notin tops2
      BY <1>1
    <2>7. \A x \in live2 \ tops2 : x \in live \ tops /\ par[x] \in live2 \ {p}
      BY <2>1
    <2> HIDE DEF live2, tops2
    <2>8. LocalChange(N, tops, live, h, rng, par, N2, tops2, live2, h, rng2, par, {p})
      BY <2>2, <2>3, <2>4, <2>5, <2>6, <2>7 DEF LocalChange
    <2>9. TreeOK(N2, tops2, live2, h, rng2, par)
      BY <2>8, Rebuild
    <2> QED
      BY <2>9 DEF live2, tops2
  <1>15. Stored(N2, live \ {q}) = Stored(N, live)
    <2>1. SameEntries(N, live, N2, live \ {q}, {p, q})
      <3>1. ASSUME NEW e
            PROVE  (\E x \in live \cap {p, q} : Holds(N, x, e)) <=>
                     (\E x \in (live \ {q}) \cap {p, q} : Holds(N2, x, e))
        BY <1>1, <1>6, <1>7, <1>8
      <3> QED
        BY <3>1 DEF SameEntries
    <2> QED
      BY <2>1, StoredTwo
  <1> QED
    BY <1>13, <1>14, <1>15

\* The internal node p takes the key r and what q holds, which is given up.
JoinsInternal(N, tops, live, h, rng, par, p, q, r, N2) ==
    /\ p \in live /\ ~N[p].isLeaf /\ q \in tops /\ ~N[q].isLeaf /\ p # q
    /\ r \in AllKeys /\ r \in Int /\ Beside(p, q, r, h, rng)
    /\ p \notin tops => Fits(N, rng, par[p], p, rng[q] \cup {r})
    /\ live \ {q} \subseteq DOMAIN N2 /\ \A x \in live \ {p, q} : N2[x] = N[x]
    /\ N2[p] = Internal(Append(N[p].keys, r) \o N[q].keys, N[p].children \o N[q].children)

JoinPar(N, par, p, q) == Adopt(par, ToSet(N[q].children), p)

\* Two internal nodes become one, with the key between them.
LEMMA JoinInternalTree ==
    ASSUME NEW N, NEW tops, NEW live, NEW h, NEW rng, NEW par,
           IsTree(N, tops, live, h, rng, par),
           NEW p, NEW q, NEW r, NEW N2,
           JoinsInternal(N, tops, live, h, rng, par, p, q, r, N2)
    PROVE  /\ IsTree(N2, tops \ {q}, live \ {q}, h, JoinRange(rng, p, q, r),
                     JoinPar(N, par, p, q))
           /\ Stored(N2, live \ {q}) = Stored(N, live)
  <1> DEFINE rng2 == JoinRange(rng, p, q, r)
             par2 == JoinPar(N, par, p, q)
  <1> SUFFICES ASSUME TreeOK(N, tops, live, h, rng, par), GhostType(live, h, rng, par),
                      p \in live, ~N[p].isLeaf, q \in tops, ~N[q].isLeaf, p # q,
                      r \in AllKeys, r \in Int, Beside(p, q, r, h, rng),
                      p \notin tops => Fits(N, rng, par[p], p, rng[q] \cup {r}),
                      live \ {q} \subseteq DOMAIN N2, \A x \in live \ {p, q} : N2[x] = N[x],
                      N2[p] = Internal(Append(N[p].keys, r) \o N[q].keys,
                                       N[p].children \o N[q].children),
                      rng2 = JoinRange(rng, p, q, r), par2 = Adopt(par, ToSet(N[q].children), p)
               PROVE  /\ TreeOK(N2, tops \ {q}, live \ {q}, h, rng2, par2)
                      /\ GhostType(live \ {q}, h, rng2, par2)
                      /\ Stored(N2, live \ {q}) = Stored(N, live)
    BY DEF IsTree, JoinsInternal, JoinPar
  <1> HIDE DEF rng2, par2
  <1> DEFINE pk == N[p].keys
             pc1 == N[p].children
             qk == N[q].keys
             qc == N[q].children
             pr == Append(pk, r)
             keys2 == pr \o qk
             children2 == pc1 \o qc
             m == Len(pk) + 1
             n == Len(qk) + 1
  <1>1. tops \subseteq live /\ live \subseteq Pages /\ q \in live /\ p \in Pages /\ q \in Pages
    BY DEF TreeOK, GhostType
  <1>2. /\ N[p] \in Node /\ Ascending(pk) /\ h[p] # 0 /\ Len(pc1) = m /\ Injective(pc1)
        /\ \A j \in DOMAIN pk : pk[j] \in rng[p] /\ pk[j] \in AllKeys
        /\ N[q] \in Node /\ Ascending(qk) /\ h[q] # 0 /\ Len(qc) = n /\ Injective(qc)
        /\ \A j \in DOMAIN qk : qk[j] \in rng[q] /\ qk[j] \in AllKeys
        /\ rng[p] # {}
    BY <1>1, LiveNode
  <1>3. /\ pk \in Seq(Int) /\ qk \in Seq(Int) /\ pc1 \in Seq(Pages) /\ qc \in Seq(Pages)
        /\ DOMAIN pk = 1 .. Len(pk) /\ DOMAIN qk = 1 .. Len(qk)
        /\ DOMAIN pc1 = 1 .. Len(pc1) /\ DOMAIN qc = 1 .. Len(qc)
        /\ Len(pk) \in Nat /\ Len(qk) \in Nat
    BY <1>2, NodeFields
  <1>4. N2[p] = Internal(keys2, children2) /\ m = Len(pk) + 1 /\ n = Len(qk) + 1
    OBVIOUS
  <1>5. /\ rng2 \in [Pages -> SUBSET Int] /\ rng2[p] = rng[p] \cup rng[q] \cup {r}
        /\ \A x \in Pages : x # p => rng2[x] = rng[x]
        /\ rng[p] \subseteq Int /\ rng[q] \subseteq Int /\ h \in [Pages -> Nat]
    BY <1>1 DEF JoinRange, GhostType
  <1>6. /\ \A j \in DOMAIN pc1 :
              /\ pc1[j] \in live \ tops /\ pc1[j] \in Pages
              /\ h[pc1[j]] = h[p] - 1 /\ par[pc1[j]] = p
              /\ \A k \in rng[pc1[j]] : k \in Int /\ k \in rng[p] /\ IsSlot(pk, k, j - 1)
        /\ \A j \in DOMAIN qc :
              /\ qc[j] \in live \ tops /\ qc[j] \in Pages
              /\ h[qc[j]] = h[q] - 1 /\ par[qc[j]] = q
              /\ \A k \in rng[qc[j]] : k \in Int /\ k \in rng[q] /\ IsSlot(qk, k, j - 1)
    BY <1>1, ChildOf
  <1>7. /\ par2 \in [Pages -> Pages]
        /\ \A x \in Pages : par2[x] = IF x \in ToSet(qc) THEN p ELSE par[x]
    BY <1>1 DEF Adopt, GhostType
  <1>8. ToSet(qc) = {qc[j] : j \in DOMAIN qc}
    BY <1>3 DEF ToSet
  <1>9. /\ \A x \in live \ tops : par[x] \in live
        /\ \A x \in live \ tops : par[x] = p => \E j \in DOMAIN pc1 : pc1[j] = x
        /\ \A x \in live \ tops : par[x] = q => \E j \in DOMAIN qc : qc[j] = x
    BY DEF TreeOK, IsChild
  <1> HIDE DEF pk, qk, pc1, qc, m, n
  <1>10. \A k \in rng[p] : k < r /\ k \in Int
    BY <1>5 DEF Beside
  <1>11. h[q] = h[p] /\ \A k \in rng[q] : r <= k /\ k \in Int
    BY <1>5 DEF Beside
  <1>12. \A j \in 1 .. Len(pk) : pk[j] < r
    BY <1>2, <1>3, <1>10
  <1>13. \A j \in 1 .. Len(qk) : r < qk[j]
    <2>1. 1 \in DOMAIN qc
      BY <1>2, <1>3, <1>4
    <2>2. PICK y \in rng[qc[1]] : TRUE
      <3>1. qc[1] \in live
        BY <2>1, <1>6
      <3> QED
        BY <3>1, LiveNode
    <2>3. y \in Int /\ r <= y /\ IsSlot(qk, y, 1 - 1)
      BY <2>1, <2>2, <1>6, <1>11
    <2>4. \A j \in 1 .. Len(qk) : y < qk[j] /\ qk[j] \in Int
      <3>1. \A j \in 1 .. Len(qk) : j \in 1 - 1 + 1 .. Len(qk)
        BY <1>3
      <3> QED
        BY <2>3, <3>1, <1>3 DEF IsSlot
    <2> QED
      BY <2>3, <2>4
  <1>14. pr = InsertAt(pk, m, r)
    <2>1. Append(pk, r) = InsertAt(pk, Len(pk) + 1, r)
      <3>1. pk \in Seq(Int) /\ r \in Int
        BY <1>3
      <3>2. <<r>> \o pk = InsertAt(pk, 1, r) /\ Append(pk, r) = InsertAt(pk, Len(pk) + 1, r)
        BY ONLY <3>1, EndsAsInsertions
      <3> QED
        BY ONLY <3>2
    <2> QED
      BY ONLY <2>1 DEF m
  <1>15. IsSlot(pk, r, m - 1)
    <2>1. m - 1 = Len(pk) /\ \A j \in 1 .. Len(pk) : pk[j] <= r
      BY <1>3, <1>4, <1>12
    <2> QED
      BY <2>1, <1>3 DEF IsSlot
  <1>16. m \in 1 .. Len(pk) + 1 /\ (\A j \in 1 .. m - 1 : pk[j] < r)
      /\ \A j \in m .. Len(pk) : r < pk[j]
    BY <1>3, <1>4, <1>12
  <1>17. /\ pr \in Seq(Int) /\ Ascending(pr) /\ Len(pr) = m /\ DOMAIN pr = 1 .. m
         /\ \A j \in 1 .. m : pr[j] = IF j < m THEN pk[j] ELSE r
    <2>1. Ascending(pr)
      BY <1>2, <1>3, <1>14, <1>16, AscendingInsert
    <2>2. pr \in Seq(Int) /\ Inserted(pk, m, r, pr)
      BY <1>3, <1>14, <1>16, InsertAtIs
    <2> HIDE DEF pr
    <2> QED
      BY <2>1, <2>2, <1>3, <1>4 DEF Inserted
  <1>18. \A k, v : k \in Int /\ IsSlot(pk, k, v) => IsSlot(pr, k, IF k < r THEN v ELSE v + 1)
    BY <1>3, <1>14, <1>15, <1>16, SlotInsert
  <1> HIDE DEF pr
  <1>19. /\ \A k, v : IsSlot(pr, k, v) /\ (\A j \in DOMAIN qk : k < qk[j]) => IsSlot(keys2, k, v)
         /\ \A k, v : IsSlot(qk, k, v) /\ (\A j \in DOMAIN pr : pr[j] <= k)
             => IsSlot(keys2, k, Len(pr) + v)
    BY <1>3, <1>17, SlotConcat
  <1>20. Ascending(keys2)
    <2>1. ASSUME NEW i \in DOMAIN pr, NEW j \in DOMAIN qk PROVE pr[i] < qk[j]
      <3>1. r < qk[j] /\ qk[j] \in Int
        BY <1>3, <1>13
      <3>2. pr[i] = r \/ (pr[i] < r /\ pr[i] \in Int)
        BY <1>3, <1>4, <1>12, <1>17
      <3> QED
        BY <3>1, <3>2
    <2> QED
      BY <2>1, <1>2, <1>3, <1>17, AscendingConcat
  <1>21. /\ keys2 \in Seq(Int) /\ Len(keys2) = m + Len(qk) /\ DOMAIN keys2 = 1 .. m + Len(qk)
         /\ \A j \in 1 .. m + Len(qk) : keys2[j] = IF j <= m THEN pr[j] ELSE qk[j - m]
    <2>1. keys2 \in Seq(Int) /\ Concatenated(pr, qk, keys2)
      BY <1>3, <1>17, ConcatIs
    <2> HIDE DEF keys2
    <2> QED
      BY <2>1, <1>17 DEF Concatenated
  <1>22. /\ children2 \in Seq(Pages) /\ Len(children2) = m + n /\ DOMAIN children2 = 1 .. m + n
         /\ \A j \in 1 .. m + n : children2[j] = IF j <= m THEN pc1[j] ELSE qc[j - m]
    <2>1. children2 \in Seq(Pages) /\ Concatenated(pc1, qc, children2)
      BY <1>3, ConcatIs
    <2> HIDE DEF children2
    <2> QED
      BY <2>1, <1>2 DEF Concatenated
  <1> HIDE DEF keys2, children2
  <1>23. N2[p] \in Node /\ ~N2[p].isLeaf /\ N2[p].keys = keys2 /\ N2[p].children = children2
    <2>1. Internal(keys2, children2) \in Node
      BY <1>21, <1>22, InternalIsNode
    <2> QED
      BY ONLY <1>4, <2>1 DEF Internal
  <1>24. ASSUME NEW j \in 1 .. m + n, j <= m
         PROVE  /\ j \in DOMAIN pc1 /\ children2[j] = pc1[j]
                /\ \A k \in rng[pc1[j]] : k \in rng2[p] /\ IsSlot(keys2, k, j - 1)
    <2>1. j \in DOMAIN pc1 /\ children2[j] = pc1[j]
      <3>1. j \in 1 .. m
        BY <1>3, <1>4, <1>24
      <3> QED
        BY <3>1, <1>2, <1>3, <1>22, <1>24
    <2>2. ASSUME NEW k \in rng[pc1[j]] PROVE k \in rng2[p] /\ IsSlot(keys2, k, j - 1)
      <3>1. k \in Int /\ k \in rng[p] /\ IsSlot(pk, k, j - 1) /\ k < r
        BY <2>1, <1>6, <1>10
      <3>2. IsSlot(pr, k, j - 1)
        BY <3>1, <1>18
      <3>3. \A i \in DOMAIN qk : k < qk[i]
        BY <3>1, <1>3, <1>13
      <3> QED
        BY <3>1, <3>2, <3>3, <1>5, <1>19
    <2> QED
      BY <2>1, <2>2
  <1>25. ASSUME NEW j \in 1 .. m + n, ~(j <= m)
         PROVE  /\ j - m \in DOMAIN qc /\ children2[j] = qc[j - m]
                /\ \A k \in rng[qc[j - m]] : k \in rng2[p] /\ IsSlot(keys2, k, j - 1)
    <2> DEFINE l == j - m
    <2>1. l \in DOMAIN qc /\ children2[j] = qc[l] /\ m + (l - 1) = j - 1
      BY <1>2, <1>3, <1>4, <1>22, <1>25
    <2> HIDE DEF l
    <2>2. ASSUME NEW k \in rng[qc[l]] PROVE k \in rng2[p] /\ IsSlot(keys2, k, j - 1)
      <3>1. k \in Int /\ k \in rng[q] /\ IsSlot(qk, k, l - 1) /\ r <= k
        BY <2>1, <1>6, <1>11
      <3>2. \A i \in DOMAIN pr : pr[i] <= k
        <4>1. \A i \in 1 .. m : pr[i] = r \/ (pr[i] < r /\ pr[i] \in Int)
          BY <1>3, <1>4, <1>12, <1>17
        <4> QED
          BY <3>1, <4>1, <1>17
      <3>3. IsSlot(keys2, k, m + (l - 1))
        BY <3>1, <3>2, <1>17, <1>19
      <3> QED
        BY <2>1, <3>1, <3>3, <1>5
    <2> QED
      BY <2>1, <2>2 DEF l
  <1>26. Injective(children2)
    <2>1. ASSUME NEW u \in 1 .. m + n, NEW v \in 1 .. m + n, children2[u] = children2[v]
          PROVE  u = v
      <3>1. /\ \A x1, x2 \in DOMAIN pc1 : pc1[x1] = pc1[x2] => x1 = x2
            /\ \A x1, x2 \in DOMAIN qc : qc[x1] = qc[x2] => x1 = x2
        BY <1>2 DEF Injective
      <3>2. u \in Int /\ v \in Int /\ m \in Int
        BY <1>3, <1>4
      <3>3. CASE u <= m /\ v <= m
        BY <2>1, <3>1, <3>3, <1>24
      <3>4. CASE ~(u <= m) /\ ~(v <= m)
        <4>1. u - m = v - m
          BY <2>1, <3>1, <3>4, <1>25
        <4> QED
          BY <4>1, <3>2
      <3>5. CASE u <= m /\ ~(v <= m)
        <4>1. par[children2[u]] = p /\ par[children2[v]] = q
          BY <3>5, <1>6, <1>24, <1>25
        <4> QED
          BY <2>1, <4>1
      <3>6. CASE ~(u <= m) /\ v <= m
        <4>1. par[children2[u]] = q /\ par[children2[v]] = p
          BY <3>6, <1>6, <1>24, <1>25
        <4> QED
          BY <2>1, <4>1
      <3> QED
        BY <3>3, <3>4, <3>5, <3>6
    <2> QED
      BY <2>1, <1>22 DEF Injective
  <1>27. LocalOK(N2[p], h[p], rng2[p])
    <2>1. ASSUME NEW j \in DOMAIN keys2 PROVE keys2[j] \in rng2[p] /\ keys2[j] \in AllKeys
      <3>1. CASE j < m
        <4>1. j \in DOMAIN pk /\ keys2[j] = pk[j]
          <5>1. j \in 1 .. m + Len(qk) /\ j \in 1 .. m
            BY <3>1, <1>3, <1>4, <1>21
          <5>2. keys2[j] = pr[j]
            BY <5>1, <1>21
          <5>3. pr[j] = pk[j]
            BY <3>1, <5>1, <1>17
          <5>4. j \in DOMAIN pk
            BY <3>1, <5>1, <1>3, <1>4
          <5> QED
            BY <5>2, <5>3, <5>4
        <4>2. pk[j] \in rng[p] /\ pk[j] \in AllKeys
          BY <4>1, <1>2
        <4> QED
          BY <4>1, <4>2, <1>5
      <3>2. CASE j = m
        <4>1. m \in 1 .. m /\ m \in 1 .. m + Len(qk) /\ ~(m < m) /\ m <= m
          BY ONLY <1>3, <1>4
        <4>2. keys2[m] = pr[m]
          BY ONLY <4>1, <1>21
        <4>3. pr[m] = r
          BY ONLY <4>1, <1>17
        <4>4. keys2[j] = r
          BY ONLY <3>2, <4>2, <4>3
        <4> QED
          BY <4>4, <1>5
      <3>3. CASE j > m
        <4>1. j - m \in DOMAIN qk /\ keys2[j] = qk[j - m]
          <5>1. m \in Nat /\ Len(qk) \in Nat /\ j \in 1 .. m + Len(qk)
            BY <1>3, <1>4, <1>21
          <5>2. j - m \in 1 .. Len(qk) /\ ~(j <= m)
            BY ONLY <5>1, <3>3
          <5> QED
            BY <5>1, <5>2, <1>3, <1>21
        <4> QED
          BY <4>1, <1>2, <1>5
      <3> QED
        BY <3>1, <3>2, <3>3, <1>3, <1>4, <1>21
    <2>2. rng2[p] # {}
      BY <1>5
    <2>3. Len(children2) = Len(keys2) + 1
      BY <1>3, <1>4, <1>21, <1>22
    <2> QED
      BY <2>1, <2>2, <2>3, <1>2, <1>20, <1>23, <1>26 DEF LocalOK
  <1>28. GhostType(live \ {q}, h, rng2, par2)
    BY <1>1, <1>5, <1>7 DEF GhostType
  <1>29. TreeOK(N2, tops \ {q}, live \ {q}, h, rng2, par2)
    <2> DEFINE live2 == live \ {q}
               tops2 == tops \ {q}
    <2>1. \A x \in live \ tops : x \in ToSet(qc) <=> par[x] = q
      BY <1>6, <1>8, <1>9
    <2>2. \A x \in live \ tops : par2[x] = IF par[x] = q THEN p ELSE par[x]
      BY <2>1, <1>1, <1>7
    <2>3. \A c \in live \ tops : c # p => rng2[c] = rng[c]
      BY <1>1, <1>5
    <2>4. p \in live2 /\ tops2 \subseteq live2 /\ live2 \subseteq DOMAIN N2
      BY <1>1
    <2>5. \A c \in live \ tops : c \in live2 /\ c \notin tops2
      BY <1>1
    <2>6. \A x \in live2 \ tops2 : x \in live \ tops
      OBVIOUS
    <2>7. h[p] # h[p] - 1 /\ h[q] = h[p]
      BY <1>1, <1>5, <1>11
    <2>8. NodeOK(N2[p], p, tops2, live2, h, rng2, par2)
      <3>1. ASSUME NEW j \in 1 .. m + n
            PROVE  LinkOK(N2[p], p, j, children2[j], tops2, live2, h, rng2, par2)
        <4>1. CASE j <= m
          <5> DEFINE c == pc1[j]
          <5>1. /\ children2[j] = c /\ c \in live \ tops /\ h[c] = h[p] - 1 /\ par[c] = p
                /\ \A k \in rng[c] : k \in rng2[p] /\ IsSlot(keys2, k, j - 1)
            BY <4>1, <1>6, <1>24
          <5> HIDE DEF c
          <5>2. c # p /\ c \in live2 /\ c \notin tops2 /\ par2[c] = p /\ rng2[c] = rng[c]
            BY <5>1, <2>2, <2>3, <2>5, <2>7
          <5> QED
            BY <5>1, <5>2, <1>23 DEF LinkOK
        <4>2. CASE ~(j <= m)
          <5> DEFINE c == qc[j - m]
          <5>1. /\ children2[j] = c /\ c \in live \ tops /\ h[c] = h[p] - 1 /\ par[c] = q
                /\ \A k \in rng[c] : k \in rng2[p] /\ IsSlot(keys2, k, j - 1)
            BY <4>2, <2>7, <1>6, <1>25
          <5> HIDE DEF c
          <5>2. c # p /\ c \in live2 /\ c \notin tops2 /\ par2[c] = p /\ rng2[c] = rng[c]
            BY <5>1, <2>2, <2>3, <2>5, <2>7
          <5> QED
            BY <5>1, <5>2, <1>23 DEF LinkOK
        <4> QED
          BY <4>1, <4>2
      <3> QED
        BY <3>1, <1>22, <1>23, <1>27 DEF NodeOK
    <2>9. ASSUME NEW c \in live \ tops
          PROVE  rng2[c] \subseteq rng[c] \/ Fits(N, rng, par[c], c, rng2[c])
      <3>1. CASE c = p
        <4>1. Fits(N, rng, par[p], p, rng[p] \cup rng[q] \cup {r})
          BY <3>1, <2>9, JoinedFits
        <4> QED
          BY <3>1, <4>1, <1>5
      <3>2. CASE c # p
        BY <3>2, <2>3
      <3> QED
        BY <3>1, <3>2
    <2>10. ASSUME NEW x \in live2 \ tops2
           PROVE  \/ par2[x] = p /\ IsChild(N2, p, x)
                  \/ x \in live \ tops /\ par2[x] \in live2 \ {p} /\ par2[x] = par[x]
      <3>1. x \in live \ tops /\ par[x] \in live
        BY <2>6, <1>9
      <3>2. CASE par[x] = p
        <4>1. PICK j \in DOMAIN pc1 : pc1[j] = x
          BY <3>1, <3>2, <1>9
        <4>2. j \in 1 .. m + n /\ children2[j] = x
          BY <4>1, <1>2, <1>3, <1>4, <1>22
        <4>3. par2[x] = p
          BY <3>1, <3>2, <2>2
        <4> QED
          BY <4>2, <4>3, <1>22, <1>23 DEF IsChild
      <3>3. CASE par[x] = q
        <4>1. PICK j \in DOMAIN qc : qc[j] = x
          BY <3>1, <3>3, <1>9
        <4> DEFINE l == j + m
        <4>2. l \in 1 .. m + n /\ ~(l <= m) /\ l - m = j
          BY <4>1, <1>2, <1>3, <1>4
        <4> HIDE DEF l
        <4>3. children2[l] = x
          BY <4>1, <4>2, <1>22
        <4>4. par2[x] = p
          BY <3>1, <3>3, <2>2
        <4> QED
          BY <4>2, <4>3, <4>4, <1>22, <1>23 DEF IsChild
      <3>4. CASE par[x] # p /\ par[x] # q
        BY <3>1, <3>4, <2>2
      <3> QED
        BY <3>2, <3>3, <3>4
    <2>11. \A x \in live2 \ {p} : x \in live /\ N2[x] = N[x] /\ rng2[x] = rng[x]
      BY <1>1, <1>5
    <2>12. \A c \in live \ tops : par[c] \in live2 \ {p} => par2[c] = par[c]
      BY <2>2
    <2> HIDE DEF live2, tops2
    <2>13. LocalChange(N, tops, live, h, rng, par, N2, tops2, live2, h, rng2, par2, {p})
      BY <2>4, <2>5, <2>8, <2>9, <2>10, <2>11, <2>12 DEF LocalChange
    <2>14. TreeOK(N2, tops2, live2, h, rng2, par2)
      BY <2>13, Rebuild
    <2> QED
      BY <2>14 DEF live2, tops2
  <1>30. Stored(N2, live \ {q}) = Stored(N, live)
    <2>1. SameEntries(N, live, N2, live \ {q}, {p, q})
      BY <1>23 DEF SameEntries, Holds
    <2> QED
      BY <2>1, StoredTwo
  <1> QED
    BY <1>28, <1>29, <1>30

\* Two neighbours below a page.
Siblings(N, tops, live, h, a, i, p, q) ==
    /\ a \in live /\ ~N[a].isLeaf /\ i \in 1 .. Len(N[a].keys)
    /\ p = N[a].children[i] /\ q = N[a].children[i + 1]

\* Two children of a, with the key r between them.
SiblingFacts(N, tops, live, h, a, p, q, r) ==
    /\ p \in live \ tops /\ q \in live \ tops /\ p # q /\ p # a /\ q # a
    /\ p \in Pages /\ q \in Pages /\ a \in Pages
    /\ h[p] = h[a] - 1 /\ h[q] = h[p] /\ (N[p].isLeaf <=> N[q].isLeaf)
    /\ r \in AllKeys /\ r \in Int

\* Neighbouring children are live, as high as each other, and not tops.
LEMMA SiblingsAre ==
    ASSUME NEW N, NEW tops, NEW live, NEW h, NEW rng, NEW par,
           IsTree(N, tops, live, h, rng, par),
           NEW a, NEW i, NEW p, NEW q, Siblings(N, tops, live, h, a, i, p, q)
    PROVE  SiblingFacts(N, tops, live, h, a, p, q, N[a].keys[i])
  <1>1. /\ a \in live /\ ~N[a].isLeaf /\ i \in 1 .. Len(N[a].keys)
        /\ p = N[a].children[i] /\ q = N[a].children[i + 1]
    BY DEF Siblings
  <1>2. TreeOK(N, tops, live, h, rng, par) /\ GhostType(live, h, rng, par)
    BY DEF IsTree
  <1>3. N[a] \in Node /\ Len(N[a].children) = Len(N[a].keys) + 1 /\ Injective(N[a].children)
        /\ \A j \in DOMAIN N[a].keys : N[a].keys[j] \in AllKeys
    BY <1>1, <1>2, LiveNode
  <1>4. i \in DOMAIN N[a].children /\ i + 1 \in DOMAIN N[a].children /\ i # i + 1
        /\ i \in DOMAIN N[a].keys
    <2>1. /\ Len(N[a].keys) \in Nat /\ DOMAIN N[a].keys = 1 .. Len(N[a].keys)
          /\ DOMAIN N[a].children = 1 .. Len(N[a].children)
      BY <1>3, NodeFields
    <2> QED
      BY ONLY <1>1, <1>3, <2>1
  <1>5. p # q
    BY <1>1, <1>3, <1>4 DEF Injective
  <1>6. /\ p \in live \ tops /\ q \in live \ tops /\ p \in Pages /\ q \in Pages /\ a \in Pages
        /\ h[p] = h[a] - 1 /\ h[q] = h[a] - 1 /\ h[a] \in Nat
    BY <1>1, <1>2, <1>4, ChildOf
  <1>7. N[p].isLeaf <=> N[q].isLeaf
    BY <1>2, <1>6, LiveNode
  <1>8. N[a].keys[i] \in AllKeys /\ N[a].keys[i] \in Int
    BY <1>3, <1>4, KeysAreNumbers
  <1>9. p # a /\ q # a
    BY <1>6
  <1> QED
    BY <1>5, <1>6, <1>7, <1>8, <1>9 DEF SiblingFacts

\* What p is when it has taken all that q holds.
MergedNode(n1, n2, r, next) ==
    IF n1.isLeaf THEN Leaf(n1.keys \o n2.keys, n1.values \o n2.values, next)
    ELSE Internal(Append(n1.keys, r) \o n2.keys, n1.children \o n2.children)

\* q is merged into its left neighbour p, and leaves the page above with the key between them.
Merges(N, live, a, i, p, q, next, N2) ==
    /\ next \in Pages \cup {-1}
    /\ live \ {q} \subseteq DOMAIN N2 /\ \A x \in live \ {a, p, q} : N2[x] = N[x]
    /\ N2[a] = Internal(RemoveAt(N[a].keys, i), RemoveAt(N[a].children, i + 1))
    /\ N2[p] = MergedNode(N[p], N[q], N[a].keys[i], next)

\* A merge gives a tree that stores the same.
LEMMA MergeTree ==
    ASSUME NEW N, NEW tops, NEW live, NEW h, NEW rng, NEW par,
           IsTree(N, tops, live, h, rng, par),
           NEW a, NEW i, NEW p, NEW q, Siblings(N, tops, live, h, a, i, p, q),
           NEW next, NEW N2, Merges(N, live, a, i, p, q, next, N2)
    PROVE  /\ \E rng2, par2 : IsTree(N2, tops, live \ {q}, h, rng2, par2)
           /\ Stored(N2, live \ {q}) = Stored(N, live)
           /\ ~N2[a].isLeaf /\ N2[a].children[i] = p /\ i \in DOMAIN N2[a].children
  <1> DEFINE r == N[a].keys[i]
             N1 == [x \in live |-> IF x = a THEN N2[a] ELSE N[x]]
  <1>1. SiblingFacts(N, tops, live, h, a, p, q, r)
    BY SiblingsAre
  <1>2. /\ p \in live \ tops /\ q \in live \ tops /\ p # q /\ p # a /\ q # a
        /\ p \in Pages /\ q \in Pages /\ a \in Pages
        /\ h[p] = h[a] - 1 /\ h[q] = h[p] /\ (N[p].isLeaf <=> N[q].isLeaf)
        /\ r \in AllKeys /\ r \in Int /\ a \in live
    BY <1>1 DEF SiblingFacts, Siblings
  <1>3. /\ live \ {q} \subseteq DOMAIN N2 /\ \A x \in live \ {a, p, q} : N2[x] = N[x]
        /\ N2[a] = Internal(RemoveAt(N[a].keys, i), RemoveAt(N[a].children, i + 1))
        /\ N2[p] = MergedNode(N[p], N[q], r, next) /\ next \in Pages \cup {-1}
    BY DEF Merges
  <1>4. N1[a] = N2[a] /\ live \subseteq DOMAIN N1 /\ \A x \in live \ {a} : N1[x] = N[x]
    BY <1>2
  <1> HIDE DEF N1
  <1>5. Unattaches(N, live, a, i, p, q, r, N1)
    BY <1>3, <1>4 DEF Unattaches, Siblings
  <1> HIDE DEF r
  <1>6. /\ IsTree(N1, tops \cup {q}, live, h, rng, par)
        /\ Stored(N1, live) = Stored(N, live)
        /\ Unattached(N1, tops, live, h, rng, par, a, i, p, q, r)
    BY <1>5, UnattachTree
  <1>7. /\ r \in rng[a] /\ IsSlot(N1[a].keys, r, i - 1) /\ Beside(p, q, r, h, rng)
        /\ \A k \in rng[q] : k \in rng[a] /\ IsSlot(N1[a].keys, k, i - 1)
        /\ ~N1[a].isLeaf /\ N1[a].children[i] = p /\ par[p] = a /\ i \in DOMAIN N1[a].children
    BY <1>6 DEF Unattached
  <1>8. Fits(N1, rng, par[p], p, rng[q] \cup {r})
    <2>1. ASSUME NEW j \in DOMAIN N1[a].children, N1[a].children[j] = p PROVE j = i
      <3>1. Injective(N1[a].children)
        BY <1>2, <1>6, <1>7, LiveNode DEF IsTree
      <3> QED
        BY <2>1, <3>1, <1>7 DEF Injective
    <2> QED
      BY <2>1, <1>7 DEF Fits
  <1>9. (tops \cup {q}) \ {q} = tops
    BY <1>2
  <1>10. CASE N[p].isLeaf
    <2>1. JoinsLeaf(N1, tops \cup {q}, live, h, rng, par, p, q, r, next, N2)
      <3>1. N2[p] = Leaf(N1[p].keys \o N1[q].keys, N1[p].values \o N1[q].values, next)
        BY <1>2, <1>3, <1>4, <1>10 DEF MergedNode
      <3>2. \A x \in live \ {p, q} : N2[x] = N1[x]
        BY <1>3, <1>4
      <3> QED
        BY <3>1, <3>2, <1>2, <1>3, <1>4, <1>7, <1>8, <1>10 DEF JoinsLeaf
    <2>2. /\ IsTree(N2, tops, live \ {q}, h, JoinRange(rng, p, q, r), par)
          /\ Stored(N2, live \ {q}) = Stored(N1, live)
      BY <2>1, <1>6, <1>9, JoinLeafTree
    <2> QED
      BY <2>2, <1>4, <1>6, <1>7
  <1>11. CASE ~N[p].isLeaf
    <2>1. JoinsInternal(N1, tops \cup {q}, live, h, rng, par, p, q, r, N2)
      <3>1. N2[p] = Internal(Append(N1[p].keys, r) \o N1[q].keys, N1[p].children \o N1[q].children)
        BY <1>2, <1>3, <1>4, <1>11 DEF MergedNode
      <3>2. \A x \in live \ {p, q} : N2[x] = N1[x]
        BY <1>3, <1>4
      <3> QED
        BY <3>1, <3>2, <1>2, <1>3, <1>4, <1>7, <1>8, <1>11 DEF JoinsInternal
    <2>2. /\ IsTree(N2, tops, live \ {q}, h, JoinRange(rng, p, q, r), JoinPar(N1, par, p, q))
          /\ Stored(N2, live \ {q}) = Stored(N1, live)
      <3> DEFINE tops1 == tops \cup {q}
      <3>1. IsTree(N1, tops1, live, h, rng, par)
          /\ JoinsInternal(N1, tops1, live, h, rng, par, p, q, r, N2)
        BY <2>1, <1>6
      <3> HIDE DEF tops1
      <3>2. /\ IsTree(N2, tops1 \ {q}, live \ {q}, h, JoinRange(rng, p, q, r),
                      JoinPar(N1, par, p, q))
            /\ Stored(N2, live \ {q}) = Stored(N1, live)
        BY ONLY <3>1, JoinInternalTree
      <3> QED
        BY <3>2, <1>9 DEF tops1
    <2> QED
      BY <2>2, <1>4, <1>6, <1>7
  <1> QED
    BY <1>10, <1>11

\* q comes back behind p, from which it was split, at the key s.
Reattaches(N, live, h, rng, a, i, p, q, s, N3, N2) ==
    /\ a \in live /\ ~N[a].isLeaf /\ i \in DOMAIN N[a].children
    /\ p = N[a].children[i] /\ q \in Pages \ live /\ a # p /\ h[q] = h[p]
    /\ s \in AllKeys /\ s \in Int /\ s \in rng[p]
    /\ Beside(p, q, s, AsHigh(h, p, q), CutRange(rng, p, q, s)) /\ N3[a] = N[a]
    /\ live \cup {q} \subseteq DOMAIN N2
    /\ \A x \in (live \cup {q}) \ {a} : N2[x] = N3[x]
    /\ N2[a] = Internal(InsertAt(N[a].keys, i, s), InsertAt(N[a].children, i + 1, q))

\* The right half of a split page, entered in the page above under another key, gives a tree.
LEMMA AttachAgain ==
    ASSUME NEW N, NEW tops, NEW live, NEW h, NEW rng, NEW par,
           IsTree(N, tops, live, h, rng, par),
           NEW a, NEW i, NEW p, NEW q, NEW s, NEW N3, NEW par3,
           IsTree(N3, tops \cup {q}, live \cup {q}, AsHigh(h, p, q), CutRange(rng, p, q, s), par3),
           NEW N2, Reattaches(N, live, h, rng, a, i, p, q, s, N3, N2)
    PROVE  /\ \E rng2, par2 : IsTree(N2, tops, live \cup {q}, h, rng2, par2)
           /\ Stored(N2, live \cup {q}) = Stored(N3, live \cup {q})
  <1> USE DEF Reattaches
  <1> DEFINE rng3 == CutRange(rng, p, q, s)
             tops3 == tops \cup {q}
             live3 == live \cup {q}
  <1>1. TreeOK(N, tops, live, h, rng, par) /\ GhostType(live, h, rng, par)
    BY DEF IsTree
  <1>2. p \in live \ tops /\ p \in Pages /\ a \in Pages /\ h[p] = h[a] - 1
        /\ \A k \in rng[p] : k \in rng[a] /\ IsSlot(N[a].keys, k, i - 1)
    BY <1>1, ChildOf
  <1>3. tops \subseteq live /\ h \in [Pages -> Nat] /\ rng \in [Pages -> SUBSET Int]
    BY <1>1 DEF TreeOK, GhostType
  <1>4. rng3[q] \subseteq rng[p] /\ rng3[a] = rng[a]
    BY <1>2, <1>3 DEF CutRange
  <1>5. AsHigh(h, p, q) = h
    BY <1>2, <1>3 DEF AsHigh
  <1>6. i \in 1 .. Len(N3[a].keys) + 1
    <2>1. N[a] \in Node /\ Len(N[a].children) = Len(N[a].keys) + 1
      BY <1>1, LiveNode
    <2> QED
      BY <2>1, NodeFields
  <1>7. /\ \A k \in rng3[q] : k \in rng3[a] /\ IsSlot(N3[a].keys, k, i - 1)
        /\ s \in rng3[a] /\ IsSlot(N3[a].keys, s, i - 1)
    BY <1>2, <1>4
  <1>8. IsTree(N3, tops3, live3, h, rng3, par3) /\ Beside(p, q, s, h, rng3)
    BY <1>5
  <1>9. q \in tops3 /\ q # a /\ tops3 \ {q} = tops /\ a \in live3
    BY <1>3
  <1> HIDE DEF tops3, live3, rng3
  <1>10. Attaches(N3, tops3, live3, h, rng3, a, i, p, q, s, N2)
    BY <1>6, <1>7, <1>8, <1>9 DEF Attaches, live3
  <1>11. /\ IsTree(N2, tops3 \ {q}, live3, h, rng3, [par3 EXCEPT ![q] = a])
         /\ Stored(N2, live3) = Stored(N3, live3)
    BY <1>8, <1>10, AttachTree
  <1> QED
    BY <1>9, <1>11 DEF live3

\* p and q share anew what they and the key between them hold: m keys are for p, and s is the
\* next, which goes between them.
Shares(N, live, a, i, p, q, M, m, s, next1, next2, N2) ==
    /\ M = MergedNode(N[p], N[q], N[a].keys[i], next1)
    /\ next1 \in Pages \cup {-1} /\ next2 \in Pages \cup {-1}
    /\ m \in 0 .. Len(M.keys) - 1 /\ (M.isLeaf => m \in 1 .. Len(M.keys) - 1)
    /\ s = M.keys[m + 1]
    /\ live \subseteq DOMAIN N2 /\ \A x \in live \ {a, p, q} : N2[x] = N[x]
    /\ N2[a] = Internal([N[a].keys EXCEPT ![i] = s], N[a].children)
    /\ M.isLeaf =>
          /\ N2[p] = Leaf(Take(M.keys, m), Take(M.values, m), next1)
          /\ N2[q] = Leaf(Drop(M.keys, m), Drop(M.values, m), next2)
    /\ ~M.isLeaf =>
          /\ N2[p] = Internal(Take(M.keys, m), Take(M.children, m + 1))
          /\ N2[q] = Internal(Drop(M.keys, m + 1), Drop(M.children, m + 1))

\* Two neighbours that share their entries in another way are a tree that stores the same: a
\* merge, and a split at another place.
LEMMA ShareTree ==
    ASSUME NEW N, NEW tops, NEW live, NEW h, NEW rng, NEW par,
           IsTree(N, tops, live, h, rng, par),
           NEW a, NEW i, NEW p, NEW q, Siblings(N, tops, live, h, a, i, p, q),
           NEW M, NEW m, NEW s, NEW next1, NEW next2, NEW N2,
           Shares(N, live, a, i, p, q, M, m, s, next1, next2, N2)
    PROVE  /\ \E rng2, par2 : IsTree(N2, tops, live, h, rng2, par2)
           /\ Stored(N2, live) = Stored(N, live)
  <1> DEFINE r == N[a].keys[i]
             rest == live \ {q}
             Nb == [x \in live |->
                       IF x = a THEN Internal(RemoveAt(N[a].keys, i),
                           RemoveAt(N[a].children, i + 1))
                       ELSE IF x = p THEN M ELSE N[x]]
             Nc == [x \in live |-> IF x = a THEN Nb[a] ELSE N2[x]]
  <1>1. SiblingFacts(N, tops, live, h, a, p, q, r)
    BY SiblingsAre
  <1>2. /\ p \in live \ tops /\ q \in live \ tops /\ p # q /\ p # a /\ q # a
        /\ p \in Pages /\ q \in Pages /\ a \in Pages
        /\ h[p] = h[a] - 1 /\ h[q] = h[p] /\ (N[p].isLeaf <=> N[q].isLeaf)
        /\ r \in AllKeys /\ r \in Int
    BY <1>1 DEF SiblingFacts
  <1>3. /\ a \in live /\ ~N[a].isLeaf /\ i \in 1 .. Len(N[a].keys)
        /\ p = N[a].children[i] /\ q = N[a].children[i + 1]
    BY DEF Siblings
  <1>4. /\ M = MergedNode(N[p], N[q], N[a].keys[i], next1)
        /\ next1 \in Pages \cup {-1} /\ next2 \in Pages \cup {-1}
        /\ m \in 0 .. Len(M.keys) - 1 /\ (M.isLeaf => m \in 1 .. Len(M.keys) - 1)
        /\ s = M.keys[m + 1]
        /\ live \subseteq DOMAIN N2 /\ \A x \in live \ {a, p, q} : N2[x] = N[x]
        /\ N2[a] = Internal([N[a].keys EXCEPT ![i] = s], N[a].children)
    BY DEF Shares
  <1>5. /\ M.isLeaf =>
              /\ N2[p] = Leaf(Take(M.keys, m), Take(M.values, m), next1)
              /\ N2[q] = Leaf(Drop(M.keys, m), Drop(M.values, m), next2)
        /\ ~M.isLeaf =>
              /\ N2[p] = Internal(Take(M.keys, m), Take(M.children, m + 1))
              /\ N2[q] = Internal(Drop(M.keys, m + 1), Drop(M.children, m + 1))
    BY DEF Shares
  <1>6. /\ Nb[a] = Internal(RemoveAt(N[a].keys, i), RemoveAt(N[a].children, i + 1))
        /\ Nb[p] = M /\ live \subseteq DOMAIN Nb /\ \A x \in live \ {a, p} : Nb[x] = N[x]
    BY <1>2, <1>3
  <1> HIDE DEF Nb
  <1>7. /\ Nc[a] = Nb[a] /\ live \subseteq DOMAIN Nc /\ \A x \in live \ {a} : Nc[x] = N2[x]
    BY <1>3
  <1> HIDE DEF Nc
  <1>8. rest \cup {q} = live /\ p \in rest /\ q \in Pages \ rest /\ a \in rest
      /\ rest \subseteq live
    BY <1>2, <1>3
  <1>9. Merges(N, live, a, i, p, q, next1, Nb)
    BY <1>4, <1>6 DEF Merges
  <1> HIDE DEF rest, r
  <1>10. /\ \E rng2, par2 : IsTree(Nb, tops, live \ {q}, h, rng2, par2)
         /\ Stored(Nb, live \ {q}) = Stored(N, live)
         /\ ~Nb[a].isLeaf /\ Nb[a].children[i] = p /\ i \in DOMAIN Nb[a].children
    BY <1>9, MergeTree
  <1>11. PICK rngb, parb : IsTree(Nb, tops, rest, h, rngb, parb)
    BY ONLY <1>10 DEF rest
  <1>12. /\ Stored(Nb, rest) = Stored(N, live)
         /\ ~Nb[a].isLeaf /\ Nb[a].children[i] = p /\ i \in DOMAIN Nb[a].children
    BY ONLY <1>10 DEF rest
  <1>13. s \in AllKeys /\ s \in Int
    <2>1. TreeOK(Nb, tops, rest, h, rngb, parb)
      BY <1>11 DEF IsTree
    <2>2. M \in Node /\ \A j \in DOMAIN M.keys : M.keys[j] \in AllKeys
      BY <2>1, <1>6, <1>8, LiveNode
    <2>3. m + 1 \in DOMAIN M.keys
      BY ONLY <2>2, <1>4, NodeFields
    <2> QED
      BY <2>2, <2>3, <1>4, KeysAreNumbers
  <1> DEFINE h2 == AsHigh(h, p, q)
             rng2 == CutRange(rngb, p, q, s)
  <1>14. \E par2 : /\ IsTree(Nc, tops \cup {q}, rest \cup {q}, h2, rng2, par2)
                   /\ Beside(p, q, s, h2, rng2) /\ s \in rngb[p]
                   /\ Stored(Nc, rest \cup {q}) = Stored(Nb, rest)
    <2>1. /\ Nc[p] = N2[p] /\ Nc[q] = N2[q]
          /\ rest \cup {q} \subseteq DOMAIN Nc /\ \A x \in rest \ {p} : Nc[x] = Nb[x]
      BY <1>2, <1>4, <1>6, <1>7, <1>8
    <2>2. CASE M.isLeaf
      <3>1. /\ Nc[p] = Leaf(Take(Nb[p].keys, m), Take(Nb[p].values, m), next1)
            /\ Nc[q] = Leaf(Drop(Nb[p].keys, m), Drop(Nb[p].values, m), next2)
            /\ Nb[p].isLeaf /\ m \in 1 .. Len(Nb[p].keys) - 1 /\ s = Nb[p].keys[m + 1]
        BY ONLY <2>1, <2>2, <1>4, <1>5, <1>6
      <3>2. SplitsLeaf(Nb, rest, p, q, m, s, next1, next2, Nc)
        BY ONLY <3>1, <2>1, <1>4, <1>8, <1>13 DEF SplitsLeaf
      <3>3. /\ IsTree(Nc, tops \cup {q}, rest \cup {q}, AsHigh(h, p, q), CutRange(rngb, p, q, s),
               parb)
            /\ Beside(p, q, s, AsHigh(h, p, q), CutRange(rngb, p, q, s)) /\ s \in rngb[p]
            /\ Stored(Nc, rest \cup {q}) = Stored(Nb, rest)
        BY ONLY <3>2, <1>11, SplitLeafTree
      <3> QED
        BY <3>3
    <2>3. CASE ~M.isLeaf
      <3>1. /\ Nc[p] = Internal(Take(Nb[p].keys, m), Take(Nb[p].children, m + 1))
            /\ Nc[q] = Internal(Drop(Nb[p].keys, m + 1), Drop(Nb[p].children, m + 1))
            /\ ~Nb[p].isLeaf /\ m \in 0 .. Len(Nb[p].keys) - 1 /\ s = Nb[p].keys[m + 1]
        BY ONLY <2>1, <2>3, <1>4, <1>5, <1>6
      <3>2. SplitsInternal(Nb, rest, p, q, m, s, Nc)
        BY ONLY <3>1, <2>1, <1>8, <1>13 DEF SplitsInternal
      <3>3. /\ IsTree(Nc, tops \cup {q}, rest \cup {q}, AsHigh(h, p, q), CutRange(rngb, p, q, s),
                      SplitPar(Nb, p, q, m, parb))
            /\ Beside(p, q, s, AsHigh(h, p, q), CutRange(rngb, p, q, s)) /\ s \in rngb[p]
            /\ Stored(Nc, rest \cup {q}) = Stored(Nb, rest)
        BY ONLY <3>2, <1>11, SplitInternalTree
      <3> QED
        BY <3>3
    <2> QED
      BY <2>2, <2>3
  <1> HIDE DEF h2, rng2
  <1>15. PICK par3 : /\ IsTree(Nc, tops \cup {q}, rest \cup {q}, h2, rng2, par3)
                     /\ Beside(p, q, s, h2, rng2) /\ s \in rngb[p]
                     /\ Stored(Nc, rest \cup {q}) = Stored(Nb, rest)
    BY <1>14
  <1>16. N2[a] = Internal(InsertAt(Nb[a].keys, i, s), InsertAt(Nb[a].children, i + 1, q))
    <2>1. /\ N[a].keys \in Seq(Int) /\ N[a].children \in Seq(Pages)
          /\ i + 1 \in 1 .. Len(N[a].children)
      <3>1. TreeOK(N, tops, live, h, rng, par)
        BY DEF IsTree
      <3>2. N[a] \in Node /\ Len(N[a].children) = Len(N[a].keys) + 1
        BY <3>1, <1>3, LiveNode
      <3> QED
        BY <3>2, <1>3, NodeFields
    <2>2. Nb[a].keys = RemoveAt(N[a].keys, i) /\ Nb[a].children = RemoveAt(N[a].children, i + 1)
      BY ONLY <1>6 DEF Internal
    <2>3. [N[a].keys EXCEPT ![i] = s] = InsertAt(Nb[a].keys, i, s)
      <3>1. [N[a].keys EXCEPT ![i] = s] = InsertAt(RemoveAt(N[a].keys, i), i, s)
        <4> DEFINE T == Int
                   keys == N[a].keys
        <4>1. keys \in Seq(T) /\ i \in 1 .. Len(keys) /\ s \in T
          BY ONLY <2>1, <1>3, <1>13
        <4> HIDE DEF T, keys
        <4>2. [keys EXCEPT ![i] = s] = InsertAt(RemoveAt(keys, i), i, s)
          BY ONLY <4>1, ReplacedKey
        <4> QED
          BY ONLY <4>2 DEF keys
      <3> QED
        BY ONLY <3>1, <2>2
    <2>4. [N[a].children EXCEPT ![i + 1] = q] = InsertAt(Nb[a].children, i + 1, q)
      <3>1. [N[a].children EXCEPT ![i + 1] = q] = InsertAt(RemoveAt(N[a].children, i + 1), i + 1, q)
        <4> DEFINE T == Pages
                   cc == N[a].children
        <4>1. cc \in Seq(T) /\ i + 1 \in 1 .. Len(cc) /\ q \in T
          BY ONLY <2>1, <1>2
        <4> HIDE DEF T, cc
        <4>2. [cc EXCEPT ![i + 1] = q] = InsertAt(RemoveAt(cc, i + 1), i + 1, q)
          BY ONLY <4>1, ReplacedKey
        <4> QED
          BY ONLY <4>2 DEF cc
      <3> QED
        BY ONLY <3>1, <2>2
    <2>5. [N[a].children EXCEPT ![i + 1] = q] = N[a].children
      BY ONLY <2>1, <1>3
    <2> QED
      BY <2>3, <2>4, <2>5, <1>4
  <1>17. /\ \E rng3, par2 : IsTree(N2, tops, rest \cup {q}, h, rng3, par2)
         /\ Stored(N2, rest \cup {q}) = Stored(Nc, rest \cup {q})
    <2>1. rest \cup {q} \subseteq DOMAIN N2 /\ Nc[a] = Nb[a]
      BY <1>4, <1>7, <1>8
    <2>2. \A x \in (rest \cup {q}) \ {a} : N2[x] = Nc[x]
      BY <1>7, <1>8
    <2>3. /\ IsTree(Nc, tops \cup {q}, rest \cup {q}, AsHigh(h, p, q), CutRange(rngb, p, q, s),
             par3)
          /\ Beside(p, q, s, AsHigh(h, p, q), CutRange(rngb, p, q, s)) /\ s \in rngb[p]
      BY <1>15 DEF h2, rng2
    <2>4. a \in rest /\ ~Nb[a].isLeaf /\ i \in DOMAIN Nb[a].children /\ p = Nb[a].children[i]
          /\ q \in Pages \ rest /\ a # p /\ h[q] = h[p]
      BY <1>2, <1>8, <1>12
    <2> QED
      <3>1. Reattaches(Nb, rest, h, rngb, a, i, p, q, s, Nc, N2)
        BY ONLY <2>1, <2>2, <2>3, <2>4, <1>13, <1>16 DEF Reattaches
      <3> QED
        BY ONLY <3>1, <2>3, <1>11, AttachAgain
  <1> QED
    BY <1>8, <1>12, <1>15, <1>17

\* The ends of two sequences that share their elements anew.
LEMMA TakeOfConcat ==
    ASSUME NEW T, NEW a \in Seq(T), NEW b \in Seq(T)
    PROVE  /\ Take(a \o b, Len(a)) = a
           /\ a # <<>> => Take(a \o b, Len(a) - 1) = Front(a)
           /\ b # <<>> => Take(a \o b, Len(a) + 1) = Append(a, Head(b))
  <1>1. /\ a \o b \in Seq(T) /\ Len(a \o b) = Len(a) + Len(b) /\ Len(a) \in Nat /\ Len(b) \in Nat
        /\ \A j \in 1 .. Len(a) + Len(b) : (a \o b)[j] = IF j <= Len(a) THEN a[j] ELSE b[j - Len(a)]
    BY ConcatProperties
  <1> DEFINE ab == a \o b
  <1> HIDE DEF ab
  <1>2. Take(ab, Len(a)) = a
    <2>1. /\ Take(ab, Len(a)) \in Seq(T) /\ Len(Take(ab, Len(a))) = Len(a)
          /\ \A j \in 1 .. Len(a) : Take(ab, Len(a))[j] = ab[j]
      <3>1. ab \in Seq(T) /\ Len(a) \in 0 .. Len(ab)
        BY <1>1 DEF ab
      <3> QED
        BY <3>1, TakeEffect
    <2>2. \A j \in 1 .. Len(a) : ab[j] = a[j]
      BY <1>1 DEF ab
    <2> QED
      BY <2>1, <2>2, SeqEqual
  <1>3. ASSUME a # <<>> PROVE Take(ab, Len(a) - 1) = Front(a)
    <2>1. Len(a) - 1 \in 0 .. Len(ab) /\ Len(a) - 1 \in 0 .. Len(a)
      BY <1>1, <1>3, EmptySeq DEF ab
    <2>2. /\ Take(ab, Len(a) - 1) \in Seq(T) /\ Len(Take(ab, Len(a) - 1)) = Len(a) - 1
          /\ \A j \in 1 .. Len(a) - 1 : Take(ab, Len(a) - 1)[j] = ab[j]
      BY <1>1, <2>1, TakeEffect DEF ab
    <2>3. /\ Take(a, Len(a) - 1) \in Seq(T) /\ Len(Take(a, Len(a) - 1)) = Len(a) - 1
          /\ \A j \in 1 .. Len(a) - 1 : Take(a, Len(a) - 1)[j] = a[j]
      BY <2>1, TakeEffect
    <2>4. \A j \in 1 .. Len(a) - 1 : ab[j] = a[j]
      BY <1>1 DEF ab
    <2>5. Take(a, Len(a) - 1) = Front(a)
      BY DEF Take, Front
    <2> QED
      BY <2>2, <2>3, <2>4, <2>5, SeqEqual
  <1>4. ASSUME b # <<>> PROVE Take(ab, Len(a) + 1) = Append(a, Head(b))
    <2>1. Len(a) + 1 \in 0 .. Len(ab) /\ Len(b) >= 1
      BY <1>1, <1>4, EmptySeq DEF ab
    <2>2. /\ Take(ab, Len(a) + 1) \in Seq(T) /\ Len(Take(ab, Len(a) + 1)) = Len(a) + 1
          /\ \A j \in 1 .. Len(a) + 1 : Take(ab, Len(a) + 1)[j] = ab[j]
      BY <1>1, <2>1, TakeEffect DEF ab
    <2>3. Head(b) \in T /\ Head(b) = b[1]
      BY <1>4, HeadTailProperties
    <2>4. /\ Append(a, Head(b)) \in Seq(T) /\ Len(Append(a, Head(b))) = Len(a) + 1
          /\ \A j \in 1 .. Len(a) : Append(a, Head(b))[j] = a[j]
          /\ Append(a, Head(b))[Len(a) + 1] = Head(b)
      BY <2>3, AppendProperties
    <2>5. /\ \A j \in 1 .. Len(a) : ab[j] = a[j]
          /\ ab[Len(a) + 1] = b[1]
      BY <1>1, <2>1 DEF ab
    <2>6. \A j \in 1 .. Len(a) + 1 : j \in 1 .. Len(a) \/ j = Len(a) + 1
      BY <1>1
    <2>7. \A j \in 1 .. Len(a) + 1 : Take(ab, Len(a) + 1)[j] = Append(a, Head(b))[j]
      BY <2>2, <2>3, <2>4, <2>5, <2>6
    <2> QED
      BY <2>2, <2>4, <2>7, SeqEqual
  <1> QED
    BY <1>2, <1>3, <1>4 DEF ab

\* What is behind the last element of a, or behind the first of b.
LEMMA DropOfConcat ==
    ASSUME NEW T, NEW a \in Seq(T), NEW b \in Seq(T)
    PROVE  /\ a # <<>> => Drop(a \o b, Len(a) - 1) = <<Last(a)>> \o b
           /\ b # <<>> => Drop(a \o b, Len(a) + 1) = Tail(b)
  <1>1. /\ a \o b \in Seq(T) /\ Len(a \o b) = Len(a) + Len(b) /\ Len(a) \in Nat /\ Len(b) \in Nat
        /\ \A j \in 1 .. Len(a) + Len(b) : (a \o b)[j] = IF j <= Len(a) THEN a[j] ELSE b[j - Len(a)]
    BY ConcatProperties
  <1> DEFINE ab == a \o b
  <1> HIDE DEF ab
  <1>2. ASSUME a # <<>> PROVE Drop(ab, Len(a) - 1) = <<Last(a)>> \o b
    <2>1. Len(a) - 1 \in 0 .. Len(ab) /\ Len(ab) - (Len(a) - 1) = Len(b) + 1
        /\ Len(a) \in 1 .. Len(a)
      BY <1>1, <1>2, EmptySeq DEF ab
    <2>2. /\ Drop(ab, Len(a) - 1) \in Seq(T) /\ Len(Drop(ab, Len(a) - 1)) = Len(b) + 1
          /\ \A j \in 1 .. Len(b) + 1 : Drop(ab, Len(a) - 1)[j] = ab[j + (Len(a) - 1)]
      <3> DEFINE n == Len(a) - 1
      <3>1. ab \in Seq(T) /\ n \in 0 .. Len(ab) /\ Len(ab) - n = Len(b) + 1
        BY <1>1, <2>1 DEF ab
      <3> HIDE DEF n
      <3>2. /\ Drop(ab, n) \in Seq(T) /\ Len(Drop(ab, n)) = Len(ab) - n
            /\ \A j \in 1 .. Len(ab) - n : Drop(ab, n)[j] = ab[j + n]
        BY <3>1, DropEffect
      <3> QED
        BY <3>1, <3>2 DEF n
    <2>3. Last(a) \in T /\ Last(a) = a[Len(a)]
      BY <2>1 DEF Last
    <2>4. /\ <<Last(a)>> \o b \in Seq(T) /\ Len(<<Last(a)>> \o b) = Len(b) + 1
          /\ \A j \in 1 .. Len(b) + 1 :
                (<<Last(a)>> \o b)[j] = IF j <= 1 THEN <<Last(a)>>[j] ELSE b[j - 1]
      <3>1. <<Last(a)>> \in Seq(T) /\ Len(<<Last(a)>>) = 1
        BY <2>3
      <3> DEFINE l == <<Last(a)>>
      <3> HIDE DEF l
      <3>2. /\ l \o b \in Seq(T) /\ Len(l \o b) = Len(l) + Len(b)
            /\ \A j \in 1 .. Len(l) + Len(b) : (l \o b)[j]
                = IF j <= Len(l) THEN l[j] ELSE b[j - Len(l)]
        BY <3>1, ConcatProperties DEF l
      <3> QED
        BY <3>1, <3>2, <1>1 DEF l
    <2>5. ASSUME NEW j \in 1 .. Len(b) + 1
          PROVE  ab[j + (Len(a) - 1)] = IF j <= 1 THEN <<Last(a)>>[j] ELSE b[j - 1]
      <3>1. /\ j + (Len(a) - 1) \in 1 .. Len(a) + Len(b)
            /\ j <= 1 => j = 1 /\ j + (Len(a) - 1) = Len(a)
            /\ ~(j <= 1) => ~(j + (Len(a) - 1) <= Len(a)) /\ j + (Len(a) - 1) - Len(a) = j - 1
        BY <1>1, <2>1
      <3> DEFINE l == j + (Len(a) - 1)
      <3> HIDE DEF l
      <3>2. ab[l] = IF l <= Len(a) THEN a[l] ELSE b[l - Len(a)]
        BY <1>1, <3>1 DEF ab, l
      <3>3. j <= 1 => ab[l] = a[Len(a)] /\ <<Last(a)>>[j] = Last(a)
        BY <3>1, <3>2, <1>1 DEF l
      <3>4. ~(j <= 1) => ab[l] = b[j - 1]
        BY <3>1, <3>2, <1>1 DEF l
      <3> QED
        BY <3>3, <3>4, <2>3 DEF l
    <2>6. \A j \in 1 .. Len(b) + 1 : Drop(ab, Len(a) - 1)[j] = (<<Last(a)>> \o b)[j]
      BY <2>2, <2>4, <2>5
    <2> QED
      BY <2>2, <2>4, <2>6, SeqEqual
  <1>3. ASSUME b # <<>> PROVE Drop(ab, Len(a) + 1) = Tail(b)
    <2>1. /\ Len(a) + 1 \in 0 .. Len(ab) /\ Len(ab) - (Len(a) + 1) = Len(b) - 1
          /\ Len(b) - 1 \in Nat
      BY <1>1, <1>3, EmptySeq DEF ab
    <2>2. /\ Drop(ab, Len(a) + 1) \in Seq(T) /\ Len(Drop(ab, Len(a) + 1)) = Len(b) - 1
          /\ \A j \in 1 .. Len(b) - 1 : Drop(ab, Len(a) + 1)[j] = ab[j + (Len(a) + 1)]
      <3> DEFINE n == Len(a) + 1
      <3>1. ab \in Seq(T) /\ n \in 0 .. Len(ab) /\ Len(ab) - n = Len(b) - 1
        BY <1>1, <2>1 DEF ab
      <3> HIDE DEF n
      <3>2. /\ Drop(ab, n) \in Seq(T) /\ Len(Drop(ab, n)) = Len(ab) - n
            /\ \A j \in 1 .. Len(ab) - n : Drop(ab, n)[j] = ab[j + n]
        BY <3>1, DropEffect
      <3> QED
        BY <3>1, <3>2 DEF n
    <2>3. /\ Tail(b) \in Seq(T) /\ Len(Tail(b)) = Len(b) - 1
          /\ \A j \in 1 .. Len(b) - 1 : Tail(b)[j] = b[j + 1]
      BY <1>3, HeadTailProperties
    <2>4. ASSUME NEW j \in 1 .. Len(b) - 1 PROVE ab[j + (Len(a) + 1)] = b[j + 1]
      <3>1. /\ j + (Len(a) + 1) \in 1 .. Len(a) + Len(b) /\ ~(j + (Len(a) + 1) <= Len(a))
            /\ j + (Len(a) + 1) - Len(a) = j + 1
        BY <1>1, <2>1
      <3> QED
        BY <1>1, <3>1 DEF ab
    <2>5. \A j \in 1 .. Len(b) - 1 : Drop(ab, Len(a) + 1)[j] = Tail(b)[j]
      BY <2>2, <2>3, <2>4
    <2> QED
      BY <2>2, <2>3, <2>5, SeqEqual
  <1> QED
    BY <1>2, <1>3 DEF ab

\* The keys of two neighbours when one key moves to the right, and when one moves to the left.
\* An element in front of a sequence.
Pushed(e, s) == <<e>> \o s

\* Where the keys of two nodes are cut when the left, or the right, one lends its neighbour an
\* entry.
LeftLends(T, a, b, r, m) ==
    a \in Seq(T) /\ b \in Seq(T) /\ r \in T /\ Len(a) > 1 /\ m = Len(a) - 1

RightLends(T, a, b, r, m) ==
    a \in Seq(T) /\ b \in Seq(T) /\ r \in T /\ Len(b) > 1 /\ m = Len(a) + 1

\* The two parts when the left one lends.
LEMMA LentFromLeft ==
    ASSUME NEW T, NEW a, NEW b, NEW r, NEW m, LeftLends(T, a, b, r, m)
    PROVE  /\ m \in 0 .. Len(a \o b) - 1 /\ m \in 1 .. Len(a \o b) - 1 /\ (a \o b)[m + 1] = Last(a)
           /\ Take(a \o b, m) = Front(a) /\ Drop(a \o b, m) = Pushed(Last(a), b)
           /\ Last(a) \in T /\ Len(Front(a)) = Len(a) - 1
           /\ Len(Pushed(Last(a), b)) = Len(b) + 1 /\ Len(Pushed(r, b)) = Len(b) + 1
           /\ m \in 0 .. Len(Append(a, r) \o b) - 1 /\ (Append(a, r) \o b)[m + 1] = Last(a)
           /\ Take(Append(a, r) \o b, m) = Front(a) /\ Drop(Append(a, r) \o b, m + 1) = Pushed(r, b)
  <1> USE DEF LeftLends
  <1>1. /\ Len(a) \in Nat /\ Len(b) \in Nat /\ a # <<>>
        /\ Len(a) \in 1 .. Len(a) /\ m \in 0 .. Len(a) /\ m + 1 = Len(a) /\ m >= 1
    BY EmptySeq
  <1>2. Last(a) \in T /\ Last(a) = a[Len(a)]
    BY <1>1 DEF Last
  <1>3. Len(Front(a)) = Len(a) - 1
    <2>1. Front(a) = Take(a, m)
      BY DEF Front, Take
    <2>2. Len(Take(a, m)) = m
      BY <1>1, TakeEffect
    <2> QED
      BY <2>1, <2>2
  <1>4. \A e \in T : <<e>> \o b \in Seq(T) /\ Len(<<e>> \o b) = Len(b) + 1
    <2> SUFFICES ASSUME NEW e \in T PROVE <<e>> \o b \in Seq(T) /\ Len(<<e>> \o b) = Len(b) + 1
      OBVIOUS
    <2>1. <<e>> \in Seq(T) /\ Len(<<e>>) = 1
      OBVIOUS
    <2> QED
      BY ONLY <2>1, <1>1, ConcatProperties, b \in Seq(T)
  <1>5. ASSUME NEW c \in Seq(T)
        PROVE  /\ Len(a \o c) = Len(a) + Len(c) /\ Len(c) \in Nat
               /\ (a \o c)[m + 1] = Last(a) /\ Take(a \o c, m) = Front(a)
    <2>1. /\ Len(c) \in Nat /\ Len(a \o c) = Len(a) + Len(c)
          /\ \A j \in 1 .. Len(a) + Len(c) : (a \o c)[j]
              = IF j <= Len(a) THEN a[j] ELSE c[j - Len(a)]
      BY ConcatProperties
    <2>2. Len(a) \in 1 .. Len(a) + Len(c)
      BY <1>1, <2>1
    <2>3. (a \o c)[Len(a)] = a[Len(a)]
      BY <1>1, <2>1, <2>2
    <2>4. Take(a \o c, Len(a) - 1) = Front(a)
      BY <1>1, TakeOfConcat
    <2> QED
      BY <1>1, <1>2, <2>1, <2>3, <2>4
  <1>6. m \in 0 .. Len(a \o b) - 1 /\ m \in 1 .. Len(a \o b) - 1
    BY <1>1, <1>5
  <1>7. Drop(a \o b, m) = <<Last(a)>> \o b
    BY <1>1, DropOfConcat
  <1>8. Append(a, r) \o b = a \o (<<r>> \o b)
    <2>1. <<r>> \in Seq(T) /\ Append(a, r) = a \o <<r>>
      BY AppendIsConcat
    <2> QED
      BY <2>1, ConcatAssociative
  <1>9. Drop(Append(a, r) \o b, m + 1) = <<r>> \o b
    <2>1. Append(a, r) \in Seq(T) /\ Append(a, r) # <<>> /\ Len(Append(a, r)) = Len(a) + 1
          /\ Append(a, r)[Len(a) + 1] = r
      BY AppendProperties
    <2>2. Last(Append(a, r)) = r /\ Len(Append(a, r)) - 1 = m + 1
      BY <2>1, <1>1 DEF Last
    <2> DEFINE ar == Append(a, r)
    <2> HIDE DEF ar
    <2>3. ar \in Seq(T) /\ ar # <<>>
      BY <2>1 DEF ar
    <2>4. Drop(ar \o b, Len(ar) - 1) = <<Last(ar)>> \o b
      BY <2>3, DropOfConcat
    <2> QED
      BY <2>2, <2>4 DEF ar
  <1> DEFINE rb == <<r>> \o b
  <1> HIDE DEF rb
  <1>10. rb \in Seq(T)
    BY <1>4 DEF rb
  <1>11. m \in 0 .. Len(a \o rb) - 1 /\ (a \o rb)[m + 1] = Last(a) /\ Take(a \o rb, m) = Front(a)
    BY <1>1, <1>5, <1>10
  <1> QED
    BY <1>2, <1>3, <1>4, <1>5, <1>6, <1>7, <1>8, <1>9, <1>11 DEF rb, Pushed

\* The two parts when the right one lends.
LEMMA LentFromRight ==
    ASSUME NEW T, NEW a, NEW b, NEW r, NEW m, RightLends(T, a, b, r, m)
    PROVE  /\ m \in 0 .. Len(a \o b) - 1 /\ m \in 1 .. Len(a \o b) - 1 /\ (a \o b)[m + 1] = b[2]
           /\ Take(a \o b, m) = Append(a, Head(b)) /\ Drop(a \o b, m) = Tail(b)
           /\ Head(b) \in T /\ b[2] \in T /\ Len(Tail(b)) = Len(b) - 1
           /\ Len(Append(a, Head(b))) = Len(a) + 1 /\ Len(Append(a, r)) = Len(a) + 1
           /\ m \in 0 .. Len(Append(a, r) \o b) - 1 /\ (Append(a, r) \o b)[m + 1] = Head(b)
           /\ Take(Append(a, r) \o b, m) = Append(a, r) /\ Drop(Append(a, r) \o b, m + 1) = Tail(b)
  <1> USE DEF RightLends
  <1>1. /\ Len(a) \in Nat /\ Len(b) \in Nat /\ b # <<>> /\ Len(b) >= 2 /\ 1 \in 1 .. Len(b)
        /\ 2 \in 1 .. Len(b)
    BY EmptySeq
  <1>2. Head(b) = b[1] /\ Head(b) \in T /\ b[2] \in T /\ Len(Tail(b)) = Len(b) - 1
    BY <1>1, HeadTailProperties
  <1>3. \A e \in T : Append(a, e) \in Seq(T) /\ Len(Append(a, e)) = Len(a) + 1
    BY AppendProperties
  <1>4. ASSUME NEW c \in Seq(T)
        PROVE  /\ Len(c \o b) = Len(c) + Len(b) /\ Len(c) \in Nat
               /\ (c \o b)[Len(c) + 1] = b[1] /\ (c \o b)[Len(c) + 2] = b[2]
               /\ Take(c \o b, Len(c)) = c /\ Drop(c \o b, Len(c) + 1) = Tail(b)
    <2>1. /\ Len(c) \in Nat /\ Len(c \o b) = Len(c) + Len(b)
          /\ \A j \in 1 .. Len(c) + Len(b) : (c \o b)[j]
              = IF j <= Len(c) THEN c[j] ELSE b[j - Len(c)]
      BY ConcatProperties
    <2>2. /\ Len(c) + 1 \in 1 .. Len(c) + Len(b) /\ ~(Len(c) + 1 <= Len(c))
             /\ Len(c) + 1 - Len(c) = 1
          /\ Len(c) + 2 \in 1 .. Len(c) + Len(b) /\ ~(Len(c) + 2 <= Len(c))
              /\ Len(c) + 2 - Len(c) = 2
      BY <1>1, <2>1
    <2>3. (c \o b)[Len(c) + 1] = b[1] /\ (c \o b)[Len(c) + 2] = b[2]
      BY <2>1, <2>2
    <2>4. Take(c \o b, Len(c)) = c /\ Drop(c \o b, Len(c) + 1) = Tail(b)
      BY <1>1, TakeOfConcat, DropOfConcat
    <2> QED
      BY <2>1, <2>3, <2>4
  <1>5. Take(a \o b, Len(a) + 1) = Append(a, Head(b))
    BY <1>1, TakeOfConcat
  <1>6. m + 1 = Len(a) + 2
    BY <1>1
  <1>7. /\ m \in 0 .. Len(a \o b) - 1 /\ m \in 1 .. Len(a \o b) - 1 /\ (a \o b)[m + 1] = b[2]
        /\ Take(a \o b, m) = Append(a, Head(b)) /\ Drop(a \o b, m) = Tail(b)
    BY <1>1, <1>4, <1>5, <1>6
  <1> DEFINE ar == Append(a, r)
  <1> HIDE DEF ar
  <1>8. ar \in Seq(T) /\ Len(ar) = m
    BY <1>3 DEF ar
  <1>9. /\ m \in 0 .. Len(ar \o b) - 1 /\ (ar \o b)[m + 1] = Head(b)
        /\ Take(ar \o b, m) = ar /\ Drop(ar \o b, m + 1) = Tail(b)
    <2>1. /\ Len(ar \o b) = Len(ar) + Len(b)
          /\ (ar \o b)[Len(ar) + 1] = b[1]
          /\ Take(ar \o b, Len(ar)) = ar /\ Drop(ar \o b, Len(ar) + 1) = Tail(b)
      BY <1>4, <1>8
    <2>2. m \in 0 .. m + Len(b) - 1
      BY <1>1
    <2> QED
      BY <1>2, <1>8, <2>1, <2>2
  <1> QED
    BY <1>2, <1>3, <1>7, <1>9 DEF ar

\* A node has the fields of a leaf or those of an internal node.
Shape(n) ==
    IF n.isLeaf THEN n = Leaf(n.keys, n.values, n.nextLeaf) ELSE n = Internal(n.keys, n.children)

\* A node with all its fields, and with some of them changed.
NodeOf(b, keys, values, children, next) ==
    [isLeaf |-> b, keys |-> keys, values |-> values, children |-> children, nextLeaf |-> next]

\* A node with other entries, and one with another key or value.
WithEntries(n, ks, vs) == [n EXCEPT !.keys = ks, !.values = vs]
WithKey(n, j, k) == [n EXCEPT !.keys[j] = k]
WithValue(n, j, v) == [n EXCEPT !.values[j] = v]

\* What these give.
LEMMA NodeUpdates ==
    ASSUME NEW b, NEW keys, NEW values, NEW children, NEW next,
           NEW n, n = NodeOf(b, keys, values, children, next)
    PROVE  /\ \A ks, vs : WithEntries(n, ks, vs) = NodeOf(b, ks, vs, children, next)
           /\ \A j, k : WithKey(n, j, k) = NodeOf(b, [keys EXCEPT ![j] = k], values, children, next)
           /\ \A j, v : WithValue(n, j, v)
               = NodeOf(b, keys, [values EXCEPT ![j] = v], children, next)
  <1> DEFINE fields == {"isLeaf", "keys", "values", "children", "nextLeaf"}
  <1>1. n = [f \in fields |-> n[f]]
    BY DEF NodeOf
  <1>2. ASSUME NEW ks, NEW vs PROVE WithEntries(n, ks, vs) = NodeOf(b, ks, vs, children, next)
    <2> DEFINE e == [n EXCEPT !.keys = ks, !.values = vs]
    <2>1. e = [f \in fields |-> IF f = "values" THEN vs ELSE IF f = "keys" THEN ks ELSE n[f]]
      BY <1>1
    <2> QED
      BY <2>1 DEF NodeOf, WithEntries
  <1>3. ASSUME NEW j, NEW k
        PROVE  WithKey(n, j, k) = NodeOf(b, [keys EXCEPT ![j] = k], values, children, next)
    BY DEF NodeOf, WithKey
  <1>4. ASSUME NEW j, NEW v
        PROVE  WithValue(n, j, v) = NodeOf(b, keys, [values EXCEPT ![j] = v], children, next)
    BY DEF NodeOf, WithValue
  <1> QED
    BY <1>2, <1>3, <1>4

\* What SetKey and borrowing make of nodes of that shape.
LEMMA SetKeyIs ==
    ASSUME NEW n, ~n.isLeaf, Shape(n), NEW i \in Nat, NEW k
    PROVE  /\ SetKey(n, i - 1, k) = Internal([n.keys EXCEPT ![i] = k], n.children)
           /\ SetKey(n, i, k) = Internal([n.keys EXCEPT ![i + 1] = k], n.children)
  <1> DEFINE b == n.isLeaf
             keys == n.keys
             children == n.children
  <1>1. n = NodeOf(b, keys, <<>>, children, -1)
    BY DEF Shape, Internal, NodeOf
  <1> HIDE DEF b, keys, children
  <1>2. \A j : WithKey(n, j, k) = NodeOf(b, [keys EXCEPT ![j] = k], <<>>, children, -1)
    BY ONLY <1>1, NodeUpdates
  <1>3. SetKey(n, i - 1, k) = WithKey(n, i, k)
    <2>1. i - 1 + 1 = i
      OBVIOUS
    <2> QED
      BY <2>1 DEF SetKey, WithKey
  <1>4. SetKey(n, i, k) = WithKey(n, i + 1, k)
    BY DEF SetKey, WithKey
  <1> QED
    <2>1. b = FALSE
      BY DEF Shape, Internal, b
    <2>2. \A ks : NodeOf(b, ks, <<>>, children, -1) = Internal(ks, children)
      BY ONLY <2>1 DEF Internal, NodeOf
    <2>3. /\ SetKey(n, i - 1, k) = Internal([keys EXCEPT ![i] = k], children)
          /\ SetKey(n, i, k) = Internal([keys EXCEPT ![i + 1] = k], children)
      BY ONLY <1>2, <1>3, <1>4, <2>2
    <2> QED
      BY <2>3 DEF keys, children

\* A leaf with other entries is a leaf.
LEMMA LentLeafIs ==
    ASSUME NEW n, n.isLeaf, Shape(n), NEW ks, NEW vs
    PROVE  WithEntries(n, ks, vs) = Leaf(ks, vs, n.nextLeaf)
  <1> DEFINE b == n.isLeaf
             keys == n.keys
             values == n.values
             next == n.nextLeaf
  <1>1. n = NodeOf(b, keys, values, <<>>, next)
    BY DEF Shape, Leaf, NodeOf
  <1> HIDE DEF b, keys, values, next
  <1>2. WithEntries(n, ks, vs) = NodeOf(b, ks, vs, <<>>, next)
    BY ONLY <1>1, NodeUpdates
  <1> QED
    BY <1>2 DEF b, next, Leaf, NodeOf

\* The sibling and the child that fixUnderflow looks at.
Neighbours(sibling, child, n) ==
    /\ ~Parent.isLeaf /\ Shape(Parent) /\ n \in Nat
    /\ Shape(sibling) /\ Shape(child) /\ (sibling.isLeaf <=> child.isLeaf)

\* What borrowFromLeft makes of them.
LEMMA LentLeftIs ==
    ASSUME NEW n, NEW left, NEW child, Neighbours(left, child, n),
           NEW lent, lent = LentLeft(left, child, n)
    PROVE  /\ lent.parent = Internal([Parent.keys EXCEPT ![n] = Last(left.keys)], Parent.children)
           /\ child.isLeaf =>
                 /\ lent.left = Leaf(Front(left.keys), Front(left.values), left.nextLeaf)
                 /\ lent.child = Leaf(<<Last(left.keys)>> \o child.keys,
                                      <<Last(left.values)>> \o child.values, child.nextLeaf)
           /\ ~child.isLeaf =>
                 /\ lent.left = Internal(Front(left.keys), Front(left.children))
                 /\ lent.child = Internal(<<Parent.keys[n]>> \o child.keys,
                                          <<Last(left.children)>> \o child.children)
  <1> USE DEF Neighbours
  <1>1. SetKey(Parent, n - 1, Last(left.keys))
           = Internal([Parent.keys EXCEPT ![n] = Last(left.keys)], Parent.children)
    BY SetKeyIs
  <1>2. CASE child.isLeaf
    <2>1. /\ WithEntries(left, Front(left.keys), Front(left.values))
                = Leaf(Front(left.keys), Front(left.values), left.nextLeaf)
          /\ WithEntries(child, <<Last(left.keys)>> \o child.keys,
              <<Last(left.values)>> \o child.values)
                = Leaf(<<Last(left.keys)>> \o child.keys, <<Last(left.values)>> \o child.values,
                       child.nextLeaf)
      BY <1>2, LentLeafIs
    <2> QED
      BY <1>1, <1>2, <2>1 DEF LentLeft, WithEntries
  <1>3. CASE ~child.isLeaf
    BY <1>1, <1>3 DEF LentLeft, WithEntries
  <1> QED
    BY <1>2, <1>3

\* What borrowFromRight makes of them.
LentRightAre(lent, right, child, n) ==
    /\ child.isLeaf =>
          /\ lent.right = Leaf(Tail(right.keys), Tail(right.values), right.nextLeaf)
          /\ lent.child = Leaf(Append(child.keys, Head(right.keys)),
                               Append(child.values, Head(right.values)), child.nextLeaf)
          /\ lent.parent = Internal([Parent.keys EXCEPT ![n + 1] = right.keys[2]],
                                    Parent.children)
    /\ ~child.isLeaf =>
          /\ lent.right = Internal(Tail(right.keys), Tail(right.children))
          /\ lent.child = Internal(Append(child.keys, Parent.keys[n + 1]),
                                   Append(child.children, Head(right.children)))
          /\ lent.parent = Internal([Parent.keys EXCEPT ![n + 1] = Head(right.keys)],
                                    Parent.children)

\* LentRight is that.
LEMMA LentRightIs ==
    ASSUME NEW n, NEW right, NEW child, Neighbours(right, child, n),
           NEW lent, lent = LentRight(child, right, n)
    PROVE  LentRightAre(lent, right, child, n)
  <1> USE DEF Neighbours, LentRightAre
  <1>1. \A k : SetKey(Parent, n, k) = Internal([Parent.keys EXCEPT ![n + 1] = k], Parent.children)
    BY SetKeyIs
  <1>2. CASE child.isLeaf
    <2>1. /\ WithEntries(right, Tail(right.keys), Tail(right.values))
                = Leaf(Tail(right.keys), Tail(right.values), right.nextLeaf)
          /\ WithEntries(child, Append(child.keys, Head(right.keys)),
                         Append(child.values, Head(right.values)))
                = Leaf(Append(child.keys, Head(right.keys)),
                    Append(child.values, Head(right.values)),
                       child.nextLeaf)
      BY <1>2, LentLeafIs
    <2> QED
      BY <1>1, <1>2, <2>1 DEF LentRight, WithEntries
  <1>3. CASE ~child.isLeaf
    BY <1>1, <1>3 DEF LentRight, WithEntries
  <1> QED
    BY <1>2, <1>3

\* Two siblings p and q below the caller, and the changed pages N2.
Lends(live, a, i, p, q, N2) ==
    /\ a = Caller.page /\ i \in Nat
    /\ Shape(nodes[a]) /\ Shape(nodes[p]) /\ Shape(nodes[q])
    /\ live \subseteq DOMAIN N2 /\ \A x \in live \ {a, p, q} : N2[x] = nodes[x]

\* Leaf and Internal have the shape of nodes.
LEMMA ShapeOf ==
    ASSUME NEW keys, NEW values, NEW children, NEW next
    PROVE  /\ Shape(Leaf(keys, values, next)) /\ Leaf(keys, values, next).isLeaf
           /\ Shape(Internal(keys, children)) /\ ~Internal(keys, children).isLeaf
  BY DEF Shape, Leaf, Internal

\* What the nodes of two neighbours are made of.
LEMMA SiblingNodes ==
    ASSUME NEW N, NEW tops, NEW live, NEW h, NEW rng, NEW par,
           IsTree(N, tops, live, h, rng, par),
           NEW a, NEW i, NEW p, NEW q, Siblings(N, tops, live, h, a, i, p, q)
    PROVE  /\ \A x \in {p, q} :
                 /\ N[x].keys \in Seq(Int) /\ N[x].values \in Seq(Values)
                 /\ N[x].children \in Seq(Pages) /\ N[x].nextLeaf \in Pages \cup {-1}
                 /\ Len(N[x].keys) \in Nat
                 /\ N[x].isLeaf => Len(N[x].values) = Len(N[x].keys)
                 /\ ~N[x].isLeaf => Len(N[x].children) = Len(N[x].keys) + 1
           /\ N[p].isLeaf <=> N[q].isLeaf
           /\ a \in live /\ ~N[a].isLeaf /\ i \in 1 .. Len(N[a].keys) /\ N[a].keys[i] \in Int
  <1>1. SiblingFacts(N, tops, live, h, a, p, q, N[a].keys[i])
    BY SiblingsAre
  <1>2. \A x \in {p, q} : x \in live
    BY <1>1 DEF SiblingFacts
  <1>3. TreeOK(N, tops, live, h, rng, par)
    BY DEF IsTree
  <1>4. \A x \in {p, q} : /\ N[x] \in Node
                          /\ N[x].isLeaf => Len(N[x].values) = Len(N[x].keys)
                          /\ ~N[x].isLeaf => Len(N[x].children) = Len(N[x].keys) + 1
    BY <1>2, <1>3, LiveNode
  <1>5. \A x \in {p, q} : /\ N[x].keys \in Seq(Int) /\ N[x].values \in Seq(Values)
                          /\ N[x].children \in Seq(Pages) /\ N[x].nextLeaf \in Pages \cup {-1}
                          /\ Len(N[x].keys) \in Nat
    BY <1>4, NodeFields
  <1> QED
    BY <1>1, <1>4, <1>5 DEF SiblingFacts, Siblings

\* borrowFromLeft lets two neighbours share their entries in another way.
LEMMA LentLeftShares ==
    ASSUME NEW tops, NEW live, NEW h, NEW rng, NEW par,
           IsTree(nodes, tops, live, h, rng, par),
           NEW a, NEW i, NEW p, NEW q, Siblings(nodes, tops, live, h, a, i, p, q),
           NEW N2, Lends(live, a, i, p, q, N2), Len(nodes[p].keys) > 1,
           NEW lent, lent = LentLeft(nodes[p], nodes[q], i),
           N2[p] = lent.left, N2[q] = lent.child, N2[a] = lent.parent
    PROVE  /\ Shares(nodes, live, a, i, p, q,
                     MergedNode(nodes[p], nodes[q], nodes[a].keys[i], nodes[p].nextLeaf),
                     Len(nodes[p].keys) - 1, Last(nodes[p].keys), nodes[p].nextLeaf,
                     nodes[q].nextLeaf, N2)
           /\ \A x \in {a, p, q} : Shape(N2[x]) /\ (N2[x].isLeaf <=> nodes[x].isLeaf)
           /\ N2[a].children = nodes[a].children /\ Len(N2[a].keys) = Len(nodes[a].keys)
           /\ Len(N2[p].keys) = Len(nodes[p].keys) - 1 /\ Len(N2[q].keys) = Len(nodes[q].keys) + 1
  <1> DEFINE lk == nodes[p].keys
             lv == nodes[p].values
             lc == nodes[p].children
             ck == nodes[q].keys
             cv == nodes[q].values
             cc == nodes[q].children
             r == nodes[a].keys[i]
             ln == nodes[p].nextLeaf
             cn == nodes[q].nextLeaf
             M == MergedNode(nodes[p], nodes[q], r, ln)
  <1>1. /\ lk \in Seq(Int) /\ lv \in Seq(Values) /\ lc \in Seq(Pages) /\ ln \in Pages \cup {-1}
        /\ ck \in Seq(Int) /\ cv \in Seq(Values) /\ cc \in Seq(Pages) /\ cn \in Pages \cup {-1}
        /\ Len(lk) \in Nat /\ Len(ck) \in Nat
        /\ nodes[p].isLeaf => Len(lv) = Len(lk) /\ Len(cv) = Len(ck)
        /\ ~nodes[p].isLeaf => Len(lc) = Len(lk) + 1 /\ Len(cc) = Len(ck) + 1
        /\ nodes[p].isLeaf <=> nodes[q].isLeaf
        /\ a \in live /\ ~nodes[a].isLeaf /\ i \in 1 .. Len(nodes[a].keys) /\ r \in Int
    <2>1. /\ \A x \in {p, q} :
                /\ nodes[x].keys \in Seq(Int) /\ nodes[x].values \in Seq(Values)
                /\ nodes[x].children \in Seq(Pages) /\ nodes[x].nextLeaf \in Pages \cup {-1}
                /\ Len(nodes[x].keys) \in Nat
                /\ nodes[x].isLeaf => Len(nodes[x].values) = Len(nodes[x].keys)
                /\ ~nodes[x].isLeaf => Len(nodes[x].children) = Len(nodes[x].keys) + 1
          /\ nodes[p].isLeaf <=> nodes[q].isLeaf
          /\ a \in live /\ ~nodes[a].isLeaf /\ i \in 1 .. Len(nodes[a].keys)
          /\ nodes[a].keys[i] \in Int
      BY SiblingNodes
    <2> QED
      BY ONLY <2>1
  <1>2. /\ a = Caller.page /\ i \in Nat
        /\ Shape(nodes[a]) /\ Shape(nodes[p]) /\ Shape(nodes[q])
        /\ live \subseteq DOMAIN N2 /\ \A x \in live \ {a, p, q} : N2[x] = nodes[x]
    BY DEF Lends
  <1>3. Parent = nodes[a] /\ ~Parent.isLeaf /\ Shape(Parent)
    BY <1>1, <1>2 DEF Parent
  <1>4. lk # <<>> /\ Len(lk) - 1 \in Nat /\ Len(lk) - 1 >= 1 /\ Len(lk) > 1
    <2>1. Len(lk) > 1 /\ Len(lk) \in Nat
      BY <1>1
    <2> HIDE DEF lk
    <2>2. Len(lk) # 0
      BY ONLY <2>1
    <2>3. lk # <<>>
      BY <2>2
    <2> QED
      BY ONLY <2>1, <2>3
  <1> DEFINE left == nodes[p]
             child == nodes[q]
  <1>5. Neighbours(left, child, i) /\ lent = LentLeft(left, child, i)
    BY <1>1, <1>2, <1>3 DEF Neighbours
  <1> HIDE DEF left, child
  <1>6. /\ lent.parent = Internal([Parent.keys EXCEPT ![i] = Last(left.keys)], Parent.children)
        /\ child.isLeaf =>
              /\ lent.left = Leaf(Front(left.keys), Front(left.values), left.nextLeaf)
              /\ lent.child = Leaf(<<Last(left.keys)>> \o child.keys,
                                   <<Last(left.values)>> \o child.values, child.nextLeaf)
        /\ ~child.isLeaf =>
              /\ lent.left = Internal(Front(left.keys), Front(left.children))
              /\ lent.child = Internal(<<Parent.keys[i]>> \o child.keys,
                                       <<Last(left.children)>> \o child.children)
    BY ONLY <1>5, LentLeftIs
  <1>7. /\ N2[a] = Internal([nodes[a].keys EXCEPT ![i] = Last(lk)], nodes[a].children)
        /\ nodes[p].isLeaf =>
              /\ N2[p] = Leaf(Front(lk), Front(lv), ln)
              /\ N2[q] = Leaf(<<Last(lk)>> \o ck, <<Last(lv)>> \o cv, cn)
        /\ ~nodes[p].isLeaf =>
              /\ N2[p] = Internal(Front(lk), Front(lc))
              /\ N2[q] = Internal(<<r>> \o ck, <<Last(lc)>> \o cc)
    BY <1>1, <1>3, <1>6 DEF left, child
  <1> HIDE DEF left, child
  <1>8. M = MergedNode(nodes[p], nodes[q], r, ln)
    OBVIOUS
  <1>9. Len(N2[a].keys) = Len(nodes[a].keys) /\ N2[a].children = nodes[a].children
    <2>1. nodes[a].keys \in Seq(Int)
      <3>1. nodes[a] \in Node
        BY <1>1, LiveNode DEF IsTree
      <3> QED
        BY <3>1, NodeFields
    <2> DEFINE ak == nodes[a].keys
    <2> HIDE DEF ak
    <2>2. N2[a].keys = [ak EXCEPT ![i] = Last(lk)] /\ N2[a].children = nodes[a].children
      BY ONLY <1>7 DEF Internal, ak
    <2>3. Len([ak EXCEPT ![i] = Last(lk)]) = Len(ak)
      BY <2>1 DEF ak
    <2> QED
      BY <2>2, <2>3 DEF ak
  <1>10. Shape(N2[a]) /\ ~N2[a].isLeaf
    BY ONLY <1>7, ShapeOf
  <1> DEFINE s == Last(lk)
             m == Len(lk) - 1
  <1> HIDE DEF lk, lv, lc, ck, cv, cc, r, ln, cn, M
  <1>11. /\ m \in 0 .. Len(lk \o ck) - 1 /\ m \in 1 .. Len(lk \o ck) - 1 /\ (lk \o ck)[m + 1] = s
         /\ Take(lk \o ck, m) = Front(lk) /\ Drop(lk \o ck, m) = <<s>> \o ck
         /\ Len(Front(lk)) = Len(lk) - 1
         /\ Len(<<s>> \o ck) = Len(ck) + 1 /\ Len(<<r>> \o ck) = Len(ck) + 1
         /\ m \in 0 .. Len(Append(lk, r) \o ck) - 1 /\ (Append(lk, r) \o ck)[m + 1] = s
         /\ Take(Append(lk, r) \o ck, m) = Front(lk)
             /\ Drop(Append(lk, r) \o ck, m + 1) = <<r>> \o ck
    <2> DEFINE T == Int
    <2>1. LeftLends(T, lk, ck, r, m)
      BY <1>1, <1>4 DEF LeftLends
    <2> HIDE DEF T, m
    <2>2. /\ m \in 0 .. Len(lk \o ck) - 1 /\ m \in 1 .. Len(lk \o ck) - 1 /\ (lk \o ck)[m + 1] = s
          /\ Take(lk \o ck, m) = Front(lk) /\ Drop(lk \o ck, m) = Pushed(s, ck)
          /\ Len(Front(lk)) = Len(lk) - 1
          /\ Len(Pushed(s, ck)) = Len(ck) + 1 /\ Len(Pushed(r, ck)) = Len(ck) + 1
          /\ m \in 0 .. Len(Append(lk, r) \o ck) - 1 /\ (Append(lk, r) \o ck)[m + 1] = s
          /\ Take(Append(lk, r) \o ck, m) = Front(lk)
              /\ Drop(Append(lk, r) \o ck, m + 1) = Pushed(r, ck)
      BY ONLY <2>1, LentFromLeft
    <2> QED
      BY ONLY <2>2 DEF Pushed
  <1>12. CASE nodes[p].isLeaf
    <2>1. M.isLeaf /\ M.keys = lk \o ck /\ M.values = lv \o cv
      BY ONLY <1>8, <1>12 DEF MergedNode, Leaf, lk, ck, lv, cv
    <2>2. lv # <<>> /\ Len(lv) - 1 = m
      BY <1>1, <1>4, <1>12, EmptySeq
    <2>3. Take(lv \o cv, m) = Front(lv) /\ Drop(lv \o cv, m) = <<Last(lv)>> \o cv
      <3>1. Take(lv \o cv, Len(lv) - 1) = Front(lv)
          /\ Drop(lv \o cv, Len(lv) - 1) = <<Last(lv)>> \o cv
        BY ONLY <2>2, <1>1, TakeOfConcat, DropOfConcat
      <3> QED
        BY <2>2, <3>1
    <2> HIDE DEF m, s
    <2>4. /\ N2[p] = Leaf(Take(M.keys, m), Take(M.values, m), ln)
          /\ N2[q] = Leaf(Drop(M.keys, m), Drop(M.values, m), cn)
      BY ONLY <1>7, <1>11, <1>12, <2>1, <2>3 DEF s
    <2>5. /\ m \in 0 .. Len(M.keys) - 1 /\ m \in 1 .. Len(M.keys) - 1 /\ s = M.keys[m + 1]
      BY ONLY <1>11, <2>1
    <2>6. Shares(nodes, live, a, i, p, q, M, m, s, ln, cn, N2)
      BY ONLY <1>1, <1>2, <1>7, <1>8, <2>1, <2>4, <2>5 DEF Shares, r, s
    <2>7. /\ Shape(N2[p]) /\ N2[p].isLeaf /\ Shape(N2[q]) /\ N2[q].isLeaf
      BY ONLY <2>4, ShapeOf
    <2>8. N2[p].keys = Front(lk) /\ N2[q].keys = <<s>> \o ck
      BY ONLY <1>7, <1>12 DEF Leaf, s
    <2> QED
      BY <2>6, <2>7, <2>8, <1>1, <1>9, <1>10, <1>11, <1>12 DEF M, m, s, r, ln, cn, lk, ck
  <1>13. CASE ~nodes[p].isLeaf
    <2>1. ~M.isLeaf /\ M.keys = Append(lk, r) \o ck /\ M.children = lc \o cc
      BY ONLY <1>8, <1>13 DEF MergedNode, Internal, lk, ck, lc, cc
    <2>2. lc # <<>> /\ Len(lc) - 1 = m + 1
      BY <1>1, <1>4, <1>13, EmptySeq
    <2>3. Take(lc \o cc, m + 1) = Front(lc) /\ Drop(lc \o cc, m + 1) = <<Last(lc)>> \o cc
      <3>1. lc \in Seq(Pages) /\ cc \in Seq(Pages)
        BY <1>1
      <3>2. Take(lc \o cc, Len(lc) - 1) = Front(lc)
        BY ONLY <2>2, <3>1, TakeOfConcat
      <3>3. Drop(lc \o cc, Len(lc) - 1) = <<Last(lc)>> \o cc
        BY ONLY <2>2, <3>1, DropOfConcat
      <3> QED
        BY <2>2, <3>2, <3>3
    <2> HIDE DEF m, s
    <2>4. /\ N2[p] = Internal(Take(M.keys, m), Take(M.children, m + 1))
          /\ N2[q] = Internal(Drop(M.keys, m + 1), Drop(M.children, m + 1))
      BY ONLY <1>7, <1>11, <1>13, <2>1, <2>3 DEF s
    <2>5. /\ m \in 0 .. Len(M.keys) - 1 /\ s = M.keys[m + 1]
      BY ONLY <1>11, <2>1
    <2>6. Shares(nodes, live, a, i, p, q, M, m, s, ln, cn, N2)
      BY ONLY <1>1, <1>2, <1>7, <1>8, <2>1, <2>4, <2>5 DEF Shares, r, s
    <2>7. /\ Shape(N2[p]) /\ ~N2[p].isLeaf /\ Shape(N2[q]) /\ ~N2[q].isLeaf
      BY ONLY <2>4, ShapeOf
    <2>8. N2[p].keys = Front(lk) /\ N2[q].keys = <<r>> \o ck
      BY ONLY <1>7, <1>13 DEF Internal
    <2> QED
      BY <2>6, <2>7, <2>8, <1>1, <1>9, <1>10, <1>11, <1>13 DEF M, m, s, r, ln, cn, lk, ck
  <1> QED
    BY <1>12, <1>13

\* borrowFromRight does so too.
LEMMA LentRightShares ==
    ASSUME NEW tops, NEW live, NEW h, NEW rng, NEW par,
           IsTree(nodes, tops, live, h, rng, par),
           NEW a, NEW i, NEW p, NEW q, Siblings(nodes, tops, live, h, a, i, p, q),
           NEW N2, Lends(live, a, i, p, q, N2), Len(nodes[q].keys) > 1,
           NEW n \in Nat, i = n + 1, NEW lent, lent = LentRight(nodes[p], nodes[q], n),
           N2[p] = lent.child, N2[q] = lent.right, N2[a] = lent.parent
    PROVE  /\ \E s : Shares(nodes, live, a, i, p, q,
                            MergedNode(nodes[p], nodes[q], nodes[a].keys[i], nodes[p].nextLeaf),
                            Len(nodes[p].keys) + 1, s, nodes[p].nextLeaf, nodes[q].nextLeaf, N2)
           /\ \A x \in {a, p, q} : Shape(N2[x]) /\ (N2[x].isLeaf <=> nodes[x].isLeaf)
           /\ N2[a].children = nodes[a].children /\ Len(N2[a].keys) = Len(nodes[a].keys)
           /\ Len(N2[p].keys) = Len(nodes[p].keys) + 1 /\ Len(N2[q].keys) = Len(nodes[q].keys) - 1
  <1> DEFINE ck == nodes[p].keys
             cv == nodes[p].values
             cc == nodes[p].children
             rk == nodes[q].keys
             rv == nodes[q].values
             rc == nodes[q].children
             r == nodes[a].keys[i]
             cn == nodes[p].nextLeaf
             rn == nodes[q].nextLeaf
             M == MergedNode(nodes[p], nodes[q], r, cn)
             s == IF nodes[p].isLeaf THEN rk[2] ELSE Head(rk)
             m == Len(ck) + 1
  <1>1. /\ ck \in Seq(Int) /\ cv \in Seq(Values) /\ cc \in Seq(Pages) /\ cn \in Pages \cup {-1}
        /\ rk \in Seq(Int) /\ rv \in Seq(Values) /\ rc \in Seq(Pages) /\ rn \in Pages \cup {-1}
        /\ Len(ck) \in Nat /\ Len(rk) \in Nat
        /\ nodes[p].isLeaf => Len(cv) = Len(ck) /\ Len(rv) = Len(rk)
        /\ ~nodes[p].isLeaf => Len(cc) = Len(ck) + 1 /\ Len(rc) = Len(rk) + 1
        /\ nodes[p].isLeaf <=> nodes[q].isLeaf
        /\ a \in live /\ ~nodes[a].isLeaf /\ i \in 1 .. Len(nodes[a].keys) /\ r \in Int
    <2>1. /\ \A x \in {p, q} :
                /\ nodes[x].keys \in Seq(Int) /\ nodes[x].values \in Seq(Values)
                /\ nodes[x].children \in Seq(Pages) /\ nodes[x].nextLeaf \in Pages \cup {-1}
                /\ Len(nodes[x].keys) \in Nat
                /\ nodes[x].isLeaf => Len(nodes[x].values) = Len(nodes[x].keys)
                /\ ~nodes[x].isLeaf => Len(nodes[x].children) = Len(nodes[x].keys) + 1
          /\ nodes[p].isLeaf <=> nodes[q].isLeaf
          /\ a \in live /\ ~nodes[a].isLeaf /\ i \in 1 .. Len(nodes[a].keys)
          /\ nodes[a].keys[i] \in Int
      BY SiblingNodes
    <2> QED
      BY ONLY <2>1
  <1>2. /\ a = Caller.page /\ i \in Nat
        /\ Shape(nodes[a]) /\ Shape(nodes[p]) /\ Shape(nodes[q])
        /\ live \subseteq DOMAIN N2 /\ \A x \in live \ {a, p, q} : N2[x] = nodes[x]
    BY DEF Lends
  <1>3. Parent = nodes[a] /\ ~Parent.isLeaf /\ Shape(Parent)
    BY <1>1, <1>2 DEF Parent
  <1>4. rk # <<>> /\ Len(rk) > 1 /\ Len(rk) >= 2
    BY <1>1, EmptySeq
  <1> DEFINE child == nodes[p]
             right == nodes[q]
  <1>5. Neighbours(right, child, n) /\ lent = LentRight(child, right, n)
    BY <1>1, <1>2, <1>3 DEF Neighbours
  <1> HIDE DEF right, child
  <1>6. /\ child.isLeaf =>
              /\ lent.right = Leaf(Tail(right.keys), Tail(right.values), right.nextLeaf)
              /\ lent.child = Leaf(Append(child.keys, Head(right.keys)),
                                   Append(child.values, Head(right.values)), child.nextLeaf)
              /\ lent.parent = Internal([Parent.keys EXCEPT ![n + 1] = right.keys[2]],
                                        Parent.children)
        /\ ~child.isLeaf =>
              /\ lent.right = Internal(Tail(right.keys), Tail(right.children))
              /\ lent.child = Internal(Append(child.keys, Parent.keys[n + 1]),
                                       Append(child.children, Head(right.children)))
              /\ lent.parent = Internal([Parent.keys EXCEPT ![n + 1] = Head(right.keys)],
                                        Parent.children)
    <2>1. LentRightAre(lent, right, child, n)
      BY ONLY <1>5, LentRightIs
    <2> QED
      BY ONLY <2>1 DEF LentRightAre
  <1>7. /\ nodes[p].isLeaf =>
              /\ N2[q] = Leaf(Tail(rk), Tail(rv), rn)
              /\ N2[p] = Leaf(Append(ck, Head(rk)), Append(cv, Head(rv)), cn)
              /\ N2[a] = Internal([nodes[a].keys EXCEPT ![i] = rk[2]], nodes[a].children)
        /\ ~nodes[p].isLeaf =>
              /\ N2[q] = Internal(Tail(rk), Tail(rc))
              /\ N2[p] = Internal(Append(ck, r), Append(cc, Head(rc)))
              /\ N2[a] = Internal([nodes[a].keys EXCEPT ![i] = Head(rk)], nodes[a].children)
    BY <1>1, <1>3, <1>6 DEF right, child
  <1>8. N2[a] = Internal([nodes[a].keys EXCEPT ![i] = s], nodes[a].children)
    BY <1>7
  <1>9. Len(N2[a].keys) = Len(nodes[a].keys) /\ N2[a].children = nodes[a].children
    <2>1. nodes[a].keys \in Seq(Int)
      <3>1. nodes[a] \in Node
        BY <1>1, LiveNode DEF IsTree
      <3> QED
        BY <3>1, NodeFields
    <2> DEFINE ak == nodes[a].keys
    <2> HIDE DEF ak, s
    <2>2. N2[a].keys = [ak EXCEPT ![i] = s] /\ N2[a].children = nodes[a].children
      BY ONLY <1>8 DEF Internal, ak
    <2>3. Len([ak EXCEPT ![i] = s]) = Len(ak)
      BY <2>1 DEF ak
    <2> QED
      BY <2>2, <2>3 DEF ak
  <1>10. Shape(N2[a]) /\ ~N2[a].isLeaf
    BY ONLY <1>8, ShapeOf
  <1>11. M = MergedNode(nodes[p], nodes[q], r, cn)
    OBVIOUS
  <1> HIDE DEF ck, cv, cc, rk, rv, rc, r, cn, rn, M
  <1>12. /\ m \in 0 .. Len(ck \o rk) - 1 /\ m \in 1 .. Len(ck \o rk) - 1
            /\ (ck \o rk)[m + 1] = rk[2]
         /\ Take(ck \o rk, m) = Append(ck, Head(rk)) /\ Drop(ck \o rk, m) = Tail(rk)
         /\ Len(Tail(rk)) = Len(rk) - 1
         /\ Len(Append(ck, Head(rk))) = Len(ck) + 1 /\ Len(Append(ck, r)) = Len(ck) + 1
         /\ m \in 0 .. Len(Append(ck, r) \o rk) - 1 /\ (Append(ck, r) \o rk)[m + 1] = Head(rk)
         /\ Take(Append(ck, r) \o rk, m) = Append(ck, r)
             /\ Drop(Append(ck, r) \o rk, m + 1) = Tail(rk)
    <2> DEFINE T == Int
    <2>1. RightLends(T, ck, rk, r, m)
      BY <1>1, <1>4 DEF RightLends
    <2> HIDE DEF T, m
    <2>2. /\ m \in 0 .. Len(ck \o rk) - 1 /\ m \in 1 .. Len(ck \o rk) - 1
          /\ (ck \o rk)[m + 1] = rk[2]
          /\ Take(ck \o rk, m) = Append(ck, Head(rk)) /\ Drop(ck \o rk, m) = Tail(rk)
          /\ Head(rk) \in T /\ rk[2] \in T /\ Len(Tail(rk)) = Len(rk) - 1
          /\ Len(Append(ck, Head(rk))) = Len(ck) + 1 /\ Len(Append(ck, r)) = Len(ck) + 1
          /\ m \in 0 .. Len(Append(ck, r) \o rk) - 1 /\ (Append(ck, r) \o rk)[m + 1] = Head(rk)
          /\ Take(Append(ck, r) \o rk, m) = Append(ck, r)
          /\ Drop(Append(ck, r) \o rk, m + 1) = Tail(rk)
      BY ONLY <2>1, LentFromRight
    <2> QED
      BY ONLY <2>2
  <1>13. CASE nodes[p].isLeaf
    <2>1. M.isLeaf /\ M.keys = ck \o rk /\ M.values = cv \o rv
      BY ONLY <1>11, <1>13 DEF MergedNode, Leaf, ck, rk, cv, rv
    <2>2. rv # <<>> /\ Len(cv) + 1 = m /\ s = rk[2]
      BY <1>1, <1>4, <1>13, EmptySeq
    <2>3. Take(cv \o rv, m) = Append(cv, Head(rv)) /\ Drop(cv \o rv, m) = Tail(rv)
      <3>1. Take(cv \o rv, Len(cv) + 1) = Append(cv, Head(rv))
          /\ Drop(cv \o rv, Len(cv) + 1) = Tail(rv)
        BY ONLY <2>2, <1>1, TakeOfConcat, DropOfConcat
      <3> QED
        BY <2>2, <3>1
    <2> HIDE DEF m, s
    <2>4. /\ N2[p] = Leaf(Take(M.keys, m), Take(M.values, m), cn)
          /\ N2[q] = Leaf(Drop(M.keys, m), Drop(M.values, m), rn)
      BY ONLY <1>7, <1>12, <1>13, <2>1, <2>3
    <2>5. /\ m \in 0 .. Len(M.keys) - 1 /\ m \in 1 .. Len(M.keys) - 1 /\ s = M.keys[m + 1]
      BY ONLY <1>12, <2>1, <2>2
    <2>6. Shares(nodes, live, a, i, p, q, M, m, s, cn, rn, N2)
      BY ONLY <1>1, <1>2, <1>8, <1>11, <2>1, <2>4, <2>5 DEF Shares, r
    <2>7. /\ Shape(N2[p]) /\ N2[p].isLeaf /\ Shape(N2[q]) /\ N2[q].isLeaf
      BY ONLY <2>4, ShapeOf
    <2>8. N2[p].keys = Append(ck, Head(rk)) /\ N2[q].keys = Tail(rk)
      BY ONLY <1>7, <1>13 DEF Leaf
    <2> QED
      BY <2>6, <2>7, <2>8, <1>1, <1>9, <1>10, <1>12, <1>13 DEF M, m, r, cn, rn, ck, rk
  <1>14. CASE ~nodes[p].isLeaf
    <2>1. ~M.isLeaf /\ M.keys = Append(ck, r) \o rk /\ M.children = cc \o rc
      BY ONLY <1>11, <1>14 DEF MergedNode, Internal, ck, rk, cc, rc
    <2>2. rc # <<>> /\ Len(cc) + 1 = m + 1 /\ s = Head(rk)
      BY <1>1, <1>4, <1>14, EmptySeq
    <2>3. Take(cc \o rc, m + 1) = Append(cc, Head(rc)) /\ Drop(cc \o rc, m + 1) = Tail(rc)
      <3>1. Take(cc \o rc, Len(cc) + 1) = Append(cc, Head(rc))
          /\ Drop(cc \o rc, Len(cc) + 1) = Tail(rc)
        BY ONLY <2>2, <1>1, TakeOfConcat, DropOfConcat
      <3> QED
        BY <2>2, <3>1
    <2> HIDE DEF m, s
    <2>4. /\ N2[p] = Internal(Take(M.keys, m), Take(M.children, m + 1))
          /\ N2[q] = Internal(Drop(M.keys, m + 1), Drop(M.children, m + 1))
      BY ONLY <1>7, <1>12, <1>14, <2>1, <2>3
    <2>5. /\ m \in 0 .. Len(M.keys) - 1 /\ s = M.keys[m + 1]
      BY ONLY <1>12, <2>1, <2>2
    <2>6. Shares(nodes, live, a, i, p, q, M, m, s, cn, rn, N2)
      BY ONLY <1>1, <1>2, <1>8, <1>11, <2>1, <2>4, <2>5 DEF Shares, r
    <2>7. /\ Shape(N2[p]) /\ ~N2[p].isLeaf /\ Shape(N2[q]) /\ ~N2[q].isLeaf
      BY ONLY <2>4, ShapeOf
    <2>8. N2[p].keys = Append(ck, r) /\ N2[q].keys = Tail(rk)
      BY ONLY <1>7, <1>14 DEF Internal
    <2> QED
      BY <2>6, <2>7, <2>8, <1>1, <1>9, <1>10, <1>12, <1>14 DEF M, m, r, cn, rn, ck, rk
  <1> QED
    BY <1>13, <1>14

-----------------------------------------------------------------------------
(* The tree in a state.  trail is the path from the root root of the pages N.              *)

\* Each call of the path is for the child that the one before it chose, one level below.
Linked(N, root, trail, live, h) ==
    /\ trail # <<>> => trail[1].page = root
    /\ \A i \in 1 .. Len(trail) :
          /\ trail[i].page \in live /\ ~N[trail[i].page].isLeaf
          /\ trail[i].idx \in 0 .. Len(N[trail[i].page].keys)
          /\ h[trail[i].page] = h[root] - i + 1
          /\ i < Len(trail) => trail[i + 1].page = N[trail[i].page].children[trail[i].idx + 1]

\* The page that the last of them chose.
Target(N, root, trail) ==
    IF trail = <<>> THEN root ELSE N[Last(trail).page].children[Last(trail).idx + 1]

\* An entry of path.
Frame == [page : Pages, idx : Nat]

\* The pages above the height m are as they were, and so are all heights.
Above(N, live, h, m, N2, live2, h2) ==
    \A x \in live : h2[x] = h[x] /\ (h[x] > m => N2[x] = N[x] /\ x \in live2)

\* The first elements of a sequence, and the last.
LEMMA FrontOf ==
    ASSUME NEW T, NEW s \in Seq(T), s # <<>>
    PROVE  /\ Front(s) \in Seq(T) /\ Len(Front(s)) = Len(s) - 1 /\ Len(s) \in Nat /\ Len(s) > 0
           /\ \A i \in 1 .. Len(s) - 1 : Front(s)[i] = s[i]
           /\ Last(s) = s[Len(s)] /\ Last(s) \in T
  <1>1. Len(s) \in Nat /\ Len(s) > 0 /\ Last(s) = s[Len(s)]
    BY EmptySeq DEF Last
  <1>2. /\ Front(s) \in Seq(T) /\ Len(Front(s)) = Len(s) - 1
        /\ \A i \in 1 .. Len(s) - 1 : Front(s)[i] = s[i]
    <2>1. Len(s) - 1 \in 0 .. Len(s) /\ 1 \in 1 .. Len(s) + 1
      BY <1>1
    <2>2. Front(s) = SubSeq(s, 1, Len(s) - 1)
      BY DEF Front
    <2>3. Front(s) = Take(s, Len(s) - 1)
      BY <2>2 DEF Take
    <2> QED
      BY <2>1, <2>3, TakeEffect
  <1> QED
    BY <1>1, <1>2

\* The page a path leads to.
LEMMA TargetIs ==
    ASSUME NEW N, NEW tops, NEW live, NEW h, NEW rng, NEW par,
           IsTree(N, tops, live, h, rng, par), NEW root \in tops,
           NEW trail \in Seq(Frame), Linked(N, root, trail, live, h)
    PROVE  /\ Target(N, root, trail) \in live /\ Target(N, root, trail) \in Pages
           /\ h[Target(N, root, trail)] = h[root] - Len(trail) /\ Len(trail) \in Nat
           /\ h[root] \in Nat /\ h[Target(N, root, trail)] \in Nat
           /\ trail # <<>> =>
                 /\ Last(trail) \in Frame /\ Last(trail).page \in live
                     /\ ~N[Last(trail).page].isLeaf
                 /\ Last(trail).idx + 1 \in DOMAIN N[Last(trail).page].children
                 /\ Last(trail).idx + 1 \in 1 .. Len(N[Last(trail).page].keys) + 1
                 /\ Target(N, root, trail) = N[Last(trail).page].children[Last(trail).idx + 1]
                 /\ Target(N, root, trail) \notin tops
                 /\ par[Target(N, root, trail)] = Last(trail).page
                 /\ h[Last(trail).page] = h[root] - Len(trail) + 1 /\ h[Last(trail).page] \in Nat
                 /\ h[Target(N, root, trail)] = h[Last(trail).page] - 1
                 /\ h[Target(N, root, trail)] < h[root]
                 /\ \A k \in rng[Target(N, root, trail)] :
                       k \in rng[Last(trail).page]
                           /\ IsSlot(N[Last(trail).page].keys, k, Last(trail).idx)
  <1>1. root \in live /\ live \subseteq Pages /\ h \in [Pages -> Nat]
    BY DEF IsTree, TreeOK, GhostType
  <1>2. Len(trail) \in Nat /\ h[root] \in Nat
    BY <1>1
  <1>3. CASE trail = <<>>
    BY <1>1, <1>2, <1>3 DEF Target
  <1>4. CASE trail # <<>>
    <2> DEFINE c == Last(trail)
               a == c.page
               j == c.idx + 1
               t == Target(N, root, trail)
    <2>1. Len(trail) > 0 /\ c = trail[Len(trail)] /\ c \in Frame
      BY <1>4, FrontOf
    <2>2. a \in live /\ ~N[a].isLeaf /\ c.idx \in 0 .. Len(N[a].keys)
        /\ h[a] = h[root] - Len(trail) + 1
      BY <1>2, <2>1 DEF Linked
    <2>3. N[a] \in Node /\ Len(N[a].children) = Len(N[a].keys) + 1
      BY <2>2, LiveNode DEF IsTree
    <2>4. j \in DOMAIN N[a].children /\ j \in 1 .. Len(N[a].keys) + 1 /\ j - 1 = c.idx
      <3>1. Len(N[a].keys) \in Nat /\ DOMAIN N[a].children = 1 .. Len(N[a].children)
        BY ONLY <2>3, NodeFields
      <3>2. c.idx \in Nat
        BY <2>1 DEF Frame
      <3> HIDE DEF a, c
      <3> QED
        BY ONLY <2>2, <2>3, <3>1, <3>2
    <2>5. t = N[a].children[j]
      BY <1>4 DEF Target
    <2>6. /\ t \in live \ tops /\ t \in Pages /\ h[t] = h[a] - 1 /\ h[a] \in Nat /\ h[a] > 0
          /\ par[t] = a /\ \A k \in rng[t] : k \in rng[a] /\ IsSlot(N[a].keys, k, j - 1)
      <3> HIDE DEF t, j, a, c
      <3> QED
        BY <2>2, <2>4, <2>5, ChildOf DEF IsTree
    <2>7. h[t] \in Nat
      BY <2>6
    <2>8. h[t] = h[root] - Len(trail) /\ h[t] < h[root]
      <3> DEFINE ht == h[t]
                 ha == h[a]
                 hr == h[root]
                 l == Len(trail)
      <3>1. ha = hr - l + 1 /\ ht = ha - 1 /\ l \in Nat /\ l > 0 /\ hr \in Nat
        BY <1>2, <2>1, <2>2, <2>6
      <3> HIDE DEF ht, ha, hr, l
      <3>2. ht = hr - l /\ ht < hr
        BY ONLY <3>1
      <3> QED
        BY <3>2 DEF ht, hr, l
    <2>9. \A k \in rng[t] : k \in rng[a] /\ IsSlot(N[a].keys, k, c.idx)
      <3> HIDE DEF a, t, j
      <3> QED
        BY <2>4, <2>6
    <2>10. j \in DOMAIN N[a].children /\ j \in 1 .. Len(N[a].keys) + 1
      BY <2>4
    <2> QED
      BY <1>2, <1>4, <2>1, <2>2, <2>10, <2>5, <2>6, <2>7, <2>8, <2>9
  <1> QED
    BY <1>3, <1>4

\* The path of the call that is returned to.
LEMMA PathPops ==
    ASSUME NEW N, NEW tops, NEW live, NEW h, NEW rng, NEW par,
           IsTree(N, tops, live, h, rng, par), NEW root \in tops,
           NEW trail \in Seq(Frame), trail # <<>>, Linked(N, root, trail, live, h),
           NEW N2, NEW live2, NEW h2, Above(N, live, h, h[Last(trail).page], N2, live2, h2)
    PROVE  /\ Linked(N2, root, Front(trail), live2, h2)
           /\ Target(N2, root, Front(trail)) = Last(trail).page
           /\ Front(trail) \in Seq(Frame)
           /\ Front(trail) = <<>> <=> Last(trail).page = root
           /\ Front(trail) # <<>> => N2[root] = N[root]
  <1> DEFINE f == Front(trail)
             n == Len(trail)
             a == Last(trail).page
  <1>1. /\ f \in Seq(Frame) /\ Len(f) = n - 1 /\ n \in Nat /\ n > 0
        /\ \A i \in 1 .. n - 1 : f[i] = trail[i]
        /\ Last(trail) = trail[n] /\ Last(trail) \in Frame
    BY FrontOf
  <1>2. root \in live /\ live \subseteq Pages /\ h \in [Pages -> Nat]
      /\ \A x \in live : h[x] \in Nat
    BY DEF IsTree, TreeOK, GhostType
  <1>3. h2[root] = h[root] /\ h[root] \in Nat
    BY <1>2 DEF Above
  <1>4. a \in live /\ h[a] = h[root] - n + 1
    BY <1>1 DEF Linked
  <1>5. ASSUME NEW i \in 1 .. n - 1
        PROVE  /\ f[i] = trail[i] /\ trail[i].page \in live /\ h[trail[i].page] = h[root] - i + 1
               /\ N2[trail[i].page] = N[trail[i].page] /\ trail[i].page \in live2
               /\ h2[trail[i].page] = h[trail[i].page]
               /\ ~N[trail[i].page].isLeaf
               /\ trail[i].idx \in 0 .. Len(N[trail[i].page].keys)
               /\ trail[i + 1].page = N[trail[i].page].children[trail[i].idx + 1]
    <2>1. i \in 1 .. n /\ i < n
      BY <1>1
    <2>2. /\ trail[i].page \in live /\ ~N[trail[i].page].isLeaf
          /\ trail[i].idx \in 0 .. Len(N[trail[i].page].keys)
          /\ h[trail[i].page] = h[root] - i + 1
          /\ trail[i + 1].page = N[trail[i].page].children[trail[i].idx + 1]
      BY <2>1 DEF Linked
    <2>3. h[trail[i].page] > h[a]
      BY <1>3, <1>4, <2>1, <2>2
    <2> QED
      BY <1>1, <2>2, <2>3 DEF Above
  <1>6. f # <<>> <=> n > 1
    BY <1>1, EmptySeq
  <1>7. f # <<>> => f[1].page = root
    BY <1>1, <1>6 DEF Linked
  <1>8. Linked(N2, root, f, live2, h2)
    <2>1. ASSUME NEW i \in 1 .. Len(f)
          PROVE  /\ f[i].page \in live2 /\ ~N2[f[i].page].isLeaf
                 /\ f[i].idx \in 0 .. Len(N2[f[i].page].keys)
                 /\ h2[f[i].page] = h2[root] - i + 1
                 /\ i < Len(f) => f[i + 1].page = N2[f[i].page].children[f[i].idx + 1]
      <3>1. i \in 1 .. n - 1
        BY <1>1
      <3>2. i < Len(f) => i + 1 \in 1 .. n - 1
        BY <1>1
      <3>3. i < Len(f) => f[i + 1] = trail[i + 1]
        BY <1>1, <3>2
      <3>4. f[i] = trail[i] /\ h2[trail[i].page] = h2[root] - i + 1
        BY <1>3, <1>5, <3>1
      <3>5. N2[trail[i].page] = N[trail[i].page]
        BY <1>5, <3>1
      <3>6. /\ trail[i].page \in live2 /\ ~N2[trail[i].page].isLeaf
            /\ trail[i].idx \in 0 .. Len(N2[trail[i].page].keys)
            /\ trail[i + 1].page = N2[trail[i].page].children[trail[i].idx + 1]
        BY <1>5, <3>1, <3>5
      <3> HIDE DEF f
      <3> QED
        BY <3>3, <3>4, <3>6
    <2> QED
      BY <1>7, <2>1 DEF Linked
  <1>9. Target(N2, root, f) = a
    <2>1. CASE f = <<>>
      <3>1. n = 1
        BY <1>1, <1>6, <2>1
      <3> QED
        BY <1>1, <2>1, <3>1 DEF Target, Linked
    <2>2. CASE f # <<>>
      <3>1. n - 1 \in 1 .. n - 1 /\ Last(f) = f[n - 1] /\ n - 1 + 1 = n
        BY <1>1, <1>6, <2>2 DEF Last
      <3>2. Last(f) = trail[n - 1]
        BY <1>5, <3>1
      <3>3. trail[n].page = N2[Last(f).page].children[Last(f).idx + 1]
        BY <1>5, <3>1, <3>2
      <3> QED
        BY <1>1, <2>2, <3>3 DEF Target
    <2> QED
      BY <2>1, <2>2
  <1>10. f = <<>> <=> a = root
    <2>1. f # <<>> => a # root
      BY <1>1, <1>3, <1>4, <1>6
    <2>2. f = <<>> => a = root
      BY <1>9, <2>1 DEF Target
    <2> QED
      BY <2>1, <2>2
  <1>11. f # <<>> => N2[root] = N[root]
    <2>1. f # <<>> => h[root] > h[a]
      BY <1>1, <1>3, <1>4, <1>6
    <2> QED
      BY <1>2, <2>1 DEF Above
  <1> QED
    BY <1>1, <1>8, <1>9, <1>10, <1>11

\* The path of a call that goes on.
LEMMA PathStays ==
    ASSUME NEW N, NEW tops, NEW live, NEW h, NEW rng, NEW par,
           IsTree(N, tops, live, h, rng, par), NEW root \in tops,
           NEW trail \in Seq(Frame), Linked(N, root, trail, live, h),
           NEW N2, NEW live2, NEW h2, Above(N, live, h, h[Target(N, root, trail)], N2, live2, h2)
    PROVE  /\ Linked(N2, root, trail, live2, h2)
           /\ Target(N2, root, trail) = Target(N, root, trail)
           /\ trail = <<>> <=> Target(N, root, trail) = root
           /\ trail # <<>> => /\ N2[root] = N[root] /\ Last(trail).page \in live2
                              /\ N2[Last(trail).page] = N[Last(trail).page]
  <1> DEFINE n == Len(trail)
             t == Target(N, root, trail)
  <1>1. root \in live /\ live \subseteq Pages /\ h \in [Pages -> Nat]
      /\ \A x \in live : h[x] \in Nat
    BY DEF IsTree, TreeOK, GhostType
  <1>2. h2[root] = h[root] /\ h[root] \in Nat
    BY <1>1 DEF Above
  <1>3. t \in live /\ h[t] = h[root] - n /\ n \in Nat
    BY TargetIs
  <1>4. ASSUME NEW i \in 1 .. n
        PROVE  /\ trail[i].page \in live /\ h[trail[i].page] = h[root] - i + 1
               /\ N2[trail[i].page] = N[trail[i].page] /\ trail[i].page \in live2
               /\ h2[trail[i].page] = h[trail[i].page]
    <2>1. trail[i].page \in live /\ h[trail[i].page] = h[root] - i + 1
      BY DEF Linked
    <2>2. h[trail[i].page] > h[t]
      BY <1>2, <1>3, <2>1
    <2> QED
      BY <2>1, <2>2 DEF Above
  <1>5. Linked(N2, root, trail, live2, h2)
    BY <1>2, <1>4 DEF Linked
  <1>6. trail # <<>> => n \in 1 .. n /\ n > 0 /\ Last(trail) = trail[n]
    <2>1. trail # <<>> => n > 0 /\ Last(trail) = trail[n]
      BY FrontOf
    <2> QED
      BY <1>3, <2>1
  <1>7. Target(N2, root, trail) = t
    BY <1>4, <1>6 DEF Target
  <1>8. trail = <<>> <=> t = root
    BY <1>2, <1>3, <1>6 DEF Target
  <1>9. trail # <<>> => h[root] > h[t]
    BY <1>2, <1>3, <1>6
  <1>10. trail # <<>> => N2[root] = N[root]
    BY <1>1, <1>9 DEF Above
  <1>11. trail # <<>> => Last(trail).page \in live2 /\ N2[Last(trail).page] = N[Last(trail).page]
    BY <1>4, <1>6
  <1> QED
    BY <1>5, <1>7, <1>8, <1>10, <1>11

\* The pages of a file, all of them nodes.
PagesOK(N) ==
    \E n \in 1 .. MaxPages - 1 : N \in [1 .. n -> Node] /\ \A p \in 1 .. n : Shape(N[p])

\* What insertRec and removeRec return.
ResultOf(kind) ==
    IF kind = "insert" THEN [promoted : Int, child : Pages \cup {-1}] ELSE [underflow : BOOLEAN]

\* The variables by themselves.
Base ==
    /\ PagesOK(nodes)
    /\ rootPageId = metaRoot
    /\ pc \in {"idle", "descend", "return"}
    /\ pc # "idle" =>
          /\ op \in [kind : {"insert", "remove"}, key : AllKeys, value : Values \cup {NotFound}]
          /\ contents[op.key] = op.value
    /\ pc = "descend" => op.value \in IF op.kind = "insert" THEN Values ELSE {NotFound}
    /\ pc = "idle" => path = <<>>
    /\ path \in Seq(Frame)
    /\ pc = "return" => res \in ResultOf(op.kind)
    /\ cur \in Allocated /\ res \in Result
    /\ contents \in [AllKeys -> Values \cup {NotFound}]
    /\ rows \in Rows /\ Cardinality(Allocated) + rows < MaxPages
    /\ threw \in BOOLEAN

\* While the right half of a split page waits for its parent, it is the top of a tree too.
Pending == pc = "return" /\ op.kind = "insert" /\ res.promoted # -1
Tops == {rootPageId} \cup IF Pending THEN {res.child} ELSE {}

\* Below the root all is lower than the root, and a page is higher in number than in height.
Heights(root, tops, live, h) ==
    /\ root \in tops
    /\ \A q \in live \ tops : h[q] < h[root]
    /\ \A q \in live : h[q] < q

\* The path leads to c, the only page of its height that may hold k.
Seeks(N, root, trail, live, h, rng, c, k) ==
    /\ c = Target(N, root, trail) /\ k \in rng[c]
    /\ \A q \in live : h[q] = h[c] /\ k \in rng[q] => q = c

\* The page the path leads to was split at r, and q is its right half.
Halves(N, root, trail, live, h, rng, r, q) ==
    /\ q # Target(N, root, trail) /\ Beside(Target(N, root, trail), q, r, h, rng)
    /\ r \in AllKeys /\ r \in rng[q]
    /\ trail # <<>> => \A k \in rng[q] :
          k \in rng[Last(trail).page] /\ IsSlot(N[Last(trail).page].keys, k, Last(trail).idx)

\* No page but the root has few keys; low may lack one.
Filled(N, root, live, low) ==
    \A p \in live \ {root} : Len(N[p].keys) >= IF p = low THEN BTREE_MIN - 1 ELSE BTREE_MIN
LowPage ==
    IF pc = "return" /\ op.kind = "remove" /\ res.underflow THEN Target(nodes, rootPageId, path)
    ELSE 0
\* An empty root is only left until remove returns.
RootFilled ==
    \/ pc = "return" /\ path = <<>> /\ op.kind = "remove"
    \/ nodes[rootPageId].isLeaf
    \/ Len(nodes[rootPageId].keys) > 0

\* A root that was split has enough keys to be another page's child.
RootHalf == path = <<>> => Len(nodes[rootPageId].keys) >= BTREE_MIN

\* The entries S are those asked for, but for the key that is being inserted or removed.
Faithful(S, asked, open, lost) ==
    /\ \A e \in S : e[1] \in AllKeys /\ (e[1] \notin open => e[2] = asked[e[1]])
    /\ ~lost => \A k \in AllKeys \ open : asked[k] = NotFound \/ <<k, asked[k]>> \in S
Open == IF pc = "descend" THEN {op.key} ELSE {}

\* The state of a call: the pages are a tree, or two while a right half waits for its parent,
\* path leads down in it, and it stores what was asked for.
TreeState(live, h, rng, par) ==
    /\ IsTree(nodes, Tops, live, h, rng, par)
    /\ Heights(rootPageId, Tops, live, h)
    /\ Linked(nodes, rootPageId, path, live, h)
    /\ pc = "descend" => Seeks(nodes, rootPageId, path, live, h, rng, cur, op.key)
    /\ Pending => Halves(nodes, rootPageId, path, live, h, rng, res.promoted, res.child)
    /\ Pending => RootHalf
    /\ Filled(nodes, rootPageId, live, LowPage)
    /\ RootFilled
    /\ Faithful(Stored(nodes, live), contents, Open, threw)

\* The inductive invariant.
TreeInv == Base /\ \E live, h, rng, par : TreeState(live, h, rng, par)

\* A step keeps pages as high as they are while they are in the tree, and a page that is not in
\* it any more, or was not, is as it was or was emptied.
Carried(live, h, live2, h2) ==
    /\ Allocated \subseteq Allocated'
    /\ \A p \in live2 \cap Allocated : p \in live /\ h2[p] = h[p]
    /\ \A p \in Allocated' \ live2 : p \in Allocated /\ nodes'[p] \in {nodes[p], Emptied(nodes[p])}

\* After a step there is such a tree.
Carries(live, h) ==
    /\ Base'
    /\ \E live2, h2, rng2, par2 :
          TreeState(live2, h2, rng2, par2)' /\ Carried(live, h, live2, h2)

\* The results the calls return.
LEMMA ResultsAre ==
    /\ NoSplit \in ResultOf("insert") /\ NoSplit \in Result
    /\ \A r \in Int, c \in Pages : [promoted |-> r, child |-> c] \in ResultOf("insert") \cap Result
    /\ \A b \in BOOLEAN : [underflow |-> b] \in ResultOf("remove") \cap Result
  <1>1. NoSplit \in [promoted : Int, child : Pages \cup {-1}]
    BY DEF NoSplit
  <1>2. \A r \in Int, c \in Pages : [promoted |-> r, child |-> c]
      \in [promoted : Int, child : Pages \cup {-1}]
    OBVIOUS
  <1>3. \A b \in BOOLEAN : [underflow |-> b] \in [underflow : BOOLEAN]
    OBVIOUS
  <1> QED
    BY <1>1, <1>2, <1>3 DEF ResultOf, Result

-----------------------------------------------------------------------------
(* What saving does *)

\* The pages that are allocated, and the next one.
LEMMA PagesAre ==
    ASSUME PagesOK(nodes), rows \in Rows
    PROVE  /\ IsFiniteSet(Allocated) /\ Cardinality(Allocated) \in Nat
           /\ Allocated = 1 .. Cardinality(Allocated) /\ Allocated \subseteq Pages
           /\ nodes \in [Allocated -> Node] /\ \A p \in Allocated : Shape(nodes[p])
           /\ NextPage = Cardinality(Allocated) + 1 /\ NextPage \in Nat /\ NextPage \notin Allocated
           /\ \A p \in Allocated : p < NextPage
           /\ CanAlloc => NextPage \in Pages /\ NextPage + rows < MaxPages
  <1>1. PICK n \in 1 .. MaxPages - 1 : nodes \in [1 .. n -> Node]
      /\ \A p \in 1 .. n : Shape(nodes[p])
    BY DEF PagesOK
  <1>2. Allocated = 1 .. n /\ n \in Nat /\ n >= 1 /\ n <= MaxPages - 1 /\ MaxPages \in Nat
    BY <1>1, TreePagesAssumption DEF Allocated
  <1>3. IsFiniteSet(1 .. n) /\ Cardinality(1 .. n) = n
    BY <1>2, FS_Interval
  <1>4. rows \in Nat
    BY RowsAssumption, TreePagesAssumption
  <1> QED
    BY <1>1, <1>2, <1>3, <1>4 DEF NextPage, CanAlloc, Pages

\* One page is saved over.
SavesOver(a, x, N2) ==
    a \in Allocated /\ x \in Node /\ Shape(x) /\ N2 = [nodes EXCEPT ![a] = x]

\* Saving over a page leaves the pages well-formed.
LEMMA SavedOver ==
    ASSUME PagesOK(nodes), NEW a, NEW x, NEW N2, SavesOver(a, x, N2)
    PROVE  /\ PagesOK(N2) /\ DOMAIN N2 = Allocated /\ N2[a] = x
           /\ \A p \in Allocated \ {a} : N2[p] = nodes[p]
  <1> USE DEF SavesOver
  <1>1. PICK n \in 1 .. MaxPages - 1 : nodes \in [1 .. n -> Node]
      /\ \A p \in 1 .. n : Shape(nodes[p])
    BY DEF PagesOK
  <1>2. Allocated = 1 .. n
    BY <1>1 DEF Allocated
  <1>3. N2 \in [1 .. n -> Node] /\ DOMAIN N2 = 1 .. n /\ N2[a] = x
        /\ \A p \in Allocated \ {a} : N2[p] = nodes[p]
    BY <1>1, <1>2
  <1>4. \A p \in 1 .. n : Shape(N2[p])
    BY <1>1, <1>2, <1>3
  <1> QED
    BY <1>2, <1>3, <1>4 DEF PagesOK

\* New pages are saved, and others with them.
SavesNew(f, N2) ==
    /\ DOMAIN f \subseteq Allocated \cup {NextPage} /\ NextPage \in DOMAIN f
    /\ \A p \in DOMAIN f : f[p] \in Node /\ Shape(f[p])
    /\ N2 = Save(f)

\* Saving to a new page, and over others, does so too.
LEMMA SavedNew ==
    ASSUME PagesOK(nodes), rows \in Rows, CanAlloc, NEW f, NEW N2, SavesNew(f, N2)
    PROVE  /\ PagesOK(N2) /\ DOMAIN N2 = Allocated \cup {NextPage}
           /\ Cardinality(DOMAIN N2) = NextPage
           /\ \A p \in DOMAIN f : N2[p] = f[p]
           /\ \A p \in Allocated \ DOMAIN f : N2[p] = nodes[p]
  <1> USE DEF SavesNew
  <1> DEFINE n == Cardinality(Allocated)
             D == DOMAIN f
  <1>1. /\ n \in Nat /\ Allocated = 1 .. n /\ nodes \in [Allocated -> Node]
        /\ NextPage = n + 1 /\ NextPage \in Pages
        /\ \A p \in Allocated : Shape(nodes[p])
    BY PagesAre
  <1>2. 1 .. n + 1 = Allocated \cup {NextPage} /\ Allocated \cup D = 1 .. n + 1
      /\ n + 1 \in 1 .. MaxPages - 1
        /\ n + 1 \in Nat
    <2>1. n + 1 \in 1 .. MaxPages - 1 /\ n + 1 \in Nat
      BY <1>1, TreePagesAssumption DEF Pages
    <2>2. 1 .. n + 1 = Allocated \cup {NextPage}
      <3> HIDE DEF n
      <3> QED
        BY <1>1
    <2>3. Allocated \cup D = Allocated \cup {NextPage}
      OBVIOUS
    <2> QED
      BY <2>1, <2>2, <2>3
  <1>3. N2 = [p \in 1 .. n + 1 |-> IF p \in D THEN f[p] ELSE nodes[p]]
    BY <1>2 DEF Save
  <1> HIDE DEF n, D
  <1>4. DOMAIN N2 = 1 .. n + 1 /\ \A p \in 1 .. n + 1 : N2[p] = IF p \in D THEN f[p] ELSE nodes[p]
    BY <1>3
  <1>5. \A p \in 1 .. n + 1 : N2[p] \in Node /\ Shape(N2[p])
    BY <1>1, <1>2, <1>4 DEF D
  <1>6. N2 \in [1 .. n + 1 -> Node]
    BY <1>3, <1>4, <1>5
  <1>7. PagesOK(N2)
    BY <1>2, <1>5, <1>6 DEF PagesOK
  <1>8. Cardinality(1 .. n + 1) = n + 1
    BY <1>2, FS_Interval
  <1> QED
    BY <1>1, <1>2, <1>4, <1>7, <1>8 DEF D

-----------------------------------------------------------------------------
(* The lemmas about trees, for whole trees *)

\* A leaf p has other entries, of keys that may be there.
LeafChanges(N, live, p, h, rng, N2) ==
    /\ p \in live /\ N[p].isLeaf
    /\ live \subseteq DOMAIN N2 /\ \A x \in live \ {p} : N2[x] = N[x]
    /\ N2[p].isLeaf /\ LocalOK(N2[p], h[p], rng[p])

\* Then the pages are still a tree.
LEMMA LeafChangesTree ==
    ASSUME NEW N, NEW tops, NEW live, NEW h, NEW rng, NEW par,
           IsTree(N, tops, live, h, rng, par),
           NEW p, NEW N2, LeafChanges(N, live, p, h, rng, N2)
    PROVE  IsTree(N2, tops, live, h, rng, par)
  BY ChangedLeafTree DEF IsTree, LeafChanges

\* Any key may be below the top of a tree.
LEMMA WidenTop ==
    ASSUME NEW N, NEW tops, NEW live, NEW h, NEW rng, NEW par,
           IsTree(N, tops, live, h, rng, par), NEW p \in tops, NEW k \in Int
    PROVE  IsTree(N, tops, live, h, [rng EXCEPT ![p] = rng[p] \cup {k}], par)
  <1>1. p \in live
    BY DEF IsTree, TreeOK
  <1> QED
    BY <1>1, WiderTree DEF IsTree

\* A key may be below the child that is chosen for it.
LEMMA WidenLive ==
    ASSUME NEW N, NEW tops, NEW live, NEW h, NEW rng, NEW par,
           IsTree(N, tops, live, h, rng, par), NEW p \in live, NEW k \in Int, p \notin tops,
           Fits(N, rng, par[p], p, {k})
    PROVE  IsTree(N, tops, live, h, [rng EXCEPT ![p] = rng[p] \cup {k}], par)
  BY WiderTree DEF IsTree

\* A tree is still one when the tree below one of several tops is left out.
LEMMA DetachTop ==
    ASSUME NEW N, NEW tops, NEW live, NEW h, NEW rng, NEW par,
           IsTree(N, tops, live, h, rng, par), NEW q \in tops
    PROVE  \E live2 \in SUBSET live : q \notin live2 /\ IsTree(N, tops \ {q}, live2, h, rng, par)
  <1>1. PICK live2 \in SUBSET live : q \notin live2 /\ TreeOK(N, tops \ {q}, live2, h, rng, par)
    BY DetachTree DEF IsTree
  <1> QED
    BY <1>1 DEF IsTree, GhostType

\* insert and remove begin at the root.
LEMMA BeginKeeps ==
    ASSUME NEW live, NEW h, NEW rng, NEW par, TreeState(live, h, rng, par), Base,
           NEW kind \in {"insert", "remove"}, NEW k \in AllKeys,
           NEW v \in IF kind = "insert" THEN Values ELSE {NotFound}, Begin(kind, k, v)
    PROVE  Carries(live, h)
  <1>1. TreeState(live, h, rng, par)
    OBVIOUS
  <1>2. /\ Base /\ pc = "idle" /\ pc' = "descend" /\ path = <<>> /\ path' = <<>>
        /\ nodes' = nodes /\ rootPageId' = rootPageId /\ metaRoot' = metaRoot
        /\ cur' = rootPageId /\ op' = [kind |-> kind, key |-> k, value |-> v]
        /\ contents' = [contents EXCEPT ![k] = v] /\ res' = res /\ rows' = rows /\ threw' = threw
        /\ Allocated' = Allocated
    BY DEF Base, Begin, tree, Allocated
  <1> PICK rng2 : rng2 = [rng EXCEPT ![rootPageId] = rng[rootPageId] \cup {k}]
    OBVIOUS
  <1>3. /\ Tops = {rootPageId} /\ Tops' = Tops /\ ~Pending' /\ Open = {} /\ Open' = {k}
        /\ LowPage = 0 /\ LowPage' = 0
    BY <1>2 DEF Tops, Pending, Open, LowPage
  <1>4. /\ IsTree(nodes, Tops, live, h, rng, par)
        /\ Heights(rootPageId, Tops, live, h)
        /\ Filled(nodes, rootPageId, live, LowPage)
        /\ RootFilled
        /\ Faithful(Stored(nodes, live), contents, Open, threw)
    BY <1>1 DEF TreeState
  <1>5. rootPageId \in live /\ rootPageId \in Allocated /\ rootPageId \in Pages /\ k \in Int
        /\ rng \in [Pages -> SUBSET Int]
    BY <1>3, <1>4, KeysAreNumbers DEF IsTree, TreeOK, GhostType, Allocated
  <1>6. IsTree(nodes, Tops, live, h, rng2, par)
    BY <1>3, <1>4, <1>5, WidenTop
  <1>7. Linked(nodes, rootPageId, <<>>, live, h)
    BY DEF Linked
  <1>8. Seeks(nodes, rootPageId, <<>>, live, h, rng2, rootPageId, k)
    <2>1. k \in rng2[rootPageId]
      BY <1>5
    <2>2. \A q \in live : h[q] = h[rootPageId] => q = rootPageId
      <3>1. h \in [Pages -> Nat] /\ live \subseteq Pages
        BY <1>4 DEF IsTree, GhostType
      <3> QED
        BY <1>3, <1>4, <1>5, <3>1 DEF Heights
    <2> QED
      BY <2>1, <2>2 DEF Seeks, Target
  <1>9. RootFilled'
    BY <1>2, <1>4 DEF RootFilled
  <1>10. Faithful(Stored(nodes, live), contents', {k}, threw)
    <2>1. contents' = [contents EXCEPT ![k] = v] /\ contents \in [AllKeys -> Values \cup {NotFound}]
      BY <1>2 DEF Base
    <2> DEFINE S == Stored(nodes, live)
    <2> HIDE DEF S
    <2> QED
      BY <1>3, <1>4, <2>1 DEF Faithful
  <1>11. TreeState(live, h, rng2, par)'
    BY <1>2, <1>3, <1>4, <1>6, <1>7, <1>8, <1>9, <1>10 DEF TreeState
  <1>12. Base'
    <2>1. /\ op' \in [kind : {"insert", "remove"}, key : AllKeys, value : Values \cup {NotFound}]
          /\ contents' \in [AllKeys -> Values \cup {NotFound}]
          /\ contents'[op'.key] = op'.value
      BY <1>2 DEF Base
    <2>2. op'.value \in IF op'.kind = "insert" THEN Values ELSE {NotFound}
      BY <1>2
    <2> QED
      BY <1>2, <1>5, <2>1, <2>2 DEF Base
  <1>13. Carried(live, h, live, h)
    BY <1>2 DEF Carried
  <1> QED
    BY <1>11, <1>12, <1>13 DEF Carries

\* k belongs below p, and below no other page as high.
Sought(live, h, rng, p, k) ==
    /\ p \in live /\ k \in rng[p]
    /\ \A q \in live : h[q] = h[p] /\ k \in rng[q] => q = p

\* Below a page where k belongs it is the child that UpperBound chooses.
LEMMA ChildSought ==
    ASSUME NEW N, NEW root, NEW tops, tops = {root},
           NEW live, NEW h, NEW rng, NEW par,
           IsTree(N, tops, live, h, rng, par), Heights(root, tops, live, h),
           NEW p, ~N[p].isLeaf, NEW k \in Int, Sought(live, h, rng, p, k),
           NEW c, c = ChildFor(N[p], k)
    PROVE  /\ c \in live \ tops /\ h[c] = h[p] - 1 /\ h[p] > 0
           /\ \E rng2 : IsTree(N, tops, live, h, rng2, par) /\ Sought(live, h, rng2, c, k)
  <1> DEFINE idx == UpperBound(N[p].keys, k)
  <1>1. /\ p \in live /\ p \in Pages /\ h[p] \in Nat /\ h[root] \in Nat /\ k \in rng[p]
        /\ root \in live /\ rng \in [Pages -> SUBSET Int] /\ live \subseteq Pages
        /\ h \in [Pages -> Nat]
    BY DEF IsTree, TreeOK, GhostType, Sought
  <1>2. /\ N[p] \in Node /\ Ascending(N[p].keys)
        /\ Len(N[p].children) = Len(N[p].keys) + 1 /\ Injective(N[p].children)
    BY <1>1, LiveNode DEF IsTree
  <1>3. /\ N[p].keys \in Seq(Int) /\ Len(N[p].keys) \in Nat
        /\ DOMAIN N[p].children = 1 .. Len(N[p].children)
    BY <1>2, NodeFields
  <1>4. IsSlot(N[p].keys, k, idx)
    BY <1>2, <1>3, UpperBoundIsSlot
  <1>5. idx \in Nat /\ idx + 1 \in DOMAIN N[p].children /\ c = N[p].children[idx + 1]
    <2>1. idx \in 0 .. Len(N[p].keys)
      BY <1>4 DEF IsSlot
    <2>2. c = N[p].children[idx + 1]
      BY DEF ChildFor
    <2> HIDE DEF idx
    <2> QED
      BY <1>2, <1>3, <2>1, <2>2
  <1> HIDE DEF idx
  <1>6. c \in live \ tops /\ c \in Pages /\ h[c] = h[p] - 1 /\ h[p] > 0 /\ par[c] = p
    BY <1>1, <1>5, ChildOf DEF IsTree
  <1> PICK rng2 : rng2 = [rng EXCEPT ![c] = rng[c] \cup {k}]
    OBVIOUS
  <1>7. IsTree(N, tops, live, h, rng2, par)
    <2>1. Fits(N, rng, p, c, {k})
      <3> SUFFICES ASSUME NEW j \in DOMAIN N[p].children, N[p].children[j] = c
                   PROVE  k \in rng[p] /\ IsSlot(N[p].keys, k, j - 1)
        BY DEF Fits
      <3>1. j = idx + 1
        BY <1>2, <1>5 DEF Injective
      <3>2. j - 1 = idx
        BY <1>5, <3>1
      <3> QED
        BY <1>1, <1>4, <3>2
    <2>2. /\ IsTree(N, tops, live, h, rng, par) /\ c \in live /\ k \in Int /\ c \notin tops
          /\ Fits(N, rng, par[c], c, {k})
      BY <1>6, <2>1
    <2>3. IsTree(N, tops, live, h, [rng EXCEPT ![c] = rng[c] \cup {k}], par)
      BY ONLY <2>2, WidenLive
    <2> QED
      BY <2>3
  <1>8. ASSUME NEW q \in live, h[q] = h[c], k \in rng2[q], q # c
        PROVE  FALSE
    <2>1. k \in rng[q] /\ q \in Pages
      BY <1>1, <1>8
    <2>2. h[c] < h[root]
      BY <1>6 DEF Heights
    <2>3. q \in live \ tops
      BY <1>1, <1>8, <2>2
    <2>4. par[q] \in live /\ IsChild(N, par[q], q)
      BY <2>3 DEF IsTree, TreeOK
    <2>5. PICK j \in DOMAIN N[par[q]].children : N[par[q]].children[j] = q
      BY <2>4 DEF IsChild
    <2> PICK a : a = par[q]
      OBVIOUS
    <2>6. /\ h[q] = h[a] - 1 /\ h[a] \in Nat /\ k \in rng[a] /\ IsSlot(N[a].keys, k, j - 1)
      <3>1. a \in live /\ ~N[a].isLeaf /\ j \in DOMAIN N[a].children /\ N[a].children[j] = q
        BY <2>4, <2>5 DEF IsChild
      <3>2. /\ h[N[a].children[j]] = h[a] - 1 /\ h[a] \in Nat
            /\ \A x \in rng[N[a].children[j]] : x \in rng[a] /\ IsSlot(N[a].keys, x, j - 1)
        <4>1. TreeOK(N, tops, live, h, rng, par) /\ GhostType(live, h, rng, par)
          BY DEF IsTree
        <4> QED
          BY ONLY <3>1, <4>1, ChildOf
      <3> QED
        BY <2>1, <3>1, <3>2
    <2>7. h[a] = h[p]
      BY <1>1, <1>6, <1>8, <2>6
    <2>8. a = p
      BY <2>4, <2>6, <2>7 DEF Sought
    <2>9. j - 1 = idx
      BY <1>3, <1>4, <2>6, <2>8, SlotUnique
    <2>10. j \in 1 .. Len(N[p].children) /\ Len(N[p].children) \in Nat
      <3>1. j \in DOMAIN N[p].children
        <4>1. par[q] = p
          BY <2>8
        <4> QED
          BY ONLY <2>5, <4>1
      <3>2. DOMAIN N[p].children = 1 .. Len(N[p].children) /\ Len(N[p].children) \in Nat
        BY ONLY <1>2, <1>3
      <3> QED
        BY ONLY <3>1, <3>2
    <2>11. j = idx + 1
      BY <1>5, <2>9, <2>10
    <2> QED
      BY <1>5, <1>8, <2>5, <2>8, <2>11
  <1>9. Sought(live, h, rng2, c, k)
    BY <1>1, <1>6, <1>8 DEF Sought
  <1> QED
    BY <1>6, <1>7, <1>9

\* A call goes one level down, to the child where the key belongs.
LEMMA DescendKeeps ==
    ASSUME NEW live, NEW h, NEW rng, NEW par, TreeState(live, h, rng, par), Base,
           Descend
    PROVE  Carries(live, h)
  <1>1. TreeState(live, h, rng, par)
    OBVIOUS
  <1> DEFINE idx == UpperBound(nodes[cur].keys, op.key)
             c == nodes[cur].children[idx + 1]
             step == [page |-> cur, idx |-> idx]
  <1>2. /\ Base /\ pc = "descend" /\ pc' = "descend" /\ path' = Append(path, step)
        /\ nodes' = nodes /\ rootPageId' = rootPageId /\ metaRoot' = metaRoot
        /\ cur' = c /\ op' = op
        /\ contents' = contents /\ res' = res /\ rows' = rows /\ threw' = threw
        /\ Allocated' = Allocated /\ ~nodes[cur].isLeaf /\ path \in Seq(Frame)
    BY DEF Base, Descend, tree, Allocated
  <1>3. /\ Tops = {rootPageId} /\ Tops' = Tops /\ ~Pending' /\ Open' = Open
        /\ LowPage = 0 /\ LowPage' = 0
    BY <1>2 DEF Tops, Pending, Open, LowPage
  <1>4. /\ IsTree(nodes, Tops, live, h, rng, par)
        /\ Heights(rootPageId, Tops, live, h)
        /\ Linked(nodes, rootPageId, path, live, h)
        /\ Seeks(nodes, rootPageId, path, live, h, rng, cur, op.key)
        /\ Filled(nodes, rootPageId, live, LowPage)
        /\ RootFilled
        /\ Faithful(Stored(nodes, live), contents, Open, threw)
    BY <1>1, <1>2 DEF TreeState
  <1>5. /\ cur \in live /\ cur \in Pages /\ h[cur] = h[rootPageId] - Len(path) /\ Len(path) \in Nat
        /\ cur = Target(nodes, rootPageId, path) /\ h[rootPageId] \in Nat /\ h[cur] \in Nat
        /\ op.key \in rng[cur] /\ op.key \in Int /\ rootPageId \in Tops
    <2>1. cur = Target(nodes, rootPageId, path) /\ op.key \in rng[cur]
      BY <1>4 DEF Seeks
    <2>2. op.key \in Int
      BY <1>2, KeysAreNumbers DEF Base
    <2> QED
      BY <1>2, <1>3, <1>4, <2>1, <2>2, TargetIs
  <1>6. /\ nodes[cur] \in Node /\ Ascending(nodes[cur].keys)
        /\ Len(nodes[cur].children) = Len(nodes[cur].keys) + 1 /\ Injective(nodes[cur].children)
    BY <1>2, <1>4, <1>5, LiveNode DEF IsTree
  <1>7. /\ nodes[cur].keys \in Seq(Int) /\ Len(nodes[cur].keys) \in Nat
        /\ DOMAIN nodes[cur].children = 1 .. Len(nodes[cur].children)
    BY <1>6, NodeFields
  <1>8. IsSlot(nodes[cur].keys, op.key, idx)
    BY <1>5, <1>6, <1>7, UpperBoundIsSlot
  <1>9. idx \in 0 .. Len(nodes[cur].keys) /\ idx \in Nat /\ idx + 1 \in DOMAIN nodes[cur].children
    <2>1. idx \in 0 .. Len(nodes[cur].keys)
      BY <1>8 DEF IsSlot
    <2> HIDE DEF idx
    <2> QED
      BY <1>6, <1>7, <2>1
  <1> HIDE DEF idx
  <1>10. /\ c \in live \ Tops /\ c \in Pages /\ h[c] = h[cur] - 1 /\ h[cur] > 0
         /\ par[c] = cur
    <2>1. /\ TreeOK(nodes, Tops, live, h, rng, par) /\ GhostType(live, h, rng, par)
          /\ cur \in live /\ ~nodes[cur].isLeaf /\ idx + 1 \in DOMAIN nodes[cur].children
      BY <1>2, <1>4, <1>5, <1>9 DEF IsTree
    <2>2. /\ c \in live \ Tops /\ c \in Pages /\ cur \in Pages
          /\ h[c] = h[cur] - 1 /\ h[cur] \in Nat /\ h[cur] > 0
          /\ par[c] = cur
      BY ONLY <2>1, ChildOf
    <2> QED
      BY ONLY <2>2
  <1>11. /\ step \in Frame /\ path' \in Seq(Frame) /\ Len(path') = Len(path) + 1 /\ path' # <<>>
         /\ Last(path') = step /\ \A i \in 1 .. Len(path) : path'[i] = path[i]
         /\ path'[Len(path) + 1] = step
    <2>1. step \in Frame
      BY <1>5, <1>9 DEF Frame
    <2> HIDE DEF step
    <2>2. path' \in Seq(Frame) /\ Len(path') = Len(path) + 1 /\ path'[Len(path) + 1] = step
          /\ \A i \in 1 .. Len(path) : path'[i] = path[i]
      BY <1>2, <1>5, <2>1
    <2>3. path' # <<>>
      BY <1>5, <2>2, EmptySeq
    <2> QED
      BY <2>1, <2>2, <2>3 DEF Last
  <1>12. Target(nodes, rootPageId, path') = c
    BY <1>11 DEF Target
  <1>13. Linked(nodes, rootPageId, path', live, h)
    <2> DEFINE n == Len(path)
    <2>1. ASSUME NEW i \in 1 .. n + 1
          PROVE  /\ path'[i].page \in live /\ ~nodes[path'[i].page].isLeaf
                 /\ path'[i].idx \in 0 .. Len(nodes[path'[i].page].keys)
                 /\ h[path'[i].page] = h[rootPageId] - i + 1
                 /\ i < n + 1 =>
                       path'[i + 1].page = nodes[path'[i].page].children[path'[i].idx + 1]
      <3>1. CASE i = n + 1
        <4>1. path'[i].page = cur /\ path'[i].idx = idx
          <5>1. path'[i] = step
            <6> HIDE DEF step
            <6> QED
              BY <1>11, <3>1
          <5> QED
            BY <5>1
        <4>2. h[cur] = h[rootPageId] - i + 1
          BY <1>5, <3>1
        <4> QED
          BY <1>2, <1>5, <1>9, <3>1, <4>1, <4>2
      <3>2. CASE i # n + 1
        <4>1. i \in 1 .. n
          BY <1>5, <3>2
        <4>2. path'[i] = path[i]
          BY <1>11, <4>1
        <4>3. /\ path[i].page \in live /\ ~nodes[path[i].page].isLeaf
              /\ path[i].idx \in 0 .. Len(nodes[path[i].page].keys)
              /\ h[path[i].page] = h[rootPageId] - i + 1
              /\ i < n => path[i + 1].page = nodes[path[i].page].children[path[i].idx + 1]
          BY <1>4, <4>1 DEF Linked
        <4>4. CASE i < n
          <5>1. path'[i + 1] = path[i + 1]
            <6>1. i + 1 \in 1 .. n
              BY <1>5, <4>4
            <6> QED
              BY <1>11, <6>1
          <5> QED
            BY <4>2, <4>3, <4>4, <5>1
        <4>5. CASE i = n
          <5>1. path # <<>> /\ Last(path) = path[n]
            BY <1>2, <4>1, <4>5 DEF Last
          <5>2. cur = nodes[path[n].page].children[path[n].idx + 1]
            BY <1>5, <5>1 DEF Target
          <5>3. path'[i + 1].page = cur
            BY <1>11, <4>5
          <5> QED
            BY <4>2, <4>3, <4>5, <5>2, <5>3
        <4> QED
          BY <1>5, <4>1, <4>4, <4>5
      <3> QED
        BY <3>1, <3>2
    <2>2. path'[1].page = rootPageId
      <3>1. CASE path = <<>>
        <4>1. n = 0 /\ cur = rootPageId
          BY <1>2, <1>5, <3>1 DEF Target
        <4>2. path'[1] = step
          <5> HIDE DEF step
          <5> QED
            BY <1>11, <4>1
        <4> QED
          BY <4>1, <4>2
      <3>2. CASE path # <<>>
        <4>1. 1 \in 1 .. n /\ path[1].page = rootPageId
          <5>1. n > 0
            BY <1>2, <3>2, FrontOf
          <5> QED
            BY <1>4, <1>5, <3>2, <5>1 DEF Linked
        <4> QED
          BY <1>11, <4>1
      <3> QED
        BY <3>1, <3>2
    <2> QED
      BY <1>11, <2>1, <2>2 DEF Linked
  <1>14. PICK rng2 : IsTree(nodes, Tops, live, h, rng2, par) /\ Sought(live, h, rng2, c, op.key)
    <2>1. Sought(live, h, rng, cur, op.key)
      BY <1>4, <1>5 DEF Sought, Seeks
    <2>2. c = ChildFor(nodes[cur], op.key)
      BY DEF ChildFor, idx
    <2> PICK root, tops, k, p, x : /\ root = rootPageId /\ tops = Tops /\ k = op.key /\ p = cur
                                   /\ x = c
      OBVIOUS
    <2>3. /\ tops = {root} /\ IsTree(nodes, tops, live, h, rng, par)
          /\ Heights(root, tops, live, h) /\ ~nodes[p].isLeaf /\ k \in Int
          /\ Sought(live, h, rng, p, k) /\ x = ChildFor(nodes[p], k)
      BY <1>2, <1>3, <1>4, <1>5, <2>1, <2>2
    <2>4. /\ x \in live \ tops /\ h[x] = h[p] - 1
          /\ \E rng2 : IsTree(nodes, tops, live, h, rng2, par) /\ Sought(live, h, rng2, x, k)
      BY ONLY <2>3, ChildSought
    <2> QED
      BY <2>4
  <1>15. Seeks(nodes, rootPageId, path', live, h, rng2, c, op.key)
    BY <1>12, <1>14 DEF Seeks, Sought
  <1>16. TreeState(live, h, rng2, par)'
    <2>1. RootFilled'
      BY <1>2, <1>4 DEF RootFilled
    <2> HIDE DEF c, step
    <2> QED
      BY <1>2, <1>3, <1>4, <1>13, <1>14, <1>15, <2>1 DEF TreeState
  <1>17. Base'
    <2>1. c \in Allocated
      BY <1>4, <1>10 DEF IsTree, TreeOK, Allocated
    <2> HIDE DEF c, step
    <2> QED
      BY <1>2, <1>11, <2>1 DEF Base
  <1>18. Carried(live, h, live, h)
    BY <1>2 DEF Carried
  <1> QED
    BY <1>16, <1>17, <1>18 DEF Carries

\* What a step leaves as it was that changes no page.
SamePages ==
    /\ nodes' = nodes /\ rootPageId' = rootPageId /\ metaRoot' = metaRoot /\ op' = op /\ cur' = cur
    /\ contents' = contents /\ rows' = rows /\ Allocated' = Allocated

\* A call that returns to the one that made it, with nothing to be done there.
LEMMA QuietReturn ==
    ASSUME NEW live, NEW h, NEW rng, NEW par, TreeState(live, h, rng, par), Base,
           NoSplitUp \/ NoUnderflowUp
    PROVE  Carries(live, h)
  <1>1. TreeState(live, h, rng, par)
    OBVIOUS
  <1>2. /\ Base /\ pc = "return" /\ pc' = "return" /\ path # <<>> /\ path' = Front(path)
                                                                     /\ SamePages
        /\ threw' = threw
        /\ \/ op.kind = "insert" /\ res.promoted = -1 /\ res' = NoSplit
           \/ op.kind = "remove" /\ ~res.underflow /\ res' = [underflow |-> FALSE]
    BY DEF NoSplitUp, NoUnderflowUp, Returning, PopCall, Return, tree, SamePages, Allocated
  <1>3. /\ Tops = {rootPageId} /\ Tops' = Tops /\ ~Pending /\ ~Pending' /\ Open = {} /\ Open' = {}
        /\ LowPage = 0 /\ LowPage' = 0
    BY <1>2 DEF Tops, Pending, Open, LowPage, NoSplit, SamePages
  <1>4. /\ IsTree(nodes, Tops, live, h, rng, par)
        /\ Heights(rootPageId, Tops, live, h)
        /\ Linked(nodes, rootPageId, path, live, h)
        /\ Filled(nodes, rootPageId, live, LowPage)
        /\ RootFilled
        /\ Faithful(Stored(nodes, live), contents, Open, threw)
    BY <1>1 DEF TreeState
  <1>5. path \in Seq(Frame) /\ rootPageId \in Tops
    BY <1>2, <1>3 DEF Base
  <1>6. Linked(nodes, rootPageId, path', live, h) /\ path' \in Seq(Frame)
    <2>1. Above(nodes, live, h, h[Last(path).page], nodes, live, h)
      BY DEF Above
    <2>2. Linked(nodes, rootPageId, Front(path), live, h) /\ Front(path) \in Seq(Frame)
      BY <1>2, <1>4, <1>5, <2>1, PathPops
    <2> QED
      BY <1>2, <2>2
  <1>7. RootFilled'
    BY <1>2, <1>4 DEF RootFilled, SamePages
  <1>8. TreeState(live, h, rng, par)'
    BY <1>2, <1>3, <1>4, <1>6, <1>7 DEF TreeState, SamePages
  <1>9. Base'
    <2>1. res' \in Result /\ res' \in ResultOf(op'.kind)
      <3>1. CASE op.kind = "insert"
        BY <1>2, <3>1, ResultsAre DEF SamePages
      <3>2. CASE op.kind = "remove"
        BY <1>2, <3>2, ResultsAre DEF SamePages
      <3> QED
        BY <1>2, <3>1, <3>2
    <2> QED
      BY <1>2, <1>6, <2>1 DEF Base, SamePages
  <1>10. Carried(live, h, live, h)
    BY <1>2 DEF Carried, SamePages
  <1> QED
    BY <1>8, <1>9, <1>10 DEF Carries

\* insert or remove returns.
LEMMA QuietFinish ==
    ASSUME NEW live, NEW h, NEW rng, NEW par, TreeState(live, h, rng, par), Base,
           InsertReturns \/ RemoveReturns
    PROVE  Carries(live, h)
  <1>1. TreeState(live, h, rng, par)
    OBVIOUS
  <1>2. /\ Base /\ pc = "return" /\ pc' = "idle" /\ path = <<>> /\ path' = path /\ SamePages
        /\ threw' = threw /\ res' = res
        /\ \/ op.kind = "insert" /\ res.promoted = -1
           \/ op.kind = "remove" /\ ~RootEmpty
    BY DEF InsertReturns, RemoveReturns, RemoveReturned, Finish, tree, SamePages, Allocated
  <1>3. /\ Tops = {rootPageId} /\ Tops' = Tops /\ ~Pending /\ ~Pending' /\ Open = {} /\ Open' = {}
        /\ LowPage' = 0
    BY <1>2 DEF Tops, Pending, Open, LowPage, SamePages
  <1>4. /\ IsTree(nodes, Tops, live, h, rng, par)
        /\ Heights(rootPageId, Tops, live, h)
        /\ Linked(nodes, rootPageId, path, live, h)
        /\ Filled(nodes, rootPageId, live, LowPage)
        /\ RootFilled
        /\ Faithful(Stored(nodes, live), contents, Open, threw)
    BY <1>1 DEF TreeState
  <1>5. Filled(nodes, rootPageId, live, 0)
    <2>1. LowPage = 0 \/ LowPage = rootPageId
      BY <1>2 DEF LowPage, Target
    <2>2. 0 \notin live
      BY <1>4, TreePagesAssumption DEF IsTree, GhostType, Pages
    <2> QED
      BY <1>4, <2>1, <2>2 DEF Filled
  <1>6. RootFilled'
    <2>1. nodes[rootPageId].keys \in Seq(Int)
      <3>1. rootPageId \in live
        BY <1>3, <1>4 DEF IsTree, TreeOK
      <3>2. nodes[rootPageId] \in Node
        BY <1>4, <3>1, LiveNode DEF IsTree
      <3> QED
        BY <3>2, NodeFields
    <2>2. nodes[rootPageId].isLeaf \/ Len(nodes[rootPageId].keys) > 0
      BY <1>2, <1>4, <2>1, EmptySeq DEF RootFilled, RootEmpty
    <2> QED
      BY <1>2, <2>2 DEF RootFilled, SamePages
  <1>7. TreeState(live, h, rng, par)'
    BY <1>2, <1>3, <1>4, <1>5, <1>6 DEF TreeState, SamePages
  <1>8. Base'
    BY <1>2 DEF Base, SamePages
  <1>9. Carried(live, h, live, h)
    BY <1>2 DEF Carried, SamePages
  <1> QED
    BY <1>7, <1>8, <1>9 DEF Carries

\* No live leaf but the one that was found may hold the key.
LEMMA FoundAlone ==
    ASSUME NEW live, NEW h, NEW rng, NEW par, TreeState(live, h, rng, par), Base,
           pc = "descend", nodes[cur].isLeaf
    PROVE  /\ cur \in live /\ h[cur] = 0 /\ op.key \in rng[cur] /\ op.key \in Int
              /\ op.key \in AllKeys
           /\ cur = Target(nodes, rootPageId, path) /\ Tops = {rootPageId} /\ path \in Seq(Frame)
           /\ ~Contains(nodes[cur].keys, op.key) => \A e \in Stored(nodes, live) : e[1] # op.key
           /\ \A x \in live \ {cur} : \A e : Holds(nodes, x, e) => e[1] # op.key
  <1>1. /\ IsTree(nodes, Tops, live, h, rng, par)
           /\ Seeks(nodes, rootPageId, path, live, h, rng, cur, op.key)
        /\ Linked(nodes, rootPageId, path, live, h) /\ Tops = {rootPageId} /\ path \in Seq(Frame)
        /\ op.key \in AllKeys /\ op.key \in Int
    BY KeysAreNumbers DEF TreeState, Tops, Pending, Base
  <1>2. cur = Target(nodes, rootPageId, path) /\ op.key \in rng[cur]
    BY <1>1 DEF Seeks
  <1>3. cur \in live
    <2>1. /\ IsTree(nodes, {rootPageId}, live, h, rng, par) /\ rootPageId \in {rootPageId}
          /\ path \in Seq(Frame) /\ Linked(nodes, rootPageId, path, live, h)
      BY <1>1
    <2>2. Target(nodes, rootPageId, path) \in live
      BY ONLY <2>1, TargetIs
    <2> QED
      BY <1>2, <2>2
  <1>4. h[cur] = 0
    BY <1>1, <1>3, LiveNode DEF IsTree
  <1>5. ASSUME NEW x \in live, NEW e, Holds(nodes, x, e)
        PROVE  /\ e[1] = op.key => x = cur
               /\ \E j \in DOMAIN nodes[x].keys : nodes[x].keys[j] = e[1]
    <2>1. nodes[x].isLeaf /\ e \in EntriesOf(nodes[x].keys, nodes[x].values)
      BY <1>5 DEF Holds
    <2>2. PICK j \in DOMAIN nodes[x].keys : e = <<nodes[x].keys[j], nodes[x].values[j]>>
      BY <2>1 DEF EntriesOf
    <2>3. e[1] = nodes[x].keys[j]
      BY <2>2
    <2>4. h[x] = 0 /\ e[1] \in rng[x]
      BY <1>1, <2>1, <2>3, LiveNode DEF IsTree
    <2> QED
      BY <1>1, <1>4, <2>3, <2>4 DEF Seeks
  <1>6. ~Contains(nodes[cur].keys, op.key) => \A e \in Stored(nodes, live) : e[1] # op.key
    <2> SUFFICES ASSUME NEW e \in Stored(nodes, live), e[1] = op.key
                 PROVE  Contains(nodes[cur].keys, op.key)
      OBVIOUS
    <2>1. PICK x \in live : Holds(nodes, x, e)
      BY StoredHas
    <2>2. x = cur /\ \E j \in DOMAIN nodes[x].keys : nodes[x].keys[j] = e[1]
      BY <1>5, <2>1
    <2>3. PICK j \in DOMAIN nodes[cur].keys : nodes[cur].keys[j] = op.key
      BY <2>2
    <2>4. nodes[cur].keys \in Seq(Int) /\ DOMAIN nodes[cur].keys = 1 .. Len(nodes[cur].keys)
      BY <1>1, <1>3, LiveNode, NodeFields DEF IsTree
    <2> QED
      BY <2>3, <2>4 DEF Contains
  <1> QED
    BY <1>1, <1>2, <1>3, <1>4, <1>5, <1>6

\* The key to be removed is not there.
LEMMA QuietRemove ==
    ASSUME NEW live, NEW h, NEW rng, NEW par, TreeState(live, h, rng, par), Base,
           LeafRemoveAbsent
    PROVE  Carries(live, h)
  <1>1. TreeState(live, h, rng, par)
    OBVIOUS
  <1>2. /\ Base /\ pc = "descend" /\ pc' = "return" /\ path' = path /\ SamePages
        /\ threw' = threw /\ res' = [underflow |-> FALSE] /\ op.kind = "remove"
        /\ nodes[cur].isLeaf /\ ~Contains(nodes[cur].keys, op.key)
    BY DEF LeafRemoveAbsent, AtLeaf, Return, tree, SamePages, Allocated
  <1>3. /\ Tops = {rootPageId} /\ Tops' = Tops /\ ~Pending /\ ~Pending' /\ Open = {op.key}
           /\ Open' = {}
        /\ LowPage = 0 /\ LowPage' = 0
    BY <1>2 DEF Tops, Pending, Open, LowPage, SamePages
  <1>4. /\ IsTree(nodes, Tops, live, h, rng, par)
        /\ Heights(rootPageId, Tops, live, h)
        /\ Linked(nodes, rootPageId, path, live, h)
        /\ Filled(nodes, rootPageId, live, LowPage)
        /\ RootFilled
        /\ Faithful(Stored(nodes, live), contents, Open, threw)
    BY <1>1 DEF TreeState
  <1>5. Faithful(Stored(nodes, live), contents, {}, threw)
    <2>1. \A e \in Stored(nodes, live) : e[1] # op.key
      BY <1>1, <1>2, FoundAlone
    <2>2. contents[op.key] = NotFound
      BY <1>2 DEF Base
    <2> DEFINE S == Stored(nodes, live)
    <2> HIDE DEF S
    <2> QED
      BY <1>3, <1>4, <2>1, <2>2 DEF Faithful
  <1>6. RootFilled'
    BY <1>2, <1>4 DEF RootFilled, SamePages
  <1>7. TreeState(live, h, rng, par)'
    BY <1>2, <1>3, <1>4, <1>5, <1>6 DEF TreeState, SamePages
  <1>8. Base'
    <2>1. res' \in Result /\ res' \in ResultOf("remove")
      BY <1>2, ResultsAre
    <2> QED
      BY <1>2, <2>1 DEF Base, SamePages
  <1>9. Carried(live, h, live, h)
    BY <1>2 DEF Carried, SamePages
  <1> QED
    BY <1>7, <1>8, <1>9 DEF Carries

\* The leaf cannot be split, and insert throws.
LEMMA LeafThrows ==
    ASSUME NEW live, NEW h, NEW rng, NEW par, TreeState(live, h, rng, par), Base,
           LeafSplitThrows
    PROVE  Carries(live, h)
  <1>1. TreeState(live, h, rng, par)
    OBVIOUS
  <1>2. /\ Base /\ pc = "descend" /\ pc' = "idle" /\ path' = <<>> /\ SamePages
        /\ threw' = TRUE /\ res' = res
        /\ nodes[cur].isLeaf /\ ~Contains(nodes[cur].keys, op.key)
    BY DEF LeafSplitThrows, AtLeaf, Throw, tree, SamePages, Allocated
  <1>3. /\ Tops = {rootPageId} /\ Tops' = Tops /\ ~Pending /\ ~Pending' /\ Open = {op.key}
           /\ Open' = {}
        /\ LowPage = 0 /\ LowPage' = 0
    BY <1>2 DEF Tops, Pending, Open, LowPage, SamePages
  <1>4. /\ IsTree(nodes, Tops, live, h, rng, par)
        /\ Heights(rootPageId, Tops, live, h)
        /\ Filled(nodes, rootPageId, live, LowPage)
        /\ RootFilled
        /\ Faithful(Stored(nodes, live), contents, Open, threw)
    BY <1>1 DEF TreeState
  <1>5. Faithful(Stored(nodes, live), contents, {}, TRUE)
    <2>1. \A e \in Stored(nodes, live) : e[1] # op.key
      BY <1>1, <1>2, FoundAlone
    <2> DEFINE S == Stored(nodes, live)
    <2> HIDE DEF S
    <2> QED
      BY <1>3, <1>4, <2>1 DEF Faithful
  <1>6. RootFilled' /\ Linked(nodes, rootPageId, <<>>, live, h)
    BY <1>2, <1>4 DEF RootFilled, SamePages, Linked
  <1>7. TreeState(live, h, rng, par)'
    BY <1>2, <1>3, <1>4, <1>5, <1>6 DEF TreeState, SamePages
  <1>8. Base'
    BY <1>2 DEF Base, SamePages
  <1>9. Carried(live, h, live, h)
    BY <1>2 DEF Carried, SamePages
  <1> QED
    BY <1>7, <1>8, <1>9 DEF Carries

\* The page above cannot be split, or there can be no new root: what was split below stays so,
\* and its right half belongs to no tree any more.
LEMMA UpThrows ==
    ASSUME NEW live, NEW h, NEW rng, NEW par, TreeState(live, h, rng, par), Base,
           InternalSplitThrows \/ GrowRootThrows
    PROVE  Carries(live, h)
  <1>1. TreeState(live, h, rng, par)
    OBVIOUS
  <1>2. /\ Base /\ pc = "return" /\ pc' = "idle" /\ path' = <<>> /\ SamePages
        /\ threw' = TRUE /\ res' = res /\ op.kind = "insert" /\ res.promoted # -1
    BY DEF InternalSplitThrows, GrowRootThrows, Returning, Throw, tree, SamePages,
        Allocated
  <1>3. /\ Tops = {rootPageId, res.child} /\ Tops' = {rootPageId} /\ Pending /\ ~Pending'
        /\ Open = {} /\ Open' = {} /\ LowPage = 0 /\ LowPage' = 0
    BY <1>2 DEF Tops, Pending, Open, LowPage, SamePages
  <1>4. /\ IsTree(nodes, Tops, live, h, rng, par)
        /\ Heights(rootPageId, Tops, live, h)
        /\ Linked(nodes, rootPageId, path, live, h)
        /\ Halves(nodes, rootPageId, path, live, h, rng, res.promoted, res.child)
        /\ Filled(nodes, rootPageId, live, LowPage)
        /\ RootFilled
        /\ Faithful(Stored(nodes, live), contents, Open, threw)
    BY <1>1, <1>3 DEF TreeState
  <1>5. res.child # rootPageId
    <2>1. /\ path \in Seq(Frame) /\ rootPageId \in Tops
      BY <1>2, <1>3 DEF Base
    <2>2. CASE path = <<>>
      BY <1>4, <2>2 DEF Halves, Target
    <2>3. CASE path # <<>>
      <3>1. h[Target(nodes, rootPageId, path)] < h[rootPageId]
        BY <1>4, <2>1, <2>3, TargetIs
      <3>2. h[res.child] = h[Target(nodes, rootPageId, path)]
        BY <1>4 DEF Halves, Beside
      <3>3. h[rootPageId] \in Nat
        BY <1>4, <2>1, TargetIs
      <3> QED
        BY <3>1, <3>2, <3>3
    <2> QED
      BY <2>2, <2>3
  <1>6. Tops \ {res.child} = {rootPageId}
    BY <1>3, <1>5
  <1>7. PICK live2 \in SUBSET live :
           res.child \notin live2 /\ IsTree(nodes, {rootPageId}, live2, h, rng, par)
    BY <1>3, <1>4, <1>6, DetachTop
  <1>8. Heights(rootPageId, {rootPageId}, live2, h)
    BY <1>3, <1>4, <1>7 DEF Heights
  <1>9. Filled(nodes, rootPageId, live2, 0)
    BY <1>3, <1>4, <1>7 DEF Filled
  <1>10. Faithful(Stored(nodes, live2), contents, {}, TRUE)
    <2>1. Stored(nodes, live2) \subseteq Stored(nodes, live)
      BY <1>7 DEF Stored
    <2> DEFINE S == Stored(nodes, live)
               S2 == Stored(nodes, live2)
    <2> HIDE DEF S, S2
    <2> QED
      BY <1>3, <1>4, <2>1 DEF Faithful
  <1>11. RootFilled' /\ Linked(nodes, rootPageId, <<>>, live2, h)
    BY <1>2, <1>4 DEF RootFilled, SamePages, Linked
  <1>12. TreeState(live2, h, rng, par)'
    BY <1>2, <1>3, <1>7, <1>8, <1>9, <1>10, <1>11 DEF TreeState, SamePages
  <1>13. Base'
    BY <1>2 DEF Base, SamePages
  <1>14. Carried(live, h, live2, h)
    BY <1>2, <1>7 DEF Carried, SamePages
  <1> QED
    BY <1>12, <1>13, <1>14 DEF Carries

\* x has the entries of the leaf that was found, and X as those of the key op.key.
LeafHas(x, X) ==
    /\ EntriesOf(x.keys, x.values)
         = {e \in EntriesOf(nodes[cur].keys, nodes[cur].values) : e[1] # op.key} \cup X
    /\ X = {<<op.key, op.value>>} \/ (X = {} /\ op.value = NotFound)

\* The leaf that was found becomes x.
LeafTurns(rng, x, X) ==
    /\ LocalOK(x, 0, rng[cur]) /\ x.isLeaf /\ Shape(x)
    /\ nodes' = [nodes EXCEPT ![cur] = x]
    /\ LeafHas(x, X)

\* The entries are then what was asked for.
LEMMA LeafIsAsked ==
    ASSUME Base, NEW live, NEW h, NEW rng, NEW par, TreeState(live, h, rng, par),
           pc = "descend", nodes[cur].isLeaf, NEW x, NEW X, LeafHas(x, X), x.isLeaf,
           NEW N2, N2[cur] = x, \A y \in live \ {cur} : N2[y] = nodes[y]
    PROVE  Faithful(Stored(N2, live), contents, {}, threw)
  <1> DEFINE k == op.key
             S == Stored(nodes, live)
             S2 == Stored(N2, live)
             E == EntriesOf(nodes[cur].keys, nodes[cur].values)
  <1>1. Faithful(S, contents, Open, threw) /\ contents[k] = op.value /\ Open = {k}
    BY DEF TreeState, Base, Open
  <1>2. cur \in live /\ k \in AllKeys
        /\ \A y \in live \ {cur} : \A e : Holds(nodes, y, e) => e[1] # k
    BY FoundAlone
  <1>3. S2 = {e \in S : e[1] # k} \cup X
    <2>1. \A e : e \in EntriesOf(x.keys, x.values) <=> (e \in E /\ e[1] # k) \/ e \in X
      BY DEF LeafHas
    <2>2. \A e : Holds(N2, cur, e) <=> (e \in E /\ e[1] # k) \/ e \in X
      BY <2>1 DEF Holds
    <2>3. \A e : Holds(nodes, cur, e) <=> e \in E
      BY DEF Holds
    <2>4. \A y \in live \ {cur} : \A e : Holds(N2, y, e) <=> Holds(nodes, y, e)
      BY DEF Holds
    <2> HIDE DEF E
    <2>5. ASSUME NEW e PROVE e \in S2 <=> (e \in S /\ e[1] # k) \/ e \in X
      <3>1. e \in S <=> \E y \in live : Holds(nodes, y, e)
        BY StoredHas
      <3>2. e \in S2 <=> \E y \in live : Holds(N2, y, e)
        BY StoredHas
      <3> HIDE DEF S, S2, k
      <3> QED
        BY <1>2, <2>2, <2>3, <2>4, <3>1, <3>2
    <2> HIDE DEF S, S2, k
    <2> QED
      BY <2>5
  <1>4. X = {<<k, contents[k]>>} \/ (X = {} /\ contents[k] = NotFound)
    BY <1>1 DEF LeafHas
  <1> HIDE DEF S, S2, k
  <1> QED
    BY <1>1, <1>2, <1>3, <1>4 DEF Faithful, S2

\* What the call does but for the pages.
LeafReturns ==
    /\ pc = "descend" /\ nodes[cur].isLeaf
    /\ pc' = "return" /\ path' = path /\ rootPageId' = rootPageId /\ metaRoot' = metaRoot
    /\ op' = op /\ cur' = cur /\ contents' = contents /\ rows' = rows /\ threw' = threw
    /\ res' \in ResultOf(op.kind) /\ res' \in Result
    /\ op.kind = "insert" => res'.promoted = -1

\* A call that changes the leaf where the key belongs, and leaves it full enough.
LeafMoves(live, rng) ==
    /\ LeafReturns
    /\ \E x, X : LeafTurns(rng, x, X)
    /\ Filled(nodes', rootPageId, live, LowPage')

\* A step that changes the leaf where the key belongs, and no other page.
LEMMA LeafStep ==
    ASSUME Base, NEW live, NEW h, NEW rng, NEW par, TreeState(live, h, rng, par),
           LeafReturns, NEW x, NEW X, LeafTurns(rng, x, X),
           Filled(nodes', rootPageId, live, LowPage')
    PROVE  Carries(live, h)
  <1> DEFINE k == op.key
  <1>1. /\ IsTree(nodes, Tops, live, h, rng, par)
        /\ Heights(rootPageId, Tops, live, h)
        /\ Linked(nodes, rootPageId, path, live, h)
        /\ RootFilled
        /\ PagesOK(nodes) /\ rows \in Rows
    BY DEF TreeState, Base, LeafReturns
  <1>2. /\ cur \in live /\ h[cur] = 0 /\ k \in rng[cur] /\ k \in Int /\ k \in AllKeys
        /\ cur = Target(nodes, rootPageId, path) /\ Tops = {rootPageId} /\ path \in Seq(Frame)
        /\ \A y \in live \ {cur} : \A e : Holds(nodes, y, e) => e[1] # k
    BY FoundAlone DEF LeafReturns
  <1>3. /\ x \in Node /\ x.isLeaf /\ Shape(x) /\ LocalOK(x, h[cur], rng[cur])
        /\ nodes' = [nodes EXCEPT ![cur] = x]
    BY <1>2 DEF LeafTurns, LocalOK
  <1>4. cur \in Allocated /\ live \subseteq Allocated
    BY <1>1, <1>2 DEF IsTree, TreeOK, Allocated
  <1>5. /\ PagesOK(nodes') /\ DOMAIN nodes' = Allocated /\ nodes'[cur] = x
        /\ \A p \in Allocated \ {cur} : nodes'[p] = nodes[p]
    <2>1. SavesOver(cur, x, nodes')
      BY <1>3, <1>4 DEF SavesOver
    <2> QED
      BY ONLY <1>1, <2>1, SavedOver
  <1>6. LeafChanges(nodes, live, cur, h, rng, nodes')
    BY <1>2, <1>3, <1>4, <1>5 DEF LeafChanges, LeafReturns
  <1>7. IsTree(nodes', Tops, live, h, rng, par)
    BY <1>1, <1>6, LeafChangesTree
  <1>8. Above(nodes, live, h, h[cur], nodes', live, h)
    BY <1>2, <1>4, <1>5 DEF Above
  <1>9. /\ Linked(nodes', rootPageId, path, live, h)
        /\ path = <<>> <=> cur = rootPageId
        /\ path # <<>> => nodes'[rootPageId] = nodes[rootPageId]
    <2>1. /\ rootPageId \in Tops
          /\ Above(nodes, live, h, h[Target(nodes, rootPageId, path)], nodes', live, h)
      BY <1>2, <1>8
    <2> HIDE DEF k
    <2>2. /\ Linked(nodes', rootPageId, path, live, h)
          /\ path = <<>> <=> Target(nodes, rootPageId, path) = rootPageId
          /\ path # <<>> => nodes'[rootPageId] = nodes[rootPageId]
      BY ONLY <1>1, <1>2, <2>1, PathStays
    <2> QED
      BY <1>2, <2>2
  <1>10. Tops' = Tops /\ ~Pending' /\ Open' = {} /\ Open = {k}
    BY <1>2 DEF Tops, Pending, Open, LeafReturns
  <1>11. RootFilled'
    <2>1. CASE path = <<>>
      BY <1>3, <1>5, <1>9, <2>1 DEF RootFilled, LeafReturns
    <2>2. CASE path # <<>>
      BY <1>1, <1>9, <2>2 DEF RootFilled, LeafReturns
    <2> QED
      BY <2>1, <2>2
  <1>13. Faithful(Stored(nodes', live), contents, {}, threw)
    BY <1>3, <1>4, <1>5, LeafIsAsked DEF LeafReturns, LeafTurns
  <1>14. TreeState(live, h, rng, par)'
    <2>1. Faithful(Stored(nodes', live), contents', Open', threw')
      BY <1>10, <1>13 DEF LeafReturns
    <2>2. pc' = "return" /\ rootPageId' = rootPageId /\ path' = path
      BY DEF LeafReturns
    <2> HIDE DEF k
    <2> QED
      BY <1>1, <1>7, <1>9, <1>10, <1>11, <2>1, <2>2 DEF TreeState
  <1>15. Base'
    <2> HIDE DEF k
    <2>1. Allocated' = Allocated
      BY <1>5 DEF Allocated
    <2> QED
      BY <1>5, <2>1 DEF Base, LeafReturns
  <1>16. Carried(live, h, live, h)
    <2>1. live \subseteq Allocated /\ Allocated' = Allocated
      BY <1>4, <1>5 DEF Allocated
    <2>2. \A p \in Allocated \ live : nodes'[p] = nodes[p]
      BY <1>2, <1>5
    <2> QED
      BY <2>1, <2>2 DEF Carried
  <1> QED
    BY <1>14, <1>15, <1>16 DEF Carries

\* So such calls keep the tree.
LEMMA LeafKeeps ==
    ASSUME NEW live, NEW h, NEW rng, NEW par, TreeState(live, h, rng, par), Base,
           LeafMoves(live, rng)
    PROVE  Carries(live, h)
  <1>1. PICK x, X : LeafTurns(rng, x, X)
    BY DEF LeafMoves
  <1> QED
    BY <1>1, LeafStep DEF LeafMoves

-----------------------------------------------------------------------------
(* The entries of a leaf, with one put in, taken out or given another value *)

\* A leaf with the key k, or without it.
LEMMA LeafFacts ==
    ASSUME NEW live, NEW h, NEW rng, NEW par, TreeState(live, h, rng, par), Base,
           pc = "descend", nodes[cur].isLeaf
    PROVE  LET n == nodes[cur]
               i == LowerBound(n.keys, op.key) + 1 IN
           /\ n \in Node /\ Shape(n) /\ Ascending(n.keys) /\ n.keys \in Seq(Int)
               /\ n.values \in Seq(Values)
           /\ Len(n.keys) \in Nat /\ DOMAIN n.keys = 1 .. Len(n.keys) /\ Len(n.values) = Len(n.keys)
           /\ n.nextLeaf \in Pages \cup {-1} /\ n = Leaf(n.keys, n.values, n.nextLeaf)
           /\ \A j \in DOMAIN n.keys : n.keys[j] \in rng[cur] /\ n.keys[j] \in AllKeys
           /\ i \in 1 .. Len(n.keys) + 1
           /\ \A j \in 1 .. i - 1 : n.keys[j] < op.key
           /\ \A j \in i .. Len(n.keys) : op.key <= n.keys[j]
           /\ Contains(n.keys, op.key) => i \in 1 .. Len(n.keys) /\ n.keys[i] = op.key
           /\ ~Contains(n.keys, op.key) => \A j \in i .. Len(n.keys) : op.key < n.keys[j]
           /\ rng[cur] # {}
  <1> DEFINE n == nodes[cur]
             k == op.key
             i == LowerBound(n.keys, k) + 1
  <1>1. IsTree(nodes, Tops, live, h, rng, par) /\ cur \in live /\ k \in Int
    BY FoundAlone DEF TreeState
  <1>2. /\ n \in Node /\ Ascending(n.keys) /\ Len(n.values) = Len(n.keys) /\ rng[cur] # {}
        /\ \A j \in DOMAIN n.keys : n.keys[j] \in rng[cur] /\ n.keys[j] \in AllKeys
    BY <1>1, LiveNode DEF IsTree
  <1>3. /\ n.keys \in Seq(Int) /\ n.values \in Seq(Values) /\ n.nextLeaf \in Pages \cup {-1}
        /\ Len(n.keys) \in Nat /\ DOMAIN n.keys = 1 .. Len(n.keys)
    BY <1>2, NodeFields
  <1>4. Shape(n) /\ n = Leaf(n.keys, n.values, n.nextLeaf)
    <2>1. cur \in Allocated
      BY <1>1 DEF IsTree, TreeOK, Allocated
    <2>2. Shape(n)
      BY <2>1, PagesAre DEF Base
    <2> QED
      BY <2>2 DEF Shape
  <1>5. /\ LowerBound(n.keys, k) \in 0 .. Len(n.keys)
        /\ \A j \in DOMAIN n.keys : j <= LowerBound(n.keys, k) <=> n.keys[j] < k
        /\ \A j \in DOMAIN n.keys : n.keys[j] = k => j = LowerBound(n.keys, k) + 1
    <2> HIDE DEF n, k
    <2> QED
      BY <1>1, <1>2, <1>3, LowerBoundFinds
  <1>6. Contains(n.keys, k) <=> \E j \in 1 .. Len(n.keys) : n.keys[j] = k
    BY <1>3 DEF Contains
  <1>7. \A j \in 1 .. Len(n.keys) : n.keys[j] \in Int
    BY <1>3
  <1> DEFINE l == LowerBound(n.keys, k)
  <1>8. /\ i \in 1 .. Len(n.keys) + 1
        /\ \A j \in 1 .. i - 1 : n.keys[j] < k
        /\ \A j \in i .. Len(n.keys) : k <= n.keys[j]
        /\ Contains(n.keys, k) => i \in 1 .. Len(n.keys) /\ n.keys[i] = k
        /\ ~Contains(n.keys, k) => \A j \in i .. Len(n.keys) : k < n.keys[j]
    <2>1. i = l + 1
      OBVIOUS
    <2> HIDE DEF i, l, n, k
    <2>2. /\ l \in 0 .. Len(n.keys) /\ \A j \in 1 .. Len(n.keys) : j <= l <=> n.keys[j] < k
      BY <1>3, <1>5 DEF l
    <2>3. \A j \in 1 .. Len(n.keys) : n.keys[j] = k => j = i
      BY <1>3, <1>5, <2>1 DEF l
    <2>4. i \in 1 .. Len(n.keys) + 1 /\ i - 1 = l
      BY <1>3, <2>1, <2>2
    <2>5. \A j \in 1 .. i - 1 : n.keys[j] < k
      BY <1>3, <2>2, <2>4
    <2>6. \A j \in i .. Len(n.keys) : k <= n.keys[j]
      BY <1>1, <1>3, <1>7, <2>1, <2>2
    <2>7. Contains(n.keys, k) => i \in 1 .. Len(n.keys) /\ n.keys[i] = k
      BY <1>6, <2>3
    <2>8. ~Contains(n.keys, k) => \A j \in i .. Len(n.keys) : k < n.keys[j]
      BY <1>1, <1>3, <1>6, <1>7, <2>4, <2>6
    <2> QED
      BY <2>4, <2>5, <2>6, <2>7, <2>8
  <1> HIDE DEF l
  <1> QED
    BY <1>2, <1>3, <1>4, <1>8

-----------------------------------------------------------------------------
(* Inserting: the leaf has room, or an entry of the key already *)

\* An entry with another value.
Replaced(s, i, v, t) == t = [s EXCEPT ![i] = v]

\* The entries of a leaf after one value was replaced.
LEMMA EntryReplaced ==
    ASSUME NEW T, NEW keys \in Seq(Int), NEW values \in Seq(T), Len(values) = Len(keys),
           Ascending(keys), NEW i \in 1 .. Len(keys), NEW v \in T, NEW w, Replaced(values, i, v, w)
    PROVE  /\ w \in Seq(T) /\ Len(w) = Len(keys)
           /\ EntriesOf(keys, w) = {e
               \in EntriesOf(keys, values) : e[1] # keys[i]} \cup {<<keys[i], v>>}
  <1> USE DEF Replaced
  <1> DEFINE k == keys[i]
             rk == RemoveAt(keys, i)
             rv == RemoveAt(values, i)
  <1>1. k \in Int /\ i \in 1 .. Len(values) /\ [keys EXCEPT ![i] = k] = keys
    OBVIOUS
  <1>2. /\ i \in 1 .. Len(rk) + 1 /\ rk \in Seq(Int) /\ InsertAt(rk, i, k) = keys
    BY <1>1, ReplacedKey
  <1>3. rv \in Seq(T) /\ w = InsertAt(rv, i, v)
    BY <1>1, ReplacedKey
  <1>4. Len(rk) = Len(keys) - 1 /\ Len(rv) = Len(values) - 1
    BY <1>1, RemoveAtEffect
  <1>5. EntriesOf(rk, rv) = {e \in EntriesOf(keys, values) : e[1] # k}
    BY EntriesRemove
  <1>6. w \in Seq(T) /\ Len(w) = Len(keys)
    OBVIOUS
  <1>7. EntriesOf(InsertAt(rk, i, k), InsertAt(rv, i, v)) = EntriesOf(rk, rv) \cup {<<k, v>>}
    <2>1. Len(rv) = Len(rk)
      BY <1>4
    <2> HIDE DEF rk, rv, k
    <2> QED
      BY ONLY <1>1, <1>2, <1>3, <2>1, v \in T, EntriesInsert
  <1> HIDE DEF rk, rv, k
  <1>8. EntriesOf(keys, w) = {e \in EntriesOf(keys, values) : e[1] # k} \cup {<<k, v>>}
    BY <1>2, <1>3, <1>5, <1>7
  <1> QED
    BY <1>6, <1>8 DEF k

\* A node with another value.
LEMMA ValueUpdate ==
    ASSUME NEW b, NEW keys, NEW values, NEW children, NEW next,
           NEW n, n = NodeOf(b, keys, values, children, next), NEW j, NEW v, NEW w,
               Replaced(values, j, v, w)
    PROVE  WithValue(n, j, v) = NodeOf(b, keys, w, children, next)
  BY DEF NodeOf, WithValue, Replaced

\* A leaf with another value.
LEMMA WithValueIs ==
    ASSUME NEW n, n.isLeaf, Shape(n), NEW i, NEW v, NEW w, Replaced(n.values, i, v, w)
    PROVE  WithValue(n, i, v) = Leaf(n.keys, w, n.nextLeaf)
  <1> DEFINE b == n.isLeaf
             keys == n.keys
             values == n.values
             next == n.nextLeaf
             children == n.children
  <1>1. n = NodeOf(b, keys, values, children, next)
    BY DEF Shape, Leaf, NodeOf
  <1>4. b = TRUE /\ children = <<>>
    BY DEF Shape, Leaf
  <1> HIDE DEF b, keys, values, next, children
  <1>2. Replaced(values, i, v, w)
    BY DEF values
  <1>3. WithValue(n, i, v) = NodeOf(b, keys, w, children, next)
    BY ONLY <1>1, <1>2, ValueUpdate
  <1> QED
    BY <1>3, <1>4 DEF Leaf, NodeOf, keys, next

\* A key put among others.
LEMMA KeyPut ==
    ASSUME NEW s \in Seq(Int), NEW i \in 1 .. Len(s) + 1, NEW e \in Int
    PROVE  InsertAt(s, i, e) \in Seq(Int) /\ Inserted(s, i, e, InsertAt(s, i, e))
  <1> DEFINE T == Int
  <1>1. s \in Seq(T) /\ e \in T
    OBVIOUS
  <1> HIDE DEF T
  <1>2. InsertAt(s, i, e) \in Seq(T) /\ Inserted(s, i, e, InsertAt(s, i, e))
    BY <1>1, InsertAtIs
  <1> QED
    BY <1>2 DEF T

\* The value of a key that is there is replaced.
LEMMA UpsertMoves ==
    ASSUME NEW live, NEW h, NEW rng, NEW par, TreeState(live, h, rng, par), Base,
           LeafUpsert
    PROVE  LeafMoves(live, rng)
  <1>1. TreeState(live, h, rng, par)
    OBVIOUS
  <1> DEFINE n == nodes[cur]
             k == op.key
             i == LowerBound(n.keys, k) + 1
             X == {<<k, op.value>>}
  <1> PICK w : w = [n.values EXCEPT ![i] = op.value]
    OBVIOUS
  <1> PICK x : x = Leaf(n.keys, w, n.nextLeaf)
    OBVIOUS
  <1>2. /\ Base /\ pc = "descend" /\ n.isLeaf /\ op.kind = "insert" /\ Contains(n.keys, k)
        /\ nodes' = [nodes EXCEPT ![cur].values[i] = op.value] /\ res' = NoSplit
        /\ op.value \in Values
    BY DEF Base, LeafUpsert, AtLeaf, Return
  <1>3. LeafReturns
    BY <1>2, ResultsAre DEF LeafUpsert, Return, LeafReturns, NoSplit
  <1>4. /\ n \in Node /\ Shape(n) /\ Ascending(n.keys) /\ n.keys \in Seq(Int)
           /\ n.values \in Seq(Values)
        /\ Len(n.values) = Len(n.keys) /\ n.nextLeaf \in Pages \cup {-1}
        /\ n = Leaf(n.keys, n.values, n.nextLeaf)
        /\ \A j \in DOMAIN n.keys : n.keys[j] \in rng[cur] /\ n.keys[j] \in AllKeys
        /\ i \in 1 .. Len(n.keys) /\ n.keys[i] = k /\ rng[cur] # {}
    BY <1>1, <1>2, LeafFacts
  <1>5. /\ w \in Seq(Values) /\ Len(w) = Len(n.keys)
        /\ EntriesOf(n.keys, w) = {e \in EntriesOf(n.keys, n.values) : e[1] # k} \cup X
    <2>1. Replaced(n.values, i, op.value, w)
      BY DEF Replaced
    <2> PICK ks, vs, j, v : ks = n.keys /\ vs = n.values /\ j = i /\ v = op.value
      OBVIOUS
    <2> HIDE DEF n, i, k
    <2>2. /\ ks \in Seq(Int) /\ vs \in Seq(Values) /\ Len(vs) = Len(ks) /\ Ascending(ks)
          /\ j \in 1 .. Len(ks) /\ v \in Values /\ Replaced(vs, j, v, w)
      BY <1>2, <1>4, <2>1
    <2>3. /\ w \in Seq(Values) /\ Len(w) = Len(ks)
          /\ EntriesOf(ks, w)
               = {e \in EntriesOf(ks, vs) : e[1] # ks[j]} \cup {<<ks[j], v>>}
      BY ONLY <2>2, EntryReplaced
    <2> QED
      BY <1>4, <2>3
  <1>6. nodes' = [nodes EXCEPT ![cur] = x]
    <2>1. WithValue(n, i, op.value) = x
      <3>1. Replaced(n.values, i, op.value, w) /\ n.isLeaf
        BY <1>2 DEF Replaced
      <3> QED
        BY ONLY <1>4, <3>1, x = Leaf(n.keys, w, n.nextLeaf), WithValueIs
    <2>2. nodes' = [nodes EXCEPT ![cur] = WithValue(n, i, op.value)]
      BY <1>2 DEF WithValue
    <2> QED
      BY <2>1, <2>2
  <1>7. x \in Node /\ Shape(x) /\ x.isLeaf /\ x.keys = n.keys /\ x.values = w
    BY <1>4, <1>5, LeafIsNode, ShapeOf DEF Leaf
  <1>8. LocalOK(x, 0, rng[cur])
    <2> HIDE DEF n
    <2> QED
      BY <1>4, <1>5, <1>7 DEF LocalOK
  <1>9. LeafTurns(rng, x, X)
    <2> HIDE DEF i
    <2> QED
      BY <1>5, <1>6, <1>7, <1>8 DEF LeafTurns, LeafHas
  <1>10. Filled(nodes', rootPageId, live, LowPage')
    <2>1. Filled(nodes, rootPageId, live, LowPage) /\ LowPage = 0 /\ LowPage' = 0
      BY <1>1, <1>2, <1>3 DEF TreeState, LowPage, LeafReturns
    <2>2. \A p \in live : Len(nodes'[p].keys) = Len(nodes[p].keys)
      <3>1. live \subseteq DOMAIN nodes
        BY <1>1 DEF TreeState, IsTree, TreeOK
      <3> QED
        BY <1>6, <1>7, <3>1
    <2> QED
      BY <2>1, <2>2 DEF Filled
  <1> HIDE DEF X
  <1> QED
    BY <1>1, <1>2, <1>3, <1>9, <1>10 DEF LeafMoves

\* The leaf with the entry put in.
LeafPut(n, k, v) ==
    LET i == LowerBound(n.keys, k) + 1 IN Leaf(InsertAt(n.keys, i, k), InsertAt(n.values, i, v),
        n.nextLeaf)

\* The leaf with the new entry.
LEMMA LeafPutIs ==
    ASSUME NEW live, NEW h, NEW rng, NEW par, TreeState(live, h, rng, par), Base,
           pc = "descend", nodes[cur].isLeaf, ~Contains(nodes[cur].keys, op.key),
               op.value \in Values,
           NEW x, x = LeafPut(nodes[cur], op.key, op.value)
    PROVE  /\ LeafWith(nodes[cur], op.key, op.value) = x
           /\ LocalOK(x, 0, rng[cur]) /\ x.isLeaf /\ Shape(x) /\ x \in Node
           /\ EntriesOf(x.keys, x.values)
                = {e \in EntriesOf(nodes[cur].keys, nodes[cur].values) : e[1] # op.key}
                    \cup {<<op.key, op.value>>}
           /\ Len(x.keys) = Len(nodes[cur].keys) + 1 /\ Len(nodes[cur].keys) \in Nat
           /\ x.nextLeaf = nodes[cur].nextLeaf /\ x.nextLeaf \in Pages \cup {-1}
  <1> DEFINE n == nodes[cur]
             k == op.key
             i == LowerBound(n.keys, k) + 1
             ks == InsertAt(n.keys, i, k)
             vs == InsertAt(n.values, i, op.value)
  <1>1. /\ n \in Node /\ Shape(n) /\ Ascending(n.keys) /\ n.keys \in Seq(Int)
           /\ n.values \in Seq(Values)
        /\ Len(n.keys) \in Nat /\ DOMAIN n.keys = 1 .. Len(n.keys)
        /\ Len(n.values) = Len(n.keys) /\ n.nextLeaf \in Pages \cup {-1}
        /\ n = Leaf(n.keys, n.values, n.nextLeaf)
        /\ \A j \in DOMAIN n.keys : n.keys[j] \in rng[cur] /\ n.keys[j] \in AllKeys
        /\ i \in 1 .. Len(n.keys) + 1 /\ rng[cur] # {}
        /\ \A j \in 1 .. i - 1 : n.keys[j] < k
        /\ \A j \in i .. Len(n.keys) : k < n.keys[j]
    BY LeafFacts
  <1>2. k \in rng[cur] /\ k \in Int /\ k \in AllKeys
    BY FoundAlone
  <1>3. x = Leaf(ks, vs, n.nextLeaf)
    BY DEF LeafPut
  <1> HIDE DEF i, n, k
  <1>4. /\ ks \in Seq(Int) /\ Len(ks) = Len(n.keys) + 1 /\ DOMAIN ks = 1 .. Len(n.keys) + 1
        /\ \A j \in 1 .. Len(n.keys) + 1 :
              ks[j] = IF j < i THEN n.keys[j] ELSE IF j = i THEN k ELSE n.keys[j - 1]
    <2>1. ks \in Seq(Int) /\ Inserted(n.keys, i, k, ks)
      BY ONLY <1>1, <1>2, KeyPut
    <2> QED
      BY <2>1 DEF Inserted
  <1>5. vs \in Seq(Values) /\ Len(vs) = Len(n.keys) + 1
    <2>1. i \in 1 .. Len(n.values) + 1
      BY <1>1
    <2> QED
      BY <1>1, <2>1, InsertAtEffect
  <1>6. Ascending(ks)
    BY <1>1, <1>2, AscendingInsert
  <1>7. \A j \in DOMAIN ks : ks[j] \in rng[cur] /\ ks[j] \in AllKeys
    <2> TAKE j \in DOMAIN ks
    <2>1. ks[j] = IF j < i THEN n.keys[j] ELSE IF j = i THEN k ELSE n.keys[j - 1]
      BY <1>4
    <2>2. (j < i => j \in DOMAIN n.keys) /\ (j > i => j - 1 \in DOMAIN n.keys)
        /\ (j < i \/ j = i \/ j > i)
      <3> DEFINE l == Len(n.keys)
      <3>1. l \in Nat /\ DOMAIN n.keys = 1 .. l /\ i \in 1 .. l + 1 /\ j \in 1 .. l + 1
        BY <1>1, <1>4
      <3> HIDE DEF l
      <3> QED
        BY ONLY <3>1
    <2> QED
      BY <1>1, <1>2, <2>1, <2>2
  <1>8. EntriesOf(ks, vs) = EntriesOf(n.keys, n.values) \cup {<<k, op.value>>}
    BY <1>1, <1>2, EntriesInsert
  <1>9. \A e \in EntriesOf(n.keys, n.values) : e[1] # k
    <2> SUFFICES ASSUME NEW j \in 1 .. Len(n.keys) PROVE n.keys[j] # k
      BY <1>1 DEF EntriesOf
    <2>1. n.keys[j] \in Int
      BY <1>1
    <2>2. j \in 1 .. i - 1 \/ j \in i .. Len(n.keys)
      BY <1>1
    <2>3. n.keys[j] < k \/ k < n.keys[j]
      BY ONLY <1>1, <2>2
    <2> QED
      BY ONLY <1>2, <2>1, <2>3
  <1>10. LeafWith(n, k, op.value) = x
    <2> DEFINE nk == n.keys
               nv == n.values
    <2>1. LeafWith(n, k, op.value) = WithEntries(n, ks, vs)
      BY DEF LeafWith, WithEntries, i
    <2>2. WithEntries(n, ks, vs) = Leaf(ks, vs, n.nextLeaf)
      <3>1. n.isLeaf
        BY DEF n
      <3> HIDE DEF ks, vs
      <3> QED
        BY <1>1, <3>1, LentLeafIs
    <2> QED
      BY <1>3, <2>1, <2>2
  <1> HIDE DEF ks, vs
  <1>11. x \in Node /\ Shape(x) /\ x.isLeaf /\ x.keys = ks /\ x.values = vs
      /\ x.nextLeaf = n.nextLeaf
    <2>1. x \in Node
      BY <1>1, <1>3, <1>4, <1>5, LeafIsNode
    <2>2. Shape(x) /\ x.isLeaf
      BY ONLY <1>3, ShapeOf
    <2>3. x.keys = ks /\ x.values = vs /\ x.nextLeaf = n.nextLeaf
      BY ONLY <1>3 DEF Leaf
    <2> QED
      BY <2>1, <2>2, <2>3
  <1>12. LocalOK(x, 0, rng[cur])
    BY <1>1, <1>4, <1>5, <1>6, <1>7, <1>11 DEF LocalOK
  <1> QED
    BY <1>1, <1>4, <1>8, <1>9, <1>10, <1>11, <1>12 DEF n, k

\* The entry is put into a leaf that has room for it.
LEMMA InsertMoves ==
    ASSUME NEW live, NEW h, NEW rng, NEW par, TreeState(live, h, rng, par), Base,
           LeafInsert
    PROVE  LeafMoves(live, rng)
  <1>1. TreeState(live, h, rng, par)
    OBVIOUS
  <1> DEFINE X == {<<op.key, op.value>>}
  <1> PICK x : x = LeafPut(nodes[cur], op.key, op.value)
    OBVIOUS
  <1>2. /\ Base /\ pc = "descend" /\ nodes[cur].isLeaf /\ op.kind = "insert"
        /\ ~Contains(nodes[cur].keys, op.key)
        /\ nodes' = [nodes EXCEPT ![cur] = LeafWith(nodes[cur], op.key, op.value)] /\ res' = NoSplit
        /\ op.value \in Values
    BY DEF Base, LeafInsert, AtLeaf, Return
  <1>3. LeafReturns
    BY <1>2, ResultsAre DEF LeafInsert, Return, LeafReturns, NoSplit
  <1>4. /\ LeafWith(nodes[cur], op.key, op.value) = x
        /\ LocalOK(x, 0, rng[cur]) /\ x.isLeaf /\ Shape(x) /\ x \in Node
        /\ EntriesOf(x.keys, x.values)
                = {e \in EntriesOf(nodes[cur].keys, nodes[cur].values) : e[1] # op.key} \cup X
        /\ Len(x.keys) = Len(nodes[cur].keys) + 1 /\ Len(nodes[cur].keys) \in Nat
    BY <1>1, <1>2, LeafPutIs
  <1>5. LeafTurns(rng, x, X)
    BY <1>2, <1>4 DEF LeafTurns, LeafHas
  <1>6. Filled(nodes', rootPageId, live, LowPage')
    <2>1. Filled(nodes, rootPageId, live, LowPage) /\ LowPage = 0 /\ LowPage' = 0
      BY <1>1, <1>2, <1>3 DEF TreeState, LowPage, LeafReturns
    <2>2. live \subseteq DOMAIN nodes /\ 0 \notin live
      BY <1>1, TreePagesAssumption DEF TreeState, IsTree, TreeOK, GhostType, Pages
    <2>3. ASSUME NEW p \in live \ {rootPageId} PROVE Len(nodes'[p].keys) >= BTREE_MIN
      <3>1. Len(nodes[p].keys) >= BTREE_MIN
        BY <2>1, <2>2 DEF Filled
      <3>2. CASE p = cur
        <4>1. Len(nodes'[p].keys) = Len(nodes[cur].keys) + 1
          BY <1>2, <1>4, <2>2, <3>2
        <4> QED
          BY <1>4, <3>1, <3>2, <4>1, KeysAreNumbers
      <3>3. CASE p # cur
        BY <1>2, <2>2, <3>1, <3>3
      <3> QED
        BY <3>2, <3>3
    <2> QED
      BY <2>1, <2>2, <2>3 DEF Filled
  <1> HIDE DEF X
  <1> QED
    BY <1>1, <1>2, <1>3, <1>5, <1>6 DEF LeafMoves

\* The entry is removed from its leaf.
LEMMA RemoveMoves ==
    ASSUME NEW live, NEW h, NEW rng, NEW par, TreeState(live, h, rng, par), Base,
           LeafRemove
    PROVE  LeafMoves(live, rng)
  <1>1. TreeState(live, h, rng, par)
    OBVIOUS
  <1> DEFINE n == nodes[cur]
             k == op.key
             i == LowerBound(n.keys, k) + 1
             ks == RemoveAt(n.keys, i)
             vs == RemoveAt(n.values, i)
  <1> PICK x : x = Leaf(ks, vs, n.nextLeaf)
    OBVIOUS
  <1>2. /\ Base /\ pc = "descend" /\ n.isLeaf /\ op.kind = "remove" /\ Contains(n.keys, k)
        /\ nodes' = [nodes EXCEPT ![cur] = WithEntries(n, ks, vs)]
        /\ res' = [underflow |-> Underflows(WithEntries(n, ks, vs))]
        /\ op.value = NotFound
    BY DEF Base, LeafRemove, AtLeaf, Return, WithEntries
  <1>3. /\ n \in Node /\ Shape(n) /\ Ascending(n.keys) /\ n.keys \in Seq(Int)
           /\ n.values \in Seq(Values)
        /\ Len(n.keys) \in Nat /\ DOMAIN n.keys = 1 .. Len(n.keys)
        /\ Len(n.values) = Len(n.keys) /\ n.nextLeaf \in Pages \cup {-1}
        /\ \A j \in DOMAIN n.keys : n.keys[j] \in rng[cur] /\ n.keys[j] \in AllKeys
        /\ i \in 1 .. Len(n.keys) /\ n.keys[i] = k /\ rng[cur] # {}
    BY <1>1, <1>2, LeafFacts
  <1>4. WithEntries(n, ks, vs) = x
    <2> HIDE DEF ks, vs, n
    <2> QED
      BY <1>2, <1>3, LentLeafIs
  <1>5. nodes' = [nodes EXCEPT ![cur] = x] /\ res' = [underflow |-> Underflows(x)]
    <2> HIDE DEF ks, vs, n
    <2> QED
      BY <1>2, <1>4
  <1>6. LeafReturns
    <2>1. res' \in ResultOf("remove") /\ res' \in Result
      BY <1>5, ResultsAre DEF Underflows
    <2> QED
      BY <1>2, <2>1 DEF LeafRemove, Return, LeafReturns
  <1> HIDE DEF i, n, k
  <1>7. /\ ks \in Seq(Int) /\ Len(ks) = Len(n.keys) - 1 /\ DOMAIN ks = 1 .. Len(n.keys) - 1
        /\ \A j \in 1 .. Len(n.keys) - 1 : ks[j] = IF j < i THEN n.keys[j] ELSE n.keys[j + 1]
    BY <1>3, RemoveAtEffect
  <1>8. vs \in Seq(Values) /\ Len(vs) = Len(n.keys) - 1
    <2>1. i \in 1 .. Len(n.values)
      BY <1>3
    <2> QED
      BY ONLY <1>3, <2>1, RemoveAtEffect
  <1>9. Ascending(ks)
    BY <1>3, AscendingRemove
  <1>10. \A j \in DOMAIN ks : ks[j] \in rng[cur] /\ ks[j] \in AllKeys
    <2> TAKE j \in DOMAIN ks
    <2>1. j \in 1 .. Len(n.keys) /\ j + 1 \in 1 .. Len(n.keys)
      <3> DEFINE l == Len(n.keys)
      <3>1. l \in Nat /\ j \in 1 .. l - 1
        BY <1>3, <1>7
      <3> HIDE DEF l
      <3> QED
        BY ONLY <3>1 DEF l
    <2>2. ks[j] = IF j < i THEN n.keys[j] ELSE n.keys[j + 1]
      BY <1>7
    <2> QED
      BY <1>3, <2>1, <2>2
  <1>11. EntriesOf(ks, vs) = {e \in EntriesOf(n.keys, n.values) : e[1] # k}
    BY <1>3, EntriesRemove
  <1> HIDE DEF ks, vs
  <1>12. x \in Node /\ Shape(x) /\ x.isLeaf /\ x.keys = ks /\ x.values = vs
    BY <1>3, <1>7, <1>8, LeafIsNode, ShapeOf DEF Leaf
  <1>13. LocalOK(x, 0, rng[cur])
    BY <1>3, <1>7, <1>8, <1>9, <1>10, <1>12 DEF LocalOK
  <1>14. LeafTurns(rng, x, {})
    BY <1>2, <1>5, <1>11, <1>12, <1>13 DEF LeafTurns, LeafHas, n, k
  <1>15. Filled(nodes', rootPageId, live, LowPage')
    <2>1. Filled(nodes, rootPageId, live, 0)
      BY <1>1, <1>2 DEF TreeState, LowPage
    <2>2. live \subseteq DOMAIN nodes /\ 0 \notin live
      BY <1>1, TreePagesAssumption DEF TreeState, IsTree, TreeOK, GhostType, Pages
    <2>3. LowPage' = IF Underflows(x) THEN Target(nodes', rootPageId, path) ELSE 0
      BY <1>2, <1>5, <1>6 DEF LowPage, LeafReturns
    <2>4. Target(nodes', rootPageId, path) = cur
      <3>1. /\ cur \in live /\ cur = Target(nodes, rootPageId, path) /\ rootPageId \in Tops
            /\ path \in Seq(Frame) /\ h[cur] = 0
        BY <1>1, <1>2, FoundAlone DEF n
      <3>2. IsTree(nodes, Tops, live, h, rng, par) /\ Linked(nodes, rootPageId, path, live, h)
        BY <1>1 DEF TreeState
      <3>3. Above(nodes, live, h, h[Target(nodes, rootPageId, path)], nodes', live, h)
        BY <1>5, <2>2, <3>1 DEF Above
      <3>4. /\ Linked(nodes', rootPageId, path, live, h)
            /\ Target(nodes', rootPageId, path) = Target(nodes, rootPageId, path)
        BY ONLY <3>1, <3>2, <3>3, PathStays
      <3> QED
        BY <3>1, <3>4
    <2>5. ASSUME NEW p \in live \ {rootPageId}
          PROVE  Len(nodes'[p].keys) >= IF p = LowPage' THEN BTREE_MIN - 1 ELSE BTREE_MIN
      <3>1. Len(nodes[p].keys) >= BTREE_MIN
        BY <2>1, <2>2 DEF Filled
      <3>2. CASE p = cur
        <4>1. Len(nodes'[p].keys) = Len(n.keys) - 1 /\ nodes[p] = n /\ nodes'[p] = x
          BY <1>5, <1>7, <1>12, <2>2, <3>2 DEF n
        <4>2. Len(n.keys) - 1 >= BTREE_MIN - 1
          BY <1>3, <3>1, <4>1, KeysAreNumbers
        <4>3. LowPage' # cur => Len(nodes'[p].keys) >= BTREE_MIN
          BY <1>3, <2>3, <2>4, <3>2, <4>1, KeysAreNumbers DEF Underflows
        <4> QED
          BY <3>2, <4>1, <4>2, <4>3
      <3>3. CASE p # cur
        <4>1. nodes'[p] = nodes[p] /\ Len(nodes[p].keys) >= BTREE_MIN
          BY <1>5, <2>2, <3>1, <3>3
        <4>2. p # LowPage'
          BY <2>2, <2>3, <2>4, <3>3
        <4> QED
          BY <4>1, <4>2
      <3> QED
        BY <3>2, <3>3
    <2> QED
      BY <2>5 DEF Filled
  <1> QED
    BY <1>1, <1>2, <1>6, <1>14, <1>15 DEF LeafMoves

-----------------------------------------------------------------------------
(* Inserting: a full leaf or node is split, and what is left over is handed up *)

\* The page p that a path leads to is split at r, and q is new.
SplitsAt(N, root, trail, live, h, rng, p, q, r, N2, h2, rng2) ==
    /\ trail \in Seq(Frame) /\ Linked(N, root, trail, live, h) /\ p = Target(N, root, trail)
    /\ q \in Pages \ live /\ r \in AllKeys /\ r \in rng[p]
    /\ \A x \in live \ {p} : N2[x] = N[x]
    /\ h2 = AsHigh(h, p, q) /\ rng2 = CutRange(rng, p, q, r) /\ Beside(p, q, r, h2, rng2)

\* Then the path still leads to p, which keeps its place in the tree.
IsSplitAt(N, root, trail, live, h, p, q, r, N2, h2, rng2) ==
    /\ Above(N, live, h, h[p], N2, live \cup {q}, h2)
    /\ Linked(N2, root, trail, live \cup {q}, h2)
    /\ Halves(N2, root, trail, live \cup {q}, h2, rng2, r, q)
    /\ \A x \in live : h2[x] = h[x]
    /\ h2[q] = h[p] /\ h[p] \in Nat /\ p \in live /\ root \in live
    /\ trail = <<>> <=> p = root
    /\ trail # <<>> => N2[root] = N[root]

\* And the new page is the right half of the other.
LEMMA HalvesOf ==
    ASSUME NEW N, NEW tops, NEW live, NEW h, NEW rng, NEW par, IsTree(N, tops, live, h, rng, par),
           NEW root \in tops, NEW trail, NEW p, NEW q, NEW r, NEW N2, NEW h2, NEW rng2,
           SplitsAt(N, root, trail, live, h, rng, p, q, r, N2, h2, rng2)
    PROVE  IsSplitAt(N, root, trail, live, h, p, q, r, N2, h2, rng2)
  <1> USE DEF SplitsAt
  <1>1. /\ live \subseteq Pages /\ h \in [Pages -> Nat] /\ rng \in [Pages -> SUBSET Int]
           /\ root \in live
    BY DEF IsTree, TreeOK, GhostType
  <1>2. p \in live /\ p \in Pages /\ h[p] \in Nat /\ p # q
    BY TargetIs
  <1>3. (\A x \in live : h2[x] = h[x]) /\ h2[q] = h[p]
    BY <1>1, <1>2 DEF AsHigh
  <1>4. Above(N, live, h, h[p], N2, live \cup {q}, h2)
    <2>1. \A x \in live : h[x] > h[p] => x # p
      BY <1>2
    <2> QED
      BY <1>3, <2>1 DEF Above
  <1>5. /\ Linked(N2, root, trail, live \cup {q}, h2)
        /\ Target(N2, root, trail) = Target(N, root, trail)
        /\ trail = <<>> <=> Target(N, root, trail) = root
        /\ trail # <<>> => /\ N2[root] = N[root] /\ Last(trail).page \in live \cup {q}
                           /\ N2[Last(trail).page] = N[Last(trail).page]
    <2> PICK live2 : live2 = live \cup {q}
      OBVIOUS
    <2>1. Above(N, live, h, h[Target(N, root, trail)], N2, live2, h2)
      BY <1>4
    <2>2. IsTree(N, tops, live, h, rng, par) /\ Linked(N, root, trail, live, h)
      OBVIOUS
    <2>3. root \in tops /\ trail \in Seq(Frame)
      OBVIOUS
    <2>4. /\ Linked(N2, root, trail, live2, h2)
          /\ Target(N2, root, trail) = Target(N, root, trail)
          /\ trail = <<>> <=> Target(N, root, trail) = root
          /\ trail # <<>> => /\ N2[root] = N[root] /\ Last(trail).page \in live2
                             /\ N2[Last(trail).page] = N[Last(trail).page]
      BY ONLY <2>1, <2>2, <2>3, PathStays
    <2> QED
      BY <2>4
  <1>6. r \in rng2[q] /\ rng2[q] \subseteq rng[p]
    <2>1. rng2[q] = {k \in rng[p] : r <= k} /\ r \in Int
      BY <1>1, <1>2, KeysAreNumbers DEF CutRange
    <2> QED
      BY <2>1
  <1>7. ASSUME trail # <<>>, NEW k \in rng2[q]
        PROVE  k \in rng2[Last(trail).page] /\ IsSlot(N2[Last(trail).page].keys, k, Last(trail).idx)
    <2> DEFINE a == Last(trail).page
    <2>1. /\ a \in live /\ h[a] \in Nat /\ h[p] = h[a] - 1
          /\ \A x \in rng[p] : x \in rng[a] /\ IsSlot(N[a].keys, x, Last(trail).idx)
      BY <1>7, TargetIs
    <2>2. a # p /\ a # q /\ a \in Pages
      BY <1>1, <1>2, <2>1
    <2>3. rng2[a] = rng[a]
      <3> HIDE DEF a
      <3> QED
        BY <1>1, <1>2, <2>2 DEF CutRange
    <2> QED
      BY <1>5, <1>6, <1>7, <2>1, <2>3
  <1>8. Halves(N2, root, trail, live \cup {q}, h2, rng2, r, q)
    BY <1>2, <1>5, <1>6, <1>7 DEF Halves
  <1> QED
    BY <1>1, <1>2, <1>3, <1>4, <1>5, <1>8 DEF IsSplitAt

\* Either half of a full node has enough keys.
LEMMA HalfIsEnough ==
    ASSUME NEW l \in Nat, l > BTREE_ORDER
    PROVE  /\ l \div 2 \in Nat /\ l \div 2 >= BTREE_MIN /\ l \div 2 \in 1 .. l - 1
           /\ l - l \div 2 - 1 >= BTREE_MIN
  <1>1. PICK o \in Nat : o = BTREE_ORDER /\ o > 0 /\ o % 2 = 0
    BY OrderAssumption
  <1>2. BTREE_MIN = (o + 1) \div 2
    BY <1>1 DEF BTREE_MIN
  <1>3. PICK d \in Nat : o = 2 * d
    BY <1>1
  <1>4. BTREE_MIN = d /\ d >= 1
    BY <1>1, <1>2, <1>3
  <1>5. l >= 2 * d + 1
    BY <1>1, <1>3
  <1>6. l \div 2 >= d /\ l \div 2 \in Nat /\ l - l \div 2 - 1 >= d /\ l \div 2 <= l - 1
    <2>1. PICK e \in Nat : l = 2 * d + 1 + e
      <3>1. l - (2 * d + 1) \in Nat /\ l = 2 * d + 1 + (l - (2 * d + 1))
        BY <1>5
      <3> QED
        BY <3>1
    <2>2. PICK c \in Nat : c = l \div 2 /\ (l = 2 * c \/ l = 2 * c + 1)
      <3>1. l \div 2 \in Nat /\ (l = 2 * (l \div 2) \/ l = 2 * (l \div 2) + 1)
        OBVIOUS
      <3> QED
        BY <3>1
    <2>3. c >= d /\ l - c - 1 >= d /\ c <= l - 1
      BY ONLY <1>4, <2>1, <2>2, d \in Nat, l \in Nat
    <2> QED
      BY <2>2, <2>3
  <1> QED
    BY <1>4, <1>6

\* A full leaf is split, and its right half waits for its parent.
LEMMA LeafSplitKeeps ==
    ASSUME NEW live, NEW h, NEW rng, NEW par, TreeState(live, h, rng, par), Base,
           LeafSplit, -1 \notin AllKeys
    PROVE  Carries(live, h)
  <1>1. TreeState(live, h, rng, par)
    OBVIOUS
  <1> DEFINE X == {<<op.key, op.value>>}
             n == nodes[cur]
  <1> PICK x : x = LeafPut(n, op.key, op.value)
    OBVIOUS
  <1> PICK q : q = NextPage
    OBVIOUS
  <1> PICK m : m = Len(x.keys) \div 2
    OBVIOUS
  <1> PICK left, right : /\ left = Leaf(Take(x.keys, m), Take(x.values, m), q)
                         /\ right = Leaf(Drop(x.keys, m), Drop(x.values, m), x.nextLeaf)
    OBVIOUS
  <1>2. /\ Base /\ pc = "descend" /\ pc' = "return" /\ n.isLeaf /\ op.kind = "insert"
        /\ ~Contains(n.keys, op.key) /\ CanAlloc /\ Len(n.keys) >= BTREE_ORDER
        /\ op.value \in Values
        /\ rootPageId' = rootPageId /\ metaRoot' = metaRoot /\ path' = path
        /\ op' = op /\ cur' = cur /\ contents' = contents /\ rows' = rows /\ threw' = threw
    BY DEF Base, LeafSplit, AtLeaf, Return
  <1>3. /\ LeafWith(n, op.key, op.value) = x
        /\ LocalOK(x, 0, rng[cur]) /\ x.isLeaf /\ Shape(x) /\ x \in Node
        /\ LeafHas(x, X)
        /\ Len(x.keys) = Len(n.keys) + 1 /\ Len(n.keys) \in Nat
        /\ x.nextLeaf \in Pages \cup {-1}
    BY <1>1, <1>2, LeafPutIs DEF LeafHas
  <1>4. /\ nodes' = Save([p \in {cur, q} |-> IF p = cur THEN left ELSE right])
        /\ res' = [promoted |-> Head(right.keys), child |-> q]
    BY <1>3 DEF LeafSplit, SplitLeaf, Return
  <1>5. /\ m \in 1 .. Len(x.keys) - 1 /\ m >= BTREE_MIN /\ Len(x.keys) - m >= BTREE_MIN /\ m \in Nat
        /\ BTREE_MIN \in Nat /\ BTREE_MIN > 0
    <2> DEFINE l == Len(x.keys)
    <2>1. l \in Nat /\ l > BTREE_ORDER
      BY <1>2, <1>3, OrderAssumption
    <2>2. /\ l \div 2 \in Nat /\ l \div 2 >= BTREE_MIN /\ l \div 2 \in 1 .. l - 1
          /\ l - l \div 2 - 1 >= BTREE_MIN
      <3> HIDE DEF l
      <3> QED
        BY <2>1, HalfIsEnough
    <2>3. BTREE_MIN \in Nat /\ BTREE_MIN > 0 /\ m = l \div 2
      BY KeysAreNumbers
    <2> HIDE DEF l
    <2> PICK c, b : c = l \div 2 /\ b = BTREE_MIN
      OBVIOUS
    <2>5. c \in Nat /\ c >= b /\ c \in 1 .. l - 1 /\ l - c - 1 >= b /\ b \in Nat /\ l \in Nat
      BY <2>1, <2>2, <2>3
    <2>6. l - c >= b
      BY ONLY <2>5
    <2>4. m \in 1 .. l - 1 /\ m >= BTREE_MIN /\ l - m >= BTREE_MIN /\ m \in Nat
      BY <2>3, <2>5, <2>6
    <2> QED
      BY <2>3, <2>4 DEF l
  <1>6. /\ IsTree(nodes, Tops, live, h, rng, par)
        /\ Heights(rootPageId, Tops, live, h)
        /\ Linked(nodes, rootPageId, path, live, h)
        /\ Filled(nodes, rootPageId, live, 0)
        /\ RootFilled
        /\ PagesOK(nodes) /\ rows \in Rows
    BY <1>1, <1>2 DEF TreeState, Base, LowPage
  <1>7. /\ cur \in live /\ h[cur] = 0 /\ cur = Target(nodes, rootPageId, path)
        /\ Tops = {rootPageId} /\ path \in Seq(Frame)
    BY <1>1, <1>2, FoundAlone
  <1>8. live \subseteq Allocated /\ live \subseteq Pages /\ h \in [Pages -> Nat]
      /\ rng \in [Pages -> SUBSET Int]
    BY <1>6 DEF IsTree, TreeOK, GhostType, Allocated
  <1>9. /\ q \in Pages \ Allocated /\ \A p \in Allocated : p < q
        /\ q + rows < MaxPages
    BY <1>2, <1>6, PagesAre
  <1>10. /\ x.keys \in Seq(Int) /\ x.values \in Seq(Values) /\ Len(x.values) = Len(x.keys)
         /\ DOMAIN x.keys = 1 .. Len(x.keys)
         /\ \A j \in DOMAIN x.keys : x.keys[j] \in rng[cur] /\ x.keys[j] \in AllKeys
    BY <1>3, NodeFields DEF LocalOK
  <1> PICK r : r = x.keys[m + 1]
    OBVIOUS
  <1>11. m + 1 \in 1 .. Len(x.keys) /\ r \in AllKeys /\ r \in rng[cur] /\ r \in Int /\ r # -1
    <2> DEFINE l == Len(x.keys)
    <2>1. l \in Nat /\ m \in 1 .. l - 1
      <3>1. l \in Nat
        BY <1>10
      <3> QED
        BY ONLY <1>5, <3>1
    <2> HIDE DEF l
    <2>2. m + 1 \in 1 .. l
      BY ONLY <2>1
    <2> QED
      BY <1>10, <2>2, KeysAreNumbers DEF l
  <1>12. /\ Take(x.keys, m) \in Seq(Int) /\ Len(Take(x.keys, m)) = m
         /\ Drop(x.keys, m) \in Seq(Int) /\ Len(Drop(x.keys, m)) = Len(x.keys) - m
         /\ Head(Drop(x.keys, m)) = r
         /\ Take(x.values, m) \in Seq(Values) /\ Drop(x.values, m) \in Seq(Values)
    <2> DEFINE ks == x.keys
               vs == x.values
               T == Int
               V == Values
    <2>1. m \in 0 .. Len(ks) /\ m \in 0 .. Len(vs) /\ ks \in Seq(T) /\ vs \in Seq(V)
        /\ 1 \in 1 .. Len(ks) - m
      <3> DEFINE l == Len(x.keys)
      <3>1. l \in Nat /\ m \in 1 .. l - 1 /\ Len(vs) = l
        <4>1. l \in Nat
          BY <1>10
        <4> QED
          BY ONLY <1>5, <1>10, <4>1
      <3> HIDE DEF l
      <3>2. m \in 0 .. l /\ 1 \in 1 .. l - m
        BY ONLY <3>1
      <3> QED
        BY <1>10, <3>1, <3>2 DEF l
    <2>2. 1 + m = m + 1 /\ r = ks[m + 1]
      <3>1. m \in Nat
        BY <1>5
      <3>2. 1 + m = m + 1
        BY ONLY <3>1
      <3> QED
        BY <3>2
    <2> HIDE DEF ks, vs, T, V
    <2>3. Take(ks, m) \in Seq(T) /\ Len(Take(ks, m)) = m
      BY ONLY <2>1, TakeEffect
    <2>4. /\ Drop(ks, m) \in Seq(T) /\ Len(Drop(ks, m)) = Len(ks) - m
          /\ \A j \in 1 .. Len(ks) - m : Drop(ks, m)[j] = ks[j + m]
      BY ONLY <2>1, DropEffect
    <2>5. Take(vs, m) \in Seq(V) /\ Drop(vs, m) \in Seq(V)
      BY ONLY <2>1, TakeEffect, DropEffect
    <2>6. Drop(ks, m)[1] = r
      BY ONLY <2>1, <2>2, <2>4
    <2>7. Head(Drop(ks, m)) = r
      <3> PICK d : d = Drop(ks, m)
        OBVIOUS
      <3>1. d \in Seq(T) /\ d[1] = r
        BY <2>4, <2>6
      <3>2. Head(d) = d[1]
        BY <3>1
      <3> QED
        BY <3>1, <3>2
    <2> QED
      BY <2>3, <2>4, <2>5, <2>7 DEF ks, vs, T, V
  <1>13. /\ left \in Node /\ right \in Node /\ Shape(left) /\ Shape(right)
         /\ left.keys = Take(x.keys, m) /\ right.keys = Drop(x.keys, m) /\ left.isLeaf
    <2>1. q \in Pages \cup {-1}
      BY <1>9
    <2>2. left \in Node /\ right \in Node
      BY <1>3, <1>12, <2>1, LeafIsNode
    <2>3. left.keys = Take(x.keys, m) /\ right.keys = Drop(x.keys, m)
      BY DEF Leaf
    <2>4. Shape(left) /\ Shape(right) /\ left.isLeaf
      BY ShapeOf
    <2> QED
      BY <2>2, <2>3, <2>4
  <1>14. res' = [promoted |-> r, child |-> q]
    BY <1>4, <1>12, <1>13
  <1>15. /\ PagesOK(nodes') /\ DOMAIN nodes' = Allocated \cup {q} /\ Cardinality(DOMAIN nodes') = q
         /\ nodes'[cur] = left /\ nodes'[q] = right
         /\ \A p \in Allocated \ {cur} : nodes'[p] = nodes[p]
    <2> PICK f : f = [p \in {cur, q} |-> IF p = cur THEN left ELSE right]
      OBVIOUS
    <2>1. DOMAIN f = {cur, q} /\ f[cur] = left /\ f[q] = right
      BY <1>7, <1>8, <1>9
    <2>2. SavesNew(f, nodes')
      BY <1>4, <1>7, <1>8, <1>13, <2>1 DEF SavesNew
    <2>3. /\ PagesOK(nodes') /\ DOMAIN nodes' = Allocated \cup {NextPage}
          /\ Cardinality(DOMAIN nodes') = NextPage
          /\ \A p \in DOMAIN f : nodes'[p] = f[p]
          /\ \A p \in Allocated \ DOMAIN f : nodes'[p] = nodes[p]
      BY ONLY <1>2, <1>6, <2>2, SavedNew
    <2> QED
      BY <1>9, <2>1, <2>3
  <1> PICK N3 : N3 = [nodes EXCEPT ![cur] = x]
    OBVIOUS
  <1>16. /\ DOMAIN N3 = Allocated /\ N3[cur] = x /\ \A p \in Allocated \ {cur} : N3[p] = nodes[p]
    BY <1>7, <1>8 DEF Allocated
  <1>17. IsTree(N3, Tops, live, h, rng, par)
    <2>1. LeafChanges(nodes, live, cur, h, rng, N3)
      BY <1>2, <1>3, <1>7, <1>8, <1>16 DEF LeafChanges
    <2> QED
      BY <1>6, <2>1, LeafChangesTree
  <1>18. Faithful(Stored(N3, live), contents, {}, threw)
    BY <1>1, <1>2, <1>3, <1>8, <1>16, LeafIsAsked
  <1>19. SplitsLeaf(N3, live, cur, q, m, r, q, x.nextLeaf, nodes')
    BY <1>3, <1>5, <1>7, <1>8, <1>9, <1>11, <1>15, <1>16 DEF SplitsLeaf
  <1> PICK h2, rng2, live2 : /\ h2 = AsHigh(h, cur, q) /\ rng2 = CutRange(rng, cur, q, r)
                             /\ live2 = live \cup {q}
    OBVIOUS
  <1>20. /\ IsTree(nodes', Tops \cup {q}, live2, h2, rng2, par) /\ Beside(cur, q, r, h2, rng2)
         /\ Stored(nodes', live2) = Stored(N3, live)
    <2>1. /\ IsTree(nodes', Tops \cup {q}, live \cup {q}, AsHigh(h, cur, q),
             CutRange(rng, cur, q, r), par)
          /\ Beside(cur, q, r, AsHigh(h, cur, q), CutRange(rng, cur, q, r))
          /\ Stored(nodes', live \cup {q}) = Stored(N3, live)
      BY ONLY <1>17, <1>19, SplitLeafTree
    <2> QED
      BY <2>1
  <1>21. /\ Linked(nodes', rootPageId, path, live2, h2)
         /\ Halves(nodes', rootPageId, path, live2, h2, rng2, r, q)
         /\ \A p \in live : h2[p] = h[p]
         /\ h2[q] = h[cur] /\ rootPageId \in live
         /\ path = <<>> <=> cur = rootPageId
         /\ path # <<>> => nodes'[rootPageId] = nodes[rootPageId]
    <2>1. rootPageId \in Tops /\ q \in Pages \ live /\ \A p \in live \ {cur} : nodes'[p] = nodes[p]
      BY <1>7, <1>8, <1>9, <1>15
    <2>2. SplitsAt(nodes, rootPageId, path, live, h, rng, cur, q, r, nodes', h2, rng2)
      BY <1>6, <1>7, <1>11, <1>20, <2>1 DEF SplitsAt
    <2>3. live2 = live \cup {q}
      OBVIOUS
    <2>4. IsSplitAt(nodes, rootPageId, path, live, h, cur, q, r, nodes', h2, rng2)
      BY ONLY <1>6, <2>1, <2>2, HalvesOf
    <2> QED
      BY <2>3, <2>4 DEF IsSplitAt
  <1>22. /\ Pending' /\ Tops' = Tops \cup {q} /\ Open' = {} /\ LowPage' = 0
    BY <1>2, <1>7, <1>11, <1>14 DEF Pending, Tops, Open, LowPage
  <1>23. Heights(rootPageId, Tops \cup {q}, live2, h2)
    <2>1. /\ \A p \in live \ Tops : h[p] < h[rootPageId]
          /\ \A p \in live : h[p] < p
      BY <1>6 DEF Heights
    <2>2. h2[rootPageId] = h[rootPageId] /\ h2[q] = 0
      BY <1>7, <1>21
    <2>3. \A p \in live2 : h2[p] < p
      <3>1. q \in Nat /\ 0 < q
        BY <1>9 DEF Pages
      <3>2. live2 = live \cup {q}
        OBVIOUS
      <3>3. \A p \in live : h2[p] < p
        BY <1>21, <2>1
      <3> QED
        BY ONLY <2>2, <3>1, <3>2, <3>3
    <2>4. \A p \in live2 \ (Tops \cup {q}) : h2[p] < h2[rootPageId]
      BY <1>21, <2>1, <2>2
    <2> QED
      BY <1>7, <2>3, <2>4 DEF Heights
  <1>24. Filled(nodes', rootPageId, live2, 0)
    <2>1. 0 \notin live2 /\ 0 \notin live
      BY <1>8, <1>9, TreePagesAssumption DEF Pages
    <2>2. Len(left.keys) >= BTREE_MIN /\ Len(right.keys) >= BTREE_MIN
      BY <1>5, <1>12, <1>13
    <2>3. \A p \in live \ {cur} : nodes'[p] = nodes[p]
      BY <1>8, <1>15
    <2> QED
      BY <1>6, <1>15, <2>1, <2>2, <2>3 DEF Filled
  <1>25. RootFilled'
    <2>1. CASE path = <<>>
      BY <1>2, <1>13, <1>15, <1>21, <2>1 DEF RootFilled
    <2>2. CASE path # <<>>
      BY <1>2, <1>6, <1>21, <2>2 DEF RootFilled
    <2> QED
      BY <2>1, <2>2
  <1>28. RootHalf'
    <2>1. path = <<>> => nodes'[rootPageId] = left
      BY <1>15, <1>21
    <2>2. Len(left.keys) >= BTREE_MIN
      BY <1>5, <1>12, <1>13
    <2> QED
      BY <1>2, <2>1, <2>2 DEF RootHalf
  <1>26. TreeState(live2, h2, rng2, par)'
    <2>1. res'.promoted = r /\ res'.child = q
      BY <1>14
    <2> QED
      BY <1>2, <1>18, <1>20, <1>21, <1>22, <1>23, <1>24, <1>25, <1>28, <2>1 DEF TreeState
  <1>27. Base'
    <2>1. res' \in ResultOf("insert") /\ res' \in Result
      BY <1>9, <1>11, <1>14, ResultsAre
    <2>2. Allocated' = Allocated \cup {q} /\ Cardinality(Allocated') = q
      BY <1>15 DEF Allocated
    <2> QED
      BY <1>2, <1>9, <1>15, <2>1, <2>2 DEF Base
  <1>29. Carried(live, h, live2, h2)
    <2>1. /\ Allocated' = Allocated \cup {q} /\ live2 = live \cup {q} /\ q \notin Allocated
          /\ cur \in live
      BY <1>7, <1>8, <1>9, <1>15 DEF Allocated
    <2>2. \A p \in Allocated \ {cur} : nodes'[p] = nodes[p]
      BY <1>9, <1>15
    <2> QED
      BY <1>21, <2>1, <2>2 DEF Carried
  <1> QED
    BY <1>26, <1>27, <1>29 DEF Carries

=============================================================================
