-------------------------- MODULE QueryResultProofs -------------------------
(***************************************************************************)
(* That the calls of operators hand out the rows of the plan, for every    *)
(* plan, table and pool, joins and sorts among them.  The rows of a plan   *)
(* are a sequence worked out at once (Rows); the operators hold parts of   *)
(* it in their members and in the calls in progress.  left[k] is what      *)
(* operator k has still to hand out.  The invariant (Data) says what it is *)
(* for each place of each method: for a scan the rows from its slot on,    *)
(* for a join the pairs of its left row with the rest of the right input,  *)
(* then those of the other left rows with all of it, and so on.  A step of *)
(* an operator leaves the sequences of all others as they are.  From the   *)
(* rows of its plan follows the answer to a statement.                     *)
(***************************************************************************)
EXTENDS QueryPlanProofs

-----------------------------------------------------------------------------
(* Sequences of rows, whatever the rows *)

IsSeq(s) == s \in Seq(Range(s))

\* Sequences over a set, and over their own elements.
LEMMA IsSeqOver == ASSUME NEW T, NEW s \in Seq(T) PROVE IsSeq(s)
  BY OwnElements DEF IsSeq

LEMMA CommonSet ==
    ASSUME NEW s, IsSeq(s), NEW t, IsSeq(t)
    PROVE  \E T : s \in Seq(T) /\ t \in Seq(T)
  <1>1. s \in Seq(Range(s) \cup Range(t)) /\ t \in Seq(Range(s) \cup Range(t))
    BY SeqMonotonic DEF IsSeq
  <1> QED
    BY <1>1

\* What is known of one sequence.
LEMMA SeqIs ==
    ASSUME NEW s, IsSeq(s)
    PROVE  /\ Len(s) \in Nat /\ DOMAIN s = 1 .. Len(s)
           /\ s = [i \in 1 .. Len(s) |-> s[i]]
           /\ s \o <<>> = s /\ <<>> \o s = s
           /\ Len(s) = 0 <=> s = <<>>
  BY LenProperties, ConcatEmptySeq, EmptySeq DEF IsSeq

LEMMA NoneAndOne ==
    /\ IsSeq(<<>>)
    /\ \A x : IsSeq(<<x>>) /\ Len(<<x>>) = 1 /\ <<x>>[1] = x
  <1>1. \A x : <<x>> \in Seq({x})
    OBVIOUS
  <1>2. <<>> \in Seq({})
    OBVIOUS
  <1> QED
    BY <1>1, <1>2, IsSeqOver

\* And of two, one behind the other.
LEMMA ConcatIs ==
    ASSUME NEW s, IsSeq(s), NEW t, IsSeq(t)
    PROVE  /\ IsSeq(s \o t) /\ Len(s \o t) = Len(s) + Len(t)
           /\ \A i \in 1 .. Len(s) : (s \o t)[i] = s[i]
           /\ \A i \in 1 .. Len(t) : (s \o t)[Len(s) + i] = t[i]
           /\ s \o t = <<>> => s = <<>> /\ t = <<>>
           /\ s \o t = s => t = <<>>
  <1>1. PICK T : s \in Seq(T) /\ t \in Seq(T)
    BY CommonSet
  <1>2. Len(s) \in Nat /\ Len(t) \in Nat
    BY SeqIs
  <1>3. /\ s \o t \in Seq(T) /\ Len(s \o t) = Len(s) + Len(t)
        /\ \A i \in 1 .. Len(s) + Len(t) :
             (s \o t)[i] = IF i <= Len(s) THEN s[i] ELSE t[i - Len(s)]
    BY <1>1, ConcatProperties
  <1>4. ASSUME NEW i \in 1 .. Len(t) PROVE (s \o t)[Len(s) + i] = t[i]
    <2>1. Len(s) + i \in 1 .. Len(s) + Len(t) /\ ~(Len(s) + i <= Len(s)) /\ Len(s) + i - Len(s) = i
      BY <1>2
    <2> QED
      BY <1>3, <2>1
  <1>5. ASSUME NEW i \in 1 .. Len(s) PROVE (s \o t)[i] = s[i]
    <2>1. i \in 1 .. Len(s) + Len(t) /\ i <= Len(s)
      BY <1>2
    <2> QED
      BY <1>3, <2>1
  <1>6. /\ s \o t = <<>> => s = <<>> /\ t = <<>>
        /\ s \o t = s => t = <<>>
    BY <1>1, ConcatEqualIffEmpty
  <1>7. IsSeq(s \o t)
    BY <1>3, IsSeqOver
  <1> QED
    BY <1>3, <1>4, <1>5, <1>6, <1>7

LEMMA ConcatThree ==
    ASSUME NEW s, IsSeq(s), NEW t, IsSeq(t), NEW u, IsSeq(u)
    PROVE  (s \o t) \o u = s \o (t \o u)
  <1> DEFINE T == Range(s) \cup Range(t) \cup Range(u)
  <1>1. s \in Seq(T) /\ t \in Seq(T) /\ u \in Seq(T)
    BY SeqMonotonic DEF IsSeq
  <1> HIDE DEF T
  <1> QED
    BY <1>1, ConcatAssociative

\* A row put before others.
LEMMA ConsIs ==
    ASSUME NEW x, NEW s, IsSeq(s)
    PROVE  /\ IsSeq(<<x>> \o s) /\ Len(<<x>> \o s) = Len(s) + 1 /\ <<x>> \o s # <<>>
           /\ DOMAIN (<<x>> \o s) = 1 .. Len(s) + 1
           /\ (<<x>> \o s)[1] = x /\ Head(<<x>> \o s) = x
           /\ \A i \in 1 .. Len(s) : (<<x>> \o s)[i + 1] = s[i]
  <1>1. /\ IsSeq(<<x>> \o s) /\ Len(<<x>> \o s) = 1 + Len(s)
        /\ \A i \in 1 .. 1 : (<<x>> \o s)[i] = <<x>>[i]
        /\ \A i \in 1 .. Len(s) : (<<x>> \o s)[1 + i] = s[i]
    BY NoneAndOne, ConcatIs
  <1>2. Len(s) \in Nat
    BY SeqIs
  <1>3. 1 \in 1 .. 1 /\ \A i \in 1 .. Len(s) : 1 + i = i + 1
    BY <1>2
  <1>4. <<x>> \o s # <<>>
    BY <1>1, <1>2, SeqIs
  <1>5. Head(<<x>> \o s) = (<<x>> \o s)[1]
    BY <1>1, <1>4, HeadTailProperties DEF IsSeq
  <1> QED
    BY <1>1, <1>2, <1>3, <1>4, <1>5, NoneAndOne, SeqIs

LEMMA ConsEqual ==
    ASSUME NEW x, NEW s, IsSeq(s), NEW y, NEW t, IsSeq(t), <<x>> \o s = <<y>> \o t
    PROVE  x = y /\ s = t
  <1>1. x = y /\ Len(s) = Len(t) /\ \A i \in 1 .. Len(s) : s[i] = t[i]
    <2>1. Len(s) \in Nat /\ Len(t) \in Nat
      BY SeqIs
    <2> QED
      BY <2>1, ConsIs
  <1> QED
    BY <1>1, SeqIs

LEMMA HeadAndTail ==
    ASSUME NEW s, IsSeq(s), s # <<>>
    PROVE  s = <<Head(s)>> \o Tail(s) /\ IsSeq(Tail(s)) /\ Head(s) = s[1]
  <1>1. /\ Tail(s) \in Seq(Range(s)) /\ Len(Tail(s)) = Len(s) - 1 /\ Len(s) \in Nat \ {0}
        /\ \A i \in 1 .. Len(Tail(s)) : Tail(s)[i] = s[i + 1]
        /\ Head(s) = s[1]
    BY HeadTailProperties, EmptySeq DEF IsSeq
  <1>2. IsSeq(Tail(s))
    BY <1>1, IsSeqOver
  <1> PICK u : u = <<Head(s)>> \o Tail(s)
    OBVIOUS
  <1>3. /\ IsSeq(u) /\ Len(u) = Len(s) /\ u[1] = s[1]
        /\ \A i \in 1 .. Len(s) - 1 : u[i + 1] = s[i + 1]
    BY <1>1, <1>2, ConsIs
  <1>4. ASSUME NEW i \in 1 .. Len(s) PROVE u[i] = s[i]
    <2>1. CASE i = 1
      BY <1>3, <2>1
    <2>2. CASE i # 1
      <3>1. i - 1 \in 1 .. Len(s) - 1 /\ i - 1 + 1 = i
        BY <1>1, <2>2
      <3> QED
        BY <1>3, <3>1
    <2> QED
      BY <2>1, <2>2
  <1>5. u = s
    BY <1>3, <1>4, SeqIs
  <1> QED
    BY <1>1, <1>2, <1>5

\* The last of them.
LEMMA AppendIs ==
    ASSUME NEW s, IsSeq(s), NEW x
    PROVE  Append(s, x) = s \o <<x>> /\ IsSeq(Append(s, x))
  <1> PICK T : T = Range(s) \cup {x}
    OBVIOUS
  <1>1. s \in Seq(T) /\ x \in T
    BY SeqMonotonic DEF IsSeq
  <1>2. Append(s, x) = s \o <<x>>
    BY ONLY <1>1, AppendIsConcat
  <1>3. Append(s, x) \in Seq(T)
    BY ONLY <1>1, AppendProperties
  <1> QED
    BY <1>2, <1>3, IsSeqOver

FunctionOn(m, D) == m = [n \in D |-> m[n]]

\* What is made of a row, y, and of those of s, t, is what is made of them together, m.
MadeOf(m, y, s, t) ==
    /\ FunctionOn(m, 1 .. Len(s) + 1) /\ m[1] = y
    /\ IsSeq(s) /\ IsSeq(t) /\ Len(t) = Len(s)
    /\ \A n \in 1 .. Len(s) : m[n + 1] = t[n]

LEMMA MapCons ==
    ASSUME NEW m, NEW y, NEW s, NEW t, MadeOf(m, y, s, t)
    PROVE  m = <<y>> \o t
  <1> USE DEF MadeOf
  <1>1. /\ Len(s) \in Nat /\ DOMAIN s = 1 .. Len(s)
        /\ Len(t) \in Nat /\ DOMAIN t = 1 .. Len(t)
    BY SeqIs
  <1> PICK u : u = <<y>> \o t
    OBVIOUS
  <1>4. /\ IsSeq(u) /\ Len(u) = Len(s) + 1 /\ u[1] = y
        /\ \A i \in 1 .. Len(s) : u[i + 1] = t[i]
    BY ConsIs
  <1>5. ASSUME NEW n \in 1 .. Len(s) + 1 PROVE m[n] = u[n]
    <2>1. CASE n = 1
      BY <1>4, <2>1
    <2>2. CASE n # 1
      <3>1. n - 1 \in 1 .. Len(s) /\ n - 1 + 1 = n
        BY <1>1, <2>2
      <3> QED
        BY <1>1, <1>4, <3>1
    <2> QED
      BY <2>1, <2>2
  <1>6. u = [n \in 1 .. Len(s) + 1 |-> u[n]]
    BY <1>4, SeqIs
  <1>8. m = u
    BY <1>5, <1>6, Zenon DEF FunctionOn
  <1> QED
    BY <1>8

\* Functions on an interval from 1 are sequences.
LEMMA MapIs ==
    ASSUME NEW n \in Nat, NEW m, FunctionOn(m, 1 .. n)
    PROVE  IsSeq(m) /\ Len(m) = n /\ DOMAIN m = 1 .. n
  <1>1. m \in [1 .. n -> Range(m)]
    BY DEF Range, FunctionOn
  <1>2. m \in Seq(Range(m))
    BY <1>1, SeqDef
  <1>3. DOMAIN m = 1 .. n /\ DOMAIN m = 1 .. Len(m) /\ Len(m) \in Nat
    BY <1>2, LenProperties DEF FunctionOn
  <1> QED
    BY <1>2, <1>3 DEF IsSeq

-----------------------------------------------------------------------------
(* FlattenSeq *)

\* What holds of 0 and is handed on holds of each number up to m.
LEMMA UpTo ==
    ASSUME NEW m \in Nat, NEW S, 0 \in S,
           \A n \in 0 .. m - 1 : n \in S => n + 1 \in S
    PROVE  \A n \in 0 .. m : n \in S
  <1> SUFFICES ASSUME NEW a \in 0 .. m, a \notin S PROVE FALSE
    OBVIOUS
  <1> DEFINE U == {n \in Nat : n <= m /\ n \notin S}
  <1>1. U \in SUBSET Nat /\ U # {}
    OBVIOUS
  <1> HIDE DEF U
  <1>2. PICK n \in U : \A l \in U : ~(<<l, n>> \in OpToRel(<, Nat))
    BY <1>1, WFMin, NatLessThanWellFounded, Zenon
  <1>3. n \in Nat /\ n <= m /\ n \notin S
    BY <1>2 DEF U
  <1> PICK k : k = n - 1
    OBVIOUS
  <1>4. k \in 0 .. m - 1 /\ k + 1 = n /\ k \in Nat /\ k < n /\ k <= m
    BY <1>3
  <1>5. k \notin S
    BY <1>3, <1>4
  <1>6. k \in U
    BY <1>4, <1>5 DEF U
  <1>7. <<k, n>> \in OpToRel(<, Nat)
    <2>2. <<k, n>> \in {ss \in Nat \X Nat : ss[1] < ss[2]}
      BY <1>3, <1>4
    <2> QED
      BY <2>2 DEF OpToRel
  <1> QED
    BY <1>2, <1>6, <1>7

\* The sequences that FlattenSeq puts one behind the other, and what it has after each.
AllSeqs(ss) == IsSeq(ss) /\ \A i \in 1 .. Len(ss) : IsSeq(ss[i])
Parts(f, ss, n) ==
    /\ f = [i \in 0 .. n |-> f[i]] /\ f[0] = <<>>
    /\ \A i \in 1 .. n : f[i] = f[i - 1] \o ss[i]

LEMMA PartsExist ==
    ASSUME NEW ss, AllSeqs(ss)
    PROVE  \E f : Parts(f, ss, Len(ss))
  <1> PICK m : m = Len(ss)
    OBVIOUS
  <1>1. m \in Nat
    BY SeqIs DEF AllSeqs
  <1> DEFINE S == {n \in 0 .. m : \E f : Parts(f, ss, n)}
  <1>2. 0 \in S
    <2> DEFINE f == [i \in 0 .. 0 |-> <<>>]
    <2>1. Parts(f, ss, 0)
      BY DEF Parts
    <2> HIDE DEF f
    <2> QED
      BY <1>1, <2>1
  <1>3. ASSUME NEW n \in 0 .. m - 1, n \in S PROVE n + 1 \in S
    <2>1. PICK f : Parts(f, ss, n)
      BY <1>3
    <2> DEFINE g == [i \in 0 .. n + 1 |-> IF i = n + 1 THEN f[n] \o ss[n + 1] ELSE f[i]]
    <2>2. \A i \in 0 .. n : g[i] = f[i]
      OBVIOUS
    <2>3. g[n + 1] = f[n] \o ss[n + 1]
      OBVIOUS
    <2>4. g = [i \in 0 .. n + 1 |-> g[i]]
      OBVIOUS
    <2> HIDE DEF g
    <2>5. ASSUME NEW i \in 1 .. n + 1 PROVE g[i] = g[i - 1] \o ss[i]
      <3>1. i - 1 \in 0 .. n
        OBVIOUS
      <3>2. CASE i = n + 1
        <4>1. i - 1 = n /\ n \in 0 .. n
          BY <1>3, <3>2
        <4> QED
          BY <2>2, <2>3, <3>2, <4>1
      <3>3. CASE i # n + 1
        <4>1. i \in 1 .. n /\ i \in 0 .. n
          BY <3>3
        <4> QED
          BY <2>1, <2>2, <3>1, <4>1 DEF Parts
      <3> QED
        BY <3>2, <3>3
    <2>6. g[0] = <<>>
      BY <2>1, <2>2 DEF Parts
    <2>7. Parts(g, ss, n + 1)
      BY <2>4, <2>5, <2>6 DEF Parts
    <2> QED
      BY <1>1, <2>7
  <1> HIDE DEF S
  <1>4. m \in S
    BY <1>1, <1>2, <1>3, UpTo
  <1> QED
    BY <1>4 DEF S

\* All of them are put together in the end.
LEMMA FlattenParts ==
    ASSUME NEW ss, AllSeqs(ss), NEW f, Parts(f, ss, Len(ss))
    PROVE  FlattenSeq(ss) = f[Len(ss)] /\ IsSeq(FlattenSeq(ss))
  <1> PICK m : m = Len(ss)
    OBVIOUS
  <1>1. m \in Nat
    BY SeqIs DEF AllSeqs
  <1>2. \A n \in 0 .. m : IsSeq(f[n])
    <2> DEFINE S == {n \in 0 .. m : IsSeq(f[n])}
    <2>1. 0 \in S
      BY <1>1, NoneAndOne DEF Parts
    <2>2. ASSUME NEW n \in 0 .. m - 1, n \in S PROVE n + 1 \in S
      <3> PICK i : i = n + 1
        OBVIOUS
      <3>1. i \in 1 .. m /\ i - 1 = n /\ i \in 0 .. m
        BY <1>1
      <3>2. f[i] = f[i - 1] \o ss[i] /\ IsSeq(ss[i])
        BY <3>1 DEF Parts, AllSeqs
      <3>3. IsSeq(f[n])
        BY <2>2
      <3>4. IsSeq(f[i])
        BY <3>1, <3>2, <3>3, ConcatIs
      <3> QED
        BY <3>1, <3>4
    <2> HIDE DEF S
    <2>3. \A n \in 0 .. m : n \in S
      BY <1>1, <2>1, <2>2, UpTo
    <2> QED
      BY <2>3 DEF S
  <1>3. CASE m = 0
    <2>1. ss = <<>>
      BY <1>3, SeqIs DEF AllSeqs
    <2> QED
      BY <1>3, <2>1, NoneAndOne DEF FlattenSeq, Parts
  <1>4. CASE m # 0
    <2> DEFINE Way(g) == g = [i \in 1 .. Len(ss) |-> IF i = 1 THEN ss[i] ELSE g[i - 1] \o ss[i]]
               at == CHOOSE g : Way(g)
               h == [i \in 1 .. m |-> f[i]]
    <2>1. m \in Nat \ {0} /\ 1 \in 1 .. m
      BY <1>1, <1>4
    <2>2. f[1] = ss[1]
      <3>1. f[1] = f[0] \o ss[1] /\ f[0] = <<>> /\ IsSeq(ss[1])
        BY <2>1 DEF Parts, AllSeqs
      <3> QED
        BY <3>1, SeqIs
    <2>3. Way(h)
      <3>1. ASSUME NEW i \in 1 .. m, i # 1 PROVE f[i] = h[i - 1] \o ss[i]
        <4>1. i - 1 \in 1 .. m
          BY <3>1
        <4> QED
          BY <4>1 DEF Parts
      <3>2. h = [i \in 1 .. m |-> IF i = 1 THEN ss[i] ELSE h[i - 1] \o ss[i]]
        <4>1. \A i \in 1 .. m : f[i] = IF i = 1 THEN ss[i] ELSE h[i - 1] \o ss[i]
          BY <2>2, <3>1
        <4> QED
          BY <4>1
      <3> QED
        BY <3>2
    <2>4. Way(at)
      <3> HIDE DEF Way, h
      <3> QED
        BY <2>3
    <2>5. FlattenSeq(ss) = at[m]
      BY <1>4 DEF FlattenSeq
    <2> HIDE DEF at
    <2>6. /\ at[1] = ss[1]
          /\ \A i \in 1 .. m : i # 1 => at[i] = at[i - 1] \o ss[i]
      BY <2>1, <2>4
    <2> HIDE DEF Way, h
    <2> DEFINE S == {n \in 0 .. m : n = 0 \/ at[n] = f[n]}
    <2>7. 0 \in S
      BY <1>1
    <2>8. ASSUME NEW n \in 0 .. m - 1, n \in S PROVE n + 1 \in S
      <3>1. n + 1 \in 1 .. m /\ n + 1 \in 0 .. m /\ n + 1 - 1 = n
        BY <1>1
      <3>2. CASE n = 0
        BY <2>2, <2>6, <3>1, <3>2
      <3>3. CASE n # 0
        <4>1. at[n] = f[n] /\ n + 1 # 1
          BY <2>8, <3>3
        <4> PICK i : i = n + 1
          OBVIOUS
        <4>2. i \in 1 .. m /\ i # 1 /\ i - 1 = n
          BY <3>1, <4>1
        <4>3. at[i] = at[i - 1] \o ss[i]
          BY <2>6, <4>2
        <4>4. f[i] = f[i - 1] \o ss[i]
          BY <4>2 DEF Parts
        <4> QED
          BY <3>1, <4>1, <4>2, <4>3, <4>4
      <3> QED
        BY <3>2, <3>3
    <2> HIDE DEF S
    <2>9. \A n \in 0 .. m : n \in S
      BY <1>1, <2>7, <2>8, UpTo
    <2>10. m \in 0 .. m
      BY <1>1
    <2>11. at[m] = f[m]
      BY <1>4, <2>9, <2>10 DEF S
    <2> QED
      BY <1>2, <2>5, <2>10, <2>11
  <1> QED
    BY <1>3, <1>4

\* Of none, and of a first one and others.
LEMMA FlattenNone == FlattenSeq(<<>>) = <<>>
  BY DEF FlattenSeq

LEMMA FlattenIsSeq == ASSUME NEW ss, AllSeqs(ss) PROVE IsSeq(FlattenSeq(ss))
  BY PartsExist, FlattenParts

LEMMA FlattenCons ==
    ASSUME NEW s, IsSeq(s), NEW ss, AllSeqs(ss)
    PROVE  /\ AllSeqs(<<s>> \o ss)
           /\ FlattenSeq(<<s>> \o ss) = s \o FlattenSeq(ss)
  <1> PICK m, tt : m = Len(ss) /\ tt = <<s>> \o ss
    OBVIOUS
  <1>1. m \in Nat
    BY SeqIs DEF AllSeqs
  <1>2. /\ IsSeq(tt) /\ Len(tt) = m + 1 /\ tt[1] = s
        /\ \A i \in 1 .. m : tt[i + 1] = ss[i]
    BY ConsIs DEF AllSeqs
  <1>3. \A i \in 1 .. m + 1 : i # 1 => i - 1 \in 1 .. m /\ i - 1 + 1 = i
    BY <1>1
  <1>4. AllSeqs(tt)
    <2>1. ASSUME NEW i \in 1 .. m + 1 PROVE IsSeq(tt[i])
      <3>1. CASE i = 1
        BY <1>2, <3>1
      <3>2. CASE i # 1
        <4>1. tt[i] = ss[i - 1] /\ i - 1 \in 1 .. m
          BY <1>2, <1>3, <3>2
        <4> QED
          BY <4>1 DEF AllSeqs
      <3> QED
        BY <3>1, <3>2
    <2> QED
      BY <1>2, <2>1 DEF AllSeqs
  <1>5. PICK f : Parts(f, ss, m)
    BY PartsExist
  <1>6. \A n \in 0 .. m : IsSeq(f[n])
    <2> DEFINE S == {n \in 0 .. m : IsSeq(f[n])}
    <2>1. 0 \in S
      BY <1>1, <1>5, NoneAndOne DEF Parts
    <2>2. ASSUME NEW n \in 0 .. m - 1, n \in S PROVE n + 1 \in S
      <3> PICK i : i = n + 1
        OBVIOUS
      <3>1. i \in 1 .. m /\ i - 1 = n /\ i \in 0 .. m
        BY <1>1
      <3>2. f[i] = f[i - 1] \o ss[i] /\ IsSeq(ss[i])
        BY <1>5, <3>1 DEF Parts, AllSeqs
      <3>3. IsSeq(f[n])
        BY <2>2
      <3>4. IsSeq(f[i])
        BY <3>1, <3>2, <3>3, ConcatIs
      <3> QED
        BY <3>1, <3>4
    <2> HIDE DEF S
    <2>3. \A n \in 0 .. m : n \in S
      BY <1>1, <2>1, <2>2, UpTo
    <2> QED
      BY <2>3 DEF S
  <1> DEFINE g == [i \in 0 .. m + 1 |-> IF i = 0 THEN <<>> ELSE s \o f[i - 1]]
  <1>7. g = [i \in 0 .. m + 1 |-> g[i]] /\ g[0] = <<>> /\ g[m + 1] = s \o f[m]
    BY <1>1
  <1>8. \A i \in 1 .. m + 1 : g[i] = s \o f[i - 1]
    BY <1>1
  <1> HIDE DEF g
  <1>9. ASSUME NEW i \in 1 .. m + 1 PROVE g[i] = g[i - 1] \o tt[i]
    <2>1. CASE i = 1
      <3>1. i - 1 = 0
        BY <2>1
      <3>2. g[i] = s \o f[0] /\ f[0] = <<>>
        BY <1>5, <1>8, <3>1 DEF Parts
      <3>3. s \o <<>> = s /\ <<>> \o s = s
        BY SeqIs
      <3>4. g[i] = s /\ g[i - 1] = <<>> /\ tt[i] = s
        BY <1>2, <1>7, <2>1, <3>1, <3>2, <3>3
      <3> QED
        BY <3>3, <3>4
    <2>2. CASE i # 1
      <3>1. PICK k : k = i - 1
        OBVIOUS
      <3>2. k \in 1 .. m /\ k \in 0 .. m /\ k \in 1 .. m + 1 /\ k - 1 \in 0 .. m /\ k + 1 = i
        BY <1>1, <2>2, <3>1
      <3>3. g[i] = s \o f[k] /\ g[k] = s \o f[k - 1] /\ tt[i] = ss[k]
        BY <1>2, <1>8, <3>1, <3>2
      <3>4. f[k] = f[k - 1] \o ss[k]
        BY <1>5, <3>2 DEF Parts
      <3>5. IsSeq(f[k - 1]) /\ IsSeq(ss[k])
        BY <1>6, <3>2 DEF AllSeqs
      <3>6. s \o (f[k - 1] \o ss[k]) = (s \o f[k - 1]) \o ss[k]
        <4> PICK a, b : a = f[k - 1] /\ b = ss[k]
          OBVIOUS
        <4>1. IsSeq(a) /\ IsSeq(b)
          BY <3>5
        <4>2. s \o (a \o b) = (s \o a) \o b
          BY ONLY IsSeq(s), <4>1, ConcatThree
        <4> QED
          BY <4>2
      <3> QED
        BY <3>1, <3>3, <3>4, <3>6
    <2> QED
      BY <2>1, <2>2
  <1>10. Parts(g, tt, m + 1)
    BY <1>7, <1>9 DEF Parts
  <1>11. FlattenSeq(tt) = s \o f[m]
    BY <1>2, <1>4, <1>7, <1>10, FlattenParts
  <1>12. FlattenSeq(ss) = f[m]
    BY <1>5, FlattenParts
  <1> QED
    BY <1>4, <1>11, <1>12

-----------------------------------------------------------------------------
(* What the operators make of a row and of the rows after it *)

\* The same where something is made of each row and put together.
LEMMA EachCons ==
    ASSUME NEW m, NEW y, NEW s, NEW t, MadeOf(m, y, s, t), IsSeq(y), AllSeqs(t)
    PROVE  FlattenSeq(m) = y \o FlattenSeq(t) /\ IsSeq(FlattenSeq(t))
  <1>1. m = <<y>> \o t
    BY MapCons
  <1> QED
    BY <1>1, FlattenCons, FlattenIsSeq

\* Each of the rows of <<x>> \o s.
LEMMA EachRow ==
    ASSUME NEW x, NEW s, IsSeq(s), NEW u, u = <<x>> \o s
    PROVE  /\ DOMAIN s = 1 .. Len(s) /\ DOMAIN u = 1 .. Len(s) + 1 /\ Len(s) \in Nat
           /\ 1 \in DOMAIN u /\ u[1] = x
           /\ \A n \in 1 .. Len(s) : n + 1 \in DOMAIN u /\ u[n + 1] = s[n]
  <1>1. DOMAIN s = 1 .. Len(s) /\ Len(s) \in Nat
    BY SeqIs
  <1>2. /\ DOMAIN u = 1 .. Len(s) + 1 /\ u[1] = x
        /\ \A n \in 1 .. Len(s) : u[n + 1] = s[n]
    BY ConsIs
  <1> QED
    BY <1>1, <1>2

\* Select.
LEMMA SelectedNone == ASSUME NEW w PROVE Selected(<<>>, w) = <<>>
  <1>1. [n \in DOMAIN <<>> |-> IF Satisfies(<<>>[n], w) THEN << <<>>[n] >> ELSE <<>>] = <<>>
    OBVIOUS
  <1> QED
    BY <1>1, FlattenNone DEF Selected, Filtered

LEMMA SelectedCons ==
    ASSUME NEW x, NEW s, IsSeq(s), NEW w
    PROVE  /\ Selected(<<x>> \o s, w) =
                 IF Satisfies(x, w) THEN <<x>> \o Selected(s, w) ELSE Selected(s, w)
           /\ IsSeq(Selected(s, w))
  <1> DEFINE One(y) == IF Satisfies(y, w) THEN <<y>> ELSE <<>>
  <1> PICK u : u = <<x>> \o s
    OBVIOUS
  <1> PICK m : m = [n \in DOMAIN u |-> One(u[n])]
    OBVIOUS
  <1> PICK t : t = [n \in DOMAIN s |-> One(s[n])]
    OBVIOUS
  <1>1. Selected(u, w) = FlattenSeq(m) /\ Selected(s, w) = FlattenSeq(t)
    BY DEF Selected, Filtered
  <1>2. \A y : IsSeq(One(y))
    BY NoneAndOne
  <1> HIDE DEF One
  <1>3. MadeOf(m, One(x), s, t) /\ AllSeqs(t)
    <2>1. /\ FunctionOn(m, 1 .. Len(s) + 1) /\ m[1] = One(x)
          /\ FunctionOn(t, 1 .. Len(s)) /\ Len(s) \in Nat
          /\ \A n \in 1 .. Len(s) : IsSeq(t[n]) /\ m[n + 1] = t[n]
      BY <1>2, EachRow DEF FunctionOn
    <2> QED
      BY <2>1, MapIs DEF MadeOf, AllSeqs
  <1>4. FlattenSeq(m) = One(x) \o FlattenSeq(t) /\ IsSeq(FlattenSeq(t))
    BY ONLY <1>2, <1>3, EachCons
  <1> QED
    BY <1>1, <1>4, SeqIs DEF One

\* The live rows of a page.
LEMMA LiveRowsNone == LiveRows(<<>>) = <<>>
  <1>1. [n \in DOMAIN <<>> |-> IF <<>>[n] # Deleted THEN << <<>>[n] >> ELSE <<>>] = <<>>
    OBVIOUS
  <1> QED
    BY <1>1, FlattenNone DEF LiveRows, Filtered

LEMMA LiveRowsCons ==
    ASSUME NEW x, NEW s, IsSeq(s)
    PROVE  /\ LiveRows(<<x>> \o s) =
                 IF x = Deleted THEN LiveRows(s) ELSE <<x>> \o LiveRows(s)
           /\ IsSeq(LiveRows(s))
  <1> DEFINE One(y) == IF y # Deleted THEN <<y>> ELSE <<>>
  <1> PICK u : u = <<x>> \o s
    OBVIOUS
  <1> PICK m : m = [n \in DOMAIN u |-> One(u[n])]
    OBVIOUS
  <1> PICK t : t = [n \in DOMAIN s |-> One(s[n])]
    OBVIOUS
  <1>1. LiveRows(u) = FlattenSeq(m) /\ LiveRows(s) = FlattenSeq(t)
    BY DEF LiveRows, Filtered
  <1>2. \A y : IsSeq(One(y))
    BY NoneAndOne
  <1> HIDE DEF One
  <1>3. MadeOf(m, One(x), s, t) /\ AllSeqs(t)
    <2>1. /\ FunctionOn(m, 1 .. Len(s) + 1) /\ m[1] = One(x)
          /\ FunctionOn(t, 1 .. Len(s)) /\ Len(s) \in Nat
          /\ \A n \in 1 .. Len(s) : IsSeq(t[n]) /\ m[n + 1] = t[n]
      BY <1>2, EachRow DEF FunctionOn
    <2> QED
      BY <2>1, MapIs DEF MadeOf, AllSeqs
  <1>4. FlattenSeq(m) = One(x) \o FlattenSeq(t) /\ IsSeq(FlattenSeq(t))
    BY ONLY <1>2, <1>3, EachCons
  <1> QED
    BY <1>1, <1>4, SeqIs DEF One

\* One sequence after another, named where the provers would take it apart.
Glue(s, t) == s \o t

\* The pairs of one left row.
LEMMA PairsNone == ASSUME NEW l, NEW on PROVE Pairs(l, <<>>, on) = <<>>
  <1>1. [n \in DOMAIN <<>> |-> IF Joined(l, <<>>[n], on) THEN <<l \o <<>>[n]>> ELSE <<>>] = <<>>
    OBVIOUS
  <1> QED
    BY <1>1, FlattenNone DEF Pairs

LEMMA PairsCons ==
    ASSUME NEW x, NEW s, IsSeq(s), NEW l, NEW on
    PROVE  /\ Pairs(l, <<x>> \o s, on) =
                 IF Joined(l, x, on) THEN <<Glue(l, x)>> \o Pairs(l, s, on) ELSE Pairs(l, s, on)
           /\ IsSeq(Pairs(l, s, on))
  <1> DEFINE One(y) == IF Joined(l, y, on) THEN <<l \o y>> ELSE <<>>
  <1> PICK u : u = <<x>> \o s
    OBVIOUS
  <1> PICK m : m = [n \in DOMAIN u |-> One(u[n])]
    OBVIOUS
  <1> PICK t : t = [n \in DOMAIN s |-> One(s[n])]
    OBVIOUS
  <1>1. Pairs(l, u, on) = FlattenSeq(m) /\ Pairs(l, s, on) = FlattenSeq(t)
    BY DEF Pairs
  <1>2. \A y : IsSeq(One(y))
    BY NoneAndOne
  <1> HIDE DEF One
  <1>3. MadeOf(m, One(x), s, t) /\ AllSeqs(t)
    <2>1. /\ FunctionOn(m, 1 .. Len(s) + 1) /\ m[1] = One(x)
          /\ FunctionOn(t, 1 .. Len(s)) /\ Len(s) \in Nat
          /\ \A n \in 1 .. Len(s) : IsSeq(t[n]) /\ m[n + 1] = t[n]
      BY <1>2, EachRow DEF FunctionOn
    <2> QED
      BY <2>1, MapIs DEF MadeOf, AllSeqs
  <1>4. FlattenSeq(m) = One(x) \o FlattenSeq(t) /\ IsSeq(FlattenSeq(t))
    BY ONLY <1>2, <1>3, EachCons
  <1> QED
    BY <1>1, <1>4, SeqIs DEF One, Glue

\* Join.
LEMMA JoinedNone == ASSUME NEW right, NEW on PROVE JoinedRows(<<>>, right, on) = <<>>
  <1>1. [n \in DOMAIN <<>> |-> Pairs(<<>>[n], right, on)] = <<>>
    OBVIOUS
  <1> QED
    BY <1>1, FlattenNone DEF JoinedRows

LEMMA JoinedCons ==
    ASSUME NEW x, NEW s, IsSeq(s), NEW right, IsSeq(right), NEW on
    PROVE  /\ JoinedRows(<<x>> \o s, right, on) = Glue(Pairs(x, right, on), JoinedRows(s, right, on))
           /\ IsSeq(JoinedRows(s, right, on))
  <1> PICK u : u = <<x>> \o s
    OBVIOUS
  <1> PICK m : m = [n \in DOMAIN u |-> Pairs(u[n], right, on)]
    OBVIOUS
  <1> PICK t : t = [n \in DOMAIN s |-> Pairs(s[n], right, on)]
    OBVIOUS
  <1>1. JoinedRows(u, right, on) = FlattenSeq(m) /\ JoinedRows(s, right, on) = FlattenSeq(t)
    BY DEF JoinedRows
  <1>2. \A y : IsSeq(Pairs(y, right, on))
    BY PairsCons
  <1>3. MadeOf(m, Pairs(x, right, on), s, t) /\ AllSeqs(t)
    <2>1. /\ FunctionOn(m, 1 .. Len(s) + 1) /\ m[1] = Pairs(x, right, on)
          /\ FunctionOn(t, 1 .. Len(s)) /\ Len(s) \in Nat
          /\ \A n \in 1 .. Len(s) : IsSeq(t[n]) /\ m[n + 1] = t[n]
      BY <1>2, EachRow DEF FunctionOn
    <2> QED
      BY <2>1, MapIs DEF MadeOf, AllSeqs
  <1>4. FlattenSeq(m) = Pairs(x, right, on) \o FlattenSeq(t) /\ IsSeq(FlattenSeq(t))
    BY ONLY <1>2, <1>3, EachCons
  <1>5. FlattenSeq(m) = Glue(Pairs(x, right, on), FlattenSeq(t))
    BY ONLY <1>4 DEF Glue
  <1> QED
    BY <1>1, <1>4, <1>5

\* Project.
LEMMA ProjectedNone == ASSUME NEW c PROVE ProjectedRows(<<>>, c) = <<>>
  BY DEF ProjectedRows

LEMMA ProjectedCons ==
    ASSUME NEW x, NEW s, IsSeq(s), NEW c
    PROVE  /\ ProjectedRows(<<x>> \o s, c) = <<Projected(x, c)>> \o ProjectedRows(s, c)
           /\ IsSeq(ProjectedRows(s, c))
  <1> PICK u : u = <<x>> \o s
    OBVIOUS
  <1> PICK m : m = ProjectedRows(u, c)
    OBVIOUS
  <1> PICK t : t = ProjectedRows(s, c)
    OBVIOUS
  <1>1. Len(s) \in Nat /\ DOMAIN s = 1 .. Len(s) /\ DOMAIN u = 1 .. Len(s) + 1
    BY SeqIs, ConsIs
  <1>2. /\ FunctionOn(m, 1 .. Len(s) + 1) /\ m[1] = Projected(x, c)
        /\ FunctionOn(t, 1 .. Len(s))
        /\ \A n \in 1 .. Len(s) : m[n + 1] = t[n]
    BY <1>1, EachRow DEF ProjectedRows, FunctionOn
  <1>3. IsSeq(t) /\ MadeOf(m, Projected(x, c), s, t)
    BY <1>1, <1>2, MapIs DEF MadeOf
  <1>4. m = <<Projected(x, c)>> \o t
    BY <1>3, MapCons
  <1> QED
    BY <1>3, <1>4

-----------------------------------------------------------------------------
(* The rows a scan has still to hand out *)

\* The live rows of the pages from p on, and of those from slot n of page p on.
PagesFrom(p, max) == FlattenSeq([q \in 1 .. max - p |-> LiveRows(table[p + q - 1])])
SlotsFrom(p, n) == LiveRows(SubSeq(table[p], n, Len(table[p])))
LeftToScan(p, n, max) ==
    IF p < max THEN SlotsFrom(p, n) \o PagesFrom(p + 1, max) ELSE <<>>

\* A page is a sequence of slots.
LEMMA PageIs ==
    ASSUME table \in Tables, NEW max \in 1 .. Len(table) + 1, NEW p \in Nat \ {0}, p < max
    PROVE  IsSeq(table[p])
  <1>1. table \in Seq(Range(table)) /\ \A q \in DOMAIN table : table[q] \in Seq(Range(table[q]))
    BY TablesAssumption
  <1>2. DOMAIN table = 1 .. Len(table) /\ Len(table) \in Nat
    BY <1>1, LenProperties
  <1> QED
    BY <1>1, <1>2 DEF IsSeq

LEMMA PagesNone == ASSUME NEW p \in Nat, NEW max \in Nat, max <= p PROVE PagesFrom(p, max) = <<>>
  <1>1. 1 .. max - p = {}
    OBVIOUS
  <1>2. [q \in 1 .. max - p |-> LiveRows(table[p + q - 1])] = <<>>
    BY <1>1
  <1> QED
    BY <1>2, FlattenNone DEF PagesFrom

LEMMA PagesCons ==
    ASSUME table \in Tables, NEW max \in 1 .. Len(table) + 1, NEW p \in Nat \ {0}, p < max
    PROVE  /\ PagesFrom(p, max) = LiveRows(table[p]) \o PagesFrom(p + 1, max)
           /\ IsSeq(LiveRows(table[p])) /\ IsSeq(PagesFrom(p + 1, max))
  <1> PICK m : m = [q \in 1 .. max - p |-> LiveRows(table[p + q - 1])]
    OBVIOUS
  <1> PICK s : s = [q \in 1 .. max - (p + 1) |-> LiveRows(table[p + 1 + q - 1])]
    OBVIOUS
  <1> DEFINE L == max - (p + 1)
  <1>1. table \in Seq(Range(table)) /\ Len(table) \in Nat
    BY TablesAssumption, LenProperties
  <1>2. max \in Nat /\ L \in Nat /\ max - p = L + 1
    BY <1>1
  <1>3. FunctionOn(m, 1 .. L + 1) /\ FunctionOn(s, 1 .. L)
    BY <1>2 DEF FunctionOn
  <1>4. ASSUME NEW q \in Nat \ {0}, q < max PROVE IsSeq(LiveRows(table[q]))
    BY <1>4, PageIs, LiveRowsCons
  <1>5. m[1] = LiveRows(table[p])
    <2>1. 1 \in 1 .. max - p /\ p + 1 - 1 = p
      BY <1>2
    <2>2. m[1] = LiveRows(table[p + 1 - 1])
      BY <2>1
    <2> QED
      BY <2>1, <2>2
  <1>6. ASSUME NEW n \in 1 .. L PROVE m[n + 1] = s[n] /\ IsSeq(s[n])
    <2> PICK i : i = p + n
      OBVIOUS
    <2>1. /\ n + 1 \in 1 .. max - p /\ p + (n + 1) - 1 = i /\ p + 1 + n - 1 = i
          /\ i \in Nat \ {0} /\ i < max
      BY <1>2
    <2>2. m[n + 1] = LiveRows(table[p + (n + 1) - 1])
      BY <2>1
    <2>3. s[n] = LiveRows(table[p + 1 + n - 1])
      OBVIOUS
    <2>4. m[n + 1] = LiveRows(table[i]) /\ s[n] = LiveRows(table[i])
      BY <2>1, <2>2, <2>3
    <2> QED
      BY <1>4, <2>1, <2>4
  <1>7. PagesFrom(p, max) = FlattenSeq(m) /\ PagesFrom(p + 1, max) = FlattenSeq(s)
    BY DEF PagesFrom
  <1> HIDE DEF L
  <1>8. IsSeq(s) /\ Len(s) = L
    BY <1>2, <1>3, MapIs
  <1>9. AllSeqs(s)
    BY <1>6, <1>8 DEF AllSeqs
  <1>10. m = <<LiveRows(table[p])>> \o s
    <2>1. MadeOf(m, m[1], s, s)
      BY <1>3, <1>6, <1>8 DEF MadeOf
    <2> QED
      BY <1>5, <2>1, MapCons
  <1>11. IsSeq(LiveRows(table[p]))
    BY <1>4
  <1>12. FlattenSeq(m) = LiveRows(table[p]) \o FlattenSeq(s) /\ IsSeq(FlattenSeq(s))
    BY ONLY <1>9, <1>10, <1>11, FlattenCons, FlattenIsSeq
  <1> QED
    BY <1>7, <1>11, <1>12

LEMMA LeftIsSeq ==
    ASSUME table \in Tables, NEW max \in 1 .. Len(table) + 1, NEW p \in Nat \ {0}, NEW n \in Nat \ {0}
    PROVE  IsSeq(LeftToScan(p, n, max))
  <1>1. CASE p < max
    <2> PICK s : s = table[p]
      OBVIOUS
    <2>1. IsSeq(s) /\ Len(s) \in Nat
      BY <1>1, PageIs, SeqIs
    <2>2. SubSeq(s, n, Len(s)) \in Seq(Range(s))
      <3>1. \A i \in n .. Len(s) : s[i] \in Range(s)
        <4>1. \A i \in n .. Len(s) : i \in 1 .. Len(s)
          BY <2>1
        <4> QED
          BY <2>1, <4>1, ElementOfSeq DEF IsSeq
      <3> QED
        BY <2>1, <3>1, SubSeqProperties
    <2>3. IsSeq(SlotsFrom(p, n))
      BY <2>2, IsSeqOver, LiveRowsCons DEF SlotsFrom
    <2>4. IsSeq(PagesFrom(p + 1, max))
      BY <1>1, PagesCons
    <2> QED
      BY <1>1, <2>3, <2>4, ConcatIs DEF LeftToScan
  <1>2. CASE ~(p < max)
    BY <1>2, NoneAndOne DEF LeftToScan
  <1> QED
    BY <1>1, <1>2

\* All of them when it starts.
LEMMA LeftAtStart ==
    ASSUME table \in Tables, NEW max \in 1 .. Len(table) + 1
    PROVE  LeftToScan(1, 1, max) = RowsBefore(max)
  <1>1. table \in Seq(Range(table)) /\ Len(table) \in Nat
    BY TablesAssumption, LenProperties
  <1>2. RowsBefore(max) = PagesFrom(1, max)
    <2>1. \A q \in 1 .. max - 1 : 1 + q - 1 = q
      BY <1>1
    <2> QED
      BY <2>1 DEF RowsBefore, PagesFrom
  <1>3. CASE max = 1
    BY <1>2, <1>3, PagesNone DEF LeftToScan
  <1>4. CASE max # 1
    <2>1. 1 < max
      BY <1>1, <1>4
    <2>2. IsSeq(table[1])
      BY <2>1, PageIs
    <2>3. SubSeq(table[1], 1, Len(table[1])) = table[1]
      BY <2>2, SubSeqFull DEF IsSeq
    <2>4. PagesFrom(1, max) = LiveRows(table[1]) \o PagesFrom(1 + 1, max)
      BY <2>1, PagesCons
    <2> QED
      BY <1>2, <2>1, <2>3, <2>4 DEF LeftToScan, SlotsFrom
  <1> QED
    BY <1>3, <1>4

\* A slot is passed, a page is left, and no page is left over.
LEMMA LeftAtSlot ==
    ASSUME table \in Tables, NEW max \in 1 .. Len(table) + 1, NEW p \in Nat \ {0}, p < max,
           NEW n \in Nat \ {0}, n <= Len(table[p])
    PROVE  LeftToScan(p, n, max) =
               IF table[p][n] = Deleted THEN LeftToScan(p, n + 1, max)
               ELSE <<table[p][n]>> \o LeftToScan(p, n + 1, max)
  <1> PICK s, x, t : s = table[p] /\ x = s[n] /\ t = SubSeq(s, n + 1, Len(s))
    OBVIOUS
  <1>1. IsSeq(s) /\ Len(s) \in Nat
    BY PageIs, SeqIs
  <1>2. n \in 1 .. Len(s) /\ Len(s) \in n .. Len(s)
    BY <1>1
  <1>3. SubSeq(s, n, Len(s)) = <<x>> \o t
    BY <1>1, <1>2, SubSeqRecursiveFirst DEF IsSeq
  <1>4. IsSeq(t)
    <2>1. \A i \in n + 1 .. Len(s) : s[i] \in Range(s)
      <3>1. \A i \in n + 1 .. Len(s) : i \in 1 .. Len(s)
        BY <1>1
      <3> QED
        BY <1>1, <3>1, ElementOfSeq DEF IsSeq
    <2>2. t \in Seq(Range(s))
      BY <1>1, <2>1, SubSeqProperties
    <2> QED
      BY <2>2, IsSeqOver
  <1>5. /\ SlotsFrom(p, n) = IF x = Deleted THEN LiveRows(t) ELSE <<x>> \o LiveRows(t)
        /\ IsSeq(LiveRows(t)) /\ SlotsFrom(p, n + 1) = LiveRows(t)
    BY ZenonT(60), <1>3, <1>4, LiveRowsCons DEF SlotsFrom
  <1>6. IsSeq(PagesFrom(p + 1, max))
    BY PagesCons
  <1> PICK a, b : a = LiveRows(t) /\ b = PagesFrom(p + 1, max)
    OBVIOUS
  <1>7. (<<x>> \o a) \o b = <<x>> \o (a \o b)
    <2>1. IsSeq(<<x>>) /\ IsSeq(a) /\ IsSeq(b)
      BY <1>5, <1>6, NoneAndOne
    <2> QED
      BY ONLY <2>1, ConcatThree
  <1>8. LeftToScan(p, n, max) = SlotsFrom(p, n) \o b /\ LeftToScan(p, n + 1, max) = a \o b
    BY <1>5 DEF LeftToScan
  <1> QED
    BY <1>5, <1>7, <1>8

LEMMA LeftAtPage ==
    ASSUME table \in Tables, NEW max \in 1 .. Len(table) + 1, NEW p \in Nat \ {0}, p < max,
           NEW n \in Nat \ {0}, ~(n <= Len(table[p]))
    PROVE  LeftToScan(p, n, max) = LeftToScan(p + 1, 1, max)
  <1> PICK s : s = table[p]
    OBVIOUS
  <1>0. table \in Seq(Range(table)) /\ Len(table) \in Nat
    BY TablesAssumption, LenProperties
  <1>1. IsSeq(s) /\ Len(s) \in Nat
    BY PageIs, SeqIs
  <1>2. SubSeq(s, n, Len(s)) = <<>>
    BY <1>1, SubSeqEmpty
  <1>3. SlotsFrom(p, n) = <<>>
    BY <1>2, LiveRowsNone DEF SlotsFrom
  <1>4. IsSeq(PagesFrom(p + 1, max))
    BY PagesCons
  <1>5. LeftToScan(p, n, max) = PagesFrom(p + 1, max)
    <2>1. <<>> \o PagesFrom(p + 1, max) = PagesFrom(p + 1, max)
      BY <1>4, SeqIs
    <2> QED
      BY <1>3, <2>1 DEF LeftToScan
  <1> PICK k : k = p + 1
    OBVIOUS
  <1>6. CASE k < max
    <2>1. k \in Nat \ {0}
      OBVIOUS
    <2>2. IsSeq(table[k])
      BY <1>6, <2>1, PageIs
    <2>3. SubSeq(table[k], 1, Len(table[k])) = table[k]
      BY <2>2, SubSeqFull DEF IsSeq
    <2>4. PagesFrom(k, max) = LiveRows(table[k]) \o PagesFrom(k + 1, max)
      BY <1>6, <2>1, PagesCons
    <2>5. LeftToScan(k, 1, max) = PagesFrom(k, max)
      BY <1>6, <2>3, <2>4 DEF LeftToScan, SlotsFrom
    <2> QED
      BY <1>5, <2>5
  <1>7. CASE ~(k < max)
    <2>1. max <= p + 1 /\ max \in Nat /\ p + 1 \in Nat
      BY <1>0, <1>7
    <2>2. PagesFrom(p + 1, max) = <<>>
      BY <2>1, PagesNone
    <2> QED
      BY <1>5, <1>7, <2>2 DEF LeftToScan
  <1> QED
    BY <1>6, <1>7

-----------------------------------------------------------------------------
(* The rows of each operator *)

\* What Rows makes of the rows of the inputs.
RowsOf(rows, k) ==
    LET op == plan[k]
        first == rows[op.in[1]]
    IN CASE op.kind = "scan" -> RowsBefore(op.max)
         [] op.kind = "index" -> Found(op.key)
         [] op.kind = "select" -> Selected(first, op.where)
         [] op.kind = "project" -> ProjectedRows(first, op.columns)
         [] op.kind = "sort" -> IF Unsortable(first, op.column) THEN <<>>
                                ELSE InOrder(first, op.column, op.asc)
         [] op.kind = "join" -> JoinedRows(first, rows[op.in[2]], op.on)

LEMMA RowsDepend ==
    ASSUME IsPlan(plan), NEW k \in DOMAIN plan, NEW f, NEW g,
           \A n \in DOMAIN plan[k].in : f[plan[k].in[n]] = g[plan[k].in[n]]
    PROVE  RowsOf(f, k) = RowsOf(g, k)
  <1>1. /\ plan[k].kind \in {"scan", "index", "select", "project", "sort", "join"}
        /\ DOMAIN plan[k].in = 1 .. Arity(plan[k].kind)
    BY InputFacts
  <1>2. CASE plan[k].kind = "scan"
    BY <1>2 DEF RowsOf
  <1>3. CASE plan[k].kind = "index"
    BY <1>3 DEF RowsOf
  <1>4. CASE plan[k].kind \in {"select", "project", "sort"}
    <2>1. f[plan[k].in[1]] = g[plan[k].in[1]]
      BY <1>1, <1>4, Arities
    <2> QED
      BY <1>4, <2>1 DEF RowsOf
  <1>5. CASE plan[k].kind = "join"
    <2>1. f[plan[k].in[1]] = g[plan[k].in[1]] /\ f[plan[k].in[2]] = g[plan[k].in[2]]
      BY <1>1, <1>5, Arities
    <2> QED
      BY <1>5, <2>1 DEF RowsOf
  <1> QED
    BY <1>1, <1>2, <1>3, <1>4, <1>5

LEMMA RowsAre ==
    ASSUME IsPlan(plan)
    PROVE  \A k \in DOMAIN plan : Rows[k] = RowsOf(Rows, k)
  <1> DEFINE Way(f) == f = [k \in DOMAIN plan |-> RowsOf(f, k)]
             Up(f, n) == FunctionOn(f, 1 .. n) /\ \A k \in 1 .. n : f[k] = RowsOf(f, k)
             all == CHOOSE f : Way(f)
  <1> PICK m : m = Len(plan)
    OBVIOUS
  <1>1. DOMAIN plan = 1 .. m /\ m \in Nat
    BY LenProperties DEF IsPlan
  <1> DEFINE S == {n \in 0 .. m : \E f : Up(f, n)}
  <1>2. 0 \in S
    <2> DEFINE f == [i \in 1 .. 0 |-> <<>>]
    <2>1. Up(f, 0)
      BY DEF FunctionOn
    <2> HIDE DEF f, Up
    <2> QED
      BY <1>1, <2>1
  <1>3. ASSUME NEW n \in 0 .. m - 1, n \in S PROVE n + 1 \in S
    <2>1. PICK f : Up(f, n)
      BY <1>3
    <2> DEFINE g == [i \in 1 .. n + 1 |-> IF i = n + 1 THEN RowsOf(f, n + 1) ELSE f[i]]
    <2>2. \A i \in 1 .. n : g[i] = f[i]
      OBVIOUS
    <2>3. g[n + 1] = RowsOf(f, n + 1) /\ FunctionOn(g, 1 .. n + 1)
      BY DEF FunctionOn
    <2> HIDE DEF g
    <2>4. ASSUME NEW k \in 1 .. n + 1 PROVE RowsOf(g, k) = RowsOf(f, k)
      <3>1. k \in DOMAIN plan
        BY <1>1, <2>4
      <3>2. ASSUME NEW j \in DOMAIN plan[k].in
            PROVE  g[plan[k].in[j]] = f[plan[k].in[j]]
        <4> PICK i : i = plan[k].in[j]
          OBVIOUS
        <4>1. i \in DOMAIN plan /\ i < k
          BY <3>1, InputFacts
        <4>2. i \in 1 .. n
          BY <1>1, <4>1
        <4> QED
          BY <2>2, <4>2
      <3> QED
        BY <3>1, <3>2, RowsDepend
    <2>5. \A k \in 1 .. n + 1 : g[k] = RowsOf(g, k)
      <3> SUFFICES ASSUME NEW k \in 1 .. n + 1 PROVE g[k] = RowsOf(f, k)
        BY <2>4
      <3>1. CASE k = n + 1
        BY <2>3, <3>1
      <3>2. CASE k # n + 1
        <4>1. k \in 1 .. n
          BY <3>2
        <4> QED
          BY <2>1, <2>2, <4>1
      <3> QED
        BY <3>1, <3>2
    <2>6. Up(g, n + 1)
      BY <2>3, <2>5
    <2>7. n + 1 \in 0 .. m
      BY <1>1
    <2> HIDE DEF Up
    <2> QED
      BY <2>6, <2>7
  <1> HIDE DEF S
  <1>4. m \in S
    BY <1>1, <1>2, <1>3, UpTo
  <1>5. PICK f : Up(f, m)
    BY <1>4 DEF S
  <1>6. Way(f)
    BY <1>1, <1>5 DEF FunctionOn
  <1>7. Way(all)
    <2> HIDE DEF Way
    <2> QED
      BY <1>6
  <1>8. Rows = all
    BY DEF Rows, RowsOf
  <1> HIDE DEF all
  <1> QED
    BY <1>7, <1>8

\* A sort arranges, it makes no other rows.
LEMMA InOrderIs ==
    ASSUME NEW s, IsSeq(s), NEW c, NEW asc
    PROVE  /\ IsSeq(InOrder(s, c, asc))
           /\ s = <<>> => InOrder(s, c, asc) = <<>>
  <1>1. DOMAIN s = 1 .. Len(s) /\ Len(s) \in Nat
    BY SeqIs
  <1>2. FunctionOn(InOrder(s, c, asc), DOMAIN s)
    BY DEF InOrder, StablySorted, FunctionOn
  <1>3. IsSeq(InOrder(s, c, asc)) /\ Len(InOrder(s, c, asc)) = Len(s)
    BY <1>1, <1>2, MapIs
  <1> QED
    BY <1>3, SeqIs

LEMMA RowsAreSeqs ==
    ASSUME IsPlan(plan), table \in Tables, ScansTable(plan, table)
    PROVE  \A k \in DOMAIN plan : IsSeq(Rows[k])
  <1> PICK m : m = Len(plan)
    OBVIOUS
  <1>1. DOMAIN plan = 1 .. m /\ m \in Nat
    BY LenProperties DEF IsPlan
  <1> DEFINE S == {n \in 0 .. m : \A k \in 1 .. n : IsSeq(Rows[k])}
  <1>2. 0 \in S
    BY <1>1
  <1>3. ASSUME NEW n \in 0 .. m - 1, n \in S PROVE n + 1 \in S
    <2> PICK k : k = n + 1
      OBVIOUS
    <2>1. k \in DOMAIN plan /\ k \in 0 .. m
      BY <1>1
    <2>2. /\ plan[k].kind \in {"scan", "index", "select", "project", "sort", "join"}
          /\ DOMAIN plan[k].in = 1 .. Arity(plan[k].kind)
      BY <2>1, InputFacts
    <2>3. ASSUME NEW j \in DOMAIN plan[k].in PROVE IsSeq(Rows[plan[k].in[j]])
      <3> PICK i : i = plan[k].in[j]
        OBVIOUS
      <3>1. i \in DOMAIN plan /\ i < k
        BY <2>1, InputFacts
      <3>2. i \in 1 .. n
        BY <1>1, <3>1
      <3> QED
        BY <1>3, <3>2
    <2>4. Rows[k] = RowsOf(Rows, k)
      BY <2>1, RowsAre
    <2>5. IsSeq(Rows[k])
      <3>1. CASE plan[k].kind = "scan"
        <4>1. plan[k].max \in 1 .. Len(table) + 1
          BY <2>1, <3>1 DEF ScansTable
        <4>2. IsSeq(RowsBefore(plan[k].max))
          BY <4>1, LeftAtStart, LeftIsSeq
        <4> QED
          BY <2>4, <3>1, <4>2 DEF RowsOf
      <3>2. CASE plan[k].kind = "index"
        <4>1. IsSeq(Found(plan[k].key))
          BY NoneAndOne DEF Found
        <4> QED
          BY <2>4, <3>2, <4>1 DEF RowsOf
      <3>3. CASE plan[k].kind \in {"select", "project", "sort"}
        <4> PICK s : s = Rows[plan[k].in[1]]
          OBVIOUS
        <4>1. IsSeq(s)
          BY <2>2, <2>3, <3>3, Arities
        <4>2. /\ IsSeq(Selected(s, plan[k].where)) /\ IsSeq(ProjectedRows(s, plan[k].columns))
              /\ IsSeq(InOrder(s, plan[k].column, plan[k].asc))
          BY <4>1, SelectedCons, ProjectedCons, InOrderIs
        <4> QED
          BY <2>4, <3>3, <4>2, NoneAndOne DEF RowsOf
      <3>4. CASE plan[k].kind = "join"
        <4> PICK s, t : s = Rows[plan[k].in[1]] /\ t = Rows[plan[k].in[2]]
          OBVIOUS
        <4>1. IsSeq(s) /\ IsSeq(t)
          BY <2>2, <2>3, <3>4, Arities
        <4>2. IsSeq(JoinedRows(s, t, plan[k].on))
          BY <4>1, JoinedCons
        <4> QED
          BY <2>4, <3>4, <4>2 DEF RowsOf
      <3> QED
        BY <2>2, <3>1, <3>2, <3>3, <3>4
    <2>6. \A i \in 1 .. k : i \in 1 .. n \/ i = k
      BY <1>1
    <2>7. \A i \in 1 .. k : IsSeq(Rows[i])
      BY <1>3, <2>5, <2>6
    <2> QED
      BY <2>1, <2>7
  <1> HIDE DEF S
  <1>4. m \in S
    BY <1>1, <1>2, <1>3, UpTo
  <1> QED
    BY <1>1, <1>4 DEF S

-----------------------------------------------------------------------------
(* Sorts that cannot be made *)

\* The sorts without their column.
BadSort(k) == plan[k].kind = "sort" /\ Unsortable(Rows[plan[k].in[1]], plan[k].column)

\* Those that may compare two values for which stod throws.
Risky(k) == \E rows \in {Rows[plan[k].in[1]], Rows[k]} : MayRaise(rows, plan[k].column)

\* The history of what the plan is to return.
Goal == [rows |-> Rows[Len(plan)],
         fails |-> \E k \in OfKind("sort") : BadSort(k),
         mayFail |-> \E k \in OfKind("sort") : Risky(k)]

\* The operators a set of operators feeds, and those that have such a sort
\* below them or are one.
Upward(A) == \A k \in DOMAIN plan : \A n \in DOMAIN plan[k].in : plan[k].in[n] \in A => k \in A
Fails(k) ==
    \E j \in DOMAIN plan : BadSort(j) /\ \A A \in SUBSET DOMAIN plan : j \in A /\ Upward(A) => k \in A

LEMMA FailsByInput ==
    ASSUME IsPlan(plan), NEW k \in DOMAIN plan
    PROVE  Fails(k) <=> (BadSort(k) \/ \E n \in DOMAIN plan[k].in : Fails(plan[k].in[n]))
  <1>1. ASSUME BadSort(k) PROVE Fails(k)
    BY <1>1 DEF Fails
  <1>2. ASSUME NEW n \in DOMAIN plan[k].in, Fails(plan[k].in[n]) PROVE Fails(k)
    BY <1>2 DEF Fails, Upward
  <1>3. ASSUME Fails(k), ~BadSort(k), \A n \in DOMAIN plan[k].in : ~Fails(plan[k].in[n])
        PROVE  FALSE
    <2>1. PICK j \in DOMAIN plan :
              BadSort(j) /\ \A A \in SUBSET DOMAIN plan : j \in A /\ Upward(A) => k \in A
      BY <1>3 DEF Fails
    <2> DEFINE A == {i \in DOMAIN plan :
                        \A B \in SUBSET DOMAIN plan : j \in B /\ Upward(B) => i \in B} \ {k}
    <2>2. j \in A
      BY <1>3, <2>1
    <2>3. Upward(A)
      <3> SUFFICES ASSUME NEW l \in DOMAIN plan, NEW n \in DOMAIN plan[l].in, plan[l].in[n] \in A
                   PROVE  l \in A
        BY DEF Upward
      <3>1. \A B \in SUBSET DOMAIN plan : j \in B /\ Upward(B) => plan[l].in[n] \in B
        OBVIOUS
      <3>2. Fails(plan[l].in[n])
        BY <2>1, <3>1 DEF Fails
      <3>3. l # k
        BY <1>3, <3>2
      <3>4. \A B \in SUBSET DOMAIN plan : j \in B /\ Upward(B) => l \in B
        BY <3>1 DEF Upward
      <3> QED
        BY <3>3, <3>4
    <2>4. A \in SUBSET DOMAIN plan /\ k \notin A
      OBVIOUS
    <2> HIDE DEF A
    <2> QED
      BY <2>1, <2>2, <2>3, <2>4
  <1> QED
    BY <1>1, <1>2, <1>3

\* Each operator is below the root.
LEMMA FailsAtRoot ==
    ASSUME IsPlan(plan)
    PROVE  Fails(Len(plan)) <=> \E k \in DOMAIN plan : BadSort(k)
  <1>1. DOMAIN plan = 1 .. Len(plan) /\ Len(plan) \in Nat \ {0}
    BY LenProperties, EmptySeq DEF IsPlan
  <1>2. ASSUME NEW j \in DOMAIN plan, BadSort(j) PROVE Fails(Len(plan))
    <2> SUFFICES ASSUME NEW A \in SUBSET DOMAIN plan, j \in A, Upward(A)
                 PROVE  Len(plan) \in A
      BY <1>2 DEF Fails
    <2>1. PICK k \in A : \A l \in A : l <= k
      <3>1. Len(plan) \in Nat /\ A \in SUBSET (1 .. Len(plan)) /\ A # {}
        BY <1>1
      <3> QED
        BY <3>1, LastOf
    <2>2. CASE k = Len(plan)
      BY <2>1, <2>2
    <2>3. CASE k # Len(plan)
      <3>1. k \in 1 .. Len(plan) - 1 /\ k \in DOMAIN plan
        BY <1>1, <2>1, <2>3
      <3>2. PICK l \in DOMAIN plan : \E n \in DOMAIN plan[l].in : plan[l].in[n] = k
        BY <3>1 DEF IsPlan, EachUsed
      <3>3. l \in A
        BY <2>1, <3>2 DEF Upward
      <3>4. k < l
        BY <3>2, InputFacts
      <3>5. l <= k /\ l \in Nat /\ k \in Nat
        BY <1>1, <2>1, <3>3
      <3> QED
        BY <3>4, <3>5
    <2> QED
      BY <2>2, <2>3
  <1> QED
    BY <1>2 DEF Fails

-----------------------------------------------------------------------------
(* What every operator has still to hand out *)

\* left[k] stands for the rows operator k will still return: of one whose next is in progress,
\* those it had when it was called.  A join that has a left row owes the pairs of it with what
\* is left of the right side, and those of the left rows to come with all of the right side.
ToPair(m, right) == IF m.rightValid THEN <<m.right>> \o right ELSE right
ToJoin(m, first, right, all, on) ==
    IF m.leftValid THEN Pairs(m.left, ToPair(m, right), on) \o JoinedRows(first, all, on)
    ELSE <<>>
AtRest(left, k, m) ==
    LET op == plan[k]
        first == left[op.in[1]]
    IN CASE op.kind = "scan" -> LeftToScan(m.page, m.slot, op.max)
         [] op.kind = "index" -> IF m.executed THEN <<>> ELSE Found(op.key)
         [] op.kind = "select" -> Selected(first, op.where)
         [] op.kind = "project" -> ProjectedRows(first, op.columns)
         [] op.kind = "sort" -> m.rows
         [] op.kind = "join" -> ToJoin(m, first, left[op.in[2]], Rows[op.in[2]], op.on)

MembersOK(k, m) ==
    /\ plan[k].kind = "scan" => m.page \in Nat \ {0} /\ m.slot \in Nat \ {0}
    /\ plan[k].kind = "sort" =>
         IsSeq(m.rows) /\ (MayRaise(m.rows, plan[k].column) => Risky(k))
    /\ plan[k].kind = "join" =>
         m = [leftValid |-> m.leftValid, rightValid |-> m.rightValid,
              left |-> m.left, right |-> m.right]

\* What an input has with the row r it has just returned, if it has; when it returned none
\* there is none left.
Owed(s, top, r) == IF top /\ r.ok THEN <<r.values>> \o s ELSE s
Asked(s, top, r) == top /\ ~r.ok => s = <<>>

\* What a method of operator k knows at each place, by what the call it made returned.
JoinData(left, k, m, f, top, r) ==
    LET on == plan[k].on
        in2 == plan[k].in[2]
        first == left[plan[k].in[1]]
        right == left[in2]
        all == Rows[in2]
    IN /\ f.call = "open" =>
            /\ f.at = "second" => first = Rows[plan[k].in[1]] /\ (top => right = all)
            /\ f.at = "primed" => /\ right = all /\ Asked(first, top, r)
                                  /\ Owed(first, top, r) = Rows[plan[k].in[1]]
       /\ f.call = "next" =>
            /\ f.at \in {"right", "match", "emit"} => m.leftValid
            /\ f.at \in {"right", "emit"} => Asked(right, top, r)
            /\ f.at = "right" =>
                 left[k] = Pairs(m.left, Owed(right, top, r), on) \o JoinedRows(first, all, on)
            /\ f.at = "match" => /\ left[k] = ToJoin(m, first, right, all, on)
                                 /\ ~m.rightValid => right = <<>>
            /\ f.at = "emit" =>
                 left[k] = <<f.out>> \o (Pairs(m.left, Owed(right, top, r), on)
                                            \o JoinedRows(first, all, on))
            /\ f.at \in {"closed", "reopened"} => left[k] = JoinedRows(first, all, on)
            /\ f.at = "reopened" /\ top => right = all
            /\ f.at = "left" => /\ right = all /\ Asked(first, top, r)
                                /\ left[k] = JoinedRows(Owed(first, top, r), all, on)

ColumnThere(m, column) == m.rows # <<>> => column \in DOMAIN Head(m.rows)
SortData(left, k, m, f, top, r) ==
    LET in1 == plan[k].in[1]
        first == left[in1]
    IN f.call = "open" =>
         /\ f.at \in {"consume", "got", "sort"} => ColumnThere(m, plan[k].column)
         /\ f.at = "consume" => IF top THEN m.rows \o first = Rows[in1] ELSE m.rows = <<>>
         /\ f.at = "got" => /\ m.rows \o Owed(first, top, r) = Rows[in1]
                            /\ Asked(first, top, r)
         /\ f.at = "sort" => m.rows = Rows[in1] /\ ~Fails(in1)
         /\ f.at = "throw" => BadSort(k)

PassData(left, k, m, f, top, r) ==
    LET first == left[plan[k].in[1]]
    IN f.call = "next" /\ f.at = "asked" =>
         /\ Asked(first, top, r)
         /\ left[k] = IF plan[k].kind = "select"
                      THEN Selected(Owed(first, top, r), plan[k].where)
                      ELSE ProjectedRows(Owed(first, top, r), plan[k].columns)

CallData(left, k, m, f, top, r) ==
    /\ f.call = "next" /\ f.at = "start" => left[k] = AtRest(left, k, m)
    /\ f.call = "open" /\ f.at = "first" /\ top => left[plan[k].in[1]] = Rows[plan[k].in[1]]
    /\ plan[k].kind \in {"select", "project"} => PassData(left, k, m, f, top, r)
    /\ plan[k].kind = "join" => JoinData(left, k, m, f, top, r)
    /\ plan[k].kind = "sort" => SortData(left, k, m, f, top, r)

\* What the consumer has and what there is left make the rows of the plan.
ConsumerData(left) ==
    LET root == Len(plan)
        idle == stack = <<>>
    IN /\ goal = Goal
       /\ IsSeq(out)
       /\ phase = "opening" => out = <<>> /\ (idle => left[root] = Rows[root])
       /\ phase = "open" => out \o left[root] = Rows[root]
       /\ phase = "asking" => /\ out \o Owed(left[root], idle, ret) = Rows[root]
                              /\ Asked(left[root], idle, ret)
       /\ phase \in {"ended", "drained"} => out = Rows[root] /\ left[root] = <<>>
       /\ phase = "again" => out = Rows[root] /\ Owed(left[root], idle, ret) = <<>>

LeftOK(left) == FunctionOn(left, DOMAIN plan) /\ \A k \in DOMAIN plan : IsSeq(left[k])
OperatorData(left) ==
    /\ \A k \in DOMAIN plan : MembersOK(k, state[k]) /\ (opened[k] => ~Fails(k))
    /\ Consuming =>
         \A k \in DOMAIN plan : opened[k] /\ ~Active(k) => left[k] = AtRest(left, k, state[k])
    /\ \A j \in DOMAIN stack :
         CallData(left, stack[j].op, state[stack[j].op], stack[j], j = Len(stack), ret)
Data(left) == LeftOK(left) /\ OperatorData(left) /\ ConsumerData(left)

-----------------------------------------------------------------------------
(* What the data do not depend on *)

LEMMA SameRows ==
    ASSUME UNCHANGED <<plan, table>>
    PROVE  /\ Rows' = Rows /\ Goal' = Goal
           /\ \A k : (BadSort(k)' <=> BadSort(k)) /\ (Fails(k)' <=> Fails(k))
                     /\ (Risky(k)' <=> Risky(k))
  <1>1. Rows' = Rows
    BY DEF Rows, RowsBefore, Found, Selected, ProjectedRows, JoinedRows, Unsortable, InOrder,
        Hits, LiveRows, Filtered, Satisfies, Pairs, StablySorted, LessThan, Joined, Projected
  <1>2. \A k : BadSort(k)' <=> BadSort(k)
    BY <1>1 DEF BadSort, Unsortable
  <1>3. \A A : Upward(A)' <=> Upward(A)
    BY DEF Upward
  <1>4. \A k : Fails(k)' <=> Fails(k)
    BY <1>2, <1>3 DEF Fails
  <1>5. \A k : Risky(k)' <=> Risky(k)
    BY <1>1 DEF Risky, MayRaise
  <1>6. Goal' = Goal
    <2>1. OfKind("sort")' = OfKind("sort")
      BY DEF OfKind
    <2> QED
      BY <1>1, <1>2, <1>5, <2>1 DEF Goal
  <1> QED
    BY <1>1, <1>2, <1>4, <1>5, <1>6

LEMMA SameRest ==
    ASSUME UNCHANGED <<plan, table>>
    PROVE  /\ \A left, k, m : AtRest(left, k, m)' = AtRest(left, k, m)
           /\ \A k, m : MembersOK(k, m)' <=> MembersOK(k, m)
  <1>1. \A p, n, max : LeftToScan(p, n, max)' = LeftToScan(p, n, max)
    BY DEF LeftToScan, SlotsFrom, PagesFrom, LiveRows, Filtered
  <1>2. \A key : Found(key)' = Found(key)
    BY DEF Found, Hits, RowsBefore, LiveRows, Filtered
  <1>3. ASSUME NEW left, NEW k, NEW m PROVE AtRest(left, k, m)' = AtRest(left, k, m)
    <2>1. Rows' = Rows
      BY SameRows
    <2> QED
      BY <1>1, <1>2, <2>1 DEF AtRest
  <1> QED
    BY <1>3, SameRows DEF MembersOK

LEMMA SameCallData ==
    ASSUME UNCHANGED <<plan, table>>
    PROVE  \A left, k, m, f, top, r :
               CallData(left, k, m, f, top, r)' <=> CallData(left, k, m, f, top, r)
  <1> SUFFICES ASSUME NEW left, NEW k, NEW m, NEW f, NEW top, NEW r
               PROVE  CallData(left, k, m, f, top, r)' <=> CallData(left, k, m, f, top, r)
    OBVIOUS
  <1>1. PassData(left, k, m, f, top, r)' <=> PassData(left, k, m, f, top, r)
    BY DEF PassData
  <1>2. Rows' = Rows
    BY SameRows
  <1>3. JoinData(left, k, m, f, top, r)' <=> JoinData(left, k, m, f, top, r)
    BY <1>2 DEF JoinData
  <1>4. SortData(left, k, m, f, top, r)' <=> SortData(left, k, m, f, top, r)
    BY <1>2, SameRows DEF SortData
  <1> QED
    BY <1>1, <1>2, <1>3, <1>4, SameRest DEF CallData

\* A call below the last one does not see what was returned.
LEMMA NotOnTop ==
    ASSUME NEW left, NEW k, NEW m, NEW f, NEW r, NEW u
    PROVE  CallData(left, k, m, f, FALSE, r) <=> CallData(left, k, m, f, FALSE, u)
  BY DEF CallData, PassData, JoinData, SortData, Owed, Asked

\* Nor do an operator and its call see any rows but its own and those of its inputs.
LEMMA OwnRows ==
    ASSUME IsPlan(plan), NEW left, NEW two, NEW k \in DOMAIN plan, NEW m, NEW f, NEW top, NEW r,
           two[k] = left[k], \A n \in DOMAIN plan[k].in : two[plan[k].in[n]] = left[plan[k].in[n]]
    PROVE  /\ AtRest(two, k, m) = AtRest(left, k, m)
           /\ f.at \in Places(plan[k].kind, f.call) /\ CallData(left, k, m, f, top, r) =>
                CallData(two, k, m, f, top, r)
  <1>1. /\ plan[k].kind \in {"scan", "index", "select", "project", "sort", "join"}
        /\ DOMAIN plan[k].in = 1 .. Arity(plan[k].kind)
    BY InputFacts
  <1>2. CASE plan[k].kind \in {"scan", "index"}
    BY <1>2 DEF AtRest, CallData, Places
  <1>3. CASE plan[k].kind \in {"select", "project", "sort"}
    <2>1. two[plan[k].in[1]] = left[plan[k].in[1]]
      BY <1>1, <1>3, Arities
    <2> QED
      BY <1>3, <2>1 DEF AtRest, CallData, PassData, SortData
  <1>4. CASE plan[k].kind = "join"
    <2>1. two[plan[k].in[1]] = left[plan[k].in[1]] /\ two[plan[k].in[2]] = left[plan[k].in[2]]
      BY <1>1, <1>4, Arities
    <2>2. AtRest(two, k, m) = AtRest(left, k, m)
      BY <1>4, <2>1 DEF AtRest
    <2>3. JoinData(left, k, m, f, top, r) => JoinData(two, k, m, f, top, r)
      BY <2>1 DEF JoinData
    <2> QED
      BY <1>4, <2>1, <2>2, <2>3 DEF CallData
  <1> QED
    BY <1>1, <1>2, <1>3, <1>4

-----------------------------------------------------------------------------
(* Calls, returns and the rows that are left *)

\* What is known of the calls in progress, and of the operators about the last of them.
LEMMA StackFacts ==
    ASSUME ProtocolNow, stack # <<>>, NEW L, L = Len(stack)
    PROVE  /\ L \in Nat \ {0} /\ DOMAIN stack = 1 .. L /\ stack[L] = Frame
           /\ Self \in DOMAIN plan /\ Active(Self)
           /\ \A j \in 1 .. L - 1 :
                /\ stack[j].op \in DOMAIN plan /\ stack[j].op # Self
                /\ stack[j].at \in Places(plan[stack[j].op].kind, stack[j].call)
           /\ \A n \in DOMAIN Op.in :
                /\ Op.in[n] \in DOMAIN plan /\ Op.in[n] # Self /\ ~Active(Op.in[n])
                /\ opened[Op.in[n]] <=> InputOpen(Op.kind, Frame.call, Frame.at, n)
  <1>1. Frame = stack[L] /\ Self = stack[L].op
    BY DEF Frame, Self, Last
  <1>2. /\ L \in Nat \ {0} /\ DOMAIN stack = 1 .. L /\ L \in DOMAIN stack
    BY EmptySeq, LenProperties DEF ProtocolNow, StackTyped
  <1>3. /\ Self \in DOMAIN plan /\ Self \in Nat
        /\ PlaceOK(L) /\ InputsOK(L)
    BY <1>1, <1>2, InputFacts DEF ProtocolNow, ProtocolInv, PlaceOK
  <1>4. ASSUME NEW j \in DOMAIN stack
        PROVE  /\ stack[j].op \in DOMAIN plan /\ stack[j].op \in Nat
               /\ stack[j].at \in Places(plan[stack[j].op].kind, stack[j].call)
               /\ j # L => stack[j].op # Self
               /\ stack[j].op >= Self
    <2>1. PlaceOK(j)
      BY DEF ProtocolNow, ProtocolInv
    <2>2. stack[j].op \in DOMAIN plan /\ stack[j].op \in Nat
      BY <2>1, InputFacts DEF PlaceOK, ProtocolNow
    <2>3. j # L => stack[j].op > Self
      <3>1. j # L => j < L
        BY <1>2
      <3> QED
        BY <1>1, <1>2, <2>2, <1>3, <3>1 DEF ProtocolNow, ProtocolInv, Downwards
    <2> QED
      BY <1>1, <1>3, <2>1, <2>2, <2>3 DEF PlaceOK, KindOf
  <1>5. \A j \in 1 .. L - 1 : j \in DOMAIN stack /\ j # L
    BY <1>2
  <1>6. ASSUME NEW n \in DOMAIN Op.in
        PROVE  /\ Op.in[n] \in DOMAIN plan /\ Op.in[n] # Self /\ ~Active(Op.in[n])
               /\ opened[Op.in[n]] <=> InputOpen(Op.kind, Frame.call, Frame.at, n)
    <2>1. Op.in[n] \in DOMAIN plan /\ Op.in[n] \in Nat /\ Op.in[n] < Self
      BY <1>3, InputFacts DEF Op, ProtocolNow
    <2>2. ~Active(Op.in[n])
      BY <1>3, <1>4, <2>1 DEF Active
    <2>3. opened[Op.in[n]] <=> InputOpen(Op.kind, Frame.call, Frame.at, n)
      BY <1>1, <1>3, <2>2 DEF InputsOK, InputsOf, KindOf, Op
    <2> QED
      BY <1>3, <2>1, <2>2, <2>3
  <1>7. Active(Self)
    BY <1>1, <1>2 DEF Active
  <1> QED
    BY <1>1, <1>2, <1>3, <1>4, <1>5, <1>6, <1>7

\* The caller, if there is one, is the only operator that has the last one as an input.
LEMMA Caller ==
    ASSUME ProtocolNow, stack # <<>>, NEW L, L = Len(stack)
    PROVE  /\ L = 1 => /\ Self = Len(plan) /\ Frame.call = CallOf(phase)
                       /\ phase \in {"opening", "asking", "again", "closing"}
           /\ L # 1 => LET j == L - 1
                           k == stack[j].op
                           n == CalledInput(stack[j].at)
                       IN /\ j \in 1 .. L - 1 /\ j \in DOMAIN stack
                          /\ k \in DOMAIN plan /\ n \in DOMAIN plan[k].in /\ plan[k].in[n] = Self
                          /\ stack[j].at \notin {"start", "match"}
                          /\ Frame.call = CalledMethod(stack[j].call, stack[j].at)
           /\ \A m \in DOMAIN plan : \A n \in DOMAIN plan[m].in : plan[m].in[n] = Self =>
                L # 1 /\ stack[L - 1].op = m /\ CalledInput(stack[L - 1].at) = n
  <1>1. Frame = stack[L] /\ Self = stack[L].op
    BY DEF Frame, Self, Last
  <1>2. /\ L \in Nat \ {0} /\ DOMAIN stack = 1 .. L /\ IsPlan(plan)
    BY StackFacts DEF ProtocolNow
  <1>3. L = 1 => /\ Self = Len(plan) /\ Frame.call = CallOf(phase)
                 /\ phase \in {"opening", "asking", "again", "closing"}
    BY <1>1 DEF ProtocolNow, ProtocolInv, RootOK
  <1>4. ASSUME L # 1
        PROVE  LET j == L - 1
                   k == stack[j].op
                   n == CalledInput(stack[j].at)
               IN /\ j \in 1 .. L - 1 /\ j \in DOMAIN stack
                  /\ k \in DOMAIN plan /\ n \in DOMAIN plan[k].in /\ plan[k].in[n] = Self
                  /\ stack[j].at \notin {"start", "match"}
                  /\ Frame.call = CalledMethod(stack[j].call, stack[j].at)
    <2> PICK j : j = L - 1
      OBVIOUS
    <2>1. j \in 1 .. L - 1 /\ j \in DOMAIN stack /\ j < Len(stack) /\ j + 1 = L
      BY <1>2, <1>4
    <2>2. LinkOK(j) /\ PlaceOK(j)
      BY <2>1 DEF ProtocolNow, ProtocolInv
    <2> QED
      BY <1>1, <2>1, <2>2 DEF LinkOK, PlaceOK, InputsOf
  <1>5. ASSUME NEW m \in DOMAIN plan, NEW n \in DOMAIN plan[m].in, plan[m].in[n] = Self
        PROVE  L # 1 /\ stack[L - 1].op = m /\ CalledInput(stack[L - 1].at) = n
    <2>1. L # 1
      <3>1. Self < m /\ m \in 1 .. Len(plan) /\ Len(plan) \in Nat /\ Self \in Nat
        BY <1>2, <1>5, InputFacts
      <3> QED
        BY <1>3, <3>1
    <2>2. UsedOnce(plan)
      BY <1>2 DEF IsPlan
    <2> QED
      BY <1>4, <1>5, <2>1, <2>2 DEF UsedOnce
  <1> QED
    BY <1>3, <1>4, <1>5

\* A method that starts knows only what there is left.
LEMMA EntryData ==
    ASSUME NEW left, NEW k, NEW m, NEW call, NEW top, NEW r,
           call = "next" => left[k] = AtRest(left, k, m)
    PROVE  CallData(left, k, m, Entered(k, call), top, r)
  BY DEF Entered, CallData, PassData, JoinData, SortData

\* The consumer does not see what happens below its call.
LEMMA ConsumerSame ==
    ASSUME UNCHANGED <<given, phase, out>>, stack # <<>>, stack' # <<>>,
           NEW left, NEW two, two[Len(plan)] = left[Len(plan)] \/ phase \notin {"open", "ended", "drained"},
           phase \in {"asking", "again"} => two[Len(plan)] = left[Len(plan)],
           ConsumerData(left)
    PROVE  ConsumerData(two)'
  <1>1. UNCHANGED <<plan, table, goal>>
    BY DEF given
  <1>2. Rows' = Rows /\ Goal' = Goal
    BY <1>1, SameRows
  <1> QED
    BY <1>1, <1>2 DEF ConsumerData, Owed, Asked

\* A method calls another.
LEMMA DataCall ==
    ASSUME ProtocolNow, stack # <<>>, NEW left, Data(left),
           NEW n, NEW call, NEW at, NEW built, NEW members,
           MayCall(n, call, at), CallThen(n, call, at, built, members), DOMAIN state = DOMAIN plan,
           MembersOK(Self, members), CallData(left, Self, members, At(at, built), FALSE, ret)
    PROVE  Data(left)'
  <1> DEFINE f == At(at, built)
             e == Entered(Op.in[n], call)
  <1> PICK L : L = Len(stack)
    OBVIOUS
  <1>1. /\ L \in Nat \ {0} /\ DOMAIN stack = 1 .. L /\ stack[L] = Frame
        /\ Self \in DOMAIN plan /\ Active(Self)
        /\ \A j \in 1 .. L - 1 :
             /\ stack[j].op \in DOMAIN plan /\ stack[j].op # Self
             /\ stack[j].at \in Places(plan[stack[j].op].kind, stack[j].call)
        /\ n \in DOMAIN Op.in /\ Op.in[n] \in DOMAIN plan /\ Op.in[n] # Self /\ ~Active(Op.in[n])
        /\ opened[Op.in[n]] <=> (call # "open")
    BY StackFacts DEF MayCall
  <1>2. /\ stack' \in Seq(Range(stack')) /\ Len(stack') = L + 1 /\ stack' # <<>>
        /\ \A i \in 1 .. L - 1 : stack'[i] = stack[i]
        /\ stack'[L] = f /\ stack'[L + 1] = e
    <2>1. stack' = Pushed(stack, f, e)
      BY DEF CallThen, Pushed, Moved
    <2>2. stack \in Seq(Range(stack)) /\ stack # <<>>
      BY DEF ProtocolNow, StackTyped
    <2> HIDE DEF f, e
    <2> QED
      BY <2>1, <2>2, PushFacts
  <1>3. DOMAIN stack' = 1 .. L + 1
    BY <1>2, LenProperties
  <1>4. /\ UNCHANGED <<given, plan, table, phase, out, ret, opened>> /\ Consuming' = Consuming
        /\ state' = [state EXCEPT ![Self] = members]
    BY DEF CallThen, Become, Consumer, given, Consuming
  <1>5. f.op = Self /\ e.op = Op.in[n]
    BY DEF At, Entered
  <1> HIDE DEF f, e
  <1>6. state'[Self] = members /\ \A k : k # Self => state'[k] = state[k]
    BY <1>1, <1>4
  <1>7. \A k : Active(k)' <=> (Active(k) \/ k = Op.in[n])
    <2>1. \A i : i \in 1 .. L + 1 <=> (i \in 1 .. L - 1 \/ i = L \/ i = L + 1)
      BY <1>1
    <2>2. \A i : i \in 1 .. L <=> (i \in 1 .. L - 1 \/ i = L)
      BY <1>1
    <2>3. stack[L].op = Self
      BY <1>1 DEF Self
    <2>4. \A k : Active(k) <=> k = Self \/ \E j \in 1 .. L - 1 : stack[j].op = k
      BY <1>1, <2>2, <2>3 DEF Active
    <2>5. \A k : Active(k)' <=> k = Self \/ k = Op.in[n] \/ \E j \in 1 .. L - 1 : stack[j].op = k
      BY <1>2, <1>3, <1>5, <2>1 DEF Active
    <2> QED
      BY <2>4, <2>5
  <1>8. OperatorData(left)'
    <2>1. ASSUME NEW k \in DOMAIN plan PROVE MembersOK(k, state[k])' /\ (opened[k] => ~Fails(k)')
      BY <1>4, <1>6, SameRest, SameRows DEF Data, OperatorData
    <2>2. ASSUME Consuming, NEW k \in DOMAIN plan, opened[k], ~Active(k)'
          PROVE  left[k] = AtRest(left, k, state[k])'
      BY <1>1, <1>4, <1>6, <1>7, <2>2, SameRest DEF Data, OperatorData
    <2>3. ASSUME NEW j \in 1 .. L + 1
          PROVE  CallData(left, stack'[j].op, state'[stack'[j].op], stack'[j], j = L + 1, ret)
      <3>1. CASE j \in 1 .. L - 1
        <4>1. CallData(left, stack[j].op, state[stack[j].op], stack[j], j = L, ret)
          BY <1>1, <3>1 DEF Data, OperatorData
        <4>2. (j = L) = FALSE /\ (j = L + 1) = FALSE
          BY <1>1, <3>1
        <4> QED
          BY <1>1, <1>2, <1>6, <3>1, <4>1, <4>2
      <3>2. CASE j = L
        <4>1. (j = L + 1) = FALSE
          BY <1>1, <3>2
        <4> QED
          BY <1>2, <1>5, <1>6, <3>2, <4>1 DEF f
      <3>3. CASE j = L + 1
        <4>1. call = "next" => left[Op.in[n]] = AtRest(left, Op.in[n], state[Op.in[n]])
          BY <1>1, FrameFacts DEF Data, OperatorData
        <4>2. CallData(left, Op.in[n], state[Op.in[n]], e, j = L + 1, ret)
          BY <4>1, EntryData DEF e
        <4> QED
          BY <1>1, <1>2, <1>5, <1>6, <3>3, <4>2
      <3> QED
        BY <1>1, <3>1, <3>2, <3>3
    <2>4. \A j \in DOMAIN stack' :
              CallData(left, stack[j].op, state[stack[j].op], stack[j], j = Len(stack), ret)'
      BY <1>2, <1>3, <1>4, <2>3, SameCallData
    <2> QED
      BY <1>4, <2>1, <2>2, <2>4 DEF OperatorData
  <1>9. ConsumerData(left)'
    BY <1>2, <1>4, ConsumerSame DEF Data
  <1> QED
    BY <1>4, <1>8, <1>9 DEF Data, LeftOK

\* A method goes on: at another place, or with other members.
LEMMA DataMove ==
    ASSUME ProtocolNow, stack # <<>>, NEW left, Data(left), NEW f, NEW members,
           stack' = Moved(stack, f) \/ (stack' = stack /\ f = Frame), f.op = Self,
           Become(members), UNCHANGED <<opened, ret, Consumer>>, DOMAIN state = DOMAIN plan,
           MembersOK(Self, members), CallData(left, Self, members, f, TRUE, ret)
    PROVE  Data(left)'
  <1> PICK L : L = Len(stack)
    OBVIOUS
  <1>1. /\ L \in Nat \ {0} /\ DOMAIN stack = 1 .. L /\ stack[L] = Frame
        /\ Self \in DOMAIN plan /\ Active(Self)
        /\ \A j \in 1 .. L - 1 :
             /\ stack[j].op \in DOMAIN plan /\ stack[j].op # Self
    BY StackFacts
  <1>2. /\ DOMAIN stack' = 1 .. L /\ Len(stack') = L /\ stack' # <<>>
        /\ \A i \in 1 .. L - 1 : stack'[i] = stack[i]
        /\ stack'[L] = f
    <2>1. stack \in Seq(Range(stack)) /\ stack # <<>>
      BY DEF ProtocolNow, StackTyped
    <2>2. CASE stack' = Moved(stack, f)
      <3>1. /\ stack' \in Seq(Range(stack')) /\ Len(stack') = L /\ stack' # <<>>
            /\ \A i \in 1 .. L - 1 : stack'[i] = stack[i]
            /\ stack'[L] = f
        BY <2>1, <2>2, MoveFacts
      <3> QED
        BY <3>1, LenProperties
    <2>3. CASE stack' = stack /\ f = Frame
      BY <1>1, <2>3
    <2> QED
      BY <2>2, <2>3
  <1>3. /\ UNCHANGED <<given, plan, table, phase, out, ret, opened>> /\ Consuming' = Consuming
        /\ state' = [state EXCEPT ![Self] = members]
    BY DEF Become, Consumer, given, Consuming
  <1>4. state'[Self] = members /\ \A k : k # Self => state'[k] = state[k]
    BY <1>1, <1>3
  <1>5. \A k : Active(k)' <=> Active(k)
    <2>1. \A i : i \in 1 .. L <=> (i \in 1 .. L - 1 \/ i = L)
      BY <1>1
    <2>2. stack[L].op = Self
      BY <1>1 DEF Self
    <2>3. \A i \in 1 .. L : stack'[i].op = stack[i].op
      BY <1>2, <2>1, <2>2
    <2> QED
      BY <1>1, <1>2, <2>3 DEF Active
  <1>6. OperatorData(left)'
    <2>1. ASSUME NEW k \in DOMAIN plan PROVE MembersOK(k, state[k])' /\ (opened[k] => ~Fails(k)')
      BY <1>3, <1>4, SameRest, SameRows DEF Data, OperatorData
    <2>2. ASSUME Consuming, NEW k \in DOMAIN plan, opened[k], ~Active(k)'
          PROVE  left[k] = AtRest(left, k, state[k])'
      BY <1>1, <1>3, <1>4, <1>5, <2>2, SameRest DEF Data, OperatorData
    <2>3. ASSUME NEW j \in 1 .. L
          PROVE  CallData(left, stack'[j].op, state'[stack'[j].op], stack'[j], j = L, ret)
      <3>1. CASE j \in 1 .. L - 1
        <4>1. CallData(left, stack[j].op, state[stack[j].op], stack[j], j = L, ret)
          BY <1>1, <3>1 DEF Data, OperatorData
        <4> QED
          BY <1>1, <1>2, <1>4, <3>1, <4>1
      <3>2. CASE j = L
        <4>1. (j = L) = TRUE
          BY <3>2
        <4> QED
          BY <1>2, <1>4, <3>2, <4>1
      <3> QED
        BY <1>1, <3>1, <3>2
    <2>4. \A j \in DOMAIN stack' :
              CallData(left, stack[j].op, state[stack[j].op], stack[j], j = Len(stack), ret)'
      BY <1>2, <1>3, <2>3, SameCallData
    <2> QED
      BY <1>3, <2>1, <2>2, <2>4 DEF OperatorData
  <1>7. ConsumerData(left)'
    BY <1>2, <1>3, ConsumerSame DEF Data
  <1> QED
    BY <1>3, <1>6, <1>7 DEF Data, LeftOK

\* What the caller knows when its call has returned.
LEMMA CallerData ==
    ASSUME IsPlan(plan), NEW left, NEW k \in DOMAIN plan, NEW m, NEW f, NEW r, NEW u,
           f.call \in Methods, f.at \in Places(plan[k].kind, f.call), f.at \notin {"start", "match"},
           CalledInput(f.at) \in DOMAIN plan[k].in,
           NEW c, c = plan[k].in[CalledInput(f.at)],
           CallData(left, k, m, f, FALSE, u),
           NEW v, NEW two, two = [left EXCEPT ![c] = v], LeftOK(left),
           CalledMethod(f.call, f.at) = "next" => left[c] = Owed(v, TRUE, r) /\ Asked(v, TRUE, r),
           CalledMethod(f.call, f.at) = "open" => v = Rows[c]
    PROVE  CallData(two, k, m, f, TRUE, r)
  <1>1. /\ plan[k].kind \in {"scan", "index", "select", "project", "sort", "join"}
        /\ DOMAIN plan[k].in = 1 .. Arity(plan[k].kind)
        /\ c \in DOMAIN plan /\ c # k
    BY InputFacts
  <1>2. two[c] = v /\ two[k] = left[k] /\ \A n \in DOMAIN plan : n # c => two[n] = left[n]
    BY <1>1 DEF LeftOK, FunctionOn
  <1>3. CASE plan[k].kind \in {"scan", "index"}
    BY <1>3 DEF Places
  <1>4. CASE plan[k].kind \in {"select", "project"}
    <2>1. CalledInput(f.at) = 1
      BY <1>4 DEF Places, CalledInput
    <2>2. CASE f.call = "next"
      BY ZenonT(60), <1>2, <1>4, <2>1, <2>2 DEF Places, CalledMethod, CallData, PassData, Owed, Asked
    <2>3. CASE f.call # "next"
      BY <1>2, <1>4, <2>1, <2>3 DEF Places, CalledMethod, CallData, PassData, Methods
    <2> QED
      BY <2>2, <2>3
  <1>5. CASE plan[k].kind = "sort"
    <2>1. CalledInput(f.at) = 1 /\ f.call = "open"
      BY <1>5 DEF Places, CalledInput
    <2>2. SortData(left, k, m, f, FALSE, u)
      BY <1>5 DEF CallData
    <2>3. CASE f.at = "consume"
      <3>1. m.rows = <<>> /\ ColumnThere(m, plan[k].column) /\ v = Rows[c]
        BY <2>1, <2>2, <2>3 DEF SortData, CalledMethod
      <3>2. IsSeq(left[c])
        BY <1>1 DEF LeftOK
      <3> QED
        BY <1>2, <1>5, <2>1, <2>3, <3>1 DEF CallData, SortData
    <2>4. CASE f.at = "got"
      <3>1. left[c] = Owed(v, TRUE, r) /\ Asked(v, TRUE, r) /\ two[c] = v
        BY <1>2, <2>1, <2>4 DEF CalledMethod
      <3>2. m.rows \o left[c] = Rows[c] /\ ColumnThere(m, plan[k].column)
        BY <2>1, <2>2, <2>4 DEF SortData, Owed
      <3>3. SortData(two, k, m, f, TRUE, r)
        BY <2>1, <2>4, <3>1, <3>2 DEF SortData
      <3> QED
        BY <1>5, <2>4, <3>3, <2>1 DEF CallData
    <2>5. CASE f.at \in {"sort", "throw"}
      BY <1>2, <1>5, <2>1, <2>2, <2>5 DEF CallData, SortData
    <2> QED
      BY <1>5, <2>1, <2>3, <2>4, <2>5 DEF Places
  <1>6. CASE plan[k].kind = "join"
    <2> PICK c1, c2 : c1 = plan[k].in[1] /\ c2 = plan[k].in[2]
      OBVIOUS
    <2>1. c1 \in DOMAIN plan /\ c2 \in DOMAIN plan /\ c1 # c2
      <3>1. 1 \in DOMAIN plan[k].in /\ 2 \in DOMAIN plan[k].in
        BY <1>1, <1>6, Arities
      <3>2. c1 \in DOMAIN plan /\ c2 \in DOMAIN plan
        BY <3>1, InputFacts
      <3> QED
        BY <3>1, <3>2 DEF IsPlan, UsedOnce
    <2>2. JoinData(left, k, m, f, FALSE, u)
      BY <1>6 DEF CallData
    <2>3. CASE f.call = "open"
      <3>1. CASE f.at = "first"
        BY <1>2, <1>6, <2>1, <2>3, <3>1 DEF CallData, JoinData, CalledInput, CalledMethod
      <3>2. CASE f.at = "second"
        <4>1. c = c2 /\ left[c1] = Rows[c1] /\ v = Rows[c]
          BY <2>2, <2>3, <3>2 DEF JoinData, CalledInput, CalledMethod
        <4> QED
          BY <1>2, <1>6, <2>1, <2>3, <3>2, <4>1 DEF CallData, JoinData
      <3>3. CASE f.at = "primed"
        <4>1. c = c1 /\ left[c2] = Rows[c2] /\ left[c1] = Rows[c1] /\ left[c] = Owed(v, TRUE, r)
              /\ Asked(v, TRUE, r)
          BY <2>2, <2>3, <3>3 DEF JoinData, CalledInput, CalledMethod, Owed
        <4> QED
          BY ZenonT(60), <1>2, <1>6, <2>1, <2>3, <3>3, <4>1 DEF CallData, JoinData
      <3> QED
        BY <1>6, <2>3, <3>1, <3>2, <3>3 DEF Places
    <2>4. CASE f.call = "next"
      <3>1. CASE f.at \in {"right", "emit"}
        <4>1. /\ c = c2 /\ m.leftValid /\ left[c2] = Owed(v, TRUE, r) /\ Asked(v, TRUE, r)
              /\ two[c1] = left[c1] /\ two[c2] = v
          BY <1>2, <2>1, <2>2, <2>4, <3>1 DEF JoinData, CalledInput, CalledMethod
        <4>2. Owed(left[c2], FALSE, u) = Owed(v, TRUE, r)
          BY <4>1 DEF Owed
        <4>3. JoinData(two, k, m, f, TRUE, r)
          BY <1>2, <2>2, <2>4, <3>1, <4>1, <4>2 DEF JoinData
        <4> QED
          BY <1>6, <2>4, <3>1, <4>3 DEF CallData
      <3>2. CASE f.at \in {"closed", "reopened"}
        <4>1. /\ c = c2 /\ two[c1] = left[c1] /\ two[c2] = v
              /\ f.at = "reopened" => v = Rows[c2]
          BY <1>2, <2>1, <2>4, <3>2 DEF CalledInput, CalledMethod
        <4>2. JoinData(two, k, m, f, TRUE, r)
          BY <1>2, <2>2, <2>4, <3>2, <4>1 DEF JoinData
        <4> QED
          BY <1>6, <2>4, <3>2, <4>2 DEF CallData
      <3>3. CASE f.at = "left"
        <4>1. /\ c = c1 /\ left[c1] = Owed(v, TRUE, r) /\ Asked(v, TRUE, r)
              /\ two[c1] = v /\ two[c2] = left[c2]
          BY <1>2, <2>1, <2>4, <3>3 DEF CalledInput, CalledMethod
        <4>2. Owed(left[c1], FALSE, u) = Owed(v, TRUE, r)
          BY <4>1 DEF Owed
        <4>3. left[c2] = Rows[c2] /\ left[k] = JoinedRows(Owed(v, TRUE, r), Rows[c2], plan[k].on)
          BY <2>2, <2>4, <3>3, <4>2 DEF JoinData
        <4>4. JoinData(two, k, m, f, TRUE, r)
          BY <1>2, <2>4, <3>3, <4>1, <4>3 DEF JoinData
        <4> QED
          BY <1>6, <2>4, <3>3, <4>4 DEF CallData
      <3> QED
        BY <1>6, <2>4, <3>1, <3>2, <3>3 DEF Places
    <2>5. CASE f.call = "close"
      BY <1>6, <2>5 DEF CallData, JoinData
    <2> QED
      BY <2>3, <2>4, <2>5 DEF Methods
  <1> QED
    BY <1>1, <1>3, <1>4, <1>5, <1>6

\* A method returns: from then on, the rows it leaves are v.
LEMMA DataLeave ==
    ASSUME ProtocolNow, stack # <<>>, NEW left, Data(left), NEW r, NEW members,
           Leave(r, members), DOMAIN state = DOMAIN plan, MembersOK(Self, members),
           NEW v, IsSeq(v),
           Frame.call # "close" => v = AtRest(left, Self, members) /\ ~Fails(Self),
           Frame.call = "next" => left[Self] = Owed(v, TRUE, r) /\ Asked(v, TRUE, r),
           Frame.call = "open" => v = Rows[Self]
    PROVE  \E two : Data(two)'
  <1> PICK L : L = Len(stack)
    OBVIOUS
  <1> PICK two : two = [left EXCEPT ![Self] = v]
    OBVIOUS
  <1>1. /\ L \in Nat \ {0} /\ DOMAIN stack = 1 .. L /\ stack[L] = Frame
        /\ Self \in DOMAIN plan /\ Active(Self) /\ IsPlan(plan)
        /\ \A j \in 1 .. L - 1 :
             /\ stack[j].op \in DOMAIN plan /\ stack[j].op # Self
             /\ stack[j].at \in Places(plan[stack[j].op].kind, stack[j].call)
    BY StackFacts DEF ProtocolNow
  <1>2. LeftOK(two) /\ two[Self] = v /\ \A k \in DOMAIN plan : k # Self => two[k] = left[k]
    <2>1. \A k \in DOMAIN plan : two[k] = IF k = Self THEN v ELSE left[k]
      BY DEF Data, LeftOK, FunctionOn
    <2>2. FunctionOn(two, DOMAIN plan)
      BY DEF Data, LeftOK, FunctionOn
    <2> QED
      BY <1>1, <2>1, <2>2 DEF Data, LeftOK
  <1>3. /\ DOMAIN stack' = 1 .. L - 1 /\ Len(stack') = L - 1
        /\ \A i \in 1 .. L - 1 : stack'[i] = stack[i]
        /\ (stack' = <<>>) <=> (L = 1)
    <2>1. /\ stack' \in Seq(Range(stack')) /\ Len(stack') = L - 1
          /\ \A i \in 1 .. L - 1 : stack'[i] = stack[i]
          /\ (stack' = <<>>) <=> (L = 1)
      BY PopFacts DEF Leave, ProtocolNow, StackTyped
    <2> QED
      BY <2>1, LenProperties
  <1>4. /\ UNCHANGED <<given, plan, table, phase, out>> /\ Consuming' = Consuming
        /\ state' = [state EXCEPT ![Self] = members] /\ ret' = r
        /\ opened' = [opened EXCEPT ![Self] = Frame.call # "close"]
    BY DEF Leave, Become, Consumer, given, Consuming
  <1>5. /\ state'[Self] = members /\ \A k : k # Self => state'[k] = state[k]
        /\ opened'[Self] <=> Frame.call # "close"
        /\ \A k \in DOMAIN plan : k # Self => opened'[k] = opened[k]
    <2>1. state'[Self] = members /\ \A k : k # Self => state'[k] = state[k]
      BY <1>1, <1>4
    <2>2. opened \in [DOMAIN plan -> BOOLEAN]
      BY DEF ProtocolNow
    <2>3. opened'[Self] = (Frame.call # "close")
      BY <1>1, <1>4, <2>2
    <2>4. \A k \in DOMAIN plan : k # Self => opened'[k] = opened[k]
      BY <1>1, <1>4, <2>2
    <2> QED
      BY <2>1, <2>3, <2>4
  <1>6. \A k : Active(k)' <=> (Active(k) /\ k # Self)
    <2>1. \A i : i \in 1 .. L <=> (i \in 1 .. L - 1 \/ i = L)
      BY <1>1
    <2>2. stack[L].op = Self
      BY <1>1 DEF Self
    <2>3. \A k : Active(k) <=> k = Self \/ \E j \in 1 .. L - 1 : stack[j].op = k
      BY <1>1, <2>1, <2>2 DEF Active
    <2>4. \A k : Active(k)' <=> \E j \in 1 .. L - 1 : stack[j].op = k
      BY <1>3 DEF Active
    <2> QED
      BY <1>1, <2>3, <2>4
  <1>7. ASSUME NEW k \in DOMAIN plan, k # Self, ~(L # 1 /\ k = stack[L - 1].op), NEW m, NEW f, NEW top, NEW u
        PROVE  /\ AtRest(two, k, m) = AtRest(left, k, m)
               /\ f.at \in Places(plan[k].kind, f.call) /\ CallData(left, k, m, f, top, u)
                    => CallData(two, k, m, f, top, u)
    <2>1. \A n \in DOMAIN plan[k].in : plan[k].in[n] # Self /\ plan[k].in[n] \in DOMAIN plan
      BY <1>1, <1>7, Caller, InputFacts
    <2>2. two[k] = left[k] /\ \A n \in DOMAIN plan[k].in : two[plan[k].in[n]] = left[plan[k].in[n]]
      BY <1>2, <1>7, <2>1
    <2>3. IsPlan(plan)
      BY <1>1
    <2> QED
      BY ONLY <1>7, <2>2, <2>3, OwnRows
  <1>8. OperatorData(two)'
    <2>1. ASSUME NEW k \in DOMAIN plan PROVE MembersOK(k, state[k])' /\ (opened'[k] => ~Fails(k)')
      <3>1. MembersOK(k, state[k])'
        BY <1>4, <1>5, SameRest DEF Data, OperatorData
      <3>2. CASE k = Self
        BY <1>4, <1>5, <3>1, <3>2, SameRows
      <3>3. CASE k # Self
        BY <1>4, <1>5, <3>1, <3>3, SameRows DEF Data, OperatorData
      <3> QED
        BY <3>2, <3>3
    <2>2. ASSUME Consuming, NEW k \in DOMAIN plan, opened'[k], ~Active(k)'
          PROVE  two[k] = AtRest(two, k, state[k])'
      <3>1. CASE k = Self
        <4>1. \A n \in DOMAIN plan[k].in : plan[k].in[n] # Self /\ plan[k].in[n] \in DOMAIN plan
          BY <1>1, <3>1, InputFacts
        <4>2. AtRest(two, k, members) = AtRest([left EXCEPT ![Self] = v], k, members)
          OBVIOUS
        <4>3. v = AtRest(left, k, members)
          BY <1>5, <2>2, <3>1
        <4>4. AtRest(two, k, members) = AtRest(left, k, members)
          <5>1. CASE plan[k].kind \in {"scan", "index"}
            BY <5>1 DEF AtRest
          <5>2. CASE plan[k].kind \in {"select", "project", "sort"}
            <6>1. 1 \in DOMAIN plan[k].in
              BY <1>1, <5>2, InputFacts, Arities
            <6> QED
              BY <1>2, <4>1, <5>2, <6>1 DEF AtRest
          <5>3. CASE plan[k].kind = "join"
            <6>1. 1 \in DOMAIN plan[k].in /\ 2 \in DOMAIN plan[k].in
              BY <1>1, <5>3, InputFacts, Arities
            <6> QED
              BY <1>2, <4>1, <5>3, <6>1 DEF AtRest
          <5> QED
            BY <1>1, <5>1, <5>2, <5>3, InputFacts
        <4> QED
          BY <1>2, <1>4, <1>5, <3>1, <4>3, <4>4, SameRest
      <3>2. CASE k # Self
        <4>1. ~Active(k) /\ opened[k]
          BY <1>5, <1>6, <2>2, <3>2
        <4>2. left[k] = AtRest(left, k, state[k])
          BY <2>2, <4>1 DEF Data, OperatorData
        <4>3. ~(L # 1 /\ k = stack[L - 1].op)
          <5>1. L # 1 => L - 1 \in DOMAIN stack
            BY <1>1
          <5> QED
            BY <4>1, <5>1 DEF Active
        <4>4. two[k] = AtRest(two, k, state[k])
          BY <1>2, <1>7, <3>2, <4>2, <4>3
        <4>5. state'[k] = state[k]
          BY <1>5, <3>2
        <4> QED
          BY <1>4, <4>4, <4>5, SameRest
      <3> QED
        BY <3>1, <3>2
    <2>3. ASSUME NEW j \in 1 .. L - 1
          PROVE  CallData(two, stack'[j].op, state'[stack'[j].op], stack'[j], j = L - 1, r)
      <3> PICK k : k = stack[j].op
        OBVIOUS
      <3>1. /\ CallData(left, k, state[k], stack[j], FALSE, ret)
            /\ k \in DOMAIN plan /\ k # Self /\ stack'[j] = stack[j] /\ state'[k] = state[k]
            /\ stack[j].at \in Places(plan[k].kind, stack[j].call)
        <4>1. CallData(left, stack[j].op, state[stack[j].op], stack[j], j = L, ret)
          BY <1>1 DEF Data, OperatorData
        <4>2. (j = L) = FALSE
          BY <1>1
        <4> QED
          BY <1>1, <1>3, <1>5, <4>1, <4>2
      <3>2. CASE j = L - 1
        <4>1. /\ CalledInput(stack[j].at) \in DOMAIN plan[k].in
              /\ plan[k].in[CalledInput(stack[j].at)] = Self
              /\ stack[j].at \notin {"start", "match"}
              /\ Frame.call = CalledMethod(stack[j].call, stack[j].at)
          BY <1>1, <3>2, Caller
        <4>2. stack[j].call \in Methods
          BY <1>1 DEF ProtocolNow, ProtocolInv, PlaceOK
        <4>3. CallData(two, k, state[k], stack[j], TRUE, r)
          BY <1>1, <3>1, <4>1, <4>2, CallerData DEF Data
        <4>4. (j = L - 1) = TRUE
          BY <3>2
        <4> QED
          BY <3>1, <4>3, <4>4
      <3>3. CASE j # L - 1
        <4>1. ~(L # 1 /\ k = stack[L - 1].op)
          <5>1. j < L - 1 /\ L - 1 \in DOMAIN stack /\ j \in DOMAIN stack
            BY <1>1, <3>3
          <5>2. stack[L - 1].op < stack[j].op
            BY <5>1 DEF ProtocolNow, ProtocolInv, Downwards
          <5>3. k \in Nat
            BY <1>1, <3>1, InputFacts
          <5> QED
            BY <5>2, <5>3
        <4>2. CallData(two, k, state[k], stack[j], FALSE, ret)
          BY <1>7, <3>1, <4>1
        <4>3. CallData(two, k, state[k], stack[j], FALSE, r)
          BY <4>2, NotOnTop
        <4>4. (j = L - 1) = FALSE
          BY <3>3
        <4> QED
          BY <3>1, <4>3, <4>4
      <3> QED
        BY <3>2, <3>3
    <2>4. \A j \in DOMAIN stack' :
              CallData(two, stack[j].op, state[stack[j].op], stack[j], j = Len(stack), ret)'
      BY <1>3, <1>4, <2>3, SameCallData
    <2> QED
      BY <1>4, <2>1, <2>2, <2>4 DEF OperatorData
  <1>9. ConsumerData(two)'
    <2>1. CASE L # 1
      <3>1. Self # Len(plan) /\ Len(plan) \in DOMAIN plan
        <4> PICK m : m = stack[L - 1].op
          OBVIOUS
        <4> PICK n : n = CalledInput(stack[L - 1].at)
          OBVIOUS
        <4>1. m \in DOMAIN plan /\ n \in DOMAIN plan[m].in /\ plan[m].in[n] = Self
          BY <2>1, Caller
        <4>2. Self < m /\ m \in Nat /\ Self \in Nat /\ DOMAIN plan = 1 .. Len(plan) /\ Len(plan) \in Nat \ {0}
          BY <1>1, <4>1, InputFacts
        <4>3. m <= Len(plan)
          BY <4>1, <4>2
        <4> QED
          BY <4>2, <4>3
      <3>2. two[Len(plan)] = left[Len(plan)]
        BY <1>2, <3>1
      <3> QED
        BY <1>3, <1>4, <2>1, <3>2, ConsumerSame DEF Data
    <2>2. CASE L = 1
      <3>1. /\ Self = Len(plan) /\ Frame.call = CallOf(phase) /\ stack' = <<>>
            /\ phase \in {"opening", "asking", "again", "closing"}
        BY <1>3, <2>2, Caller
      <3>2. UNCHANGED <<plan, table, goal, phase, out>>
        BY <1>4 DEF given
      <3>3. Rows' = Rows /\ Goal' = Goal
        BY <3>2, SameRows
      <3>4. ConsumerData(left)
        BY DEF Data
      <3>5. phase = "opening" => v = Rows[Self]
        BY <3>1 DEF CallOf
      <3>6. phase \in {"asking", "again"} => left[Self] = Owed(v, TRUE, r) /\ Asked(v, TRUE, r)
        BY <3>1 DEF CallOf
      <3>7. two[Len(plan)] = v /\ ret' = r
        BY <1>2, <1>4, <3>1
      <3>8. /\ goal = Goal
            /\ IsSeq(out)
            /\ phase = "opening" => out = <<>>
            /\ phase = "asking" => out \o left[Self] = Rows[Self]
            /\ phase = "again" => out = Rows[Self] /\ left[Self] = <<>>
        BY <3>1, <3>4 DEF ConsumerData, Owed
      <3>9. goal' = Goal'
        BY ONLY <3>1, <3>2, <3>3, <3>8
      <3>10. /\ phase = "asking" => out \o Owed(v, TRUE, r) = Rows[Self] /\ Asked(v, TRUE, r)
             /\ phase = "again" => out = Rows[Self] /\ Owed(v, TRUE, r) = <<>>
        BY <3>6, <3>8
      <3>11. Owed(two[Len(plan)], stack = <<>>, ret)' = Owed(v, TRUE, r)
             /\ (Asked(two[Len(plan)], stack = <<>>, ret)' <=> Asked(v, TRUE, r))
        BY ONLY <3>1, <3>2, <3>7 DEF Owed, Asked
      <3> QED
        BY ONLY <3>1, <3>2, <3>3, <3>5, <3>7, <3>8, <3>9, <3>10, <3>11 DEF ConsumerData
    <2> QED
      BY <2>1, <2>2
  <1>10. LeftOK(two)'
    BY <1>2, <1>4 DEF LeftOK
  <1> QED
    BY <1>8, <1>9, <1>10 DEF Data

\* Where a query ends in the middle, only what it was given is left.
LEMMA DataAbort ==
    ASSUME NEW left, Data(left), NEW end \in {"failed", "raised", "halted"}, Abort(end)
    PROVE  Data(left)'
  <1>1. /\ UNCHANGED <<plan, table, goal, state, opened, out>> /\ stack' = <<>> /\ phase' = end
        /\ ~Consuming'
    BY DEF Abort, given, Consuming
  <1>2. Rows' = Rows /\ Goal' = Goal
    BY <1>1, SameRows
  <1>3. OperatorData(left)'
    <2>1. \A k \in DOMAIN plan : MembersOK(k, state[k])' /\ (opened[k] => ~Fails(k)')
      BY <1>1, SameRest, SameRows DEF Data, OperatorData
    <2>2. DOMAIN stack' = {}
      BY <1>1
    <2> QED
      BY <1>1, <2>1, <2>2 DEF OperatorData
  <1>4. ConsumerData(left)'
    BY <1>1, <1>2 DEF Data, ConsumerData
  <1> QED
    BY <1>1, <1>3, <1>4 DEF Data, LeftOK

\* What the operator of the last call knows.
LEMMA OwnFacts ==
    ASSUME IInv, stack # <<>>, NEW left, Data(left)
    PROVE  /\ CallData(left, Self, My, Frame, TRUE, ret) /\ MembersOK(Self, My)
           /\ IsSeq(left[Self]) /\ IsSeq(Rows[Self]) /\ Rows[Self] = RowsOf(Rows, Self)
           /\ DOMAIN state = DOMAIN plan /\ IsPlan(plan)
           /\ Frame.call # "open" => ~Fails(Self)
           /\ \A n \in DOMAIN Op.in :
                /\ IsSeq(left[Op.in[n]]) /\ IsSeq(Rows[Op.in[n]])
                /\ InputOpen(Op.kind, Frame.call, Frame.at, n) => ~Fails(Op.in[n])
  <1> PICK L : L = Len(stack)
    OBVIOUS
  <1>1. /\ L \in Nat \ {0} /\ DOMAIN stack = 1 .. L /\ stack[L] = Frame
        /\ Self \in DOMAIN plan /\ IsPlan(plan) /\ DOMAIN state = DOMAIN plan
        /\ \A n \in DOMAIN Op.in :
                /\ Op.in[n] \in DOMAIN plan
                /\ opened[Op.in[n]] <=> InputOpen(Op.kind, Frame.call, Frame.at, n)
    BY StackFacts DEF IInv, ScansNow, ProtocolNow
  <1>2. CallData(left, Self, My, Frame, TRUE, ret)
    <2>1. CallData(left, stack[L].op, state[stack[L].op], stack[L], L = Len(stack), ret)
      BY <1>1 DEF Data, OperatorData
    <2>2. (L = Len(stack)) = TRUE
      OBVIOUS
    <2> QED
      BY <1>1, <2>1, <2>2 DEF My, Self
  <1>3. \A k \in DOMAIN plan : IsSeq(left[k]) /\ MembersOK(k, state[k]) /\ (opened[k] => ~Fails(k))
    BY DEF Data, LeftOK, OperatorData
  <1>4. \A k \in DOMAIN plan : IsSeq(Rows[k]) /\ Rows[k] = RowsOf(Rows, k)
    BY <1>1, RowsAre, RowsAreSeqs DEF IInv, GivenNow
  <1>5. opened[Self] <=> (Frame.call # "open")
    BY FrameFacts DEF IInv
  <1> QED
    BY <1>1, <1>2, <1>3, <1>4, <1>5 DEF My

\* A close changes nothing that is left to the open operators.
LEMMA DataClosed ==
    ASSUME IInv, stack # <<>>, NEW left, Data(left), Frame.call = "close",
           NEW members, MembersOK(Self, members), NEW r, Leave(r, members)
    PROVE  \E two : Data(two)'
  BY OwnFacts, NoneAndOne, DataLeave DEF IInv

\* The steps of a scan.
LEMMA DataScan ==
    ASSUME IInv, NEW left, Data(left),
           \/ ScanOpen \/ ScanClose \/ ScanFetch \/ ScanFetchNull \/ ScanSlot
           \/ ScanPageDone \/ ScanEnd
    PROVE  \E two : Data(two)'
  <1>1. /\ stack # <<>> /\ Op.kind = "scan" /\ Frame.at = "start"
        /\ Frame.call = IF ScanOpen THEN "open" ELSE IF ScanClose THEN "close" ELSE "next"
    BY DEF ScanOpen, ScanClose, ScanFetch, ScanFetchNull, ScanSlot, ScanPageDone, ScanEnd,
        ScanNext, Running
  <1> PICK max, p, n : max = Op.max /\ p = My.page /\ n = My.slot
    OBVIOUS
  <1>2. /\ ProtocolNow /\ table \in Tables /\ Self \in DOMAIN plan
        /\ DOMAIN state = DOMAIN plan /\ IsPlan(plan) /\ MembersOK(Self, My)
        /\ CallData(left, Self, My, Frame, TRUE, ret) /\ IsSeq(left[Self])
        /\ Rows[Self] = RowsOf(Rows, Self) /\ plan[Self] = Op
    BY <1>1, OwnFacts, FrameFacts DEF IInv, GivenNow, Op
  <1>3. My \in [page : Nat \ {0}, slot : Nat, holds : BOOLEAN] /\ p \in Nat \ {0} /\ n \in Nat \ {0}
    BY <1>1, <1>2 DEF IInv, ScansNow, Scans, OfKind, ScanOK, MembersOK, My
  <1>4. max \in 1 .. Len(table) + 1
    BY <1>1, <1>2 DEF IInv, GivenNow, ScansTable
  <1>5. Frame.call = "next" => left[Self] = LeftToScan(p, n, max)
    BY <1>1, <1>2 DEF CallData, AtRest
  <1>6. \A m : AtRest(left, Self, m) = LeftToScan(m.page, m.slot, max)
    BY <1>1, <1>2 DEF AtRest
  <1>7. ~Fails(Self)
    <2>1. DOMAIN Op.in = {} /\ ~BadSort(Self)
      BY <1>1, <1>2, FrameFacts, Arities DEF BadSort
    <2> QED
      BY <1>2, <2>1, FailsByInput
  <1>8. \A m : m.page \in Nat \ {0} /\ m.slot \in Nat \ {0} => MembersOK(Self, m)
    BY <1>1, <1>2 DEF MembersOK
  <1>9. CASE ScanOpen
    <2>1. Leave(Nothing, ScanStart) /\ Frame.call = "open"
      BY <1>1, <1>9 DEF ScanOpen, Return
    <2>2. MembersOK(Self, ScanStart)
      BY <1>8 DEF ScanStart
    <2>3. AtRest(left, Self, ScanStart) = LeftToScan(1, 1, max)
      BY <1>6 DEF ScanStart
    <2>4. Rows[Self] = RowsBefore(max)
      BY <1>1, <1>2 DEF RowsOf
    <2>5. AtRest(left, Self, ScanStart) = Rows[Self] /\ IsSeq(Rows[Self])
      BY <1>1, <1>2, <1>4, <2>3, <2>4, LeftAtStart, LeftIsSeq
    <2> QED
      BY <1>1, <1>2, <1>7, <2>1, <2>2, <2>5, DataLeave
  <1>10. CASE ScanClose
    BY <1>1, <1>2, <1>10, DataClosed DEF ScanClose, Running
  <1>11. CASE ScanFetchNull
    BY <1>11, DataAbort DEF ScanFetchNull
  <1>12. CASE ScanFetch
    <2> PICK m : m = [My EXCEPT !.holds = TRUE]
      OBVIOUS
    <2>1. m.page = p /\ m.slot = n
      BY <1>3
    <2>2. Frame.call = "next" /\ Become(m) /\ UNCHANGED <<opened, stack, ret, Consumer>>
      BY <1>12 DEF ScanFetch, ScanNext, Running
    <2>3. CallData(left, Self, m, Frame, TRUE, ret)
      BY <1>1, <1>2, <1>5, <1>6, <2>1, <2>2 DEF CallData
    <2>4. Data(left)'
      BY <1>1, <1>2, <1>3, <1>8, <2>1, <2>2, <2>3, DataMove DEF Self
    <2> QED
      BY <2>4
  <1>13. CASE ScanSlot
    <2> PICK m, row : m = [My EXCEPT !.slot = @ + 1] /\ row = table[p][n]
      OBVIOUS
    <2>1. m.page = p /\ m.slot = n + 1 /\ MembersOK(Self, m)
      BY <1>3, <1>8
    <2>2. /\ Frame.call = "next" /\ p < max /\ n <= Len(table[p])
          /\ IF row = Deleted THEN Continue("start", m) ELSE Leave(Got(row), m)
      BY <1>1, <1>13 DEF ScanSlot, ScanNext, Running, SlotsLeft, Return
    <2>3. left[Self] = IF row = Deleted THEN AtRest(left, Self, m)
                       ELSE <<row>> \o AtRest(left, Self, m)
      <3>1. AtRest(left, Self, m) = LeftToScan(p, n + 1, max)
        BY <1>6, <2>1
      <3>2. left[Self] = LeftToScan(p, n, max)
        BY <1>5, <2>2
      <3>3. LeftToScan(p, n, max) = IF row = Deleted THEN LeftToScan(p, n + 1, max)
                                    ELSE <<row>> \o LeftToScan(p, n + 1, max)
        <4>1. /\ table \in Tables /\ max \in 1 .. Len(table) + 1 /\ p \in Nat \ {0} /\ p < max
              /\ n \in Nat \ {0} /\ n <= Len(table[p]) /\ row = table[p][n]
          BY <1>2, <1>3, <1>4, <2>2
        <4> QED
          BY ONLY <4>1, LeftAtSlot
      <3> QED
        BY <3>1, <3>2, <3>3
    <2>4. IsSeq(AtRest(left, Self, m))
      BY <1>2, <1>3, <1>4, <1>6, <2>1, LeftIsSeq
    <2>5. CASE row = Deleted
      <3> PICK f : f = At("start", Frame.out)
        OBVIOUS
      <3>1. f.op = Self /\ f.call = "next" /\ f.at = "start"
        BY <2>2 DEF At
      <3>2. stack' = Moved(stack, f) /\ Become(m) /\ UNCHANGED <<opened, ret, Consumer>>
        BY <2>2, <2>5 DEF Continue, Moved
      <3>3. CallData(left, Self, m, f, TRUE, ret)
        BY <1>1, <1>2, <2>3, <2>5, <3>1 DEF CallData
      <3>4. Data(left)'
        BY <1>1, <1>2, <2>1, <3>1, <3>2, <3>3, DataMove
      <3> QED
        BY <3>4
    <2>6. CASE row # Deleted
      <3>1. /\ Owed(AtRest(left, Self, m), TRUE, Got(row)) = <<row>> \o AtRest(left, Self, m)
            /\ Asked(AtRest(left, Self, m), TRUE, Got(row))
        BY DEF Owed, Asked, Got
      <3>2. Leave(Got(row), m) /\ left[Self] = <<row>> \o AtRest(left, Self, m)
        BY <2>2, <2>3, <2>6
      <3> QED
        BY <1>1, <1>2, <1>7, <2>1, <2>2, <2>4, <3>1, <3>2, DataLeave
    <2> QED
      BY <2>5, <2>6
  <1>14. CASE ScanPageDone
    <2> PICK m : m = [page |-> p + 1, slot |-> 1, holds |-> FALSE]
      OBVIOUS
    <2>1. m.page = p + 1 /\ m.slot = 1 /\ MembersOK(Self, m)
      BY <1>3, <1>8
    <2>2. /\ Frame.call = "next" /\ Become(m) /\ UNCHANGED <<opened, stack, ret, Consumer>>
          /\ p < max /\ ~(n <= Len(table[p]))
      BY <1>14 DEF ScanPageDone, ScanNext, Running, SlotsLeft
    <2>3. left[Self] = AtRest(left, Self, m)
      BY <1>2, <1>3, <1>4, <1>5, <1>6, <2>1, <2>2, LeftAtPage
    <2>4. CallData(left, Self, m, Frame, TRUE, ret)
      BY <1>1, <1>2, <2>2, <2>3 DEF CallData
    <2>5. Data(left)'
      BY <1>1, <1>2, <2>1, <2>2, <2>4, DataMove DEF Self
    <2> QED
      BY <2>5
  <1>15. CASE ScanEnd
    <2>1. Leave(Nothing, My) /\ Frame.call = "next" /\ ~(p < max)
      <3>1. Leave(Nothing, My) /\ Frame.call = "next" /\ p >= max
        BY <1>15 DEF ScanEnd, Running, Return
      <3>2. max \in Nat
        BY <1>4 DEF IInv, GivenNow
      <3> QED
        BY <1>3, <3>1, <3>2
    <2>2. AtRest(left, Self, My) = <<>> /\ left[Self] = <<>>
      BY <1>5, <1>6, <2>1 DEF LeftToScan
    <2>3. Owed(<<>>, TRUE, Nothing) = <<>> /\ Asked(<<>>, TRUE, Nothing)
      BY DEF Owed, Asked, Nothing
    <2> PICK v : v = <<>>
      OBVIOUS
    <2>4. IsSeq(v) /\ v = AtRest(left, Self, My) /\ left[Self] = Owed(v, TRUE, Nothing)
          /\ Asked(v, TRUE, Nothing)
      BY <2>2, <2>3, NoneAndOne
    <2> QED
      BY <1>1, <1>2, <1>7, <2>1, <2>4, DataLeave
  <1> QED
    BY <1>9, <1>10, <1>11, <1>12, <1>13, <1>14, <1>15

\* The steps of an index scan.
LEMMA DataIndex ==
    ASSUME IInv, NEW left, Data(left), IndexOpen \/ IndexNext \/ IndexNextThrows \/ IndexClose
    PROVE  \E two : Data(two)'
  <1>1. stack # <<>> /\ Op.kind = "index"
    BY DEF IndexOpen, IndexNext, IndexNextThrows, IndexClose, Running
  <1>2. /\ ProtocolNow /\ Self \in DOMAIN plan
        /\ DOMAIN state = DOMAIN plan /\ IsPlan(plan)
        /\ CallData(left, Self, My, Frame, TRUE, ret)
        /\ Rows[Self] = RowsOf(Rows, Self) /\ IsSeq(Rows[Self]) /\ plan[Self] = Op
    BY <1>1, OwnFacts, FrameFacts DEF IInv, Op
  <1>3. \A m : /\ AtRest(left, Self, m) = IF m.executed THEN <<>> ELSE Found(Op.key)
               /\ MembersOK(Self, m)
    BY <1>1, <1>2 DEF AtRest, MembersOK
  <1>4. ~Fails(Self)
    <2>1. DOMAIN Op.in = {} /\ ~BadSort(Self)
      BY <1>1, <1>2, FrameFacts, Arities DEF BadSort
    <2> QED
      BY <1>2, <2>1, FailsByInput
  <1>5. CASE IndexOpen
    <2> PICK m : m = [executed |-> FALSE]
      OBVIOUS
    <2>1. Leave(Nothing, m) /\ Frame.call = "open"
      BY <1>5 DEF IndexOpen, Running, Return
    <2>2. Rows[Self] = Found(Op.key)
      BY <1>1, <1>2 DEF RowsOf
    <2>3. ~m.executed
      OBVIOUS
    <2>4. AtRest(left, Self, m) = Rows[Self] /\ MembersOK(Self, m)
      BY <1>3, <2>2, <2>3
    <2> QED
      BY <1>1, <1>2, <1>4, <2>1, <2>4, DataLeave
  <1>6. CASE IndexNext
    <2> PICK m, r, v : /\ m = [executed |-> TRUE] /\ v = <<>>
                       /\ r = IF My.executed \/ Found(Op.key) = <<>> THEN Nothing
                              ELSE Got(Found(Op.key)[1])
      OBVIOUS
    <2>1. Leave(r, m) /\ Frame.call = "next" /\ Frame.at = "start"
      BY <1>6 DEF IndexNext, Running, Return
    <2>2. m.executed
      OBVIOUS
    <2>3. AtRest(left, Self, m) = v /\ MembersOK(Self, m) /\ IsSeq(v)
      BY <1>3, <2>2, NoneAndOne
    <2>4. left[Self] = IF My.executed THEN <<>> ELSE Found(Op.key)
      BY <1>2, <1>3, <2>1 DEF CallData
    <2>5. Asked(v, TRUE, r)
      BY DEF Asked
    <2>6. left[Self] = Owed(v, TRUE, r)
      <3>1. CASE My.executed \/ Found(Op.key) = <<>>
        BY <2>4, <3>1 DEF Owed, Nothing
      <3>2. CASE ~(My.executed \/ Found(Op.key) = <<>>)
        <4>1. r = Got(Found(Op.key)[1]) /\ left[Self] = Found(Op.key)
          BY <2>4, <3>2
        <4>2. PICK x : Found(Op.key) = <<x>>
          BY <3>2 DEF Found
        <4>3. Found(Op.key)[1] = x /\ <<x>> \o <<>> = <<x>>
          BY <4>2, NoneAndOne, SeqIs
        <4>4. Owed(v, TRUE, r) = <<x>> \o v
          BY <4>1, <4>3 DEF Owed, Got
        <4> QED
          BY <4>1, <4>2, <4>3, <4>4
      <3> QED
        BY <3>1, <3>2
    <2>7. Frame.call # "close" /\ Frame.call # "open"
      BY <2>1
    <2>8. Data(left)
      OBVIOUS
    <2> QED
      BY ONLY <1>1, <1>2, <1>4, <2>1, <2>3, <2>5, <2>6, <2>7, <2>8, DataLeave
  <1>7. CASE IndexNextThrows
    BY <1>7, DataAbort DEF IndexNextThrows
  <1>8. CASE IndexClose
    BY <1>1, <1>3, <1>8, DataClosed DEF IndexClose, Running, Return
  <1> QED
    BY <1>5, <1>6, <1>7, <1>8

\* The open and close that Select, Project and Join hand on.
LEMMA DataPass ==
    ASSUME IInv, NEW left, Data(left), PassFirst \/ PassSecond \/ Passed
    PROVE  \E two : Data(two)'
  <1>1. /\ stack # <<>> /\ Op.kind \in {"select", "project", "join"}
        /\ Frame.call \in {"open", "close"}
    BY DEF PassFirst, PassSecond, Passed, PassesOn
  <1>2. /\ ProtocolNow /\ Self \in DOMAIN plan /\ MembersOK(Self, My)
        /\ DOMAIN state = DOMAIN plan /\ IsPlan(plan)
        /\ CallData(left, Self, My, Frame, TRUE, ret)
        /\ Rows[Self] = RowsOf(Rows, Self) /\ IsSeq(Rows[Self]) /\ plan[Self] = Op
        /\ DOMAIN Op.in = 1 .. Arity(Op.kind)
    BY <1>1, OwnFacts, FrameFacts DEF IInv, Op
  <1>3. CASE PassFirst
    <2>1. CallThen(1, Frame.call, "first", <<>>, My) /\ Frame.at = "start"
      BY <1>3 DEF PassFirst, PassesOn, Call
    <2>2. 1 \in DOMAIN Op.in /\ (2 \in DOMAIN Op.in => Op.kind = "join")
          /\ \A n \in DOMAIN Op.in : n \in {1, 2}
      BY <1>1, <1>2, Arities
    <2>3. MayCall(1, Frame.call, "first")
      BY <1>1, <2>1, <2>2 DEF Methods, MayCall, Places, CalledInput, CalledMethod, InputOpen
    <2>4. CallData(left, Self, My, At("first", <<>>), FALSE, ret)
      BY <1>1, <1>2 DEF At, CallData, PassData, JoinData
    <2>5. Data(left)'
      BY <1>1, <1>2, <2>1, <2>3, <2>4, DataCall
    <2> QED
      BY <2>5
  <1>4. CASE PassSecond
    <2>1. CallThen(2, Frame.call, "second", <<>>, My) /\ Frame.at = "first" /\ Op.kind = "join"
      BY <1>4 DEF PassSecond, PassesOn, Call
    <2>2. DOMAIN Op.in = 1 .. 2
      BY <1>2, <2>1, Arities
    <2>3. MayCall(2, Frame.call, "second")
      BY <1>1, <2>1, <2>2 DEF Methods, MayCall, Places, CalledInput, CalledMethod, InputOpen
    <2>4. CallData(left, Self, My, At("second", <<>>), FALSE, ret)
      BY <1>1, <1>2, <2>1 DEF At, CallData, JoinData
    <2>5. Data(left)'
      BY <1>1, <1>2, <2>1, <2>3, <2>4, DataCall
    <2> QED
      BY <2>5
  <1>5. CASE Passed /\ Frame.call = "close"
    BY <1>1, <1>2, <1>5, DataClosed DEF Passed, Return
  <1>6. CASE Passed /\ Frame.call = "open"
    <2>1. Leave(Nothing, My) /\ Frame.at = "first" /\ Op.kind \in {"select", "project"}
      BY <1>1, <1>6 DEF Passed, PassesOn, Return
    <2>2. DOMAIN Op.in = {1}
      BY <1>2, <2>1, Arities
    <2>3. left[Op.in[1]] = Rows[Op.in[1]]
      BY <1>2, <1>6, <2>1 DEF CallData
    <2>4. AtRest(left, Self, My) = Rows[Self]
      BY <1>2, <2>1, <2>3 DEF AtRest, RowsOf
    <2>5. ~Fails(Op.in[1])
      BY <1>1, <1>6, <2>1, <2>2, OwnFacts DEF InputOpen
    <2>6. ~Fails(Self)
      BY <1>2, <2>1, <2>2, <2>5, FailsByInput DEF BadSort
    <2> QED
      BY <1>1, <1>2, <1>6, <2>1, <2>4, <2>6, DataLeave
  <1> QED
    BY <1>1, <1>3, <1>4, <1>5, <1>6

\* The next of Select and of Project.
LEMMA DataAsked ==
    ASSUME IInv, NEW left, Data(left), Ask \/ SelectNext \/ ProjectNext
    PROVE  \E two : Data(two)'
  <1>1. /\ stack # <<>> /\ Op.kind \in {"select", "project"}
        /\ Frame.call = "next" /\ Frame.at \in {"start", "asked"}
    BY DEF Ask, SelectNext, ProjectNext, Running
  <1> PICK first : first = left[Op.in[1]]
    OBVIOUS
  <1>2. /\ ProtocolNow /\ Self \in DOMAIN plan /\ MembersOK(Self, My)
        /\ DOMAIN state = DOMAIN plan /\ IsPlan(plan)
        /\ CallData(left, Self, My, Frame, TRUE, ret) /\ ~Fails(Self) /\ plan[Self] = Op
    BY <1>1, OwnFacts, FrameFacts DEF IInv, Op
  <1>3. DOMAIN Op.in = {1} /\ IsSeq(first)
    <2>1. DOMAIN Op.in = {1}
      BY <1>1, FrameFacts, Arities DEF IInv
    <2> QED
      BY <1>1, <2>1, OwnFacts
  <1>4. AtRest(left, Self, My) = IF Op.kind = "select" THEN Selected(first, Op.where)
                                 ELSE ProjectedRows(first, Op.columns)
    BY <1>1, <1>2 DEF AtRest
  <1>5. ASSUME left[Self] = AtRest(left, Self, My), CallThen(1, "next", "asked", <<>>, My)
        PROVE  \E two : Data(two)'
    <2>1. MayCall(1, "next", "asked")
      BY <1>1, <1>3 DEF Methods, MayCall, Places, CalledInput, CalledMethod, InputOpen
    <2>2. PassData(left, Self, My, At("asked", <<>>), FALSE, ret)
      BY <1>1, <1>2, <1>4, <1>5 DEF At, PassData, Owed, Asked
    <2>3. CallData(left, Self, My, At("asked", <<>>), FALSE, ret)
      BY <1>1, <1>2, <2>2 DEF At, CallData
    <2>4. Data(left)'
      BY <1>1, <1>2, <1>5, <2>1, <2>3, DataCall
    <2> QED
      BY <2>4
  <1>6. ASSUME NEW r, Leave(r, My), left[Self] = Owed(AtRest(left, Self, My), TRUE, r),
               Asked(AtRest(left, Self, My), TRUE, r)
        PROVE  \E two : Data(two)'
    <2>1. IsSeq(AtRest(left, Self, My))
      BY ZenonT(60), <1>1, <1>3, <1>4, SelectedCons, ProjectedCons
    <2> QED
      BY <1>1, <1>2, <1>6, <2>1, DataLeave
  <1>7. CASE Ask
    <2>1. CallThen(1, "next", "asked", <<>>, My) /\ Frame.at = "start"
      BY <1>7 DEF Ask, Running, Call
    <2> QED
      BY <1>1, <1>2, <1>5, <2>1 DEF CallData
  <1>8. ASSUME Frame.at = "asked"
        PROVE  /\ ~ret.ok => first = <<>>
               /\ left[Self] = IF Op.kind = "select"
                               THEN Selected(Owed(first, TRUE, ret), Op.where)
                               ELSE ProjectedRows(Owed(first, TRUE, ret), Op.columns)
    BY <1>1, <1>2, <1>8 DEF CallData, PassData, Asked
  <1>9. CASE SelectNext
    <2>1. /\ Frame.at = "asked" /\ Op.kind = "select"
          /\ IF ret.ok /\ ~Satisfies(ret.values, Op.where) THEN CallThen(1, "next", "asked", <<>>, My)
             ELSE Leave(ret, My)
      BY <1>9 DEF SelectNext, Running, Call, Return
    <2>2. CASE ~ret.ok
      <3>1. left[Self] = <<>> /\ AtRest(left, Self, My) = <<>>
        BY <1>4, <1>8, <2>1, <2>2, SelectedNone DEF Owed
      <3> QED
        BY <1>6, <2>1, <2>2, <3>1 DEF Owed, Asked
    <2>3. CASE ret.ok
      <3>1. left[Self] = IF Satisfies(ret.values, Op.where)
                         THEN <<ret.values>> \o AtRest(left, Self, My) ELSE AtRest(left, Self, My)
        <4>1. left[Self] = Selected(<<ret.values>> \o first, Op.where)
          BY <1>8, <2>1, <2>3 DEF Owed
        <4>2. AtRest(left, Self, My) = Selected(first, Op.where)
          BY <1>4, <2>1
        <4>3. Selected(<<ret.values>> \o first, Op.where) =
                  IF Satisfies(ret.values, Op.where)
                  THEN <<ret.values>> \o Selected(first, Op.where) ELSE Selected(first, Op.where)
          BY ONLY <1>3, SelectedCons
        <4> QED
          BY <4>1, <4>2, <4>3
      <3>2. CASE Satisfies(ret.values, Op.where)
        BY <1>6, <2>1, <2>3, <3>1, <3>2 DEF Owed, Asked
      <3>3. CASE ~Satisfies(ret.values, Op.where)
        BY <1>5, <2>1, <2>3, <3>1, <3>3
      <3> QED
        BY <3>2, <3>3
    <2> QED
      BY <2>2, <2>3
  <1>10. CASE ProjectNext
    <2> PICK x : x = Projected(ret.values, Op.columns)
      OBVIOUS
    <2>1. /\ Frame.at = "asked" /\ Op.kind = "project"
          /\ Leave(IF ret.ok THEN Got(x) ELSE Nothing, My)
      BY <1>10 DEF ProjectNext, Running, Return
    <2>2. CASE ~ret.ok
      <3>1. left[Self] = <<>> /\ AtRest(left, Self, My) = <<>>
        BY <1>4, <1>8, <2>1, <2>2, ProjectedNone DEF Owed
      <3>2. Leave(Nothing, My)
        BY <2>1, <2>2
      <3> QED
        BY <1>6, <3>1, <3>2 DEF Owed, Asked, Nothing
    <2>3. CASE ret.ok
      <3>1. left[Self] = <<x>> \o AtRest(left, Self, My)
        BY <1>3, <1>4, <1>8, <2>1, <2>3, ProjectedCons DEF Owed
      <3>2. Leave(Got(x), My)
        BY <2>1, <2>3
      <3> QED
        BY <1>6, <3>1, <3>2 DEF Owed, Asked, Got
    <2> QED
      BY <2>2, <2>3
  <1> QED
    BY <1>7, <1>9, <1>10

\* The members of a join with a row from one of its sides.
LEMMA JoinMembers ==
    ASSUME NEW k, plan[k].kind = "join", MembersOK(k, My), NEW r
    PROVE  /\ LET m == LeftFrom(r) IN
              /\ MembersOK(k, m) /\ m.leftValid = r.ok /\ ~m.rightValid
              /\ r.ok => m.left = r.values
           /\ LET m == RightFrom(r) IN
              /\ MembersOK(k, m) /\ m.leftValid = My.leftValid /\ m.left = My.left
              /\ m.rightValid = r.ok
              /\ r.ok => m.right = r.values
  <1> PICK a, b, c, d : My = [leftValid |-> a, rightValid |-> b, left |-> c, right |-> d]
    BY DEF MembersOK
  <1> PICK m, one, two : m = My /\ one = LeftFrom(r) /\ two = RightFrom(r)
    OBVIOUS
  <1>0. /\ m = [leftValid |-> a, rightValid |-> b, left |-> c, right |-> d]
        /\ one = [m EXCEPT !.leftValid = r.ok, !.rightValid = FALSE,
                           !.left = IF r.ok THEN r.values ELSE @]
        /\ two = [m EXCEPT !.rightValid = r.ok, !.right = IF r.ok THEN r.values ELSE @]
    BY DEF LeftFrom, RightFrom
  <1>1. one = [leftValid |-> r.ok, rightValid |-> FALSE,
               left |-> IF r.ok THEN r.values ELSE c, right |-> d]
    BY ONLY <1>0
  <1>2. two = [leftValid |-> a, rightValid |-> r.ok, left |-> c,
               right |-> IF r.ok THEN r.values ELSE d]
    BY ONLY <1>0
  <1> QED
    BY <1>1, <1>2 DEF MembersOK

\* With the next left row, or none, and a right side that starts again.
LEMMA LeftTaken ==
    ASSUME NEW m, NEW r, m.leftValid = r.ok, ~m.rightValid, r.ok => m.left = r.values,
           NEW first, IsSeq(first), NEW all, IsSeq(all), NEW on, Asked(first, TRUE, r)
    PROVE  /\ ToJoin(m, first, all, all, on) = JoinedRows(Owed(first, TRUE, r), all, on)
           /\ IsSeq(ToJoin(m, first, all, all, on))
  <1>1. CASE r.ok
    <2>1. Owed(first, TRUE, r) = <<m.left>> \o first
      BY <1>1 DEF Owed
    <2>2. JoinedRows(<<m.left>> \o first, all, on) =
              Glue(Pairs(m.left, all, on), JoinedRows(first, all, on))
          /\ IsSeq(JoinedRows(first, all, on))
      BY ONLY JoinedCons, IsSeq(first), IsSeq(all)
    <2>3. IsSeq(Pairs(m.left, all, on))
      BY PairsCons
    <2>4. ToJoin(m, first, all, all, on) = Glue(Pairs(m.left, all, on), JoinedRows(first, all, on))
      BY <1>1 DEF ToJoin, ToPair, Glue
    <2>5. IsSeq(Glue(Pairs(m.left, all, on), JoinedRows(first, all, on)))
      BY <2>2, <2>3, ConcatIs DEF Glue
    <2> QED
      BY ONLY <2>1, <2>2, <2>4, <2>5
  <1>2. CASE ~r.ok
    <2>1. Owed(first, TRUE, r) = <<>>
      BY <1>2 DEF Owed, Asked
    <2>2. ToJoin(m, first, all, all, on) = <<>>
      BY <1>2 DEF ToJoin
    <2> QED
      BY <2>1, <2>2, JoinedNone, NoneAndOne
  <1> QED
    BY <1>1, <1>2

\* With the next right row, or none.
LEMMA RightTaken ==
    ASSUME NEW m, NEW r, m.leftValid, m.rightValid = r.ok, r.ok => m.right = r.values,
           NEW first, IsSeq(first), NEW right, IsSeq(right), NEW all, IsSeq(all), NEW on
    PROVE  /\ ToJoin(m, first, right, all, on) =
                 Glue(Pairs(m.left, Owed(right, TRUE, r), on), JoinedRows(first, all, on))
           /\ IsSeq(ToJoin(m, first, right, all, on))
  <1>1. ToPair(m, right) = Owed(right, TRUE, r)
    BY DEF ToPair, Owed
  <1>2. IsSeq(Owed(right, TRUE, r))
    BY ConsIs DEF Owed
  <1>3. IsSeq(Pairs(m.left, Owed(right, TRUE, r), on)) /\ IsSeq(JoinedRows(first, all, on))
    BY <1>2, PairsCons, JoinedCons
  <1> QED
    BY <1>1, <1>3, ConcatIs DEF ToJoin, Glue

\* What is known in a step of a join.
JoinNow(left, k, first, right, all, on) ==
    /\ plan[k].kind = "join" /\ MembersOK(k, My) /\ IsSeq(first) /\ IsSeq(right) /\ IsSeq(all)
    /\ first = left[plan[k].in[1]] /\ right = left[plan[k].in[2]] /\ all = Rows[plan[k].in[2]]
    /\ on = plan[k].on
    /\ JoinData(left, k, My, Frame, TRUE, ret)
    /\ Frame.call = "next" /\ Frame.at = "start" => left[k] = ToJoin(My, first, right, all, on)
    /\ \A m : AtRest(left, k, m) = ToJoin(m, first, right, all, on)
    /\ \A m, f, top, r :
         /\ f.call # "open" \/ f.at # "first"
         /\ JoinData(left, k, m, f, top, r)
         /\ f.call = "next" /\ f.at = "start" => left[k] = ToJoin(m, first, right, all, on)
         => CallData(left, k, m, f, top, r)

LEMMA JoinFacts ==
    ASSUME IInv, NEW left, Data(left), stack # <<>>, Op.kind = "join"
    PROVE  /\ \E first, right, all, on : JoinNow(left, Self, first, right, all, on)
           /\ DOMAIN Op.in = 1 .. 2 /\ 1 \in DOMAIN Op.in /\ 2 \in DOMAIN Op.in
           /\ Frame.call \in Methods
           /\ ProtocolNow /\ DOMAIN state = DOMAIN plan /\ plan[Self] = Op
           /\ Frame.call # "open" => ~Fails(Self)
  <1> PICK first, right, all, on :
          /\ first = left[plan[Self].in[1]] /\ right = left[plan[Self].in[2]]
          /\ all = Rows[plan[Self].in[2]] /\ on = plan[Self].on
    OBVIOUS
  <1>1. /\ DOMAIN Op.in = 1 .. 2 /\ 1 \in DOMAIN Op.in /\ 2 \in DOMAIN Op.in
        /\ Frame.call \in Methods /\ plan[Self] = Op
    BY FrameFacts, Arities DEF IInv, Op
  <1>2. /\ IsSeq(first) /\ IsSeq(right) /\ IsSeq(all) /\ MembersOK(Self, My)
        /\ CallData(left, Self, My, Frame, TRUE, ret)
        /\ DOMAIN state = DOMAIN plan /\ (Frame.call # "open" => ~Fails(Self))
    BY <1>1, OwnFacts
  <1>3. \A m : AtRest(left, Self, m) = ToJoin(m, first, right, all, on)
    BY <1>1 DEF AtRest
  <1>4. \A m, f, top, r :
         /\ f.call # "open" \/ f.at # "first"
         /\ JoinData(left, Self, m, f, top, r)
         /\ f.call = "next" /\ f.at = "start" => left[Self] = ToJoin(m, first, right, all, on)
         => CallData(left, Self, m, f, top, r)
    BY <1>1, <1>3 DEF CallData
  <1>5. JoinData(left, Self, My, Frame, TRUE, ret)
        /\ (Frame.call = "next" /\ Frame.at = "start" => left[Self] = ToJoin(My, first, right, all, on))
    BY <1>1, <1>2, <1>3 DEF CallData
  <1>6. JoinNow(left, Self, first, right, all, on)
    BY <1>1, <1>2, <1>3, <1>4, <1>5 DEF JoinNow
  <1> QED
    BY <1>1, <1>2, <1>6 DEF IInv

\* What each place of a join's methods needs to be known, with the rows named.
LEMMA JoinCall ==
    ASSUME NEW left, NEW k, NEW first, NEW right, NEW all, NEW on,
           JoinNow(left, k, first, right, all, on), NEW m, NEW f, NEW top, NEW r,
           f.call # "open" \/ f.at # "first", JoinData(left, k, m, f, top, r),
           f.call = "next" /\ f.at = "start" => left[k] = ToJoin(m, first, right, all, on)
    PROVE  CallData(left, k, m, f, top, r)
  BY DEF JoinNow

\* The pair of a match stands before what the rest of the right side makes.
LEMMA MatchTaken ==
    ASSUME NEW m, m.leftValid, m.rightValid, NEW first, IsSeq(first), NEW right, IsSeq(right),
           NEW all, IsSeq(all), NEW on
    PROVE  ToJoin(m, first, right, all, on) =
               IF Joined(m.left, m.right, on)
               THEN <<Glue(m.left, m.right)>> \o
                        Glue(Pairs(m.left, right, on), JoinedRows(first, all, on))
               ELSE Glue(Pairs(m.left, right, on), JoinedRows(first, all, on))
  <1> PICK P, J, x, one : /\ P = Pairs(m.left, right, on) /\ J = JoinedRows(first, all, on)
                          /\ x = m.left \o m.right /\ one = <<x>>
    OBVIOUS
  <1>1. IsSeq(P) /\ IsSeq(J) /\ IsSeq(one)
    BY PairsCons, JoinedCons, NoneAndOne
  <1>2. ToJoin(m, first, right, all, on) = Pairs(m.left, <<m.right>> \o right, on) \o J
    BY DEF ToJoin, ToPair
  <1>3. Pairs(m.left, <<m.right>> \o right, on) =
            IF Joined(m.left, m.right, on) THEN one \o P ELSE P
    <2>1. Pairs(m.left, <<m.right>> \o right, on) =
              IF Joined(m.left, m.right, on)
              THEN <<Glue(m.left, m.right)>> \o Pairs(m.left, right, on) ELSE Pairs(m.left, right, on)
      <3> PICK l, y, t, o : l = m.left /\ y = m.right /\ t = right /\ o = on
        OBVIOUS
      <3>1. Pairs(l, <<y>> \o t, o) =
                IF Joined(l, y, o) THEN <<Glue(l, y)>> \o Pairs(l, t, o) ELSE Pairs(l, t, o)
        BY ONLY PairsCons, IsSeq(t)
      <3> QED
        BY <3>1
    <2> QED
      BY <2>1 DEF Glue
  <1>4. (one \o P) \o J = one \o (P \o J)
    BY ONLY <1>1, ConcatThree
  <1> QED
    BY <1>2, <1>3, <1>4 DEF Glue

\* With no right row left there are the left rows to come.
LEMMA RightOut ==
    ASSUME NEW m, m.leftValid, ~m.rightValid, NEW first, IsSeq(first), NEW all, IsSeq(all), NEW on
    PROVE  ToJoin(m, first, <<>>, all, on) = JoinedRows(first, all, on)
  <1>1. Pairs(m.left, <<>>, on) = <<>> /\ IsSeq(JoinedRows(first, all, on))
    BY PairsNone, JoinedCons
  <1>2. ToJoin(m, first, <<>>, all, on) = Pairs(m.left, <<>>, on) \o JoinedRows(first, all, on)
    BY DEF ToJoin, ToPair
  <1> QED
    BY <1>1, <1>2, SeqIs

\* The steps of a join that return.
LEMMA DataJoinReturns ==
    ASSUME IInv, NEW left, Data(left), JoinOpened \/ JoinEnd \/ JoinEmit
    PROVE  \E two : Data(two)'
  <1>1. stack # <<>> /\ Op.kind = "join"
    BY DEF JoinOpened, JoinEnd, JoinEmit, Running
  <1> PICK first, right, all, on : JoinNow(left, Self, first, right, all, on)
    BY <1>1, JoinFacts
  <1>2. /\ DOMAIN Op.in = 1 .. 2 /\ 1 \in DOMAIN Op.in /\ 2 \in DOMAIN Op.in
        /\ Frame.call \in Methods
        /\ ProtocolNow /\ DOMAIN state = DOMAIN plan /\ plan[Self] = Op
        /\ Frame.call # "open" => ~Fails(Self)
    BY <1>1, JoinFacts
  <1>3. /\ plan[Self].kind = "join" /\ MembersOK(Self, My)
        /\ IsSeq(first) /\ IsSeq(right) /\ IsSeq(all)
        /\ first = left[plan[Self].in[1]] /\ right = left[plan[Self].in[2]]
        /\ all = Rows[plan[Self].in[2]] /\ on = plan[Self].on
        /\ JoinData(left, Self, My, Frame, TRUE, ret)
        /\ Frame.call = "next" /\ Frame.at = "start" => left[Self] = ToJoin(My, first, right, all, on)
        /\ \A m : AtRest(left, Self, m) = ToJoin(m, first, right, all, on)
    BY DEF JoinNow
  <1>4. CASE JoinOpened
    <2> PICK m : m = LeftFrom(ret)
      OBVIOUS
    <2>1. Leave(Nothing, m) /\ Frame.call = "open" /\ Frame.at = "primed"
      BY <1>4 DEF JoinOpened, Running, Return
    <2>2. MembersOK(Self, m) /\ m.leftValid = ret.ok /\ ~m.rightValid
          /\ (ret.ok => m.left = ret.values)
      BY <1>3, JoinMembers
    <2>3. right = all /\ Asked(first, TRUE, ret) /\ Owed(first, TRUE, ret) = Rows[Op.in[1]]
      BY <1>2, <1>3, <2>1 DEF JoinData
    <2> USE <1>3, <2>3
    <2>4. /\ ToJoin(m, first, all, all, on) = JoinedRows(Owed(first, TRUE, ret), all, on)
          /\ IsSeq(ToJoin(m, first, all, all, on))
      BY ONLY IsSeq(first), IsSeq(all), Asked(first, TRUE, ret), <2>2, LeftTaken
    <2>5. Rows[Self] = JoinedRows(Rows[Op.in[1]], all, on)
      BY <1>1, <1>2, <1>3, OwnFacts DEF RowsOf
    <2>6. AtRest(left, Self, m) = Rows[Self] /\ IsSeq(AtRest(left, Self, m))
      BY <1>3, <2>3, <2>4, <2>5
    <2>7. ~Fails(Self)
      <3>1. InputOpen(Op.kind, Frame.call, Frame.at, 1) /\ InputOpen(Op.kind, Frame.call, Frame.at, 2)
        BY <1>1, <2>1 DEF InputOpen
      <3>2. ~Fails(Op.in[1]) /\ ~Fails(Op.in[2])
        BY <1>1, <1>2, <3>1, OwnFacts
      <3>3. \A n \in DOMAIN plan[Self].in : ~Fails(plan[Self].in[n])
        <4>1. \A n \in 1 .. 2 : n = 1 \/ n = 2
          OBVIOUS
        <4> QED
          BY <1>2, <3>2, <4>1
      <3>4. ~BadSort(Self)
        BY <1>3 DEF BadSort
      <3> QED
        BY <1>1, <3>3, <3>4, FailsByInput, FrameFacts, OwnFacts DEF IInv
    <2> QED
      BY <1>1, <1>2, <2>1, <2>2, <2>6, <2>7, DataLeave
  <1>5. CASE JoinEnd
    <2>1. Leave(Nothing, My) /\ Frame.call = "next" /\ Frame.at = "start" /\ ~My.leftValid
      BY <1>5 DEF JoinEnd, Running, Return
    <2>2. left[Self] = <<>> /\ AtRest(left, Self, My) = <<>>
      BY <1>3, <2>1 DEF ToJoin
    <2>3. left[Self] = Owed(<<>>, TRUE, Nothing) /\ Asked(<<>>, TRUE, Nothing)
      BY <2>2 DEF Owed, Asked, Nothing
    <2>4. Frame.call # "open" /\ Frame.call # "close" /\ IsSeq(<<>>)
      BY <2>1, NoneAndOne
    <2> PICK v, r : v = <<>> /\ r = Nothing
      OBVIOUS
    <2> QED
      BY <1>1, <1>2, <1>3, <2>1, <2>2, <2>3, <2>4, DataLeave
  <1>6. CASE JoinEmit
    <2> PICK m, v, x : m = RightFrom(ret) /\ v = ToJoin(m, first, right, all, on) /\ x = Frame.out
      OBVIOUS
    <2>1. Leave(Got(x), m) /\ Frame.call = "next" /\ Frame.at = "emit"
      BY <1>6 DEF JoinEmit, Running, Return
    <2>2. MembersOK(Self, m) /\ m.leftValid = My.leftValid /\ m.left = My.left
          /\ m.rightValid = ret.ok /\ (ret.ok => m.right = ret.values)
      BY ZenonT(60), <1>3, JoinMembers
    <2>3. /\ My.leftValid
          /\ left[Self] = <<x>> \o (Pairs(My.left, Owed(right, TRUE, ret), on)
                                       \o JoinedRows(first, all, on))
      BY <1>3, <2>1 DEF JoinData
    <2> USE <1>3
    <2>4. v = Pairs(My.left, Owed(right, TRUE, ret), on) \o JoinedRows(first, all, on) /\ IsSeq(v)
      <3>1. /\ ToJoin(m, first, right, all, on) =
                   Glue(Pairs(m.left, Owed(right, TRUE, ret), on), JoinedRows(first, all, on))
            /\ IsSeq(ToJoin(m, first, right, all, on))
        <4>1. m.leftValid
          BY <2>2, <2>3
        <4> QED
          BY ONLY IsSeq(first), IsSeq(right), IsSeq(all), <2>2, <4>1, RightTaken
      <3> QED
        BY <2>2, <3>1 DEF Glue
    <2>5. left[Self] = <<x>> \o v
      BY <2>3, <2>4
    <2>6. left[Self] = Owed(v, TRUE, Got(x)) /\ Asked(v, TRUE, Got(x))
      BY <2>5 DEF Owed, Asked, Got
    <2>7. AtRest(left, Self, m) = v
      BY <1>3
    <2> QED
      BY <1>1, <1>2, <2>1, <2>2, <2>4, <2>6, <2>7, DataLeave
  <1> QED
    BY <1>4, <1>5, <1>6

\* The steps of a join that call one of its sides or go on.
LEMMA DataJoinGoes ==
    ASSUME IInv, NEW left, Data(left),
           \/ JoinOpen \/ JoinAsk \/ JoinGotRight \/ JoinMatch
           \/ JoinRightDone \/ JoinReopen \/ JoinAdvance \/ JoinGotLeft
    PROVE  Data(left)'
  <1>1. stack # <<>> /\ Op.kind = "join"
    BY DEF JoinOpen, JoinAsk, JoinGotRight, JoinMatch, JoinRightDone, JoinReopen, JoinAdvance,
        JoinGotLeft, Running
  <1> PICK first, right, all, on : JoinNow(left, Self, first, right, all, on)
    BY <1>1, JoinFacts
  <1>2. /\ DOMAIN Op.in = 1 .. 2 /\ 1 \in DOMAIN Op.in /\ 2 \in DOMAIN Op.in
        /\ Frame.call \in Methods
        /\ ProtocolNow /\ DOMAIN state = DOMAIN plan /\ plan[Self] = Op
    BY <1>1, JoinFacts
  <1>3. /\ plan[Self].kind = "join" /\ MembersOK(Self, My)
        /\ IsSeq(first) /\ IsSeq(right) /\ IsSeq(all)
        /\ first = left[plan[Self].in[1]] /\ right = left[plan[Self].in[2]]
        /\ all = Rows[plan[Self].in[2]] /\ on = plan[Self].on
        /\ JoinData(left, Self, My, Frame, TRUE, ret)
        /\ Frame.call = "next" /\ Frame.at = "start" => left[Self] = ToJoin(My, first, right, all, on)
    BY DEF JoinNow
  <1>4. ASSUME NEW n, NEW call, NEW at, NEW built, MayCall(n, call, at),
               CallThen(n, call, at, built, My), at # "first", at # "start",
               JoinData(left, Self, My, At(at, built), FALSE, ret)
        PROVE  Data(left)'
    <2>1. CallData(left, Self, My, At(at, built), FALSE, ret)
      BY <1>3, <1>4, JoinCall DEF At
    <2> QED
      BY <1>1, <1>2, <1>3, <1>4, <2>1, DataCall
  <1>5. ASSUME NEW at, NEW m, Continue(at, m), Frame.call = "next", MembersOK(Self, m),
               JoinData(left, Self, m, At(at, Frame.out), TRUE, ret),
               at = "start" => left[Self] = ToJoin(m, first, right, all, on)
        PROVE  Data(left)'
    <2>1. CallData(left, Self, m, At(at, Frame.out), TRUE, ret)
      <3> PICK f : f = At(at, Frame.out)
        OBVIOUS
      <3>1. f.call = "next" /\ f.at = at
        BY <1>5 DEF At
      <3>2. JoinData(left, Self, m, f, TRUE, ret)
        BY <1>5
      <3>3. f.call = "next" /\ f.at = "start" => left[Self] = ToJoin(m, first, right, all, on)
        BY <1>5, <3>1
      <3>4. CallData(left, Self, m, f, TRUE, ret)
        BY <3>1, <3>2, <3>3, JoinCall
      <3> QED
        BY <3>4
    <2>2. /\ stack' = Moved(stack, At(at, Frame.out)) /\ At(at, Frame.out).op = Self
          /\ Become(m) /\ UNCHANGED <<opened, ret, Consumer>>
      BY <1>5 DEF Continue, Moved, At
    <2> QED
      BY <1>1, <1>2, <1>5, <2>1, <2>2, DataMove
  <1>6. CASE JoinOpen
    <2>1. Frame.call = "open" /\ Frame.at = "second" /\ CallThen(1, "next", "primed", <<>>, My)
      BY <1>6 DEF JoinOpen, Running, Call
    <2>2. MayCall(1, "next", "primed")
      BY <1>1, <1>2, <2>1 DEF Methods, MayCall, Places, CalledInput, CalledMethod, InputOpen
    <2>3. JoinData(left, Self, My, At("primed", <<>>), FALSE, ret)
      BY <1>1, <1>2, <1>3, <2>1 DEF At, JoinData, Owed, Asked
    <2> QED
      BY <1>4, <2>1, <2>2, <2>3
  <1>7. CASE JoinAsk
    <2>1. /\ Frame.call = "next" /\ Frame.at = "start" /\ My.leftValid
          /\ IF My.rightValid THEN Continue("match", My) ELSE CallThen(2, "next", "right", <<>>, My)
      BY <1>7 DEF JoinAsk, Running, Call
    <2>2. left[Self] = ToJoin(My, first, right, all, on)
      BY <1>3, <2>1
    <2>3. CASE My.rightValid
      <3>1. JoinData(left, Self, My, At("match", Frame.out), TRUE, ret)
        BY <1>3, <2>1, <2>2, <2>3 DEF At, JoinData
      <3> QED
        BY <1>3, <1>5, <2>1, <2>3, <3>1
    <2>4. CASE ~My.rightValid
      <3>1. MayCall(2, "next", "right")
        BY <1>1, <1>2, <2>1 DEF Methods, MayCall, Places, CalledInput, CalledMethod, InputOpen
      <3>2. left[Self] = Pairs(My.left, right, on) \o JoinedRows(first, all, on)
        BY <2>1, <2>2, <2>4 DEF ToJoin, ToPair
      <3>3. JoinData(left, Self, My, At("right", <<>>), FALSE, ret)
        BY <1>3, <2>1, <3>2 DEF At, JoinData, Owed, Asked
      <3> QED
        BY <1>4, <2>1, <2>4, <3>1, <3>3
    <2> QED
      BY <2>3, <2>4
  <1>8. CASE JoinGotRight
    <2> PICK m : m = RightFrom(ret)
      OBVIOUS
    <2>1. Frame.call = "next" /\ Frame.at = "right" /\ Continue("match", m)
      BY <1>8 DEF JoinGotRight, Running
    <2>2. MembersOK(Self, m) /\ m.leftValid = My.leftValid /\ m.left = My.left
          /\ m.rightValid = ret.ok /\ (ret.ok => m.right = ret.values)
      BY <1>3, JoinMembers
    <2>3. /\ My.leftValid /\ Asked(right, TRUE, ret)
          /\ left[Self] = Pairs(My.left, Owed(right, TRUE, ret), on) \o JoinedRows(first, all, on)
      BY <1>3, <2>1 DEF JoinData
    <2>4. m.leftValid /\ (~m.rightValid => right = <<>>)
      BY <2>2, <2>3 DEF Asked
    <2>5. left[Self] = ToJoin(m, first, right, all, on)
      <3>1. /\ ToJoin(m, first, right, all, on) =
                   Glue(Pairs(m.left, Owed(right, TRUE, ret), on), JoinedRows(first, all, on))
            /\ IsSeq(ToJoin(m, first, right, all, on))
        <4> USE <1>3
        <4>1. m.leftValid
          BY <2>4
        <4> QED
          BY ONLY IsSeq(first), IsSeq(right), IsSeq(all), <2>2, <4>1, RightTaken
      <3> QED
        BY <2>2, <2>3, <3>1 DEF Glue
    <2>6. JoinData(left, Self, m, At("match", Frame.out), TRUE, ret)
      BY <1>3, <2>1, <2>4, <2>5 DEF At, JoinData
    <2> QED
      BY <1>5, <2>1, <2>2, <2>6
  <1>9. CASE JoinMatch
    <2> PICK x, rest : /\ x = My.left \o My.right
                       /\ rest = Pairs(My.left, right, on) \o JoinedRows(first, all, on)
      OBVIOUS
    <2>1. /\ Frame.call = "next" /\ Frame.at = "match" /\ My.rightValid
          /\ IF Joined(My.left, My.right, on) THEN CallThen(2, "next", "emit", x, My)
             ELSE CallThen(2, "next", "right", <<>>, My)
      BY <1>2, <1>3, <1>9 DEF JoinMatch, Running, Call
    <2>2. My.leftValid /\ left[Self] = ToJoin(My, first, right, all, on)
      BY <1>3, <2>1 DEF JoinData
    <2>3. left[Self] = IF Joined(My.left, My.right, on) THEN <<x>> \o rest ELSE rest
      <3>1. ToJoin(My, first, right, all, on) =
                IF Joined(My.left, My.right, on)
                THEN <<Glue(My.left, My.right)>> \o
                         Glue(Pairs(My.left, right, on), JoinedRows(first, all, on))
                ELSE Glue(Pairs(My.left, right, on), JoinedRows(first, all, on))
        <4> USE <1>3
        <4> QED
          BY ONLY IsSeq(first), IsSeq(right), IsSeq(all), <2>1, <2>2, MatchTaken
      <3> QED
        BY <2>2, <3>1 DEF Glue
    <2>4. CASE Joined(My.left, My.right, on)
      <3>1. MayCall(2, "next", "emit")
        BY <1>1, <1>2, <2>1 DEF Methods, MayCall, Places, CalledInput, CalledMethod, InputOpen
      <3>2. left[Self] = <<x>> \o (Pairs(My.left, right, on) \o JoinedRows(first, all, on))
        BY <2>3, <2>4
      <3>3. JoinData(left, Self, My, At("emit", x), FALSE, ret)
        BY <1>3, <2>1, <2>2, <3>2 DEF At, JoinData, Owed, Asked
      <3> QED
        BY <1>4, <2>1, <2>4, <3>1, <3>3
    <2>5. CASE ~Joined(My.left, My.right, on)
      <3>1. MayCall(2, "next", "right")
        BY <1>1, <1>2, <2>1 DEF Methods, MayCall, Places, CalledInput, CalledMethod, InputOpen
      <3>2. left[Self] = Pairs(My.left, right, on) \o JoinedRows(first, all, on)
        BY <2>3, <2>5
      <3>3. JoinData(left, Self, My, At("right", <<>>), FALSE, ret)
        BY <1>3, <2>1, <2>2, <3>2 DEF At, JoinData, Owed, Asked
      <3> QED
        BY <1>4, <2>1, <2>5, <3>1, <3>3
    <2> QED
      BY <2>4, <2>5
  <1>10. CASE JoinRightDone
    <2>1. /\ Frame.call = "next" /\ Frame.at = "match" /\ ~My.rightValid
          /\ CallThen(2, "close", "closed", <<>>, My)
      BY <1>10 DEF JoinRightDone, Running, Call
    <2>2. MayCall(2, "close", "closed")
      BY <1>1, <1>2, <2>1 DEF Methods, MayCall, Places, CalledInput, CalledMethod, InputOpen
    <2>3. My.leftValid /\ right = <<>> /\ left[Self] = ToJoin(My, first, right, all, on)
      BY <1>3, <2>1 DEF JoinData
    <2>4. left[Self] = JoinedRows(first, all, on)
      BY <1>3, <2>1, <2>3, RightOut
    <2>5. JoinData(left, Self, My, At("closed", <<>>), FALSE, ret)
      BY <1>3, <2>1, <2>4 DEF At, JoinData
    <2> QED
      BY <1>4, <2>1, <2>2, <2>5
  <1>11. CASE JoinReopen
    <2>1. Frame.call = "next" /\ Frame.at = "closed" /\ CallThen(2, "open", "reopened", <<>>, My)
      BY <1>11 DEF JoinReopen, Running, Call
    <2>2. MayCall(2, "open", "reopened")
      BY <1>1, <1>2, <2>1 DEF Methods, MayCall, Places, CalledInput, CalledMethod, InputOpen
    <2>3. left[Self] = JoinedRows(first, all, on)
      BY <1>3, <2>1 DEF JoinData
    <2>4. JoinData(left, Self, My, At("reopened", <<>>), FALSE, ret)
      BY <1>3, <2>1, <2>3 DEF At, JoinData
    <2> QED
      BY <1>4, <2>1, <2>2, <2>4
  <1>12. CASE JoinAdvance
    <2>1. Frame.call = "next" /\ Frame.at = "reopened" /\ CallThen(1, "next", "left", <<>>, My)
      BY <1>12 DEF JoinAdvance, Running, Call
    <2>2. MayCall(1, "next", "left")
      BY <1>1, <1>2, <2>1 DEF Methods, MayCall, Places, CalledInput, CalledMethod, InputOpen
    <2>3. left[Self] = JoinedRows(first, all, on) /\ right = all
      BY <1>3, <2>1 DEF JoinData
    <2>4. JoinData(left, Self, My, At("left", <<>>), FALSE, ret)
      BY <1>3, <2>1, <2>3 DEF At, JoinData, Owed, Asked
    <2> QED
      BY <1>4, <2>1, <2>2, <2>4
  <1>13. CASE JoinGotLeft
    <2> PICK m : m = LeftFrom(ret)
      OBVIOUS
    <2>1. Frame.call = "next" /\ Frame.at = "left" /\ Continue("start", m)
      BY <1>13 DEF JoinGotLeft, Running
    <2>2. MembersOK(Self, m) /\ m.leftValid = ret.ok /\ ~m.rightValid
          /\ (ret.ok => m.left = ret.values)
      BY <1>3, JoinMembers
    <2>3. /\ right = all /\ Asked(first, TRUE, ret)
          /\ left[Self] = JoinedRows(Owed(first, TRUE, ret), all, on)
      BY <1>3, <2>1 DEF JoinData
    <2>4. /\ ToJoin(m, first, all, all, on) = JoinedRows(Owed(first, TRUE, ret), all, on)
          /\ IsSeq(ToJoin(m, first, all, all, on))
      <3> USE <1>3, <2>3
      <3> QED
        BY ONLY IsSeq(first), IsSeq(all), Asked(first, TRUE, ret), <2>2, LeftTaken
    <2>5. left[Self] = ToJoin(m, first, right, all, on)
      BY <2>3, <2>4
    <2>6. JoinData(left, Self, m, At("start", Frame.out), TRUE, ret)
      BY <2>1 DEF At, JoinData
    <2> QED
      BY <1>5, <2>1, <2>2, <2>5, <2>6
  <1> QED
    BY <1>6, <1>7, <1>8, <1>9, <1>10, <1>11, <1>12, <1>13

\* A row put behind the ones a sort has.
LEMMA RowKept ==
    ASSUME NEW s, IsSeq(s), NEW x, NEW t, IsSeq(t), NEW u, u = Append(s, x)
    PROVE  /\ IsSeq(u) /\ u \o t = Glue(s, <<x>> \o t) /\ u # <<>>
           /\ Head(u) = IF s = <<>> THEN x ELSE Head(s)
  <1> PICK one : one = <<x>>
    OBVIOUS
  <1>1. u = s \o one /\ IsSeq(u) /\ IsSeq(one) /\ Len(one) = 1 /\ one[1] = x
    BY AppendIs, NoneAndOne
  <1>2. u \o t = s \o (one \o t)
    <2>1. (s \o one) \o t = s \o (one \o t)
      BY ONLY <1>1, ConcatThree, IsSeq(s), IsSeq(t)
    <2> QED
      BY <1>1, <2>1
  <1>3. Len(s) \in Nat
    BY SeqIs
  <1>4. Len(u) = Len(s) + 1 /\ u # <<>>
    <2>1. Len(u) = Len(s) + Len(one)
      BY <1>1, ConcatIs
    <2> QED
      BY <1>1, <1>3, <2>1, SeqIs
  <1>5. Head(u) = u[1]
    BY <1>1, <1>4, HeadAndTail
  <1>6. s = <<>> => u = one
    BY <1>1, SeqIs
  <1>7. s # <<>> => u[1] = s[1] /\ Head(s) = s[1]
    <2>1. s # <<>> => 1 \in 1 .. Len(s)
      BY <1>3, SeqIs
    <2> QED
      BY <1>1, <2>1, ConcatIs, HeadAndTail
  <1> QED
    BY <1>1, <1>2, <1>4, <1>5, <1>6, <1>7 DEF Glue

\* Two values for which stod throws are there with more rows behind them, or one before.
LEMMA RaiseInFront ==
    ASSUME NEW s, IsSeq(s), NEW t, IsSeq(t), NEW c, MayRaise(s, c)
    PROVE  MayRaise(s \o t, c)
  <1> PICK u : u = s \o t
    OBVIOUS
  <1>1. PICK i, j \in DOMAIN s : RaisesAt(s, c, i, j)
    BY DEF MayRaise
  <1>2. /\ Len(u) = Len(s) + Len(t) /\ IsSeq(u)
        /\ \A k \in 1 .. Len(s) : u[k] = s[k]
    BY ConcatIs
  <1>3. /\ DOMAIN s = 1 .. Len(s) /\ DOMAIN u = 1 .. Len(u) /\ Len(s) \in Nat /\ Len(t) \in Nat
    BY <1>2, SeqIs
  <1>4. i \in DOMAIN u /\ j \in DOMAIN u /\ u[i] = s[i] /\ u[j] = s[j]
    <2>1. \A k \in 1 .. Len(s) : k \in 1 .. Len(s) + Len(t)
      BY ONLY <1>3
    <2> QED
      BY <1>2, <1>3, <2>1
  <1>5. RaisesAt(u, c, i, j)
    BY <1>1, <1>4 DEF RaisesAt
  <1> QED
    BY <1>4, <1>5 DEF MayRaise

LEMMA RaiseBehind ==
    ASSUME NEW x, NEW t, IsSeq(t), NEW c, MayRaise(t, c)
    PROVE  MayRaise(<<x>> \o t, c)
  <1> PICK u : u = <<x>> \o t
    OBVIOUS
  <1>1. PICK i, j \in DOMAIN t : RaisesAt(t, c, i, j)
    BY DEF MayRaise
  <1>2. /\ DOMAIN u = 1 .. Len(t) + 1
        /\ \A k \in 1 .. Len(t) : u[k + 1] = t[k]
    BY ConsIs
  <1>3. DOMAIN t = 1 .. Len(t) /\ Len(t) \in Nat
    BY SeqIs
  <1>4. /\ i + 1 \in DOMAIN u /\ j + 1 \in DOMAIN u /\ u[i + 1] = t[i] /\ u[j + 1] = t[j]
        /\ (i + 1 = j + 1 => i = j)
    BY <1>2, <1>3
  <1>5. RaisesAt(u, c, i + 1, j + 1)
    BY <1>1, <1>4 DEF RaisesAt
  <1> QED
    BY <1>4, <1>5 DEF MayRaise

\* The steps of a sort.
LEMMA DataSort ==
    ASSUME IInv, NEW left, Data(left),
           \/ SortOpen \/ SortConsume \/ SortKeep \/ SortCloseInput \/ SortThrow \/ SortOpened
           \/ SortRaises \/ SortNext \/ SortClose
    PROVE  \E two : Data(two)'
  <1>1. stack # <<>> /\ Op.kind = "sort"
    BY DEF SortOpen, SortConsume, SortKeep, SortCloseInput, SortThrow, SortOpened,
        SortRaises, SortNext, SortClose, Running
  <1> PICK i, first, all, column, rows :
          /\ i = Op.in[1] /\ first = left[i] /\ all = Rows[i] /\ column = Op.column
          /\ rows = My.rows
    OBVIOUS
  <1>2. /\ DOMAIN Op.in = 1 .. 1 /\ 1 \in DOMAIN Op.in
        /\ Frame.call \in Methods /\ plan[Self] = Op /\ ProtocolNow /\ Self \in DOMAIN plan
    BY <1>1, FrameFacts, Arities DEF IInv, Op
  <1>3. /\ IsSeq(first) /\ IsSeq(all) /\ MembersOK(Self, My) /\ IsSeq(left[Self]) /\ IsSeq(Rows[Self])
        /\ CallData(left, Self, My, Frame, TRUE, ret) /\ Rows[Self] = RowsOf(Rows, Self)
        /\ DOMAIN state = DOMAIN plan /\ IsPlan(plan) /\ (Frame.call # "open" => ~Fails(Self))
        /\ InputOpen(Op.kind, Frame.call, Frame.at, 1) => ~Fails(i)
    BY <1>1, <1>2, OwnFacts
  <1>4. /\ IsSeq(rows) /\ (MayRaise(rows, column) => Risky(Self)) /\ ~MayRaise(<<>>, column)
        /\ \A m : /\ AtRest(left, Self, m) = m.rows
                  /\ MembersOK(Self, m) <=>
                        IsSeq(m.rows) /\ (MayRaise(m.rows, column) => Risky(Self))
    <2>1. ~MayRaise(<<>>, column)
      BY DEF MayRaise
    <2> QED
      BY <1>1, <1>2, <1>3, <2>1 DEF AtRest, MembersOK
  <1>5. SortData(left, Self, My, Frame, TRUE, ret)
    BY <1>1, <1>2, <1>3 DEF CallData
  <1>6. Frame.call = "next" /\ Frame.at = "start" => left[Self] = rows
    BY <1>1, <1>2, <1>3, <1>4 DEF CallData
  <1>7. ASSUME NEW m, NEW f, NEW top, NEW r, f.call = "open", f.at # "first",
               SortData(left, Self, m, f, top, r)
        PROVE  CallData(left, Self, m, f, top, r)
    BY <1>1, <1>2, <1>7 DEF CallData
  <1>8. CASE SortOpen
    <2> PICK m : m = [rows |-> <<>>]
      OBVIOUS
    <2>1. Frame.call = "open" /\ Frame.at = "start" /\ CallThen(1, "open", "consume", <<>>, m)
      BY <1>8 DEF SortOpen, Running
    <2>2. MayCall(1, "open", "consume")
      BY <1>1, <1>2, <2>1 DEF Methods, MayCall, Places, CalledInput, CalledMethod, InputOpen
    <2>3. m.rows = <<>> /\ MembersOK(Self, m)
      BY <1>4, NoneAndOne
    <2>4. SortData(left, Self, m, At("consume", <<>>), FALSE, ret)
      BY <2>1, <2>3 DEF At, SortData, ColumnThere
    <2>5. CallData(left, Self, m, At("consume", <<>>), FALSE, ret)
      BY <1>7, <2>1, <2>4 DEF At
    <2>6. Data(left)'
      BY <1>1, <1>2, <1>3, <2>1, <2>2, <2>3, <2>5, DataCall
    <2> QED
      BY <2>6
  <1>9. CASE SortConsume
    <2>1. Frame.call = "open" /\ Frame.at = "consume" /\ CallThen(1, "next", "got", <<>>, My)
      BY <1>9 DEF SortConsume, Running, Call
    <2>2. MayCall(1, "next", "got")
      BY <1>1, <1>2, <2>1 DEF Methods, MayCall, Places, CalledInput, CalledMethod, InputOpen
    <2>3. ColumnThere(My, column) /\ rows \o first = all
      BY <1>2, <1>5, <2>1 DEF SortData
    <2>4. SortData(left, Self, My, At("got", <<>>), FALSE, ret)
      BY <1>2, <2>1, <2>3 DEF At, SortData, Owed, Asked
    <2>5. CallData(left, Self, My, At("got", <<>>), FALSE, ret)
      BY <1>7, <2>1, <2>4 DEF At
    <2>6. Data(left)'
      BY <1>1, <1>2, <1>3, <2>1, <2>2, <2>5, DataCall
    <2> QED
      BY <2>6
  <1>10. ASSUME Frame.call = "open", Frame.at = "got"
         PROVE  /\ ColumnThere(My, column) /\ Asked(first, TRUE, ret)
                /\ rows \o Owed(first, TRUE, ret) = all
    BY <1>2, <1>5, <1>10 DEF SortData
  <1>11. CASE SortKeep
    <2> PICK m, x, u : m = [rows |-> u] /\ x = ret.values /\ u = Append(rows, x)
      OBVIOUS
    <2>1. /\ Frame.call = "open" /\ Frame.at = "got" /\ ret.ok /\ ~NoColumn
          /\ Continue("consume", m)
      BY <1>11 DEF SortKeep, Running
    <2>2. rows \o (<<x>> \o first) = all
      BY <1>10, <2>1 DEF Owed
    <2>3. /\ IsSeq(u) /\ u \o first = Glue(rows, <<x>> \o first) /\ u # <<>>
          /\ Head(u) = IF rows = <<>> THEN x ELSE Head(rows)
      <3>1. IsSeq(rows) /\ IsSeq(first) /\ u = Append(rows, x)
        BY <1>3, <1>4
      <3> QED
        BY ONLY <3>1, RowKept
    <2>5. u \o first = all
      BY <2>2, <2>3 DEF Glue
    <2>4. m.rows = u /\ MembersOK(Self, m) /\ m.rows \o first = all
      <3>1. MayRaise(u, column) => MayRaise(all, column)
        BY <1>3, <2>3, <2>5, RaiseInFront
      <3>2. MayRaise(u, column) => Risky(Self)
        BY <1>2, <3>1 DEF Risky
      <3> QED
        BY <1>4, <2>3, <2>5, <3>2
    <2>6. ColumnThere(m, column)
      <3>1. rows = <<>> => column \in DOMAIN x
        BY <2>1 DEF NoColumn
      <3>2. rows # <<>> => column \in DOMAIN Head(rows)
        BY <1>10, <2>1 DEF ColumnThere
      <3> QED
        BY <2>3, <2>4, <3>1, <3>2 DEF ColumnThere
    <2> PICK f : f = At("consume", Frame.out)
      OBVIOUS
    <2>7. f.call = "open" /\ f.at = "consume" /\ f.op = Self
      BY <2>1 DEF At
    <2>8. SortData(left, Self, m, f, TRUE, ret)
      BY <1>2, <2>4, <2>6, <2>7 DEF SortData
    <2>9. CallData(left, Self, m, f, TRUE, ret)
      BY <1>7, <2>7, <2>8
    <2>10. /\ stack' = Moved(stack, f)
           /\ Become(m) /\ UNCHANGED <<opened, ret, Consumer>>
      BY <2>1 DEF Continue, Moved
    <2>11. Data(left)'
      BY <1>1, <1>2, <1>3, <2>4, <2>7, <2>9, <2>10, DataMove
    <2> QED
      BY <2>11
  <1>12. CASE SortCloseInput
    <2> PICK at : at = IF ret.ok THEN "throw" ELSE "sort"
      OBVIOUS
    <2>1. /\ Frame.call = "open" /\ Frame.at = "got" /\ (ret.ok => NoColumn)
          /\ CallThen(1, "close", at, <<>>, My)
      BY <1>12 DEF SortCloseInput, Running, Call
    <2>2. MayCall(1, "close", at)
      BY <1>1, <1>2, <2>1 DEF Methods, MayCall, Places, CalledInput, CalledMethod, InputOpen
    <2>3. SortData(left, Self, My, At(at, <<>>), FALSE, ret)
      <3>1. CASE ret.ok
        <4>1. rows = <<>> /\ column \notin DOMAIN ret.values
          BY <2>1, <3>1 DEF NoColumn
        <4>2. all = <<ret.values>> \o first
          <5>1. <<>> \o (<<ret.values>> \o first) = <<ret.values>> \o first
            BY <1>3, ConsIs, SeqIs
          <5> QED
            BY <1>10, <2>1, <3>1, <4>1, <5>1 DEF Owed
        <4>3. all # <<>> /\ Head(all) = ret.values
          BY <1>3, <4>2, ConsIs
        <4>4. BadSort(Self)
          BY <1>1, <1>2, <4>1, <4>3 DEF BadSort, Unsortable
        <4> QED
          BY <2>1, <3>1, <4>4 DEF At, SortData
      <3>2. CASE ~ret.ok
        <4>1. first = <<>> /\ rows \o <<>> = all
          BY <1>10, <2>1, <3>2 DEF Owed, Asked
        <4>2. rows = all
          BY <1>4, <4>1, SeqIs
        <4>3. ~Fails(i)
          BY <1>1, <1>3, <2>1 DEF InputOpen
        <4>4. ColumnThere(My, column)
          BY <1>10, <2>1
        <4> QED
          BY <1>2, <2>1, <3>2, <4>2, <4>3, <4>4 DEF At, SortData
      <3> QED
        BY <3>1, <3>2
    <2>4. CallData(left, Self, My, At(at, <<>>), FALSE, ret)
      BY <1>7, <2>1, <2>3 DEF At
    <2>5. Data(left)'
      BY <1>1, <1>2, <1>3, <2>1, <2>2, <2>4, DataCall
    <2> QED
      BY <2>5
  <1>13. CASE SortThrow
    BY <1>13, DataAbort DEF SortThrow
  <1>14. CASE SortOpened
    <2> PICK m, v : m = [rows |-> v] /\ v = InOrder(rows, column, Op.asc)
      OBVIOUS
    <2>1. Leave(Nothing, m) /\ Frame.call = "open" /\ Frame.at = "sort"
      BY <1>14 DEF SortOpened, Running, Return
    <2>2. ColumnThere(My, column) /\ rows = all /\ ~Fails(i)
      BY <1>2, <1>5, <2>1 DEF SortData
    <2>3. ~Unsortable(all, column)
      BY <2>2 DEF ColumnThere, Unsortable
    <2>4. Rows[Self] = v
      BY <1>1, <1>2, <1>3, <2>2, <2>3 DEF RowsOf
    <2>5. m.rows = v /\ MembersOK(Self, m) /\ AtRest(left, Self, m) = v
      <3>1. MayRaise(v, column) => Risky(Self)
        BY <1>2, <2>4 DEF Risky
      <3> QED
        BY <1>3, <1>4, <2>4, <3>1
    <2>6. ~Fails(Self)
      <3>1. ~BadSort(Self)
        BY <1>1, <1>2, <2>3 DEF BadSort
      <3>2. \A n \in DOMAIN plan[Self].in : ~Fails(plan[Self].in[n])
        BY <1>2, <2>2
      <3> QED
        BY <1>2, <1>3, <3>1, <3>2, FailsByInput
    <2> QED
      BY <1>1, <1>2, <1>3, <2>1, <2>4, <2>5, <2>6, DataLeave
  <1>15. CASE SortNext
    <2>1. /\ Frame.call = "next" /\ Frame.at = "start"
          /\ IF rows = <<>> THEN Leave(Nothing, My)
             ELSE Leave(Got(Head(rows)), [rows |-> Tail(rows)])
      BY <1>15 DEF SortNext, Running, Return
    <2>2. CASE rows = <<>>
      <3> PICK r, v : r = Nothing /\ v = <<>>
        OBVIOUS
      <3>1. Leave(r, My) /\ AtRest(left, Self, My) = v /\ IsSeq(v)
        BY <1>4, <2>1, <2>2
      <3>2. left[Self] = Owed(v, TRUE, r) /\ Asked(v, TRUE, r)
        BY <1>6, <2>1, <2>2 DEF Owed, Asked, Nothing
      <3> QED
        BY <1>1, <1>2, <1>3, <2>1, <3>1, <3>2, DataLeave
    <2>3. CASE rows # <<>>
      <3> PICK x, r, v, m : /\ x = Head(rows) /\ r = Got(x) /\ v = Tail(rows)
                            /\ m = [rows |-> v]
        OBVIOUS
      <3>1. rows = <<x>> \o v /\ IsSeq(v)
        BY <1>4, <2>3, HeadAndTail
      <3>2. m.rows = v /\ MembersOK(Self, m) /\ AtRest(left, Self, m) = v
        <4>1. m.rows = v
          OBVIOUS
        <4>2. MayRaise(v, column) => MayRaise(rows, column)
          BY <3>1, RaiseBehind
        <4> QED
          BY ONLY <1>4, <3>1, <4>1, <4>2
      <3>3. left[Self] = Owed(v, TRUE, r) /\ Asked(v, TRUE, r)
        BY <1>6, <2>1, <3>1 DEF Owed, Asked, Got
      <3>4. Leave(r, m)
        BY <2>1, <2>3
      <3> QED
        BY <1>1, <1>2, <1>3, <2>1, <3>1, <3>2, <3>3, <3>4, DataLeave
    <2> QED
      BY <2>2, <2>3
  <1>16. CASE SortClose
    <2> PICK m : m = [rows |-> <<>>]
      OBVIOUS
    <2>1. Leave(Nothing, m) /\ Frame.call = "close"
      BY <1>16 DEF SortClose, Running, Return
    <2>2. MembersOK(Self, m)
      BY <1>4, NoneAndOne
    <2> QED
      BY <1>1, <2>1, <2>2, DataClosed
  <1>17. CASE SortRaises
    BY <1>17, DataAbort DEF SortRaises
  <1> QED
    BY <1>8, <1>9, <1>11, <1>12, <1>13, <1>14, <1>15, <1>16, <1>17

-----------------------------------------------------------------------------
(* The consumer *)

\* The consumer's steps in words: its call, or what it makes of an answer.
LEMMA RootFacts ==
    ASSUME IInv, NEW left, Data(left)
    PROVE  LET root == Len(plan) IN
           /\ root \in DOMAIN plan /\ IsPlan(plan) /\ IsSeq(left[root]) /\ IsSeq(Rows[root])
           /\ IsSeq(out)
           /\ stack = <<>> /\ phase \in {"opening", "open", "asking", "ended", "again", "drained"} =>
                ~Fails(root)
           /\ stack # <<>> /\ phase \in {"asking", "again", "closing"} => ~Fails(root)
           /\ stack = <<>> /\ phase \in {"open", "ended"} =>
                left[root] = AtRest(left, root, state[root])
           /\ goal.rows = Rows[root] /\ (goal.fails <=> Fails(root))
  <1> PICK root : root = Len(plan)
    OBVIOUS
  <1>1. IsPlan(plan) /\ root \in DOMAIN plan
    BY EmptySeq, LenProperties DEF IInv, ProtocolNow, IsPlan
  <1>2. IsSeq(left[root]) /\ IsSeq(Rows[root]) /\ IsSeq(out)
    BY <1>1, RowsAreSeqs DEF IInv, GivenNow, Data, LeftOK, ConsumerData
  <1>3. opened[root] => ~Fails(root)
    BY <1>1 DEF Data, OperatorData
  <1>4. stack = <<>> /\ phase \in {"opening", "open", "asking", "ended", "again", "drained"} =>
            opened[root]
    BY DEF IInv, ProtocolNow, ProtocolInv, RootOK, Consuming
  <1>5. stack # <<>> /\ phase \in {"asking", "again", "closing"} => opened[root]
    <2>1. SUFFICES ASSUME stack # <<>>, phase \in {"asking", "again", "closing"}
                   PROVE  opened[root]
      OBVIOUS
    <2>2. stack[1].op = root /\ stack[1].call = CallOf(phase) /\ 1 \in DOMAIN stack
      <3>1. Len(stack) \in Nat \ {0} /\ DOMAIN stack = 1 .. Len(stack)
        BY <2>1, StackFacts DEF IInv
      <3> QED
        BY <2>1, <3>1 DEF IInv, ProtocolNow, ProtocolInv, RootOK
    <2>3. stack[1].call # "open" /\ PlaceOK(1)
      BY <2>1, <2>2 DEF CallOf, IInv, ProtocolNow, ProtocolInv
    <2> QED
      BY <2>2, <2>3 DEF PlaceOK
  <1>6. ASSUME stack = <<>>, phase \in {"open", "ended"}
        PROVE  left[root] = AtRest(left, root, state[root])
    <2>1. ~Active(root) /\ Consuming
      BY <1>6 DEF Active, Consuming
    <2> QED
      BY <1>1, <1>4, <1>6, <2>1 DEF Data, OperatorData
  <1>7. goal.rows = Rows[root] /\ (goal.fails <=> Fails(root))
    <2>1. goal = Goal
      BY DEF Data, ConsumerData
    <2>2. (\E k \in OfKind("sort") : BadSort(k)) <=> Fails(root)
      BY <1>1, FailsAtRoot DEF OfKind, BadSort
    <2> QED
      BY <2>1, <2>2 DEF Goal
  <1> QED
    BY <1>1, <1>2, <1>3, <1>4, <1>5, <1>6, <1>7

\* A call of the consumer, or what it does between two.
LEMMA DataEnter ==
    ASSUME IInv, NEW left, Data(left), NEW call, NEW from, NEW to, Enter(call, from, to),
           Consuming, to \notin {"failed", "raised", "halted"},
           call = "next" => phase \in {"open", "ended"}, ConsumerData(left)'
    PROVE  Data(left)'
  <1> PICK root, e : root = Len(plan) /\ e = Entered(root, call)
    OBVIOUS
  <1>1. /\ UNCHANGED <<given, plan, table, state, opened, ret>> /\ stack = <<>> /\ stack' = <<e>>
    BY DEF Enter, given
  <1>2. DOMAIN stack' = {1} /\ Len(stack') = 1 /\ stack'[1] = e
    BY <1>1
  <1>3. e.op = root
    BY DEF Entered
  <1>4. \A k : ~Active(k)
    BY <1>1 DEF Active
  <1>5. call = "next" => left[root] = AtRest(left, root, state[root])
    BY <1>1, RootFacts
  <1>6. CallData(left, root, state[root], e, TRUE, ret)
    BY <1>5, EntryData
  <1>7. \A j \in DOMAIN stack' :
            CallData(left, stack[j].op, state[stack[j].op], stack[j], j = Len(stack), ret)'
    <2>1. ASSUME NEW j \in {1}
          PROVE  CallData(left, stack'[j].op, state'[stack'[j].op], stack'[j], j = 1, ret)
      <3>1. (j = 1) = TRUE
        OBVIOUS
      <3> QED
        BY <1>1, <1>2, <1>3, <1>6, <3>1
    <2> QED
      BY <1>1, <1>2, <2>1, SameCallData
  <1>8. \A k \in DOMAIN plan : MembersOK(k, state[k])' /\ (opened[k] => ~Fails(k)')
    BY <1>1, SameRest, SameRows DEF Data, OperatorData
  <1>9. \A k \in DOMAIN plan : opened[k] => left[k] = AtRest(left, k, state[k])'
    BY <1>1, <1>4, SameRest DEF Data, OperatorData
  <1>10. OperatorData(left)'
    BY <1>1, <1>7, <1>8, <1>9 DEF OperatorData
  <1> QED
    BY <1>1, <1>10 DEF Data, LeftOK

LEMMA DataProceed ==
    ASSUME IInv, NEW left, Data(left), NEW from, NEW to, Proceed(from, to), Consuming,
           ConsumerData(left)'
    PROVE  Data(left)'
  <1>1. UNCHANGED <<given, plan, table, state, opened, stack, ret>> /\ stack' = <<>>
    BY DEF Proceed, given
  <1>2. \A k : Active(k)' <=> Active(k)
    BY <1>1 DEF Active
  <1>3. DOMAIN stack' = {}
    BY <1>1
  <1>4. \A k \in DOMAIN plan : MembersOK(k, state[k])' /\ (opened[k] => ~Fails(k)')
    BY <1>1, SameRest, SameRows DEF Data, OperatorData
  <1>5. \A k \in DOMAIN plan : opened[k] /\ ~Active(k)' => left[k] = AtRest(left, k, state[k])'
    BY <1>1, <1>2, SameRest DEF Data, OperatorData
  <1>6. OperatorData(left)'
    BY <1>1, <1>3, <1>4, <1>5 DEF OperatorData
  <1> QED
    BY <1>1, <1>6 DEF Data, LeftOK

\* What the consumer has stays right.
LEMMA DataConsumer ==
    ASSUME IInv, NEW left, Data(left), Open \/ Loop \/ AskAgain \/ Close
    PROVE  Data(left)'
  <1> PICK root, rows, rest : root = Len(plan) /\ rows = Rows[root] /\ rest = left[root]
    OBVIOUS
  <1>1. UNCHANGED <<plan, table, goal, ret>> /\ stack = <<>>
    BY DEF Open, Loop, Opened, AskNext, Answered, Ended, AskAgain, EndedAgain, Close, Closed,
        Enter, Proceed, given
  <1>2. Rows' = Rows /\ Len(plan') = root /\ Goal' = Goal
    BY <1>1, SameRows
  <1>3. /\ IsSeq(rest) /\ IsSeq(rows) /\ IsSeq(out)
    BY RootFacts
  <1>4. goal = Goal
    BY DEF Data, ConsumerData
  <1>5. goal' = Goal'
    BY <1>1, <1>2, <1>4
  <1>6. ConsumerData(left)
    BY DEF Data
  <1>7. CASE Open
    <2>1. Enter("open", {"closed"}, "opening") /\ out' = <<>> /\ phase' = "opening" /\ Consuming
          /\ stack' # <<>>
      BY <1>7 DEF Open, Enter, Consuming
    <2>2. ConsumerData(left)'
      BY <1>5, <2>1, NoneAndOne DEF ConsumerData
    <2> QED
      BY <2>1, <2>2, DataEnter
  <1>8. CASE AskNext
    <2>1. Enter("next", {"open"}, "asking") /\ out' = out /\ phase' = "asking" /\ phase = "open"
          /\ Consuming /\ (stack' = <<>>) = FALSE
      BY <1>8 DEF AskNext, Enter, Consuming
    <2>2. out \o rest = rows
      BY <1>6, <2>1 DEF ConsumerData
    <2>3. ConsumerData(left)'
      BY <1>1, <1>2, <1>3, <1>5, <2>1, <2>2 DEF ConsumerData, Owed, Asked
    <2> QED
      BY <2>1, <2>3, DataEnter
  <1>9. CASE AskAgain
    <2>1. Enter("next", {"ended"}, "again") /\ out' = out /\ phase' = "again" /\ phase = "ended"
          /\ Consuming /\ (stack' = <<>>) = FALSE
      BY <1>9 DEF AskAgain, Enter, Consuming
    <2>2. out = rows /\ rest = <<>>
      BY <1>6, <2>1 DEF ConsumerData
    <2>3. ConsumerData(left)'
      BY <1>1, <1>2, <1>3, <1>5, <2>1, <2>2 DEF ConsumerData, Owed, Asked
    <2> QED
      BY <2>1, <2>3, DataEnter
  <1>10. CASE Close
    <2>1. Enter("close", {"open", "ended", "drained"}, "closing") /\ out' = out
          /\ phase' = "closing" /\ Consuming
      BY <1>10 DEF Close, Enter, Consuming
    <2>2. ConsumerData(left)'
      BY <1>3, <1>5, <2>1 DEF ConsumerData
    <2> QED
      BY <2>1, <2>2, DataEnter
  <1>11. CASE Opened
    <2>1. Proceed({"opening"}, "open") /\ out' = out /\ phase' = "open" /\ phase = "opening"
          /\ Consuming
      BY <1>11 DEF Opened, Proceed, Consuming
    <2>2. out = <<>> /\ rest = rows
      BY <1>1, <1>6, <2>1 DEF ConsumerData
    <2>3. out \o rest = rows
      BY <1>3, <2>2, SeqIs
    <2>4. ConsumerData(left)'
      BY <1>1, <1>2, <1>3, <1>5, <2>1, <2>3 DEF ConsumerData
    <2> QED
      BY <2>1, <2>4, DataProceed
  <1>12. CASE Answered
    <2> PICK x, u : x = ret.values /\ u = Append(out, x)
      OBVIOUS
    <2>1. Proceed({"asking", "again"}, "open") /\ out' = u /\ phase' = "open" /\ ret.ok
          /\ phase \in {"asking", "again"} /\ Consuming
      BY <1>12 DEF Answered, Proceed, Consuming
    <2>2. (stack = <<>>) = TRUE
      BY <1>1
    <2>3. phase # "again"
      <3>1. phase = "again" => <<x>> \o rest = <<>>
        BY <1>6, <2>1, <2>2 DEF ConsumerData, Owed
      <3> QED
        BY <1>3, <3>1, ConsIs
    <2>4. out \o (<<x>> \o rest) = rows
      BY <1>6, <2>1, <2>2, <2>3 DEF ConsumerData, Owed
    <2>5. IsSeq(u) /\ u \o rest = Glue(out, <<x>> \o rest)
      <3>1. u = Append(out, x)
        OBVIOUS
      <3>2. /\ IsSeq(u) /\ u \o rest = Glue(out, <<x>> \o rest) /\ u # <<>>
            /\ Head(u) = IF out = <<>> THEN x ELSE Head(out)
        BY ONLY <1>3, <3>1, RowKept
      <3> QED
        BY <3>2
    <2>6. u \o rest = rows
      BY <2>4, <2>5 DEF Glue
    <2>7. ConsumerData(left)'
      BY <1>1, <1>2, <1>5, <2>1, <2>5, <2>6 DEF ConsumerData
    <2> QED
      BY <2>1, <2>7, DataProceed
  <1>13. CASE Ended
    <2>1. Proceed({"asking"}, "ended") /\ out' = out /\ phase' = "ended" /\ ~ret.ok
          /\ phase = "asking" /\ Consuming
      BY <1>13 DEF Ended, Proceed, Consuming
    <2>2. (stack = <<>>) = TRUE
      BY <1>1
    <2>3. rest = <<>> /\ out \o rest = rows
      BY <1>6, <2>1, <2>2 DEF ConsumerData, Owed, Asked
    <2>4. out = rows
      BY <1>3, <2>3, SeqIs
    <2>5. ConsumerData(left)'
      BY <1>1, <1>2, <1>3, <1>5, <2>1, <2>3, <2>4 DEF ConsumerData
    <2> QED
      BY <2>1, <2>5, DataProceed
  <1>14. CASE EndedAgain
    <2>1. Proceed({"again"}, "drained") /\ out' = out /\ phase' = "drained" /\ ~ret.ok
          /\ phase = "again" /\ Consuming
      BY <1>14 DEF EndedAgain, Proceed, Consuming
    <2>2. (stack = <<>>) = TRUE
      BY <1>1
    <2>3. rest = <<>> /\ out = rows
      BY <1>6, <2>1, <2>2 DEF ConsumerData, Owed
    <2>4. ConsumerData(left)'
      BY <1>1, <1>2, <1>3, <1>5, <2>1, <2>3 DEF ConsumerData
    <2> QED
      BY <2>1, <2>4, DataProceed
  <1>15. CASE Closed
    <2>1. Proceed({"closing"}, "closed") /\ out' = out /\ phase' = "closed" /\ Consuming
      BY <1>15 DEF Closed, Proceed, Consuming
    <2>2. ConsumerData(left)'
      BY <1>3, <1>5, <2>1 DEF ConsumerData
    <2> QED
      BY <2>1, <2>2, DataProceed
  <1> QED
    BY <1>7, <1>8, <1>9, <1>10, <1>11, <1>12, <1>13, <1>14, <1>15 DEF Loop

-----------------------------------------------------------------------------
(* Asked at the end *)

\* No operator of A has a tuple left or asks one outside A for it.
Dry(q, st, A) ==
    \A k \in A : /\ q[k].kind = "sort" => st[k].rows = <<>>
                 /\ q[k].kind = "join" => ~st[k].leftValid
                 /\ q[k].kind \in {"select", "project"} => q[k].in[1] \in A
Spent(q, st, k) == \E A \in SUBSET DOMAIN q : Dry(q, st, A) /\ k \in A

\* An operator that has said it has no more compares no rows when it is asked again.
EndedNow ==
    /\ stack = <<>> /\ phase = "asking" /\ ~ret.ok => Spent(plan, state, Len(plan))
    /\ stack # <<>> /\ Frame.at = "asked" /\ ~ret.ok => Spent(plan, state, Op.in[1])
    /\ phase \in {"ended", "again"} => Spent(plan, state, Len(plan))
    /\ phase = "again" =>
          \A j \in DOMAIN stack : /\ Spent(plan, state, stack[j].op)
                                  /\ stack[j].call = "next" /\ stack[j].at \in {"start", "asked"}

LEMMA SpentBelow ==
    ASSUME NEW q, NEW st, NEW k, Spent(q, st, k)
    PROVE  /\ q[k].kind = "sort" => st[k].rows = <<>>
           /\ q[k].kind = "join" => ~st[k].leftValid
           /\ q[k].kind \in {"select", "project"} => Spent(q, st, q[k].in[1])
  BY DEF Spent, Dry

LEMMA SpentHere ==
    ASSUME NEW q, NEW st, NEW k \in DOMAIN q,
           \/ q[k].kind \in {"scan", "index"}
           \/ q[k].kind = "sort" /\ st[k].rows = <<>>
           \/ q[k].kind = "join" /\ ~st[k].leftValid
           \/ q[k].kind \in {"select", "project"} /\ Spent(q, st, q[k].in[1])
    PROVE  Spent(q, st, k)
  <1>1. CASE q[k].kind \in {"select", "project"}
    <2>1. PICK A \in SUBSET DOMAIN q : Dry(q, st, A) /\ q[k].in[1] \in A
      BY <1>1 DEF Spent
    <2>2. Dry(q, st, A \cup {k}) /\ A \cup {k} \in SUBSET DOMAIN q
      BY <1>1, <2>1 DEF Dry
    <2> QED
      BY <2>2 DEF Spent
  <1>2. CASE q[k].kind \notin {"select", "project"}
    <2>1. Dry(q, st, {k}) /\ {k} \in SUBSET DOMAIN q
      BY <1>2 DEF Dry
    <2> QED
      BY <2>1 DEF Spent
  <1> QED
    BY <1>1, <1>2

LEMMA SpentKept ==
    ASSUME NEW q, NEW st, DOMAIN st = DOMAIN q, NEW s, NEW m,
           q[s].kind \in {"sort", "join"} => m = st[s],
           NEW k, Spent(q, st, k)
    PROVE  Spent(q, [st EXCEPT ![s] = m], k)
  <1>1. PICK A \in SUBSET DOMAIN q : Dry(q, st, A) /\ k \in A
    BY DEF Spent
  <1>2. Dry(q, [st EXCEPT ![s] = m], A)
    BY <1>1 DEF Dry
  <1> QED
    BY <1>1, <1>2 DEF Spent

\* While it is asked once more, every call is for a tuple, at its start or on the way back.
LEMMA AgainFacts ==
    ASSUME IInv, EndedNow, stack # <<>>, phase = "again"
    PROVE  /\ Frame.call = "next" /\ Frame.at \in {"start", "asked"} /\ Spent(plan, state, Self)
           /\ Op.kind = "sort" => My.rows = <<>>
           /\ Op.kind = "join" => ~My.leftValid
           /\ Op.kind \in {"select", "project"} => Spent(plan, state, Op.in[1])
  <1>1. stack[Len(stack)] = Frame /\ Len(stack) \in DOMAIN stack
    BY StackFacts DEF IInv
  <1>2. Frame.call = "next" /\ Frame.at \in {"start", "asked"} /\ Spent(plan, state, Self)
    BY <1>1 DEF EndedNow, Self
  <1> QED
    BY <1>2, SpentBelow DEF Op, My

LEMMA EndedLeave ==
    ASSUME IInv, EndedNow, stack # <<>>, NEW r, NEW m, Leave(r, m),
           Frame.call = "next" /\ ~r.ok => Spent(plan, state', Self),
           phase = "again" /\ Op.kind \in {"sort", "join"} => m = My
    PROVE  EndedNow'
  <1> PICK L : L = Len(stack)
    OBVIOUS
  <1>1. /\ UNCHANGED <<plan, phase>> /\ stack' = Front(stack) /\ ret' = r
        /\ state' = [state EXCEPT ![Self] = m] /\ DOMAIN state = DOMAIN plan
    BY DEF Leave, Become, Consumer, given, IInv, ScansNow
  <1>2. /\ L \in Nat \ {0} /\ DOMAIN stack = 1 .. L /\ stack[L] = Frame
    BY StackFacts DEF IInv
  <1>3. /\ DOMAIN stack' = 1 .. L - 1 /\ (stack' = <<>> <=> L = 1)
        /\ \A j \in 1 .. L - 1 : stack'[j] = stack[j]
        /\ Len(stack') = L - 1
    <2>1. stack \in Seq(Range(stack))
      BY DEF IInv, ProtocolNow, StackTyped
    <2>2. PICK s, t : s = stack /\ t = stack'
      OBVIOUS
    <2>3. /\ t \in Seq(Range(t)) /\ Len(t) = L - 1 /\ \A j \in 1 .. L - 1 : t[j] = s[j]
          /\ t = <<>> <=> L = 1
      BY ONLY <1>1, <2>1, <2>2, PopFacts, stack # <<>>, L = Len(stack)
    <2>4. DOMAIN t = 1 .. Len(t)
      BY <2>3, LenProperties
    <2> QED
      BY <2>2, <2>3, <2>4
  <1>4. ASSUME phase = "again", NEW k, Spent(plan, state, k) PROVE Spent(plan, state', k)
    <2>1. plan[Self].kind \in {"sort", "join"} => m = state[Self]
      BY <1>4 DEF Op, My
    <2> QED
      BY <1>1, <1>4, <2>1, SpentKept
  <1>5. ASSUME phase = "ended" PROVE FALSE
    BY <1>5 DEF IInv, ProtocolNow, ProtocolInv, RootOK
  <1>6. ASSUME stack' = <<>>, phase = "asking", ~r.ok PROVE Spent(plan, state', Len(plan))
    <2>1. Self = Len(plan) /\ Frame.call = "next"
      BY <1>2, <1>3, <1>6, Caller DEF IInv, CallOf
    <2> QED
      BY <1>6, <2>1
  <1>7. ASSUME stack' # <<>>, Frame'.at = "asked", ~r.ok PROVE Spent(plan, state', Op'.in[1])
    <2>1. L # 1 /\ L - 1 \in 1 .. L - 1 /\ Frame' = stack[L - 1]
      BY <1>2, <1>3, <1>7 DEF Frame, Last
    <2>2. stack[L - 1].at = "asked"
      BY <1>7, <2>1
    <2>3. plan[stack[L - 1].op].in[1] = Self /\ Frame.call = "next"
      BY <2>1, <2>2, Caller DEF IInv, CalledInput, CalledMethod
    <2>4. Op'.in[1] = Self
      BY <1>1, <2>1, <2>3 DEF Op, Self
    <2> QED
      BY <1>7, <2>3, <2>4
  <1>8. ASSUME phase = "again", NEW j \in DOMAIN stack'
        PROVE  /\ Spent(plan, state', stack'[j].op)
               /\ stack'[j].call = "next" /\ stack'[j].at \in {"start", "asked"}
    BY <1>2, <1>3, <1>4, <1>8 DEF EndedNow
  <1>9. phase = "again" => Spent(plan, state', Len(plan))
    BY <1>4 DEF EndedNow
  <1> QED
    BY <1>1, <1>5, <1>6, <1>7, <1>8, <1>9 DEF EndedNow

LEMMA EndedCall ==
    ASSUME IInv, EndedNow, stack # <<>>, NEW n, NEW call, NEW at, NEW built, NEW m,
           CallThen(n, call, at, built, m),
           phase = "again" => /\ n = 1 /\ call = "next" /\ at = "asked"
                              /\ Op.kind \in {"select", "project"}
    PROVE  EndedNow'
  <1> PICK L, f, e : L = Len(stack) /\ f = At(at, built) /\ e = Entered(Op.in[n], call)
    OBVIOUS
  <1>1. /\ UNCHANGED <<plan, phase, ret>>
        /\ state' = [state EXCEPT ![Self] = m] /\ DOMAIN state = DOMAIN plan
    BY DEF CallThen, Become, Consumer, given, IInv, ScansNow
  <1>2. /\ L \in Nat \ {0} /\ DOMAIN stack = 1 .. L
    BY StackFacts DEF IInv
  <1>3. /\ DOMAIN stack' = 1 .. L + 1 /\ stack' # <<>> /\ Len(stack') = L + 1
        /\ \A j \in 1 .. L - 1 : stack'[j] = stack[j]
        /\ stack'[L] = f /\ stack'[L + 1] = e
    <2>1. stack \in Seq(Range(stack)) /\ stack' = Pushed(stack, f, e)
      BY DEF IInv, ProtocolNow, StackTyped, CallThen, Pushed, Moved
    <2>2. PICK s, t : s = stack /\ t = stack'
      OBVIOUS
    <2>3. /\ t \in Seq(Range(t)) /\ Len(t) = L + 1 /\ \A j \in 1 .. L - 1 : t[j] = s[j]
          /\ t # <<>> /\ t[L] = f /\ t[L + 1] = e
      BY ONLY <2>1, <2>2, PushFacts, stack # <<>>, L = Len(stack)
    <2>4. DOMAIN t = 1 .. Len(t)
      BY <2>3, LenProperties
    <2> QED
      BY <2>2, <2>3, <2>4
  <1>4. Frame' = e
    BY <1>3 DEF Frame, Last
  <1>5. Frame'.at # "asked"
    BY <1>4 DEF Entered
  <1>6. phase # "ended"
    BY DEF IInv, ProtocolNow, ProtocolInv, RootOK
  <1>7. ASSUME phase = "again", NEW k, Spent(plan, state, k) PROVE Spent(plan, state', k)
    <2>1. plan[Self].kind \notin {"sort", "join"}
      BY <1>7 DEF Op
    <2> QED
      BY <1>1, <1>7, <2>1, SpentKept
  <1>8. ASSUME phase = "again", NEW j \in DOMAIN stack'
        PROVE  /\ Spent(plan, state', stack'[j].op)
               /\ stack'[j].call = "next" /\ stack'[j].at \in {"start", "asked"}
    <2>1. CASE j \in 1 .. L - 1
      BY <1>2, <1>3, <1>7, <1>8, <2>1 DEF EndedNow
    <2>2. CASE j = L
      BY <1>3, <1>7, <1>8, <2>2, AgainFacts DEF At
    <2>3. CASE j = L + 1
      BY <1>3, <1>7, <1>8, <2>3, AgainFacts DEF Entered
    <2> QED
      BY <1>2, <1>3, <2>1, <2>2, <2>3
  <1>9. phase = "again" => Spent(plan, state', Len(plan))
    BY <1>7 DEF EndedNow
  <1> QED
    BY <1>1, <1>3, <1>5, <1>6, <1>8, <1>9 DEF EndedNow

LEMMA EndedGoes ==
    ASSUME IInv, EndedNow, stack # <<>>, NEW at, NEW m,
           Continue(at, m) \/ (/\ UNCHANGED <<stack, ret, Consumer>> /\ Become(m)
                               /\ at = Frame.at),
           at # "asked", phase = "again" => at = "start" /\ Op.kind \notin {"sort", "join"}
    PROVE  EndedNow'
  <1> PICK L : L = Len(stack)
    OBVIOUS
  <1>1. /\ UNCHANGED <<plan, phase, ret>>
        /\ state' = [state EXCEPT ![Self] = m] /\ DOMAIN state = DOMAIN plan
    BY DEF Continue, Become, Consumer, given, IInv, ScansNow
  <1>2. /\ L \in Nat \ {0} /\ DOMAIN stack = 1 .. L /\ stack[L] = Frame
    BY StackFacts DEF IInv
  <1>3. /\ DOMAIN stack' = 1 .. L /\ stack' # <<>> /\ Len(stack') = L
        /\ \A j \in 1 .. L - 1 : stack'[j] = stack[j]
        /\ stack'[L].op = Self /\ stack'[L].call = Frame.call /\ stack'[L].at = at
    <2>1. CASE Continue(at, m)
      <3>1. stack \in Seq(Range(stack)) /\ stack' = Moved(stack, At(at, Frame.out))
        BY <2>1 DEF IInv, ProtocolNow, StackTyped, Continue, Moved
      <3>2. PICK s, t, f : s = stack /\ t = stack' /\ f = At(at, Frame.out)
        OBVIOUS
      <3>3. /\ t \in Seq(Range(t)) /\ Len(t) = L /\ \A j \in 1 .. L - 1 : t[j] = s[j]
            /\ t # <<>> /\ t[L] = f
        BY ONLY <3>1, <3>2, MoveFacts, stack # <<>>, L = Len(stack)
      <3>4. DOMAIN t = 1 .. Len(t)
        BY <3>3, LenProperties
      <3> QED
        BY <3>2, <3>3, <3>4 DEF At
    <2>2. CASE stack' = stack /\ at = Frame.at
      BY <1>2, <2>2 DEF Self
    <2> QED
      BY <2>1, <2>2
  <1>4. Frame'.at # "asked"
    BY <1>3 DEF Frame, Last
  <1>5. phase # "ended"
    BY DEF IInv, ProtocolNow, ProtocolInv, RootOK
  <1>6. ASSUME phase = "again", NEW k, Spent(plan, state, k) PROVE Spent(plan, state', k)
    <2>1. plan[Self].kind \notin {"sort", "join"}
      BY <1>6 DEF Op
    <2> QED
      BY <1>1, <1>6, <2>1, SpentKept
  <1>7. ASSUME phase = "again", NEW j \in DOMAIN stack'
        PROVE  /\ Spent(plan, state', stack'[j].op)
               /\ stack'[j].call = "next" /\ stack'[j].at \in {"start", "asked"}
    <2>1. CASE j \in 1 .. L - 1
      BY <1>2, <1>3, <1>6, <1>7, <2>1 DEF EndedNow
    <2>2. CASE j = L
      BY <1>3, <1>6, <1>7, <2>2, AgainFacts
    <2> QED
      BY <1>2, <1>3, <2>1, <2>2
  <1>8. phase = "again" => Spent(plan, state', Len(plan))
    BY <1>6 DEF EndedNow
  <1> QED
    BY <1>1, <1>3, <1>4, <1>5, <1>7, <1>8 DEF EndedNow

\* An operator with nothing more to hand out returns no tuple and changes no member that matters.
LEMMA EndedEmpty ==
    ASSUME IInv, EndedNow, stack # <<>>, NEW r, NEW m, Return(r, m),
           \/ r.ok
           \/ Frame.call # "next"
           \/ Op.kind \in {"scan", "index"}
           \/ Op.kind \in {"sort", "join", "select", "project"} /\ m = My /\ Spent(plan, state, Self),
           phase = "again" /\ Op.kind \in {"sort", "join"} => m = My
    PROVE  EndedNow'
  <1>1. Leave(r, m) /\ state' = [state EXCEPT ![Self] = m] /\ DOMAIN state = DOMAIN plan
    BY DEF Return, Leave, Become, IInv, ScansNow
  <1>2. Self \in DOMAIN plan
    BY FrameFacts DEF IInv
  <1>3. Frame.call = "next" /\ ~r.ok => Spent(plan, state', Self)
    <2>1. CASE Op.kind \in {"scan", "index"}
      BY <1>2, <2>1, SpentHere DEF Op
    <2>2. CASE m = My /\ Spent(plan, state, Self)
      BY <1>1, <2>2, SpentKept DEF My
    <2> QED
      BY <2>1, <2>2
  <1> QED
    BY <1>1, <1>3, EndedLeave

\* The steps of the operators without inputs, and the opens and closes that are handed on.
LEMMA EndedAccess ==
    ASSUME IInv, EndedNow,
           \/ ScanOpen \/ ScanClose \/ ScanFetch \/ ScanSlot \/ ScanPageDone \/ ScanEnd
           \/ IndexOpen \/ IndexNext \/ IndexClose
           \/ PassFirst \/ PassSecond \/ Passed
    PROVE  EndedNow'
  <1>1. CASE ScanClose
    <2>1. stack # <<>> /\ Frame.call = "close" /\ Leave(Nothing, My)
      BY <1>1 DEF ScanClose, Running
    <2> QED
      BY <2>1, EndedLeave
  <1>2. CASE ScanOpen \/ ScanEnd \/ IndexOpen \/ IndexNext \/ IndexClose
    <2>1. stack # <<>> /\ Op.kind \in {"scan", "index"} /\ \E r, m : Return(r, m)
      BY <1>2 DEF ScanOpen, ScanEnd, IndexOpen, IndexNext, IndexClose, Running
    <2> QED
      BY <2>1, EndedEmpty
  <1>3. CASE ScanFetch \/ ScanPageDone
    <2>1. /\ stack # <<>> /\ Op.kind = "scan" /\ Frame.at = "start"
          /\ UNCHANGED <<stack, ret, Consumer>> /\ \E m : Become(m)
      BY <1>3 DEF ScanFetch, ScanPageDone, ScanNext, Running
    <2> QED
      BY <2>1, EndedGoes
  <1>4. CASE ScanSlot
    <2>1. /\ stack # <<>> /\ Op.kind = "scan"
          /\ \E r, m : Continue("start", m) \/ Return(r, m)
      BY <1>4 DEF ScanSlot, ScanNext, Running
    <2> QED
      BY <2>1, EndedGoes, EndedEmpty
  <1>5. CASE PassFirst \/ PassSecond
    <2>1. /\ stack # <<>> /\ Frame.call # "next"
          /\ \E n, call, at, built, m : CallThen(n, call, at, built, m)
      BY <1>5 DEF PassFirst, PassSecond, PassesOn, Call
    <2>2. phase # "again"
      BY <2>1, AgainFacts
    <2> QED
      BY <2>1, <2>2, EndedCall
  <1>6. CASE Passed
    <2>1. stack # <<>> /\ Frame.call # "next" /\ Return(Nothing, My)
      BY <1>6 DEF Passed, PassesOn
    <2> QED
      BY <2>1, EndedEmpty
  <1> QED
    BY <1>1, <1>2, <1>3, <1>4, <1>5, <1>6

\* The others.
LEMMA EndedOthers ==
    ASSUME IInv, EndedNow,
           \/ Ask \/ SelectNext \/ ProjectNext
           \/ JoinOpen \/ JoinOpened \/ JoinEnd \/ JoinAsk \/ JoinGotRight \/ JoinMatch
           \/ JoinEmit \/ JoinRightDone \/ JoinReopen \/ JoinAdvance \/ JoinGotLeft
           \/ SortOpen \/ SortConsume \/ SortKeep \/ SortCloseInput \/ SortOpened
           \/ SortNext \/ SortClose
    PROVE  EndedNow'
  <1>1. stack # <<>>
    BY DEF Ask, SelectNext, ProjectNext, JoinOpen, JoinOpened, JoinEnd, JoinAsk, JoinGotRight,
        JoinMatch, JoinEmit, JoinRightDone, JoinReopen, JoinAdvance, JoinGotLeft, SortOpen,
        SortConsume, SortKeep, SortCloseInput, SortOpened, SortNext, SortClose, Running
  <1>2. Self \in DOMAIN plan
    BY <1>1, FrameFacts DEF IInv
  <1>3. CASE Ask \/ SelectNext \/ ProjectNext
    <2>1. /\ Op.kind \in {"select", "project"} /\ Frame.call = "next"
          /\ \/ CallThen(1, "next", "asked", <<>>, My)
             \/ \E r : Return(r, My) /\ (r.ok \/ (Frame.at = "asked" /\ ~ret.ok))
      BY <1>3 DEF Ask, SelectNext, ProjectNext, Running, Call, Got
    <2>2. Frame.at = "asked" /\ ~ret.ok => Spent(plan, state, Self)
      BY <1>1, <1>2, <2>1, SpentHere DEF EndedNow, Op
    <2> QED
      BY <1>1, <2>1, <2>2, EndedCall, EndedEmpty
  <1>4. CASE JoinEnd
    <2>1. Op.kind = "join" /\ Return(Nothing, My) /\ ~My.leftValid
      BY <1>4 DEF JoinEnd, Running
    <2>2. Spent(plan, state, Self)
      BY <1>2, <2>1, SpentHere DEF Op, My
    <2> QED
      BY <1>1, <2>1, <2>2, EndedEmpty
  <1>5. CASE \/ JoinOpen \/ JoinOpened \/ JoinAsk \/ JoinGotRight \/ JoinMatch
             \/ JoinEmit \/ JoinRightDone \/ JoinReopen \/ JoinAdvance \/ JoinGotLeft
    <2>1. /\ Frame.call = "open" \/ Frame.at \notin {"start", "asked"} \/ My.leftValid
          /\ Op.kind = "join"
      BY <1>5 DEF JoinOpen, JoinOpened, JoinAsk, JoinGotRight, JoinMatch, JoinEmit,
          JoinRightDone, JoinReopen, JoinAdvance, JoinGotLeft, Running
    <2>2. phase # "again"
      BY <1>1, <2>1, AgainFacts
    <2>3. CASE JoinOpened \/ JoinEmit
      <3>1. \E r, m : Return(r, m) /\ (r.ok \/ Frame.call # "next")
        BY <2>3 DEF JoinOpened, JoinEmit, Running, Got
      <3> QED
        BY <1>1, <2>2, <3>1, EndedEmpty
    <2>4. CASE \/ JoinOpen \/ JoinAsk \/ JoinGotRight \/ JoinMatch
               \/ JoinRightDone \/ JoinReopen \/ JoinAdvance \/ JoinGotLeft
      <3>1. \/ \E n, call, at, built, m : CallThen(n, call, at, built, m)
            \/ \E at, m : Continue(at, m) /\ at # "asked"
        BY <2>4 DEF JoinOpen, JoinAsk, JoinGotRight, JoinMatch, JoinRightDone, JoinReopen,
            JoinAdvance, JoinGotLeft, Call
      <3> QED
        BY <1>1, <2>2, <3>1, EndedCall, EndedGoes
    <2> QED
      BY <1>5, <2>3, <2>4
  <1>6. CASE SortNext
    <2>1. /\ Op.kind = "sort" /\ Frame.call = "next"
          /\ \/ My.rows = <<>> /\ Return(Nothing, My)
             \/ My.rows # <<>> /\ \E r, m : Return(r, m) /\ r.ok
      BY <1>6 DEF SortNext, Running, Got
    <2>2. My.rows = <<>> => Spent(plan, state, Self)
      BY <1>2, <2>1, SpentHere DEF Op, My
    <2>3. My.rows # <<>> => phase # "again"
      BY <1>1, <2>1, AgainFacts
    <2> QED
      BY <1>1, <2>1, <2>2, <2>3, EndedEmpty
  <1>7. CASE \/ SortOpen \/ SortConsume \/ SortKeep \/ SortCloseInput \/ SortOpened
             \/ SortClose
    <2>1. /\ Frame.call # "next"
          /\ \/ \E n, call, at, built, m : CallThen(n, call, at, built, m)
             \/ \E at, m : Continue(at, m) /\ at # "asked"
             \/ \E r, m : Return(r, m)
      BY <1>7 DEF SortOpen, SortConsume, SortKeep, SortCloseInput, SortOpened, SortClose,
          Running, Call
    <2>2. phase # "again"
      BY <1>1, <2>1, AgainFacts
    <2> QED
      BY <1>1, <2>1, <2>2, EndedCall, EndedGoes, EndedEmpty
  <1> QED
    BY <1>3, <1>4, <1>5, <1>6, <1>7

\* The steps of the consumer, the ends in the middle and no step at all.
LEMMA EndedConsumer ==
    ASSUME IInv, EndedNow, Open \/ Loop \/ AskAgain \/ Close
    PROVE  EndedNow'
  <1>1. /\ UNCHANGED <<plan, state, ret>> /\ stack = <<>>
    BY DEF Open, Loop, Opened, AskNext, Answered, Ended, AskAgain, EndedAgain, Close, Closed,
        Enter, Proceed, given
  <1>2. CASE Open \/ AskNext \/ AskAgain \/ Close
    <2>1. PICK e : /\ stack' = <<e>> /\ e.op = Len(plan) /\ e.at = "start"
                   /\ phase' = "again" => phase = "ended" /\ e.call = "next"
                   /\ phase' \notin {"ended"}
      BY <1>2 DEF Open, AskNext, AskAgain, Close, Enter, Entered
    <2>2. DOMAIN stack' = {1} /\ stack' # <<>> /\ stack'[1] = e /\ Frame' = e
      BY <2>1 DEF Frame, Last
    <2> QED
      BY <1>1, <2>1, <2>2 DEF EndedNow
  <1>3. CASE Opened \/ Answered \/ Ended \/ EndedAgain \/ Closed
    <2>1. /\ stack' = <<>> /\ phase' \in {"open", "ended", "drained", "closed"}
          /\ phase' = "ended" => phase = "asking" /\ ~ret.ok
      BY <1>1, <1>3 DEF Opened, Answered, Ended, EndedAgain, Closed, Proceed
    <2> QED
      BY <1>1, <2>1 DEF EndedNow
  <1> QED
    BY <1>2, <1>3 DEF Loop

LEMMA EndedStep == ASSUME IInv, EndedNow, Next PROVE EndedNow'
  <1>1. CASE Ending
    <2>1. stack' = <<>> /\ phase' \in {"failed", "raised", "halted"}
      BY <1>1 DEF Ending, ScanFetchNull, IndexNextThrows, SortThrow, SortRaises, Abort
    <2> QED
      BY <2>1 DEF EndedNow
  <1> QED
    BY <1>1, EndedAccess, EndedOthers, EndedConsumer DEF Next, OperatorStep, Ending

LEMMA EndedStill == ASSUME EndedNow, UNCHANGED vars PROVE EndedNow'
  BY DEF vars, given, EndedNow, Frame, Self, Op

\* Before the first query nobody has been asked.
LEMMA EndedStart == ASSUME PlannerInit PROVE EndedNow
  BY DEF PlannerInit, Ready, EndedNow

-----------------------------------------------------------------------------
(* Closed to the last operator *)

\* While the consumer closes the plan, every call in progress is a close.
LEMMA AllClose ==
    ASSUME IInv, stack # <<>>, phase = "closing"
    PROVE  Frame.call = "close"
  <1> PICK L : L = Len(stack)
    OBVIOUS
  <1>1. /\ L \in Nat \ {0} /\ DOMAIN stack = 1 .. L /\ stack[L] = Frame
    BY StackFacts DEF IInv
  <1>2. stack[1].call = "close"
    BY DEF IInv, ProtocolNow, ProtocolInv, RootOK, CallOf
  <1>3. ASSUME NEW j \in 1 .. L - 1, stack[j].call = "close" PROVE stack[j + 1].call = "close"
    <2>1. j \in DOMAIN stack /\ j < Len(stack)
      BY <1>1
    <2>2. PlaceOK(j) /\ LinkOK(j)
      BY <2>1 DEF IInv, ProtocolNow, ProtocolInv
    <2>3. /\ stack[j].at \in Places(KindOf(j), "close") /\ stack[j].at # "start"
          /\ stack[j + 1].call = CalledMethod("close", stack[j].at)
      BY <1>3, <2>1, <2>2 DEF PlaceOK, LinkOK
    <2>4. stack[j].at \in {"first", "second"}
      BY <2>3 DEF Places
    <2> QED
      BY <2>3, <2>4 DEF CalledMethod
  <1> DEFINE S == {n \in Nat : n + 1 \in 1 .. L => stack[n + 1].call = "close"}
  <1>4. 0 \in S
    BY <1>2
  <1>5. ASSUME NEW n \in S PROVE n + 1 \in S
    <2>1. n \in Nat /\ n + 1 \in Nat
      OBVIOUS
    <2>2. ASSUME n + 1 + 1 \in 1 .. L PROVE stack[n + 1 + 1].call = "close"
      <3>1. n + 1 \in 1 .. L - 1 /\ n + 1 \in 1 .. L
        BY <1>1, <2>1, <2>2
      <3> QED
        BY <1>3, <3>1
    <2> QED
      BY <2>1, <2>2
  <1>6. L - 1 \in Nat
    BY <1>1
  <1> HIDE DEF S
  <1>7. L - 1 \in S
    <2>1. \A n \in 0 .. L - 1 : n \in S
      BY ONLY <1>4, <1>5, <1>6, UpTo
    <2> QED
      BY <1>6, <2>1
  <1> QED
    BY <1>1, <1>6, <1>7 DEF S

-----------------------------------------------------------------------------
(* The plan returns its rows *)

\* The steps of QueryResult, of the variables this module gives it.
LEMMA PlanResultSteps ==
    /\ QR!QRInit <=> Mode = "closed" /\ out = <<>>
    /\ QR!QROpen <=> /\ Mode = "closed" /\ Mode' = "open" /\ out' = <<>>
                     /\ UNCHANGED <<goal.rows, goal.fails, goal.mayFail>>
    /\ QR!QRFail <=> /\ Mode = "open" /\ (goal.fails \/ goal.mayFail) /\ Mode' = "failed"
                     /\ UNCHANGED <<goal.rows, goal.fails, goal.mayFail, out>>
    /\ QR!QRProduce <=> /\ Mode = "open" /\ ~goal.fails
                        /\ Len(out) < Len(goal.rows)
                        /\ out' = Append(out, goal.rows[Len(out) + 1])
                        /\ UNCHANGED <<goal.rows, goal.fails, goal.mayFail>> /\ Mode' = Mode
    /\ QR!QREnd <=> /\ Mode = "open" /\ ~goal.fails /\ out = goal.rows /\ Mode' = "ended"
                    /\ UNCHANGED <<goal.rows, goal.fails, goal.mayFail, out>>
    /\ QR!QRClose <=> /\ Mode \in {"open", "ended"} /\ Mode' = "closed"
                      /\ UNCHANGED <<goal.rows, goal.fails, goal.mayFail, out>>
    /\ goal' = goal /\ Mode' = Mode /\ out' = out => UNCHANGED QR!qrVars
  BY DEF QR!QRInit, QR!QROpen, QR!QRFail, QR!QRProduce, QR!QREnd, QR!QRClose, QR!qrVars, QR!query

\* Before the first query all the rows are left.
LEMMA DataStart == ASSUME PlannerInit PROVE \E left : Data(left)
  <1> PICK left : left = [k \in DOMAIN plan |-> Rows[k]]
    OBVIOUS
  <1>1. IsPlan(plan) /\ table \in Tables /\ ScansTable(plan, table)
    BY InitIInv DEF IInv, ProtocolNow, GivenNow
  <1>2. LeftOK(left)
    BY <1>1, RowsAreSeqs DEF LeftOK, FunctionOn
  <1>3. /\ state = [k \in DOMAIN plan |-> Initial(plan[k].kind)]
        /\ opened = [k \in DOMAIN plan |-> FALSE]
        /\ stack = <<>> /\ phase = "closed" /\ out = <<>>
        /\ goal = [rows |-> Rows[Len(plan)],
                   fails |-> \E k \in OfKind("sort") :
                                Unsortable(Rows[plan[k].in[1]], plan[k].column),
                   mayFail |-> \E k \in OfKind("sort") :
                                  \E rows \in {Rows[plan[k].in[1]], Rows[k]} :
                                      MayRaise(rows, plan[k].column)]
    BY DEF PlannerInit, Ready
  <1>4. ASSUME NEW k \in DOMAIN plan PROVE MembersOK(k, state[k])
    <2>1. state[k] = Initial(plan[k].kind)
      BY <1>3
    <2>2. CASE plan[k].kind = "scan"
      BY <2>1, <2>2 DEF Initial, ScanStart, MembersOK
    <2>3. CASE plan[k].kind = "sort"
      <3>1. ~MayRaise(<<>>, plan[k].column)
        BY DEF MayRaise
      <3> QED
        BY <2>1, <2>3, <3>1, NoneAndOne DEF Initial, MembersOK
    <2>4. CASE plan[k].kind = "join"
      BY <2>1, <2>4 DEF Initial, MembersOK
    <2>5. CASE plan[k].kind \notin {"scan", "sort", "join"}
      BY <2>5 DEF MembersOK
    <2> QED
      BY <2>2, <2>3, <2>4, <2>5
  <1>5. OperatorData(left)
    BY <1>3, <1>4 DEF OperatorData
  <1>6. ConsumerData(left)
    <2>1. \A k \in OfKind("sort") : BadSort(k) <=> Unsortable(Rows[plan[k].in[1]], plan[k].column)
      BY DEF OfKind, BadSort
    <2>2. (\E k \in OfKind("sort") : BadSort(k)) =
              \E k \in OfKind("sort") : Unsortable(Rows[plan[k].in[1]], plan[k].column)
      BY <2>1
    <2>3. goal = Goal
      BY <1>3, <2>2 DEF Goal, Risky
    <2> QED
      BY <1>3, <2>3, NoneAndOne DEF ConsumerData
  <1> QED
    BY <1>2, <1>5, <1>6 DEF Data

\* Each step keeps the rows that are left right.
LEMMA DataStep ==
    ASSUME IInv, NEW left, Data(left), Next
    PROVE  \E two : Data(two)'
  <1>1. CASE Open \/ Loop \/ AskAgain \/ Close
    <2>1. Data(left)'
      BY <1>1, DataConsumer
    <2> QED
      BY <2>1
  <1>2. CASE \/ ScanOpen \/ ScanClose \/ ScanFetch \/ ScanFetchNull \/ ScanSlot \/ ScanPageDone
             \/ ScanEnd
    BY <1>2, DataScan
  <1>3. CASE IndexOpen \/ IndexNext \/ IndexNextThrows \/ IndexClose
    BY <1>3, DataIndex
  <1>4. CASE PassFirst \/ PassSecond \/ Passed
    BY <1>4, DataPass
  <1>5. CASE Ask \/ SelectNext \/ ProjectNext
    BY <1>5, DataAsked
  <1>6. CASE JoinOpened \/ JoinEnd \/ JoinEmit
    BY <1>6, DataJoinReturns
  <1>7. CASE \/ JoinOpen \/ JoinAsk \/ JoinGotRight \/ JoinMatch
             \/ JoinRightDone \/ JoinReopen \/ JoinAdvance \/ JoinGotLeft
    <2>1. Data(left)'
      BY <1>7, DataJoinGoes
    <2> QED
      BY <2>1
  <1>8. CASE \/ SortOpen \/ SortConsume \/ SortKeep \/ SortCloseInput \/ SortThrow \/ SortOpened
             \/ SortRaises \/ SortNext \/ SortClose
    BY <1>8, DataSort
  <1> QED
    BY <1>1, <1>2, <1>3, <1>4, <1>5, <1>6, <1>7, <1>8 DEF Next, OperatorStep

LEMMA DataStill ==
    ASSUME NEW left, Data(left), UNCHANGED vars
    PROVE  Data(left)'
  <1>1. UNCHANGED <<plan, table, goal, state, opened, stack, ret, phase, out>>
    BY DEF vars, given
  <1>2. \A k : Active(k)' <=> Active(k)
    BY <1>1 DEF Active
  <1>3. Rows' = Rows /\ Goal' = Goal
    BY <1>1, SameRows
  <1>4. Consuming' = Consuming
    BY <1>1 DEF Consuming
  <1>5. \A k \in DOMAIN plan : MembersOK(k, state[k])' /\ (opened[k] => ~Fails(k)')
    BY <1>1, SameRest, SameRows DEF Data, OperatorData
  <1>6. Consuming =>
          \A k \in DOMAIN plan : opened[k] /\ ~Active(k)' => left[k] = AtRest(left, k, state[k])'
    BY <1>1, <1>2, SameRest DEF Data, OperatorData
  <1>7. \A j \in DOMAIN stack :
            CallData(left, stack[j].op, state[stack[j].op], stack[j], j = Len(stack), ret)'
    BY <1>1, SameCallData DEF Data, OperatorData
  <1>8. OperatorData(left)'
    BY <1>1, <1>4, <1>5, <1>6, <1>7 DEF OperatorData
  <1>9. ConsumerData(left)'
    BY <1>1, <1>3 DEF Data, ConsumerData, Owed, Asked
  <1> QED
    BY <1>1, <1>8, <1>9 DEF Data, LeftOK

\* What each operator has still to hand out, beside the protocol of the calls and what is known
\* of those that have no more.
QueryInv == IInv /\ EndedNow /\ \E left : Data(left)

\* Before, between and after the calls of every query, what each operator holds stands for the
\* rows it has still to hand out, and what the consumer has and these make the rows of the plan.
THEOREM QueryInvariant == PlannerSpec => []QueryInv
  <1>1. PlannerInit => QueryInv
    BY InitIInv, EndedStart, DataStart DEF QueryInv
  <1>2. QueryInv /\ [Next /\ UNCHANGED stmt]_planner => QueryInv'
    <2> SUFFICES ASSUME QueryInv, [Next /\ UNCHANGED stmt]_planner PROVE QueryInv'
      OBVIOUS
    <2>1. PICK left : Data(left)
      BY DEF QueryInv
    <2>2. CASE Next
      <3>1. IInv' /\ EndedNow'
        BY <2>2, NextIInv, EndedStep DEF QueryInv
      <3>2. \E two : Data(two)'
        BY <2>1, <2>2, DataStep DEF QueryInv
      <3> QED
        BY <3>1, <3>2 DEF QueryInv
    <2>3. CASE UNCHANGED vars
      <3>1. IInv' /\ EndedNow'
        BY <2>3, StutterIInv, EndedStill DEF QueryInv
      <3>2. Data(left)'
        BY <2>1, <2>3, DataStill
      <3> QED
        BY <3>1, <3>2 DEF QueryInv
    <2> QED
      BY <2>2, <2>3 DEF planner
  <1> QED
    BY <1>1, <1>2, PTL DEF PlannerSpec

\* No step of an operator gives the consumer a tuple.
LEMMA GivesNothing == ASSUME OperatorStep PROVE out' = out /\ goal' = goal
  <1>1. CASE \/ ScanOpen \/ ScanClose \/ ScanFetch \/ ScanFetchNull \/ ScanSlot \/ ScanPageDone
             \/ ScanEnd \/ IndexOpen \/ IndexNext \/ IndexNextThrows \/ IndexClose
    BY <1>1 DEF ScanOpen, ScanClose, ScanFetch, ScanFetchNull, ScanSlot, ScanPageDone, ScanEnd,
        IndexOpen, IndexNext, IndexNextThrows, IndexClose, Return, Leave, Continue, Abort,
        Consumer, given
  <1>2. CASE PassFirst \/ PassSecond \/ Passed \/ Ask \/ SelectNext \/ ProjectNext
    BY <1>2 DEF PassFirst, PassSecond, Passed, Ask, SelectNext, ProjectNext, Return, Leave,
        Call, CallThen, Consumer, given
  <1>3. CASE JoinOpen \/ JoinOpened \/ JoinEnd \/ JoinAsk \/ JoinGotRight \/ JoinMatch
             \/ JoinEmit \/ JoinRightDone \/ JoinReopen \/ JoinAdvance \/ JoinGotLeft
    BY <1>3 DEF JoinOpen, JoinOpened, JoinEnd, JoinAsk, JoinGotRight, JoinMatch, JoinEmit,
        JoinRightDone, JoinReopen, JoinAdvance, JoinGotLeft, Return, Leave, Call, CallThen,
        Continue, Consumer, given
  <1>4. CASE SortOpen \/ SortConsume \/ SortKeep \/ SortCloseInput \/ SortThrow \/ SortOpened
             \/ SortRaises \/ SortNext \/ SortClose
    BY <1>4 DEF SortOpen, SortConsume, SortKeep, SortCloseInput, SortThrow, SortOpened,
        SortRaises, SortNext, SortClose, Return, Leave, Call, CallThen, Continue, Abort, Consumer, given
  <1> QED
    BY <1>1, <1>2, <1>3, <1>4 DEF OperatorStep

\* A sort that is left by lessThan may raise by its rows, or by those of its input.
LEMMA RaiseIsRisky ==
    ASSUME IInv, NEW left, Data(left), SortRaises
    PROVE  stack # <<>> /\ goal.mayFail
  <1>1. stack # <<>> /\ Op.kind = "sort"
    BY DEF SortRaises, Running
  <1> PICK i, first, all, column, rows, x, u :
          /\ i = Op.in[1] /\ first = left[i] /\ all = Rows[i] /\ column = Op.column
          /\ rows = My.rows /\ x = ret.values /\ u = Append(rows, x)
    OBVIOUS
  <1>2. /\ 1 \in DOMAIN Op.in /\ plan[Self] = Op /\ Self \in DOMAIN plan
    BY <1>1, FrameFacts, Arities DEF IInv, Op
  <1>3. /\ IsSeq(first) /\ IsSeq(all) /\ MembersOK(Self, My)
        /\ CallData(left, Self, My, Frame, TRUE, ret)
    BY <1>1, <1>2, OwnFacts
  <1>4. /\ IsSeq(rows) /\ (MayRaise(rows, column) => Risky(Self))
        /\ SortData(left, Self, My, Frame, TRUE, ret)
    BY <1>1, <1>2, <1>3 DEF MembersOK, CallData
  <1>5. \/ MayRaise(rows, column)
        \/ Frame.call = "open" /\ Frame.at = "got" /\ ret.ok /\ MayRaise(u, column)
    BY DEF SortRaises, Running
  <1>6. ASSUME Frame.call = "open", Frame.at = "got", ret.ok, MayRaise(u, column)
        PROVE  Risky(Self)
    <2>1. rows \o (<<x>> \o first) = all
      BY <1>2, <1>4, <1>6 DEF SortData, Owed
    <2>2. IsSeq(u) /\ u \o first = Glue(rows, <<x>> \o first)
      <3>1. IsSeq(rows) /\ IsSeq(first) /\ u = Append(rows, x)
        BY <1>3, <1>4
      <3> QED
        BY ONLY <3>1, RowKept
    <2>3. u \o first = all
      BY <2>1, <2>2 DEF Glue
    <2>4. MayRaise(all, column)
      BY <1>3, <1>6, <2>2, <2>3, RaiseInFront
    <2> QED
      BY <1>2, <2>4 DEF Risky
  <1>7. Risky(Self) /\ Self \in OfKind("sort")
    BY <1>1, <1>2, <1>4, <1>5, <1>6 DEF OfKind
  <1>8. goal = Goal
    BY DEF Data, ConsumerData
  <1> QED
    BY <1>1, <1>7, <1>8 DEF Goal

\* Each step of the query is one of QueryResult, or none.
LEMMA QueryStepImplements ==
    ASSUME IInv, EndedNow, NEW left, Data(left), Next
    PROVE  [QR!QRNext]_QR!qrVars
  <1> PICK root, rows, rest : root = Len(plan) /\ rows = goal.rows /\ rest = left[root]
    OBVIOUS
  <1>1. /\ rows = Rows[root] /\ (goal.fails <=> Fails(root))
        /\ IsSeq(rest) /\ IsSeq(out) /\ IsSeq(rows)
        /\ stack = <<>> /\ phase \in {"opening", "open", "asking", "ended", "again", "drained"} =>
                ~Fails(root)
        /\ stack # <<>> /\ phase \in {"asking", "again", "closing"} => ~Fails(root)
        /\ ConsumerData(left)
    BY RootFacts DEF Data
  <1>2. CASE Open
    <2>1. phase = "closed" /\ phase' = "opening" /\ out' = <<>> /\ goal' = goal
      BY <1>2 DEF Open, Enter, given
    <2>2. Mode = "closed" /\ Mode' = "open"
      BY <2>1 DEF Mode
    <2> QED
      BY <2>1, <2>2, PlanResultSteps DEF QR!QRNext
  <1>3. CASE Opened \/ AskNext \/ AskAgain \/ EndedAgain \/ Closed
    <2>1. out' = out /\ goal' = goal
      BY <1>3 DEF Opened, AskNext, AskAgain, EndedAgain, Closed, Enter, Proceed, given
    <2>2. \/ phase = "opening" /\ phase' = "open"
          \/ phase = "open" /\ phase' = "asking"
          \/ phase = "ended" /\ phase' = "again"
          \/ phase = "again" /\ phase' = "drained"
          \/ phase = "closing" /\ phase' = "closed"
      BY <1>3 DEF Opened, AskNext, AskAgain, EndedAgain, Closed, Enter, Proceed
    <2>3. Mode' = Mode
      BY <2>2 DEF Mode
    <2> QED
      BY <2>1, <2>3, PlanResultSteps
  <1>4. CASE Answered
    <2> PICK x, u : x = ret.values /\ u = <<x>> \o rest
      OBVIOUS
    <2>1. /\ phase \in {"asking", "again"} /\ phase' = "open" /\ ret.ok /\ (stack = <<>>) = TRUE
          /\ out' = Append(out, x) /\ goal' = goal /\ stack = <<>>
      BY <1>4 DEF Answered, Proceed, given
    <2>2. phase = "asking"
      <3>1. phase = "again" => u = <<>>
        BY <1>1, <2>1 DEF ConsumerData, Owed
      <3> QED
        BY <1>1, <2>1, <3>1, ConsIs
    <2>3. out \o u = rows
      BY <1>1, <2>1, <2>2 DEF ConsumerData, Owed
    <2>4. IsSeq(u) /\ Len(u) = Len(rest) + 1 /\ u[1] = x /\ Len(rest) \in Nat /\ Len(out) \in Nat
      <3>1. IsSeq(rest) /\ IsSeq(out) /\ u = <<x>> \o rest
        BY <1>1
      <3>2. IsSeq(u) /\ Len(u) = Len(rest) + 1 /\ u[1] = x
        BY ONLY <3>1, ConsIs
      <3>3. Len(rest) \in Nat /\ Len(out) \in Nat
        BY ONLY <3>1, SeqIs
      <3> QED
        BY <3>2, <3>3
    <2>5. Len(out) < Len(rows) /\ rows[Len(out) + 1] = x
      <3>1. 1 \in 1 .. Len(u)
        BY <2>4
      <3>2. Len(out \o u) = Len(out) + Len(u) /\ (out \o u)[Len(out) + 1] = u[1]
        BY <1>1, <2>4, <3>1, ConcatIs
      <3> QED
        BY <2>3, <2>4, <3>2
    <2>6. Mode = "open" /\ Mode' = "open" /\ ~goal.fails
      BY <1>1, <2>1, <2>2 DEF Mode
    <2> QED
      BY <2>1, <2>5, <2>6, PlanResultSteps DEF QR!QRNext
  <1>5. CASE Ended
    <2>1. /\ phase = "asking" /\ phase' = "ended" /\ ~ret.ok /\ (stack = <<>>) = TRUE
          /\ out' = out /\ goal' = goal /\ stack = <<>>
      BY <1>5 DEF Ended, Proceed, given
    <2>2. rest = <<>> /\ out \o rest = rows
      BY <1>1, <2>1 DEF ConsumerData, Owed, Asked
    <2>3. out = rows
      BY <1>1, <2>2, SeqIs
    <2>4. Mode = "open" /\ Mode' = "ended" /\ ~goal.fails
      BY <1>1, <2>1 DEF Mode
    <2> QED
      BY <2>1, <2>3, <2>4, PlanResultSteps DEF QR!QRNext
  <1>6. CASE Close
    <2>1. /\ phase \in {"open", "ended", "drained"} /\ phase' = "closing" /\ out' = out /\ goal' = goal
      BY <1>6 DEF Close, Enter, given
    <2>2. Mode \in {"open", "ended"} /\ Mode' = "closed"
      BY <2>1 DEF Mode
    <2> QED
      BY <2>1, <2>2, PlanResultSteps DEF QR!QRNext
  <1>7. CASE ScanFetchNull \/ IndexNextThrows
    <2>1. stack # <<>> /\ phase' = "halted" /\ out' = out /\ goal' = goal
      BY <1>7 DEF ScanFetchNull, IndexNextThrows, ScanNext, Running, Abort, given
    <2>2. phase \in {"opening", "asking", "again", "closing"}
      BY <2>1 DEF IInv, ProtocolNow, ProtocolInv, RootOK
    <2>3. Mode' = "closed" /\ Mode \in {"open", "ended", "closed"}
      BY <2>1, <2>2 DEF Mode
    <2> QED
      BY <2>1, <2>3, PlanResultSteps DEF QR!QRNext
  <1>8. CASE SortThrow
    <2>1. /\ stack # <<>> /\ phase' = "failed" /\ out' = out /\ goal' = goal
          /\ Op.kind = "sort" /\ Frame.call = "open" /\ Frame.at = "throw"
      BY <1>8 DEF SortThrow, Running, Abort, given
    <2>2. phase \in {"opening", "asking", "again", "closing"}
      BY <2>1 DEF IInv, ProtocolNow, ProtocolInv, RootOK
    <2>3. BadSort(Self) /\ Self \in DOMAIN plan
      <3>1. plan[Self].kind = "sort" /\ CallData(left, Self, My, Frame, TRUE, ret)
            /\ Self \in DOMAIN plan
        BY <2>1, OwnFacts, FrameFacts DEF IInv, Op
      <3> QED
        BY <2>1, <3>1 DEF CallData, SortData
    <2>4. Fails(root)
      BY <2>3, FailsAtRoot DEF IInv, ProtocolNow
    <2>5. Mode = "open" /\ Mode' = "failed" /\ goal.fails
      BY <1>1, <2>1, <2>2, <2>4 DEF Mode
    <2> QED
      BY <2>1, <2>5, PlanResultSteps DEF QR!QRNext
  <1>9. CASE SortRaises
    <2>1. stack # <<>> /\ goal.mayFail
      BY <1>9, RaiseIsRisky
    <2>2. /\ phase' = "raised" /\ out' = out /\ goal' = goal /\ Op.kind = "sort"
          /\ \/ Frame.call = "open" /\ Frame.at = "got"
             \/ Frame.call = "next" /\ MayRaise(My.rows, Op.column)
      BY <1>9 DEF SortRaises, Running, Abort, given
    <2>3. phase \in {"opening", "asking", "again", "closing"}
      BY <2>1 DEF IInv, ProtocolNow, ProtocolInv, RootOK
    <2>4. phase # "closing"
      BY <2>1, <2>2, AllClose
    <2>5. phase # "again"
      <3>1. ~MayRaise(<<>>, Op.column)
        BY DEF MayRaise
      <3> QED
        BY <2>1, <2>2, <3>1, AgainFacts
    <2>6. Mode = "open" /\ Mode' = "failed"
      BY <2>2, <2>3, <2>4, <2>5 DEF Mode
    <2> QED
      BY <2>1, <2>2, <2>6, PlanResultSteps DEF QR!QRNext
  <1>10. CASE OperatorStep /\ ~Ending
    <2>1. phase' = phase
      BY <1>10, PhaseKept
    <2>2. out' = out /\ goal' = goal
      BY <1>10, GivesNothing
    <2>3. Mode' = Mode
      BY <2>1 DEF Mode
    <2> QED
      BY <2>2, <2>3, PlanResultSteps
  <1> QED
    BY <1>2, <1>3, <1>4, <1>5, <1>6, <1>7, <1>8, <1>9, <1>10 DEF Next, Loop, Ending

\* For every plan, table and pool, joins included, the tuples the consumer gets are the rows of
\* the plan, in order, each once, and again when it opens the plan again.
THEOREM PlanTheorem == PlannerSpec => ImplementsQueryResult
  <1>1. PlannerInit => QR!QRInit
    <2>1. PlannerInit => phase = "closed" /\ out = <<>>
      BY DEF PlannerInit, Ready
    <2> QED
      BY <2>1, PlanResultSteps DEF Mode
  <1>2. QueryInv /\ [Next /\ UNCHANGED stmt]_planner => [QR!QRNext]_QR!qrVars
    <2> SUFFICES ASSUME QueryInv, [Next /\ UNCHANGED stmt]_planner PROVE [QR!QRNext]_QR!qrVars
      OBVIOUS
    <2>1. PICK left : Data(left)
      BY DEF QueryInv
    <2>2. CASE Next
      BY <2>1, <2>2, QueryStepImplements DEF QueryInv
    <2>3. CASE UNCHANGED vars
      <3>1. Mode' = Mode /\ out' = out /\ goal' = goal
        BY <2>3 DEF vars, given, Mode
      <3> QED
        BY <3>1, PlanResultSteps
    <2> QED
      BY <2>2, <2>3 DEF planner
  <1> QED
    BY <1>1, <1>2, QueryInvariant, PTL DEF PlannerSpec, ImplementsQueryResult, QR!QRSpec

-----------------------------------------------------------------------------
(* The answer to a statement *)

\* The plan begins with the operators of q.
BeginsWith(q) == IsPlan(q) /\ Len(q) <= Len(plan) /\ \A i \in 1 .. Len(q) : plan[i] = q[i]

LEMMA TopOf ==
    ASSUME IsPlan(plan), NEW q, IsPlan(q), NEW op, NEW r, r = Append(q, op), BeginsWith(r)
    PROVE  /\ BeginsWith(q) /\ Len(r) = Len(q) + 1
           /\ Len(q) \in DOMAIN plan /\ Len(r) \in DOMAIN plan /\ plan[Len(r)] = op
  <1> PICK L, m : L = Len(q) /\ m = Len(plan)
    OBVIOUS
  <1>1. /\ L \in Nat \ {0} /\ q \in Seq(Range(q) \cup {op})
        /\ m \in Nat /\ DOMAIN plan = 1 .. m
    BY LenProperties, EmptySeq, SeqMonotonic DEF IsPlan
  <1>2. /\ Len(r) = L + 1 /\ r[L + 1] = op
        /\ \A i \in 1 .. L : r[i] = q[i]
    BY <1>1, AppendProperties
  <1>3. L + 1 <= m /\ \A i \in 1 .. L + 1 : plan[i] = r[i]
    BY <1>2 DEF BeginsWith
  <1>4. L <= m /\ L \in 1 .. m /\ L + 1 \in 1 .. m /\ plan[L + 1] = op
    BY <1>1, <1>2, <1>3
  <1>5. \A i \in 1 .. L : i \in 1 .. L + 1 /\ plan[i] = q[i]
    BY <1>1, <1>2, <1>3
  <1> QED
    BY <1>1, <1>2, <1>4, <1>5 DEF BeginsWith

\* What the access path hands on: the row of the index, or all rows WHERE keeps.
Taken(s) == IF UsesIndex(s) THEN Found(s.where_clause[1].value.stoi) ELSE Matching(s)

\* The rows of a plan that was built from a statement are what the statement asks for of those,
\* if no sort of it must fail.
LEMMA StatementRows ==
    ASSUME IsPlan(plan), table \in Tables, NEW s \in Statements,
           plan = BuildPlan(s, ChooseAccessPath(s, Len(table) + 1)),
           \A k \in DOMAIN plan : ~BadSort(k)
    PROVE  Rows[Len(plan)] = Answer(s, Taken(s))
  <1> PICK rows : rows = Rows
    OBVIOUS
  <1>0. \A k \in DOMAIN plan : rows[k] = RowsOf(rows, k)
    BY RowsAre
  <1>1. PICK access : access = ChooseAccessPath(s, Len(table) + 1)
    OBVIOUS
  <1>2. PICK p1 : p1 = <<access>>
    OBVIOUS
  <1>3. PICK where : where = SelectOp(Len(p1), s)
    OBVIOUS
  <1>4. PICK p2 : p2 = IF s.where_clause = <<>> \/ UsesIndex(s) THEN p1 ELSE Append(p1, where)
    OBVIOUS
  <1>5. PICK order : order = SortOp(Len(p2), s)
    OBVIOUS
  <1>6. PICK p3 : p3 = IF s.order_by = <<>> THEN p2 ELSE Append(p2, order)
    OBVIOUS
  <1>7. PICK pick : pick = ProjectOp(Len(p3), s)
    OBVIOUS
  <1>8. plan = IF IsSelectAll(s) THEN p3 ELSE Append(p3, pick)
    BY <1>1, <1>2, <1>3, <1>4, <1>5, <1>6, <1>7 DEF BuildPlan
  <1>9. /\ where.kind = "select" /\ where.in = <<Len(p1)>> /\ where.where = SelectOp(1, s).where
        /\ order.kind = "sort" /\ order.in = <<Len(p2)>> /\ order.column = SortOp(1, s).column
        /\ order.asc = s.order_by[1].is_asc
        /\ pick.kind = "project" /\ pick.in = <<Len(p3)>> /\ pick.columns = ProjectOp(1, s).columns
    BY <1>3, <1>5, <1>7 DEF SelectOp, SortOp, ProjectOp
  <1>11. IsPlan(p1) /\ ScansTable(p1, table)
    BY <1>1, <1>2, AccessIsPlan
  <1>12. IsPlan(p2) /\ ScansTable(p2, table)
    <2>1. p2 = p1 \/ p2 = Append(p1, where)
      BY <1>4
    <2> QED
      BY <1>9, <1>11, <2>1, OnTop
  <1>13. IsPlan(p3)
    <2>1. p3 = p2 \/ p3 = Append(p2, order)
      BY <1>6
    <2> QED
      BY <1>9, <1>12, <2>1, OnTop
  <1>14. BeginsWith(plan)
    BY LenProperties DEF BeginsWith, IsPlan
  <1>15. BeginsWith(p3)
    BY <1>8, <1>13, <1>14, TopOf
  <1>16. BeginsWith(p2)
    BY <1>6, <1>12, <1>15, TopOf
  <1>17. BeginsWith(p1)
    BY <1>4, <1>11, <1>16, TopOf
  <1>18. rows[Len(p1)] = IF UsesIndex(s) THEN Taken(s) ELSE RowsBefore(Len(table) + 1)
    <2>1. Len(p1) = 1 /\ p1[1] = access
      BY <1>2
    <2>2. 1 \in DOMAIN plan /\ plan[1] = access
      <3>1. Len(plan) \in Nat /\ DOMAIN plan = 1 .. Len(plan)
        BY LenProperties DEF IsPlan
      <3> QED
        BY <1>17, <2>1, <3>1 DEF BeginsWith
    <2>3. rows[1] = RowsOf(rows, 1)
      BY <1>0, <2>2
    <2>4. CASE UsesIndex(s)
      <3>1. access.kind = "index" /\ access.key = s.where_clause[1].value.stoi
        BY <1>1, <2>4 DEF ChooseAccessPath
      <3>2. rows[1] = Found(access.key)
        BY <2>2, <2>3, <3>1 DEF RowsOf
      <3> QED
        BY <2>1, <2>4, <3>1, <3>2 DEF Taken
    <2>5. CASE ~UsesIndex(s)
      <3>1. access.kind = "scan" /\ access.max = Len(table) + 1
        BY <1>1, <2>5 DEF ChooseAccessPath
      <3>2. rows[1] = RowsBefore(access.max)
        BY <2>2, <2>3, <3>1 DEF RowsOf
      <3> QED
        BY <2>1, <2>5, <3>1, <3>2
    <2> QED
      BY <2>4, <2>5
  <1>19. rows[Len(p2)] = Taken(s)
    <2>1. CASE UsesIndex(s)
      BY <1>4, <1>18, <2>1
    <2>2. CASE ~UsesIndex(s) /\ s.where_clause = <<>>
      BY <1>4, <1>18, <2>2 DEF Taken, Matching
    <2>3. CASE ~UsesIndex(s) /\ s.where_clause # <<>>
      <3>1. p2 = Append(p1, where)
        BY <1>4, <2>3
      <3>2. Len(p2) \in DOMAIN plan /\ plan[Len(p2)] = where
        BY <1>11, <1>16, <3>1, TopOf
      <3>3. where.in[1] = Len(p1)
        BY <1>9
      <3>4. rows[Len(p2)] = Selected(rows[Len(p1)], where.where)
        BY <1>0, <1>9, <3>2, <3>3 DEF RowsOf
      <3> QED
        BY <1>9, <1>18, <2>3, <3>4 DEF Taken, Matching
    <2> QED
      BY <2>1, <2>2, <2>3
  <1>20. PICK sorted : sorted = IF s.order_by = <<>> THEN Taken(s)
                                ELSE InOrder(Taken(s), SortOp(1, s).column, s.order_by[1].is_asc)
    OBVIOUS
  <1>21. rows[Len(p3)] = sorted
    <2>1. CASE s.order_by = <<>>
      BY <1>6, <1>19, <1>20, <2>1
    <2>2. CASE s.order_by # <<>>
      <3>1. p3 = Append(p2, order)
        BY <1>6, <2>2
      <3>2. Len(p3) \in DOMAIN plan /\ plan[Len(p3)] = order
        BY <1>12, <1>15, <3>1, TopOf
      <3>3. order.in[1] = Len(p2)
        BY <1>9
      <3>4. ~Unsortable(rows[Len(p2)], order.column)
        BY <1>9, <3>2, <3>3 DEF BadSort
      <3>5. rows[Len(p3)] = InOrder(rows[Len(p2)], order.column, order.asc)
        BY <1>0, <1>9, <3>2, <3>3, <3>4 DEF RowsOf
      <3> QED
        BY <1>9, <1>19, <1>20, <2>2, <3>5
    <2> QED
      BY <2>1, <2>2
  <1>22. rows[Len(plan)] = IF IsSelectAll(s) THEN sorted
                           ELSE ProjectedRows(sorted, ProjectOp(1, s).columns)
    <2>1. CASE IsSelectAll(s)
      BY <1>8, <1>21, <2>1
    <2>2. CASE ~IsSelectAll(s)
      <3>1. plan = Append(p3, pick)
        BY <1>8, <2>2
      <3>2. Len(plan) \in DOMAIN plan /\ plan[Len(plan)] = pick
        BY <1>13, <1>14, <3>1, TopOf
      <3>3. pick.in[1] = Len(p3)
        BY <1>9
      <3>4. rows[Len(plan)] = ProjectedRows(rows[Len(p3)], pick.columns)
        BY <1>0, <1>9, <3>2, <3>3 DEF RowsOf
      <3> QED
        BY <1>9, <1>21, <2>2, <3>4
    <2> QED
      BY <2>1, <2>2
  <1>23. Answer(s, Taken(s)) = IF IsSelectAll(s) THEN sorted
                               ELSE ProjectedRows(sorted, ProjectOp(1, s).columns)
    BY <1>20 DEF Answer
  <1> QED
    BY <1>22, <1>23

\* The plan is the one built from the statement.
StatementNow ==
    \A s \in Statements :
        stmt = <<s>> => plan = BuildPlan(s, ChooseAccessPath(s, Len(table) + 1))

\* A query that has ended has given the consumer the answer.
LEMMA AnswerNow ==
    ASSUME QueryInv, StatementNow, NEW s \in Statements, StatementEnded(s)
    PROVE  out = Answer(s, Taken(s))
  <1>1. PICK left : Data(left)
    BY DEF QueryInv
  <1>2. IInv /\ IsPlan(plan) /\ table \in Tables
    BY <1>1, RootFacts DEF QueryInv, IInv, GivenNow
  <1>3. stack = <<>>
    BY <1>2 DEF StatementEnded, IInv, ProtocolNow, ProtocolInv, RootOK
  <1>4. ~Fails(Len(plan)) /\ out = Rows[Len(plan)]
    <2>1. phase = "ended"
      BY DEF StatementEnded
    <2>2. ~Fails(Len(plan))
      BY <1>1, <1>2, <1>3, <2>1, RootFacts
    <2>3. out = Rows[Len(plan)]
      BY <1>1, <2>1 DEF Data, ConsumerData
    <2> QED
      BY <2>2, <2>3
  <1>5. \A k \in DOMAIN plan : ~BadSort(k)
    BY <1>2, <1>4, FailsAtRoot
  <1>6. plan = BuildPlan(s, ChooseAccessPath(s, Len(table) + 1))
    BY DEF StatementNow, StatementEnded
  <1>7. Rows[Len(plan)] = Answer(s, Taken(s))
    BY <1>2, <1>5, <1>6, StatementRows
  <1> QED
    BY <1>4, <1>7

LEMMA StatementKept == PlannerSpec => []StatementNow
  <1>1. PlannerInit => StatementNow
    <2> SUFFICES ASSUME PlannerInit, NEW s \in Statements, stmt = <<s>>
                 PROVE  plan = BuildPlan(s, ChooseAccessPath(s, Len(table) + 1))
      BY DEF StatementNow
    <2>1. stmt # <<>>
      OBVIOUS
    <2>2. PICK t \in Statements :
              stmt = <<t>> /\ plan = BuildPlan(t, ChooseAccessPath(t, Len(table) + 1))
      BY <2>1 DEF PlannerInit
    <2>3. t = s
      BY <2>2
    <2> QED
      BY <2>2, <2>3
  <1>2. StatementNow /\ [Next /\ UNCHANGED stmt]_planner => StatementNow'
    <2> SUFFICES ASSUME StatementNow, [Next /\ UNCHANGED stmt]_planner PROVE StatementNow'
      OBVIOUS
    <2>1. UNCHANGED <<plan, table, stmt>>
      BY GivenKept DEF planner, vars, given
    <2> QED
      BY <2>1 DEF StatementNow, BuildPlan, ChooseAccessPath
  <1> QED
    BY <1>1, <1>2, PTL DEF PlannerSpec

\* For every table and statement that uses no index, a query read to its end has given what the
\* statement asks for: the rows that satisfy WHERE, in the order of ORDER BY, and of each the
\* columns of SELECT.
THEOREM ScanTheorem == PlannerSpec => []ScanAnswersStatement
  <1>1. QueryInv /\ StatementNow => ScanAnswersStatement
    <2> SUFFICES ASSUME QueryInv, StatementNow, NEW s \in Statements, StatementEnded(s),
                        ~UsesIndex(s)
                 PROVE  out = Answer(s, Matching(s))
      BY DEF ScanAnswersStatement
    <2>1. Taken(s) = Matching(s)
      BY DEF Taken
    <2> QED
      BY <2>1, AnswerNow
  <1> QED
    BY <1>1, QueryInvariant, StatementKept, PTL

-----------------------------------------------------------------------------
(* The answer by the index *)

\* What FlattenSeq puts together is made of what the parts are made of.
LEMMA FlattenOver ==
    ASSUME NEW T, NEW ss, AllSeqs(ss), \A i \in 1 .. Len(ss) : ss[i] \in Seq(T)
    PROVE  FlattenSeq(ss) \in Seq(T)
  <1> PICK m : m = Len(ss)
    OBVIOUS
  <1>1. m \in Nat
    BY SeqIs DEF AllSeqs
  <1>2. PICK f : Parts(f, ss, m)
    BY PartsExist
  <1> DEFINE S == {n \in 0 .. m : f[n] \in Seq(T)}
  <1>3. 0 \in S
    <2>1. f[0] = <<>>
      BY <1>2 DEF Parts
    <2>2. f[0] \in Seq(T)
      BY ONLY <2>1
    <2> QED
      BY ONLY <1>1, <2>2
  <1>4. ASSUME NEW n \in 0 .. m - 1, n \in S PROVE n + 1 \in S
    <2> PICK i : i = n + 1
      OBVIOUS
    <2>1. i \in 1 .. m /\ i - 1 = n /\ i \in 0 .. m
      BY <1>1
    <2>2. f[i] = f[i - 1] \o ss[i]
      BY <1>2, <2>1 DEF Parts
    <2>3. f[n] \in Seq(T) /\ ss[i] \in Seq(T)
      BY <1>4, <2>1
    <2>4. f[i] \in Seq(T)
      BY <2>1, <2>2, <2>3, ConcatProperties
    <2> QED
      BY <2>1, <2>4
  <1> HIDE DEF S
  <1>5. \A n \in 0 .. m : n \in S
    BY ONLY <1>1, <1>3, <1>4, UpTo
  <1>6. m \in S
    BY <1>1, <1>5
  <1> QED
    BY <1>2, <1>6, FlattenParts DEF S

LEMMA LiveRowsOver ==
    ASSUME NEW s, IsSeq(s), NEW T, \A n \in DOMAIN s : s[n] # Deleted => s[n] \in T
    PROVE  LiveRows(s) \in Seq(T)
  <1> DEFINE One(y) == IF y # Deleted THEN <<y>> ELSE <<>>
  <1> PICK m : m = [n \in DOMAIN s |-> One(s[n])]
    OBVIOUS
  <1>1. Len(s) \in Nat /\ DOMAIN s = 1 .. Len(s)
    BY SeqIs
  <1>2. FunctionOn(m, 1 .. Len(s))
    BY <1>1 DEF FunctionOn
  <1>3. IsSeq(m) /\ Len(m) = Len(s)
    BY <1>1, <1>2, MapIs
  <1>4. ASSUME NEW i \in 1 .. Len(s) PROVE IsSeq(m[i]) /\ m[i] \in Seq(T)
    <2>1. m[i] = One(s[i])
      BY <1>1
    <2>2. CASE s[i] = Deleted
      BY <2>1, <2>2, NoneAndOne
    <2>3. CASE s[i] # Deleted
      <3>1. m[i] = <<s[i]>> /\ s[i] \in T
        BY <1>1, <2>1, <2>3
      <3> QED
        BY <3>1, NoneAndOne
    <2> QED
      BY <2>2, <2>3
  <1>5. FlattenSeq(m) \in Seq(T)
    BY <1>3, <1>4, FlattenOver DEF AllSeqs
  <1> QED
    BY <1>5 DEF LiveRows, Filtered

\* The rows that were loaded are live rows of the pages.
LEMMA LoadedRows ==
    ASSUME table \in Tables
    PROVE  LET loaded == RowsBefore(Len(table) + 1) IN
           /\ IsSeq(loaded)
           /\ \A n \in DOMAIN loaded :
                \E p \in DOMAIN table : \E i \in DOMAIN table[p] :
                    loaded[n] = table[p][i] /\ table[p][i] # Deleted
  <1> PICK L : L = Len(table)
    OBVIOUS
  <1> DEFINE T == UNION {{table[p][i] : i \in {j \in DOMAIN table[p] : table[p][j] # Deleted}} :
                             p \in DOMAIN table}
  <1> PICK m : m = [p \in 1 .. L + 1 - 1 |-> LiveRows(table[p])]
    OBVIOUS
  <1>1. L \in Nat /\ DOMAIN table = 1 .. L /\ L + 1 - 1 = L
    BY TablesAssumption, LenProperties
  <1>2. FunctionOn(m, 1 .. L)
    BY <1>1 DEF FunctionOn
  <1>3. IsSeq(m) /\ Len(m) = L
    BY <1>1, <1>2, MapIs
  <1>4. ASSUME NEW p \in 1 .. L PROVE IsSeq(m[p]) /\ m[p] \in Seq(T)
    <2>1. m[p] = LiveRows(table[p])
      BY <1>1
    <2>2. IsSeq(table[p])
      BY <1>1, TablesAssumption DEF IsSeq
    <2>3. \A n \in DOMAIN table[p] : table[p][n] # Deleted => table[p][n] \in T
      BY <1>1
    <2> HIDE DEF T
    <2>4. LiveRows(table[p]) \in Seq(T)
      BY <2>2, <2>3, LiveRowsOver
    <2> QED
      BY <2>1, <2>4, IsSeqOver
  <1> HIDE DEF T
  <1> PICK loaded : loaded = FlattenSeq(m)
    OBVIOUS
  <1>5. loaded \in Seq(T)
    BY <1>3, <1>4, FlattenOver DEF AllSeqs
  <1>6. loaded = RowsBefore(Len(table) + 1)
    BY DEF RowsBefore
  <1>7. IsSeq(loaded) /\ \A n \in DOMAIN loaded : loaded[n] \in T
    BY <1>5, IsSeqOver, LenProperties, ElementOfSeq
  <1>8. ASSUME NEW x \in T
        PROVE  \E p \in DOMAIN table : \E i \in DOMAIN table[p] :
                   x = table[p][i] /\ table[p][i] # Deleted
    BY DEF T
  <1> QED
    BY <1>6, <1>7, <1>8

\* Two tests that agree keep the same.
LEMMA HitsAreSelected ==
    ASSUME NEW key, NEW where,
           \A n \in DOMAIN RowsBefore(Len(table) + 1) :
               RowsBefore(Len(table) + 1)[n][KeyColumn].stoi = key
                   <=> Satisfies(RowsBefore(Len(table) + 1)[n], where)
    PROVE  Hits(key) = Selected(RowsBefore(Len(table) + 1), where)
  <1> PICK s : s = RowsBefore(Len(table) + 1)
    OBVIOUS
  <1>1. \A n \in DOMAIN s : s[n][KeyColumn].stoi = key <=> Satisfies(s[n], where)
    OBVIOUS
  <1>2. [n \in DOMAIN s |-> IF s[n][KeyColumn].stoi = key THEN <<s[n]>> ELSE <<>>] =
        [n \in DOMAIN s |-> IF Satisfies(s[n], where) THEN <<s[n]>> ELSE <<>>]
    BY ONLY <1>1
  <1> QED
    BY <1>2 DEF Hits, Selected, Filtered

\* The index finds the last of the rows with the number a statement asks for.
LEMMA FoundIsLast ==
    ASSUME PlainKeys, table \in Tables, NEW s \in Statements, UsesIndex(s),
           s.where_clause[1].value.num # NotANumber
    PROVE  Taken(s) = LET rows == KeyedRows(s) IN IF rows = <<>> THEN <<>> ELSE <<Last(rows)>>
  <1> PICK loaded, value, where :
          loaded = RowsBefore(Len(table) + 1) /\ value = s.where_clause[1].value
              /\ where = [column |-> KeyColumn, op |-> "=", value |-> value]
    OBVIOUS
  <1>1. where.column = KeyColumn /\ where.op = "=" /\ where.value = value
    OBVIOUS
  <1>2. \A p \in DOMAIN table : \A n \in DOMAIN table[p] : table[p][n] # Deleted =>
               /\ KeyColumn \in DOMAIN table[p][n]
               /\ table[p][n][KeyColumn].text = value.text
                      <=> table[p][n][KeyColumn].stoi = value.stoi
    BY DEF PlainKeys
  <1>3. ASSUME NEW n \in DOMAIN loaded
        PROVE  loaded[n][KeyColumn].stoi = value.stoi <=> Satisfies(loaded[n], where)
    <2>1. PICK p \in DOMAIN table : \E i \in DOMAIN table[p] :
              loaded[n] = table[p][i] /\ table[p][i] # Deleted
      BY LoadedRows
    <2>2. PICK i \in DOMAIN table[p] : loaded[n] = table[p][i] /\ table[p][i] # Deleted
      BY <2>1
    <2>3. /\ KeyColumn \in DOMAIN loaded[n]
          /\ loaded[n][KeyColumn].text = value.text <=> loaded[n][KeyColumn].stoi = value.stoi
      BY <1>2, <2>2
    <2>4. Satisfies(loaded[n], where) <=> loaded[n][KeyColumn].text = value.text
      BY <1>1, <1>2, <2>3 DEF Satisfies, Holds
    <2> QED
      BY <2>3, <2>4
  <1>4. Hits(value.stoi) = Selected(loaded, where)
    BY <1>3, HitsAreSelected
  <1>5. KeyedRows(s) = Selected(loaded, where)
    BY DEF KeyedRows
  <1> QED
    BY <1>4, <1>5 DEF Taken, Found

\* Where the texts of the indexed column are plain numbers, a query by the index read to its end
\* has given the answer for the row loaded last of those with the number asked for in that
\* column, for every table and statement, whatever column the scan path takes the name for.
THEOREM IndexTheorem == PlainKeys => (PlannerSpec => []IndexAnswersLast)
  <1>1. PlainKeys /\ QueryInv /\ StatementNow => IndexAnswersLast
    <2> SUFFICES ASSUME PlainKeys, QueryInv, StatementNow, NEW s \in Statements,
                        StatementEnded(s), UsesIndex(s),
                        s.where_clause[1].value.num # NotANumber
                 PROVE  LET rows == KeyedRows(s)
                        IN out = Answer(s, IF rows = <<>> THEN <<>> ELSE <<Last(rows)>>)
      BY DEF IndexAnswersLast
    <2>1. table \in Tables
      BY DEF QueryInv, IInv, GivenNow
    <2>2. Taken(s) = LET rows == KeyedRows(s) IN IF rows = <<>> THEN <<>> ELSE <<Last(rows)>>
      BY <2>1, FoundIsLast
    <2> QED
      BY <2>2, AnswerNow
  <1> SUFFICES ASSUME PlainKeys PROVE PlannerSpec => []IndexAnswersLast
    OBVIOUS
  <1>2. QueryInv /\ StatementNow => IndexAnswersLast
    BY <1>1
  <1> QED
    BY <1>2, QueryInvariant, StatementKept, PTL
=============================================================================
