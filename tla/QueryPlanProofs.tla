--------------------------- MODULE QueryPlanProofs ---------------------------
(***************************************************************************)
(* That the calls of operators keep to a protocol, and what follows from   *)
(* it for the pins of the buffer pool, for every plan, table and pool;     *)
(* then that a sort returns its input in order, for every input, length of *)
(* a run and number of streams.                                            *)
(***************************************************************************)
EXTENDS QueryPlanner, ExternalSort, FiniteSetTheorems, SequenceTheorems, WellFoundedInduction, TLAPS

Methods == {"open", "next", "close"}

Active(k) == \E j \in DOMAIN stack : stack[j].op = k

\* Where each method of each operator may be.
Places(kind, call) ==
    CASE kind \in {"select", "project"} ->
             IF call = "next" THEN {"start", "asked"} ELSE {"start", "first"}
      [] kind = "join" ->
             (CASE call = "open" -> {"start", "first", "second", "primed"}
                [] call = "next" ->
                       {"start", "right", "match", "emit", "closed", "reopened", "left"}
                [] OTHER -> {"start", "first", "second"})
      [] kind = "sort" /\ call = "open" -> {"start", "consume", "got", "throw", "sort"}
      [] OTHER -> {"start"}

\* The input a method has called when it is at a place, and the method of it.
CalledInput(at) == IF at \in {"second", "right", "emit", "closed", "reopened"} THEN 2 ELSE 1
CalledMethod(call, at) ==
    CASE at \in {"first", "second"} -> call
      [] at \in {"consume", "reopened"} -> "open"
      [] at \in {"closed", "throw", "sort"} -> "close"
      [] OTHER -> "next"

\* Whether input n of an operator is open while a method of it is at a place.
InputOpen(kind, call, at, n) ==
    IF kind = "sort" THEN at \in {"consume", "got"}
    ELSE \/ call = "next" /\ ~(at = "closed" /\ n = 2)
         \/ call = "open" /\ (at \in {"second", "primed"} \/ (at = "first" /\ n = 1))
         \/ call = "close" /\ (at = "start" \/ (at = "first" /\ n = 2))

KindOf(j) == plan[stack[j].op].kind
InputsOf(j) == plan[stack[j].op].in

\* A method is at one of its places, and the operator open unless it is being opened.
PlaceOK(j) ==
    /\ stack[j].op \in DOMAIN plan
    /\ stack[j].call \in Methods
    /\ stack[j].at \in Places(KindOf(j), stack[j].call)
    /\ opened[stack[j].op] <=> (stack[j].call # "open")

\* The next call on the stack is the one the method has made.
LinkOK(j) ==
    j < Len(stack) =>
        /\ stack[j].at \notin {"start", "match"}
        /\ CalledInput(stack[j].at) \in DOMAIN InputsOf(j)
        /\ stack[j + 1].op = InputsOf(j)[CalledInput(stack[j].at)]
        /\ stack[j + 1].call = CalledMethod(stack[j].call, stack[j].at)

\* The inputs with no call in progress are open as the method expects.
InputsOK(j) ==
    \A n \in DOMAIN InputsOf(j) : ~Active(InputsOf(j)[n]) =>
        (opened[InputsOf(j)[n]] <=> InputOpen(KindOf(j), stack[j].call, stack[j].at, n))

\* With no call in progress, the inputs are open with the operator; of a sort, never.
IdleOK(k) ==
    ~Active(k) => \A n \in DOMAIN plan[k].in : ~Active(plan[k].in[n]) =>
        (opened[plan[k].in[n]] <=> (opened[k] /\ plan[k].kind # "sort"))

Consuming == phase \notin {"failed", "raised", "halted"}
CallOf(ph) == CASE ph = "opening" -> "open" [] ph = "closing" -> "close" [] OTHER -> "next"

RootOK ==
    /\ stack # <<>> => /\ phase \in {"opening", "asking", "again", "closing"}
                       /\ stack[1].op = Len(plan) /\ stack[1].call = CallOf(phase)
    /\ stack = <<>> /\ Consuming =>
        (opened[Len(plan)] <=> phase \notin {"closed", "closing"})

Downwards == \A i, j \in DOMAIN stack : i < j => stack[j].op < stack[i].op

ProtocolInv ==
    /\ RootOK /\ Downwards
    /\ \A j \in DOMAIN stack : PlaceOK(j) /\ LinkOK(j) /\ InputsOK(j)
    /\ Consuming => \A k \in DOMAIN plan : IdleOK(k)

-----------------------------------------------------------------------------
(* Sequences *)

\* A sequence is one over its own elements.
LEMMA OwnElements == ASSUME NEW S, NEW s \in Seq(S) PROVE s \in Seq(Range(s))
  <1>1. /\ Len(s) \in Nat /\ s \in [1 .. Len(s) -> S]
    BY LenProperties
  <1>2. s \in [1 .. Len(s) -> Range(s)]
    BY <1>1 DEF Range
  <1> QED
    BY <1>1, <1>2, SeqDef

\* A stack whose last element is replaced, and one on which another is pushed then.
Moved(s, f) == [s EXCEPT ![Len(s)] = f]
Pushed(s, f, e) == Append(Moved(s, f), e)

\* What is moved is the last element.
LEMMA MoveFacts ==
    ASSUME NEW s, s \in Seq(Range(s)), s # <<>>, NEW f, NEW t, t = Moved(s, f)
    PROVE  /\ t \in Seq(Range(t)) /\ Len(t) = Len(s) /\ t # <<>>
           /\ Len(s) \in Nat \ {0}
           /\ \A i \in 1 .. Len(s) - 1 : t[i] = s[i]
           /\ t[Len(s)] = f
  <1> DEFINE T == Range(s) \cup {f}
  <1>1. Len(s) \in Nat \ {0} /\ s \in Seq(T)
    BY EmptySeq, SeqMonotonic
  <1>2. /\ t \in Seq(T) /\ Len(t) = Len(s)
        /\ \A j \in 1 .. Len(s) : t[j] = IF j = Len(s) THEN f ELSE s[j]
    BY <1>1, ExceptSeq DEF Moved
  <1>3. t \in Seq(Range(t))
    BY <1>2, OwnElements
  <1> QED
    BY <1>1, <1>2, <1>3

\* What is pushed on a stack whose last element is replaced.
LEMMA PushFacts ==
    ASSUME NEW s, s \in Seq(Range(s)), s # <<>>, NEW f, NEW e, NEW t,
           t = Pushed(s, f, e)
    PROVE  /\ t \in Seq(Range(t)) /\ Len(t) = Len(s) + 1 /\ t # <<>>
           /\ Len(s) \in Nat \ {0}
           /\ \A i \in 1 .. Len(s) - 1 : t[i] = s[i]
           /\ t[Len(s)] = f /\ t[Len(s) + 1] = e
  <1> DEFINE u == Moved(s, f)
             T == Range(u) \cup {e}
  <1>1. /\ u \in Seq(Range(u)) /\ Len(u) = Len(s) /\ u # <<>>
        /\ Len(s) \in Nat \ {0}
        /\ \A i \in 1 .. Len(s) - 1 : u[i] = s[i]
        /\ u[Len(s)] = f
    BY MoveFacts
  <1>2. u \in Seq(T)
    BY <1>1, SeqMonotonic
  <1>3. t = Append(u, e) /\ e \in T
    BY DEF Pushed
  <1> HIDE DEF u, T
  <1>4. /\ t \in Seq(T) /\ t # <<>> /\ Len(t) = Len(u) + 1
        /\ \A i \in 1 .. Len(u) : t[i] = u[i]
        /\ t[Len(u) + 1] = e
    BY ONLY <1>2, <1>3, AppendProperties
  <1>5. t \in Seq(Range(t))
    BY <1>4, OwnElements
  <1> QED
    BY <1>1, <1>4, <1>5

\* A stack without its last element.
LEMMA PopFacts ==
    ASSUME NEW s, s \in Seq(Range(s)), s # <<>>, NEW t, t = Front(s)
    PROVE  /\ t \in Seq(Range(t)) /\ Len(t) = Len(s) - 1
           /\ Len(s) \in Nat \ {0} /\ Len(t) \in Nat
           /\ \A i \in 1 .. Len(s) - 1 : t[i] = s[i]
           /\ (t = <<>>) <=> (Len(s) = 1)
  <1>1. /\ Len(s) \in Nat \ {0}
        /\ \A i \in 1 .. Len(s) - 1 : s[i] \in Range(s)
    BY EmptySeq, LenProperties, ElementOfSeq
  <1>2. t = SubSeq(s, 1, Len(s) - 1)
    BY DEF Front
  <1> DEFINE n == Len(s) - 1
  <1>3. n \in Int /\ 1 \in Int /\ \A i \in 1 .. n : s[i] \in Range(s)
    BY <1>1
  <1> HIDE DEF n
  <1>4. /\ t \in Seq(Range(s)) /\ Len(t) = (IF 1 <= n THEN n - 1 + 1 ELSE 0)
        /\ \A i \in 1 .. n - 1 + 1 : t[i] = s[1 + i - 1]
    BY ONLY <1>2, <1>3, SubSeqProperties DEF n
  <1>5. /\ Len(t) = Len(s) - 1
        /\ \A i \in 1 .. Len(s) - 1 : t[i] = s[i]
    <2>1. n \in Nat
      BY <1>1 DEF n
    <2>2. Len(t) = n
      BY <2>1, <1>4
    <2>3. ASSUME NEW i \in 1 .. n PROVE t[i] = s[i]
      <3>1. i \in 1 .. n - 1 + 1 /\ 1 + i - 1 = i
        BY <2>1
      <3> QED
        BY <3>1, <1>4
    <2> QED
      BY <2>2, <2>3 DEF n
  <1>6. t \in Seq(Range(t))
    BY <1>4, OwnElements
  <1>7. (t = <<>>) <=> (Len(t) = 0)
    BY <1>4, <1>5, <1>1, EmptySeq
  <1> QED
    BY <1>1, <1>5, <1>6, <1>7

-----------------------------------------------------------------------------
(* Types *)

\* A scan that holds a page is still before the end of its file.
ScanOK(k) ==
    /\ state[k] \in [page : Nat \ {0}, slot : Nat, holds : BOOLEAN]
    /\ state[k].holds => state[k].page < plan[k].max

\* The inputs of an operator come before it, and are as many as its kind has.
LEMMA InputFacts ==
    ASSUME NEW q, IsPlan(q), NEW k \in DOMAIN q
    PROVE  /\ DOMAIN q = 1 .. Len(q) /\ Len(q) \in Nat \ {0} /\ k \in Nat
           /\ q[k].kind \in {"scan", "index", "select", "project", "sort", "join"}
           /\ DOMAIN q[k].in = 1 .. Arity(q[k].kind)
           /\ \A n \in DOMAIN q[k].in :
                /\ q[k].in[n] \in DOMAIN q /\ q[k].in[n] \in Nat
                /\ q[k].in[n] < k
  <1>1. q \in Seq(Range(q)) /\ q # <<>>
    BY DEF IsPlan
  <1>2. DOMAIN q = 1 .. Len(q) /\ Len(q) \in Nat \ {0}
    BY <1>1, LenProperties, EmptySeq
  <1>3. /\ q[k].kind \in {"scan", "index", "select", "project", "sort", "join"}
        /\ q[k].in \in Seq(1 .. k - 1) /\ Len(q[k].in) = Arity(q[k].kind)
    BY DEF IsPlan, InputsFirst
  <1>4. DOMAIN q[k].in = 1 .. Arity(q[k].kind)
    BY <1>3, LenProperties
  <1>5. \A n \in DOMAIN q[k].in : q[k].in[n] \in 1 .. k - 1
    BY <1>3, ElementOfSeq, LenProperties
  <1> QED
    BY <1>2, <1>3, <1>4, <1>5

\* What a method finds of the inputs when it starts.
LEMMA StartOpen ==
    ASSUME NEW kind, NEW call \in Methods, NEW n
    PROVE  InputOpen(kind, call, "start", n) <=> (call # "open" /\ kind # "sort")
  BY DEF InputOpen, Methods

-----------------------------------------------------------------------------
(* The protocol *)

StackTyped == stack \in Seq(Range(stack))

\* What a method may do to call input n: it goes to a place at which it has made that call,
\* the input is open unless the call is open, and it expects of the other what it did.
MayCall(n, call, at) ==
    /\ n \in DOMAIN Op.in
    /\ at \in Places(Op.kind, Frame.call) /\ at \notin {"start", "match"}
    /\ n = CalledInput(at) /\ call = CalledMethod(Frame.call, at) /\ call \in Methods
    /\ InputOpen(Op.kind, Frame.call, Frame.at, n) <=> (call # "open")
    /\ \A m \in DOMAIN Op.in : m # n =>
         (InputOpen(Op.kind, Frame.call, at, m) <=> InputOpen(Op.kind, Frame.call, Frame.at, m))

\* A call that a method may make keeps the protocol.
LEMMA CallKeeps ==
    ASSUME IsPlan(plan), StackTyped, ProtocolInv, stack # <<>>, Consuming,
           NEW n, NEW call, NEW at, NEW built, NEW members, MayCall(n, call, at),
           CallThen(n, call, at, built, members)
    PROVE  StackTyped' /\ ProtocolInv'
  <1> DEFINE L == Len(stack)
             k == Op.in[n]
             f == [op |-> Self, call |-> Frame.call, at |-> at, out |-> built]
  <1>1. Frame = stack[L] /\ Self = stack[L].op
    BY DEF Frame, Self, Last
  <1>2. /\ L \in Nat \ {0} /\ DOMAIN stack = 1 .. L /\ L \in DOMAIN stack
    BY EmptySeq, LenProperties DEF StackTyped
  <1> HIDE DEF L
  <1>4. /\ stack' \in Seq(Range(stack')) /\ Len(stack') = L + 1 /\ stack' # <<>>
        /\ \A i \in 1 .. L - 1 : stack'[i] = stack[i]
        /\ stack'[L] = f /\ stack'[L + 1] = Entered(k, call)
    <2>1. stack' = Pushed(stack, f, Entered(k, call))
      BY DEF CallThen, At, Pushed, Moved
    <2>2. stack \in Seq(Range(stack)) /\ stack # <<>>
      BY DEF StackTyped
    <2> HIDE DEF k, f
    <2> QED
      BY <2>1, <2>2, PushFacts DEF L
  <1>u. /\ plan' = plan /\ phase' = phase /\ opened' = opened
        /\ Consuming' = Consuming
    BY DEF CallThen, Consumer, given, Consuming
  <1>5. DOMAIN stack' = 1 .. L + 1
    BY <1>4, LenProperties
  <1>6. /\ f.op = Self /\ f.call = Frame.call /\ f.at = at
        /\ Entered(k, call) = [op |-> k, call |-> call, at |-> "start", out |-> <<>>]
    BY DEF Entered
  <1>7. \A i \in 1 .. L : stack'[i].op = stack[i].op /\ stack'[i].call = stack[i].call
    BY <1>1, <1>2, <1>4, <1>6
  <1>8. stack'[L + 1].op = k /\ stack'[L + 1].call = call /\ stack'[L + 1].at = "start"
    BY <1>4, <1>6
  <1>9. StackTyped'
    BY <1>4 DEF StackTyped
  <1> HIDE DEF f
  <1>10. /\ Self \in DOMAIN plan /\ k \in DOMAIN plan
         /\ k \in Nat /\ Self \in Nat /\ k < Self
         /\ Frame.call \in Methods /\ Frame.at \in Places(Op.kind, Frame.call)
         /\ opened[Self] <=> (Frame.call # "open")
    BY <1>1, <1>2, InputFacts DEF ProtocolInv, PlaceOK, KindOf, MayCall, Op
  <1>11. \A j \in 1 .. L : stack[j].op \in Nat /\ k < stack[j].op
    <2>1. ASSUME NEW j \in 1 .. L PROVE stack[j].op \in Nat /\ k < stack[j].op
      <3>1. stack[j].op \in DOMAIN plan /\ stack[j].op \in Nat
        BY <1>2, InputFacts DEF ProtocolInv, PlaceOK
      <3>2. j = L \/ j < L
        BY <1>2, <2>1
      <3>3. j < L => Self < stack[j].op
        BY <1>1, <1>2 DEF ProtocolInv, Downwards
      <3> QED
        BY <1>1, <1>10, <3>1, <3>2, <3>3
    <2> QED
      BY <2>1
  <1>12. ~Active(k)
    BY <1>2, <1>10, <1>11 DEF Active
  <1>13. \A m : Active(m)' <=> (Active(m) \/ m = k)
    BY <1>2, <1>5, <1>7, <1>8 DEF Active
  <1>14. opened[k] <=> (call # "open")
    <2>1. opened[k] <=> InputOpen(Op.kind, Frame.call, Frame.at, n)
      BY <1>1, <1>2, <1>12 DEF ProtocolInv, InputsOK, InputsOf, KindOf, MayCall, Op
    <2> QED
      BY <2>1 DEF MayCall
  <1>15. RootOK'
    BY <1>2, <1>4, <1>7, <1>u DEF ProtocolInv, RootOK, Consuming
  <1>16. Downwards'
    <2>1. ASSUME NEW i \in 1 .. L + 1, NEW j \in 1 .. L + 1, i < j
          PROVE  stack'[j].op < stack'[i].op
      <3>1. CASE j = L + 1
        <4>1. i \in 1 .. L
          BY <1>2, <2>1, <3>1
        <4> QED
          BY <1>7, <1>8, <1>11, <3>1, <4>1
      <3>2. CASE j # L + 1
        <4>1. i \in 1 .. L /\ j \in 1 .. L
          BY <1>2, <2>1, <3>2
        <4>2. stack[j].op < stack[i].op
          BY <1>2, <2>1, <4>1 DEF ProtocolInv, Downwards
        <4> QED
          BY <1>7, <4>1, <4>2
      <3> QED
        BY <3>1, <3>2
    <2> QED
      BY <1>5, <2>1 DEF Downwards
  <1>17. ASSUME NEW j \in DOMAIN stack' PROVE PlaceOK(j)' /\ LinkOK(j)' /\ InputsOK(j)'
    <2>1. CASE j \in 1 .. L - 1
      <3>0. /\ j \in DOMAIN stack /\ j \in 1 .. L /\ j + 1 \in 1 .. L
            /\ j < Len(stack) /\ j < Len(stack')
        BY <1>2, <1>4, <2>1 DEF L
      <3>1. PlaceOK(j) /\ LinkOK(j) /\ InputsOK(j)
        BY <3>0 DEF ProtocolInv
      <3>2. /\ stack'[j] = stack[j] /\ stack'[j + 1].op = stack[j + 1].op
            /\ stack'[j + 1].call = stack[j + 1].call
        BY <1>4, <1>7, <2>1, <3>0
      <3>3. PlaceOK(j)'
        BY <3>1, <3>2, <1>u DEF PlaceOK, KindOf
      <3>4. LinkOK(j)'
        BY <3>0, <3>1, <3>2, <1>u DEF LinkOK, InputsOf
      <3>5. InputsOK(j)'
        BY <1>13, <3>1, <3>2, <1>u DEF InputsOK, InputsOf, KindOf
      <3> QED
        BY <3>3, <3>4, <3>5
    <2>2. CASE j = L
      <3>1. stack'[j].op = Self /\ stack'[j].call = Frame.call /\ stack'[j].at = at
        BY <1>4, <1>6, <2>2
      <3>2. PlaceOK(j)'
        BY <1>10, <3>1, <1>u DEF PlaceOK, KindOf, MayCall, Op
      <3>3. LinkOK(j)'
        BY <1>8, <2>2, <3>1, <1>u DEF LinkOK, InputsOf, MayCall, Op
      <3>4. InputsOK(j)'
        <4>1. InputsOK(L)
          BY <1>2 DEF ProtocolInv
        <4>2. ASSUME NEW m \in DOMAIN Op.in, ~(Active(Op.in[m]) \/ Op.in[m] = k)
              PROVE  opened[Op.in[m]] <=> InputOpen(Op.kind, Frame.call, at, m)
          <5>1. ~Active(Op.in[m]) /\ m # n
            BY <4>2
          <5>2. opened[Op.in[m]] <=> InputOpen(Op.kind, Frame.call, Frame.at, m)
            BY <1>1, <4>1, <5>1, <1>u DEF InputsOK, InputsOf, KindOf, Op
          <5> QED
            BY <5>1, <5>2 DEF MayCall
        <4> QED
          <5>1. InputsOf(j)' = Op.in /\ KindOf(j)' = Op.kind
            BY <3>1, <1>u DEF InputsOf, KindOf, Op
          <5> QED
            BY <1>13, <3>1, <4>2, <5>1, <1>u DEF InputsOK
      <3> QED
        BY <3>2, <3>3, <3>4
    <2>3. CASE j = L + 1
      <3>1. stack'[j].op = k /\ stack'[j].call = call /\ stack'[j].at = "start"
        BY <1>8, <2>3
      <3>2. PlaceOK(j)'
        BY <1>10, <1>14, <3>1, <1>u DEF PlaceOK, KindOf, MayCall, Places
      <3>3. LinkOK(j)'
        <4>1. ~(j < Len(stack'))
          BY <1>2, <1>4, <2>3
        <4> QED
          BY <4>1 DEF LinkOK
      <3>4. InputsOK(j)'
        <4>1. \A m \in DOMAIN plan[k].in : ~Active(plan[k].in[m]) =>
                (opened[plan[k].in[m]] <=> (opened[k] /\ plan[k].kind # "sort"))
          BY <1>10, <1>12 DEF ProtocolInv, IdleOK
        <4>2. ASSUME NEW m \in DOMAIN plan[k].in,
                     ~(Active(plan[k].in[m]) \/ plan[k].in[m] = k)
              PROVE  opened[plan[k].in[m]] <=> InputOpen(plan[k].kind, call, "start", m)
          <5>1. InputOpen(plan[k].kind, call, "start", m)
                  <=> (call # "open" /\ plan[k].kind # "sort")
            BY StartOpen DEF MayCall
          <5> QED
            BY <1>14, <4>1, <4>2, <5>1
        <4>3. InputsOf(j)' = plan[k].in /\ KindOf(j)' = plan[k].kind
          BY <3>1, <1>u DEF InputsOf, KindOf
        <4> QED
          BY <1>13, <3>1, <4>2, <4>3, <1>u DEF InputsOK
      <3> QED
        BY <3>2, <3>3, <3>4
    <2> QED
      BY <1>2, <1>5, <2>1, <2>2, <2>3
  <1>18. \A m \in DOMAIN plan : IdleOK(m)'
    BY <1>13, <1>u DEF ProtocolInv, IdleOK
  <1> QED
    BY <1>9, <1>15, <1>16, <1>17, <1>18, <1>u DEF ProtocolInv

\* A method has called its input to close it, or leaves it open.
LEMMA CalledOpen ==
    ASSUME NEW kind \in {"scan", "index", "select", "project", "sort", "join"},
           NEW call \in Methods, NEW at \in Places(kind, call), at \notin {"start", "match"}
    PROVE  InputOpen(kind, call, at, CalledInput(at)) <=> (CalledMethod(call, at) # "close")
  <1>1. CASE kind \in {"scan", "index"}
    BY <1>1 DEF Places, Methods
  <1>2. CASE kind \in {"select", "project"}
    BY <1>2 DEF Places, Methods, InputOpen, CalledInput, CalledMethod
  <1>3. CASE kind = "sort"
    BY <1>3 DEF Places, Methods, InputOpen, CalledInput, CalledMethod
  <1>4. CASE kind = "join" /\ call = "next"
    BY <1>4 DEF Places, Methods, InputOpen, CalledInput, CalledMethod
  <1>5. CASE kind = "join" /\ call # "next"
    BY <1>5 DEF Places, Methods, InputOpen, CalledInput, CalledMethod
  <1> QED
    BY <1>1, <1>2, <1>3, <1>4, <1>5

\* A method may return when its inputs are as an operator that is open, or closed, has them.
MayReturn ==
    \A m \in DOMAIN Op.in :
        InputOpen(Op.kind, Frame.call, Frame.at, m) <=> (Frame.call # "close" /\ Op.kind # "sort")

\* A return that a method may make keeps the protocol.
LEMMA LeaveKeeps ==
    ASSUME IsPlan(plan), opened \in [DOMAIN plan -> BOOLEAN], StackTyped, ProtocolInv,
           stack # <<>>, Consuming, MayReturn, NEW r, NEW members, Leave(r, members)
    PROVE  StackTyped' /\ ProtocolInv' /\ opened' \in [DOMAIN plan -> BOOLEAN]
  <1> DEFINE L == Len(stack)
  <1>1. Frame = stack[L] /\ Self = stack[L].op
    BY DEF Frame, Self, Last
  <1>2. /\ L \in Nat \ {0} /\ DOMAIN stack = 1 .. L /\ L \in DOMAIN stack
    BY EmptySeq, LenProperties DEF StackTyped
  <1>3. /\ stack' \in Seq(Range(stack')) /\ Len(stack') = L - 1
        /\ \A i \in 1 .. L - 1 : stack'[i] = stack[i]
        /\ (stack' = <<>>) <=> (L = 1)
    BY PopFacts DEF Leave, StackTyped
  <1>4. DOMAIN stack' = 1 .. L - 1
    BY <1>3, LenProperties
  <1> HIDE DEF L
  <1>5. /\ plan' = plan /\ phase' = phase /\ Consuming' = Consuming
        /\ opened' = [opened EXCEPT ![Self] = Frame.call # "close"]
    BY DEF Leave, Consumer, given, Consuming
  <1>6. /\ Self \in DOMAIN plan /\ Self \in Nat /\ Frame.call \in Methods
        /\ PlaceOK(L) /\ InputsOK(L)
    BY <1>1, <1>2, InputFacts DEF ProtocolInv, PlaceOK
  <1>7. /\ opened' \in [DOMAIN plan -> BOOLEAN]
        /\ opened'[Self] <=> (Frame.call # "close")
        /\ \A m \in DOMAIN plan : m # Self => opened'[m] = opened[m]
    BY <1>5, <1>6
  <1>8. ASSUME NEW j \in 1 .. L - 1
        PROVE  /\ j \in DOMAIN stack /\ j + 1 \in DOMAIN stack /\ j < Len(stack)
               /\ j + 1 < L => j + 1 \in 1 .. L - 1
               /\ PlaceOK(j) /\ LinkOK(j) /\ InputsOK(j)
               /\ stack[j].op \in DOMAIN plan /\ stack[j].op \in Nat
               /\ Self < stack[j].op
    <2>1. /\ j \in DOMAIN stack /\ j + 1 \in DOMAIN stack /\ j < Len(stack) /\ j < L
          /\ j + 1 < L => j + 1 \in 1 .. L - 1
      BY <1>2 DEF L
    <2>2. PlaceOK(j) /\ LinkOK(j) /\ InputsOK(j)
      BY <2>1 DEF ProtocolInv
    <2>3. stack[j].op \in DOMAIN plan /\ stack[j].op \in Nat
      BY <2>2, InputFacts DEF PlaceOK
    <2>4. Self < stack[j].op
      BY <1>1, <1>2, <2>1 DEF ProtocolInv, Downwards
    <2> QED
      BY <2>1, <2>2, <2>3, <2>4
  <1>9. ASSUME NEW m PROVE Active(m)' <=> (Active(m) /\ m # Self)
    <2>1. Active(m) <=> m = Self \/ \E j \in 1 .. L - 1 : stack[j].op = m
      <3>1. \A j : j \in 1 .. L <=> (j = L \/ j \in 1 .. L - 1)
        BY <1>2
      <3> QED
        BY <1>1, <1>2, <3>1 DEF Active
    <2>2. Active(m)' <=> \E j \in 1 .. L - 1 : stack[j].op = m
      BY <1>3, <1>4 DEF Active
    <2>3. ~ \E j \in 1 .. L - 1 : stack[j].op = Self
      BY <1>6, <1>8
    <2> QED
      BY <2>1, <2>2, <2>3
  \* the caller, if there is one, is the only operator that has this one as an input
  <1>10. ASSUME NEW m \in DOMAIN plan, NEW n \in DOMAIN plan[m].in, plan[m].in[n] = Self
         PROVE  /\ L - 1 \in 1 .. L - 1
                /\ stack[L - 1].op = m /\ CalledInput(stack[L - 1].at) = n
    <2>1. L # 1
      <3>1. L = 1 => Self = Len(plan)
        BY <1>1 DEF ProtocolInv, RootOK
      <3>2. Self < m /\ m \in 1 .. Len(plan) /\ Len(plan) \in Nat
        BY <1>10, InputFacts
      <3> QED
        BY <1>6, <3>1, <3>2
    <2>2. L - 1 \in 1 .. L - 1 /\ (L - 1) + 1 = L
      BY <1>2, <2>1
    <2>3. /\ stack[L - 1].op \in DOMAIN plan
          /\ CalledInput(stack[L - 1].at) \in DOMAIN plan[stack[L - 1].op].in
          /\ Self = plan[stack[L - 1].op].in[CalledInput(stack[L - 1].at)]
      BY <1>1, <1>8, <2>2 DEF LinkOK, InputsOf
    <2>4. UsedOnce(plan)
      BY DEF IsPlan
    <2> QED
      BY <1>10, <2>2, <2>3, <2>4 DEF UsedOnce
  <1>11. StackTyped'
    BY <1>3 DEF StackTyped
  <1>12. RootOK'
    <2>1. CASE L = 1
      <3>1. /\ stack' = <<>> /\ Self = Len(plan) /\ Frame.call = CallOf(phase)
            /\ phase \in {"opening", "asking", "again", "closing"}
        BY <1>1, <1>3, <2>1 DEF ProtocolInv, RootOK
      <3>2. opened'[Len(plan)] <=> (CallOf(phase) # "close")
        BY <1>7, <3>1
      <3>3. (CallOf(phase) # "close") <=> phase \notin {"closed", "closing"}
        BY <3>1 DEF CallOf
      <3> QED
        BY <1>5, <3>1, <3>2, <3>3 DEF RootOK
    <2>2. CASE L # 1
      <3>1. stack'[1] = stack[1] /\ stack' # <<>>
        BY <1>2, <1>3, <2>2
      <3> QED
        BY <1>5, <3>1 DEF ProtocolInv, RootOK
    <2> QED
      BY <2>1, <2>2
  <1>13. Downwards'
    <2>1. ASSUME NEW i \in 1 .. L - 1, NEW j \in 1 .. L - 1, i < j
          PROVE  stack'[j].op < stack'[i].op
      BY <1>3, <1>8, <2>1 DEF ProtocolInv, Downwards
    <2> QED
      BY <1>4, <2>1 DEF Downwards
  <1>14. ASSUME NEW j \in DOMAIN stack' PROVE PlaceOK(j)' /\ LinkOK(j)' /\ InputsOK(j)'
    <2>1. /\ j \in 1 .. L - 1 /\ stack'[j] = stack[j] /\ stack[j].op # Self
          /\ stack[j].op \in DOMAIN plan
      BY <1>3, <1>4, <1>6, <1>8
    <2>2. PlaceOK(j)'
      BY <1>5, <1>7, <1>8, <2>1 DEF PlaceOK, KindOf
    <2>3. LinkOK(j)'
      <3>1. CASE j < Len(stack')
        <4>1. j + 1 \in 1 .. L - 1
          BY <1>2, <1>3, <2>1, <3>1
        <4>2. stack'[j + 1] = stack[j + 1]
          BY <1>3, <4>1
        <4> QED
          BY <1>5, <1>8, <2>1, <4>2 DEF LinkOK, InputsOf
      <3>2. CASE ~(j < Len(stack'))
        BY <3>2 DEF LinkOK
      <3> QED
        BY <3>1, <3>2
    <2>4. InputsOK(j)'
      <3>1. ASSUME NEW n \in DOMAIN InputsOf(j), ~(Active(InputsOf(j)[n]) /\ InputsOf(j)[n] # Self)
            PROVE  opened'[InputsOf(j)[n]]
                     <=> InputOpen(KindOf(j), stack[j].call, stack[j].at, n)
        <4>1. InputsOf(j)[n] \in DOMAIN plan
          BY <2>1, InputFacts DEF InputsOf
        <4>2. CASE InputsOf(j)[n] # Self
          BY <1>7, <1>8, <2>1, <3>1, <4>1, <4>2 DEF InputsOK
        <4>3. CASE InputsOf(j)[n] = Self
          <5>1. /\ L - 1 \in 1 .. L - 1 /\ stack[L - 1].op = stack[j].op
                /\ CalledInput(stack[L - 1].at) = n
            BY <1>10, <2>1, <4>3 DEF InputsOf
          <5>2. j = L - 1
            <6>1. ~(j < L - 1)
              BY <1>8, <2>1, <5>1 DEF ProtocolInv, Downwards
            <6> QED
              BY <1>2, <2>1, <6>1
          <5>3. /\ stack[j].at \notin {"start", "match"}
                /\ Frame.call = CalledMethod(stack[j].call, stack[j].at)
            BY <1>1, <1>2, <1>8, <2>1, <5>2 DEF LinkOK
          <5>4. /\ KindOf(j) \in {"scan", "index", "select", "project", "sort", "join"}
                /\ stack[j].call \in Methods /\ stack[j].at \in Places(KindOf(j), stack[j].call)
            BY <1>8, <2>1, InputFacts DEF PlaceOK, KindOf
          <5> QED
            BY <1>7, <4>3, <5>1, <5>2, <5>3, <5>4, CalledOpen
        <4> QED
          BY <4>2, <4>3
      <3>2. InputsOf(j)' = InputsOf(j) /\ KindOf(j)' = KindOf(j)
        BY <1>5, <2>1 DEF InputsOf, KindOf
      <3> QED
        BY <1>9, <2>1, <3>1, <3>2 DEF InputsOK
    <2> QED
      BY <2>2, <2>3, <2>4
  <1>15. ASSUME NEW m \in DOMAIN plan PROVE IdleOK(m)'
    <2>1. SUFFICES ASSUME ~(Active(m) /\ m # Self), NEW n \in DOMAIN plan[m].in,
                          ~(Active(plan[m].in[n]) /\ plan[m].in[n] # Self)
                   PROVE  opened'[plan[m].in[n]] <=> (opened'[m] /\ plan[m].kind # "sort")
      BY <1>5, <1>9 DEF IdleOK
    <2>2. /\ plan[m].in[n] \in DOMAIN plan /\ plan[m].in[n] \in Nat
          /\ plan[m].in[n] < m /\ m \in Nat
      BY <2>1, InputFacts
    <2>3. CASE m = Self
      <3>1. plan[m].in[n] # Self
        BY <2>2, <2>3
      <3>2. opened[plan[m].in[n]] <=> InputOpen(Op.kind, Frame.call, Frame.at, n)
        BY <1>1, <1>6, <2>1, <2>3, <3>1 DEF InputsOK, InputsOf, KindOf, Op
      <3> QED
        BY <1>7, <2>1, <2>2, <2>3, <3>1, <3>2 DEF MayReturn, Op
    <2>4. CASE m # Self
      <3>1. ~Active(m)
        BY <2>1, <2>4
      <3>2. plan[m].in[n] # Self
        <4>1. L - 1 \in 1 .. L - 1 /\ stack[L - 1].op = m => Active(m)
          BY <1>8 DEF Active
        <4> QED
          BY <1>10, <2>1, <3>1, <4>1
      <3>3. opened[plan[m].in[n]] <=> (opened[m] /\ plan[m].kind # "sort")
        BY <2>1, <3>1, <3>2 DEF ProtocolInv, IdleOK
      <3> QED
        BY <1>7, <2>2, <2>4, <3>2, <3>3
    <2> QED
      BY <2>3, <2>4
  <1> QED
    BY <1>5, <1>7, <1>11, <1>12, <1>13, <1>14, <1>15 DEF ProtocolInv

\* A method may go on at a place at which it expects the same of its inputs.
MayGoOn(at) ==
    /\ at \in Places(Op.kind, Frame.call)
    /\ \A m \in DOMAIN Op.in :
         InputOpen(Op.kind, Frame.call, at, m) <=> InputOpen(Op.kind, Frame.call, Frame.at, m)

\* Going on keeps the protocol.
LEMMA ContinueKeeps ==
    ASSUME IsPlan(plan), StackTyped, ProtocolInv, stack # <<>>,
           NEW at, MayGoOn(at), NEW members, Continue(at, members)
    PROVE  StackTyped' /\ ProtocolInv'
  <1> DEFINE L == Len(stack)
             f == At(at, Frame.out)
  <1>1. Frame = stack[L] /\ Self = stack[L].op
    BY DEF Frame, Self, Last
  <1>2. /\ L \in Nat \ {0} /\ DOMAIN stack = 1 .. L /\ L \in DOMAIN stack
    BY EmptySeq, LenProperties DEF StackTyped
  <1>3. /\ stack' \in Seq(Range(stack')) /\ Len(stack') = L /\ stack' # <<>>
        /\ \A i \in 1 .. L - 1 : stack'[i] = stack[i]
        /\ stack'[L] = f
    <2>1. stack' = Moved(stack, f)
      BY DEF Continue, Moved
    <2>2. stack \in Seq(Range(stack)) /\ stack # <<>>
      BY DEF StackTyped
    <2> HIDE DEF f
    <2> QED
      BY <2>1, <2>2, MoveFacts
  <1>4. DOMAIN stack' = 1 .. L
    BY <1>3, LenProperties
  <1> HIDE DEF L
  <1>5. /\ plan' = plan /\ phase' = phase /\ opened' = opened /\ Consuming' = Consuming
    BY DEF Continue, Consumer, given, Consuming
  <1>6. f.op = Self /\ f.call = Frame.call /\ f.at = at
    BY DEF At
  <1> HIDE DEF f
  <1>7. \A i \in 1 .. L : stack'[i].op = stack[i].op /\ stack'[i].call = stack[i].call
    BY <1>1, <1>2, <1>3, <1>6
  <1>8. \A m : Active(m)' <=> Active(m)
    BY <1>2, <1>4, <1>7 DEF Active
  <1>9. StackTyped'
    BY <1>3 DEF StackTyped
  <1>10. RootOK'
    BY <1>2, <1>3, <1>5, <1>7 DEF ProtocolInv, RootOK
  <1>11. Downwards'
    BY <1>2, <1>4, <1>7 DEF ProtocolInv, Downwards
  <1>12. ASSUME NEW j \in DOMAIN stack' PROVE PlaceOK(j)' /\ LinkOK(j)' /\ InputsOK(j)'
    <2>1. /\ PlaceOK(j) /\ LinkOK(j) /\ InputsOK(j)
          /\ stack'[j].op = stack[j].op /\ stack'[j].call = stack[j].call
      BY <1>2, <1>4, <1>7 DEF ProtocolInv
    <2>2. InputsOf(j)' = InputsOf(j) /\ KindOf(j)' = KindOf(j)
      BY <1>5, <2>1 DEF InputsOf, KindOf
    <2>3. CASE j = L
      <3>1. stack'[j].at = at
        BY <1>3, <1>6, <2>3
      <3>2. KindOf(j) = Op.kind /\ InputsOf(j) = Op.in /\ stack[j] = Frame
        BY <1>1, <2>3 DEF KindOf, InputsOf, Op
      <3>3. PlaceOK(j)'
        BY <1>5, <2>1, <2>2, <3>1, <3>2 DEF PlaceOK, MayGoOn
      <3>4. LinkOK(j)'
        <4>1. ~(j < Len(stack'))
          BY <1>2, <1>3, <2>3
        <4> QED
          BY <4>1 DEF LinkOK
      <3>5. InputsOK(j)'
        BY <1>5, <1>8, <2>1, <2>2, <3>1, <3>2 DEF InputsOK, MayGoOn
      <3> QED
        BY <3>3, <3>4, <3>5
    <2>4. CASE j # L
      <3>1. /\ j \in 1 .. L - 1 /\ j + 1 \in 1 .. L
            /\ j < Len(stack)
        BY <1>2, <1>4, <2>4 DEF L
      <3>2. stack'[j] = stack[j] /\ stack'[j + 1].op = stack[j + 1].op
            /\ stack'[j + 1].call = stack[j + 1].call
        BY <1>3, <1>7, <3>1
      <3>3. PlaceOK(j)' /\ InputsOK(j)'
        BY <1>5, <1>8, <2>1, <2>2, <3>2 DEF PlaceOK, InputsOK
      <3>4. LinkOK(j)'
        BY <2>1, <2>2, <3>1, <3>2 DEF LinkOK
      <3> QED
        BY <3>3, <3>4
    <2> QED
      BY <2>3, <2>4
  <1>13. ASSUME Consuming, NEW m \in DOMAIN plan PROVE IdleOK(m)'
    BY <1>5, <1>8, <1>13 DEF ProtocolInv, IdleOK
  <1> QED
    BY <1>5, <1>9, <1>10, <1>11, <1>12, <1>13 DEF ProtocolInv

\* The consumer opens what is closed, and asks and closes what is open.
LEMMA EnterKeeps ==
    ASSUME IsPlan(plan), ProtocolInv, Consuming, NEW call \in Methods, NEW from, NEW to,
           to \in {"opening", "asking", "again", "closing"}, call = CallOf(to),
           phase \notin {"closed", "closing"} <=> (call # "open"),
           Enter(call, from, to)
    PROVE  StackTyped' /\ ProtocolInv'
  <1> DEFINE e == Entered(Len(plan), call)
  <1>1. /\ stack = <<>> /\ stack' = <<e>> /\ phase' = to
        /\ plan' = plan /\ opened' = opened
    BY DEF Enter, given
  <1>2. e.op = Len(plan) /\ e.call = call /\ e.at = "start"
    BY DEF Entered
  <1> HIDE DEF e
  <1>3. /\ Len(stack') = 1 /\ DOMAIN stack' = {1} /\ stack'[1] = e
        /\ stack' \in Seq({e})
    BY <1>1
  <1>4. StackTyped'
    BY <1>3, OwnElements DEF StackTyped
  <1>5. Len(plan) \in DOMAIN plan
    BY EmptySeq, LenProperties DEF IsPlan
  <1>6. \A m : ~Active(m) /\ (Active(m)' <=> m = Len(plan))
    BY <1>1, <1>2, <1>3 DEF Active
  <1>7. opened[Len(plan)] <=> (call # "open")
    BY <1>1 DEF ProtocolInv, RootOK
  <1>8. RootOK'
    BY <1>1, <1>2, <1>3 DEF RootOK
  <1>9. Downwards'
    BY <1>3 DEF Downwards
  <1>10. InputsOf(1)' = plan[Len(plan)].in /\ KindOf(1)' = plan[Len(plan)].kind
    BY <1>1, <1>2, <1>3 DEF InputsOf, KindOf
  <1>11. PlaceOK(1)'
    BY <1>1, <1>2, <1>3, <1>5, <1>7, <1>10 DEF PlaceOK, Places
  <1>12. LinkOK(1)'
    BY <1>3 DEF LinkOK
  <1>13. InputsOK(1)'
    <2>1. ASSUME NEW m \in DOMAIN plan[Len(plan)].in
          PROVE  opened[plan[Len(plan)].in[m]]
                   <=> InputOpen(plan[Len(plan)].kind, call, "start", m)
      BY <1>5, <1>6, <1>7, StartOpen DEF ProtocolInv, IdleOK
    <2> QED
      BY <1>1, <1>2, <1>3, <1>10, <2>1 DEF InputsOK
  <1>14. ASSUME NEW m \in DOMAIN plan PROVE IdleOK(m)'
    BY <1>1, <1>6 DEF ProtocolInv, IdleOK
  <1> QED
    BY <1>1, <1>3, <1>4, <1>8, <1>9, <1>11, <1>12, <1>13, <1>14 DEF ProtocolInv

\* Between calls the consumer changes nothing that the operators see.
LEMMA ProceedKeeps ==
    ASSUME ProtocolInv, Consuming, NEW from, NEW to,
           phase \in {"closed", "closing"} <=> to \in {"closed", "closing"},
           Proceed(from, to)
    PROVE  StackTyped' /\ ProtocolInv'
  <1>1. /\ stack = <<>> /\ stack' = <<>> /\ phase' = to
        /\ plan' = plan /\ opened' = opened
    BY DEF Proceed, given
  <1>2. RootOK'
    BY <1>1 DEF ProtocolInv, RootOK
  <1>3. \A m : ~Active(m) /\ ~Active(m)'
    BY <1>1 DEF Active
  <1>4. ASSUME NEW m \in DOMAIN plan PROVE IdleOK(m)'
    BY <1>1, <1>3 DEF ProtocolInv, IdleOK
  <1> QED
    BY <1>1, <1>2, <1>4 DEF ProtocolInv, Downwards, StackTyped

\* Nothing is left to keep when a query ends where it is.
LEMMA AbortKeeps ==
    ASSUME NEW end \in {"failed", "raised", "halted"}, Abort(end)
    PROVE  StackTyped' /\ ProtocolInv'
  BY DEF Abort, ProtocolInv, RootOK, Downwards, Consuming, StackTyped

-----------------------------------------------------------------------------
(* Each step of an operator keeps the protocol *)

ProtocolKept == StackTyped' /\ ProtocolInv' /\ opened' \in [DOMAIN plan' -> BOOLEAN]
ProtocolNow ==
    IsPlan(plan) /\ StackTyped /\ ProtocolInv /\ opened \in [DOMAIN plan -> BOOLEAN]

\* What is known of the call in progress.
LEMMA FrameFacts ==
    ASSUME ProtocolNow, stack # <<>>
    PROVE  /\ Consuming /\ Self \in DOMAIN plan
           /\ Op.kind \in {"scan", "index", "select", "project", "sort", "join"}
           /\ DOMAIN Op.in = 1 .. Arity(Op.kind)
           /\ Frame.call \in Methods /\ Frame.at \in Places(Op.kind, Frame.call)
           /\ opened[Self] <=> (Frame.call # "open")
  <1>1. Frame = stack[Len(stack)] /\ Self = stack[Len(stack)].op
    BY DEF Frame, Self, Last
  <1>2. Len(stack) \in DOMAIN stack
    BY EmptySeq, LenProperties DEF ProtocolNow, StackTyped
  <1>3. PlaceOK(Len(stack))
    BY <1>2 DEF ProtocolNow, ProtocolInv
  <1>4. Consuming
    BY DEF ProtocolNow, ProtocolInv, RootOK, Consuming
  <1> QED
    BY <1>1, <1>3, <1>4, InputFacts DEF ProtocolNow, PlaceOK, KindOf, Op

\* The arities, one by one.
LEMMA Arities ==
    /\ Arity("scan") = 0 /\ Arity("index") = 0 /\ Arity("join") = 2
    /\ Arity("select") = 1 /\ Arity("project") = 1 /\ Arity("sort") = 1
  BY DEF Arity

\* A call, a return and a place further on, with what they may do.
LEMMA CallStep ==
    ASSUME ProtocolNow, stack # <<>>, NEW n, NEW call, NEW at, NEW built, NEW members,
           MayCall(n, call, at), CallThen(n, call, at, built, members)
    PROVE  ProtocolKept
  <1>1. opened' = opened /\ plan' = plan
    BY DEF CallThen, Consumer, given
  <1> QED
    BY <1>1, CallKeeps, FrameFacts DEF ProtocolNow, ProtocolKept

\* The same of a return.
LEMMA LeaveStep ==
    ASSUME ProtocolNow, stack # <<>>, MayReturn, NEW r, NEW members, Leave(r, members)
    PROVE  ProtocolKept
  <1>1. plan' = plan
    BY DEF Leave, Consumer, given
  <1> QED
    BY <1>1, LeaveKeeps, FrameFacts DEF ProtocolNow, ProtocolKept

\* And of going on.
LEMMA ContinueStep ==
    ASSUME ProtocolNow, stack # <<>>, NEW at, NEW members, MayGoOn(at), Continue(at, members)
    PROVE  ProtocolKept
  <1>1. opened' = opened /\ plan' = plan
    BY DEF Continue, Consumer, given
  <1> QED
    BY <1>1, ContinueKeeps DEF ProtocolNow, ProtocolKept

\* And of an end in the middle.
LEMMA AbortStep ==
    ASSUME ProtocolNow, NEW end \in {"failed", "raised", "halted"}, Abort(end)
    PROVE  ProtocolKept
  <1>1. opened' = opened /\ plan' = plan
    BY DEF Abort, given
  <1> QED
    BY <1>1, AbortKeeps DEF ProtocolNow, ProtocolKept

\* A step that leaves the calls as they are.
LEMMA SameCalls ==
    ASSUME ProtocolNow, UNCHANGED <<plan, stack, opened, phase>>
    PROVE  ProtocolKept
  <1>1. \A m : Active(m)' <=> Active(m)
    BY DEF Active
  <1>2. \A j : /\ PlaceOK(j)' <=> PlaceOK(j)
               /\ LinkOK(j)' <=> LinkOK(j)
               /\ InputsOK(j)' <=> InputsOK(j)
    BY <1>1 DEF PlaceOK, LinkOK, InputsOK, KindOf, InputsOf
  <1>3. \A m : IdleOK(m)' <=> IdleOK(m)
    BY <1>1 DEF IdleOK
  <1> QED
    BY <1>2, <1>3 DEF ProtocolNow, ProtocolKept, ProtocolInv, RootOK, Downwards, Consuming,
        StackTyped

\* The steps of Scan and IndexScan: they have no inputs.
LEMMA LeafSteps ==
    ASSUME ProtocolNow,
           \/ ScanOpen \/ ScanClose \/ ScanFetch \/ ScanFetchNull \/ ScanSlot
           \/ ScanPageDone \/ ScanEnd
           \/ IndexOpen \/ IndexNext \/ IndexNextThrows \/ IndexClose
    PROVE  ProtocolKept
  <1>1. stack # <<>> /\ Op.kind \in {"scan", "index"} /\ Frame.at = "start"
    BY DEF ScanOpen, ScanClose, ScanFetch, ScanFetchNull, ScanSlot, ScanPageDone, ScanEnd,
        IndexOpen, IndexNext, IndexNextThrows, IndexClose, ScanNext, Running
  <1>2. DOMAIN Op.in = {}
    BY <1>1, FrameFacts, Arities
  <1>3. MayReturn /\ MayGoOn("start")
    BY <1>1, <1>2, FrameFacts DEF MayReturn, MayGoOn
  <1>4. CASE \/ \E r, members : Leave(r, members)
             \/ \E members : Continue("start", members)
             \/ Abort("halted")
             \/ UNCHANGED <<plan, stack, opened, phase>>
    BY <1>1, <1>3, <1>4, LeaveStep, ContinueStep, AbortStep, SameCalls
  <1>5. CASE ScanFetch \/ ScanPageDone
    BY <1>4, <1>5 DEF ScanFetch, ScanPageDone, Consumer, given
  <1>6. CASE ScanFetchNull \/ IndexNextThrows
    BY <1>4, <1>6 DEF ScanFetchNull, IndexNextThrows
  <1>7. CASE ScanOpen \/ ScanClose \/ ScanEnd \/ IndexOpen \/ IndexNext \/ IndexClose
    BY <1>4, <1>7 DEF ScanOpen, ScanClose, ScanEnd, IndexOpen, IndexNext, IndexClose, Return
  <1>8. CASE ScanSlot
    BY <1>4, <1>8 DEF ScanSlot, Return
  <1> QED
    BY <1>5, <1>6, <1>7, <1>8

\* The steps of Select and Project, and the open and close that Join hands on.
LEMMA PassSteps ==
    ASSUME ProtocolNow, PassFirst \/ PassSecond \/ Passed \/ Ask \/ SelectNext \/ ProjectNext
    PROVE  ProtocolKept
  <1> USE DEF Methods, MayCall, MayReturn, Places, CalledInput, CalledMethod, InputOpen
  <1>1. CASE PassFirst
    <2>1. /\ stack # <<>> /\ Op.kind \in {"select", "project", "join"}
          /\ Frame.call \in {"open", "close"} /\ Frame.at = "start"
          /\ CallThen(1, Frame.call, "first", <<>>, My)
      BY <1>1 DEF PassFirst, PassesOn, Call
    <2>2. DOMAIN Op.in = 1 .. 1 \/ (DOMAIN Op.in = 1 .. 2 /\ Op.kind = "join")
      BY <2>1, FrameFacts, Arities
    <2>3. MayCall(1, Frame.call, "first")
      BY <2>1, <2>2
    <2> QED
      BY <2>1, <2>3, CallStep
  <1>2. CASE PassSecond
    <2>1. /\ stack # <<>> /\ Op.kind = "join"
          /\ Frame.call \in {"open", "close"} /\ Frame.at = "first"
          /\ CallThen(2, Frame.call, "second", <<>>, My)
      BY <1>2 DEF PassSecond, PassesOn, Call
    <2>2. DOMAIN Op.in = 1 .. 2
      BY <2>1, FrameFacts, Arities
    <2>3. MayCall(2, Frame.call, "second")
      BY <2>1, <2>2
    <2> QED
      BY <2>1, <2>3, CallStep
  <1>3. CASE Passed
    <2>1. /\ stack # <<>> /\ Op.kind \in {"select", "project", "join"}
          /\ Frame.call \in {"open", "close"}
          /\ \/ Frame.at = "first" /\ Op.kind # "join"
             \/ Frame.at = "second" /\ Frame.call = "close" /\ Op.kind = "join"
          /\ Leave(Nothing, My)
      BY <1>3, FrameFacts DEF Passed, PassesOn, Return
    <2>2. DOMAIN Op.in = 1 .. Arity(Op.kind)
      BY <2>1, FrameFacts
    <2>3. MayReturn
      BY <2>1, <2>2, Arities
    <2> QED
      BY <2>1, <2>3, LeaveStep
  <1>4. CASE Ask \/ SelectNext \/ ProjectNext
    <2>1. /\ stack # <<>> /\ Op.kind \in {"select", "project"}
          /\ Frame.call = "next" /\ Frame.at \in {"start", "asked"}
          /\ CallThen(1, "next", "asked", <<>>, My) \/ \E r, members : Leave(r, members)
      BY <1>4 DEF Ask, SelectNext, ProjectNext, Running, Call, Return
    <2>2. DOMAIN Op.in = 1 .. 1
      BY <2>1, FrameFacts, Arities
    <2>3. MayReturn /\ MayCall(1, "next", "asked")
      BY <2>1, <2>2
    <2> QED
      BY <2>1, <2>3, LeaveStep, CallStep
  <1> QED
    BY <1>1, <1>2, <1>3, <1>4

\* The steps of Join.
LEMMA JoinSteps ==
    ASSUME ProtocolNow,
           \/ JoinOpen \/ JoinOpened \/ JoinEnd \/ JoinAsk \/ JoinGotRight \/ JoinMatch
           \/ JoinEmit \/ JoinRightDone \/ JoinReopen \/ JoinAdvance \/ JoinGotLeft
    PROVE  ProtocolKept
  <1>1. stack # <<>> /\ Op.kind = "join" /\ Frame.call \in {"open", "next"}
    BY DEF JoinOpen, JoinOpened, JoinEnd, JoinAsk, JoinGotRight, JoinMatch, JoinEmit,
        JoinRightDone, JoinReopen, JoinAdvance, JoinGotLeft, Running
  <1>2. DOMAIN Op.in = 1 .. 2 /\ Frame.call \in Methods
    BY <1>1, FrameFacts, Arities
  <1> USE DEF Methods, MayCall, MayReturn, MayGoOn, Places, CalledInput, CalledMethod, InputOpen
  <1>3. CASE JoinOpen
    <2>1. Frame.call = "open" /\ Frame.at = "second"
          /\ CallThen(1, "next", "primed", <<>>, My)
      BY <1>3 DEF JoinOpen, Running, Call
    <2>2. MayCall(1, "next", "primed")
      BY <1>1, <1>2, <2>1
    <2> QED
      BY <1>1, <2>1, <2>2, CallStep
  <1>4. CASE JoinOpened \/ JoinEnd \/ JoinEmit
    <2>1. /\ \/ Frame.call = "open" /\ Frame.at = "primed"
             \/ Frame.call = "next" /\ Frame.at \in {"start", "emit"}
          /\ \E r, members : Leave(r, members)
      BY <1>4 DEF JoinOpened, JoinEnd, JoinEmit, Running, Return
    <2>2. MayReturn
      BY <1>1, <1>2, <2>1
    <2> QED
      BY <1>1, <2>1, <2>2, LeaveStep
  <1>5. CASE JoinAsk \/ JoinMatch \/ JoinGotRight \/ JoinGotLeft
    <2>1. /\ Frame.call = "next" /\ Frame.at \in {"start", "match", "right", "left"}
          /\ \/ \E built : CallThen(2, "next", "right", built, My)
             \/ \E built : CallThen(2, "next", "emit", built, My)
             \/ \E members : Continue("match", members)
             \/ \E members : Continue("start", members)
      BY <1>5 DEF JoinAsk, JoinMatch, JoinGotRight, JoinGotLeft, Running, Call
    <2>2. /\ MayCall(2, "next", "right") /\ MayCall(2, "next", "emit")
          /\ MayGoOn("match") /\ MayGoOn("start")
      BY <1>1, <1>2, <2>1
    <2> QED
      BY <1>1, <2>1, <2>2, CallStep, ContinueStep
  <1>6. CASE JoinRightDone
    <2>1. Frame.call = "next" /\ Frame.at = "match"
          /\ CallThen(2, "close", "closed", <<>>, My)
      BY <1>6 DEF JoinRightDone, Running, Call
    <2>2. MayCall(2, "close", "closed")
      BY <1>1, <1>2, <2>1
    <2> QED
      BY <1>1, <2>1, <2>2, CallStep
  <1>7. CASE JoinReopen
    <2>1. Frame.call = "next" /\ Frame.at = "closed"
          /\ CallThen(2, "open", "reopened", <<>>, My)
      BY <1>7 DEF JoinReopen, Running, Call
    <2>2. MayCall(2, "open", "reopened")
      BY <1>1, <1>2, <2>1
    <2> QED
      BY <1>1, <2>1, <2>2, CallStep
  <1>8. CASE JoinAdvance
    <2>1. Frame.call = "next" /\ Frame.at = "reopened"
          /\ CallThen(1, "next", "left", <<>>, My)
      BY <1>8 DEF JoinAdvance, Running, Call
    <2>2. MayCall(1, "next", "left")
      BY <1>1, <1>2, <2>1
    <2> QED
      BY <1>1, <2>1, <2>2, CallStep
  <1> QED
    BY <1>3, <1>4, <1>5, <1>6, <1>7, <1>8

\* The steps of Sort.
LEMMA SortSteps ==
    ASSUME ProtocolNow,
           \/ SortOpen \/ SortConsume \/ SortKeep \/ SortCloseInput \/ SortThrow \/ SortOpened
           \/ SortRaises \/ SortNext \/ SortClose
    PROVE  ProtocolKept
  <1>1. stack # <<>> /\ Op.kind = "sort"
    BY DEF SortOpen, SortConsume, SortKeep, SortCloseInput, SortThrow, SortOpened,
        SortRaises, SortNext, SortClose, Running
  <1>2. DOMAIN Op.in = 1 .. 1
    BY <1>1, FrameFacts, Arities
  <1> USE DEF Methods, MayCall, MayReturn, MayGoOn, Places, CalledInput, CalledMethod, InputOpen
  <1>3. CASE SortOpen
    <2>1. Frame.call = "open" /\ Frame.at = "start"
          /\ CallThen(1, "open", "consume", <<>>, [rows |-> <<>>])
      BY <1>3 DEF SortOpen, Running
    <2>2. MayCall(1, "open", "consume")
      BY <1>1, <1>2, <2>1
    <2> QED
      BY <1>1, <2>1, <2>2, CallStep
  <1>4. CASE SortConsume
    <2>1. Frame.call = "open" /\ Frame.at = "consume" /\ CallThen(1, "next", "got", <<>>, My)
      BY <1>4 DEF SortConsume, Running, Call
    <2>2. MayCall(1, "next", "got")
      BY <1>1, <1>2, <2>1
    <2> QED
      BY <1>1, <2>1, <2>2, CallStep
  <1>5. CASE SortKeep
    <2>1. Frame.call = "open" /\ Frame.at = "got" /\ \E members : Continue("consume", members)
      BY <1>5 DEF SortKeep, Running
    <2>2. MayGoOn("consume")
      BY <1>1, <1>2, <2>1
    <2> QED
      BY <1>1, <2>1, <2>2, ContinueStep
  <1>6. CASE SortCloseInput
    <2>1. /\ Frame.call = "open" /\ Frame.at = "got"
          /\ CallThen(1, "close", "throw", <<>>, My) \/ CallThen(1, "close", "sort", <<>>, My)
      BY <1>6 DEF SortCloseInput, Running, Call
    <2>2. MayCall(1, "close", "throw") /\ MayCall(1, "close", "sort")
      BY <1>1, <1>2, <2>1
    <2> QED
      BY <1>1, <2>1, <2>2, CallStep
  <1>7. CASE SortThrow \/ SortRaises
    BY <1>7, AbortStep DEF SortThrow, SortRaises
  <1>8. CASE SortOpened \/ SortNext \/ SortClose
    <2>1. /\ \/ Frame.call = "open" /\ Frame.at = "sort"
             \/ Frame.call \in {"next", "close"} /\ Frame.at = "start"
          /\ \E r, members : Leave(r, members)
      BY <1>8 DEF SortOpened, SortNext, SortClose, Running, Return
    <2>2. MayReturn
      BY <1>1, <1>2, <2>1
    <2> QED
      BY <1>1, <2>1, <2>2, LeaveStep
  <1> QED
    BY <1>3, <1>4, <1>5, <1>6, <1>7, <1>8

\* The steps of the consumer.
LEMMA ConsumerSteps ==
    ASSUME ProtocolNow, Open \/ Loop \/ AskAgain \/ Close
    PROVE  ProtocolKept
  <1>1. opened' = opened /\ plan' = plan
    BY DEF Open, Loop, Opened, AskNext, Answered, Ended, AskAgain, EndedAgain, Close, Closed,
        Enter, Proceed, given
  <1>2. CASE Open \/ AskNext \/ AskAgain \/ Close
    <2>1. \/ phase = "closed" /\ Enter("open", {"closed"}, "opening")
          \/ phase = "open" /\ Enter("next", {"open"}, "asking")
          \/ phase = "ended" /\ Enter("next", {"ended"}, "again")
          \/ /\ phase \in {"open", "ended", "drained"}
             /\ Enter("close", {"open", "ended", "drained"}, "closing")
      BY <1>2 DEF Open, AskNext, AskAgain, Close, Enter
    <2>2. Consuming
      BY <2>1 DEF Consuming
    <2> QED
      BY <1>1, <2>1, <2>2, EnterKeeps DEF ProtocolNow, ProtocolKept, Methods, CallOf
  <1>3. CASE Opened \/ Answered \/ Ended \/ EndedAgain \/ Closed
    <2>1. \/ phase = "opening" /\ Proceed({"opening"}, "open")
          \/ phase \in {"asking", "again"} /\ Proceed({"asking", "again"}, "open")
          \/ phase = "asking" /\ Proceed({"asking"}, "ended")
          \/ phase = "again" /\ Proceed({"again"}, "drained")
          \/ phase = "closing" /\ Proceed({"closing"}, "closed")
      BY <1>3 DEF Opened, Answered, Ended, EndedAgain, Closed, Proceed
    <2>2. Consuming
      BY <2>1 DEF Consuming
    <2> QED
      BY <1>1, <2>1, <2>2, ProceedKeeps DEF ProtocolNow, ProtocolKept
  <1> QED
    BY <1>2, <1>3 DEF Loop

-----------------------------------------------------------------------------
(* Pins *)

HoldsAt(k, p) == opened[k] /\ state[k].holds /\ state[k].page = p
Holders(p) == {k \in Scans : HoldsAt(k, p)}

\* The scans of a plan are finitely many.
LEMMA ScansFinite ==
    ASSUME IsPlan(plan)
    PROVE  /\ IsFiniteSet(Scans) /\ Cardinality(Scans) \in Nat
           /\ \A S \in SUBSET Scans : IsFiniteSet(S) /\ Cardinality(S) \in Nat
                                       /\ Cardinality(S) <= Cardinality(Scans)
  <1>1. DOMAIN plan = 1 .. Len(plan) /\ Len(plan) \in Nat
    BY LenProperties DEF IsPlan
  <1>2. Scans \in SUBSET (1 .. Len(plan))
    BY <1>1 DEF Scans, OfKind
  <1>3. IsFiniteSet(1 .. Len(plan))
    BY <1>1, FS_Interval
  <1> QED
    BY <1>2, <1>3, FS_Subset, FS_CardinalityType

\* Pins and scans that hold pages as before.
LEMMA PinsSame ==
    ASSUME PinsHeldByScans, UNCHANGED <<plan, table, pins>>,
           \A k \in Scans : \A p \in Pages : HoldsAt(k, p)' <=> HoldsAt(k, p)
    PROVE  PinsHeldByScans'
  <1>1. Scans' = Scans /\ Pages' = Pages
    BY DEF Scans, OfKind, Pages
  <1>2. \A p \in Pages : Holders(p)' = Holders(p)
    BY <1>1 DEF Holders
  <1> QED
    BY <1>1, <1>2 DEF PinsHeldByScans, Holders, HoldsAt

\* A scan fetches a page and pins it.
LEMMA PinAdded ==
    ASSUME PinsHeldByScans, IsPlan(plan), pins \in [Pages -> Nat], UNCHANGED <<plan, table>>,
           NEW s \in Scans, NEW q \in Pages, pins' = [pins EXCEPT ![q] = @ + 1],
           ~HoldsAt(s, q), HoldsAt(s, q)',
           \A k \in Scans : \A p \in Pages :
               k # s \/ p # q => (HoldsAt(k, p)' <=> HoldsAt(k, p))
    PROVE  PinsHeldByScans'
  <1>1. Scans' = Scans /\ Pages' = Pages
    BY DEF Scans, OfKind, Pages
  <1>2. Holders(q)' = Holders(q) \cup {s} /\ s \notin Holders(q)
    BY <1>1 DEF Holders
  <1>3. \A p \in Pages : p # q => Holders(p)' = Holders(p)
    BY <1>1 DEF Holders
  <1>4. Holders(q) \in SUBSET Scans
    BY DEF Holders
  <1>5. IsFiniteSet(Holders(q))
    BY <1>4, ScansFinite
  <1>6. Cardinality(Holders(q)') = Cardinality(Holders(q)) + 1
    BY <1>2, <1>5, FS_AddElement
  <1>7. \A p \in Pages : pins[p] = Cardinality(Holders(p))
    BY DEF PinsHeldByScans, Holders, HoldsAt
  <1>8. \A p \in Pages : pins'[p] = Cardinality(Holders(p)')
    BY <1>3, <1>6, <1>7
  <1> QED
    BY <1>1, <1>8 DEF PinsHeldByScans, Holders, HoldsAt

\* A scan leaves a page and unpins it.
LEMMA PinRemoved ==
    ASSUME PinsHeldByScans, IsPlan(plan), pins \in [Pages -> Nat], UNCHANGED <<plan, table>>,
           NEW s \in Scans, NEW q \in Pages, Unpin(q),
           HoldsAt(s, q), ~HoldsAt(s, q)',
           \A k \in Scans : \A p \in Pages :
               k # s \/ p # q => (HoldsAt(k, p)' <=> HoldsAt(k, p))
    PROVE  PinsHeldByScans' /\ pins' \in [Pages -> Nat]
  <1>1. Scans' = Scans /\ Pages' = Pages
    BY DEF Scans, OfKind, Pages
  <1>2. Holders(q)' = Holders(q) \ {s} /\ s \in Holders(q)
    BY <1>1 DEF Holders
  <1>3. \A p \in Pages : p # q => Holders(p)' = Holders(p)
    BY <1>1 DEF Holders
  <1>4. Holders(q) \in SUBSET Scans
    BY DEF Holders
  <1>5. IsFiniteSet(Holders(q)) /\ Cardinality(Holders(q)) \in Nat
    BY <1>4, ScansFinite
  <1>6. Cardinality(Holders(q)') = Cardinality(Holders(q)) - 1 /\ Cardinality(Holders(q)) # 0
    BY <1>2, <1>5, FS_RemoveElement, FS_EmptySet
  <1>7. \A p \in Pages : pins[p] = Cardinality(Holders(p))
    BY DEF PinsHeldByScans, Holders, HoldsAt
  <1>8. /\ pins' \in [Pages -> Nat] /\ pins'[q] = pins[q] - 1
        /\ \A p \in Pages : p # q => pins'[p] = pins[p]
    BY <1>5, <1>6, <1>7 DEF Unpin
  <1>9. \A p \in Pages : pins'[p] = Cardinality(Holders(p)')
    BY <1>3, <1>6, <1>7, <1>8
  <1> QED
    BY <1>1, <1>8, <1>9 DEF PinsHeldByScans, Holders, HoldsAt

\* The pages that are pinned are no more than the scans that hold one.
LEMMA PinnedPages ==
    ASSUME PinsHeldByScans, IsPlan(plan), pins \in [Pages -> Nat], NEW S \in SUBSET Scans,
           \A k \in Scans : \A p \in Pages : HoldsAt(k, p) => k \in S
    PROVE  /\ Cardinality({p \in Pages : pins[p] > 0}) \in Nat
           /\ Cardinality({p \in Pages : pins[p] > 0}) <= Cardinality(S)
  <1> DEFINE P == {p \in Pages : pins[p] > 0}
             H == {k \in S : \E p \in P : HoldsAt(k, p)}
             page == [k \in H |-> state[k].page]
  <1>1. ASSUME NEW p \in P PROVE \E k \in H : page[k] = p
    <2>1. p \in Pages /\ pins[p] # 0 /\ pins[p] = Cardinality(Holders(p))
      BY DEF PinsHeldByScans, Holders, HoldsAt
    <2>2. Holders(p) # {}
      BY <2>1, FS_EmptySet
    <2>3. PICK k \in Scans : HoldsAt(k, p)
      BY <2>2 DEF Holders
    <2> QED
      BY <1>1, <2>1, <2>3 DEF HoldsAt
  <1>2. page \in [H -> P]
    BY DEF HoldsAt
  <1>3. page \in Surjection(H, P)
    BY <1>1, <1>2 DEF Surjection
  <1>4. H \in SUBSET S /\ H \in SUBSET Scans
    OBVIOUS
  <1> HIDE DEF H, P, page
  <1>5. IsFiniteSet(H) /\ IsFiniteSet(S) /\ Cardinality(S) \in Nat /\ Cardinality(H) \in Nat
    BY <1>4, ScansFinite
  <1>6. IsFiniteSet(P) /\ Cardinality(P) <= Cardinality(H)
    BY <1>3, <1>5, FS_Surjection
  <1>7. Cardinality(H) <= Cardinality(S)
    BY <1>4, <1>5, FS_Subset
  <1>8. Cardinality(P) \in Nat
    BY <1>6, FS_CardinalityType
  <1> QED
    BY <1>5, <1>6, <1>7, <1>8 DEF P

\* A set of operators has a last one.
LEMMA LastOf ==
    ASSUME NEW n \in Nat, NEW T \in SUBSET (1 .. n), T # {}
    PROVE  \E x \in T : \A y \in T : y <= x
  <1> DEFINE U == {m \in Nat : n - m \in T}
  <1>1. PICK x \in T : TRUE
    OBVIOUS
  <1>2. n - x \in Nat /\ n - (n - x) = x /\ x \in Nat
    OBVIOUS
  <1>3. U \in SUBSET Nat /\ U # {}
    BY <1>1, <1>2
  <1> HIDE DEF U
  <1>4. PICK m \in U : \A l \in U : ~(<<l, m>> \in OpToRel(<, Nat))
    BY <1>3, WFMin, NatLessThanWellFounded, Zenon
  <1>5. m \in Nat /\ n - m \in T
    BY <1>4 DEF U
  <1>6. ASSUME NEW y \in T PROVE y <= n - m
    <2>1. y \in Nat /\ n - y \in Nat /\ n - (n - y) = y
      OBVIOUS
    <2>2. n - y \in U
      BY <2>1 DEF U
    <2>3. ~(<<n - y, m>> \in {ss \in Nat \X Nat : ss[1] < ss[2]})
      BY <1>4, <2>2 DEF OpToRel
    <2> QED
      BY <1>5, <2>1, <2>3
  <1> QED
    BY <1>5, <1>6

ScansNow ==
    /\ DOMAIN state = DOMAIN plan /\ pins \in [Pages -> Nat]
    /\ \A k \in Scans : ScanOK(k)
    /\ PinsHeldByScans

\* What leaves the scans as they are.
LEMMA ScansSame ==
    ASSUME ScansNow, UNCHANGED <<plan, table, pins>>, DOMAIN state' = DOMAIN state,
           \A k \in Scans : state'[k] = state[k] /\ opened'[k] = opened[k]
    PROVE  ScansNow'
  <1>1. Scans' = Scans /\ Pages' = Pages
    BY DEF Scans, OfKind, Pages
  <1>2. \A k \in Scans : \A p \in Pages : HoldsAt(k, p)' <=> HoldsAt(k, p)
    BY DEF HoldsAt
  <1>3. PinsHeldByScans'
    BY <1>2, PinsSame DEF ScansNow
  <1>4. \A k \in Scans : ScanOK(k)'
    BY DEF ScansNow, ScanOK
  <1> QED
    BY <1>1, <1>3, <1>4 DEF ScansNow

\* The forms of the steps of an operator.
OperatorForm ==
    \/ \E n, call, at, built, members : CallThen(n, call, at, built, members)
    \/ \E r, members : Return(r, members)
    \/ \E at, members : Continue(at, members)
    \/ \E end : Abort(end)

\* No operator but a scan changes a scan or a pin.
LEMMA NotAScan ==
    ASSUME ProtocolNow, ScansNow, stack # <<>>, Op.kind # "scan", OperatorForm
    PROVE  ScansNow'
  <1>1. Self \notin Scans
    BY DEF Scans, OfKind, Op
  <1>2. DOMAIN state = DOMAIN plan /\ opened \in [DOMAIN plan -> BOOLEAN]
        /\ \A k \in Scans : k \in DOMAIN plan
    BY DEF ScansNow, ProtocolNow, Scans, OfKind
  <1>3. /\ UNCHANGED <<plan, table, pins>>
        /\ (\E members : Become(members)) \/ state' = state
        /\ opened' = opened \/ opened' = [opened EXCEPT ![Self] = Frame.call # "close"]
    BY DEF OperatorForm, CallThen, Return, Leave, Continue, Abort, Consumer, given
  <1>4. DOMAIN state' = DOMAIN state
    BY <1>3 DEF Become
  <1>5. \A k \in Scans : state'[k] = state[k]
    BY <1>1, <1>2, <1>3 DEF Become
  <1>6. \A k \in Scans : opened'[k] = opened[k]
    BY <1>1, <1>2, <1>3
  <1> QED
    BY <1>3, <1>4, <1>5, <1>6, ScansSame

\* The steps of the other operators.
LEMMA OtherSteps ==
    ASSUME ProtocolNow, ScansNow,
           \/ IndexOpen \/ IndexNext \/ IndexNextThrows \/ IndexClose
           \/ PassFirst \/ PassSecond \/ Passed \/ Ask \/ SelectNext \/ ProjectNext
           \/ JoinOpen \/ JoinOpened \/ JoinEnd \/ JoinAsk \/ JoinGotRight \/ JoinMatch
           \/ JoinEmit \/ JoinRightDone \/ JoinReopen \/ JoinAdvance \/ JoinGotLeft
           \/ SortOpen \/ SortConsume \/ SortKeep \/ SortCloseInput \/ SortThrow \/ SortOpened
           \/ SortRaises \/ SortNext \/ SortClose
    PROVE  ScansNow'
  <1>1. CASE IndexOpen \/ IndexNext \/ IndexNextThrows \/ IndexClose
    <2>1. stack # <<>> /\ Op.kind # "scan" /\ OperatorForm
      BY <1>1 DEF IndexOpen, IndexNext, IndexNextThrows, IndexClose, Running, OperatorForm
    <2> QED
      BY <2>1, NotAScan
  <1>2. CASE PassFirst \/ PassSecond \/ Passed \/ Ask \/ SelectNext \/ ProjectNext
    <2>1. stack # <<>> /\ Op.kind # "scan"
      BY <1>2 DEF PassFirst, PassSecond, Passed, Ask, SelectNext, ProjectNext, Running, PassesOn
    <2>2. OperatorForm
      BY <1>2 DEF PassFirst, PassSecond, Passed, Ask, SelectNext, ProjectNext, Call, OperatorForm
    <2> QED
      BY <2>1, <2>2, NotAScan
  <1>3. CASE JoinOpen \/ JoinOpened \/ JoinEnd \/ JoinAsk \/ JoinGotRight \/ JoinMatch
    <2>1. stack # <<>> /\ Op.kind # "scan"
      BY <1>3 DEF JoinOpen, JoinOpened, JoinEnd, JoinAsk, JoinGotRight, JoinMatch, Running
    <2>2. OperatorForm
      BY <1>3 DEF JoinOpen, JoinOpened, JoinEnd, JoinAsk, JoinGotRight, JoinMatch, Call,
          OperatorForm
    <2> QED
      BY <2>1, <2>2, NotAScan
  <1>4. CASE JoinEmit \/ JoinRightDone \/ JoinReopen \/ JoinAdvance \/ JoinGotLeft
    <2>1. stack # <<>> /\ Op.kind # "scan"
      BY <1>4 DEF JoinEmit, JoinRightDone, JoinReopen, JoinAdvance, JoinGotLeft, Running
    <2>2. OperatorForm
      BY <1>4 DEF JoinEmit, JoinRightDone, JoinReopen, JoinAdvance, JoinGotLeft, Call,
          OperatorForm
    <2> QED
      BY <2>1, <2>2, NotAScan
  <1>5. CASE SortOpen \/ SortConsume \/ SortKeep \/ SortCloseInput
    <2>1. stack # <<>> /\ Op.kind # "scan"
      BY <1>5 DEF SortOpen, SortConsume, SortKeep, SortCloseInput, Running
    <2>2. OperatorForm
      BY <1>5 DEF SortOpen, SortConsume, SortKeep, SortCloseInput, Call, OperatorForm
    <2> QED
      BY <2>1, <2>2, NotAScan
  <1>6. CASE SortThrow \/ SortOpened \/ SortRaises \/ SortNext \/ SortClose
    <2>1. stack # <<>> /\ Op.kind # "scan"
      BY <1>6 DEF SortThrow, SortOpened, SortRaises, SortNext, SortClose, Running
    <2>2. OperatorForm
      BY <1>6 DEF SortThrow, SortOpened, SortRaises, SortNext, SortClose, OperatorForm
    <2> QED
      BY <2>1, <2>2, NotAScan
  <1> QED
    BY <1>1, <1>2, <1>3, <1>4, <1>5, <1>6

\* The pages a scan may hold exist.
LEMMA PageExists ==
    ASSUME ScansTable(plan, table), table \in Tables, NEW k \in Scans,
           NEW p \in Nat \ {0}, p < plan[k].max
    PROVE  p \in Pages
  <1>1. table \in Seq(Range(table))
    BY TablesAssumption
  <1>2. Pages = 1 .. Len(table) /\ Len(table) \in Nat
    BY <1>1, LenProperties DEF Pages
  <1>3. plan[k].max \in 1 .. Len(table) + 1
    BY DEF ScansTable, Scans, OfKind
  <1> QED
    BY <1>2, <1>3

\* The steps of a scan.
LEMMA ScanSteps ==
    ASSUME ProtocolNow, ScansNow, ScansTable(plan, table), table \in Tables,
           \/ ScanOpen \/ ScanClose \/ ScanFetch \/ ScanFetchNull \/ ScanSlot
           \/ ScanPageDone \/ ScanEnd
    PROVE  ScansNow'
  <1>1. stack # <<>> /\ Op.kind = "scan"
    BY DEF ScanOpen, ScanClose, ScanFetch, ScanFetchNull, ScanSlot, ScanPageDone, ScanEnd,
        ScanNext, Running
  <1>2. /\ Self \in Scans /\ Self \in DOMAIN plan
        /\ opened[Self] <=> (Frame.call # "open")
    BY <1>1, FrameFacts DEF Scans, OfKind, Op
  <1>3. /\ My \in [page : Nat \ {0}, slot : Nat, holds : BOOLEAN]
        /\ My.holds => My.page < Op.max
    BY <1>2 DEF ScansNow, ScanOK, My, Op
  <1>q. PICK q : q = My.page
    OBVIOUS
  <1>s. PICK s \in Scans : s = Self
    BY <1>2
  <1>4. q \in Nat \ {0} /\ (q < Op.max => q \in Pages)
    BY <1>2, <1>3, <1>q, PageExists DEF Op
  <1>5. /\ IsPlan(plan) /\ opened \in [DOMAIN plan -> BOOLEAN]
        /\ DOMAIN state = DOMAIN plan /\ pins \in [Pages -> Nat]
        /\ PinsHeldByScans /\ \A k \in Scans : ScanOK(k) /\ k \in DOMAIN plan
    BY DEF ProtocolNow, ScansNow, Scans, OfKind
  <1>6. UNCHANGED <<plan, table>>
    BY DEF ScanOpen, ScanClose, ScanFetch, ScanFetchNull, ScanSlot, ScanPageDone, ScanEnd,
        Return, Leave, Continue, Abort, Consumer, given
  <1>7. Scans' = Scans /\ Pages' = Pages
    BY <1>6 DEF Scans, OfKind, Pages
  \* a step that gives the scan other members, and perhaps opens or closes it
  <1>8. ASSUME NEW members \in [page : Nat \ {0}, slot : Nat, holds : BOOLEAN],
               members.holds => members.page < Op.max, Become(members),
               opened' \in [DOMAIN plan -> BOOLEAN],
               \A k \in DOMAIN plan : k # Self => opened'[k] = opened[k]
        PROVE  /\ DOMAIN state' = DOMAIN plan
               /\ \A k \in Scans : ScanOK(k)'
               /\ \A k \in Scans : \A p \in Pages :
                    k # s => (HoldsAt(k, p)' <=> HoldsAt(k, p))
               /\ \A p \in Pages :
                    /\ HoldsAt(s, p) <=> (opened[s] /\ My.holds /\ p = q)
                    /\ HoldsAt(s, p)' <=> (opened'[s] /\ members.holds /\ p = members.page)
    <2>1. /\ DOMAIN state' = DOMAIN plan /\ state'[s] = members
          /\ \A k \in Scans : k # s => state'[k] = state[k]
      BY <1>2, <1>5, <1>8, <1>s DEF Become
    <2>2. \A k \in Scans : ScanOK(k)'
      BY <1>5, <1>6, <1>8, <1>s, <2>1 DEF ScanOK, Op
    <2>3. \A k \in Scans : \A p \in Pages : k # s => (HoldsAt(k, p)' <=> HoldsAt(k, p))
      BY <1>5, <1>8, <1>s, <2>1 DEF HoldsAt
    <2>4. \A p \in Pages : HoldsAt(s, p) <=> (opened[s] /\ My.holds /\ p = q)
      BY <1>q, <1>s DEF HoldsAt, My
    <2>5. \A p \in Pages :
              HoldsAt(s, p)' <=> (opened'[s] /\ members.holds /\ p = members.page)
      BY <2>1 DEF HoldsAt
    <2> QED
      BY <2>1, <2>2, <2>3, <2>4, <2>5
  <1>9. SUFFICES /\ DOMAIN state' = DOMAIN plan /\ pins' \in [Pages -> Nat]
                 /\ (\A k \in Scans : ScanOK(k)') /\ PinsHeldByScans'
    BY <1>6, <1>7 DEF ScansNow
  \* a scan that is open stays so, and holds the page it held
  <1>10. ASSUME NEW members \in [page : Nat \ {0}, slot : Nat, holds : BOOLEAN],
                members.page = q, members.holds = My.holds, Become(members),
                pins' = pins, Frame.call # "open",
                opened' = opened \/ opened' = [opened EXCEPT ![Self] = Frame.call # "close"],
                Frame.call # "close"
         PROVE  ScansNow'
    <2>1. /\ members.holds => members.page < Op.max
          /\ opened' \in [DOMAIN plan -> BOOLEAN] /\ opened[s] /\ opened'[s]
          /\ \A k \in DOMAIN plan : k # Self => opened'[k] = opened[k]
      BY <1>2, <1>3, <1>5, <1>10, <1>q, <1>s
    <2>2. \A k \in Scans : \A p \in Pages : HoldsAt(k, p)' <=> HoldsAt(k, p)
      BY <1>8, <1>10, <2>1
    <2>3. PinsHeldByScans'
      BY <1>5, <1>6, <1>10, <2>2, PinsSame
    <2> QED
      BY <1>5, <1>6, <1>7, <1>8, <1>10, <2>1, <2>3 DEF ScansNow
  <1>11. CASE ScanOpen
    <2>1. /\ Frame.call = "open" /\ Become(ScanStart) /\ pins' = pins
          /\ opened' = [opened EXCEPT ![Self] = Frame.call # "close"]
      BY <1>11 DEF ScanOpen, Running, Return, Leave
    <2>2. /\ ScanStart \in [page : Nat \ {0}, slot : Nat, holds : BOOLEAN]
          /\ ScanStart.holds = FALSE
      BY DEF ScanStart
    <2>3. /\ opened' \in [DOMAIN plan -> BOOLEAN] /\ ~opened[s]
          /\ \A k \in DOMAIN plan : k # Self => opened'[k] = opened[k]
      BY <1>2, <1>5, <1>s, <2>1
    <2>4. \A k \in Scans : \A p \in Pages : HoldsAt(k, p)' <=> HoldsAt(k, p)
      BY <1>8, <2>1, <2>2, <2>3
    <2>5. PinsHeldByScans'
      BY <1>5, <1>6, <2>1, <2>4, PinsSame
    <2> QED
      BY <1>5, <1>8, <2>1, <2>2, <2>3, <2>5
  <1>12. CASE ScanClose
    <2>1. /\ Frame.call = "close" /\ Become(My)
          /\ opened' = [opened EXCEPT ![Self] = Frame.call # "close"]
          /\ IF My.holds THEN Unpin(My.page) ELSE pins' = pins
      BY <1>12 DEF ScanClose, Running, Leave
    <2>2. /\ opened' \in [DOMAIN plan -> BOOLEAN] /\ opened[s] /\ ~opened'[s]
          /\ \A k \in DOMAIN plan : k # Self => opened'[k] = opened[k]
      BY <1>2, <1>5, <1>s, <2>1
    <2>3. PICK members : members = My
      OBVIOUS
    <2>4. /\ DOMAIN state' = DOMAIN plan /\ \A k \in Scans : ScanOK(k)'
          /\ \A k \in Scans : \A p \in Pages : k # s => (HoldsAt(k, p)' <=> HoldsAt(k, p))
          /\ \A p \in Pages : /\ HoldsAt(s, p) <=> (My.holds /\ p = q)
                              /\ ~HoldsAt(s, p)'
      BY <1>3, <1>8, <2>1, <2>2, <2>3
    <2>5. CASE My.holds
      <3>1. Unpin(q) /\ q \in Pages
        BY <1>3, <1>4, <1>q, <2>1, <2>5
      <3>2. HoldsAt(s, q) /\ ~HoldsAt(s, q)'
        BY <2>4, <2>5, <3>1
      <3>3. \A k \in Scans : \A p \in Pages :
                k # s \/ p # q => (HoldsAt(k, p)' <=> HoldsAt(k, p))
        BY <2>4
      <3>4. PinsHeldByScans' /\ pins' \in [Pages -> Nat]
        BY <1>5, <1>6, <3>1, <3>2, <3>3, PinRemoved
      <3> QED
        BY <2>4, <3>4
    <2>6. CASE ~My.holds
      <3>1. \A k \in Scans : \A p \in Pages : HoldsAt(k, p)' <=> HoldsAt(k, p)
        BY <2>4, <2>6
      <3>2. PinsHeldByScans'
        BY <1>5, <1>6, <2>1, <2>6, <3>1, PinsSame
      <3> QED
        BY <1>5, <2>1, <2>4, <2>6, <3>2
    <2> QED
      BY <2>5, <2>6
  <1>13. CASE ScanFetch
    <2>1. PICK members : members = [My EXCEPT !.holds = TRUE]
      OBVIOUS
    <2>2. /\ Frame.call = "next" /\ ~My.holds /\ q < Op.max
          /\ Become(members) /\ opened' = opened
          /\ pins' = [pins EXCEPT ![q] = @ + 1]
      BY <1>13, <1>q, <2>1 DEF ScanFetch, ScanNext, Running
    <2>3. /\ members \in [page : Nat \ {0}, slot : Nat, holds : BOOLEAN]
          /\ members.holds /\ members.page = q
      BY <1>3, <1>q, <2>1
    <2>4. opened[s] /\ opened'[s]
      BY <1>2, <1>s, <2>2
    <2>5. /\ DOMAIN state' = DOMAIN plan /\ \A k \in Scans : ScanOK(k)'
          /\ \A k \in Scans : \A p \in Pages : k # s => (HoldsAt(k, p)' <=> HoldsAt(k, p))
          /\ \A p \in Pages : /\ ~HoldsAt(s, p)
                              /\ HoldsAt(s, p)' <=> p = q
      BY <1>5, <1>8, <2>2, <2>3, <2>4
    <2>6. q \in Pages /\ ~HoldsAt(s, q) /\ HoldsAt(s, q)'
      BY <1>4, <2>2, <2>5
    <2>7. \A k \in Scans : \A p \in Pages :
              k # s \/ p # q => (HoldsAt(k, p)' <=> HoldsAt(k, p))
      BY <2>5
    <2>8. PinsHeldByScans'
      BY <1>5, <1>6, <2>2, <2>6, <2>7, PinAdded
    <2>9. pins' \in [Pages -> Nat]
      BY <1>5, <2>2, <2>6
    <2> QED
      BY <2>5, <2>8, <2>9
  <1>14. CASE ScanPageDone
    <2>1. PICK members : members = [page |-> My.page + 1, slot |-> 1, holds |-> FALSE]
      OBVIOUS
    <2>2. /\ Frame.call = "next" /\ My.holds /\ q < Op.max
          /\ Become(members) /\ opened' = opened /\ Unpin(q)
      BY <1>14, <1>q, <2>1 DEF ScanPageDone, ScanNext, Running
    <2>3. /\ members \in [page : Nat \ {0}, slot : Nat, holds : BOOLEAN]
          /\ ~members.holds
      BY <1>3, <2>1
    <2>4. opened[s] /\ opened'[s]
      BY <1>2, <1>s, <2>2
    <2>5. /\ DOMAIN state' = DOMAIN plan /\ \A k \in Scans : ScanOK(k)'
          /\ \A k \in Scans : \A p \in Pages : k # s => (HoldsAt(k, p)' <=> HoldsAt(k, p))
          /\ \A p \in Pages : /\ HoldsAt(s, p) <=> p = q
                              /\ ~HoldsAt(s, p)'
      BY <1>5, <1>8, <2>2, <2>3, <2>4
    <2>6. q \in Pages /\ HoldsAt(s, q) /\ ~HoldsAt(s, q)'
      BY <1>4, <2>2, <2>5
    <2>7. \A k \in Scans : \A p \in Pages :
              k # s \/ p # q => (HoldsAt(k, p)' <=> HoldsAt(k, p))
      BY <2>5
    <2>8. PinsHeldByScans' /\ pins' \in [Pages -> Nat]
      BY <1>5, <1>6, <2>2, <2>6, <2>7, PinRemoved
    <2> QED
      BY <2>5, <2>8
  <1>15. CASE ScanSlot
    <2>1. PICK members : members = [My EXCEPT !.slot = @ + 1]
      OBVIOUS
    <2>2. /\ Frame.call = "next" /\ Become(members) /\ pins' = pins
          /\ opened' = opened \/ opened' = [opened EXCEPT ![Self] = Frame.call # "close"]
      BY <1>15, <2>1 DEF ScanSlot, ScanNext, Running, Return, Leave, Continue
    <2>3. /\ members \in [page : Nat \ {0}, slot : Nat, holds : BOOLEAN]
          /\ members.page = q /\ members.holds = My.holds
      BY <1>3, <1>q, <2>1
    <2> QED
      BY <1>7, <1>6, <1>10, <2>2, <2>3 DEF ScansNow
  <1>16. CASE ScanEnd
    <2>1. PICK members : members = My
      OBVIOUS
    <2>2. /\ Frame.call = "next" /\ Become(members) /\ pins' = pins
          /\ opened' = [opened EXCEPT ![Self] = Frame.call # "close"]
      BY <1>16, <2>1 DEF ScanEnd, Running, Return, Leave
    <2> QED
      BY <1>3, <1>6, <1>7, <1>10, <1>q, <2>1, <2>2 DEF ScansNow
  <1>17. CASE ScanFetchNull
    <2>1. state' = state /\ opened' = opened /\ pins' = pins
      BY <1>17 DEF ScanFetchNull, Abort
    <2> QED
      BY <1>5, <1>6, <1>7, <2>1, ScansSame DEF ScansNow
  <1> QED
    BY <1>11, <1>12, <1>13, <1>14, <1>15, <1>16, <1>17

-----------------------------------------------------------------------------
(* No pin is left *)

\* If the root is closed and no operator is open under one that is closed, none is open.
LEMMA NoneOpened ==
    ASSUME IsPlan(plan), ~opened[Len(plan)],
           \A m \in DOMAIN plan : \A n \in DOMAIN plan[m].in :
               opened[plan[m].in[n]] => opened[m]
    PROVE  \A k \in DOMAIN plan : ~opened[k]
  <1> DEFINE T == {k \in DOMAIN plan : opened[k]}
  <1>1. DOMAIN plan = 1 .. Len(plan) /\ Len(plan) \in Nat
    BY LenProperties DEF IsPlan
  <1>2. SUFFICES ASSUME T # {} PROVE FALSE
    OBVIOUS
  <1>3. T \in SUBSET (1 .. Len(plan))
    BY <1>1
  <1>4. PICK k \in T : \A y \in T : y <= k
    <2> HIDE DEF T
    <2> QED
      BY <1>1, <1>2, <1>3, LastOf
  <1>5. k \in 1 .. Len(plan) - 1
    BY <1>1, <1>4
  <1>m. PICK m \in DOMAIN plan : \E n \in DOMAIN plan[m].in : plan[m].in[n] = k
    BY <1>5 DEF IsPlan, EachUsed
  <1>6. PICK n \in DOMAIN plan[m].in : plan[m].in[n] = k
    BY <1>m
  <1>7. m \in T
    BY <1>4, <1>6
  <1>8. k < m /\ k \in Nat /\ m \in Nat
    BY <1>6, InputFacts
  <1> QED
    BY <1>4, <1>7, <1>8

\* Where no operator is open, no page is pinned.
LEMMA NoPins ==
    ASSUME PinsHeldByScans, \A k \in DOMAIN plan : ~opened[k]
    PROVE  \A p \in Pages : pins[p] = 0
  <1>1. ASSUME NEW p \in Pages PROVE pins[p] = 0
    <2>1. {k \in Scans : opened[k] /\ state[k].holds /\ state[k].page = p} = {}
      BY DEF Scans, OfKind
    <2> QED
      BY <2>1, FS_EmptySet DEF PinsHeldByScans
  <1> QED
    BY <1>1

\* After close no operator is open.
LEMMA ClosedAll ==
    ASSUME ProtocolNow, phase = "closed"
    PROVE  \A k \in DOMAIN plan : ~opened[k]
  <1>1. stack = <<>> /\ Consuming
    BY DEF ProtocolNow, ProtocolInv, RootOK, Consuming
  <1>2. \A m : ~Active(m)
    BY <1>1 DEF Active
  <1>3. ~opened[Len(plan)]
    BY <1>1 DEF ProtocolNow, ProtocolInv, RootOK
  <1>4. \A m \in DOMAIN plan : \A n \in DOMAIN plan[m].in : opened[plan[m].in[n]] => opened[m]
    BY <1>1, <1>2 DEF ProtocolNow, ProtocolInv, IdleOK
  <1> QED
    BY <1>3, <1>4, NoneOpened DEF ProtocolNow

\* A sort with no join above it fails before any operator above it is open.
LEMMA FailedAll ==
    ASSUME ProtocolNow, SortThrow, ~SortUnderJoin
    PROVE  \A k \in DOMAIN plan : ~opened[k]
  <1> DEFINE L == Len(stack)
  <1>1. /\ stack # <<>> /\ Op.kind = "sort" /\ Frame.call = "open" /\ Frame.at = "throw"
        /\ Frame = stack[L] /\ Self = stack[L].op
    BY DEF SortThrow, Running, Frame, Self, Last
  <1>2. /\ L \in Nat \ {0} /\ DOMAIN stack = 1 .. L /\ L \in DOMAIN stack /\ 1 \in DOMAIN stack
    BY <1>1, EmptySeq, LenProperties DEF ProtocolNow, StackTyped
  <1>c. Consuming
    BY <1>1, FrameFacts
  <1> HIDE DEF L
  <1>l. L = Len(stack)
    BY DEF L
  <1>3. ASSUME NEW j \in 1 .. L
        PROVE  /\ PlaceOK(j) /\ LinkOK(j) /\ InputsOK(j)
               /\ stack[j].op \in DOMAIN plan /\ stack[j].op \in Nat
               /\ KindOf(j) \in {"scan", "index", "select", "project", "sort"}
               /\ DOMAIN InputsOf(j) = 1 .. Arity(KindOf(j))
    <2>1. PlaceOK(j) /\ LinkOK(j) /\ InputsOK(j)
      BY <1>2 DEF ProtocolNow, ProtocolInv
    <2>2. /\ stack[j].op \in DOMAIN plan /\ stack[j].op \in Nat
          /\ KindOf(j) \in {"scan", "index", "select", "project", "sort", "join"}
          /\ DOMAIN InputsOf(j) = 1 .. Arity(KindOf(j))
      BY <2>1, InputFacts DEF PlaceOK, ProtocolNow, KindOf, InputsOf
    <2>3. j = L \/ j < L
      BY <1>2
    <2>4. j < L => Self < stack[j].op
      BY <1>1, <1>2 DEF ProtocolNow, ProtocolInv, Downwards
    <2>5. Self \in OfKind("sort")
      BY <1>1, FrameFacts DEF OfKind, Op
    <2>6. KindOf(j) # "join"
      BY <1>1, <2>2, <2>3, <2>4, <2>5 DEF SortUnderJoin, OfKind, KindOf, Op
    <2> QED
      BY <2>1, <2>2, <2>6
  <1>4. ASSUME NEW j \in 1 .. L - 1
        PROVE  /\ CalledInput(stack[j].at) \in DOMAIN InputsOf(j)
               /\ stack[j + 1].op = InputsOf(j)[CalledInput(stack[j].at)]
               /\ stack[j + 1].call = CalledMethod(stack[j].call, stack[j].at)
               /\ KindOf(j) \in {"select", "project", "sort"}
               /\ stack[j + 1].call = "open" => stack[j].call = "open"
               /\ DOMAIN InputsOf(j) = 1 .. 1
    <2>1. j \in 1 .. L /\ j < L
      BY <1>2
    <2>2. /\ stack[j].at \notin {"start", "match"}
          /\ CalledInput(stack[j].at) \in DOMAIN InputsOf(j)
          /\ stack[j + 1].op = InputsOf(j)[CalledInput(stack[j].at)]
          /\ stack[j + 1].call = CalledMethod(stack[j].call, stack[j].at)
      BY <1>3, <1>l, <2>1 DEF LinkOK
    <2>3. /\ stack[j].call \in Methods /\ stack[j].at \in Places(KindOf(j), stack[j].call)
          /\ KindOf(j) \in {"scan", "index", "select", "project", "sort"}
      BY <1>3, <2>1 DEF PlaceOK
    <2>4. KindOf(j) \in {"select", "project", "sort"}
      BY <2>2, <2>3 DEF Places
    <2>5. stack[j + 1].call = "open" => stack[j].call = "open"
      BY <2>2, <2>3, <2>4 DEF Places, CalledMethod, Methods
    <2>6. DOMAIN InputsOf(j) = 1 .. 1
      BY <1>3, <2>1, <2>4, Arities
    <2> QED
      BY <2>2, <2>4, <2>5, <2>6
  \* every call in progress is open
  <1>5. \A j \in 1 .. L : stack[j].call = "open"
    <2> DEFINE T == {j \in 1 .. L : stack[j].call # "open"}
    <2>1. SUFFICES ASSUME T # {} PROVE FALSE
      OBVIOUS
    <2>2. PICK x \in T : \A y \in T : y <= x
      <3>1. T \in SUBSET (1 .. L) /\ L \in Nat
        BY <1>2
      <3> HIDE DEF T
      <3> QED
        BY <2>1, <3>1, LastOf
    <2>3. x # L /\ x \in 1 .. L
      BY <1>1
    <2>4. x \in 1 .. L - 1 /\ x + 1 \in 1 .. L /\ ~(x + 1 <= x)
      BY <1>2, <2>3
    <2>5. stack[x + 1].call = "open"
      BY <2>2, <2>4
    <2> QED
      BY <1>4, <2>2, <2>4, <2>5
  <1>6. ASSUME NEW m, Active(m) PROVE ~opened[m]
    BY <1>2, <1>3, <1>5, <1>6 DEF Active, PlaceOK
  <1>7. ~opened[Len(plan)]
    <2>1. Active(Len(plan))
      BY <1>1, <1>2 DEF ProtocolNow, ProtocolInv, RootOK, Active
    <2> QED
      BY <1>6, <2>1
  <1>8. ASSUME NEW m \in DOMAIN plan, NEW n \in DOMAIN plan[m].in, opened[plan[m].in[n]]
        PROVE  opened[m]
    <2>1. ~Active(plan[m].in[n])
      BY <1>6, <1>8
    <2>2. ~Active(m)
      <3>1. SUFFICES ASSUME NEW j \in 1 .. L, stack[j].op = m PROVE FALSE
        BY <1>2 DEF Active
      <3>2. CASE j = L
        BY <1>1, <1>3, <1>8, <2>1, <3>1, <3>2 DEF InputsOK, InputsOf, KindOf, InputOpen, Op
      <3>3. CASE j # L
        <4>1. j \in 1 .. L - 1 /\ j + 1 \in DOMAIN stack
          BY <1>2, <3>3
        <4>2. n \in 1 .. 1 /\ CalledInput(stack[j].at) \in 1 .. 1
          BY <1>4, <1>8, <3>1, <4>1 DEF InputsOf
        <4>3. n = CalledInput(stack[j].at)
          BY <4>2
        <4>4. stack[j + 1].op = plan[m].in[n]
          BY <1>4, <3>1, <4>1, <4>3 DEF InputsOf
        <4> QED
          BY <2>1, <4>1, <4>4 DEF Active
      <3> QED
        BY <3>2, <3>3
    <2> QED
      BY <1>8, <1>c, <2>1, <2>2 DEF ProtocolNow, ProtocolInv, IdleOK
  <1> QED
    BY <1>7, <1>8, NoneOpened DEF ProtocolNow

-----------------------------------------------------------------------------
(* There is always a frame *)

\* With a frame for each scan, a scan that holds none finds one.
LEMMA ScanFinds ==
    ASSUME ProtocolNow, ScansNow, short = 0
    PROVE  ~ScanFetchNull
  <1>1. SUFFICES ASSUME ScanFetchNull PROVE FALSE
    OBVIOUS
  <1>2. /\ stack # <<>> /\ Op.kind = "scan" /\ ~My.holds /\ ~FrameFree
    BY <1>1 DEF ScanFetchNull, ScanNext, Running, CanFetch
  <1>3. PICK s \in Scans : s = Self
    BY <1>2, FrameFacts DEF Scans, OfKind, Op
  <1> DEFINE S == Scans \ {s}
             pinned == Cardinality({p \in Pages : pins[p] > 0})
  <1>4. /\ IsPlan(plan) /\ pins \in [Pages -> Nat] /\ PinsHeldByScans
    BY DEF ProtocolNow, ScansNow
  <1>5. \A k \in Scans : \A p \in Pages : HoldsAt(k, p) => k \in S
    BY <1>2, <1>3 DEF HoldsAt, My
  <1>6. S \in SUBSET Scans
    OBVIOUS
  <1>7. IsFiniteSet(Scans) /\ Cardinality(Scans) \in Nat
    BY <1>4, ScansFinite
  <1>8. Cardinality(S) = Cardinality(Scans) - 1
    BY <1>3, <1>7, FS_RemoveElement
  <1> HIDE DEF S
  <1>9. pinned \in Nat /\ pinned <= Cardinality(S)
    BY <1>4, <1>5, <1>6, PinnedPages
  <1>10. PoolSize >= Cardinality(Scans) /\ PoolSize \in Nat
    BY <1>7 DEF PoolSize
  <1>11. ~(pinned < PoolSize)
    BY <1>2 DEF FrameFree
  <1> HIDE DEF pinned
  <1> QED
    BY <1>7, <1>8, <1>9, <1>10, <1>11

\* With one more, the tree finds one for its root.
LEMMA IndexFinds ==
    ASSUME ProtocolNow, ScansNow, short = 0
    PROVE  ~IndexNextThrows
  <1>1. SUFFICES ASSUME IndexNextThrows PROVE FALSE
    OBVIOUS
  <1>2. /\ stack # <<>> /\ Op.kind = "index" /\ ~FrameFree
    BY <1>1 DEF IndexNextThrows, Running
  <1>3. OfKind("index") # {}
    BY <1>2, FrameFacts DEF OfKind, Op
  <1> DEFINE pinned == Cardinality({p \in Pages : pins[p] > 0})
  <1>4. /\ IsPlan(plan) /\ pins \in [Pages -> Nat] /\ PinsHeldByScans
    BY DEF ProtocolNow, ScansNow
  <1>5. Cardinality(Scans) \in Nat
    BY <1>4, ScansFinite
  <1>6. pinned \in Nat /\ pinned <= Cardinality(Scans)
    BY <1>4, PinnedPages
  <1>7. PoolSize = Cardinality(Scans) + 1
    BY <1>3, <1>5 DEF PoolSize
  <1>8. ~(pinned < PoolSize)
    BY <1>2 DEF FrameFree
  <1> HIDE DEF pinned
  <1> QED
    BY <1>5, <1>6, <1>7, <1>8

-----------------------------------------------------------------------------
(* The plans *)

\* An access path is a plan by itself.
LEMMA AccessIsPlan ==
    ASSUME NEW s \in Statements, NEW t \in Tables, NEW q,
           q = <<ChooseAccessPath(s, Len(t) + 1)>>
    PROVE  IsPlan(q) /\ ScansTable(q, t)
  <1> DEFINE op == ChooseAccessPath(s, Len(t) + 1)
  <1>1. /\ op.kind \in {"scan", "index"} /\ op.in = <<>>
        /\ op.kind = "scan" => op.max = Len(t) + 1
    BY DEF ChooseAccessPath
  <1>2. t \in Seq(Range(t)) /\ Len(t) \in Nat
    BY TablesAssumption, LenProperties
  <1> HIDE DEF op
  <1>3. q = <<op>>
    BY DEF op
  <1>4. /\ DOMAIN q = 1 .. 1 /\ q[1] = op /\ Len(q) = 1
        /\ q \in Seq({op}) /\ q # <<>>
    BY <1>3
  <1>5. q \in Seq(Range(q))
    BY <1>4, OwnElements
  <1>6. InputsFirst(q)
    <2>1. Arity(op.kind) = 0
      BY <1>1, Arities
    <2>2. op.in \in Seq(1 .. 1 - 1) /\ Len(op.in) = 0
      BY <1>1
    <2>3. ASSUME NEW k \in DOMAIN q
          PROVE  /\ q[k].kind \in {"scan", "index", "select", "project", "sort", "join"}
                 /\ q[k].in \in Seq(1 .. k - 1) /\ Len(q[k].in) = Arity(q[k].kind)
      <3>1. q[k] = op /\ op.in \in Seq(1 .. k - 1)
        BY <1>4, <2>2, <2>3
      <3>2. Len(op.in) = Arity(op.kind)
        BY <2>1, <2>2
      <3>3. op.kind \in {"scan", "index", "select", "project", "sort", "join"}
        BY <1>1
      <3> QED
        BY ONLY <3>1, <3>2, <3>3
    <2> QED
      BY <2>3 DEF InputsFirst
  <1>7. DOMAIN op.in = {}
    BY <1>1
  <1>8. EachUsed(q)
    BY <1>4 DEF EachUsed
  <1>9. UsedOnce(q)
    BY <1>4, <1>7 DEF UsedOnce
  <1>10. ScansTable(q, t)
    BY <1>1, <1>2, <1>4 DEF ScansTable
  <1> QED
    BY <1>4, <1>5, <1>6, <1>8, <1>9, <1>10 DEF IsPlan

\* An operator with one input on top of a plan makes a plan.
LEMMA OnTop ==
    ASSUME NEW q, IsPlan(q), NEW t, ScansTable(q, t), NEW op,
           op.kind \in {"select", "project", "sort"}, op.in = <<Len(q)>>,
           NEW r, r = Append(q, op)
    PROVE  IsPlan(r) /\ ScansTable(r, t)
  <1> DEFINE L == Len(q)
             T == Range(q) \cup {op}
  <1>1. L \in Nat \ {0} /\ q \in Seq(Range(q)) /\ DOMAIN q = 1 .. L
    BY LenProperties, EmptySeq DEF IsPlan
  <1>2. q \in Seq(T) /\ op \in T
    BY <1>1, SeqMonotonic
  <1> HIDE DEF T
  <1>3. /\ r \in Seq(T) /\ r # <<>> /\ Len(r) = L + 1
        /\ \A i \in 1 .. L : r[i] = q[i]
        /\ r[L + 1] = op
    BY <1>2, AppendProperties
  <1>4. r \in Seq(Range(r))
    BY <1>3, OwnElements
  <1> HIDE DEF L
  <1>l. op.in = <<L>> /\ DOMAIN op.in = 1 .. 1 /\ op.in[1] = L /\ Len(op.in) = 1
    BY DEF L
  <1>5. DOMAIN r = 1 .. L + 1
    BY <1>1, <1>3, LenProperties
  <1>6. \A k \in 1 .. L + 1 : k \in 1 .. L \/ k = L + 1
    BY <1>1
  <1>7. InputsFirst(r)
    <2>1. op.in \in Seq(1 .. L + 1 - 1)
      BY <1>1, <1>l
    <2>2. Arity(op.kind) = 1
      BY Arities
    <2>3. ASSUME NEW k \in 1 .. L + 1
          PROVE  /\ r[k].kind \in {"scan", "index", "select", "project", "sort", "join"}
                 /\ r[k].in \in Seq(1 .. k - 1) /\ Len(r[k].in) = Arity(r[k].kind)
      <3>1. CASE k \in 1 .. L
        BY <1>1, <1>3, <3>1 DEF IsPlan, InputsFirst
      <3>2. CASE k = L + 1
        <4>1. r[k] = op /\ op.in \in Seq(1 .. k - 1)
          BY <1>3, <2>1, <3>2
        <4>2. Len(op.in) = Arity(op.kind)
          BY <1>l, <2>2
        <4>3. op.kind \in {"scan", "index", "select", "project", "sort", "join"}
          OBVIOUS
        <4> QED
          BY ONLY <4>1, <4>2, <4>3
      <3> QED
        BY <1>6, <3>1, <3>2
    <2> QED
      BY <1>5, <2>3 DEF InputsFirst
  <1>8. ASSUME NEW k \in 1 .. L, NEW n \in DOMAIN q[k].in
        PROVE  q[k].in[n] # L
    <2>1. q[k].in[n] < k /\ k \in Nat /\ q[k].in[n] \in Nat
      BY <1>1, InputFacts
    <2> QED
      BY <1>1, <2>1
  <1>9. EachUsed(r)
    <2>1. ASSUME NEW m \in 1 .. Len(r) - 1
          PROVE  \E k \in DOMAIN r : \E n \in DOMAIN r[k].in : r[k].in[n] = m
      <3>1. CASE m = L
        BY <1>1, <1>3, <1>5, <1>l, <3>1
      <3>2. CASE m # L
        <4>1. m \in 1 .. L - 1
          BY <1>1, <1>3, <2>1, <3>2
        <4>2. PICK k \in DOMAIN q : \E n \in DOMAIN q[k].in : q[k].in[n] = m
          BY <4>1 DEF IsPlan, EachUsed, L
        <4>3. k \in DOMAIN r /\ r[k] = q[k]
          BY <1>1, <1>3, <1>5, <4>2
        <4> QED
          BY <4>2, <4>3
      <3> QED
        BY <3>1, <3>2
    <2> QED
      BY <2>1 DEF EachUsed
  <1>10. UsedOnce(r)
    <2>1. ASSUME NEW k \in 1 .. L + 1, NEW l \in 1 .. L + 1,
                 NEW n \in DOMAIN r[k].in, NEW m \in DOMAIN r[l].in,
                 r[k].in[n] = r[l].in[m]
          PROVE  k = l /\ n = m
      <3>1. CASE k \in 1 .. L /\ l \in 1 .. L
        BY <1>1, <1>3, <2>1, <3>1 DEF IsPlan, UsedOnce
      <3>2. CASE k \in 1 .. L /\ l = L + 1
        BY <1>3, <1>8, <1>l, <2>1, <3>2
      <3>3. CASE k = L + 1 /\ l \in 1 .. L
        BY <1>3, <1>8, <1>l, <2>1, <3>3
      <3>4. CASE k = L + 1 /\ l = L + 1
        BY <1>3, <1>l, <2>1, <3>4
      <3> QED
        BY <1>6, <3>1, <3>2, <3>3, <3>4
    <2>2. \A k, l \in DOMAIN r : \A n \in DOMAIN r[k].in : \A m \in DOMAIN r[l].in :
              r[k].in[n] = r[l].in[m] => k = l /\ n = m
      BY ONLY <1>5, <2>1
    <2> QED
      BY <2>2, Zenon DEF UsedOnce
  <1>11. ScansTable(r, t)
    BY <1>1, <1>3, <1>5, <1>6 DEF ScansTable
  <1> QED
    BY <1>3, <1>4, <1>7, <1>9, <1>10, <1>11 DEF IsPlan

\* What build_plan makes of a statement is a plan.
LEMMA BuiltIsPlan ==
    ASSUME NEW s \in Statements, NEW t \in Tables, NEW q,
           q = BuildPlan(s, ChooseAccessPath(s, Len(t) + 1))
    PROVE  IsPlan(q) /\ ScansTable(q, t)
  <1>1. PICK p1 : p1 = <<ChooseAccessPath(s, Len(t) + 1)>>
    OBVIOUS
  <1>2. PICK p2 : p2 = IF s.where_clause = <<>> \/ UsesIndex(s) THEN p1
                       ELSE Append(p1, SelectOp(Len(p1), s))
    OBVIOUS
  <1>3. PICK p3 : p3 = IF s.order_by = <<>> THEN p2 ELSE Append(p2, SortOp(Len(p2), s))
    OBVIOUS
  <1>4. IsPlan(p1) /\ ScansTable(p1, t)
    BY <1>1, AccessIsPlan
  <1>5. IsPlan(p2) /\ ScansTable(p2, t)
    <2>1. PICK op : op = SelectOp(Len(p1), s)
      OBVIOUS
    <2>2. op.kind = "select" /\ op.in = <<Len(p1)>>
      BY <2>1 DEF SelectOp
    <2>3. p2 = p1 \/ p2 = Append(p1, op)
      BY <1>2, <2>1
    <2> QED
      BY <1>4, <2>2, <2>3, OnTop
  <1>6. IsPlan(p3) /\ ScansTable(p3, t)
    <2>1. PICK op : op = SortOp(Len(p2), s)
      OBVIOUS
    <2>2. op.kind = "sort" /\ op.in = <<Len(p2)>>
      BY <2>1 DEF SortOp
    <2>3. p3 = p2 \/ p3 = Append(p2, op)
      BY <1>3, <2>1
    <2> QED
      BY <1>5, <2>2, <2>3, OnTop
  <1>7. PICK op : op = ProjectOp(Len(p3), s)
    OBVIOUS
  <1>8. op.kind = "project" /\ op.in = <<Len(p3)>>
    BY <1>7 DEF ProjectOp
  <1>9. q = p3 \/ q = Append(p3, op)
    BY <1>1, <1>2, <1>3, <1>7 DEF BuildPlan
  <1> QED
    BY <1>6, <1>8, <1>9, OnTop

-----------------------------------------------------------------------------
(* The invariant *)

\* How a query ends in the middle.
EndsNow ==
    /\ short = 0 => phase # "halted"
    /\ phase = "failed" /\ ~SortUnderJoin => \A p \in Pages : pins[p] = 0

GivenNow == table \in Tables /\ ScansTable(plan, table)

IInv == ProtocolNow /\ ScansNow /\ GivenNow /\ EndsNow

\* It holds before the first query.
LEMMA InitIInv == ASSUME PlannerInit PROVE IInv
  <1>1. IsPlan(plan) /\ GivenNow
    BY PlansAssumption, BuiltIsPlan DEF PlannerInit, GivenNow
  <1>2. /\ state = [k \in DOMAIN plan |-> Initial(plan[k].kind)]
        /\ opened = [k \in DOMAIN plan |-> FALSE]
        /\ pins = [p \in Pages |-> 0]
        /\ stack = <<>> /\ phase = "closed"
    BY DEF PlannerInit, Ready
  <1>3. Len(plan) \in DOMAIN plan
    BY <1>1, EmptySeq, LenProperties DEF IsPlan
  <1>4. StackTyped /\ DOMAIN stack = {} /\ \A m : ~Active(m)
    BY <1>2 DEF StackTyped, Active
  <1>5. ASSUME NEW k \in DOMAIN plan PROVE IdleOK(k)
    BY <1>1, <1>2, InputFacts DEF IdleOK
  <1>6. ProtocolInv
    BY <1>2, <1>3, <1>4, <1>5 DEF ProtocolInv, RootOK, Downwards
  <1>7. ASSUME NEW k \in Scans PROVE ScanOK(k)
    BY <1>2 DEF Scans, OfKind, ScanOK, Initial, ScanStart
  <1>8. PinsHeldByScans
    <2>1. ASSUME NEW p \in Pages PROVE pins[p] = 0
      BY <1>2
    <2>2. {k \in Scans : opened[k] /\ state[k].holds} = {}
      BY <1>2 DEF Scans, OfKind
    <2>3. ASSUME NEW p \in Pages
          PROVE  {k \in Scans : opened[k] /\ state[k].holds /\ state[k].page = p} = {}
      BY <2>2
    <2> QED
      BY <2>1, <2>3, FS_EmptySet DEF PinsHeldByScans
  <1> QED
    BY <1>1, <1>2, <1>4, <1>6, <1>7, <1>8 DEF IInv, ProtocolNow, ScansNow, EndsNow

\* The consumer neither changes the operators nor pins a page.
LEMMA ConsumerScans ==
    ASSUME ScansNow, Open \/ Loop \/ AskAgain \/ Close
    PROVE  ScansNow'
  <1>1. UNCHANGED <<plan, table, pins, state, opened>>
    BY DEF Open, Loop, Opened, AskNext, Answered, Ended, AskAgain, EndedAgain, Close, Closed,
        Enter, Proceed, given
  <1> QED
    BY <1>1, ScansSame

\* Steps that leave the phase, and what they do with it.
Ending == ScanFetchNull \/ IndexNextThrows \/ SortThrow \/ SortRaises

\* No other step of an operator moves the consumer.
LEMMA PhaseKept ==
    ASSUME OperatorStep, ~Ending
    PROVE  phase' = phase
  <1>1. CASE \/ ScanOpen \/ ScanClose \/ ScanFetch \/ ScanSlot \/ ScanPageDone \/ ScanEnd
             \/ IndexOpen \/ IndexNext \/ IndexClose
    BY <1>1 DEF ScanOpen, ScanClose, ScanFetch, ScanSlot, ScanPageDone, ScanEnd, IndexOpen,
        IndexNext, IndexClose, Return, Leave, Continue, Consumer
  <1>2. CASE PassFirst \/ PassSecond \/ Passed \/ Ask \/ SelectNext \/ ProjectNext
    BY <1>2 DEF PassFirst, PassSecond, Passed, Ask, SelectNext, ProjectNext, Return, Leave,
        Call, CallThen, Consumer
  <1>3. CASE JoinOpen \/ JoinOpened \/ JoinEnd \/ JoinAsk \/ JoinGotRight \/ JoinMatch
             \/ JoinEmit \/ JoinRightDone \/ JoinReopen \/ JoinAdvance \/ JoinGotLeft
    BY <1>3 DEF JoinOpen, JoinOpened, JoinEnd, JoinAsk, JoinGotRight, JoinMatch, JoinEmit,
        JoinRightDone, JoinReopen, JoinAdvance, JoinGotLeft, Return, Leave, Call, CallThen,
        Continue, Consumer
  <1>4. CASE SortOpen \/ SortConsume \/ SortKeep \/ SortCloseInput \/ SortOpened \/ SortNext
             \/ SortClose
    BY <1>4 DEF SortOpen, SortConsume, SortKeep, SortCloseInput, SortOpened, SortNext, SortClose,
        Return, Leave, Call, CallThen, Continue, Consumer
  <1> QED
    BY <1>1, <1>2, <1>3, <1>4 DEF OperatorStep, Ending

\* No step changes what the query is given.
LEMMA GivenKept == ASSUME Next PROVE UNCHANGED <<plan, table, short>>
  <1>1. CASE Open \/ Loop \/ AskAgain \/ Close
    BY <1>1 DEF Open, Loop, Opened, AskNext, Answered, Ended, AskAgain, EndedAgain, Close, Closed,
        Enter, Proceed, given
  <1>2. CASE \/ ScanOpen \/ ScanClose \/ ScanFetch \/ ScanFetchNull \/ ScanSlot \/ ScanPageDone
             \/ ScanEnd \/ IndexOpen \/ IndexNext \/ IndexNextThrows \/ IndexClose
    BY <1>2 DEF ScanOpen, ScanClose, ScanFetch, ScanFetchNull, ScanSlot, ScanPageDone, ScanEnd,
        IndexOpen, IndexNext, IndexNextThrows, IndexClose, Return, Leave, Continue, Abort,
        Consumer, given
  <1>3. CASE PassFirst \/ PassSecond \/ Passed \/ Ask \/ SelectNext \/ ProjectNext
    BY <1>3 DEF PassFirst, PassSecond, Passed, Ask, SelectNext, ProjectNext, Return, Leave,
        Call, CallThen, Consumer, given
  <1>4. CASE JoinOpen \/ JoinOpened \/ JoinEnd \/ JoinAsk \/ JoinGotRight \/ JoinMatch
             \/ JoinEmit \/ JoinRightDone \/ JoinReopen \/ JoinAdvance \/ JoinGotLeft
    BY <1>4 DEF JoinOpen, JoinOpened, JoinEnd, JoinAsk, JoinGotRight, JoinMatch, JoinEmit,
        JoinRightDone, JoinReopen, JoinAdvance, JoinGotLeft, Return, Leave, Call, CallThen,
        Continue, Consumer, given
  <1>5. CASE SortOpen \/ SortConsume \/ SortKeep \/ SortCloseInput \/ SortThrow \/ SortOpened
             \/ SortRaises \/ SortNext \/ SortClose
    BY <1>5 DEF SortOpen, SortConsume, SortKeep, SortCloseInput, SortThrow, SortOpened,
        SortRaises, SortNext, SortClose, Return, Leave, Call, CallThen, Continue, Abort, Consumer, given
  <1> QED
    BY <1>1, <1>2, <1>3, <1>4, <1>5 DEF Next, OperatorStep

\* A query that ends in the middle does so for want of frames, or by a sort.
LEMMA EndsKept == ASSUME IInv, Next PROVE EndsNow'
  <1>1. UNCHANGED <<plan, table, short>>
    BY GivenKept
  <1>2. SortUnderJoin' = SortUnderJoin /\ Pages' = Pages
    BY <1>1 DEF SortUnderJoin, OfKind, Pages
  <1>3. CASE Open \/ Loop \/ AskAgain \/ Close
    <2>1. phase' \notin {"failed", "raised", "halted"}
      BY <1>3 DEF Open, Loop, Opened, AskNext, Answered, Ended, AskAgain, EndedAgain, Close,
          Closed, Enter, Proceed
    <2> QED
      BY <2>1 DEF EndsNow
  <1>4. CASE OperatorStep /\ ~Ending
    <2>1. stack # <<>>
      <3>1. CASE \/ ScanOpen \/ ScanClose \/ ScanFetch \/ ScanSlot \/ ScanPageDone \/ ScanEnd
                 \/ IndexOpen \/ IndexNext \/ IndexClose
        BY <3>1 DEF ScanOpen, ScanClose, ScanFetch, ScanSlot, ScanPageDone, ScanEnd, ScanNext,
            IndexOpen, IndexNext, IndexClose, Running
      <3>2. CASE PassFirst \/ PassSecond \/ Passed \/ Ask \/ SelectNext \/ ProjectNext
        BY <3>2 DEF PassFirst, PassSecond, Passed, Ask, SelectNext, ProjectNext, PassesOn, Running
      <3>3. CASE JoinOpen \/ JoinOpened \/ JoinEnd \/ JoinAsk \/ JoinGotRight \/ JoinMatch
                 \/ JoinEmit \/ JoinRightDone \/ JoinReopen \/ JoinAdvance \/ JoinGotLeft
        BY <3>3 DEF JoinOpen, JoinOpened, JoinEnd, JoinAsk, JoinGotRight, JoinMatch, JoinEmit,
            JoinRightDone, JoinReopen, JoinAdvance, JoinGotLeft, Running
      <3>4. CASE SortOpen \/ SortConsume \/ SortKeep \/ SortCloseInput \/ SortOpened \/ SortNext
                 \/ SortClose
        BY <3>4 DEF SortOpen, SortConsume, SortKeep, SortCloseInput, SortOpened, SortNext,
            SortClose, Running
      <3> QED
        BY <1>4, <3>1, <3>2, <3>3, <3>4 DEF OperatorStep, Ending
    <2>2. phase' = phase /\ Consuming
      BY <1>4, <2>1, PhaseKept, FrameFacts DEF IInv
    <2> QED
      BY <2>2 DEF Consuming, EndsNow
  <1>5. CASE ScanFetchNull \/ IndexNextThrows
    <2>1. short # 0
      BY <1>5, ScanFinds, IndexFinds DEF IInv
    <2>2. phase' = "halted"
      BY <1>5 DEF ScanFetchNull, IndexNextThrows, Abort
    <2> QED
      BY <1>1, <2>1, <2>2 DEF EndsNow
  <1>6. CASE SortThrow
    <2>1. phase' = "failed" /\ pins' = pins
      BY <1>6 DEF SortThrow, Abort
    <2>2. ~SortUnderJoin => \A p \in Pages : pins[p] = 0
      BY <1>6, FailedAll, NoPins DEF IInv, ScansNow
    <2> QED
      BY <1>2, <2>1, <2>2 DEF EndsNow
  <1>7. CASE SortRaises
    BY <1>7 DEF SortRaises, Abort, EndsNow
  <1> QED
    BY <1>3, <1>4, <1>5, <1>6, <1>7 DEF Next, Ending

\* A step of the query keeps the invariant.
LEMMA NextIInv == ASSUME IInv, Next PROVE IInv'
  <1>1. UNCHANGED <<plan, table>> /\ IsPlan(plan)
    BY GivenKept DEF IInv, ProtocolNow
  <1>2. GivenNow'
    BY <1>1 DEF IInv, GivenNow
  <1>3. EndsNow'
    BY EndsKept
  <1>4. ProtocolKept
    BY LeafSteps, PassSteps, JoinSteps, SortSteps, ConsumerSteps DEF IInv, Next, OperatorStep
  <1>5. ProtocolNow'
    BY <1>1, <1>4 DEF ProtocolKept, ProtocolNow
  <1>6. ScansNow'
    BY ScanSteps, OtherSteps, ConsumerScans DEF IInv, GivenNow, Next, OperatorStep
  <1> QED
    BY <1>2, <1>3, <1>5, <1>6 DEF IInv

\* Where nothing changes, nor does the invariant.
LEMMA StutterIInv == ASSUME IInv, UNCHANGED vars PROVE IInv'
  BY DEF vars, given, IInv, ProtocolNow, StackTyped, ProtocolInv, RootOK, Downwards, PlaceOK,
      LinkOK, InputsOK, IdleOK, Active, KindOf, InputsOf, Consuming, ScansNow, ScanOK,
      PinsHeldByScans, Scans, OfKind, Pages, GivenNow, EndsNow, SortUnderJoin

\* The calls of the operators keep to their protocol, and pins go with it, for every plan,
\* table and pool.
THEOREM InvCorrect == PlannerSpec => []IInv
  <1>1. PlannerInit => IInv
    BY InitIInv
  <1>2. IInv /\ [Next /\ UNCHANGED stmt]_planner => IInv'
    BY NextIInv, StutterIInv DEF planner
  <1> QED
    BY <1>1, <1>2, PTL DEF PlannerSpec

\* A method is called on an operator that is open, and open on one that is not; the inputs
\* of an operator are open with it, but those of a sort only while it reads them.
THEOREM ProtocolCorrect == PlannerSpec => []ProtocolInv
  <1>1. IInv => ProtocolInv
    BY DEF IInv, ProtocolNow
  <1> QED
    BY <1>1, InvCorrect, PTL

\* A page is pinned once for each open scan in the middle of it.
THEOREM PinsCorrect == PlannerSpec => []PinsHeldByScans
  <1>1. IInv => PinsHeldByScans
    BY DEF IInv, ScansNow
  <1> QED
    BY <1>1, InvCorrect, PTL

\* A query that was closed leaves no pin, nor does one that a sort with no join above it ends
\* because it finds no column.  (One left by the exception of lessThan may leave pins.)
THEOREM EndsCorrect == PlannerSpec => []EndsWithoutPins
  <1>1. ASSUME IInv PROVE EndsWithoutPins
    <2>1. CASE phase = "closed"
      BY <1>1, <2>1, ClosedAll, NoPins DEF IInv, ScansNow, EndsWithoutPins
    <2>2. CASE phase # "closed"
      BY <1>1, <2>2 DEF IInv, EndsNow, EndsWithoutPins
    <2> QED
      BY <2>1, <2>2
  <1> QED
    BY <1>1, InvCorrect, PTL

\* With a frame for each scan and one for an index, no operator is given a null page.
THEOREM FramesCorrect == PlannerSpec => []NeverOutOfFrames
  <1>1. IInv => NeverOutOfFrames
    BY DEF IInv, EndsNow, NeverOutOfFrames
  <1> QED
    BY <1>1, InvCorrect, PTL

-----------------------------------------------------------------------------
(* A sort: the order of its tuples *)

\* The comparison of two tuples of s by their places, and the order that is meant: tuples that
\* compare equal stay as they are in s.
Comes(asc, s, i, j) ==
    IF asc THEN LessThan(s[i][sort_col_idx], s[j][sort_col_idx])
    ELSE LessThan(s[j][sort_col_idx], s[i][sort_col_idx])
Precedes(asc, s, i, j) == Comes(asc, s, i, j) \/ (i < j /\ ~Comes(asc, s, j, i))

\* Comes is an order of the tuples, all of which have the column.
Ordered(asc, s) ==
    \A i, j, k \in DOMAIN s :
        /\ Comes(asc, s, i, j) /\ Comes(asc, s, j, k) => Comes(asc, s, i, k)
        /\ (~Comes(asc, s, i, j) /\ ~Comes(asc, s, j, i))
              /\ (~Comes(asc, s, j, k) /\ ~Comes(asc, s, k, j))
           => ~Comes(asc, s, i, k) /\ ~Comes(asc, s, k, i)
Keyed(s) == s \in Seq(Seq(Value)) /\ \A k \in DOMAIN s : HasColumn(s[k])

\* f arranges the tuples of a sequence of length n; it puts them in order.
Arranges(f, n) ==
    /\ f \in [1 .. n -> 1 .. n]
    /\ \A j, k \in 1 .. n : f[j] = f[k] => j = k
    /\ \A i \in 1 .. n : \E j \in 1 .. n : f[j] = i
Rises(asc, s, f, n) == \A j, k \in 1 .. n : j < k => Precedes(asc, s, f[j], f[k])

\* Two values are never each less than the other.
LEMMA LessOneWay ==
    ASSUME NEW a \in Value, NEW b \in Value, LessThan(a, b)
    PROVE  ~LessThan(b, a)
  BY DEF LessThan, Value, Number

\* Of two tuples one precedes the other, and what precedes is passed on.
LEMMA PrecedesOrders ==
    ASSUME NEW asc, NEW s, Keyed(s), Ordered(asc, s),
           NEW i \in DOMAIN s, NEW j \in DOMAIN s, NEW k \in DOMAIN s
    PROVE  /\ i # j => Precedes(asc, s, i, j) \/ Precedes(asc, s, j, i)
           /\ Precedes(asc, s, i, j) => ~Precedes(asc, s, j, i)
           /\ Precedes(asc, s, i, j) /\ Precedes(asc, s, j, k) => Precedes(asc, s, i, k)
  <1>1. \A x \in DOMAIN s : x \in Int /\ s[x][sort_col_idx] \in Value
    BY DEF Keyed, HasColumn
  <1>2. \A x, y \in DOMAIN s : Comes(asc, s, x, y) => ~Comes(asc, s, y, x)
    BY <1>1, LessOneWay DEF Comes
  <1>3. \A x, y, z \in DOMAIN s :
            /\ Comes(asc, s, x, y) /\ Comes(asc, s, y, z) => Comes(asc, s, x, z)
            /\ (~Comes(asc, s, x, y) /\ ~Comes(asc, s, y, x))
                  /\ (~Comes(asc, s, y, z) /\ ~Comes(asc, s, z, y))
               => ~Comes(asc, s, x, z) /\ ~Comes(asc, s, z, x)
    BY DEF Ordered
  <1>4. i # j => Precedes(asc, s, i, j) \/ Precedes(asc, s, j, i)
    BY <1>1 DEF Precedes
  <1>5. Precedes(asc, s, i, j) => ~Precedes(asc, s, j, i)
    BY <1>1, <1>2 DEF Precedes
  <1>6. ASSUME Precedes(asc, s, i, j), Precedes(asc, s, j, k) PROVE Precedes(asc, s, i, k)
    <2>1. CASE Comes(asc, s, i, j)
      BY <1>2, <1>3, <1>6, <2>1 DEF Precedes
    <2>2. CASE ~Comes(asc, s, i, j) /\ Comes(asc, s, j, k)
      BY <1>2, <1>3, <1>6, <2>2 DEF Precedes
    <2>3. CASE ~Comes(asc, s, i, j) /\ ~Comes(asc, s, j, k)
      BY <1>1, <1>2, <1>3, <1>6, <2>3 DEF Precedes
    <2> QED
      BY <2>1, <2>2, <2>3
  <1> QED
    BY <1>4, <1>5, <1>6

\* What StablySorted computes: the tuples of s, so arranged that each precedes those after it.
LEMMA SortArranges ==
    ASSUME NEW s, Keyed(s), IsOrder(s)
    PROVE  \E f : /\ Arranges(f, Len(s)) /\ Rises(is_asc, s, f, Len(s))
                  /\ StablySorted(s, GoesBefore) = [k \in DOMAIN s |-> s[f[k]]]
  <1> DEFINE n == Len(s)
             Ahead(i) == {j \in DOMAIN s : j # i /\ (GoesBefore(s[j], s[i])
                                                       \/ (j < i /\ ~GoesBefore(s[i], s[j])))}
             Position(i) == Cardinality(Ahead(i)) + 1
             f == [k \in DOMAIN s |-> CHOOSE i \in DOMAIN s : Position(i) = k]
  <1>1. /\ n \in Nat /\ DOMAIN s = 1 .. n
        /\ IsFiniteSet(1 .. n) /\ Cardinality(1 .. n) = n
    <2>1. n \in Nat /\ DOMAIN s = 1 .. n
      BY DEF Keyed
    <2> HIDE DEF n
    <2>2. IsFiniteSet(1 .. n) /\ Cardinality(1 .. n) = IF 1 > n THEN 0 ELSE n - 1 + 1
      BY <2>1, FS_Interval
    <2> QED
      BY <2>1, <2>2
  <1>2. Ordered(is_asc, s)
    BY DEF IsOrder, Incomparable, Ordered, Comes, GoesBefore
  <1>3. \A i \in 1 .. n :
            Ahead(i) = {j \in 1 .. n : j # i /\ Precedes(is_asc, s, j, i)}
    BY <1>1 DEF Precedes, Comes, GoesBefore
  <1>4. StablySorted(s, GoesBefore) = [k \in DOMAIN s |-> s[f[k]]]
    BY DEF StablySorted, Before
  <1> HIDE DEF Ahead
  <1>5. \A i \in 1 .. n : IsFiniteSet(Ahead(i)) /\ Position(i) \in 1 .. n
    <2> SUFFICES ASSUME NEW i \in 1 .. n PROVE IsFiniteSet(Ahead(i)) /\ Position(i) \in 1 .. n
      OBVIOUS
    <2>1. IsFiniteSet((1 .. n) \ {i}) /\ Cardinality((1 .. n) \ {i}) = n - 1
      BY <1>1, FS_RemoveElement
    <2>2. Ahead(i) \in SUBSET ((1 .. n) \ {i})
      BY <1>3
    <2>3. IsFiniteSet(Ahead(i)) /\ Cardinality(Ahead(i)) <= n - 1
      BY <2>1, <2>2, FS_Subset
    <2>4. Cardinality(Ahead(i)) \in Nat
      BY <2>3, FS_CardinalityType
    <2> QED
      BY <1>1, <2>3, <2>4
  <1>6. ASSUME NEW i \in 1 .. n, NEW j \in 1 .. n, Precedes(is_asc, s, i, j)
        PROVE  Position(i) < Position(j)
    <2>0. \A x, y, z \in 1 .. n :
              /\ Precedes(is_asc, s, x, y) => ~Precedes(is_asc, s, y, x)
              /\ Precedes(is_asc, s, x, y) /\ Precedes(is_asc, s, y, z)
                    => Precedes(is_asc, s, x, z)
      BY ONLY <1>1, <1>2, Keyed(s), PrecedesOrders
    <2>1. i # j /\ i \notin Ahead(i) /\ i \in Ahead(j)
      <3>1. i # j
        BY Zenon, <1>6, <2>0
      <3> QED
        BY <1>3, <1>6, <3>1
    <2>2. Ahead(i) \subseteq Ahead(j)
      <3> SUFFICES ASSUME NEW k \in Ahead(i) PROVE k \in Ahead(j)
        OBVIOUS
      <3>1. k \in 1 .. n /\ Precedes(is_asc, s, k, i)
        BY <1>3
      <3>2. Precedes(is_asc, s, k, j)
        BY Zenon, <1>6, <2>0, <3>1
      <3>3. k # j
        BY Zenon, <1>6, <2>0, <3>1
      <3> QED
        BY <1>3, <3>1, <3>2, <3>3
    <2>3. Cardinality(Ahead(i) \cup {i}) = Cardinality(Ahead(i)) + 1
      BY <1>5, <2>1, FS_AddElement
    <2>4. Cardinality(Ahead(i) \cup {i}) <= Cardinality(Ahead(j))
      <3>1. Ahead(i) \cup {i} \in SUBSET Ahead(j)
        BY <2>1, <2>2
      <3> QED
        BY <1>5, <3>1, FS_Subset
    <2>5. Cardinality(Ahead(i)) \in Nat /\ Cardinality(Ahead(j)) \in Nat
      BY <1>5, FS_CardinalityType
    <2> QED
      BY <2>3, <2>4, <2>5
  <1> DEFINE pos == [i \in 1 .. n |-> Position(i)]
  <1>7. \A i, j \in 1 .. n : pos[i] = pos[j] => i = j
    <2> SUFFICES ASSUME NEW i \in 1 .. n, NEW j \in 1 .. n, pos[i] = pos[j], i # j PROVE FALSE
      OBVIOUS
    <2>1. Precedes(is_asc, s, i, j) \/ Precedes(is_asc, s, j, i)
      BY <1>1, <1>2, PrecedesOrders
    <2>2. pos[i] < pos[j] \/ pos[j] < pos[i]
      BY <1>6, <2>1
    <2> QED
      BY <1>5, <2>2
  <1>8. \A k \in 1 .. n : \E i \in 1 .. n : pos[i] = k
    <2>1. pos \in [1 .. n -> 1 .. n]
      BY <1>5
    <2>2. pos \in Injection(1 .. n, 1 .. n)
      BY <1>7, <2>1 DEF Injection, IsInjective
    <2>3. pos \in Surjection(1 .. n, 1 .. n)
      BY <1>1, <2>2, FS_Injection
    <2> QED
      BY <2>3 DEF Surjection
  <1>9. \A k \in 1 .. n : f[k] \in 1 .. n /\ pos[f[k]] = k
    BY <1>1, <1>8
  <1> HIDE DEF f
  <1>10. f \in [1 .. n -> 1 .. n]
    BY <1>1, <1>9 DEF f
  <1>11. Arranges(f, n)
    <2>1. \A i \in 1 .. n : f[pos[i]] = i
      BY <1>5, <1>7, <1>9
    <2>2. \A i \in 1 .. n : \E j \in 1 .. n : f[j] = i
      BY <1>5, <2>1
    <2> HIDE DEF pos
    <2> QED
      BY <1>9, <1>10, <2>2 DEF Arranges
  <1>12. Rises(is_asc, s, f, n)
    <2> SUFFICES ASSUME NEW j \in 1 .. n, NEW k \in 1 .. n, j < k
                 PROVE  Precedes(is_asc, s, f[j], f[k])
      BY DEF Rises
    <2>1. f[j] \in 1 .. n /\ f[k] \in 1 .. n /\ pos[f[j]] < pos[f[k]] /\ f[j] # f[k]
      BY <1>9
    <2>2. ~(pos[f[k]] < pos[f[j]])
      BY <1>9
    <2>3. Precedes(is_asc, s, f[k], f[j]) => pos[f[k]] < pos[f[j]]
      BY <1>6, <2>1
    <2> QED
      BY <1>1, <1>2, <2>1, <2>2, <2>3, PrecedesOrders
  <1> QED
    BY <1>4, <1>11, <1>12

-----------------------------------------------------------------------------
(* A sort: its runs *)

\* A tuple comes back from a file as one, and a whole one as it was.
LEMMA RoundTripIs ==
    ASSUME NEW t \in Seq(Value)
    PROVE  RoundTrip(t) \in Seq(Value) /\ (Whole(t) => RoundTrip(t) = t)
  <1>1. ASSUME t # <<>> PROVE Front(t) \in Seq(Value)
    <2>1. Len(t) - 1 \in Nat /\ \A k \in 1 .. Len(t) - 1 : t[k] \in Value
      BY <1>1
    <2> QED
      BY <2>1 DEF Front
  <1> QED
    BY <1>1 DEF RoundTrip, Whole

\* What stable_sort may make of a block is an arrangement of it, in order if there is one.
LEMMA Arranged ==
    ASSUME NEW s \in Seq(Seq(Value)), Len(s) > 1 => Keyed(s), NEW u \in Arrangements(s)
    PROVE  \E f : /\ Arranges(f, Len(s)) /\ (IsOrder(s) => Rises(is_asc, s, f, Len(s)))
                  /\ u = [k \in DOMAIN s |-> s[f[k]]]
  <1>1. Len(s) \in Nat /\ DOMAIN s = 1 .. Len(s)
    OBVIOUS
  <1>2. CASE Len(s) < 2
    <2> DEFINE f == [k \in 1 .. Len(s) |-> k]
    <2>1. Arranges(f, Len(s))
      BY DEF Arranges
    <2>2. Rises(is_asc, s, f, Len(s))
      BY <1>1, <1>2 DEF Rises
    <2>3. u = s
      BY <1>2 DEF Arrangements
    <2>4. s = [k \in DOMAIN s |-> s[f[k]]]
      BY <1>1
    <2> QED
      BY <2>1, <2>2, <2>3, <2>4
  <1>3. CASE Len(s) >= 2 /\ IsOrder(s)
    <2>1. Keyed(s) /\ u = StablySorted(s, GoesBefore)
      BY <1>1, <1>3 DEF Arrangements
    <2> QED
      BY <1>3, <2>1, SortArranges
  <1>4. CASE Len(s) >= 2 /\ ~IsOrder(s)
    <2>1. PICK f \in Bijection(DOMAIN s, DOMAIN s) : u = [k \in DOMAIN s |-> s[f[k]]]
      BY <1>1, <1>4 DEF Arrangements
    <2>2. Arranges(f, Len(s))
      BY <1>1, <2>1 DEF Arranges, Bijection, Injection, Surjection, IsInjective
    <2> QED
      BY <1>4, <2>1, <2>2
  <1> QED
    BY <1>1, <1>2, <1>3, <1>4

\* A run is such an arrangement, as it comes back from its file.
LEMMA RunIs ==
    ASSUME NEW s \in Seq(Seq(Value)), Len(s) > 1 => Keyed(s), NEW run \in FlushRun(s)
    PROVE  /\ run \in Seq(Seq(Value)) /\ Len(run) = Len(s)
           /\ \E f : /\ Arranges(f, Len(s)) /\ (IsOrder(s) => Rises(is_asc, s, f, Len(s)))
                     /\ \A k \in 1 .. Len(s) : run[k] = RoundTrip(s[f[k]])
  <1>1. PICK u \in Arrangements(s) : run = [k \in DOMAIN s |-> RoundTrip(u[k])]
    BY DEF FlushRun, Completed
  <1>2. PICK f : /\ Arranges(f, Len(s)) /\ (IsOrder(s) => Rises(is_asc, s, f, Len(s)))
                 /\ u = [k \in DOMAIN s |-> s[f[k]]]
    BY Arranged
  <1>3. /\ Len(s) \in Nat /\ DOMAIN s = 1 .. Len(s)
        /\ run = [k \in 1 .. Len(s) |-> RoundTrip(s[f[k]])]
    BY <1>1, <1>2
  <1>4. \A k \in 1 .. Len(s) : RoundTrip(s[f[k]]) \in Seq(Value)
    <2>1. ASSUME NEW k \in 1 .. Len(s) PROVE s[f[k]] \in Seq(Value)
      <3>1. f[k] \in 1 .. Len(s)
        BY <1>2 DEF Arranges
      <3> QED
        BY <3>1, ElementOfSeq
    <2> QED
      BY <2>1, RoundTripIs
  <1> QED
    BY <1>2, <1>3, <1>4

-----------------------------------------------------------------------------
(* A sort: which tuple of its input is where *)

\* The lines: number 0 are the tuples returned, the others what is left of the runs.
Lines(M, R) == [n \in 0 .. Len(R) |-> IF n = 0 THEN M ELSE R[n]]

\* at says of each tuple of the lines L which of s it is; all are of D, none is there twice,
\* and the runs come from one block of s after the other.
Account(s, D, L, R, at) ==
    /\ R \in Nat /\ DOMAIN L = 0 .. R /\ DOMAIN at = 0 .. R
    /\ \A n \in 0 .. R : /\ L[n] \in Seq(Seq(Value))
                         /\ at[n] \in [1 .. Len(L[n]) -> D]
    /\ \A n \in 0 .. R : \A k \in 1 .. Len(L[n]) : L[n][k] = RoundTrip(s[at[n][k]])
    /\ \A n, m \in 0 .. R : \A k \in 1 .. Len(L[n]), j \in 1 .. Len(L[m]) :
          at[n][k] = at[m][j] => n = m /\ k = j
    /\ \A n, m \in 1 .. R : n < m =>
          \A k \in 1 .. Len(L[n]), j \in 1 .. Len(L[m]) : at[n][k] < at[m][j]

\* All tuples of D are there.
Covers(D, L, R, at) == \A i \in D : \E n \in 0 .. R : \E k \in 1 .. Len(L[n]) : at[n][k] = i

\* The runs are in order.
RunsRise(asc, s, L, R, at) == \A n \in 1 .. R : Rises(asc, s, at[n], Len(L[n]))

\* All of that, as far as it holds.
Kept(asc, s, D, L, R, at, whole, ordered) ==
    /\ Account(s, D, L, R, at)
    /\ whole => Covers(D, L, R, at)
    /\ ordered => RunsRise(asc, s, L, R, at)

\* The m tuples of s after the first lo as a run, and where they stood.
SortedBlock(s, lo, m, f, run) ==
    /\ Arranges(f, m) /\ run \in Seq(Seq(Value)) /\ Len(run) = m
    /\ \A k \in 1 .. m : run[k] = RoundTrip(s[lo + f[k]])
From(lo, m, f) == [k \in 1 .. m |-> lo + f[k]]

\* A line more; lines cut off; the first of line b moved to the end of line 0.
Extended(L, R, x) == [n \in 0 .. R + 1 |-> IF n = R + 1 THEN x ELSE L[n]]
CutAfter(L, R, max) == [n \in 0 .. R |-> IF n <= max THEN L[n] ELSE <<>>]
HeadOut(L, R, b) ==
    [n \in 0 .. R |-> IF n = 0 THEN Append(L[0], Head(L[b]))
                      ELSE IF n = b THEN Tail(L[b]) ELSE L[n]]
PlaceOut(at, L, R, b) ==
    [n \in 0 .. R |->
        IF n = 0 THEN [k \in 1 .. Len(L[0]) + 1 |->
                          IF k = Len(L[0]) + 1 THEN at[b][1] ELSE at[0][k]]
        ELSE IF n = b THEN [k \in 1 .. Len(L[b]) - 1 |-> at[b][k + 1]]
        ELSE at[n]]

\* A block of the input is sorted into a new run.
LEMMA RunAdded ==
    ASSUME NEW s \in Seq(Seq(Value)), NEW lo \in Nat, NEW m \in Nat, lo + m <= Len(s),
           NEW L, NEW R, NEW at, NEW asc, NEW whole, NEW ordered,
           Kept(asc, s, 1 .. lo, L, R, at, whole, ordered),
           NEW f, NEW run, SortedBlock(s, lo, m, f, run),
           ordered => Rises(asc, s, From(lo, m, f), m),
           NEW L2, L2 = Extended(L, R, run),
           NEW at2, at2 = Extended(at, R, From(lo, m, f))
    PROVE  Kept(asc, s, 1 .. lo + m, L2, R + 1, at2, whole, ordered)
  <1> DEFINE new == From(lo, m, f)
  <1> Account(s, 1 .. lo, L, R, at)
    BY DEF Kept
  <1> /\ Arranges(f, m) /\ run \in Seq(Seq(Value)) /\ Len(run) = m
      /\ \A k \in 1 .. m : run[k] = RoundTrip(s[lo + f[k]])
    BY DEF SortedBlock
  <1>1. /\ R \in Nat /\ DOMAIN L2 = 0 .. R + 1 /\ DOMAIN at2 = 0 .. R + 1
        /\ L2[R + 1] = run /\ at2[R + 1] = new
        /\ \A n \in 0 .. R : L2[n] = L[n] /\ at2[n] = at[n] /\ n # R + 1
        /\ \A n \in 0 .. R + 1 : n # R + 1 => n \in 0 .. R
        /\ \A n \in 1 .. R + 1 : n # R + 1 => n \in 1 .. R
    BY DEF Account, Extended
  <1>2. /\ new \in [1 .. m -> 1 .. lo + m]
        /\ \A k \in 1 .. m : new[k] = lo + f[k] /\ f[k] \in 1 .. m
    <2>1. \A k \in 1 .. m : f[k] \in 1 .. m
      BY DEF Arranges
    <2>2. \A k \in 1 .. m : lo + f[k] \in 1 .. lo + m
      BY ONLY <2>1, lo \in Nat, m \in Nat
    <2> QED
      BY <2>1, <2>2 DEF From
  <1> HIDE DEF new
  <1>3. \A j, k \in 1 .. m : new[j] = new[k] => j = k
    <2>1. \A j, k \in 1 .. m : f[j] = f[k] => j = k
      BY DEF Arranges
    <2> SUFFICES ASSUME NEW j \in 1 .. m, NEW k \in 1 .. m, new[j] = new[k] PROVE j = k
      OBVIOUS
    <2>2. new[j] = lo + f[j] /\ new[k] = lo + f[k] /\ f[j] \in Int /\ f[k] \in Int
      BY ONLY <1>2, j \in 1 .. m, k \in 1 .. m, m \in Nat
    <2>3. f[j] = f[k]
      BY ONLY <2>2, new[j] = new[k], lo \in Nat
    <2> QED
      BY Zenon, <2>1, <2>3
  <1>4. /\ \A n \in 0 .. R : L[n] \in Seq(Seq(Value)) /\ at[n] \in [1 .. Len(L[n]) -> 1 .. lo]
        /\ \A n \in 0 .. R : \A k \in 1 .. Len(L[n]) : L[n][k] = RoundTrip(s[at[n][k]])
        /\ \A n, i \in 0 .. R : \A k \in 1 .. Len(L[n]), j \in 1 .. Len(L[i]) :
              at[n][k] = at[i][j] => n = i /\ k = j
        /\ \A n, i \in 1 .. R : n < i =>
              \A k \in 1 .. Len(L[n]), j \in 1 .. Len(L[i]) : at[n][k] < at[i][j]
    BY DEF Account
  <1>5. \A n \in 0 .. R + 1 : /\ L2[n] \in Seq(Seq(Value))
                              /\ at2[n] \in [1 .. Len(L2[n]) -> 1 .. lo + m]
    <2>1. ASSUME NEW n \in 0 .. R PROVE at[n] \in [1 .. Len(L[n]) -> 1 .. lo + m]
      <3>1. 1 .. lo \subseteq 1 .. lo + m
        OBVIOUS
      <3> QED
        BY ONLY <1>4, <3>1, n \in 0 .. R
    <2> QED
      BY ONLY <1>1, <1>2, <1>4, <2>1, run \in Seq(Seq(Value)), Len(run) = m
  <1>6. \A n \in 0 .. R + 1 : \A k \in 1 .. Len(L2[n]) : L2[n][k] = RoundTrip(s[at2[n][k]])
    <2> SUFFICES ASSUME NEW n \in 0 .. R + 1, NEW k \in 1 .. Len(L2[n])
                 PROVE  L2[n][k] = RoundTrip(s[at2[n][k]])
      OBVIOUS
    <2>1. CASE n = R + 1
      <3>1. L2[n] = run /\ at2[n] = new /\ k \in 1 .. m
        BY Zenon, <1>1, <2>1
      <3>2. new[k] = lo + f[k] /\ run[k] = RoundTrip(s[lo + f[k]])
        BY Zenon, <1>2, <3>1
      <3> QED
        BY Zenon, <3>1, <3>2
    <2>2. CASE n # R + 1
      <3>1. n \in 0 .. R /\ L2[n] = L[n] /\ at2[n] = at[n]
        BY Zenon, <1>1, <2>2
      <3>2. k \in 1 .. Len(L[n])
        BY Zenon, <3>1
      <3>3. L[n][k] = RoundTrip(s[at[n][k]])
        BY Zenon, <1>4, <3>1, <3>2
      <3> QED
        BY Zenon, <3>1, <3>3
    <2> QED
      BY Zenon, <2>1, <2>2
  <1>7. ASSUME NEW n \in 0 .. R, NEW k \in 1 .. Len(L[n]), NEW j \in 1 .. m
        PROVE  at[n][k] < new[j] /\ at[n][k] # new[j]
    <2>1. at[n][k] \in 1 .. lo
      BY ONLY <1>4, n \in 0 .. R, k \in 1 .. Len(L[n])
    <2>2. new[j] = lo + f[j] /\ f[j] \in 1 .. m
      BY ONLY <1>2, j \in 1 .. m
    <2> QED
      BY ONLY <2>1, <2>2, lo \in Nat, m \in Nat
  <1>8. \A n, i \in 0 .. R + 1 : \A k \in 1 .. Len(L2[n]), j \in 1 .. Len(L2[i]) :
           at2[n][k] = at2[i][j] => n = i /\ k = j
    <2> SUFFICES ASSUME NEW n \in 0 .. R + 1, NEW i \in 0 .. R + 1,
                        NEW k \in 1 .. Len(L2[n]), NEW j \in 1 .. Len(L2[i]),
                        at2[n][k] = at2[i][j]
                 PROVE  n = i /\ k = j
      OBVIOUS
    <2>1. CASE n = R + 1 /\ i = R + 1
      BY ONLY <1>1, <1>3, <2>1, Len(run) = m, k \in 1 .. Len(L2[n]), j \in 1 .. Len(L2[i]),
              at2[n][k] = at2[i][j]
    <2>2. CASE n # R + 1 /\ i # R + 1
      <3>1. /\ n \in 0 .. R /\ i \in 0 .. R
            /\ L2[n] = L[n] /\ L2[i] = L[i] /\ at2[n] = at[n] /\ at2[i] = at[i]
        BY Zenon, <1>1, <2>2
      <3>2. k \in 1 .. Len(L[n]) /\ j \in 1 .. Len(L[i]) /\ at[n][k] = at[i][j]
        BY Zenon, <3>1
      <3>3. \A a, b \in 0 .. R : \A c \in 1 .. Len(L[a]), d \in 1 .. Len(L[b]) :
               at[a][c] = at[b][d] => a = b /\ c = d
        BY Zenon, <1>4
      <3> QED
        BY ONLY <3>1, <3>2, <3>3
    <2>3. CASE n = R + 1 /\ i # R + 1
      <3>1. /\ i \in 0 .. R /\ L2[i] = L[i] /\ at2[i] = at[i]
            /\ L2[n] = run /\ at2[n] = new
        BY Zenon, <1>1, <2>3
      <3>2. k \in 1 .. m /\ j \in 1 .. Len(L[i]) /\ new[k] = at[i][j]
        BY Zenon, <3>1
      <3> QED
        BY Zenon, <1>7, <3>1, <3>2
    <2>4. CASE n # R + 1 /\ i = R + 1
      <3>1. /\ n \in 0 .. R /\ L2[n] = L[n] /\ at2[n] = at[n]
            /\ L2[i] = run /\ at2[i] = new
        BY Zenon, <1>1, <2>4
      <3>2. j \in 1 .. m /\ k \in 1 .. Len(L[n]) /\ at[n][k] = new[j]
        BY Zenon, <3>1
      <3> QED
        BY Zenon, <1>7, <3>1, <3>2
    <2> QED
      BY ONLY <2>1, <2>2, <2>3, <2>4
  <1>9. \A n, i \in 1 .. R + 1 : n < i =>
           \A k \in 1 .. Len(L2[n]), j \in 1 .. Len(L2[i]) : at2[n][k] < at2[i][j]
    <2> SUFFICES ASSUME NEW n \in 1 .. R + 1, NEW i \in 1 .. R + 1, n < i,
                        NEW k \in 1 .. Len(L2[n]), NEW j \in 1 .. Len(L2[i])
                 PROVE  at2[n][k] < at2[i][j]
      OBVIOUS
    <2>1. n \in 1 .. R /\ n \in 0 .. R
      <3>1. R \in Nat
        BY <1>1
      <3> QED
        BY ONLY <3>1, n \in 1 .. R + 1, i \in 1 .. R + 1, n < i
    <2>2. CASE i = R + 1
      BY ONLY <1>1, <1>7, <2>1, <2>2, Len(run) = m, k \in 1 .. Len(L2[n]), j \in 1 .. Len(L2[i])
    <2>3. CASE i \in 1 .. R
      <3>1. i \in 0 .. R
        BY ONLY <2>3
      <3> QED
        BY ONLY <1>1, <1>4, <2>1, <2>3, <3>1, n < i, k \in 1 .. Len(L2[n]), j \in 1 .. Len(L2[i])
    <2> QED
      BY ONLY <1>1, <2>2, <2>3, i \in 1 .. R + 1
  <1>10. Account(s, 1 .. lo + m, L2, R + 1, at2)
    <2>1. R + 1 \in Nat
      BY <1>1
    <2> QED
      BY ONLY <1>1, <1>5, <1>6, <1>8, <1>9, <2>1 DEF Account
  <1>11. ASSUME Covers(1 .. lo, L, R, at) PROVE Covers(1 .. lo + m, L2, R + 1, at2)
    <2> SUFFICES ASSUME NEW i \in 1 .. lo + m
                 PROVE  \E n \in 0 .. R + 1 : \E k \in 1 .. Len(L2[n]) : at2[n][k] = i
      BY DEF Covers
    <2>1. CASE i <= lo
      <3> i \in 1 .. lo
        BY <2>1
      <3>1. PICK n \in 0 .. R : \E k \in 1 .. Len(L[n]) : at[n][k] = i
        BY Zenon, <1>11 DEF Covers
      <3>2. n \in 0 .. R + 1
        BY <1>1
      <3> QED
        BY ONLY <1>1, <3>1, <3>2
    <2>2. CASE i > lo
      <3>1. i - lo \in 1 .. m
        BY <2>2
      <3>2. PICK k \in 1 .. m : f[k] = i - lo
        BY <3>1 DEF Arranges
      <3>3. new[k] = i
        BY ONLY <1>2, <3>2, lo \in Nat, i \in 1 .. lo + m
      <3>4. R + 1 \in 0 .. R + 1
        BY <1>1
      <3> QED
        BY ONLY <1>1, <3>2, <3>3, <3>4, Len(run) = m
    <2>3. i <= lo \/ i > lo
      OBVIOUS
    <2> QED
      BY Zenon, <2>1, <2>2, <2>3
  <1>12. ASSUME RunsRise(asc, s, L, R, at), Rises(asc, s, at2[R + 1], m)
         PROVE  RunsRise(asc, s, L2, R + 1, at2)
    <2>1. \A n \in 1 .. R : n \in 0 .. R
      OBVIOUS
    <2> QED
      BY ONLY <1>1, <1>12, <2>1, Len(run) = m DEF RunsRise
  <1>13. ordered => Rises(asc, s, at2[R + 1], m)
    BY <1>1 DEF new
  <1> QED
    BY <1>10, <1>11, <1>12, <1>13 DEF Kept

\* Runs for which there is no stream are dropped.
LEMMA RunsCut ==
    ASSUME NEW s, NEW D, NEW L, NEW R, NEW at, NEW asc, NEW whole, NEW ordered,
           Kept(asc, s, D, L, R, at, whole, ordered),
           NEW max \in Nat, whole => R <= max,
           NEW L2, L2 = CutAfter(L, R, max), NEW at2, at2 = CutAfter(at, R, max)
    PROVE  Kept(asc, s, D, L2, R, at2, whole, ordered)
  <1> Account(s, D, L, R, at)
    BY DEF Kept
  <1>1. /\ R \in Nat /\ DOMAIN L = 0 .. R /\ DOMAIN at = 0 .. R
        /\ \A n \in 0 .. R : L[n] \in Seq(Seq(Value)) /\ at[n] \in [1 .. Len(L[n]) -> D]
        /\ \A n \in 0 .. R : \A k \in 1 .. Len(L[n]) : L[n][k] = RoundTrip(s[at[n][k]])
    BY DEF Account
  <1>2. /\ DOMAIN L2 = 0 .. R /\ DOMAIN at2 = 0 .. R
        /\ \A n \in 0 .. R : \/ L2[n] = L[n] /\ at2[n] = at[n]
                             \/ ~(n <= max) /\ L2[n] = <<>> /\ at2[n] = <<>>
    BY DEF CutAfter
  <1>3. /\ <<>> \in Seq(Seq(Value)) /\ <<>> \in [1 .. Len(<<>>) -> D] /\ 1 .. Len(<<>>) = {}
        /\ Len(<<>>) = 0
    OBVIOUS
  <1>4. \A n \in 0 .. R : L2[n] \in Seq(Seq(Value)) /\ at2[n] \in [1 .. Len(L2[n]) -> D]
    BY Zenon, <1>1, <1>2, <1>3
  <1>5. \A n \in 0 .. R : \A k \in 1 .. Len(L2[n]) :
           k \in 1 .. Len(L[n]) /\ L2[n] = L[n] /\ at2[n] = at[n]
    BY Zenon, <1>2, <1>3
  <1>6. \A n \in 0 .. R : \A k \in 1 .. Len(L2[n]) : L2[n][k] = RoundTrip(s[at2[n][k]])
    <2> SUFFICES ASSUME NEW n \in 0 .. R, NEW k \in 1 .. Len(L2[n])
                 PROVE  L2[n][k] = RoundTrip(s[at2[n][k]])
      OBVIOUS
    <2>1. k \in 1 .. Len(L[n]) /\ L2[n] = L[n] /\ at2[n] = at[n]
      BY Zenon, <1>5
    <2>2. L[n][k] = RoundTrip(s[at[n][k]])
      BY Zenon, <1>1, <2>1
    <2> QED
      BY Zenon, <2>1, <2>2
  <1>7. \A n, i \in 0 .. R : \A k \in 1 .. Len(L2[n]), j \in 1 .. Len(L2[i]) :
           at2[n][k] = at2[i][j] => n = i /\ k = j
    <2> SUFFICES ASSUME NEW n \in 0 .. R, NEW i \in 0 .. R,
                        NEW k \in 1 .. Len(L2[n]), NEW j \in 1 .. Len(L2[i]),
                        at2[n][k] = at2[i][j]
                 PROVE  n = i /\ k = j
      OBVIOUS
    <2>1. /\ k \in 1 .. Len(L[n]) /\ j \in 1 .. Len(L[i]) /\ at[n][k] = at[i][j]
      BY Zenon, <1>5
    <2>2. \A a, b \in 0 .. R : \A c \in 1 .. Len(L[a]), d \in 1 .. Len(L[b]) :
               at[a][c] = at[b][d] => a = b /\ c = d
      BY Zenon DEF Account
    <2> QED
      BY ONLY <2>1, <2>2, n \in 0 .. R, i \in 0 .. R
  <1>8. \A n, i \in 1 .. R : n < i =>
           \A k \in 1 .. Len(L2[n]), j \in 1 .. Len(L2[i]) : at2[n][k] < at2[i][j]
    <2> SUFFICES ASSUME NEW n \in 1 .. R, NEW i \in 1 .. R, n < i,
                        NEW k \in 1 .. Len(L2[n]), NEW j \in 1 .. Len(L2[i])
                 PROVE  at2[n][k] < at2[i][j]
      OBVIOUS
    <2>1. n \in 0 .. R /\ i \in 0 .. R
      OBVIOUS
    <2>2. /\ k \in 1 .. Len(L[n]) /\ j \in 1 .. Len(L[i])
          /\ at2[n] = at[n] /\ at2[i] = at[i]
      BY Zenon, <1>5, <2>1
    <2>3. at[n][k] < at[i][j]
      BY Zenon, <2>2 DEF Account
    <2> QED
      BY Zenon, <2>2, <2>3
  <1>9. Account(s, D, L2, R, at2)
    BY Zenon, <1>1, <1>2, <1>4, <1>6, <1>7, <1>8 DEF Account
  <1>10. ASSUME R <= max, Covers(D, L, R, at) PROVE Covers(D, L2, R, at2)
    <2>1. \A n \in 0 .. R : n <= max
      BY <1>1, <1>10
    <2>2. \A n \in 0 .. R : L2[n] = L[n] /\ at2[n] = at[n]
      BY Zenon, <1>2, <2>1
    <2> SUFFICES ASSUME NEW i \in D
                 PROVE  \E n \in 0 .. R : \E k \in 1 .. Len(L2[n]) : at2[n][k] = i
      BY Zenon DEF Covers
    <2>3. PICK n \in 0 .. R : \E k \in 1 .. Len(L[n]) : at[n][k] = i
      BY Zenon, <1>10 DEF Covers
    <2>4. L2[n] = L[n] /\ at2[n] = at[n]
      BY Zenon, <2>2
    <2> QED
      BY Zenon, <2>3, <2>4
  <1>11. ASSUME RunsRise(asc, s, L, R, at) PROVE RunsRise(asc, s, L2, R, at2)
    <2> SUFFICES ASSUME NEW n \in 1 .. R, NEW j \in 1 .. Len(L2[n]), NEW k \in 1 .. Len(L2[n]),
                        j < k
                 PROVE  Precedes(asc, s, at2[n][j], at2[n][k])
      BY DEF RunsRise, Rises
    <2>1. n \in 0 .. R
      OBVIOUS
    <2>2. j \in 1 .. Len(L[n]) /\ k \in 1 .. Len(L[n]) /\ at2[n] = at[n]
      BY Zenon, <1>5, <2>1
    <2> QED
      BY Zenon, <1>11, <2>2 DEF RunsRise, Rises
  <1> QED
    BY Zenon, <1>9, <1>10, <1>11 DEF Kept

\* The head of a run is returned.
LEMMA HeadMoved ==
    ASSUME NEW s, NEW D, NEW L, NEW R, NEW at, NEW asc, NEW whole, NEW ordered,
           Kept(asc, s, D, L, R, at, whole, ordered),
           NEW b \in 1 .. R, L[b] # <<>>,
           NEW L2, L2 = HeadOut(L, R, b), NEW at2, at2 = PlaceOut(at, L, R, b)
    PROVE  Kept(asc, s, D, L2, R, at2, whole, ordered)
  <1> Account(s, D, L, R, at)
    BY DEF Kept
  <1> DEFINE Old(n, k) == IF n = 0 /\ k = Len(L[0]) + 1 THEN <<b, 1>>
                          ELSE IF n = b THEN <<b, k + 1>> ELSE <<n, k>>
  <1>1. /\ R \in Nat /\ DOMAIN L = 0 .. R /\ DOMAIN at = 0 .. R
        /\ \A n \in 0 .. R : L[n] \in Seq(Seq(Value)) /\ at[n] \in [1 .. Len(L[n]) -> D]
        /\ \A n \in 0 .. R : \A k \in 1 .. Len(L[n]) : L[n][k] = RoundTrip(s[at[n][k]])
    BY DEF Account
  <1>2. 0 \in 0 .. R /\ b \in 0 .. R /\ b # 0
    BY <1>1
  <1>3. L[0] \in Seq(Seq(Value)) /\ L[b] \in Seq(Seq(Value))
    BY <1>1, <1>2
  <1> PICK u, v : u = Len(L[0]) /\ v = Len(L[b])
    OBVIOUS
  <1>4. u \in Nat /\ v \in Nat /\ v > 0
    BY <1>3
  <1>5. /\ L2[0] \in Seq(Seq(Value)) /\ Len(L2[0]) = u + 1
        /\ \A k \in 1 .. u : L2[0][k] = L[0][k]
        /\ L2[0][u + 1] = L[b][1]
        /\ L2[b] \in Seq(Seq(Value)) /\ Len(L2[b]) = v - 1
        /\ \A k \in 1 .. v - 1 : L2[b][k] = L[b][k + 1]
    <2>1. L2[0] = Append(L[0], Head(L[b])) /\ L2[b] = Tail(L[b])
      BY <1>2 DEF HeadOut
    <2>2. Head(L[b]) = L[b][1] /\ L[b][1] \in Seq(Value)
      BY ONLY <1>3, <1>4, v = Len(L[b])
    <2> QED
      BY ONLY <1>3, <1>4, <2>1, <2>2, u = Len(L[0]), v = Len(L[b])
  <1>6. /\ DOMAIN L2 = 0 .. R /\ DOMAIN at2 = 0 .. R
        /\ at2[0] = [k \in 1 .. u + 1 |-> IF k = u + 1 THEN at[b][1] ELSE at[0][k]]
        /\ at2[b] = [k \in 1 .. v - 1 |-> at[b][k + 1]]
        /\ \A n \in 0 .. R : n # 0 /\ n # b => L2[n] = L[n] /\ at2[n] = at[n]
    BY <1>2 DEF HeadOut, PlaceOut
  <1>7. ASSUME NEW n \in 0 .. R, NEW k \in 1 .. Len(L2[n])
        PROVE  \E m \in 0 .. R : \E j \in 1 .. Len(L[m]) :
                  /\ Old(n, k) = <<m, j>> /\ L2[n][k] = L[m][j] /\ at2[n][k] = at[m][j]
    <2>1. CASE n = 0 /\ k = u + 1
      <3>1. 1 \in 1 .. Len(L[b])
        BY <1>4
      <3> QED
        BY <1>2, <1>4, <1>5, <1>6, <2>1, <3>1
    <2>2. CASE n = 0 /\ k # u + 1
      <3>1. k \in 1 .. u /\ Old(n, k) = <<n, k>> /\ k # u + 1
        BY <1>2, <1>4, <1>5, <2>2
      <3>2. at2[0][k] = at[0][k] /\ L2[0][k] = L[0][k]
        BY ONLY <1>4, <1>5, <1>6, <3>1
      <3> QED
        BY ONLY <1>2, <2>2, <3>1, <3>2, u = Len(L[0])
    <2>3. CASE n = b
      <3>1. k \in 1 .. v - 1
        BY Zenon, <1>5, <2>3
      <3>2. k + 1 \in 1 .. v
        BY ONLY <1>4, <3>1
      <3>3. Old(n, k) = <<b, k + 1>>
        BY <1>2, <2>3
      <3>4. at2[b][k] = at[b][k + 1] /\ L2[b][k] = L[b][k + 1]
        BY ONLY <1>5, <1>6, <3>1
      <3> QED
        BY ONLY <1>2, <2>3, <3>2, <3>3, <3>4, v = Len(L[b])
    <2>4. CASE n # 0 /\ n # b
      BY <1>6, <2>4
    <2> QED
      BY <2>1, <2>2, <2>3, <2>4
  <1>8. ASSUME NEW n \in 0 .. R, NEW k \in 1 .. Len(L2[n]),
               NEW i \in 0 .. R, NEW j \in 1 .. Len(L2[i]), Old(n, k) = Old(i, j)
        PROVE  n = i /\ k = j
    <2>1. /\ n \in Int /\ i \in Int /\ k \in Int /\ j \in Int /\ k >= 1 /\ j >= 1
          /\ n = 0 => k <= u + 1
          /\ i = 0 => j <= u + 1
      <3>1. k \in Int /\ k >= 1 /\ j \in Int /\ j >= 1
        BY ONLY k \in 1 .. Len(L2[n]), j \in 1 .. Len(L2[i])
      <3>2. Len(L2[0]) = u + 1 /\ u \in Nat
        BY <1>1, <1>4, <1>5
      <3>3. n = 0 => k <= u + 1
        BY ONLY <3>2, k \in 1 .. Len(L2[n])
      <3>4. i = 0 => j <= u + 1
        BY ONLY <3>2, j \in 1 .. Len(L2[i])
      <3> QED
        BY <3>1, <3>3, <3>4
    <2>2. /\ n = 0 /\ k = u + 1 => Old(n, k) = <<b, 1>>
          /\ n = b => Old(n, k) = <<b, k + 1>>
          /\ n # b /\ ~(n = 0 /\ k = u + 1) => Old(n, k) = <<n, k>>
      BY <1>2
    <2>3. /\ i = 0 /\ j = u + 1 => Old(i, j) = <<b, 1>>
          /\ i = b => Old(i, j) = <<b, j + 1>>
          /\ i # b /\ ~(i = 0 /\ j = u + 1) => Old(i, j) = <<i, j>>
      BY <1>2
    <2> HIDE DEF Old
    <2> QED
      BY ONLY <1>2, <1>8, <2>1, <2>2, <2>3
  <1> HIDE DEF Old
  <1>9. \A n \in 0 .. R : L2[n] \in Seq(Seq(Value)) /\ at2[n] \in [1 .. Len(L2[n]) -> D]
    <2> SUFFICES ASSUME NEW n \in 0 .. R
                 PROVE  L2[n] \in Seq(Seq(Value)) /\ at2[n] \in [1 .. Len(L2[n]) -> D]
      OBVIOUS
    <2>1. L2[n] \in Seq(Seq(Value))
      BY Zenon, <1>1, <1>5, <1>6
    <2>2. DOMAIN at2[n] = 1 .. Len(L2[n]) /\ at2[n] = [k \in 1 .. Len(L2[n]) |-> at2[n][k]]
      <3>1. CASE n = 0
        BY ONLY <1>5, <1>6, <3>1
      <3>2. CASE n = b
        BY ONLY <1>5, <1>6, <3>2
      <3>3. CASE n # 0 /\ n # b
        BY ONLY <1>1, <1>6, <3>3, n \in 0 .. R
      <3> QED
        BY Zenon, <3>1, <3>2, <3>3
    <2>3. \A k \in 1 .. Len(L2[n]) : at2[n][k] \in D
      <3> SUFFICES ASSUME NEW k \in 1 .. Len(L2[n]) PROVE at2[n][k] \in D
        OBVIOUS
      <3>1. PICK m \in 0 .. R : \E j \in 1 .. Len(L[m]) :
                /\ Old(n, k) = <<m, j>> /\ L2[n][k] = L[m][j] /\ at2[n][k] = at[m][j]
        BY <1>7
      <3> QED
        BY ONLY <1>1, <3>1
    <2> QED
      BY ONLY <2>1, <2>2, <2>3
  <1>10. \A n \in 0 .. R : \A k \in 1 .. Len(L2[n]) : L2[n][k] = RoundTrip(s[at2[n][k]])
    <2> SUFFICES ASSUME NEW n \in 0 .. R, NEW k \in 1 .. Len(L2[n])
                 PROVE  L2[n][k] = RoundTrip(s[at2[n][k]])
      OBVIOUS
    <2>1. PICK m \in 0 .. R : \E j \in 1 .. Len(L[m]) :
              /\ Old(n, k) = <<m, j>> /\ L2[n][k] = L[m][j] /\ at2[n][k] = at[m][j]
      BY <1>7
    <2>2. \A j \in 1 .. Len(L[m]) : L[m][j] = RoundTrip(s[at[m][j]])
      BY Zenon, <1>1
    <2> QED
      BY Zenon, <2>1, <2>2
  <1>11. \A a, c \in 0 .. R : \A k \in 1 .. Len(L[a]), j \in 1 .. Len(L[c]) :
            at[a][k] = at[c][j] => a = c /\ k = j
    BY Zenon DEF Account
  <1>12. \A n, i \in 0 .. R : \A k \in 1 .. Len(L2[n]), j \in 1 .. Len(L2[i]) :
           at2[n][k] = at2[i][j] => n = i /\ k = j
    <2> SUFFICES ASSUME NEW n \in 0 .. R, NEW i \in 0 .. R,
                        NEW k \in 1 .. Len(L2[n]), NEW j \in 1 .. Len(L2[i]),
                        at2[n][k] = at2[i][j]
                 PROVE  n = i /\ k = j
      OBVIOUS
    <2>1. PICK a \in 0 .. R : \E c \in 1 .. Len(L[a]) :
                                   Old(n, k) = <<a, c>> /\ at2[n][k] = at[a][c]
      BY Zenon, <1>7
    <2>2. PICK c \in 1 .. Len(L[a]) : Old(n, k) = <<a, c>> /\ at2[n][k] = at[a][c]
      BY Zenon, <2>1
    <2>3. PICK x \in 0 .. R : \E y \in 1 .. Len(L[x]) :
                                   Old(i, j) = <<x, y>> /\ at2[i][j] = at[x][y]
      BY Zenon, <1>7
    <2>4. PICK y \in 1 .. Len(L[x]) : Old(i, j) = <<x, y>> /\ at2[i][j] = at[x][y]
      BY Zenon, <2>3
    <2>5. at[a][c] = at[x][y]
      BY Zenon, <2>2, <2>4
    <2>6. \A p \in 1 .. Len(L[a]), q \in 1 .. Len(L[x]) :
             at[a][p] = at[x][q] => a = x /\ p = q
      BY Zenon, <1>11
    <2>7. a = x /\ c = y
      BY Zenon, <2>6, <2>5
    <2>8. Old(n, k) = Old(i, j)
      BY Zenon, <2>2, <2>4, <2>7
    <2> QED
      BY <1>8, <2>8
  <1>13. ASSUME NEW n \in 1 .. R, NEW k \in 1 .. Len(L2[n])
         PROVE  /\ n \in 0 .. R
                /\ n = b => k + 1 \in 1 .. Len(L[n]) /\ at2[n][k] = at[n][k + 1]
                /\ n # b => k \in 1 .. Len(L[n]) /\ at2[n][k] = at[n][k]
    <2>1. n \in 0 .. R /\ n # 0
      BY <1>1
    <2>2. CASE n = b
      <3>1. k \in 1 .. v - 1
        BY Zenon, <1>5, <2>2
      <3>2. k + 1 \in 1 .. v /\ at2[b][k] = at[b][k + 1]
        BY ONLY <1>4, <1>6, <3>1
      <3> QED
        BY ONLY <2>1, <2>2, <3>2, v = Len(L[b])
    <2>3. CASE n # b
      BY Zenon, <1>6, <2>1, <2>3
    <2> QED
      BY Zenon, <2>1, <2>2, <2>3
  <1>14. \A n, i \in 1 .. R : n < i =>
            \A k \in 1 .. Len(L2[n]), j \in 1 .. Len(L2[i]) : at2[n][k] < at2[i][j]
    <2> SUFFICES ASSUME NEW n \in 1 .. R, NEW i \in 1 .. R, n < i,
                        NEW k \in 1 .. Len(L2[n]), NEW j \in 1 .. Len(L2[i])
                 PROVE  at2[n][k] < at2[i][j]
      OBVIOUS
    <2>1. PICK c \in 1 .. Len(L[n]) : at2[n][k] = at[n][c]
      BY Zenon, <1>13
    <2>2. PICK d \in 1 .. Len(L[i]) : at2[i][j] = at[i][d]
      BY Zenon, <1>13
    <2>3. at[n][c] < at[i][d]
      BY Zenon DEF Account
    <2> QED
      BY Zenon, <2>1, <2>2, <2>3
  <1>15. Account(s, D, L2, R, at2)
    BY Zenon, <1>1, <1>6, <1>9, <1>10, <1>12, <1>14 DEF Account
  <1>16. ASSUME Covers(D, L, R, at) PROVE Covers(D, L2, R, at2)
    <2> SUFFICES ASSUME NEW i \in D
                 PROVE  \E n \in 0 .. R : \E k \in 1 .. Len(L2[n]) : at2[n][k] = i
      BY Zenon DEF Covers
    <2>1. PICK n \in 0 .. R : \E k \in 1 .. Len(L[n]) : at[n][k] = i
      BY Zenon, <1>16 DEF Covers
    <2>2. PICK k \in 1 .. Len(L[n]) : at[n][k] = i
      BY Zenon, <2>1
    <2>3. CASE n = 0
      <3>1. k \in 1 .. u + 1 /\ k # u + 1
        BY <1>4, <2>3
      <3>2. at2[0][k] = i
        BY ONLY <1>6, <2>2, <2>3, <3>1
      <3> QED
        BY ONLY <1>2, <1>5, <3>1, <3>2
    <2>4. CASE n = b /\ k = 1
      <3>1. u + 1 \in 1 .. u + 1 /\ at2[0][u + 1] = i
        BY ONLY <1>4, <1>6, <2>2, <2>4
      <3> QED
        BY ONLY <1>2, <1>5, <3>1
    <2>5. CASE n = b /\ k # 1
      <3>1. k - 1 \in 1 .. v - 1 /\ k - 1 + 1 = k
        BY <1>4, <2>5
      <3>2. at2[b][k - 1] = i
        BY ONLY <1>6, <2>2, <2>5, <3>1
      <3> QED
        BY ONLY <1>2, <1>5, <3>1, <3>2
    <2>6. CASE n # 0 /\ n # b
      BY Zenon, <1>6, <2>2, <2>6
    <2> QED
      BY Zenon, <2>3, <2>4, <2>5, <2>6
  <1>17. ASSUME RunsRise(asc, s, L, R, at) PROVE RunsRise(asc, s, L2, R, at2)
    <2> SUFFICES ASSUME NEW n \in 1 .. R, NEW j \in 1 .. Len(L2[n]), NEW k \in 1 .. Len(L2[n]),
                        j < k
                 PROVE  Precedes(asc, s, at2[n][j], at2[n][k])
      BY Zenon DEF RunsRise, Rises
    <2>1. CASE n = b
      <3>1. /\ j + 1 \in 1 .. Len(L[n]) /\ k + 1 \in 1 .. Len(L[n]) /\ j + 1 < k + 1
            /\ at2[n][j] = at[n][j + 1] /\ at2[n][k] = at[n][k + 1]
        BY <1>13, <2>1
      <3> QED
        BY Zenon, <1>17, <3>1 DEF RunsRise, Rises
    <2>2. CASE n # b
      <3>1. /\ j \in 1 .. Len(L[n]) /\ k \in 1 .. Len(L[n])
            /\ at2[n][j] = at[n][j] /\ at2[n][k] = at[n][k]
        BY Zenon, <1>13, <2>2
      <3> QED
        BY Zenon, <1>17, <3>1 DEF RunsRise, Rises
    <2> QED
      BY Zenon, <2>1, <2>2
  <1> QED
    BY Zenon, <1>15, <1>16, <1>17 DEF Kept

-----------------------------------------------------------------------------
(* A sort: the run that wins *)

\* A set of numbers that is not empty has a least one.
LEMMA LeastRun ==
    ASSUME NEW S \in SUBSET Nat, S # {}
    PROVE  \E n \in S : \A m \in S : n <= m
  <1>1. PICK n \in S : \A m \in S : ~(<<m, n>> \in OpToRel(<, Nat))
    BY WFMin, NatLessThanWellFounded
  <1>2. \A m \in S : ~(m < n)
    BY <1>1 DEF OpToRel
  <1> QED
    BY <1>2

\* best, from one run to the next, as far as run n.
Selects(best, n) ==
    /\ best = [d \in 0 .. n |-> best[d]] /\ best[0] = 0
    /\ \A d \in 1 .. n : best[d] = IF Wins(d, best[d - 1]) THEN d ELSE best[d - 1]

\* There is such a function.
LEMMA SelectsToTheEnd ==
    ASSUME NEW m \in Nat
    PROVE  \E f : Selects(f, m)
  <1> DEFINE bad == {n \in Nat : ~\E f : Selects(f, n)}
  <1>1. bad = {}
    <2> SUFFICES ASSUME bad # {} PROVE FALSE
      OBVIOUS
    <2> bad \in SUBSET Nat
      OBVIOUS
    <2>1. PICK n \in bad : \A x \in bad : n <= x
      <3> HIDE DEF bad
      <3> QED
        BY LeastRun
    <2>2. n \in Nat /\ ~\E f : Selects(f, n)
      OBVIOUS
    <2>3. CASE n = 0
      <3> DEFINE f == [d \in 0 .. 0 |-> 0]
      <3>1. Selects(f, 0)
        BY DEF Selects
      <3> HIDE DEF f
      <3> QED
        BY <2>2, <2>3, <3>1
    <2>4. CASE n > 0
      <3>1. n - 1 \in Nat /\ n - 1 \notin bad
        <4>1. n \in Nat
          BY <2>2
        <4> HIDE DEF bad
        <4> QED
          BY <2>1, <2>4, <4>1
      <3>2. PICK f : Selects(f, n - 1)
        BY <3>1
      <3> DEFINE g == [d \in 0 .. n |->
                         IF d # n THEN f[d] ELSE IF Wins(n, f[n - 1]) THEN n ELSE f[n - 1]]
      <3>3. g = [d \in 0 .. n |-> g[d]] /\ g[0] = 0
        BY <2>2, <2>4, <3>2 DEF Selects
      <3>4. ASSUME NEW d \in 1 .. n
            PROVE  g[d] = IF Wins(d, g[d - 1]) THEN d ELSE g[d - 1]
        <4>1. g[d - 1] = f[d - 1]
          BY <2>2, <2>4
        <4>2. CASE d = n
          BY <2>2, <4>1, <4>2
        <4>3. CASE d # n
          <5>1. d \in 1 .. n - 1 /\ g[d] = f[d]
            BY <2>2, <4>3
          <5> QED
            BY <3>2, <4>1, <5>1 DEF Selects
        <4> QED
          BY <4>2, <4>3
      <3> HIDE DEF g
      <3>5. Selects(g, n)
        BY <3>3, <3>4 DEF Selects
      <3> QED
        BY <2>2, <3>5
    <2> QED
      BY <2>2, <2>3, <2>4
  <1> QED
    BY <1>1

\* Best is where it ends.
LEMMA BestIs ==
    ASSUME Len(runs) \in Nat
    PROVE  \E f : Selects(f, Len(runs)) /\ Best = f[Len(runs)]
  <1> PICK N : N = Len(runs)
    OBVIOUS
  <1> DEFINE Way(f) == f = [n \in 0 .. Len(runs) |->
                               IF n = 0 THEN 0 ELSE IF Wins(n, f[n - 1]) THEN n ELSE f[n - 1]]
             c == CHOOSE f : Way(f)
  <1>1. N \in Nat
    OBVIOUS
  <1>2. PICK f : Selects(f, N)
    BY <1>1, SelectsToTheEnd
  <1>3. Way(f)
    <2>1. \A n \in 0 .. N : n # 0 => n \in 1 .. N
      BY <1>1
    <2> QED
      BY <1>2, <2>1 DEF Selects
  <1>4. Way(c)
    <2> HIDE DEF Way
    <2> QED
      BY <1>3
  <1>5. Best = c[N]
    BY DEF Best, BestOf
  <1> HIDE DEF c
  <1>6. Selects(c, N)
    <2>1. \A n \in 1 .. N : n \in 0 .. N /\ n # 0
      OBVIOUS
    <2>2. 0 \in 0 .. N
      BY <1>1
    <2> QED
      BY <1>4, <2>1, <2>2 DEF Selects
  <1> QED
    BY <1>5, <1>6

\* The heads of runs x and y compared, which is an order.
HeadAhead(x, y) == GoesBefore(Head(runs[x]), Head(runs[y]))
HeadsOrdered ==
    \A x, y, z \in RunActive :
        /\ HeadAhead(x, y) => ~HeadAhead(y, x)
        /\ HeadAhead(x, y) /\ HeadAhead(y, z) => HeadAhead(x, z)
        /\ ~HeadAhead(x, y) /\ ~HeadAhead(y, x) /\ ~HeadAhead(y, z) /\ ~HeadAhead(z, y)
              => ~HeadAhead(x, z) /\ ~HeadAhead(z, x)

\* b is the first run, of those up to n, of which none goes ahead.
FoundRun(n, b) ==
    IF b = 0 THEN \A x \in 1 .. n : x \notin RunActive ELSE b \in 1 .. n /\ b \in RunActive
Foremost(n, b) ==
    \A x \in 1 .. n : x \in RunActive => ~HeadAhead(x, b) /\ (x < b => HeadAhead(b, x))

\* One comparison more.
LEMMA OneRunMore ==
    ASSUME NEW n \in Nat, NEW b, FoundRun(n, b), b # 0 /\ HeadsOrdered => Foremost(n, b),
           NEW c, c = IF Wins(n + 1, b) THEN n + 1 ELSE b
    PROVE  FoundRun(n + 1, c) /\ (c # 0 /\ HeadsOrdered => Foremost(n + 1, c))
  <1>1. \A x \in 1 .. n + 1 : x \in 1 .. n \/ x = n + 1
    OBVIOUS
  <1>2. \A x \in 1 .. n : x \in 1 .. n + 1 /\ x < n + 1 /\ x \in Int
    OBVIOUS
  <1>3. CASE Wins(n + 1, b)
    <2>1. c = n + 1
      BY <1>3
    <2>2. n + 1 \in 1 .. n + 1 /\ n + 1 # 0
      OBVIOUS
    <2>3. n + 1 \in RunActive
      BY Zenon, <1>3 DEF Wins
    <2>4. c = n + 1 /\ n + 1 \in 1 .. n + 1 /\ n + 1 \in RunActive /\ n + 1 # 0
      BY <2>1, <2>2, <2>3
    <2>5. ASSUME HeadsOrdered, NEW x \in 1 .. n + 1, x \in RunActive
          PROVE  ~HeadAhead(x, n + 1) /\ (x < n + 1 => HeadAhead(n + 1, x))
      <3>1. CASE x = n + 1
        BY <2>5, <3>1 DEF HeadsOrdered
      <3>2. CASE x \in 1 .. n /\ b = 0
        BY <3>2, <2>5 DEF FoundRun
      <3>3. CASE x \in 1 .. n /\ b # 0
        <4>1. b \in 1 .. n /\ b \in RunActive /\ HeadAhead(n + 1, b)
          BY <1>3, <3>3 DEF FoundRun, Wins, HeadAhead
        <4>2. ~HeadAhead(x, b)
          BY <2>5, <3>3 DEF Foremost
        <4> QED
          BY Zenon, <2>4, <2>5, <4>1, <4>2 DEF HeadsOrdered
      <3> QED
        BY <1>1, <3>1, <3>2, <3>3
    <2> QED
      BY <2>4, <2>5 DEF FoundRun, Foremost
  <1>4. CASE ~Wins(n + 1, b)
    <2>1. c = b /\ (n + 1 \in RunActive => b # 0 /\ ~HeadAhead(n + 1, b))
      BY <1>4 DEF Wins, HeadAhead
    <2>2. FoundRun(n + 1, c)
      BY <1>1, <1>2, <2>1 DEF FoundRun
    <2>3. ASSUME b # 0, HeadsOrdered PROVE Foremost(n + 1, b)
      <3>1. b \in 1 .. n
        BY <2>3 DEF FoundRun
      <3>2. ~(n + 1 < b)
        BY <3>1
      <3> QED
        BY <1>1, <2>1, <2>3, <3>2 DEF Foremost
    <2> QED
      BY <2>1, <2>2, <2>3
  <1> QED
    BY <1>3, <1>4

\* next returns the head of the first run of which none goes ahead.
LEMMA BestLeads ==
    ASSUME runs \in Seq(Seq(Seq(Value))), RunActive # {}
    PROVE  /\ Best \in RunActive
           /\ HeadsOrdered => Foremost(Len(runs), Best)
  <1> PICK N : N = Len(runs)
    OBVIOUS
  <1>1. N \in Nat /\ RunActive \subseteq 1 .. N
    BY DEF RunActive
  <1>2. PICK f : Selects(f, N) /\ Best = f[N]
    BY <1>1, BestIs
  <1> DEFINE Good(n) == FoundRun(n, f[n]) /\ (f[n] # 0 /\ HeadsOrdered => Foremost(n, f[n]))
             bad == {n \in 0 .. N : ~Good(n)}
  <1>3. bad = {}
    <2> SUFFICES ASSUME bad # {} PROVE FALSE
      OBVIOUS
    <2> bad \in SUBSET Nat
      BY <1>1
    <2>1. PICK n \in bad : \A x \in bad : n <= x
      <3> HIDE DEF bad
      <3> QED
        BY LeastRun
    <2>2. n \in 0 .. N /\ ~Good(n)
      OBVIOUS
    <2>3. n # 0
      BY <1>2 DEF FoundRun, Foremost, Selects
    <2>4. n - 1 \in 0 .. N /\ n \in 1 .. N /\ n - 1 \in Nat /\ n - 1 + 1 = n
      BY <2>2, <2>3
    <2>5. n - 1 \notin bad
      <3> HIDE DEF bad
      <3> QED
        BY <2>1, <2>4
    <2>6. Good(n - 1)
      BY <2>4, <2>5
    <2>7. f[n] = IF Wins(n, f[n - 1]) THEN n ELSE f[n - 1]
      BY <1>2, <2>4 DEF Selects
    <2>8. Good(n)
      <3> PICK k : k = n - 1
        OBVIOUS
      <3>1. k \in Nat /\ k + 1 = n
        BY <2>4
      <3> PICK b : b = f[k]
        OBVIOUS
      <3>2. FoundRun(k, b) /\ (b # 0 /\ HeadsOrdered => Foremost(k, b))
        BY Zenon, <2>6
      <3>3. f[n] = IF Wins(k + 1, b) THEN k + 1 ELSE b
        BY Zenon, <2>7, <3>1
      <3>4. FoundRun(k + 1, f[n]) /\ (f[n] # 0 /\ HeadsOrdered => Foremost(k + 1, f[n]))
        BY Zenon, <3>1, <3>2, <3>3, OneRunMore
      <3> QED
        BY Zenon, <3>1, <3>4
    <2> QED
      BY <2>2, <2>8
  <1>4. Good(N)
    BY <1>1, <1>3
  <1>5. f[N] # 0
    BY <1>1, <1>4 DEF FoundRun
  <1> QED
    BY <1>2, <1>4, <1>5 DEF FoundRun

-----------------------------------------------------------------------------
(* A sort: where it stands *)

\* g is the order that is meant and rows the tuples in it; those returned are the first of them.
RowsInOrder(asc, s, rows, L, at, g) ==
    /\ Arranges(g, Len(s)) /\ Rises(asc, s, g, Len(s))
    /\ rows = [k \in DOMAIN s |-> s[g[k]]]
    /\ Len(L[0]) <= Len(s) /\ \A k \in 1 .. Len(L[0]) : at[0][k] = g[k]

\* Each of the first lo tuples of s is among those returned, M, or in a run of R; if they are
\* ordered, so is every run.
Tracks(asc, s, rows, lo, M, R, whole, ordered) ==
    \E at, g :
        /\ Kept(asc, s, 1 .. lo, Lines(M, R), Len(R), at, whole, ordered)
        /\ ordered => RowsInOrder(asc, s, rows, Lines(M, R), at, g)

\* The lines of tuples and runs.
LEMMA LinesAre ==
    ASSUME NEW M, NEW R, Len(R) \in Nat
    PROVE  /\ Lines(M, R)[0] = M
           /\ \A n \in 1 .. Len(R) : Lines(M, R)[n] = R[n]
  <1>1. 0 \in 0 .. Len(R) /\ \A n \in 1 .. Len(R) : n \in 0 .. Len(R) /\ n # 0
    OBVIOUS
  <1> QED
    BY <1>1 DEF Lines

\* At the beginning there is nothing.
LEMMA NothingTracked ==
    ASSUME NEW asc, NEW s, NEW rows, NEW whole, NEW ordered,
           NEW g, ordered => /\ s \in Seq(Seq(Value))
                             /\ Arranges(g, Len(s)) /\ Rises(asc, s, g, Len(s))
                             /\ rows = [k \in DOMAIN s |-> s[g[k]]]
    PROVE  Tracks(asc, s, rows, 0, <<>>, <<>>, whole, ordered)
  <1> DEFINE L == Lines(<<>>, <<>>)
             at == [n \in 0 .. 0 |-> <<>>]
  <1>1. L = [n \in 0 .. 0 |-> <<>>] /\ L[0] = <<>> /\ Len(<<>>) = 0
    BY DEF Lines
  <1>2. \A n \in 0 .. 0 : n = 0
    OBVIOUS
  <1>3. Account(s, 1 .. 0, L, 0, at)
    BY <1>1, <1>2 DEF Account
  <1>4. Covers(1 .. 0, L, 0, at)
    BY DEF Covers
  <1>5. ASSUME ordered PROVE RowsInOrder(asc, s, rows, L, at, g)
    <2>1. Len(s) \in Nat /\ Len(L[0]) = 0
      BY <1>1, <1>5
    <2> QED
      BY <1>5, <2>1 DEF RowsInOrder
  <1>6. RunsRise(asc, s, L, 0, at)
    BY DEF RunsRise
  <1> QED
    BY <1>1, <1>3, <1>4, <1>5, <1>6 DEF Tracks, Kept

\* A run more.
LEMMA TrackedRun ==
    ASSUME NEW asc, NEW s \in Seq(Seq(Value)), NEW rows, NEW whole, NEW ordered,
           NEW lo \in Nat, NEW m \in Nat, lo + m <= Len(s),
           NEW M, NEW R \in Seq(Seq(Seq(Value))),
           Tracks(asc, s, rows, lo, M, R, whole, ordered),
           NEW f, NEW run, SortedBlock(s, lo, m, f, run),
           ordered => Rises(asc, s, From(lo, m, f), m)
    PROVE  Tracks(asc, s, rows, lo + m, M, Append(R, run), whole, ordered)
  <1> PICK n : n = Len(R)
    OBVIOUS
  <1> PICK L : L = Lines(M, R)
    OBVIOUS
  <1>1. PICK at, g :
           /\ Kept(asc, s, 1 .. lo, L, n, at, whole, ordered)
           /\ ordered => RowsInOrder(asc, s, rows, L, at, g)
    BY Zenon DEF Tracks
  <1> PICK L2, at2 : L2 = Extended(L, n, run) /\ at2 = Extended(at, n, From(lo, m, f))
    OBVIOUS
  <1>2. n \in Nat /\ n = Len(R) /\ Len(Append(R, run)) = n + 1
    OBVIOUS
  <1>3. L2 = Lines(M, Append(R, run))
    <2>1. \A i \in 0 .. n + 1 : i # n + 1 => i \in 0 .. n
      BY <1>2
    <2>2. \A i \in 1 .. n + 1 : Append(R, run)[i] = IF i = n + 1 THEN run ELSE R[i]
      BY <1>2
    <2>3. \A i \in 0 .. n + 1 : i # 0 => i \in 1 .. n + 1
      BY <1>2
    <2> QED
      BY <1>2, <2>1, <2>2, <2>3 DEF Lines, Extended
  <1>4. at2[0] = at[0] /\ L2[0] = L[0]
    BY <1>2 DEF Extended
  <1>5. Kept(asc, s, 1 .. lo + m, L2, n + 1, at2, whole, ordered)
    BY Zenon, <1>1, RunAdded
  <1>6. ASSUME ordered PROVE RowsInOrder(asc, s, rows, L2, at2, g)
    BY <1>1, <1>4, <1>6 DEF RowsInOrder
  <1> QED
    BY <1>2, <1>3, <1>5, <1>6 DEF Tracks

\* Runs without a stream.
LEMMA TrackedCut ==
    ASSUME NEW asc, NEW s, NEW rows, NEW lo, NEW M, NEW R, Len(R) \in Nat, DOMAIN R = 1 .. Len(R),
           NEW whole, NEW ordered, Tracks(asc, s, rows, lo, M, R, whole, ordered),
           NEW max \in Nat, whole => Len(R) <= max,
           NEW R2, R2 = [n \in DOMAIN R |-> IF n <= max THEN R[n] ELSE <<>>], Len(R2) = Len(R)
    PROVE  Tracks(asc, s, rows, lo, M, R2, whole, ordered)
  <1> PICK n : n = Len(R)
    OBVIOUS
  <1> PICK L : L = Lines(M, R)
    OBVIOUS
  <1>1. PICK at, g :
           /\ Kept(asc, s, 1 .. lo, L, n, at, whole, ordered)
           /\ ordered => RowsInOrder(asc, s, rows, L, at, g)
    BY Zenon DEF Tracks
  <1> PICK L2, at2 : L2 = CutAfter(L, n, max) /\ at2 = CutAfter(at, n, max)
    OBVIOUS
  <1>2. n \in Nat /\ n = Len(R) /\ n = Len(R2)
    OBVIOUS
  <1>3. L2 = Lines(M, R2)
    <2>1. \A i \in 0 .. n : i # 0 => i \in 1 .. n
      BY <1>2
    <2>2. \A i \in 1 .. n : R2[i] = IF i <= max THEN R[i] ELSE <<>>
      BY <1>2
    <2> QED
      BY <1>2, <2>1, <2>2 DEF Lines, CutAfter
  <1>4. at2[0] = at[0] /\ L2[0] = L[0]
    BY <1>2 DEF CutAfter
  <1>5. Kept(asc, s, 1 .. lo, L2, n, at2, whole, ordered)
    BY Zenon, <1>1, RunsCut
  <1>6. ASSUME ordered PROVE RowsInOrder(asc, s, rows, L2, at2, g)
    BY <1>1, <1>4, <1>6 DEF RowsInOrder
  <1> QED
    BY <1>2, <1>3, <1>5, <1>6 DEF Tracks

\* A tuple that goes before another on the column.
Goes(asc, t, u) ==
    IF asc THEN LessThan(t[sort_col_idx], u[sort_col_idx])
    ELSE LessThan(u[sort_col_idx], t[sort_col_idx])

\* Run b of R is to be merged next: no head goes before its own, which goes before those of
\* the runs before it.
ForemostRun(asc, R, b) ==
    \A x \in 1 .. Len(R) : R[x] # <<>> =>
        ~Goes(asc, R[x][1], R[b][1]) /\ (x < b => Goes(asc, R[b][1], R[x][1]))

\* What is asked of tuples for a sort to be in order.
Sortable(asc, s) == Keyed(s) /\ Ordered(asc, s) /\ \A k \in DOMAIN s : RoundTrip(s[k]) = s[k]

\* The place of the head of run b comes before those of other runs.
PlaceFirst(asc, s, L, R, at, b) ==
    \A x \in 1 .. R : L[x] # <<>> /\ x # b => Precedes(asc, s, at[b][1], at[x][1])

\* So it is if no head goes before that of b, which goes before those of the runs before it:
\* earlier runs hold earlier tuples.
LEMMA HeadFirst ==
    ASSUME NEW asc, NEW s, Sortable(asc, s), NEW L, NEW R, NEW at,
           Account(s, 1 .. Len(s), L, R, at), NEW b \in 1 .. R, L[b] # <<>>,
           \A x \in 1 .. R : L[x] # <<>> =>
              ~Goes(asc, L[x][1], L[b][1]) /\ (x < b => Goes(asc, L[b][1], L[x][1]))
    PROVE  PlaceFirst(asc, s, L, R, at, b)
  <1>1. DOMAIN s = 1 .. Len(s)
    BY DEF Sortable, Keyed
  <1>2. ASSUME NEW x \in 1 .. R, L[x] # <<>>
        PROVE  1 \in 1 .. Len(L[x]) /\ at[x][1] \in 1 .. Len(s) /\ L[x][1] = s[at[x][1]]
    <2>1. /\ x \in 0 .. R
          /\ L[x] \in Seq(Seq(Value)) /\ at[x] \in [1 .. Len(L[x]) -> 1 .. Len(s)]
          /\ \A k \in 1 .. Len(L[x]) : L[x][k] = RoundTrip(s[at[x][k]])
      <3>1. x \in 0 .. R
        BY ONLY x \in 1 .. R
      <3> QED
        BY Zenon, <3>1 DEF Account
    <2>2. 1 \in 1 .. Len(L[x])
      BY ONLY <1>2, <2>1
    <2>3. at[x][1] \in 1 .. Len(s) /\ L[x][1] = RoundTrip(s[at[x][1]])
      BY ONLY <2>1, <2>2
    <2> QED
      BY Zenon, <1>1, <2>2, <2>3 DEF Sortable
  <1> SUFFICES ASSUME NEW x \in 1 .. R, L[x] # <<>>, x # b
               PROVE  Precedes(asc, s, at[b][1], at[x][1])
    BY Zenon DEF PlaceFirst
  <1>3. /\ L[x][1] = s[at[x][1]] /\ L[b][1] = s[at[b][1]]
        /\ 1 \in 1 .. Len(L[x]) /\ 1 \in 1 .. Len(L[b])
    BY Zenon, <1>2
  <1>4. /\ ~Comes(asc, s, at[x][1], at[b][1])
        /\ x < b => Comes(asc, s, at[b][1], at[x][1])
    BY Zenon, <1>3 DEF Goes, Comes
  <1>5. b < x => at[b][1] < at[x][1]
    BY Zenon, <1>3 DEF Account
  <1>6. R \in Nat
    BY DEF Account
  <1>7. x < b \/ b < x
    BY <1>6
  <1> QED
    BY Zenon, <1>4, <1>5, <1>7 DEF Precedes

\* A sequence that is not empty has a first element.
LEMMA FirstElement ==
    ASSUME NEW S, NEW t \in Seq(S)
    PROVE  /\ t # <<>> => 1 \in 1 .. Len(t) /\ Head(t) = t[1]
           /\ \A k \in 1 .. Len(t) : t # <<>>
  OBVIOUS

\* All tuples of s are accounted for, and the runs in order.
Complete(asc, s, L, R, at) ==
    /\ Account(s, 1 .. Len(s), L, R, at)
    /\ Covers(1 .. Len(s), L, R, at) /\ RunsRise(asc, s, L, R, at)

\* The tuple returned is the next of the order that is meant.
LEMMA NextPlace ==
    ASSUME NEW asc, NEW s, Sortable(asc, s), NEW rows, NEW L, NEW R, NEW at, NEW g,
           Complete(asc, s, L, R, at), RowsInOrder(asc, s, rows, L, at, g),
           NEW b \in 1 .. R, L[b] # <<>>, PlaceFirst(asc, s, L, R, at, b)
    PROVE  Len(L[0]) < Len(s) /\ g[Len(L[0]) + 1] = at[b][1]
  <1> /\ Account(s, 1 .. Len(s), L, R, at) /\ Covers(1 .. Len(s), L, R, at)
      /\ RunsRise(asc, s, L, R, at)
    BY DEF Complete
  <1> Keyed(s) /\ Ordered(asc, s)
    BY DEF Sortable
  <1> PICK n, q, i : n = Len(s) /\ q = Len(L[0]) + 1 /\ i = at[b][1]
    OBVIOUS
  <1>1. n \in Nat /\ DOMAIN s = 1 .. n
    BY DEF Keyed
  <1>2. /\ R \in Nat
        /\ \A x \in 0 .. R : L[x] \in Seq(Seq(Value)) /\ at[x] \in [1 .. Len(L[x]) -> 1 .. n]
        /\ \A x, y \in 0 .. R : \A k \in 1 .. Len(L[x]), j \in 1 .. Len(L[y]) :
              at[x][k] = at[y][j] => x = y /\ k = j
    BY DEF Account
  <1>3. 0 \in 0 .. R /\ b \in 0 .. R /\ b # 0 /\ q - 1 = Len(L[0]) /\ q \in Nat \ {0}
    <2>1. 0 \in 0 .. R /\ b \in 0 .. R /\ b # 0
      BY <1>2
    <2>2. Len(L[0]) \in Nat
      BY <1>2, <2>1
    <2> QED
      BY <2>1, <2>2
  <1>4. 1 \in 1 .. Len(L[b]) /\ i \in 1 .. n
    <2>1. L[b] \in Seq(Seq(Value)) /\ at[b] \in [1 .. Len(L[b]) -> 1 .. n]
      BY Zenon, <1>2, <1>3
    <2>2. 1 \in 1 .. Len(L[b])
      BY Zenon, <2>1, FirstElement
    <2> QED
      BY <2>1, <2>2
  <1>5. \A j, k \in 1 .. n : g[j] = g[k] => j = k
    BY DEF RowsInOrder, Arranges
  <1>6. \A x \in 1 .. n : g[x] \in 1 .. n /\ \E y \in 1 .. n : g[y] = x
    BY DEF RowsInOrder, Arranges
  <1>7. \A j, k \in 1 .. n : j < k => Precedes(asc, s, g[j], g[k])
    BY Zenon DEF RowsInOrder, Rises
  <1>8. q - 1 <= n /\ \A k \in 1 .. q - 1 : at[0][k] = g[k]
    BY Zenon, <1>3 DEF RowsInOrder
  <1>9. \A x, y, z \in DOMAIN s :
           Precedes(asc, s, x, y) /\ Precedes(asc, s, y, z) => Precedes(asc, s, x, z)
    BY PrecedesOrders
  <1>10. PICK p \in 1 .. n : g[p] = i
    BY Zenon, <1>4, <1>6
  <1>11. p \notin 1 .. q - 1
    <2> SUFFICES ASSUME p \in 1 .. q - 1 PROVE FALSE
      OBVIOUS
    <2>1. at[0][p] = at[b][1] /\ p \in 1 .. Len(L[0])
      BY Zenon, <1>3, <1>10, <1>8
    <2>2. \A k \in 1 .. Len(L[0]), j \in 1 .. Len(L[b]) : at[0][k] = at[b][j] => 0 = b
      BY Zenon, <1>2, <1>3
    <2> QED
      BY Zenon, <1>3, <1>4, <2>1, <2>2
  <1>12. q \in 1 .. n /\ q <= p
    BY <1>1, <1>3, <1>10, <1>11
  <1>13. ASSUME q # p PROVE FALSE
    <2> PICK j : j = g[q]
      OBVIOUS
    <2>1. q < p
      BY <1>12, <1>13
    <2>2. q < p /\ j \in 1 .. n
      BY Zenon, <1>12, <1>6, <2>1
    <2>3. Precedes(asc, s, j, i)
      BY Zenon, <1>10, <1>12, <1>7, <2>2
    <2>4. j # i
      BY Zenon, <1>10, <1>12, <1>13, <1>5
    <2>5. PICK x \in 0 .. R : \E k \in 1 .. Len(L[x]) : at[x][k] = j
      BY Zenon, <2>2 DEF Covers
    <2>6. PICK k \in 1 .. Len(L[x]) : at[x][k] = j
      BY Zenon, <2>5
    <2>7. x # 0
      <3> SUFFICES ASSUME x = 0 PROVE FALSE
        OBVIOUS
      <3>1. k \in 1 .. q - 1 /\ at[0][k] = j
        BY Zenon, <1>3, <2>6
      <3>2. k \in 1 .. n /\ k # q
        BY <1>1, <1>3, <1>12, <3>1
      <3>3. at[0][k] = g[k]
        BY Zenon, <1>8, <3>1
      <3>4. g[k] = g[q]
        BY Zenon, <3>1, <3>3
      <3> QED
        BY Zenon, <1>12, <1>5, <3>2, <3>4
    <2>8. x \in 1 .. R /\ L[x] # <<>> /\ 1 \in 1 .. Len(L[x]) /\ at[x][1] \in 1 .. n
      <3>1. x \in 1 .. R
        BY <1>2, <2>7
      <3>2. L[x] \in Seq(Seq(Value)) /\ at[x] \in [1 .. Len(L[x]) -> 1 .. n]
        BY Zenon, <1>2
      <3>3. L[x] # <<>> /\ 1 \in 1 .. Len(L[x])
        BY Zenon, <3>2, FirstElement
      <3> QED
        BY <3>1, <3>2, <3>3
    <2>9. k # 1 => Precedes(asc, s, at[x][1], j)
      <3>1. k # 1 => 1 < k
        BY <1>2
      <3> QED
        BY Zenon, <2>6, <2>8, <3>1 DEF RunsRise, Rises
    <2>10. x # b => Precedes(asc, s, i, at[x][1])
      BY Zenon, <2>8 DEF PlaceFirst
    <2>11. Precedes(asc, s, i, j)
      <3>1. CASE x = b
        BY Zenon, <2>4, <2>6, <2>9, <3>1
      <3>2. CASE x # b /\ k = 1
        BY Zenon, <2>6, <2>10, <3>2
      <3>3. CASE x # b /\ k # 1
        <4>1. /\ Precedes(asc, s, i, at[x][1]) /\ Precedes(asc, s, at[x][1], j)
              /\ i \in DOMAIN s /\ at[x][1] \in DOMAIN s /\ j \in DOMAIN s
          BY Zenon, <1>1, <1>4, <2>2, <2>8, <2>9, <2>10, <3>3
        <4> PICK a : a = at[x][1]
          OBVIOUS
        <4>2. a \in DOMAIN s /\ Precedes(asc, s, i, a) /\ Precedes(asc, s, a, j)
          BY Zenon, <4>1
        <4> QED
          BY Zenon, <1>9, <4>1, <4>2
      <3> QED
        BY Zenon, <3>1, <3>2, <3>3
    <2>12. i \in DOMAIN s /\ j \in DOMAIN s
      BY Zenon, <1>1, <1>4, <2>2
    <2> QED
      BY Zenon, <2>3, <2>11, <2>12, PrecedesOrders
  <1>14. g[q] = at[b][1]
    BY Zenon, <1>10, <1>13
  <1> QED
    BY <1>1, <1>3, <1>12, <1>14

\* t is the next of rows, of which there are as many as tuples in s and M is the first.
IsNext(t, rows, s, M) == Len(M) < Len(s) /\ t = rows[Len(M) + 1]

\* A tuple merged.
LEMMA TrackedMerge ==
    ASSUME NEW asc, NEW s \in Seq(Seq(Value)), NEW rows, NEW M, NEW R \in Seq(Seq(Seq(Value))),
           NEW whole, NEW ordered, Tracks(asc, s, rows, Len(s), M, R, whole, ordered),
           NEW b \in 1 .. Len(R), R[b] # <<>>,
           ordered => whole /\ Sortable(asc, s) /\ ForemostRun(asc, R, b)
    PROVE  /\ Tracks(asc, s, rows, Len(s), Append(M, Head(R[b])), [R EXCEPT ![b] = Tail(@)],
                     whole, ordered)
           /\ ordered => IsNext(Head(R[b]), rows, s, M)
  <1> PICK n, L, S : n = Len(R) /\ L = Lines(M, R) /\ S = [R EXCEPT ![b] = Tail(@)]
    OBVIOUS
  <1>1. PICK at, g :
           /\ Kept(asc, s, 1 .. Len(s), L, n, at, whole, ordered)
           /\ ordered => RowsInOrder(asc, s, rows, L, at, g)
    BY Zenon DEF Tracks
  <1> PICK L2, at2 : L2 = HeadOut(L, n, b) /\ at2 = PlaceOut(at, L, n, b)
    OBVIOUS
  <1>2. /\ n \in Nat /\ n = Len(R) /\ Len(S) = n /\ b \in 1 .. n /\ 0 \in 0 .. n
        /\ L[0] = M /\ \A x \in 1 .. n : L[x] = R[x]
    BY LinesAre
  <1>3. L2 = Lines(Append(M, Head(R[b])), S)
    <2>1. \A x \in 0 .. n : x # 0 => x \in 1 .. n
      BY <1>2
    <2>2. \A x \in 1 .. n : S[x] = IF x = b THEN Tail(R[b]) ELSE R[x]
      BY <1>2
    <2> QED
      BY <1>2, <2>1, <2>2 DEF Lines, HeadOut
  <1>4. L[b] # <<>>
    BY <1>2
  <1>5. Kept(asc, s, 1 .. Len(s), L2, n, at2, whole, ordered)
    BY Zenon, <1>1, <1>2, <1>4, HeadMoved
  <1>6. Account(s, 1 .. Len(s), L, n, at) /\ L[0] \in Seq(Seq(Value))
    BY <1>1, <1>2 DEF Kept, Account
  <1> PICK q : q = Len(M)
    OBVIOUS
  <1>7. q \in Nat /\ M \in Seq(Seq(Value))
    BY <1>2, <1>6
  <1>8. ASSUME ordered
        PROVE  /\ q < Len(s) /\ g[q + 1] = at[b][1]
               /\ Head(R[b]) = rows[q + 1]
               /\ RowsInOrder(asc, s, rows, L2, at2, g)
    <2>1. Sortable(asc, s) /\ ForemostRun(asc, R, b) /\ whole
      BY <1>8
    <2>2. \A x \in 1 .. n : L[x] # <<>> =>
              ~Goes(asc, L[x][1], L[b][1]) /\ (x < b => Goes(asc, L[b][1], L[x][1]))
      BY Zenon, <1>2, <2>1 DEF ForemostRun
    <2>3. PlaceFirst(asc, s, L, n, at, b)
      BY Zenon, <1>2, <1>4, <1>6, <2>1, <2>2, HeadFirst
    <2>4. RowsInOrder(asc, s, rows, L, at, g) /\ Complete(asc, s, L, n, at)
      BY <1>1, <1>8, <2>1 DEF Kept, Complete
    <2>5. Len(L[0]) < Len(s) /\ g[Len(L[0]) + 1] = at[b][1]
      <3>1. b \in 1 .. n
        BY <1>2
      <3> QED
        BY ONLY <1>4, <2>1, <2>3, <2>4, <3>1, NextPlace
    <2>6. q < Len(s) /\ g[q + 1] = at[b][1]
      BY Zenon, <1>2, <2>5
    <2>7. q + 1 \in 1 .. Len(s) /\ DOMAIN s = 1 .. Len(s)
      BY <1>7, <2>6
    <2>8. Head(R[b]) = rows[q + 1]
      <3>1. rows[q + 1] = s[g[q + 1]]
        BY <2>4, <2>7 DEF RowsInOrder
      <3>2. 1 \in 1 .. Len(L[b]) /\ at[b][1] \in DOMAIN s /\ Head(R[b]) = L[b][1]
        <4>1. /\ L[b] \in Seq(Seq(Value)) /\ at[b] \in [1 .. Len(L[b]) -> 1 .. Len(s)]
              /\ L[b] = R[b] /\ L[b] # <<>>
          BY <1>2, <1>4, <1>6 DEF Account
        <4>2. 1 \in 1 .. Len(L[b]) /\ Head(R[b]) = L[b][1]
          BY Zenon, <4>1, FirstElement
        <4> QED
          BY ONLY <2>7, <4>1, <4>2
      <3>3. L[b][1] = RoundTrip(s[at[b][1]])
        <4>1. b \in 0 .. n
          BY <1>2
        <4> QED
          BY Zenon, <1>6, <3>2, <4>1 DEF Account
      <3>4. RoundTrip(s[at[b][1]]) = s[at[b][1]]
        BY Zenon, <2>1, <3>2 DEF Sortable
      <3> QED
        BY Zenon, <2>6, <3>1, <3>2, <3>3, <3>4
    <2>9. Len(L2[0]) = q + 1
      BY <1>2, <1>7 DEF HeadOut
    <2>10. \A k \in 1 .. q + 1 : at2[0][k] = g[k]
      <3>1. at2[0] = [k \in 1 .. q + 1 |-> IF k = q + 1 THEN at[b][1] ELSE at[0][k]]
        BY <1>2 DEF PlaceOut
      <3>2. \A k \in 1 .. q : at[0][k] = g[k]
        BY <1>2, <2>4 DEF RowsInOrder
      <3>3. \A k \in 1 .. q + 1 : k # q + 1 => k \in 1 .. q
        BY ONLY <1>7
      <3> QED
        BY ONLY <2>6, <3>1, <3>2, <3>3
    <2>11. q + 1 <= Len(s)
      BY <2>7
    <2>12. RowsInOrder(asc, s, rows, L2, at2, g)
      BY Zenon, <2>4, <2>9, <2>10, <2>11 DEF RowsInOrder
    <2> QED
      BY <2>6, <2>8, <2>12
  <1>9. Tracks(asc, s, rows, Len(s), Append(M, Head(R[b])), S, whole, ordered)
    BY Zenon, <1>2, <1>3, <1>5, <1>8 DEF Tracks
  <1>10. ordered => IsNext(Head(R[b]), rows, s, M)
    BY <1>8 DEF IsNext
  <1> QED
    BY <1>9, <1>10

-----------------------------------------------------------------------------
(* A sort: its invariant *)

\* NoSuchColumn, EnoughStreams and Orderly of an input, and what is due.
Missing(s) == s # <<>> /\ sort_col_idx \notin DOMAIN s[1]
Sufficient(s) == Len(s) <= MaxStreams * RunCapacity
AllWhole(s) == \A k \in DOMAIN s : Whole(s[k])
Orderable(asc, s) == Sufficient(s) /\ AllWhole(s) /\ Ordered(asc, s)
OrderMeant(asc, s, rows, g) ==
    Arranges(g, Len(s)) /\ Rises(asc, s, g, Len(s)) /\ rows = [k \in DOMAIN s |-> s[g[k]]]
DueOf(asc, s, d) ==
    /\ d.promised <=> Missing(s) \/ Orderable(asc, s)
    /\ Orderable(asc, s) => \E g : OrderMeant(asc, s, d.rows, g)

\* The types of the variables.
SortTyped ==
    /\ input \in Inputs /\ is_asc \in BOOLEAN
    /\ pc \in {"closed", "consume", "merge", "drained", "failed", "raised", "undefined"}
    /\ fed \in 0 .. Len(input)
    /\ buffer \in Seq(Seq(Value)) /\ runs \in Seq(Seq(Seq(Value))) /\ merged \in Seq(Seq(Value))

\* Blocks are of equal length, and the last, in the buffer, is shorter.
Blocks ==
    /\ Len(buffer) < RunCapacity /\ fed = Len(runs) * RunCapacity + Len(buffer)
    /\ \A k \in 1 .. Len(buffer) : buffer[k] = input[fed - Len(buffer) + k]
    /\ merged = <<>>

\* What is left where in each phase.
Phases ==
    /\ pc \in {"closed", "merge", "drained"} => buffer = <<>>
    /\ pc = "closed" => runs = <<>>
    /\ pc = "consume" => Blocks
    /\ pc \in {"merge", "drained"} => fed = Len(input)
    /\ pc = "drained" => RunActive = {}

\* Which inputs make a sort fail, which make it read beyond a tuple, and which stod throw.
Failures ==
    /\ Missing(input) /\ pc \notin {"closed", "failed"} => pc = "consume" /\ fed = 0
    /\ pc = "failed" => Missing(input)
    /\ pc = "undefined" => ~AllWhole(input)
    /\ pc = "raised" /\ AllWhole(input) => MayRaise(input, sort_col_idx)

\* The first lo tuples are accounted for: all of them if there are streams enough, and in order
\* if they can be ordered.
Stands(asc, s, rows, lo, M, R) ==
    Tracks(asc, s, rows, lo, M, R, Sufficient(s), Orderable(asc, s))
Standing ==
    pc \in {"consume", "merge", "drained"} =>
        Stands(is_asc, input, due.rows, fed - Len(buffer), merged, runs)

\* The inductive invariant.
SortIInv == SortTyped /\ DueOf(is_asc, input, due) /\ Phases /\ Failures /\ Standing

\* The same of the input in the words of the model.
LEMMA Words ==
    /\ NoSuchColumn <=> Missing(input)
    /\ EnoughStreams <=> Sufficient(input)
    /\ IsOrder(input) <=> Ordered(is_asc, input)
    /\ Orderly <=> Orderable(is_asc, input)
  <1>1. NoSuchColumn <=> Missing(input)
    BY DEF NoSuchColumn, Missing
  <1>2. EnoughStreams <=> Sufficient(input)
    BY DEF EnoughStreams, Sufficient
  <1>3. IsOrder(input) <=> Ordered(is_asc, input)
    BY DEF IsOrder, Ordered, Incomparable, GoesBefore, Comes
  <1> QED
    BY <1>1, <1>2, <1>3 DEF Orderly, Orderable, AllWhole

\* A whole input keeps its tuples through the files, and has the column.
LEMMA WholeKept ==
    ASSUME NEW asc, NEW s \in Seq(Seq(Value)), AllWhole(s)
    PROVE  /\ Keyed(s) /\ \A k \in DOMAIN s : RoundTrip(s[k]) = s[k]
           /\ Orderable(asc, s) => Sortable(asc, s)
  <1>1. \A k \in DOMAIN s : s[k] \in Seq(Value) /\ Whole(s[k])
    BY DEF AllWhole
  <1>2. Keyed(s)
    BY <1>1 DEF Keyed, Whole
  <1>3. \A k \in DOMAIN s : RoundTrip(s[k]) = s[k]
    BY <1>1, RoundTripIs
  <1> QED
    BY <1>2, <1>3 DEF Orderable, Sortable

\* A block sorted and written to a file.
LEMMA BlockSorted ==
    ASSUME input \in Seq(Seq(Value)), NEW lo \in Nat, NEW m \in Nat, lo + m <= Len(input),
           NEW B \in Seq(Seq(Value)), Len(B) = m, \A k \in 1 .. m : B[k] = input[lo + k],
           m > 1 => \A k \in 1 .. m : HasColumn(B[k]),
           NEW run \in FlushRun(B)
    PROVE  \E f : /\ SortedBlock(input, lo, m, f, run)
                  /\ Orderable(is_asc, input) => Rises(is_asc, input, From(lo, m, f), m)
  <1>1. DOMAIN B = 1 .. m /\ DOMAIN input = 1 .. Len(input) /\ Len(input) \in Nat
    OBVIOUS
  <1>2. m > 1 => Keyed(B)
    BY <1>1 DEF Keyed
  <1>3. /\ run \in Seq(Seq(Value)) /\ Len(run) = m
        /\ \E f : /\ Arranges(f, m) /\ (IsOrder(B) => Rises(is_asc, B, f, m))
                  /\ \A k \in 1 .. m : run[k] = RoundTrip(B[f[k]])
    <2>1. Len(B) > 1 => Keyed(B)
      BY <1>2
    <2>2. /\ run \in Seq(Seq(Value)) /\ Len(run) = Len(B)
          /\ \E f : /\ Arranges(f, Len(B)) /\ (IsOrder(B) => Rises(is_asc, B, f, Len(B)))
                    /\ \A k \in 1 .. Len(B) : run[k] = RoundTrip(B[f[k]])
      BY Zenon, <2>1, RunIs
    <2> QED
      BY Zenon, <2>2
  <1>4. PICK f : /\ Arranges(f, m) /\ (IsOrder(B) => Rises(is_asc, B, f, m))
                 /\ \A k \in 1 .. m : run[k] = RoundTrip(B[f[k]])
    BY Zenon, <1>3
  <1>5. \A k \in 1 .. m : f[k] \in 1 .. m /\ B[f[k]] = input[lo + f[k]]
    BY <1>4 DEF Arranges
  <1>6. SortedBlock(input, lo, m, f, run)
    BY Zenon, <1>3, <1>4, <1>5 DEF SortedBlock
  <1>7. ASSUME Ordered(is_asc, input) PROVE Rises(is_asc, input, From(lo, m, f), m)
    <2>1. \A i \in 1 .. m : lo + i \in DOMAIN input /\ B[i] = input[lo + i]
      BY <1>1
    <2>2. \A i, j \in 1 .. m : Comes(is_asc, B, i, j) <=> Comes(is_asc, input, lo + i, lo + j)
      BY <2>1 DEF Comes
    <2>3. Ordered(is_asc, B)
      <3> SUFFICES ASSUME NEW i \in 1 .. m, NEW j \in 1 .. m, NEW k \in 1 .. m
                   PROVE  /\ Comes(is_asc, B, i, j) /\ Comes(is_asc, B, j, k)
                               => Comes(is_asc, B, i, k)
                          /\ (~Comes(is_asc, B, i, j) /\ ~Comes(is_asc, B, j, i))
                                /\ (~Comes(is_asc, B, j, k) /\ ~Comes(is_asc, B, k, j))
                             => ~Comes(is_asc, B, i, k) /\ ~Comes(is_asc, B, k, i)
        BY <1>1 DEF Ordered
      <3> PICK x, y, z : x = lo + i /\ y = lo + j /\ z = lo + k
        OBVIOUS
      <3>1. x \in DOMAIN input /\ y \in DOMAIN input /\ z \in DOMAIN input
        BY <2>1
      <3>2. /\ Comes(is_asc, input, x, y) /\ Comes(is_asc, input, y, z)
                 => Comes(is_asc, input, x, z)
            /\ (~Comes(is_asc, input, x, y) /\ ~Comes(is_asc, input, y, x))
                  /\ (~Comes(is_asc, input, y, z) /\ ~Comes(is_asc, input, z, y))
               => ~Comes(is_asc, input, x, z) /\ ~Comes(is_asc, input, z, x)
        BY Zenon, <1>7, <3>1 DEF Ordered
      <3> QED
        BY Zenon, <2>2, <3>2
    <2>4. IsOrder(B)
      BY <2>3 DEF IsOrder, Ordered, Incomparable, GoesBefore, Comes
    <2> SUFFICES ASSUME NEW j \in 1 .. m, NEW k \in 1 .. m, j < k
                 PROVE  Precedes(is_asc, input, lo + f[j], lo + f[k])
      BY DEF Rises, From
    <2>5. Precedes(is_asc, B, f[j], f[k])
      BY Zenon, <1>4, <2>4 DEF Rises
    <2>6. f[j] \in 1 .. m /\ f[k] \in 1 .. m
      BY <1>5
    <2> PICK x, y : x = f[j] /\ y = f[k]
      OBVIOUS
    <2>7. x < y => lo + x < lo + y
      <3>1. x \in 1 .. m /\ y \in 1 .. m
        BY Zenon, <2>6
      <3> QED
        BY ONLY <3>1, lo \in Nat, m \in Nat
    <2>8. x \in 1 .. m /\ y \in 1 .. m /\ Precedes(is_asc, B, x, y)
      BY <2>5, <2>6
    <2>9. Precedes(is_asc, input, lo + x, lo + y)
      BY ONLY <2>2, <2>7, <2>8 DEF Precedes
    <2> QED
      BY <2>9
  <1> QED
    BY <1>6, <1>7 DEF Orderable

\* The sort begins with nothing done.
LEMMA SortBegins == ASSUME SortInit PROVE SortIInv
  <1>1. input \in Inputs /\ input \in Seq(Seq(Value)) /\ is_asc \in BOOLEAN
    BY InputsAssumption DEF SortInit
  <1>2. Len(input) \in Nat
    BY <1>1
  <1>3. SortTyped /\ Phases /\ Failures /\ Standing
    BY <1>1, <1>2 DEF SortInit, SortTyped, Phases, Failures, Standing
  <1>4. due.promised <=> Missing(input) \/ Orderable(is_asc, input)
    BY Words DEF SortInit
  <1>5. ASSUME Orderable(is_asc, input) PROVE \E g : OrderMeant(is_asc, input, due.rows, g)
    <2>1. due.rows = StablySorted(input, GoesBefore)
      BY <1>5, Words DEF SortInit
    <2>2. Keyed(input) /\ IsOrder(input)
      BY <1>1, <1>5, WholeKept, Words DEF Orderable
    <2> QED
      BY <2>1, <2>2, SortArranges DEF OrderMeant
  <1> QED
    BY <1>3, <1>4, <1>5 DEF SortIInv, DueOf

\* What is known of a sort and its input.
LEMMA SortKnown ==
    ASSUME SortIInv
    PROVE  /\ input \in Seq(Seq(Value)) /\ Len(input) \in Nat /\ fed \in 0 .. Len(input)
           /\ is_asc \in BOOLEAN
           /\ buffer \in Seq(Seq(Value)) /\ Len(buffer) \in Nat
           /\ runs \in Seq(Seq(Seq(Value))) /\ Len(runs) \in Nat /\ merged \in Seq(Seq(Value))
           /\ RunActive \subseteq 1 .. Len(runs)
           /\ RunCapacity \in Nat /\ RunCapacity > 0 /\ MaxStreams \in Nat
  <1>1. input \in Seq(Seq(Value))
    BY InputsAssumption DEF SortIInv, SortTyped
  <1> QED
    BY <1>1, RunCapacityAssumption, MaxStreamsAssumption DEF SortIInv, SortTyped, RunActive

\* open is called.
LEMMA KeptStart == ASSUME SortIInv, StartSort PROVE SortIInv'
  <1>1. /\ pc' = "consume" /\ fed' = 0 /\ merged' = <<>> /\ buffer' = <<>> /\ runs' = <<>>
        /\ input' = input /\ is_asc' = is_asc /\ due' = due
    BY DEF StartSort, SortIInv, Phases, task
  <1>2. SortTyped'
    BY <1>1, SortKnown DEF SortIInv, SortTyped
  <1>3. DueOf(is_asc, input, due)'
    BY <1>1 DEF SortIInv, DueOf, Missing, Orderable, Sufficient, AllWhole, OrderMeant
  <1>4. Phases'
    <2>1. Len(<<>>) = 0 /\ 1 .. 0 = {} /\ 0 = 0 * RunCapacity + 0
      BY SortKnown
    <2>2. Blocks'
      BY <1>1, <2>1, SortKnown DEF Blocks
    <2> QED
      BY <1>1, <2>2 DEF Phases
  <1>5. Failures'
    BY <1>1 DEF Failures
  <1>6. Standing'
    <2>1. PICK g : Orderable(is_asc, input) => OrderMeant(is_asc, input, due.rows, g)
      BY DEF SortIInv, DueOf
    <2>2. Stands(is_asc, input, due.rows, 0, <<>>, <<>>)
      <3>1. Orderable(is_asc, input) =>
               /\ input \in Seq(Seq(Value))
               /\ Arranges(g, Len(input)) /\ Rises(is_asc, input, g, Len(input))
               /\ due.rows = [k \in DOMAIN input |-> input[g[k]]]
        BY <2>1, SortKnown DEF OrderMeant
      <3> QED
        BY <3>1, NothingTracked DEF Stands
    <2>3. fed' - Len(buffer') = 0
      <3>1. Len(buffer') = 0
        BY <1>1
      <3>2. 0 - 0 = 0
        OBVIOUS
      <3> QED
        BY Zenon, <1>1, <3>1, <3>2
    <2> QED
      BY <1>1, <2>2, <2>3 DEF Standing
  <1> QED
    BY <1>2, <1>3, <1>4, <1>5, <1>6 DEF SortIInv

\* What stays as it was while the input does.
LEMMA SameInput ==
    ASSUME SortIInv, UNCHANGED task
    PROVE  /\ input' = input /\ is_asc' = is_asc /\ due' = due
           /\ DueOf(is_asc, input, due)'
           /\ input' \in Inputs /\ is_asc' \in BOOLEAN
  BY DEF SortIInv, SortTyped, task, DueOf, Missing, Orderable, Sufficient, AllWhole, OrderMeant

\* The first tuple lacks the column.
LEMMA KeptColumn == ASSUME SortIInv, ColumnOutOfRange PROVE SortIInv'
  <1>1. /\ pc' = "failed" /\ fed' = fed /\ merged' = merged /\ buffer' = buffer /\ runs' = runs
        /\ UNCHANGED task /\ Missing(input)
    BY DEF ColumnOutOfRange, Missing
  <1>2. input' = input /\ is_asc' = is_asc /\ due' = due /\ DueOf(is_asc, input, due)'
    BY <1>1, SameInput
  <1>3. SortTyped'
    BY <1>1, <1>2 DEF SortIInv, SortTyped
  <1>4. Phases' /\ Failures' /\ Standing'
    BY <1>1, <1>2 DEF Phases, Failures, Standing
  <1> QED
    BY <1>2, <1>3, <1>4 DEF SortIInv

\* close is called.
LEMMA KeptCleanup == ASSUME SortIInv, CleanupRuns PROVE SortIInv'
  <1>1. /\ pc' = "closed" /\ fed' = fed /\ merged' = merged /\ buffer' = buffer /\ runs' = <<>>
        /\ UNCHANGED task /\ pc \in {"merge", "drained"}
    BY DEF CleanupRuns
  <1>2. input' = input /\ is_asc' = is_asc /\ due' = due /\ DueOf(is_asc, input, due)'
    BY <1>1, SameInput
  <1>3. SortTyped'
    BY <1>1, <1>2 DEF SortIInv, SortTyped
  <1>4. Phases' /\ Failures' /\ Standing'
    BY <1>1, <1>2 DEF SortIInv, Phases, Failures, Standing
  <1> QED
    BY <1>2, <1>3, <1>4 DEF SortIInv

\* next finds no active run.
LEMMA KeptEnd == ASSUME SortIInv, EndOfRuns PROVE SortIInv'
  <1>1. /\ pc' = "drained" /\ fed' = fed /\ merged' = merged /\ buffer' = buffer /\ runs' = runs
        /\ UNCHANGED task /\ pc = "merge" /\ RunActive = {}
    BY DEF EndOfRuns
  <1>2. input' = input /\ is_asc' = is_asc /\ due' = due /\ DueOf(is_asc, input, due)'
    BY <1>1, SameInput
  <1>3. SortTyped'
    BY <1>1, <1>2 DEF SortIInv, SortTyped
  <1>4. Phases'
    BY <1>1, <1>2 DEF SortIInv, Phases, RunActive
  <1>5. Failures' /\ Standing'
    BY <1>1, <1>2 DEF SortIInv, Failures, Standing
  <1> QED
    BY <1>2, <1>3, <1>4, <1>5 DEF SortIInv

\* Nothing happens.
LEMMA KeptStill == ASSUME SortIInv, UNCHANGED sortVars PROVE SortIInv'
  <1>1. /\ pc' = pc /\ fed' = fed /\ merged' = merged /\ buffer' = buffer /\ runs' = runs
        /\ UNCHANGED task
    BY DEF sortVars
  <1>2. input' = input /\ is_asc' = is_asc /\ due' = due /\ DueOf(is_asc, input, due)'
    BY <1>1, SameInput
  <1>3. SortTyped'
    BY <1>1, <1>2 DEF SortIInv, SortTyped
  <1>4. Phases'
    BY <1>1, <1>2 DEF SortIInv, Phases, Blocks, RunActive
  <1>5. Failures' /\ Standing'
    BY <1>1, <1>2 DEF SortIInv, Failures, Standing
  <1> QED
    BY <1>2, <1>3, <1>4, <1>5 DEF SortIInv

\* The block the buffer becomes with one tuple more.
LEMMA BlockIs ==
    ASSUME SortIInv, pc = "consume", fed < Len(input)
    PROVE  /\ Block \in Seq(Seq(Value)) /\ Len(Block) = Len(buffer) + 1
           /\ DOMAIN Block = 1 .. Len(buffer) + 1
           /\ \A k \in 1 .. Len(buffer) + 1 : Block[k] = input[fed - Len(buffer) + k]
  <1> PICK b : b = Len(buffer)
    OBVIOUS
  <1>1. /\ buffer \in Seq(Seq(Value)) /\ b \in Nat /\ input \in Seq(Seq(Value))
        /\ fed \in 0 .. Len(input) /\ Len(input) \in Nat
    BY SortKnown
  <1>2. fed + 1 \in 1 .. Len(input)
    BY <1>1
  <1>3. input[fed + 1] \in Seq(Value)
    BY <1>1, <1>2, ElementOfSeq
  <1>4. /\ Block \in Seq(Seq(Value)) /\ Len(Block) = b + 1
        /\ \A k \in 1 .. b : Block[k] = buffer[k]
        /\ Block[b + 1] = input[fed + 1]
    BY <1>1, <1>3 DEF Block
  <1>5. \A k \in 1 .. b : buffer[k] = input[fed - b + k]
    BY DEF SortIInv, Phases, Blocks
  <1>6. fed - b + (b + 1) = fed + 1
    BY <1>1
  <1>7. \A k \in 1 .. b + 1 : k = b + 1 \/ k \in 1 .. b
    BY <1>1
  <1>8. \A k \in 1 .. b + 1 : Block[k] = input[fed - b + k]
    BY <1>4, <1>5, <1>6, <1>7
  <1>9. DOMAIN Block = 1 .. b + 1
    BY <1>4
  <1> QED
    BY <1>4, <1>8, <1>9

\* Another way to count the tuples of runs.
LEMMA RunsCount ==
    ASSUME SortIInv, pc = "consume"
    PROVE  /\ fed - Len(buffer) \in Nat /\ fed - Len(buffer) + Len(buffer) = fed
           /\ fed - Len(buffer) = Len(runs) * RunCapacity
           /\ Len(buffer) < RunCapacity
           /\ Stands(is_asc, input, due.rows, fed - Len(buffer), merged, runs)
  <1> PICK b, c : b = Len(buffer) /\ c = Len(runs) * RunCapacity
    OBVIOUS
  <1>1. b \in Nat /\ Len(runs) \in Nat /\ RunCapacity \in Nat /\ fed \in Nat
    BY SortKnown
  <1>2. c \in Nat
    BY <1>1
  <1>3. fed = c + b /\ b < RunCapacity
    BY DEF SortIInv, Phases, Blocks
  <1>4. fed - b = c
    BY <1>1, <1>2, <1>3
  <1> QED
    BY <1>1, <1>2, <1>3, <1>4 DEF SortIInv, Standing

\* A tuple of the input is taken.
LEMMA KeptConsume == ASSUME SortIInv, Consume PROVE SortIInv'
  <1> PICK b, lo : b = Len(buffer) /\ lo = fed - Len(buffer)
    OBVIOUS
  <1>1. /\ pc = "consume" /\ fed < Len(input) /\ pc' = "consume" /\ fed' = fed + 1
        /\ merged' = merged /\ UNCHANGED task /\ Defined
        /\ fed = 0 => sort_col_idx \in DOMAIN input[1]
    BY DEF Consume
  <1>2. input' = input /\ is_asc' = is_asc /\ due' = due /\ DueOf(is_asc, input, due)'
    BY <1>1, SameInput
  <1>3. /\ input \in Seq(Seq(Value)) /\ Len(input) \in Nat /\ fed \in 0 .. Len(input)
        /\ b \in Nat /\ Len(runs) \in Nat /\ runs \in Seq(Seq(Seq(Value)))
        /\ RunCapacity \in Nat /\ RunCapacity > 0 /\ merged \in Seq(Seq(Value))
    BY SortKnown
  <1>4. /\ lo \in Nat /\ lo + b = fed /\ lo = Len(runs) * RunCapacity /\ b < RunCapacity
        /\ Stands(is_asc, input, due.rows, lo, merged, runs) /\ merged = <<>>
    BY <1>1, RunsCount DEF SortIInv, Phases, Blocks
  <1>5. /\ Block \in Seq(Seq(Value)) /\ Len(Block) = b + 1 /\ DOMAIN Block = 1 .. b + 1
        /\ \A k \in 1 .. b + 1 : Block[k] = input[lo + k]
    BY <1>1, BlockIs
  <1>6. fed + 1 \in 0 .. Len(input) /\ fed + 1 = lo + (b + 1) /\ lo + (b + 1) <= Len(input)
    BY <1>1, <1>3, <1>4
  <1>7. Failures'
    <2>1. ~Missing(input)
      <3>1. Missing(input) => fed = 0
        BY <1>1 DEF SortIInv, Failures
      <3> QED
        BY <1>1, <3>1 DEF Missing
    <2> QED
      BY <1>1, <1>2, <2>1 DEF Failures
  <1>8. CASE BlockFull(Block)
    <2>1. buffer' = <<>> /\ \E run \in FlushRun(Block) : runs' = Append(runs, run)
      BY <1>8 DEF Consume
    <2>2. PICK run \in FlushRun(Block) : runs' = Append(runs, run)
      BY <2>1
    <2>3. b + 1 > 1 => \A k \in 1 .. b + 1 : HasColumn(Block[k])
      <3>1. Compared = Block
        BY <1>1, <1>3, <1>8 DEF Compared
      <3>2. \A k \in 1 .. b + 1 : 1 .. b + 1 # {k} => HasColumn(Block[k])
        BY <1>1, <1>5, <3>1 DEF Defined
      <3>3. b + 1 > 1 => 1 \in 1 .. b + 1 /\ 2 \in 1 .. b + 1
        BY <1>3
      <3> QED
        BY <3>2, <3>3
    <2>4. PICK f : /\ SortedBlock(input, lo, b + 1, f, run)
                   /\ Orderable(is_asc, input) => Rises(is_asc, input, From(lo, b + 1, f), b + 1)
      <3>1. b + 1 \in Nat
        BY <1>3
      <3> QED
        BY ONLY <1>3, <1>4, <1>5, <1>6, <2>2, <2>3, <3>1, BlockSorted
    <2>5. Stands(is_asc, input, due.rows, lo + (b + 1), merged, Append(runs, run))
      <3>1. b + 1 \in Nat
        BY <1>3
      <3>2. Tracks(is_asc, input, due.rows, lo, merged, runs, Sufficient(input),
                   Orderable(is_asc, input))
        BY Zenon, <1>4 DEF Stands
      <3> QED
        BY ONLY <1>3, <1>4, <1>6, <2>4, <3>1, <3>2, TrackedRun DEF Stands
    <2>6. b + 1 = RunCapacity
      <3>1. Len(Block) >= RunCapacity
        BY Zenon, <1>8 DEF BlockFull
      <3> QED
        BY ONLY <1>3, <1>4, <1>5, <3>1
    <2>7. run \in Seq(Seq(Value)) /\ runs' \in Seq(Seq(Seq(Value))) /\ Len(runs') = Len(runs) + 1
      <3>1. run \in Seq(Seq(Value))
        BY <2>4 DEF SortedBlock
      <3> QED
        BY <1>3, <2>2, <3>1
    <2>8. SortTyped'
      BY <1>1, <1>2, <1>3, <1>6, <2>1, <2>7 DEF SortIInv, SortTyped
    <2>9. Len(buffer') = 0 /\ 1 .. 0 = {}
      BY <2>1
    <2>10. fed' = Len(runs') * RunCapacity + Len(buffer')
      <3>1. (Len(runs) + 1) * RunCapacity = Len(runs) * RunCapacity + RunCapacity
        BY ONLY <1>3
      <3>2. fed + 1 = Len(runs) * RunCapacity + RunCapacity
        BY <1>4, <1>6, <2>6
      <3> QED
        BY ONLY <1>1, <1>3, <2>7, <2>9, <3>1, <3>2
    <2>11. Phases'
      BY <1>1, <1>3, <1>4, <2>9, <2>10 DEF Phases, Blocks
    <2>12. Standing'
      <3>1. fed' - Len(buffer') = lo + (b + 1)
        BY <1>1, <1>3, <1>6, <2>9
      <3> QED
        BY Zenon, <1>1, <1>2, <2>2, <2>5, <3>1 DEF Standing
    <2> QED
      BY <1>2, <1>7, <2>8, <2>11, <2>12 DEF SortIInv
  <1>9. CASE ~BlockFull(Block)
    <2>1. buffer' = Block /\ runs' = runs
      BY <1>9 DEF Consume
    <2>2. SortTyped'
      BY <1>1, <1>2, <1>3, <1>5, <1>6, <2>1 DEF SortIInv, SortTyped
    <2>3. Len(buffer') = b + 1 /\ fed' - Len(buffer') = lo /\ b + 1 < RunCapacity
      <3>1. ~(Len(Block) >= RunCapacity)
        BY Zenon, <1>9 DEF BlockFull
      <3>2. Len(buffer') = b + 1
        BY Zenon, <1>5, <2>1
      <3> QED
        BY ONLY <1>1, <1>3, <1>4, <1>5, <1>6, <3>1, <3>2
    <2>4. \A k \in 1 .. Len(buffer') : buffer'[k] = input'[fed' - Len(buffer') + k]
      BY ONLY <1>2, <1>5, <2>1, <2>3
    <2>5. fed' = Len(runs') * RunCapacity + Len(buffer')
      BY ONLY <1>1, <1>3, <1>4, <1>6, <2>1, <2>3
    <2>6. Phases'
      BY ONLY <1>1, <1>4, <2>3, <2>4, <2>5, RunCapacity' = RunCapacity DEF Phases, Blocks
    <2>7. Standing'
      BY Zenon, <1>1, <1>2, <1>4, <2>1, <2>3 DEF Standing
    <2> QED
      BY <1>2, <1>7, <2>2, <2>6, <2>7 DEF SortIInv
  <1> QED
    BY <1>8, <1>9

\* All runs fit the streams if there are enough.
LEMMA FewRuns ==
    ASSUME NEW r \in Nat, NEW b \in Nat, NEW c \in Nat, c > 0, NEW m \in Nat,
           r * c + b <= m * c
    PROVE  r <= m /\ (b > 0 => r + 1 <= m)
  <1>1. ASSUME r >= m, b > 0 PROVE FALSE
    <2>1. r * c >= m * c
      BY <1>1
    <2>2. r * c \in Nat /\ m * c \in Nat
      OBVIOUS
    <2> QED
      BY <1>1, <2>1, <2>2
  <1>2. ASSUME r > m PROVE FALSE
    <2>1. r * c >= (m + 1) * c
      BY <1>2
    <2>2. (m + 1) * c = m * c + c
      OBVIOUS
    <2>3. r * c \in Nat /\ m * c \in Nat
      OBVIOUS
    <2> QED
      BY <2>1, <2>2, <2>3
  <1> QED
    BY <1>1, <1>2

\* The input has ended: the last block is flushed, and the runs are opened.
LEMMA KeptEndOfInput == ASSUME SortIInv, EndOfInput PROVE SortIInv'
  <1> PICK b, lo : b = Len(buffer) /\ lo = fed - Len(buffer)
    OBVIOUS
  <1>1. /\ pc = "consume" /\ fed = Len(input) /\ pc' = "merge" /\ fed' = fed /\ buffer' = <<>>
        /\ merged' = merged /\ UNCHANGED task /\ Defined
    BY DEF EndOfInput
  <1>2. input' = input /\ is_asc' = is_asc /\ due' = due /\ DueOf(is_asc, input, due)'
    BY <1>1, SameInput
  <1>3. /\ input \in Seq(Seq(Value)) /\ Len(input) \in Nat /\ fed \in 0 .. Len(input)
        /\ b \in Nat /\ Len(runs) \in Nat /\ runs \in Seq(Seq(Seq(Value)))
        /\ RunCapacity \in Nat /\ RunCapacity > 0 /\ merged \in Seq(Seq(Value))
        /\ buffer \in Seq(Seq(Value)) /\ MaxStreams \in Nat
    BY SortKnown
  <1>4. /\ lo \in Nat /\ lo + b = fed /\ lo = Len(runs) * RunCapacity
        /\ Stands(is_asc, input, due.rows, lo, merged, runs)
    BY <1>1, RunsCount
  <1>5. \A k \in 1 .. b : buffer[k] = input[lo + k]
    BY <1>1 DEF SortIInv, Phases, Blocks
  <1>6. PICK run \in FlushRun(buffer) :
           LET all == IF buffer = <<>> THEN runs ELSE Append(runs, run)
           IN  runs' = [n \in DOMAIN all |-> IF n <= MaxStreams THEN all[n] ELSE <<>>]
    BY DEF EndOfInput
  <1> PICK all : all = IF buffer = <<>> THEN runs ELSE Append(runs, run)
    OBVIOUS
  <1>7. runs' = [n \in DOMAIN all |-> IF n <= MaxStreams THEN all[n] ELSE <<>>]
    BY Zenon, <1>6
  <1>8. /\ all \in Seq(Seq(Seq(Value)))
        /\ Stands(is_asc, input, due.rows, fed, merged, all)
        /\ Sufficient(input) => Len(all) <= MaxStreams
    <2>1. Sufficient(input) => Len(runs) * RunCapacity + b <= MaxStreams * RunCapacity
      BY Zenon, <1>1, <1>4 DEF Sufficient
    <2>2. Sufficient(input) => Len(runs) <= MaxStreams /\ (b > 0 => Len(runs) + 1 <= MaxStreams)
      BY <1>3, <2>1, FewRuns
    <2>3. CASE buffer = <<>>
      <3>1. b = 0 /\ all = runs
        BY <2>3
      <3>2. lo = fed
        BY <1>3, <1>4, <3>1
      <3> QED
        BY <1>3, <1>4, <2>2, <3>1, <3>2
    <2>4. CASE buffer # <<>>
      <3>1. b > 0 /\ all = Append(runs, run)
        BY <1>3, <2>4
      <3>2. b > 1 => \A k \in 1 .. b : HasColumn(buffer[k])
        <4>1. Compared = buffer
          BY <1>1 DEF Compared
        <4>2. DOMAIN buffer = 1 .. b
          BY <1>3
        <4>3. \A k \in 1 .. b : 1 .. b # {k} => HasColumn(buffer[k])
          BY <1>1, <4>1, <4>2 DEF Defined
        <4>4. b > 1 => 1 \in 1 .. b /\ 2 \in 1 .. b
          BY <1>3
        <4> QED
          BY <4>3, <4>4
      <3>3. lo + b <= Len(input)
        BY <1>3, <1>4
      <3>4. PICK f : /\ SortedBlock(input, lo, b, f, run)
                     /\ Orderable(is_asc, input) => Rises(is_asc, input, From(lo, b, f), b)
        BY ONLY <1>3, <1>4, <1>5, <1>6, <3>2, <3>3, BlockSorted, run \in FlushRun(buffer),
                b = Len(buffer)
      <3>5. Tracks(is_asc, input, due.rows, lo, merged, runs, Sufficient(input),
                   Orderable(is_asc, input))
        BY Zenon, <1>4 DEF Stands
      <3>6. Stands(is_asc, input, due.rows, lo + b, merged, Append(runs, run))
        BY ONLY <1>3, <1>4, <3>3, <3>4, <3>5, TrackedRun DEF Stands
      <3>7. run \in Seq(Seq(Value))
        BY <3>4 DEF SortedBlock
      <3>8. Append(runs, run) \in Seq(Seq(Seq(Value))) /\ Len(Append(runs, run)) = Len(runs) + 1
        BY <1>3, <3>7
      <3> QED
        BY <1>4, <2>2, <3>1, <3>6, <3>8
    <2> QED
      BY <2>3, <2>4
  <1>9. /\ runs' \in Seq(Seq(Seq(Value))) /\ Len(runs') = Len(all)
        /\ Len(all) \in Nat /\ DOMAIN all = 1 .. Len(all)
    <2>1. Len(all) \in Nat /\ DOMAIN all = 1 .. Len(all)
      BY <1>8
    <2>2. \A n \in 1 .. Len(all) : all[n] \in Seq(Seq(Value))
      BY <1>8
    <2>3. <<>> \in Seq(Seq(Value))
      OBVIOUS
    <2>4. runs' = [n \in 1 .. Len(all) |-> IF n <= MaxStreams THEN all[n] ELSE <<>>]
      BY Zenon, <1>7, <2>1
    <2>5. \A n \in 1 .. Len(all) : (IF n <= MaxStreams THEN all[n] ELSE <<>>) \in Seq(Seq(Value))
      BY Zenon, <2>2, <2>3
    <2> QED
      BY ONLY <2>1, <2>4, <2>5
  <1>10. Stands(is_asc, input, due.rows, fed, merged, runs')
    <2>1. Tracks(is_asc, input, due.rows, fed, merged, all, Sufficient(input),
                 Orderable(is_asc, input))
      BY Zenon, <1>8 DEF Stands
    <2>2. Sufficient(input) => Len(all) <= MaxStreams
      BY <1>8
    <2> QED
      BY ONLY <1>3, <1>7, <1>9, <2>1, <2>2, TrackedCut DEF Stands
  <1>11. SortTyped'
    BY <1>1, <1>2, <1>3, <1>9 DEF SortIInv, SortTyped
  <1>12. Phases'
    BY <1>1, <1>2 DEF Phases
  <1>13. Failures'
    <2>1. ~Missing(input)
      <3>1. Missing(input) => fed = 0 /\ input # <<>>
        BY <1>1 DEF SortIInv, Failures, Missing
      <3> QED
        BY <1>1, <1>3, <3>1
    <2> QED
      BY <1>1, <1>2, <2>1 DEF Failures
  <1>14. Standing'
    <2>1. Len(<<>>) = 0 /\ fed - 0 = fed
      BY <1>3
    <2>2. fed' - Len(buffer') = fed
      BY Zenon, <1>1, <2>1
    <2> QED
      BY Zenon, <1>1, <1>2, <1>10, <2>2 DEF Standing
  <1> QED
    BY <1>2, <1>11, <1>12, <1>13, <1>14 DEF SortIInv

\* While runs are merged the whole input is in them or has been returned.
LEMMA MergeStands ==
    ASSUME SortIInv, pc \in {"merge", "drained"}
    PROVE  /\ buffer = <<>> /\ fed = Len(input) /\ ~Missing(input)
           /\ Stands(is_asc, input, due.rows, Len(input), merged, runs)
  <1>1. buffer = <<>> /\ fed = Len(input) /\ Len(input) \in Nat
    BY SortKnown DEF SortIInv, Phases
  <1>2. fed - Len(buffer) = Len(input)
    BY <1>1
  <1>3. ~Missing(input)
    BY DEF SortIInv, Failures
  <1> QED
    BY <1>1, <1>2, <1>3 DEF SortIInv, Standing

\* Each head is one of the tuples, as it came back from a file.
LEMMA HeadsAre ==
    ASSUME SortIInv, pc = "merge", NEW x \in RunActive
    PROVE  \E i \in DOMAIN input : Head(runs[x]) = RoundTrip(input[i])
  <1> PICK s, L, n : s = input /\ L = Lines(merged, runs) /\ n = Len(runs)
    OBVIOUS
  <1>1. n \in Nat /\ s \in Seq(Seq(Value)) /\ x \in 1 .. n /\ runs[x] # <<>>
    BY SortKnown DEF RunActive
  <1>2. PICK at : Account(s, 1 .. Len(s), L, n, at)
    BY Zenon, MergeStands DEF Stands, Tracks, Kept
  <1>3. L[x] = runs[x] /\ x \in 0 .. n
    BY <1>1, LinesAre
  <1>4. /\ L[x] \in Seq(Seq(Value)) /\ at[x] \in [1 .. Len(L[x]) -> 1 .. Len(s)]
        /\ \A k \in 1 .. Len(L[x]) : L[x][k] = RoundTrip(s[at[x][k]])
    BY Zenon, <1>2, <1>3 DEF Account
  <1>5. 1 \in 1 .. Len(L[x]) /\ Head(L[x]) = L[x][1]
    BY Zenon, <1>1, <1>3, <1>4, FirstElement
  <1>6. at[x][1] \in 1 .. Len(s) /\ DOMAIN s = 1 .. Len(s)
    BY <1>1, <1>4, <1>5
  <1>7. Head(runs[x]) = RoundTrip(s[at[x][1]])
    BY Zenon, <1>3, <1>4, <1>5
  <1> QED
    BY <1>6, <1>7

\* With whole tuples nothing out of range is read.
LEMMA WholeIsDefined ==
    ASSUME SortIInv, AllWhole(input), pc \in {"consume", "merge"}
    PROVE  Defined
  <1>1. /\ input \in Seq(Seq(Value)) /\ Len(input) \in Nat /\ fed \in 0 .. Len(input)
        /\ buffer \in Seq(Seq(Value)) /\ RunActive \subseteq 1 .. Len(runs)
        /\ DOMAIN input = 1 .. Len(input)
    BY SortKnown
  <1>2. \A i \in DOMAIN input : HasColumn(input[i])
    BY DEF AllWhole, Whole
  <1>3. CASE pc = "consume" /\ fed = Len(input)
    <2>1. Compared = buffer
      BY <1>3 DEF Compared
    <2>2. \A k \in 1 .. Len(buffer) : buffer[k] = input[fed - Len(buffer) + k]
      BY <1>3 DEF SortIInv, Phases, Blocks
    <2>3. fed - Len(buffer) \in Nat
      BY <1>3, RunsCount
    <2>4. ASSUME NEW k \in DOMAIN buffer PROVE HasColumn(buffer[k])
      <3> PICK b : b = Len(buffer)
        OBVIOUS
      <3>1. k \in 1 .. b /\ b \in Nat
        BY <1>1
      <3>2. fed - b + k \in 1 .. Len(input)
        BY ONLY <1>1, <2>3, <3>1, b = Len(buffer)
      <3>3. k \in 1 .. Len(buffer) /\ fed - Len(buffer) + k \in 1 .. Len(input)
        BY <3>1, <3>2
      <3> QED
        BY <1>1, <1>2, <2>2, <3>3
    <2> QED
      BY <2>1, <2>4 DEF Defined
  <1>4. CASE pc = "consume" /\ fed # Len(input)
    <2>1. fed < Len(input)
      <3>1. fed \in 0 .. Len(input) /\ Len(input) \in Nat /\ fed # Len(input)
        BY <1>1, <1>4
      <3> QED
        BY ONLY <3>1
    <2>2. Compared = IF BlockFull(Block) THEN Block ELSE <<>>
      BY <1>4, <2>1 DEF Compared
    <2>3. /\ DOMAIN Block = 1 .. Len(buffer) + 1
          /\ \A k \in 1 .. Len(buffer) + 1 : Block[k] = input[fed - Len(buffer) + k]
      BY <1>4, <2>1, BlockIs
    <2>4. fed - Len(buffer) \in Nat /\ Len(buffer) \in Nat
      BY <1>4, RunsCount, SortKnown
    <2>5. ASSUME NEW k \in DOMAIN Block PROVE HasColumn(Block[k])
      <3>1. k \in 1 .. Len(buffer) + 1 /\ fed - Len(buffer) + k \in 1 .. Len(input)
        BY <1>1, <2>1, <2>3, <2>4
      <3> QED
        BY <1>1, <1>2, <2>3, <3>1
    <2> QED
      BY <2>2, <2>5 DEF Defined
  <1>5. CASE pc = "merge"
    <2>1. Compared = [n \in RunActive |-> Head(runs[n])]
      BY <1>5 DEF Compared
    <2>2. ASSUME NEW n \in RunActive PROVE HasColumn(Head(runs[n]))
      <3>1. PICK i \in DOMAIN input : Head(runs[n]) = RoundTrip(input[i])
        BY <1>5, HeadsAre
      <3>2. RoundTrip(input[i]) = input[i]
        BY <1>1, WholeKept
      <3> QED
        BY <1>2, <3>1, <3>2
    <2> QED
      BY <2>1, <2>2 DEF Defined
  <1> QED
    BY <1>3, <1>4, <1>5

\* A first tuple that lacks the column is compared with none.
LEMMA FirstAlone ==
    ASSUME SortIInv, pc \in {"consume", "merge"}, Missing(input)
    PROVE  \A k, j \in DOMAIN Compared : k = j /\ DOMAIN Compared = {k}
  <1>1. pc = "consume" /\ fed = 0 /\ input # <<>>
    BY DEF SortIInv, Failures, Missing
  <1>2. /\ input \in Seq(Seq(Value)) /\ buffer \in Seq(Seq(Value)) /\ Len(buffer) \in Nat
        /\ Len(input) \in Nat
    BY SortKnown
  <1>3. fed < Len(input)
    BY <1>1, <1>2
  <1>4. Len(buffer) = 0
    BY <1>1, <1>2, RunsCount
  <1>5. DOMAIN Block = 1 .. 1
    BY <1>1, <1>3, <1>4, BlockIs
  <1>6. Compared = IF BlockFull(Block) THEN Block ELSE <<>>
    BY <1>1, <1>2, <1>3 DEF Compared
  <1>7. 1 .. 1 = {1} /\ DOMAIN <<>> = {}
    OBVIOUS
  <1> QED
    BY <1>5, <1>6, <1>7

\* A value that is not there is read.
LEMMA KeptOutOfRange == ASSUME SortIInv, ReadOutOfRange PROVE SortIInv'
  <1>1. /\ pc' = "undefined" /\ fed' = fed /\ merged' = merged /\ buffer' = buffer /\ runs' = runs
        /\ UNCHANGED task /\ pc \in {"consume", "merge"} /\ ~Defined
    BY DEF ReadOutOfRange
  <1>2. input' = input /\ is_asc' = is_asc /\ due' = due /\ DueOf(is_asc, input, due)'
    BY <1>1, SameInput
  <1>3. ~AllWhole(input)
    BY <1>1, WholeIsDefined
  <1>4. ~Missing(input)
    BY <1>1, FirstAlone DEF Defined
  <1>5. SortTyped'
    BY <1>1, <1>2 DEF SortIInv, SortTyped
  <1>6. Phases' /\ Failures' /\ Standing'
    BY <1>1, <1>2, <1>3, <1>4 DEF Phases, Failures, Standing
  <1> QED
    BY <1>2, <1>5, <1>6 DEF SortIInv

\* The heads of two runs are two tuples of the input, as they came back.
LEMMA HeadsApart ==
    ASSUME SortIInv, pc = "merge", NEW x \in RunActive, NEW y \in RunActive, x # y
    PROVE  \E i, j \in DOMAIN input : /\ i # j /\ Head(runs[x]) = RoundTrip(input[i])
                                     /\ Head(runs[y]) = RoundTrip(input[j])
  <1> PICK s, L, n : s = input /\ L = Lines(merged, runs) /\ n = Len(runs)
    OBVIOUS
  <1>1. /\ n \in Nat /\ s \in Seq(Seq(Value)) /\ DOMAIN s = 1 .. Len(s)
        /\ x \in 1 .. n /\ runs[x] # <<>> /\ y \in 1 .. n /\ runs[y] # <<>>
    BY SortKnown DEF RunActive
  <1>2. PICK at : Account(s, 1 .. Len(s), L, n, at)
    BY Zenon, MergeStands DEF Stands, Tracks, Kept
  <1>3. L[x] = runs[x] /\ x \in 0 .. n /\ L[y] = runs[y] /\ y \in 0 .. n
    BY <1>1, LinesAre
  <1>4. ASSUME NEW z \in 0 .. n, L[z] # <<>>
        PROVE  /\ 1 \in 1 .. Len(L[z]) /\ at[z][1] \in 1 .. Len(s)
               /\ Head(L[z]) = RoundTrip(s[at[z][1]])
    <2>1. /\ L[z] \in Seq(Seq(Value)) /\ at[z] \in [1 .. Len(L[z]) -> 1 .. Len(s)]
          /\ \A k \in 1 .. Len(L[z]) : L[z][k] = RoundTrip(s[at[z][k]])
      BY Zenon, <1>2 DEF Account
    <2>2. 1 \in 1 .. Len(L[z]) /\ Head(L[z]) = L[z][1]
      BY Zenon, <1>4, <2>1, FirstElement
    <2> QED
      BY <2>1, <2>2
  <1>5. /\ at[x][1] \in DOMAIN s /\ Head(runs[x]) = RoundTrip(s[at[x][1]])
        /\ at[y][1] \in DOMAIN s /\ Head(runs[y]) = RoundTrip(s[at[y][1]])
        /\ 1 \in 1 .. Len(L[x]) /\ 1 \in 1 .. Len(L[y])
    BY Zenon, <1>1, <1>3, <1>4
  <1>6. at[x][1] # at[y][1]
    BY Zenon, <1>2, <1>3, <1>5 DEF Account
  <1> QED
    BY Zenon, <1>5, <1>6

\* stod throws for two tuples of the input.
LEMMA RaiseKnown ==
    ASSUME SortIInv, StodThrows, AllWhole(input)
    PROVE  MayRaise(input, sort_col_idx)
  <1>1. input \in Seq(Seq(Value)) /\ Len(input) \in Nat /\ DOMAIN input = 1 .. Len(input)
    BY SortKnown
  <1>2. \A i \in DOMAIN input : sort_col_idx \in DOMAIN input[i] /\ RoundTrip(input[i]) = input[i]
    BY <1>1, WholeKept DEF AllWhole, Whole, HasColumn
  <1>3. CASE pc = "consume" /\ MayRaise(Compared, sort_col_idx)
    <2>1. PICK i, j \in DOMAIN Compared : RaisesAt(Compared, sort_col_idx, i, j)
      BY <1>3 DEF MayRaise
    <2> PICK b, lo : b = Len(buffer) /\ lo = fed - Len(buffer)
      OBVIOUS
    <2>2. b \in Nat /\ lo \in Nat /\ lo + b = fed /\ fed \in 0 .. Len(input)
      BY <1>3, RunsCount, SortKnown
    <2>3. PICK m \in Nat : /\ DOMAIN Compared = 1 .. m /\ lo + m <= Len(input)
                           /\ \A k \in 1 .. m : Compared[k] = input[lo + k]
      <3>1. CASE fed = Len(input)
        <4>1. Compared = buffer /\ buffer \in Seq(Seq(Value))
          BY <1>3, <3>1, SortKnown DEF Compared
        <4>2. \A k \in 1 .. b : buffer[k] = input[lo + k]
          BY <1>3 DEF SortIInv, Phases, Blocks
        <4>3. DOMAIN buffer = 1 .. b /\ lo + b <= Len(input)
          BY <1>1, <2>2, <4>1
        <4> QED
          BY <2>2, <4>1, <4>2, <4>3
      <3>2. CASE fed # Len(input)
        <4> PICK f, n : f = fed /\ n = Len(input)
          OBVIOUS
        <4>0. n \in Nat /\ f \in 0 .. n /\ f # n
          BY <1>1, <2>2, <3>2
        <4>1. fed < Len(input)
          <5>1. f < n
            BY ONLY <4>0
          <5> QED
            BY Zenon, <5>1
        <4>2. /\ DOMAIN Block = 1 .. b + 1 /\ \A k \in 1 .. b + 1 : Block[k] = input[lo + k]
              /\ Compared = IF BlockFull(Block) THEN Block ELSE <<>>
          BY <1>3, <4>1, BlockIs DEF Compared
        <4>3. Compared = Block
          BY <2>1, <4>2
        <4>4. b + 1 \in Nat /\ lo + (b + 1) <= Len(input)
          <5>1. n \in Nat /\ b \in Nat /\ lo \in Nat /\ lo + b = f /\ f < n
            BY <1>1, <2>2, <4>1
          <5>2. b + 1 \in Nat /\ lo + (b + 1) <= n
            BY ONLY <5>1
          <5> QED
            BY Zenon, <5>2
        <4> QED
          BY Zenon, <4>2, <4>3, <4>4
      <3> QED
        BY <3>1, <3>2
    <2>4. i \in 1 .. m /\ j \in 1 .. m /\ i # j
      BY <2>1, <2>3 DEF RaisesAt
    <2>5. lo + i \in DOMAIN input /\ lo + j \in DOMAIN input /\ lo + i # lo + j
      <3> PICK n : n = Len(input)
        OBVIOUS
      <3>1. n \in Nat /\ lo + m <= n /\ DOMAIN input = 1 .. n
        BY Zenon, <1>1, <2>3
      <3>2. lo + i \in 1 .. n /\ lo + j \in 1 .. n /\ lo + i # lo + j
        BY ONLY <2>2, <2>4, <3>1, m \in Nat
      <3> QED
        BY Zenon, <3>1, <3>2
    <2>6. RaisesAt(input, sort_col_idx, lo + i, lo + j)
      <3>1. Compared[i] = input[lo + i] /\ Compared[j] = input[lo + j]
        BY <2>3, <2>4
      <3> QED
        BY <1>2, <2>1, <2>5, <3>1 DEF RaisesAt
    <2> QED
      BY Zenon, <2>5, <2>6 DEF MayRaise
  <1>4. CASE pc = "merge" /\ MergeRaises
    <2>1. PICK x \in RunActive : RaisesAt(Compared, sort_col_idx, x, BestOf(x - 1))
      BY <1>4 DEF MergeRaises
    <2>2. PICK y : y = BestOf(x - 1)
      OBVIOUS
    <2>3. Compared = [n \in RunActive |-> Head(runs[n])]
      BY <1>4 DEF Compared
    <2>4. y \in RunActive /\ x # y /\ Raises(Compared[x][sort_col_idx], Compared[y][sort_col_idx])
      BY <2>1, <2>2, <2>3 DEF RaisesAt
    <2>5. PICK i, j \in DOMAIN input : /\ i # j /\ Head(runs[x]) = RoundTrip(input[i])
                                      /\ Head(runs[y]) = RoundTrip(input[j])
      BY <1>4, <2>4, HeadsApart
    <2>6. Compared[x] = input[i] /\ Compared[y] = input[j]
      BY <1>2, <2>3, <2>4, <2>5
    <2>7. RaisesAt(input, sort_col_idx, i, j)
      BY <1>2, <2>4, <2>5, <2>6 DEF RaisesAt
    <2> QED
      BY <2>7 DEF MayRaise
  <1> QED
    BY <1>3, <1>4 DEF StodThrows

\* stod throws.
LEMMA KeptRaised == ASSUME SortIInv, StodThrows PROVE SortIInv'
  <1>1. /\ pc' = "raised" /\ fed' = fed /\ merged' = merged /\ buffer' = buffer /\ runs' = runs
        /\ UNCHANGED task /\ pc \in {"consume", "merge"}
    BY DEF StodThrows
  <1>2. input' = input /\ is_asc' = is_asc /\ due' = due /\ DueOf(is_asc, input, due)'
    BY <1>1, SameInput
  <1>3. ~Missing(input)
    <2>1. \E k, j \in DOMAIN Compared : k # j
      <3>1. CASE MayRaise(Compared, sort_col_idx)
        BY <3>1 DEF MayRaise, RaisesAt
      <3>2. CASE MergeRaises
        <4>1. PICK x : RaisesAt(Compared, sort_col_idx, x, BestOf(x - 1))
          BY <3>2 DEF MergeRaises
        <4> QED
          BY <4>1 DEF RaisesAt
      <3> QED
        BY <3>1, <3>2 DEF StodThrows
    <2> QED
      BY Zenon, <1>1, <2>1, FirstAlone
  <1>4. SortTyped'
    BY <1>1, <1>2 DEF SortIInv, SortTyped
  <1>5. AllWhole(input) => MayRaise(input, sort_col_idx)
    BY RaiseKnown
  <1>6. Phases' /\ Failures' /\ Standing'
    BY <1>1, <1>2, <1>3, <1>5 DEF Phases, Failures, Standing, AllWhole, MayRaise
  <1> QED
    BY <1>2, <1>4, <1>6 DEF SortIInv

\* The heads of an input in order can be compared.
LEMMA HeadsCompare ==
    ASSUME SortIInv, pc = "merge", Orderable(is_asc, input)
    PROVE  HeadsOrdered
  <1>1. /\ Stands(is_asc, input, due.rows, Len(input), merged, runs)
        /\ input \in Seq(Seq(Value)) /\ RunActive \subseteq 1 .. Len(runs)
    BY MergeStands, SortKnown
  <1>2. Sortable(is_asc, input)
    BY <1>1, WholeKept DEF Orderable
  <1>3. ASSUME NEW x \in RunActive PROVE \E i \in DOMAIN input : Head(runs[x]) = input[i]
    <2>2. PICK i \in DOMAIN input : Head(runs[x]) = RoundTrip(input[i])
      BY HeadsAre
    <2> QED
      BY Zenon, <1>2, <2>2 DEF Sortable
  <1>4. \A i, j \in DOMAIN input : Comes(is_asc, input, i, j) => ~Comes(is_asc, input, j, i)
    <2>1. \A i \in DOMAIN input : input[i][sort_col_idx] \in Value
      BY <1>2 DEF Sortable, Keyed, HasColumn
    <2> QED
      BY <2>1, LessOneWay DEF Comes
  <1> SUFFICES ASSUME NEW x \in RunActive, NEW y \in RunActive, NEW z \in RunActive
               PROVE  /\ HeadAhead(x, y) => ~HeadAhead(y, x)
                      /\ HeadAhead(x, y) /\ HeadAhead(y, z) => HeadAhead(x, z)
                      /\ ~HeadAhead(x, y) /\ ~HeadAhead(y, x)
                            /\ ~HeadAhead(y, z) /\ ~HeadAhead(z, y)
                         => ~HeadAhead(x, z) /\ ~HeadAhead(z, x)
    BY DEF HeadsOrdered
  <1>5. PICK i \in DOMAIN input : Head(runs[x]) = input[i]
    BY <1>3
  <1>6. PICK j \in DOMAIN input : Head(runs[y]) = input[j]
    BY <1>3
  <1>7. PICK k \in DOMAIN input : Head(runs[z]) = input[k]
    BY <1>3
  <1>8. /\ HeadAhead(x, y) <=> Comes(is_asc, input, i, j)
        /\ HeadAhead(y, x) <=> Comes(is_asc, input, j, i)
        /\ HeadAhead(y, z) <=> Comes(is_asc, input, j, k)
        /\ HeadAhead(z, y) <=> Comes(is_asc, input, k, j)
        /\ HeadAhead(x, z) <=> Comes(is_asc, input, i, k)
        /\ HeadAhead(z, x) <=> Comes(is_asc, input, k, i)
    BY Zenon, <1>5, <1>6, <1>7 DEF HeadAhead, GoesBefore, Comes
  <1>9. /\ Comes(is_asc, input, i, j) /\ Comes(is_asc, input, j, k) => Comes(is_asc, input, i, k)
        /\ (~Comes(is_asc, input, i, j) /\ ~Comes(is_asc, input, j, i))
              /\ (~Comes(is_asc, input, j, k) /\ ~Comes(is_asc, input, k, j))
           => ~Comes(is_asc, input, i, k) /\ ~Comes(is_asc, input, k, i)
    BY Zenon, <1>2 DEF Sortable, Ordered
  <1> QED
    BY Zenon, <1>4, <1>8, <1>9

\* next returns a tuple: the next of the order that is meant, if there is one.
LEMMA MergeMoves ==
    ASSUME SortIInv, Merge
    PROVE  /\ Stands(is_asc, input, due.rows, Len(input), merged', runs')
           /\ Best \in 1 .. Len(runs) /\ runs[Best] # <<>>
           /\ Orderable(is_asc, input) =>
                 Len(merged) < Len(input) /\ Head(runs[Best]) = due.rows[Len(merged) + 1]
  <1> PICK b : b = Best
    OBVIOUS
  <1>1. /\ pc = "merge" /\ RunActive # {}
        /\ merged' = Append(merged, Head(runs[b])) /\ runs' = [runs EXCEPT ![b] = Tail(@)]
    BY DEF Merge
  <1>2. /\ input \in Seq(Seq(Value)) /\ RunActive \subseteq 1 .. Len(runs)
        /\ runs \in Seq(Seq(Seq(Value))) /\ Len(runs) \in Nat
    BY SortKnown
  <1>3. b \in RunActive /\ (HeadsOrdered => Foremost(Len(runs), b))
    BY <1>1, <1>2, BestLeads
  <1>4. b \in 1 .. Len(runs) /\ runs[b] # <<>>
    BY <1>2, <1>3 DEF RunActive
  <1>5. Tracks(is_asc, input, due.rows, Len(input), merged, runs, Sufficient(input),
               Orderable(is_asc, input))
    BY <1>1, MergeStands DEF Stands
  <1>6. ASSUME Orderable(is_asc, input)
        PROVE  Sufficient(input) /\ Sortable(is_asc, input) /\ ForemostRun(is_asc, runs, b)
    <2>1. Sufficient(input) /\ Sortable(is_asc, input)
      BY <1>2, <1>6, WholeKept DEF Orderable
    <2>2. Foremost(Len(runs), b)
      BY <1>1, <1>3, <1>6, HeadsCompare
    <2>3. ASSUME NEW x \in 1 .. Len(runs), runs[x] # <<>>
          PROVE  ~Goes(is_asc, runs[x][1], runs[b][1])
                    /\ (x < b => Goes(is_asc, runs[b][1], runs[x][1]))
      <3>1. x \in RunActive
        BY <1>2, <2>3 DEF RunActive
      <3>2. ~HeadAhead(x, b) /\ (x < b => HeadAhead(b, x))
        BY Zenon, <2>2, <3>1 DEF Foremost
      <3>3. runs[x] \in Seq(Seq(Value)) /\ runs[b] \in Seq(Seq(Value))
        BY <1>2, <1>4
      <3>4. Head(runs[x]) = runs[x][1] /\ Head(runs[b]) = runs[b][1]
        BY Zenon, <1>4, <2>3, <3>3, FirstElement
      <3> QED
        BY Zenon, <3>2, <3>4 DEF HeadAhead, GoesBefore, Goes
    <2> QED
      BY <2>1, <2>3 DEF ForemostRun
  <1>7. merged \in Seq(Seq(Value))
    BY SortKnown
  <1>8. /\ Tracks(is_asc, input, due.rows, Len(input), Append(merged, Head(runs[b])),
                  [runs EXCEPT ![b] = Tail(@)], Sufficient(input), Orderable(is_asc, input))
        /\ Orderable(is_asc, input) =>
              Len(merged) < Len(input) /\ Head(runs[b]) = due.rows[Len(merged) + 1]
    <2>1. Tracks(is_asc, input, due.rows, Len(input), Append(merged, Head(runs[b])),
                 [runs EXCEPT ![b] = Tail(@)], Sufficient(input), Orderable(is_asc, input))
      BY Zenon, <1>2, <1>4, <1>5, <1>6, TrackedMerge
    <2>2. Orderable(is_asc, input) => IsNext(Head(runs[b]), due.rows, input, merged)
      BY Zenon, <1>2, <1>4, <1>5, <1>6, TrackedMerge
    <2> QED
      BY Zenon, <2>1, <2>2 DEF IsNext
  <1> QED
    BY <1>1, <1>4, <1>8 DEF Stands

\* A tuple is returned.
LEMMA KeptMerge == ASSUME SortIInv, Merge PROVE SortIInv'
  <1>1. /\ pc = "merge" /\ pc' = "merge" /\ fed' = fed /\ buffer' = buffer /\ UNCHANGED task
        /\ merged' = Append(merged, Head(runs[Best]))
        /\ runs' = [runs EXCEPT ![Best] = Tail(@)]
    BY DEF Merge
  <1>2. input' = input /\ is_asc' = is_asc /\ due' = due /\ DueOf(is_asc, input, due)'
    BY <1>1, SameInput
  <1>3. /\ Stands(is_asc, input, due.rows, Len(input), merged', runs')
        /\ Best \in 1 .. Len(runs) /\ runs[Best] # <<>>
    BY MergeMoves
  <1>4. /\ buffer = <<>> /\ fed = Len(input) /\ ~Missing(input) /\ Len(input) \in Nat
        /\ runs \in Seq(Seq(Seq(Value))) /\ merged \in Seq(Seq(Value))
    BY <1>1, MergeStands, SortKnown
  <1>5. runs' \in Seq(Seq(Seq(Value))) /\ merged' \in Seq(Seq(Value))
    <2> PICK b : b = Best
      OBVIOUS
    <2>1. runs[b] \in Seq(Seq(Value)) /\ runs[b] # <<>>
      BY <1>3, <1>4
    <2>2. Head(runs[b]) \in Seq(Value) /\ Tail(runs[b]) \in Seq(Seq(Value))
      BY ONLY <2>1
    <2> QED
      BY <1>1, <1>3, <1>4, <2>2
  <1>6. SortTyped'
    BY <1>1, <1>2, <1>5 DEF SortIInv, SortTyped
  <1>7. Phases' /\ Failures'
    BY <1>1, <1>2, <1>4 DEF Phases, Failures
  <1>8. Standing'
    <2>1. fed' - Len(buffer') = Len(input)
      <3>1. Len(<<>>) = 0 /\ Len(input) - 0 = Len(input)
        BY <1>4
      <3> QED
        BY Zenon, <1>1, <1>4, <3>1
    <2> QED
      BY Zenon, <1>2, <1>3, <2>1 DEF Standing
  <1> QED
    BY <1>2, <1>6, <1>7, <1>8 DEF SortIInv

\* Every step keeps the invariant.
LEMMA SortStepKept == ASSUME SortIInv, [SortStep]_sortVars PROVE SortIInv'
  BY KeptStart, KeptConsume, KeptColumn, KeptEndOfInput, KeptMerge, KeptRaised, KeptOutOfRange,
     KeptEnd, KeptCleanup, KeptStill DEF SortStep

\* A sort is always where SortIInv says: each tuple taken is at one place of what was returned,
\* of a run or of the buffer, and if the input can be ordered what was returned is in order.
THEOREM SortInvariant == SortSpec => []SortIInv
  <1>1. SortInit => SortIInv
    BY SortBegins
  <1>2. SortIInv /\ [SortStep]_sortVars => SortIInv'
    BY SortStepKept
  <1> QED
    BY <1>1, <1>2, PTL DEF SortSpec

\* A value beyond a tuple is read only if a tuple came without the column or lost it.
THEOREM ReadsTheorem == SortSpec => []ReadsOnlyFields
  <1>1. SortIInv => ReadsOnlyFields
    BY DEF SortIInv, Failures, AllWhole, ReadsOnlyFields
  <1> QED
    BY <1>1, SortInvariant, PTL

-----------------------------------------------------------------------------
(* A sort: nothing is lost *)

\* p says which tuple of s, of which there are n, each of the q tuples M is; it is all of them.
Returns(p, q, n, M, s) ==
    /\ p \in [1 .. q -> 1 .. n]
    /\ \A j, k \in 1 .. q : p[j] = p[k] => j = k
    /\ \A i \in 1 .. n : \E k \in 1 .. q : p[k] = i
    /\ \A k \in 1 .. q : M[k] = RoundTrip(s[p[k]])

\* Without an active run nothing is left of any.
LEMMA NoneActive ==
    ASSUME SortIInv, RunActive = {}
    PROVE  Len(runs) \in Nat /\ \A x \in 1 .. Len(runs) : runs[x] = <<>>
  <1>1. Len(runs) \in Nat /\ DOMAIN runs = 1 .. Len(runs)
    BY SortKnown
  <1>2. \A x \in DOMAIN runs : runs[x] = <<>>
    BY DEF RunActive
  <1> QED
    BY Zenon, <1>1, <1>2

\* At the end each tuple of the input is at one place of the result.
LEMMA PlacesOfAll ==
    ASSUME SortIInv, pc = "drained", EnoughStreams
    PROVE  \E p : Returns(p, Len(merged), Len(input), merged, input)
  <1> PICK L, R, n : L = Lines(merged, runs) /\ R = Len(runs) /\ n = Len(input)
    OBVIOUS
  <1>1. Sufficient(input)
    BY DEF EnoughStreams, Sufficient
  <1>2. PICK at : Account(input, 1 .. n, L, R, at) /\ Covers(1 .. n, L, R, at)
    BY Zenon, <1>1, MergeStands DEF Stands, Tracks, Kept
  <1>3. R \in Nat /\ 0 \in 0 .. R /\ L[0] = merged /\ \A x \in 1 .. R : L[x] = <<>>
    <2>1. R \in Nat /\ runs \in Seq(Seq(Seq(Value)))
      BY SortKnown
    <2>2. \A x \in 1 .. R : runs[x] = <<>>
      <3>1. RunActive = {}
        BY DEF SortIInv, Phases
      <3> QED
        BY Zenon, <3>1, NoneActive
    <2> QED
      BY <2>1, <2>2, LinesAre
  <1>4. /\ at[0] \in [1 .. Len(merged) -> 1 .. n]
        /\ \A k \in 1 .. Len(merged) : merged[k] = RoundTrip(input[at[0][k]])
        /\ \A j, k \in 1 .. Len(merged) : at[0][j] = at[0][k] => j = k
    <2>1. at[0] \in [1 .. Len(merged) -> 1 .. n]
      BY Zenon, <1>2, <1>3 DEF Account
    <2>2. \A k \in 1 .. Len(merged) : merged[k] = RoundTrip(input[at[0][k]])
      BY <1>2, <1>3 DEF Account
    <2>3. \A j, k \in 1 .. Len(L[0]) : at[0][j] = at[0][k] => 0 = 0 /\ j = k
      BY Zenon, <1>2, <1>3 DEF Account
    <2> QED
      BY Zenon, <1>3, <2>1, <2>2, <2>3
  <1>5. ASSUME NEW i \in 1 .. n PROVE \E k \in 1 .. Len(merged) : at[0][k] = i
    <2>1. PICK x \in 0 .. R : \E k \in 1 .. Len(L[x]) : at[x][k] = i
      BY Zenon, <1>2 DEF Covers
    <2>2. x \in 1 .. R => 1 .. Len(L[x]) = {}
      <3>1. 1 .. Len(<<>>) = {}
        OBVIOUS
      <3> QED
        BY Zenon, <1>3, <3>1
    <2>3. x = 0
      BY <1>3, <2>1, <2>2
    <2> QED
      BY Zenon, <1>3, <2>1, <2>3
  <1> QED
    BY <1>4, <1>5 DEF Returns

\* The q tuples M have t as often as the n tuples s.
AsOften(q, n, M, s, t) ==
    Cardinality({k \in 1 .. q : M[k] = t}) = Cardinality({k \in 1 .. n : RoundTrip(s[k]) = t})

\* A tuple is returned as often as the input had it.
LEMMA SameNumber ==
    ASSUME NEW q \in Nat, NEW n \in Nat, NEW M, NEW s, NEW p, Returns(p, q, n, M, s), NEW t
    PROVE  AsOften(q, n, M, s, t)
  <1> DEFINE A == {k \in 1 .. q : M[k] = t}
             B == {k \in 1 .. n : RoundTrip(s[k]) = t}
             f == [k \in A |-> p[k]]
  <1>1. f \in [A -> B]
    BY DEF Returns
  <1>2. \A j, k \in A : f[j] = f[k] => j = k
    BY DEF Returns
  <1>3. \A i \in B : \E k \in A : f[k] = i
    BY DEF Returns
  <1>4. IsFiniteSet(A)
    <2>1. IsFiniteSet(1 .. q)
      BY FS_Interval
    <2>2. A \in SUBSET (1 .. q)
      OBVIOUS
    <2> HIDE DEF A
    <2> QED
      BY <2>1, <2>2, FS_Subset
  <1> HIDE DEF A, B, f
  <1>5. f \in Bijection(A, B)
    BY <1>1, <1>2, <1>3 DEF Bijection, Injection, Surjection, IsInjective
  <1>6. Cardinality(B) = Cardinality(A)
    BY <1>4, <1>5, FS_Bijection DEF ExistsBijection
  <1> QED
    BY <1>6 DEF A, B, AsOften

\* The tuples returned by the end are those of the input, each as often.
THEOREM NothingLostTheorem == SortSpec => []NothingLost
  <1>1. SortIInv => NothingLost
    <2> SUFFICES ASSUME SortIInv, pc = "drained", EnoughStreams, NEW t
                 PROVE  Cardinality({k \in DOMAIN merged : merged[k] = t})
                           = Cardinality({k \in DOMAIN input : RoundTrip(input[k]) = t})
      BY DEF NothingLost
    <2>1. PICK p : Returns(p, Len(merged), Len(input), merged, input)
      BY PlacesOfAll
    <2>2. /\ Len(merged) \in Nat /\ Len(input) \in Nat
          /\ DOMAIN merged = 1 .. Len(merged) /\ DOMAIN input = 1 .. Len(input)
      BY SortKnown
    <2>3. AsOften(Len(merged), Len(input), merged, input, t)
      BY Zenon, <2>1, <2>2, SameNumber
    <2> QED
      BY Zenon, <2>2, <2>3 DEF AsOften
  <1> QED
    BY <1>1, SortInvariant, PTL

-----------------------------------------------------------------------------
(* A sort implements QueryResult *)

\* What a consumer of the sort sees.
SortMode == IF ~due.promised THEN "closed"
        ELSE IF pc \in {"consume", "merge"} THEN "open"
        ELSE IF pc = "drained" THEN "ended"
        ELSE IF pc = "raised" THEN "failed" ELSE pc
Produced == IF due.promised THEN merged ELSE <<>>

\* What of it the sort cannot change.
Given == <<due.rows, NoSuchColumn, MayRaise(input, sort_col_idx)>>

\* Its steps in these words.
LEMMA ResultSteps ==
    /\ SR!QRInit <=> SortMode = "closed" /\ Produced = <<>>
    /\ SortMode = "closed" /\ SortMode' = "open" /\ Produced' = <<>>
          /\ UNCHANGED Given => SR!QROpen
    /\ SortMode = "open" /\ (NoSuchColumn \/ MayRaise(input, sort_col_idx))
          /\ SortMode' = "failed" /\ Produced' = Produced /\ UNCHANGED Given => SR!QRFail
    /\ SortMode = "open" /\ ~NoSuchColumn /\ Len(Produced) < Len(due.rows)
          /\ Produced' = Append(Produced, due.rows[Len(Produced) + 1]) /\ SortMode' = SortMode
          /\ UNCHANGED Given => SR!QRProduce
    /\ SortMode = "open" /\ ~NoSuchColumn /\ Produced = due.rows
          /\ SortMode' = "ended" /\ Produced' = Produced
          /\ UNCHANGED Given => SR!QREnd
    /\ SortMode \in {"open", "ended"} /\ SortMode' = "closed" /\ Produced' = Produced
          /\ UNCHANGED Given => SR!QRClose
    /\ SortMode' = SortMode /\ Produced' = Produced
          /\ UNCHANGED Given => UNCHANGED SR!qrVars
  <1>1. SR!QRInit <=> SortMode = "closed" /\ Produced = <<>>
    BY DEF SR!QRInit, SortMode, Produced
  <1>2. SortMode = "closed" /\ SortMode' = "open" /\ Produced' = <<>>
          /\ UNCHANGED Given => SR!QROpen
    BY DEF SR!QROpen, SR!query, Given, SortMode, Produced
  <1>3. SortMode = "open" /\ (NoSuchColumn \/ MayRaise(input, sort_col_idx))
          /\ SortMode' = "failed" /\ Produced' = Produced /\ UNCHANGED Given => SR!QRFail
    BY DEF SR!QRFail, SR!query, Given, SortMode, Produced
  <1>4. SortMode = "open" /\ ~NoSuchColumn /\ Len(Produced) < Len(due.rows)
          /\ Produced' = Append(Produced, due.rows[Len(Produced) + 1]) /\ SortMode' = SortMode
          /\ UNCHANGED Given => SR!QRProduce
    BY DEF SR!QRProduce, SR!query, Given, SortMode, Produced
  <1>5. SortMode = "open" /\ ~NoSuchColumn /\ Produced = due.rows
          /\ SortMode' = "ended" /\ Produced' = Produced
          /\ UNCHANGED Given => SR!QREnd
    BY DEF SR!QREnd, SR!query, Given, SortMode, Produced
  <1>6. SortMode \in {"open", "ended"} /\ SortMode' = "closed" /\ Produced' = Produced
          /\ UNCHANGED Given => SR!QRClose
    BY DEF SR!QRClose, SR!query, Given, SortMode, Produced
  <1>7. SortMode' = SortMode /\ Produced' = Produced
          /\ UNCHANGED Given => UNCHANGED SR!qrVars
    BY DEF SR!qrVars, SR!query, Given, SortMode, Produced
  <1> QED
    BY Zenon, <1>1, <1>2, <1>3, <1>4, <1>5, <1>6, <1>7

\* The rows that are due, of an input that can be ordered.
LEMMA RowsDue ==
    ASSUME SortIInv, Orderable(is_asc, input)
    PROVE  \E g : OrderMeant(is_asc, input, due.rows, g) /\ Len(due.rows) = Len(input)
  <1>1. PICK g : OrderMeant(is_asc, input, due.rows, g)
    BY DEF SortIInv, DueOf
  <1>2. due.rows = [k \in 1 .. Len(input) |-> input[g[k]]] /\ Len(input) \in Nat
    BY <1>1, SortKnown DEF OrderMeant
  <1>3. Len(due.rows) = Len(input)
    BY ONLY <1>2
  <1> QED
    BY <1>1, <1>3

\* Once all runs are used up the rows due are those returned.
LEMMA AllReturned ==
    ASSUME SortIInv, pc = "merge", RunActive = {}, Orderable(is_asc, input)
    PROVE  merged = due.rows
  <1> PICK L, R, n, q : /\ L = Lines(merged, runs) /\ R = Len(runs) /\ n = Len(input)
                        /\ q = Len(merged)
    OBVIOUS
  <1>1. /\ R \in Nat /\ n \in Nat /\ q \in Nat /\ input \in Seq(Seq(Value))
        /\ merged \in Seq(Seq(Value)) /\ DOMAIN input = 1 .. n
        /\ runs \in Seq(Seq(Seq(Value)))
    BY SortKnown
  <1>2. AllWhole(input) /\ Sufficient(input)
    BY DEF Orderable
  <1>3. Stands(is_asc, input, due.rows, n, merged, runs)
    BY MergeStands
  <1>4. PICK at, g : /\ Account(input, 1 .. n, L, R, at) /\ Covers(1 .. n, L, R, at)
                     /\ RowsInOrder(is_asc, input, due.rows, L, at, g)
    BY <1>2, <1>3 DEF Stands, Tracks, Kept
  <1>5. 0 \in 0 .. R /\ L[0] = merged /\ \A x \in 1 .. R : L[x] = <<>>
    <2>1. \A x \in 1 .. R : runs[x] = <<>>
      BY Zenon, NoneActive
    <2> QED
      BY <1>1, <2>1, LinesAre
  <1>6. /\ q <= n /\ \A k \in 1 .. q : at[0][k] = g[k]
        /\ due.rows = [k \in 1 .. n |-> input[g[k]]]
        /\ \A k \in 1 .. n : g[k] \in 1 .. n
        /\ \A j, k \in 1 .. n : g[j] = g[k] => j = k
    BY <1>1, <1>4, <1>5 DEF RowsInOrder, Arranges
  <1>7. \A k \in 1 .. q : merged[k] = RoundTrip(input[at[0][k]])
    <2>1. \A k \in 1 .. Len(L[0]) : L[0][k] = RoundTrip(input[at[0][k]])
      BY Zenon, <1>4, <1>5 DEF Account
    <2> QED
      BY ONLY <1>5, <2>1, q = Len(merged)
  <1>8. \A i \in 1 .. n : RoundTrip(input[i]) = input[i]
    BY <1>1, <1>2, WholeKept
  <1>9. q = n
    <2> SUFFICES ASSUME q # n PROVE FALSE
      OBVIOUS
    <2>1. q + 1 \in 1 .. n /\ q + 1 \notin 1 .. q /\ \A k \in 1 .. q : k \in 1 .. n
      BY <1>1, <1>6
    <2>2. PICK x \in 0 .. R : \E k \in 1 .. Len(L[x]) : at[x][k] = g[q + 1]
      BY Zenon, <1>4, <1>6, <2>1 DEF Covers
    <2>3. x \in 1 .. R => 1 .. Len(L[x]) = {}
      <3>1. 1 .. Len(<<>>) = {}
        OBVIOUS
      <3> QED
        BY Zenon, <1>5, <3>1
    <2>4. x = 0
      <3>1. x = 0 \/ x \in 1 .. R
        BY ONLY <1>1, x \in 0 .. R
      <3> QED
        BY Zenon, <2>2, <2>3, <3>1
    <2>5. PICK k \in 1 .. q : at[0][k] = g[q + 1]
      BY Zenon, <1>5, <2>2, <2>4
    <2>6. g[k] = g[q + 1]
      BY Zenon, <1>6, <2>5
    <2> QED
      BY Zenon, <1>6, <2>1, <2>6
  <1>10. \A k \in 1 .. n : merged[k] = due.rows[k]
    BY <1>6, <1>7, <1>8, <1>9
  <1> QED
    <2>1. merged = [k \in 1 .. n |-> merged[k]]
      <3>1. merged = [k \in 1 .. Len(merged) |-> merged[k]]
        BY ONLY <1>1
      <3> QED
        BY Zenon, <1>9, <3>1
    <2> QED
      BY <1>6, <1>10, <2>1

\* Each step of the sort is one of QueryResult, or none.
LEMMA SortStepImplements ==
    ASSUME SortIInv, [SortStep]_sortVars
    PROVE  [SR!QRNext]_SR!qrVars
  <1>1. due' = due /\ UNCHANGED Given
    <2>1. due' = due /\ input' = input
      BY DEF SortStep, StartSort, Consume, ColumnOutOfRange, EndOfInput, Merge, StodThrows,
             ReadOutOfRange, EndOfRuns, CleanupRuns, sortVars, task
    <2> QED
      BY <2>1 DEF Given, NoSuchColumn, MayRaise
  <1>2. /\ due.promised <=> Missing(input) \/ Orderable(is_asc, input)
        /\ NoSuchColumn <=> Missing(input)
    BY Words DEF SortIInv, DueOf
  <1>3. CASE ~due.promised
    <2>1. SortMode' = SortMode /\ Produced' = Produced
      BY <1>1, <1>3 DEF SortMode, Produced
    <2> QED
      BY Zenon, <1>1, <2>1, ResultSteps
  <1>4. CASE due.promised /\ StartSort
    <2>1. SortMode = "closed" /\ SortMode' = "open" /\ Produced' = <<>>
      BY <1>1, <1>4 DEF SortMode, Produced, StartSort
    <2> QED
      BY Zenon, <1>1, <2>1, ResultSteps DEF SR!QRNext
  <1>5. CASE due.promised /\ (Consume \/ EndOfInput \/ UNCHANGED sortVars)
    <2>1. SortMode' = SortMode /\ Produced' = Produced
      BY <1>1, <1>5 DEF SortMode, Produced, Consume, EndOfInput, sortVars
    <2> QED
      BY Zenon, <1>1, <2>1, ResultSteps
  <1>6. CASE due.promised /\ ColumnOutOfRange
    <2>1. SortMode = "open" /\ NoSuchColumn /\ SortMode' = "failed" /\ Produced' = Produced
      BY <1>1, <1>6 DEF SortMode, Produced, ColumnOutOfRange, NoSuchColumn
    <2> QED
      BY Zenon, <1>1, <2>1, ResultSteps DEF SR!QRNext
  <1>7. CASE due.promised /\ Merge
    <2>1. pc = "merge" /\ pc' = "merge" /\ merged' = Append(merged, Head(runs[Best]))
      BY <1>7 DEF Merge
    <2>2. ~Missing(input) /\ Orderable(is_asc, input)
      BY <1>2, <1>7, <2>1, MergeStands
    <2>3. Len(merged) < Len(due.rows) /\ Head(runs[Best]) = due.rows[Len(merged) + 1]
      BY <1>7, <2>2, MergeMoves, RowsDue
    <2>4. SortMode = "open" /\ SortMode' = SortMode /\ Produced = merged /\ Produced' = merged'
      BY <1>1, <1>7, <2>1 DEF SortMode, Produced
    <2>5. /\ ~NoSuchColumn /\ Len(Produced) < Len(due.rows)
          /\ Produced' = Append(Produced, due.rows[Len(Produced) + 1])
      BY Zenon, <1>2, <2>1, <2>2, <2>3, <2>4
    <2> QED
      BY Zenon, <1>1, <2>4, <2>5, ResultSteps DEF SR!QRNext
  <1>8. CASE due.promised /\ ReadOutOfRange
    <2>1. pc \in {"consume", "merge"} /\ pc' = "undefined" /\ SortIInv'
      BY <1>8, KeptOutOfRange DEF ReadOutOfRange
    <2>2. input' = input /\ is_asc' = is_asc
      BY <1>8 DEF ReadOutOfRange, task
    <2>3. ~AllWhole(input) /\ ~Missing(input)
      BY <2>1, <2>2 DEF SortIInv, Failures, AllWhole, Missing
    <2> QED
      BY <1>2, <1>8, <2>3 DEF Orderable
  <1>9. CASE due.promised /\ EndOfRuns
    <2>1. pc = "merge" /\ pc' = "drained" /\ RunActive = {} /\ merged' = merged
      BY <1>9 DEF EndOfRuns
    <2>2. ~Missing(input) /\ Orderable(is_asc, input)
      BY <1>2, <1>9, <2>1, MergeStands
    <2>3. merged = due.rows
      BY <2>1, <2>2, AllReturned
    <2>4. SortMode = "open" /\ SortMode' = "ended" /\ Produced = merged /\ Produced' = Produced
      BY <1>1, <1>9, <2>1 DEF SortMode, Produced
    <2>5. ~NoSuchColumn /\ Produced = due.rows
      BY Zenon, <1>2, <2>2, <2>3, <2>4
    <2> QED
      BY Zenon, <1>1, <2>4, <2>5, ResultSteps DEF SR!QRNext
  <1>10. CASE due.promised /\ CleanupRuns
    <2>1. SortMode \in {"open", "ended"} /\ SortMode' = "closed" /\ Produced' = Produced
      BY <1>1, <1>10 DEF SortMode, Produced, CleanupRuns
    <2> QED
      BY Zenon, <1>1, <2>1, ResultSteps DEF SR!QRNext
  <1>11. CASE due.promised /\ StodThrows
    <2>1. pc \in {"consume", "merge"} /\ pc' = "raised" /\ merged' = merged
      BY <1>11 DEF StodThrows
    <2>2. SortMode = "open" /\ SortMode' = "failed" /\ Produced' = Produced
      BY <1>1, <1>11, <2>1 DEF SortMode, Produced
    <2>3. input' = input /\ SortIInv'
      BY <1>11, KeptRaised DEF StodThrows, task
    <2>4. ~Missing(input)
      BY <2>1, <2>3 DEF SortIInv, Failures, Missing
    <2>5. MayRaise(input, sort_col_idx)
      BY <1>2, <1>11, <2>4, RaiseKnown DEF Orderable
    <2> QED
      BY Zenon, <1>1, <2>2, <2>5, ResultSteps DEF SR!QRNext
  <1> QED
    BY Zenon, <1>3, <1>4, <1>5, <1>6, <1>7, <1>8, <1>9, <1>10, <1>11 DEF SortStep

\* The tuples come out in the order of the column, those that compare equal as the input had
\* them.
THEOREM SortsTheorem == SortSpec => SortsItsInput
  <1>1. SortInit => SR!QRInit
    BY ResultSteps DEF SortInit, SortMode, Produced
  <1>2. SortIInv /\ [SortStep]_sortVars => [SR!QRNext]_SR!qrVars
    BY SortStepImplements
  <1> QED
    BY <1>1, <1>2, SortInvariant, PTL DEF SortSpec, SortsItsInput, SR!QRSpec
=============================================================================
