------------------------------ MODULE QueryPlan ------------------------------
(***************************************************************************)
(* The operators of a query as they run: a tree of Scan, IndexScan,        *)
(* Select, Sort, Project and Join, each with open, next and close, and a   *)
(* consumer that opens the root, asks for tuples and closes it.  stack is  *)
(* the stack of calls; an action is what the innermost call does up to its *)
(* next nested call, its return or, for Scan, its next page or slot.  The  *)
(* scans pin pages of the buffer pool, which no query changes, so that of  *)
(* the pool only the pins are kept.  Sort is modelled as what ExternalSort *)
(* is shown to compute.                                                    *)
(***************************************************************************)
EXTENDS Values

CONSTANTS
    Plans,          \* the operator trees: sequences of operators, inputs first, the root last
    Tables,         \* what the pages hold: the rows of each page in slot order
    Deleted,        \* a deleted slot
    KeyColumn,      \* the column an index was built on while the pages were loaded
    Shorts          \* how many frames the pool may lack of one for each scan and one for an index

ASSUME ShortsAssumption == Shorts \subseteq Nat

Arity(kind) == CASE kind \in {"scan", "index"} -> 0 [] kind = "join" -> 2 [] OTHER -> 1

\* A plan is a tree: each operator but the root is an input once, of one that comes later.
InputsFirst(q) ==
    \A k \in DOMAIN q :
        /\ q[k].kind \in {"scan", "index", "select", "project", "sort", "join"}
        /\ q[k].in \in Seq(1 .. k - 1) /\ Len(q[k].in) = Arity(q[k].kind)
EachUsed(q) ==
    \A m \in 1 .. Len(q) - 1 : \E k \in DOMAIN q : \E n \in DOMAIN q[k].in : q[k].in[n] = m
UsedOnce(q) ==
    \A k, l \in DOMAIN q : \A n \in DOMAIN q[k].in : \A m \in DOMAIN q[l].in :
        q[k].in[n] = q[l].in[m] => k = l /\ n = m
IsPlan(q) ==
    /\ q \in Seq(Range(q)) /\ q # <<>>
    /\ InputsFirst(q) /\ EachUsed(q) /\ UsedOnce(q)

\* The pages a scan is told to read exist.
ScansTable(q, t) == \A k \in DOMAIN q : q[k].kind = "scan" => q[k].max \in 1 .. Len(t) + 1

ASSUME PlansAssumption == \A q \in Plans : IsPlan(q) /\ \A t \in Tables : ScansTable(q, t)
ASSUME TablesAssumption ==
    \A t \in Tables : t \in Seq(Range(t)) /\ \A p \in DOMAIN t : t[p] \in Seq(Range(t[p]))

VARIABLES
    plan, table, short,
    state,          \* the members of each operator
    opened,         \* history: whether each was opened and not closed since
    pins,           \* pin_count of each page
    stack,          \* calls in progress: operator, method and how far it is
    ret,            \* what the last call returned
    phase,          \* where the consumer is
    out,            \* history: the tuples it got since it last opened the plan
    goal            \* history: the rows of the plan, and whether a sort must or may fail

given == <<plan, table, short, goal>>
vars == <<given, state, opened, pins, stack, ret, phase, out>>

Nothing == [ok |-> FALSE, values |-> <<>>]
Got(values) == [ok |-> TRUE, values |-> values]
Pages == DOMAIN table
OfKind(kind) == {k \in DOMAIN plan : plan[k].kind = kind}
Scans == OfKind("scan")
PoolSize == Cardinality(Scans) + (IF OfKind("index") = {} THEN 0 ELSE 1) - short

-----------------------------------------------------------------------------
(* What each operator makes of the rows of its inputs *)

\* The elements of s that pass a test, in order.
Filtered(s, Test(_)) == FlattenSeq([n \in DOMAIN s |-> IF Test(s[n]) THEN <<s[n]>> ELSE <<>>])

\* Every page read is a data page: the nodes of an index in the same file are not modelled.
LiveRows(s) == Filtered(s, LAMBDA t : t # Deleted)
RowsBefore(max) == FlattenSeq([p \in 1 .. max - 1 |-> LiveRows(table[p])])
Hits(key) == Filtered(RowsBefore(Len(table) + 1), LAMBDA t : t[KeyColumn].stoi = key)

\* an index that keeps the row first loaded (a mistake)
FoundFirst(key) == LET hits == Hits(key) IN IF hits = <<>> THEN <<>> ELSE <<Head(hits)>>

\* What an index built by the loader names for a key: the row loaded last with it.
Found(key) == LET hits == Hits(key) IN IF hits = <<>> THEN <<>> ELSE <<Last(hits)>>

Satisfies(t, where) ==
    where.column \in DOMAIN t /\ Holds(where.op, t[where.column], where.value)
Selected(rows, where) == Filtered(rows, LAMBDA t : Satisfies(t, where))

\* The columns that exist.
Projected(t, columns) ==
    LET kept == SelectSeq(columns, LAMBDA c : c \in DOMAIN t)
    IN [n \in DOMAIN kept |-> t[kept[n]]]

ProjectedRows(rows, columns) == [n \in DOMAIN rows |-> Projected(rows[n], columns)]

\* What a join makes of one left row, and of all of them.
Joined(l, r, on) == on[1] \in DOMAIN l /\ on[2] \in DOMAIN r /\ l[on[1]] = r[on[2]]
Pairs(l, right, on) ==
    FlattenSeq([n \in DOMAIN right |-> IF Joined(l, right[n], on) THEN <<l \o right[n]>> ELSE <<>>])
JoinedRows(left, right, on) == FlattenSeq([n \in DOMAIN left |-> Pairs(left[n], right, on)])

InOrder(rows, column, asc) ==
    LET Less(a, b) == IF asc THEN LessThan(a[column], b[column]) ELSE LessThan(b[column], a[column])
        sorted == [s \in {rows} |-> StablySorted(s, Less)]  \* TLC evaluates rows once
    IN sorted[rows]

\* The rows of each operator of the plan, by what the operator is for.
Unsortable(rows, column) == rows # <<>> /\ column \notin DOMAIN Head(rows)
Rows ==
    LET rows[k \in DOMAIN plan] ==
          LET op == plan[k]
              first == rows[op.in[1]]
          IN CASE op.kind = "scan" -> RowsBefore(op.max)
               [] op.kind = "index" -> Found(op.key)
               [] op.kind = "select" -> Selected(first, op.where)
               [] op.kind = "project" -> ProjectedRows(first, op.columns)
               [] op.kind = "sort" -> IF Unsortable(first, op.column) THEN <<>>
                                      ELSE InOrder(first, op.column, op.asc)
               [] op.kind = "join" -> JoinedRows(first, rows[op.in[2]], op.on)
    IN rows

\* The members open sets.
ScanStart == [page |-> 1, slot |-> 1, holds |-> FALSE]
Initial(kind) ==
    CASE kind = "scan" -> ScanStart
      [] kind = "index" -> [executed |-> FALSE]
      [] kind = "join" -> [leftValid |-> FALSE, rightValid |-> FALSE, left |-> <<>>, right |-> <<>>]
      [] kind = "sort" -> [rows |-> <<>>]
      [] OTHER -> [none |-> TRUE]

Ready ==
    /\ short \in Shorts
    /\ PoolSize > 0
    /\ state = [k \in DOMAIN plan |-> Initial(plan[k].kind)]
    /\ opened = [k \in DOMAIN plan |-> FALSE]
    /\ pins = [p \in Pages |-> 0]
    /\ stack = <<>> /\ ret = Nothing
    /\ phase = "closed" /\ out = <<>>
    /\ goal = [rows |-> Rows[Len(plan)],
               fails |-> \E k \in OfKind("sort") : Unsortable(Rows[plan[k].in[1]], plan[k].column),
               mayFail |-> \E k \in OfKind("sort") : \E rows \in {Rows[plan[k].in[1]], Rows[k]} :
                              MayRaise(rows, plan[k].column)]

Init == plan \in Plans /\ table \in Tables /\ Ready

-----------------------------------------------------------------------------
(* Calls *)

Frame == Last(stack)
Self == Frame.op
Op == plan[Self]
My == state[Self]
Consumer == <<given, phase, out>>

Running(kind, call, at) ==
    stack # <<>> /\ Op.kind = kind /\ Frame.call = call /\ Frame.at = at

Become(members) == state' = [state EXCEPT ![Self] = members]
At(at, built) == [op |-> Self, call |-> Frame.call, at |-> at, out |-> built]
Entered(o, call) == [op |-> o, call |-> call, at |-> "start", out |-> <<>>]

\* Return r; call a method of input n and go on at a place of this method; go on at once.
Leave(r, members) ==
    /\ stack' = Front(stack) /\ ret' = r /\ Become(members)
    /\ opened' = [opened EXCEPT ![Self] = Frame.call # "close"]
    /\ UNCHANGED Consumer
Return(r, members) == Leave(r, members) /\ UNCHANGED pins
CallThen(n, call, at, built, members) ==
    /\ stack' = Append([stack EXCEPT ![Len(stack)] = At(at, built)], Entered(Op.in[n], call))
    /\ Become(members)
    /\ UNCHANGED <<opened, pins, ret, Consumer>>
Call(n, call, at) == CallThen(n, call, at, <<>>, My)
Continue(at, members) ==
    /\ stack' = [stack EXCEPT ![Len(stack)] = At(at, Frame.out)] /\ Become(members)
    /\ UNCHANGED <<opened, pins, ret, Consumer>>

\* The query ends where it is: a null page is used, or an exception leaves every call.
Abort(end) ==
    /\ stack' = <<>> /\ phase' = end
    /\ UNCHANGED <<given, state, opened, pins, ret, out>>

-----------------------------------------------------------------------------
(* Scan *)

\* fetchPage finds the page in a pinned frame, or some frame is not pinned.
FrameFree == Cardinality({p \in Pages : pins[p] > 0}) < PoolSize
CanFetch(p) == pins[p] > 0 \/ FrameFree

\* unpinPage; a frame nobody has pinned stays as it is
Unpin(p) == pins' = [pins EXCEPT ![p] = IF @ > 0 THEN @ - 1 ELSE 0]

ScanOpen == Running("scan", "open", "start") /\ Return(Nothing, ScanStart)

\* currentPage_ keeps its value: a second close would unpin once more.
ScanClose ==
    /\ Running("scan", "close", "start")
    /\ IF My.holds THEN Unpin(My.page) ELSE UNCHANGED pins
    /\ Leave(Nothing, My)

ScanNext == Running("scan", "next", "start") /\ My.page < Op.max
SlotsLeft == My.slot <= Len(table[My.page])

ScanFetch ==
    /\ ScanNext /\ ~My.holds /\ CanFetch(My.page)
    /\ pins' = [pins EXCEPT ![My.page] = @ + 1]
    /\ Become([My EXCEPT !.holds = TRUE])
    /\ UNCHANGED <<opened, stack, ret, Consumer>>

ScanFetchNull == ScanNext /\ ~My.holds /\ ~CanFetch(My.page) /\ Abort("halted")

ScanSlot ==
    /\ ScanNext /\ My.holds /\ SlotsLeft
    /\ LET row == table[My.page][My.slot]
           after == [My EXCEPT !.slot = @ + 1]
       IN IF row = Deleted THEN Continue("start", after) ELSE Return(Got(row), after)

\* the page is left without an unpin (a mistake)
ScanPageDoneKeeps ==
    /\ ScanNext /\ My.holds /\ ~SlotsLeft
    /\ Continue("start", [page |-> My.page + 1, slot |-> 1, holds |-> FALSE])

ScanPageDone ==
    /\ ScanNext /\ My.holds /\ ~SlotsLeft
    /\ Unpin(My.page)
    /\ Become([page |-> My.page + 1, slot |-> 1, holds |-> FALSE])
    /\ UNCHANGED <<opened, stack, ret, Consumer>>

ScanEnd ==
    Running("scan", "next", "start") /\ My.page >= Op.max /\ Return(Nothing, My)

-----------------------------------------------------------------------------
(* IndexScan: search, fetch, read and unpin within one call, once *)

IndexOpen == Running("index", "open", "start") /\ Return(Nothing, [executed |-> FALSE])
IndexClose == Running("index", "close", "start") /\ Return(Nothing, My)

IndexNext ==
    /\ Running("index", "next", "start")
    /\ My.executed \/ FrameFree
    /\ Return(IF My.executed \/ Found(Op.key) = <<>> THEN Nothing ELSE Got(Found(Op.key)[1]),
              [executed |-> TRUE])

\* Each frame is pinned: the tree cannot load its root.
IndexNextThrows ==
    /\ Running("index", "next", "start") /\ ~My.executed /\ ~FrameFree
    /\ Abort("halted")

-----------------------------------------------------------------------------
(* Select, Project and Join hand open and close on to their inputs, in order *)

PassesOn(at) ==
    /\ stack # <<>> /\ Frame.at = at
    /\ Op.kind \in {"select", "project", "join"} /\ Frame.call \in {"open", "close"}

PassFirst == PassesOn("start") /\ Call(1, Frame.call, "first")
PassSecond == PassesOn("first") /\ Op.kind = "join" /\ Call(2, Frame.call, "second")
Passed ==
    /\ \/ PassesOn("first") /\ Op.kind # "join"
       \/ PassesOn("second") /\ Frame.call = "close"
    /\ Return(Nothing, My)

Ask == (Running("select", "next", "start") \/ Running("project", "next", "start"))
       /\ Call(1, "next", "asked")

SelectNext ==
    /\ Running("select", "next", "asked")
    /\ IF ret.ok /\ ~Satisfies(ret.values, Op.where) THEN Call(1, "next", "asked")
       ELSE Return(ret, My)

ProjectNext ==
    /\ Running("project", "next", "asked")
    /\ Return(IF ret.ok THEN Got(Projected(ret.values, Op.columns)) ELSE Nothing, My)

-----------------------------------------------------------------------------
(* Join: a nested loop that opens its right input again for each left tuple *)

\* A side keeps its old tuple when its next has none.
LeftFrom(r) == [My EXCEPT !.leftValid = r.ok, !.rightValid = FALSE,
                          !.left = IF r.ok THEN r.values ELSE @]
RightFrom(r) == [My EXCEPT !.rightValid = r.ok, !.right = IF r.ok THEN r.values ELSE @]

JoinOpen == Running("join", "open", "second") /\ Call(1, "next", "primed")
JoinOpened == Running("join", "open", "primed") /\ Return(Nothing, LeftFrom(ret))

JoinEnd == Running("join", "next", "start") /\ ~My.leftValid /\ Return(Nothing, My)
JoinAsk ==
    /\ Running("join", "next", "start") /\ My.leftValid
    /\ IF My.rightValid THEN Continue("match", My) ELSE Call(2, "next", "right")
JoinGotRight == Running("join", "next", "right") /\ Continue("match", RightFrom(ret))

\* A tuple is built, and the right side advanced before it is returned.
JoinMatch ==
    /\ Running("join", "next", "match") /\ My.rightValid
    /\ IF Joined(My.left, My.right, Op.on)
       THEN CallThen(2, "next", "emit", My.left \o My.right, My)
       ELSE Call(2, "next", "right")

\* the right tuple read after a match is dropped (a mistake)
JoinEmitSkips ==
    /\ Running("join", "next", "emit")
    /\ Return(Got(Frame.out), [RightFrom(ret) EXCEPT !.rightValid = FALSE])

JoinEmit == Running("join", "next", "emit") /\ Return(Got(Frame.out), RightFrom(ret))

JoinRightDone ==
    Running("join", "next", "match") /\ ~My.rightValid /\ Call(2, "close", "closed")
JoinReopen == Running("join", "next", "closed") /\ Call(2, "open", "reopened")
JoinAdvance == Running("join", "next", "reopened") /\ Call(1, "next", "left")

\* leftValid_ not taken from left_->next (a mistake)
JoinGotLeftAlways ==
    /\ Running("join", "next", "left")
    /\ Continue("start", [LeftFrom(ret) EXCEPT !.leftValid = TRUE])

JoinGotLeft == Running("join", "next", "left") /\ Continue("start", LeftFrom(ret))

-----------------------------------------------------------------------------
(* Sort: open empties its input and closes it; next hands out the rows *)

SortOpen ==
    Running("sort", "open", "start") /\ CallThen(1, "open", "consume", <<>>, [rows |-> <<>>])
SortConsume == Running("sort", "open", "consume") /\ Call(1, "next", "got")

NoColumn == My.rows = <<>> /\ Op.column \notin DOMAIN ret.values

SortKeep ==
    /\ Running("sort", "open", "got") /\ ret.ok /\ ~NoColumn
    /\ Continue("consume", [rows |-> Append(My.rows, ret.values)])

\* the input is not closed before the exception (a mistake)
SortCloseInputUnlessThrows ==
    /\ Running("sort", "open", "got") /\ (ret.ok => NoColumn)
    /\ IF ret.ok THEN Continue("throw", My) ELSE Call(1, "close", "sort")

SortCloseInput ==
    /\ Running("sort", "open", "got") /\ (ret.ok => NoColumn)
    /\ Call(1, "close", IF ret.ok THEN "throw" ELSE "sort")

SortThrow == Running("sort", "open", "throw") /\ Abort("failed")
SortOpened ==
    /\ Running("sort", "open", "sort")
    /\ Return(Nothing, [rows |-> InOrder(My.rows, Op.column, Op.asc)])

\* lessThan throws: in flushRun, for a full block or the last one, while the input is open and
\* a scan may hold its page; or in next, for two runs.
SortRaises ==
    /\ \/ /\ Running("sort", "open", "got") /\ (ret.ok => ~NoColumn)
          /\ MayRaise(IF ret.ok THEN Append(My.rows, ret.values) ELSE My.rows, Op.column)
       \/ Running("sort", "next", "start") /\ MayRaise(My.rows, Op.column)
    /\ Abort("raised")

\* A row was compared with the one that comes after it.
SortNext ==
    /\ Running("sort", "next", "start")
    /\ ~RaisesAt(My.rows, Op.column, 1, 2)
    /\ IF My.rows = <<>> THEN Return(Nothing, My)
       ELSE Return(Got(Head(My.rows)), [rows |-> Tail(My.rows)])
SortClose == Running("sort", "close", "start") /\ Return(Nothing, [rows |-> <<>>])

-----------------------------------------------------------------------------
(* The consumer: open, while next, close; it may stop early, ask once more at the end *)
(* and open the plan again.                                                           *)

Enter(call, from, to) ==
    /\ stack = <<>> /\ phase \in from
    /\ stack' = <<Entered(Len(plan), call)>>
    /\ phase' = to
    /\ UNCHANGED <<given, state, opened, pins, ret>>

Proceed(from, to) ==
    /\ stack = <<>> /\ phase \in from
    /\ phase' = to
    /\ UNCHANGED <<given, state, opened, pins, stack, ret>>

Open == Enter("open", {"closed"}, "opening") /\ out' = <<>>
Opened == Proceed({"opening"}, "open") /\ UNCHANGED out
AskNext == Enter("next", {"open"}, "asking") /\ UNCHANGED out
Answered == Proceed({"asking", "again"}, "open") /\ ret.ok /\ out' = Append(out, ret.values)
Ended == Proceed({"asking"}, "ended") /\ ~ret.ok /\ UNCHANGED out
AskAgain == Enter("next", {"ended"}, "again") /\ UNCHANGED out
EndedAgain == Proceed({"again"}, "drained") /\ ~ret.ok /\ UNCHANGED out
Close == Enter("close", {"open", "ended", "drained"}, "closing") /\ UNCHANGED out
Closed == Proceed({"closing"}, "closed") /\ UNCHANGED out

OperatorStep ==
    \/ ScanOpen \/ ScanClose \/ ScanFetch \/ ScanFetchNull \/ ScanSlot \/ ScanPageDone \/ ScanEnd
    \/ IndexOpen \/ IndexNext \/ IndexNextThrows \/ IndexClose
    \/ PassFirst \/ PassSecond \/ Passed
    \/ Ask \/ SelectNext \/ ProjectNext
    \/ JoinOpen \/ JoinOpened \/ JoinEnd \/ JoinAsk \/ JoinGotRight \/ JoinMatch \/ JoinEmit
    \/ JoinRightDone \/ JoinReopen \/ JoinAdvance \/ JoinGotLeft
    \/ SortOpen \/ SortConsume \/ SortKeep \/ SortCloseInput \/ SortThrow \/ SortOpened
    \/ SortRaises \/ SortNext \/ SortClose

Loop == Opened \/ AskNext \/ Answered \/ Ended \/ EndedAgain \/ Closed

Next == Open \/ Loop \/ AskAgain \/ Close \/ OperatorStep

\* One thread runs the operators, the loop of the consumer and the close after it.
Fairness ==
    /\ WF_vars(OperatorStep) /\ WF_vars(Loop)
    /\ WF_vars(Close /\ phase = "drained") /\ WF_vars((Close \/ AskAgain) /\ phase = "ended")

Spec == Init /\ [][Next]_vars /\ Fairness

-----------------------------------------------------------------------------
(* Properties *)

\* A page is pinned once for each open scan that is in the middle of it: closing or opening
\* again one side of a join, where both sides read the same pages, neither drops a pin of
\* the other nor leaves one behind.
PinsHeldByScans ==
    \A p \in Pages :
        pins[p] = Cardinality({k \in Scans : opened[k] /\ state[k].holds /\ state[k].page = p})

\* A query that ends drained, stopped early or by the exception of a sort that finds no column
\* leaves no pin.  Not so for such a sort under a join: it may fail when the left side of a join
\* is primed already, and nobody closes that side.  Nor for the exception of lessThan, which
\* leaves SortOperator::open before it closes its input: the page a scan is in stays pinned.
SortUnderJoin == \E k \in OfKind("sort"), m \in OfKind("join") : k < m
EndsWithoutPins ==
    phase = "closed" \/ (phase = "failed" /\ ~SortUnderJoin) => \A p \in Pages : pins[p] = 0

\* As many frames as scans, and one more for an index, are enough: no operator is ever given
\* the null page that ScanOperator::next would use.
NeverOutOfFrames == short = 0 => phase # "halted"

\* Every query that is opened comes to its end and is closed, or fails: no operator loops for
\* ever, and the inner side of a join is not read again without end.
QueriesEnd == phase = "opening" /\ short = 0 ~> phase \in {"closed", "failed", "raised"}

\* The tuples the consumer gets are the rows of the plan, in order, each once, and again from
\* the start when it opens the plan again; asked after the end, it still has no more.  The query
\* is left by an exception only if a sort finds no column or values that cannot be compared.
Mode == CASE phase \in {"opening", "asking"} -> "open"
          [] phase \in {"again", "drained"} -> "ended"
          [] phase \in {"closing", "halted"} -> "closed"
          [] phase = "raised" -> "failed"
          [] OTHER -> phase
QR == INSTANCE QueryResult WITH
    result <- goal.rows, fails <- goal.fails, mayFail <- goal.mayFail,
    mode <- Mode, produced <- out
ImplementsQueryResult == QR!QRSpec
=============================================================================
