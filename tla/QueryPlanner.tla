----------------------------- MODULE QueryPlanner -----------------------------
(***************************************************************************)
(* From a statement to its answer: QueryOptimizer::chooseAccessPath picks  *)
(* the index or a scan, QueryParser::build_plan puts Select, Sort and      *)
(* Project on top, and QueryPlan runs the plan.  Columns of the plan are   *)
(* counted from 1.                                                         *)
(***************************************************************************)
EXTENDS QueryPlan

CONSTANTS
    Statements,     \* where_clause and order_by are <<>> or one record
    Indexed         \* the column names registered with the optimizer

VARIABLE stmt       \* what the plan was built from; <<>> for a plan built by hand

planner == <<vars, stmt>>

IsSelectAll(s) == Len(s.select_columns) = 1 /\ s.select_columns[1].name = "*"

\* The column a name of WHERE or ORDER BY stands for; a name it does not know is column 0.
ColumnIndex(name) ==
    CASE name \in {"nombre", "1"} -> 2 [] name \in {"salario", "2"} -> 3 [] OTHER -> 1

\* Of SELECT; a name it does not know is taken for a number, and for column 0 if it is none.
ProjIndex(col) ==
    IF col.name \in {"id", "0", "nombre", "1", "salario", "2"} THEN ColumnIndex(col.name)
    ELSE IF col.stoi # NotANumber THEN col.stoi + 1 ELSE 1

UsesIndex(s) ==
    s.where_clause # <<>> /\ s.where_clause[1].op = "=" /\ s.where_clause[1].column \in Indexed
        /\ s.where_clause[1].value.stoi # NotANumber

ChooseAccessPath(s, max) ==
    IF UsesIndex(s) THEN [kind |-> "index", in |-> <<>>, key |-> s.where_clause[1].value.stoi]
    ELSE [kind |-> "scan", in |-> <<>>, max |-> max]

SelectOp(n, s) ==
    [kind |-> "select", in |-> <<n>>,
     where |-> [column |-> ColumnIndex(s.where_clause[1].column), op |-> s.where_clause[1].op,
                value |-> s.where_clause[1].value]]
SortOp(n, s) ==
    [kind |-> "sort", in |-> <<n>>, column |-> ColumnIndex(s.order_by[1].column),
     asc |-> s.order_by[1].is_asc]
ProjectOp(n, s) ==
    [kind |-> "project", in |-> <<n>>,
     columns |-> [k \in DOMAIN s.select_columns |-> ProjIndex(s.select_columns[k])]]

\* the columns are projected away before the rows are sorted (a mistake)
BuildPlanSortsLast(s, access) ==
    LET p1 == <<access>>
        p2 == IF s.where_clause = <<>> \/ UsesIndex(s) THEN p1 ELSE Append(p1, SelectOp(Len(p1), s))
        p3 == IF IsSelectAll(s) THEN p2 ELSE Append(p2, ProjectOp(Len(p2), s))
    IN IF s.order_by = <<>> THEN p3 ELSE Append(p3, SortOp(Len(p3), s))

\* build_plan, with where_already_applied as the optimizer says
BuildPlan(s, access) ==
    LET p1 == <<access>>
        p2 == IF s.where_clause = <<>> \/ UsesIndex(s) THEN p1 ELSE Append(p1, SelectOp(Len(p1), s))
        p3 == IF s.order_by = <<>> THEN p2 ELSE Append(p2, SortOp(Len(p2), s))
    IN IF IsSelectAll(s) THEN p3 ELSE Append(p3, ProjectOp(Len(p3), s))

PlannerInit ==
    /\ table \in Tables
    /\ \/ stmt = <<>> /\ plan \in Plans
       \/ \E s \in Statements :
              stmt = <<s>> /\ plan = BuildPlan(s, ChooseAccessPath(s, Len(table) + 1))
    /\ Ready

PlannerSpec == PlannerInit /\ [][Next /\ UNCHANGED stmt]_planner /\ Fairness

-----------------------------------------------------------------------------
(* Properties *)

\* What a statement asks for: the rows that satisfy WHERE, in the order of ORDER BY on the
\* whole rows and otherwise as they were loaded, and of each the columns of SELECT.
Matching(s) ==
    LET loaded == RowsBefore(Len(table) + 1)
    IN IF s.where_clause = <<>> THEN loaded ELSE Selected(loaded, SelectOp(1, s).where)
Answer(s, rows) ==
    LET sorted == IF s.order_by = <<>> THEN rows
                  ELSE InOrder(rows, SortOp(1, s).column, s.order_by[1].is_asc)
    IN IF IsSelectAll(s) THEN sorted ELSE ProjectedRows(sorted, ProjectOp(1, s).columns)
StatementEnded(s) == stmt = <<s>> /\ phase = "ended"

\* Without an index, the answer is what the statement asks for.
ScanAnswersStatement ==
    \A s \in Statements : StatementEnded(s) /\ ~UsesIndex(s) => out = Answer(s, Matching(s))

\* With one, and a plain number to compare with, the answer is the row loaded last of those
\* that have that number in the column the index was built on, which is what
\* test_query_optimizer.cpp expects of the index on "edad".  It is not what the same statement
\* gives by a scan: there build_plan takes a name it does not know, "edad", for column 0.
KeyedRows(s) ==
    Selected(RowsBefore(Len(table) + 1),
             [column |-> KeyColumn, op |-> "=", value |-> s.where_clause[1].value])
IndexAnswersLast ==
    \A s \in Statements :
        StatementEnded(s) /\ UsesIndex(s) /\ s.where_clause[1].value.num # NotANumber =>
            LET rows == KeyedRows(s)
            IN out = Answer(s, IF rows = <<>> THEN <<>> ELSE <<Last(rows)>>)

\* Where a value of the column the index was built on is the text asked for just if it converts
\* to the number asked for, as numerals do ("07" is 7 to the index and another text to WHERE).
PlainKeys ==
    \A s \in Statements : UsesIndex(s) /\ s.where_clause[1].value.num # NotANumber =>
        LET value == s.where_clause[1].value
        IN \A t \in Tables : \A p \in DOMAIN t : \A n \in DOMAIN t[p] : t[p][n] # Deleted =>
               /\ KeyColumn \in DOMAIN t[p][n]
               /\ t[p][n][KeyColumn].text = value.text
                      <=> t[p][n][KeyColumn].stoi = value.stoi
=============================================================================
