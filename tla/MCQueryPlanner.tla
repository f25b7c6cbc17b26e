---------------------------- MODULE MCQueryPlanner ----------------------------
(***************************************************************************)
(* Three pages of up to two slots.  Statements over two columns; the       *)
(* second, in which a numeral may be out of double's range, is indexed as  *)
(* "edad", as the loader does, and is "nombre" to build_plan; the column   *)
(* salario is not there.  And plans with joins, as the tests have them.    *)
(***************************************************************************)
EXTENDS QueryPlanner

N(n) == Numeral(n, n)
Row(a, b) == <<N(a), N(b)>>
Huge == HugeNumeral(4, 99, 4)
MCContents ==
    {<<>>, <<Row(1, 2)>>, <<Deleted, <<N(2), Huge>>>>, <<Row(2, 3), Row(3, 2)>>}
MCTables == [1 .. 3 -> MCContents]

Scan(max) == [kind |-> "scan", in |-> <<>>, max |-> max]
IndexScan(key) == [kind |-> "index", in |-> <<>>, key |-> key]
Select(n, column, op, value) ==
    [kind |-> "select", in |-> <<n>>, where |-> [column |-> column, op |-> op, value |-> value]]
Project(n, columns) == [kind |-> "project", in |-> <<n>>, columns |-> columns]
Sort(n, column, asc) == [kind |-> "sort", in |-> <<n>>, column |-> column, asc |-> asc]
Join(n, m, on) == [kind |-> "join", in |-> <<n, m>>, on |-> on]

MCPlans == {
    << Scan(4), Select(1, 2, "=", N(2)), Sort(2, 1, FALSE), Project(3, <<2, 7>>) >>,
    << Scan(4), Scan(3), Join(1, 2, <<2, 2>>) >>,
    << Scan(3), Scan(4), Select(2, 1, ">", N(9)), Join(1, 3, <<1, 1>>) >>,
    << Scan(4), Select(1, 1, ">=", N(3)), Scan(2), Join(2, 3, <<2, 2>>), Sort(4, 4, TRUE),
       Project(5, <<1, 3>>) >>,
    << Scan(3), Sort(1, 2, TRUE), IndexScan(2), Join(2, 3, <<2, 2>>) >>,
    << Scan(4), IndexScan(3), Join(1, 2, <<1, 1>>) >>,
    << Scan(1), Scan(4), Join(1, 2, <<1, 1>>) >>,
    << Scan(2), Scan(2), Join(1, 2, <<2, 2>>), Scan(3), Join(3, 4, <<1, 1>>),
       Sort(5, 9, TRUE) >>,
    << Scan(4), Sort(1, 9, TRUE) >>,
    << Scan(4), Scan(2), Join(1, 2, <<1, 1>>), Scan(3), Sort(4, 9, TRUE),
       Join(3, 5, <<1, 1>>) >> }

Col(name) == [name |-> name, stoi |-> NotANumber]
MCColumns == {<<Col("*")>>, <<Col("nombre")>>, <<Col("foo"), [name |-> "7", stoi |-> 7], Col("1")>>}
Where(column, op, value) == <<[column |-> column, op |-> op, value |-> value]>>
MCWheres == {<<>>, Where("edad", "=", N(2)), Where("edad", "==", N(2)),
             Where("nombre", ">", N(2)), Where("edad", "=", Word(9)), Where("edad", "=", N(3))}
MCOrders == {<<[column |-> "id", is_asc |-> TRUE]>>, <<[column |-> "nombre", is_asc |-> FALSE]>>}
MCStatements ==
    [select_columns : MCColumns, where_clause : MCWheres, order_by : {<<>>}]
        \cup [select_columns : MCColumns, order_by : MCOrders,
              where_clause : {<<>>, Where("edad", "=", N(2)), Where("edad", "==", N(2))}]
        \cup [select_columns : {<<Col("*")>>}, where_clause : {<<>>},
              order_by : {<<[column |-> "salario", is_asc |-> TRUE]>>}]

ASSUME MCPlainKeys == PlainKeys
=============================================================================
