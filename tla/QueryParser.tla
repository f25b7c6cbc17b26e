----------------------------- MODULE QueryParser -----------------------------
(***************************************************************************)
(* QueryParser::parse: it reads the tokens of a query from left to right,  *)
(* never goes back, and throws at the first one that does not fit.  The    *)
(* tokens are chosen as they are read.  tokenize splits at white space and *)
(* at , ; ( and ), which leave no token behind; to_upper makes keywords    *)
(* equal in any case.  A keyword is a name where a name is expected.       *)
(***************************************************************************)
EXTENDS Integers, SequencesExt

CONSTANTS
    Names,          \* tokens that are no keywords
    Taken,          \* tokens offered where any token is taken as a name
    MaxColumns      \* columns listed (bound)

Keywords == {"SELECT", "FROM", "WHERE", "ORDER", "BY", "ASC", "DESC"}
Tokens == Names \cup Keywords
ASSUME NamesAssumption == Names # {} /\ Names \cap Keywords = {}
ASSUME TakenAssumption == Taken \subseteq Tokens

VARIABLES
    tokens,         \* those read so far
    at,             \* where in the statement index stands, "accepted", "truncated", "error"
    stmt            \* the QueryStatement so far

parserVars == <<tokens, at, stmt>>

Empty == [select_columns |-> <<>>, from_table |-> <<>>, where_clause |-> <<>>, order_by |-> <<>>]

ParserInit == tokens = <<>> /\ at = "start" /\ stmt = Empty

-----------------------------------------------------------------------------
\* Read one of the tokens and go on, with the statement s.
Read(t, here, there, s) ==
    /\ at = here
    /\ tokens' = Append(tokens, t)
    /\ at' = there
    /\ stmt' = s

With(field, t) == [stmt EXCEPT ![field] = Append(@, t)]

\* parse_select
Select == Read("SELECT", "start", "columns", stmt)
Column ==
    \E t \in Taken \ {"FROM"} :
        /\ Len(stmt.select_columns) < MaxColumns
        /\ Read(t, "columns", "columns", With("select_columns", t))

\* parse_from; and without the look at the columns (a mistake)
FromAnyColumns == Read("FROM", "columns", "table", stmt)
From == stmt.select_columns # <<>> /\ Read("FROM", "columns", "table", stmt)
Table == \E t \in Taken : Read(t, "table", "from read", With("from_table", t))

\* parse_where: three tokens of any kind
Where == Read("WHERE", "from read", "where", stmt)
Condition ==
    \E t \in Taken :
        Read(t, "where", IF Len(stmt.where_clause) = 2 THEN "where read" ELSE "where",
             With("where_clause", t))

\* parse_order_by; order_by is the column and the direction
Order == \E here \in {"from read", "where read"} : Read("ORDER", here, "order", stmt)
By == Read("BY", "order", "by", stmt)
OrderColumn == \E t \in Taken : Read(t, "by", "order read", [stmt EXCEPT !.order_by = <<t, "ASC">>])
\* a direction that is read and forgotten (a mistake)
DirectionLost == \E t \in {"ASC", "DESC"} : Read(t, "order read", "read", stmt)
Direction ==
    \E t \in {"ASC", "DESC"} : Read(t, "order read", "read", [stmt EXCEPT !.order_by[2] = t])

\* The query ends here.
Complete == {"from read", "where read", "order read", "read"}
Accept ==
    /\ at \in Complete
    /\ at' = "accepted"
    /\ UNCHANGED <<tokens, stmt>>

\* What each place can go on with; anything else is a syntax error, and so is the end of
\* the query before it is complete.
Expected ==
    CASE at = "start" -> {"SELECT"}
      [] at = "columns" -> IF stmt.select_columns = <<>> THEN Tokens \ {"FROM"} ELSE Tokens
      [] at = "from read" -> {"WHERE", "ORDER"}
      [] at = "where read" -> {"ORDER"}
      [] at = "order" -> {"BY"}
      [] at = "order read" -> {"ASC", "DESC"}
      [] at = "read" -> {}
      [] OTHER -> Tokens

Unexpected ==
    /\ at \notin {"accepted", "truncated", "error"}
    /\ \E t \in Tokens \ Expected : Read(t, at, "error", stmt)

Truncated ==
    /\ at \notin Complete \cup {"accepted", "truncated", "error"}
    /\ at' = "truncated"
    /\ UNCHANGED <<tokens, stmt>>

ParserNext ==
    \/ Select \/ Column \/ From \/ Table \/ Where \/ Condition
    \/ Order \/ By \/ OrderColumn \/ Direction \/ Accept \/ Unexpected \/ Truncated

ParserSpec == ParserInit /\ [][ParserNext]_parserVars

-----------------------------------------------------------------------------
(* Properties *)

\* A query is SELECT columns FROM table, then WHERE column op value if w = 4, then ORDER BY
\* column if o = 3, with a direction if o = 4; only FROM cannot be a column.
Matches(s, w, o) ==
    LET f == Len(s) - 1 - w - o IN      \* where FROM stands
    /\ f > 2
    /\ s[1] = "SELECT" /\ s[f] = "FROM" /\ \A k \in 2 .. f - 1 : s[k] # "FROM"
    /\ w = 4 => s[f + 2] = "WHERE"
    /\ o > 0 => s[f + 2 + w] = "ORDER" /\ s[f + 3 + w] = "BY"
    /\ o = 4 => Last(s) \in {"ASC", "DESC"}
IsQuery(s) == \E w \in {0, 4}, o \in {0, 3, 4} : Matches(s, w, o)

\* Some way to go on makes s a query.
Name == CHOOSE n \in Names : TRUE
Endings == {<<>>, <<Name>>, <<Name, Name>>, <<Name, Name, Name>>, <<"BY", Name>>,
            <<"FROM", Name>>, <<Name, "FROM", Name>>, <<"SELECT", Name, "FROM", Name>>}
Viable(s) == \E w \in Endings : IsQuery(s \o w)

\* The parser accepts the queries of this grammar and no other text, and gives up on a text
\* at the first token after which no query is possible, keywords used as names included.
AcceptsTheGrammar ==
    /\ at = "accepted" => IsQuery(tokens)
    /\ at = "truncated" => ~IsQuery(tokens)
    /\ at = "error" <=> ~Viable(tokens)

\* A statement says what its text says, no token of it overlooked and none made up.
StatementSaysTheText ==
    at = "accepted" =>
        LET text == <<"SELECT">> \o stmt.select_columns \o <<"FROM">> \o stmt.from_table
                    \o (IF stmt.where_clause = <<>> THEN <<>> ELSE <<"WHERE">> \o stmt.where_clause)
                    \o (IF stmt.order_by = <<>> THEN <<>> ELSE <<"ORDER", "BY">> \o stmt.order_by)
        IN tokens = text \/ (stmt.order_by # <<>> /\ Last(text) = "ASC" /\ tokens = Front(text))
=============================================================================
