CONSTANTS
    Names = {"x"}
    Taken = {"x", "FROM", "WHERE", "ORDER", "DESC"}
    MaxColumns = 2
SPECIFICATION ParserSpec
INVARIANTS AcceptsTheGrammar StatementSaysTheText
CHECK_DEADLOCK FALSE
