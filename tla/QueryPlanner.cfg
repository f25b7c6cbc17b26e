CONSTANTS
    NotANumber = NotANumber
    Deleted = Deleted
    Shorts = {0, 1}
    KeyColumn = 2
    Indexed = {"edad"}
    Tables <- MCTables
    Plans <- MCPlans
    Statements <- MCStatements
SPECIFICATION PlannerSpec
INVARIANTS
    PinsHeldByScans
    EndsWithoutPins
    NeverOutOfFrames
    ScanAnswersStatement
    IndexAnswersLast
PROPERTIES
    ImplementsQueryResult
    QueriesEnd
CHECK_DEADLOCK FALSE
