CONSTANTS
    NotANumber = NotANumber
    Inputs <- MCInputs
    sort_col_idx = 1
    RunCapacity = 3
    MaxStreams = 3
SPECIFICATION SortSpec
INVARIANTS
    NothingLost
    ReadsOnlyFields
PROPERTY SortsItsInput
CHECK_DEADLOCK FALSE
