SPECIFICATION RecoverySpec
CONSTANTS
    BTREE_ORDER = 2
    MaxPages = 7
    Load <- Load3
    Keys = {3, 4, 5}
    ValuesOf <- OwnValue
    NotFound = NotFound
    Rows = {0, 1, 2}
    FullWith = {0, 1, 2}
    Unwritten = Unwritten
    MaxCalls = 5
    MaxReopen = 1
INVARIANTS
    ReopenFindsContents
    CrashInventsNothing
    SettledKeysSurvive
CHECK_DEADLOCK FALSE
