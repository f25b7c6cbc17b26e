SPECIFICATION Spec
CONSTANTS
    BTREE_ORDER = 4
    MaxPages = 8
    Load <- NoLoad
    Keys <- AroundZero
    ValuesOf <- OwnValue
    NotFound = NotFound
    Rows = {0}
    FullWith = {}
INVARIANTS
    SearchFindsContents
