SPECIFICATION Spec
CONSTANTS
    BTREE_ORDER = 4
    MaxPages = 16
    Load <- Load17
    Keys = {9, 10, 11, 12, 13, 14, 15, 16, 17}
    ValuesOf <- OwnValue
    NotFound = NotFound
    Rows = {0}
    FullWith = {}
INVARIANTS
    MaxOccupancy
