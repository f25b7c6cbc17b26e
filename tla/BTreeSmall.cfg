SPECIFICATION Spec
CONSTANTS
    BTREE_ORDER = 2
    MaxPages = 9
    Load <- NoLoad
    Keys = {1, 2, 3, 4, 5, 6}
    ValuesOf <- OwnValue
    NotFound = NotFound
    Rows = {0, 3}
    FullWith = {3}
INVARIANTS
    SearchFindsContents
    LeafChain
    NodesWellFormed
    MinOccupancy
CONSTRAINT UpToFailure
