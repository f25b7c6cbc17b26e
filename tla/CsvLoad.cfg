SPECIFICATION Spec
CONSTANTS
    Lines <- MCLines
    Throws = Throws
    NoField = NoField
    Room = 10
    SlotSize = 2
    MinKeyed = 2
    RidBase = 3
    LengthBase = 16
    PoolSize = 2
    MaxPages = 5
    MaxRows = 5
INVARIANTS
    TypeOK
    RowsStored
    IndexNamesRows
    NullPageOnlyAfterThrows
    IndexedRowsReadable
CHECK_DEADLOCK FALSE
