SPECIFICATION PageSpec
CONSTANTS
    PageSize = 32
    HeaderSize = 12
    SlotSize = 4
    SLOT_DELETED = 65535
    MaxLength = 5
    a = a
    b = b
    Values = {a, b}
    HeaderByte = HeaderByte
    SlotByte = SlotByte
    ZeroByte = ZeroByte
    Deleted = Deleted
INVARIANTS
    LayoutSound
PROPERTIES
    ImplementsRecordTable
CHECK_DEADLOCK FALSE
