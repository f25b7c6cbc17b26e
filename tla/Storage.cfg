SPECIFICATION FaultSpec
CONSTANTS
    MaxPages = 3
    Data = {d1, d2}
    d1 = d1
    d2 = d2
    Zero = Zero
    Fresh = Fresh
    MaxOverrun = 1
    MaxFailures = 2
SYMMETRY DataSymmetry
INVARIANTS
    CounterCoversHanded
    CleanPagesMatchFile
    NoUpdateLost
    MetaWriteMadeUp
    RootOldOrNew
PROPERTIES
    AllocatesUnusedPage
