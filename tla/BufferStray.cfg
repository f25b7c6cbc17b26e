SPECIFICATION LRUSpec
CONSTANTS
    MaxPages = 3
    PoolSize = 2
    c1 = c1
    c2 = c2
    c3 = c3
    Clients = {c1, c2, c3}
    d1 = d1
    Data = {d1}
    Zero = Zero
    Fresh = Fresh
    None = None
    StrayFetch = TRUE
    MaxOverrun = 1
SYMMETRY Symmetry
INVARIANTS
    PageTableMatchesFrames
    LruListsUnpinned
    PinsCountHolders
PROPERTIES
    EvictsLeastRecentlyUsed
    NewPageIsInitialised
