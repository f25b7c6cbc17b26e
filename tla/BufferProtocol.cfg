SPECIFICATION Spec
CONSTANTS
    MaxPages = 4
    PoolSize = 2
    c1 = c1
    c2 = c2
    c3 = c3
    Clients = {c1, c2}
    d1 = d1
    d2 = d2
    Data = {d1, d2}
    Zero = Zero
    Fresh = Fresh
    None = None
    StrayFetch = FALSE
    MaxOverrun = 0
SYMMETRY Symmetry
INVARIANTS
    CleanFramesCoherent
PROPERTIES
    FlushAllIsDurable
    ImplementsPageStore
