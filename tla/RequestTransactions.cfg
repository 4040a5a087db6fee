SPECIFICATION Spec
CONSTANTS
    Threads = {t1, t2}
    Deployers = {}
    Users = {1, 2}
    OwnerOf <- WithCompanion
    Rows = {r1, r2}
    Values = {0, 1}
    Target <- BothSet
    NoOwner = NoOwner
    NoProc = NoProc
    MaxWork = 3
    MaxCount = 1
SYMMETRY Symmetry
INVARIANTS LedgerMatchesFacts RequestsActAsBound RenderIsConsistent NoLostUserUpdate
