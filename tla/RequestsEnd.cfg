SPECIFICATION FairSpec
CONSTANTS
    Threads = {t1}
    Deployers = {d1, d2}
    Users = {1, 2}
    OwnerOf <- TwoOwners
    Rows = {r1}
    Values = {0, 1}
    Target <- BothSet
    NoOwner = NoOwner
    NoProc = NoProc
    MaxWork = 2
    MaxCount = 0
INVARIANTS NoWaitCycle
PROPERTIES OnlyTheHolderWrites EveryRequestEnds
