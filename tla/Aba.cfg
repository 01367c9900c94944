CONSTANTS
    Threads = {t1, t2}
    Pointers = {p1, p2}
    None = None
    NEntries = 2
    InitSize = 1
    Starts = {0, 3}
    Worlds = {1, 2, 3, 4, 5, 6, 7, 8, 9, 10}
    Storages = {1, 2, 3, 4}
    MaxCalls = 4
    MaxTs = 4
SPECIFICATION Spec
SYMMETRY Symmetry
INVARIANTS TypeOK NoPrematureFree CountsExact NothingLost CleanAtTheEnd WorldsOutliveReaders
PROPERTIES SwapsAsserted
CHECK_DEADLOCK FALSE
