CONSTANTS
    Threads = {t1, t2, t3}
    Entries = {e1, e2, e3}
    NULL = NULL
    MaxAdds = 4
    MaxRemoves = 2
    MaxSpurious = 1
SPECIFICATION FairSpec
INVARIANTS EntriesAccounted ChainsEnd
PROPERTY EveryCallReturns
CHECK_DEADLOCK FALSE
