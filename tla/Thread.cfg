CONSTANTS
    Threads = {t1, t2, t3}
    None = None
    MaxCalls = 4
    MaxDepth = 2
SPECIFICATION FairSpec
INVARIANTS OnceProtects OwnerExact
PROPERTY EveryCallReturns
CHECK_DEADLOCK FALSE
