CONSTANTS
    Threads = {t1, t2}
    Pointers = {p1, p2}
    NULL = NULL
    Future = Future
    Size = 2
    UIntRange = 4
    MaxCalls = 7
SPECIFICATION FairSpec
INVARIANT FifoConsistent
PROPERTIES FifoSpec EveryCallReturns
CHECK_DEADLOCK FALSE
