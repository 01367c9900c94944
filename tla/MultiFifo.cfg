CONSTANTS
    Threads = {t1, t2, t3}
    Pointers = {p1, p2}
    NULL = NULL
    NOTYET = NOTYET
    Size = 3
    UIntRange = 4
    MaxCalls = 4
SPECIFICATION MCSpec
INVARIANTS NotYetIsOwned WindowOK
PROPERTIES FifoSpec EveryCallReturns
CHECK_DEADLOCK FALSE
