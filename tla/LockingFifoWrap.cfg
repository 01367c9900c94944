CONSTANTS
    Threads = {t1}
    Pointers = {p1, p2}
    NULL = NULL
    Future = Future
    Size = 3
    UIntRange = 4
    MaxCalls = 9
SPECIFICATION Spec
PROPERTY FifoSpec
CHECK_DEADLOCK FALSE
