CONSTANTS
    Threads = {t1, t2, t3}
    Hashes = {1, 2, 3, 4, 5}
    v1 = v1
    v2 = v2
    Values = {v1, v2}
    NULL = NULL
    TOMB = TOMB
    Idle = Idle
    Calls <- FullCalls
    InitSize = 4
    Filled = {1}
    FillValue = v2
    MaxGen = 1
    MaxSize = 8
    MaxCalls = 4
SPECIFICATION Spec
INVARIANT EveryProbeTerminates
CHECK_DEADLOCK FALSE
