CONSTANTS
    Threads = {t1, t2}
    v1 = v1
    v2 = v2
    Values = {v1, v2}
    NULL = NULL
    REDIRECT = REDIRECT
    Idle = Idle
    Calls <- ArrayCalls
    MinSize = 1
    Size <- ArraySizes
    MaxGen = 4
    MaxCalls = 5
SPECIFICATION RunnerSpec
INVARIANTS GenerationsOK DensePrefix EnumeratorsMeetNoHole
PROPERTIES ArraySpec RunnerReturns
CHECK_DEADLOCK FALSE
