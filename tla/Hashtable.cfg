CONSTANTS
    Threads = {t1, t2}
    Hashes = {1, 5}
    v1 = v1
    v2 = v2
    Values = {v1, v2}
    NULL = NULL
    TOMB = TOMB
    Idle = Idle
    Calls <- RaceCalls
    InitSize = 4
    Filled = {1}
    FillValue = v2
    MaxGen = 3
    MaxSize = 8
    MaxCalls = 4
SPECIFICATION RunnerSpec
INVARIANTS SlotsOK GenerationsOK NoResurrection
PROPERTIES MapSpec RunnerReturns
CHECK_DEADLOCK FALSE
