CONSTANTS
    t1 = t1
    t2 = t2
    Threads = {t1, t2}
    Hashes = {1, 2, 3, 5, 9}
    v1 = v1
    v2 = v2
    Values = {v1, v2}
    NULL = NULL
    REDIRECT = REDIRECT
    Idle = Idle
    FillValue = v2
    Size <- Sizes
    MaxGen = 3
    Starts <- AllStarts
SPECIFICATION RunnerSpec
INVARIANTS SlotsOK GenerationsOK NoOneLeftBehind VirginReserve
PROPERTIES NeverBackwards MapSpec RunnerReturns
CHECK_DEADLOCK FALSE
