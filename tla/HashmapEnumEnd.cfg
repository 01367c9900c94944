CONSTANTS
    t1 = t1
    t2 = t2
    Threads = {t1, t2}
    Hashes = {1, 2, 3}
    v1 = v1
    v2 = v2
    Values = {v1, v2}
    NULL = NULL
    REDIRECT = REDIRECT
    Idle = Idle
    FillValue = v2
    Size <- Sizes
    MaxGen = 3
    Starts <- EndStarts
SPECIFICATION Spec
INVARIANT EndIsComplete
CHECK_DEADLOCK FALSE
