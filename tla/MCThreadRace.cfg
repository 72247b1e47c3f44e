SPECIFICATION RaceSpec
CONSTANTS
    Thread = {t1, t2, t3}
    Client = {c1, c2}
    Fd = {f1}
    MaxDelay = 0
    AddTypes <- AllTypes
    NULL = NULL
INVARIANT UnuseAsserts
CHECK_DEADLOCK FALSE
