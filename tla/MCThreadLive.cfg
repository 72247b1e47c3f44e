SPECIFICATION FairSpec
CONSTANTS
    Thread = {t1, t2, t3}
    Client = {c1}
    Fd = {f1}
    MaxDelay = 1
    AddTypes <- NoReady
    NULL = NULL
PROPERTIES EveryThreadRuns QuitStops
CHECK_DEADLOCK FALSE
