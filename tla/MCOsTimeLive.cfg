SPECIFICATION FairSpec
CONSTANTS
    Node = {n1, n2}
    Client = {c1}
    List <- Lists
    MaxDelay = 2
    Slow = FALSE
    Anonymous = {}
    Canceller = {c1}
    KeepCancelled = {}
    NULL = NULL
INVARIANT NoLostWakeup
PROPERTY DueTimersRun
