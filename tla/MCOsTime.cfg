SPECIFICATION Spec
CONSTANTS
    Node = {n1, n2, n3}
    Client = {c1, c2}
    List <- Lists
    MaxDelay = 1
    Slow = TRUE
    Anonymous = {c2}
    Canceller = {}
    KeepCancelled = {}
    NULL = NULL
SYMMETRY Symmetry
INVARIANTS TypeOK ListsWellFormed OnePlace NoLostWakeup
PROPERTY ImplementsAlarmClock
