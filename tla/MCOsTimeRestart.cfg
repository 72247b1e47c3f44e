SPECIFICATION Spec
CONSTANTS
    Node = {n1, n2}
    Client = {c1}
    List <- Lists
    MaxDelay = 2
    Slow = TRUE
    Anonymous = {}
    Canceller = {c1}
    KeepCancelled = {c1}
    NULL = NULL
INVARIANT ListsWellFormed
