SPECIFICATION Spec
CONSTANTS
    Thread = {t1, t2, t3, t4}
    Client = {c1, c2}
    Fd = {f1, f2}
    MaxDelay = 1
    AddTypes <- AllTypes
    NULL = NULL
SYMMETRY Symmetry
INVARIANTS TypeOK ListInv FdInv HandleInv TimerContract NoLeak
PROPERTY ImplementsEventLoop
CHECK_DEADLOCK FALSE
