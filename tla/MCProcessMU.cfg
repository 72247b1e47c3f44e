SPECIFICATION Spec
CONSTANTS
    Task = {t1, t2}
    Name = {n1, n2, n3}
    Pid = {p1, p2, p3}
    Main = Main
    Broken = {}
    TooLong = {n3}
    MaxId = 3
    MaxLate = 1
    NONE = NONE
SYMMETRY Symmetry
INVARIANTS TypeOK OneProcess NoOrphan OneAnswer
PROPERTY IdsStable
CHECK_DEADLOCK FALSE
