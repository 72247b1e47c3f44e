SPECIFICATION Spec
CONSTANTS
    Task = {t1}
    Name = {n1, n2}
    Pid = {p1, p2}
    Main = Main
    Broken = {n1}
    TooLong = {}
    MaxId = 1
    MaxLate = 0
    NONE = NONE
INVARIANT AnswerTruth
CHECK_DEADLOCK FALSE
