SPECIFICATION FairSpec
CONSTANTS
    Task = {t1, t2}
    Name = {n1, n2}
    Pid = {p1, p2}
    Main = Main
    Broken = {}
    TooLong = {n2}
    MaxId = 2
    MaxLate = 1
    NONE = NONE
PROPERTY Answered
CHECK_DEADLOCK FALSE
