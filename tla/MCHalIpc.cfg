SPECIFICATION FairSpec
CONSTANTS
    Node = {"cmd"}
    MaxConns = 2
    MaxTimers = 2
    MaxOwed = 1
    NULL = NULL
INVARIANTS TypeOK OneReader AnsweredOnce PortsKnown
PROPERTIES PortsLearnt
