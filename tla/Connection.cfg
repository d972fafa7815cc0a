SPECIFICATION ConnSpec
CONSTANTS
    Hosts = {a, b}
    Slots = 1
    Hops = 2
    KeepAlive = TRUE
    Ids = 3
    MaxGets = 3
    MaxFaults = 2
INVARIANT AnswerOwn
PROPERTY GetEnds
CHECK_DEADLOCK FALSE
CONSTANTS
    a = a
    b = b
