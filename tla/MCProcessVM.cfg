CONSTANTS
    Pids = {1}
    Tids = {1, 2}
    Owner <- MCOwner
    Comms = {"a", "b", "c"}
    Watched = {"a", "b"}
    Pages = 2
    MaxLen = 2
    MaxTop = 3
    RingSize = 1
    ChanSize = 2
    ExitSize = 1
    MaxEvents = 5
SPECIFICATION VMSpec
INVARIANTS ProbesAreClosed AccountIsExact DeadIsExplained
CHECK_DEADLOCK FALSE
PROPERTY HandlerServes
