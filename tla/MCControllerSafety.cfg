\* Two requests, two SIGTERMs from outside, and the worker may be killed.
SPECIFICATION ControllerSpec
CONSTANTS
    t1 = t1
    t2 = t2
    p1 = p1
    p2 = p2
    install = install
    Nothing = Nothing
    Threads <- MCThreads
    Posts <- MCPosts
    Commands <- MCCommands
    MaxCalls = 2
    MaxSigterm = 2
    MayCrash = TRUE
SYMMETRY MCSymmetry
INVARIANTS
    ControllerTypeOK
    TasksEndFirst
    RejectedOnlyAfterSecondSignal
    StopsForAReason
CHECK_DEADLOCK FALSE
PROPERTY ImplementsRootWorker
