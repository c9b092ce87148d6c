\* The worker is not killed: the program stops, its tasks end first, and
\* nobody waits for ever.
SPECIFICATION FairControllerSpec
CONSTANTS
    t1 = t1
    t2 = t2
    p1 = p1
    p2 = p2
    install = install
    Nothing = Nothing
    Threads <- MCThreads
    Posts <- MCPosts
    Commands <- MCCommands
    MaxCalls = 1
    MaxSigterm = 1
    MayCrash = FALSE
PROPERTIES
    SigtermStops
    ShutdownEnds
    AcceptedEnds
    LockReleased
    StopCompletes
CHECK_DEADLOCK FALSE
