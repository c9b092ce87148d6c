\* The worker may be killed: does executor.shutdown still return?
SPECIFICATION FairControllerSpec
CONSTANTS
    t1 = t1
    t2 = t2
    p1 = p1
    p2 = p2
    install = install
    Nothing = Nothing
    Threads <- MCThreads
    Posts <- MCPosts
    Commands <- MCCommands
    MaxCalls = 1
    MaxSigterm = 1
    MayCrash = TRUE
PROPERTY ShutdownEnds
CHECK_DEADLOCK FALSE
