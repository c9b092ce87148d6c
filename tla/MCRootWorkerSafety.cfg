\* Three threads, and the worker may be killed at any point.
SPECIFICATION Spec
CONSTANTS
    t1 = t1
    t2 = t2
    t3 = t3
    update = update
    install = install
    Nothing = Nothing
    Threads <- MCThreads
    Commands <- MCCommands
    MayCrash = TRUE
SYMMETRY MCSymmetry
INVARIANTS
    TypeOK
    OwnAnswer
    ClosedMeansQuiet
    NoFalseAlarm
CHECK_DEADLOCK FALSE
PROPERTY ImplementsService
