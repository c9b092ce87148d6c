\* Two requests at once, and every part of the system may fail.
SPECIFICATION Spec
CONSTANTS
    c1 = c1
    c2 = c2
    c3 = c3
    c4 = c4
    app = app
    lib = lib
    gone = gone
    Nothing = Nothing
    Contexts <- MCThree
    Plugins <- MCPlugins
    Versions <- MCVersions
    Depends <- MCDepends
    Market <- MCMarket
    Before <- MCNothingBefore
    Orders <- MCAllOrders
    Faults <- MCEveryFault
    MaxRequests = 2
CHECK_DEADLOCK FALSE
INVARIANTS
    TaskTypeOK
    AnswersAreFinal
    PackageKept
    CompletedIsClean
    LeftBehind
PROPERTY ImplementsStories
