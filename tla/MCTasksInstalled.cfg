\* Installs, forced or not, and an uninstall, two at once: while the library is there.
SPECIFICATION HistorySpec
CONSTANTS
    c1 = c1
    c2 = c2
    c3 = c3
    c4 = c4
    app = app
    lib = lib
    gone = gone
    Nothing = Nothing
    Contexts <- MCFour
    Plugins <- MCPlugins
    Versions <- MCVersions
    Depends <- MCDepends
    Market <- MCMarket
    Before <- MCLibraryBefore
    Orders <- MCInstalls
    Faults <- MCRecoverable
    MaxRequests = 2
CHECK_DEADLOCK FALSE
INVARIANTS
    NothingLeft
    ReinstallRuns
    CompletedMeansInstalled
    CompletedMeansRemoved
