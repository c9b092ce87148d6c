\* A forced reinstallation from the market.
SPECIFICATION Spec
CONSTANTS
    c1 = c1
    c2 = c2
    c3 = c3
    c4 = c4
    app = app
    lib = lib
    gone = gone
    Nothing = Nothing
    Contexts <- MCFour
    Plugins <- MCPlugins
    Versions <- MCVersions
    Depends <- MCDepends
    Market <- MCMarket
    Before <- MCNothingBefore
    Orders <- MCMarketReinstall
    Faults <- MCNoFault
    MaxRequests = 2
CHECK_DEADLOCK FALSE
INVARIANT ReinstallRuns
