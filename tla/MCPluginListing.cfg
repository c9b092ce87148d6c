\* A plugin list is made while two tasks install and remove.
SPECIFICATION ListingSpec
CONSTANTS
    c1 = c1
    c2 = c2
    c3 = c3
    app = app
    lib = lib
    a = a
    b = b
    reader = reader
    Nothing = Nothing
    Dash = Dash
    Prefix = Prefix
    Unnamed = Unnamed
    Alnum <- MCAlnum
    Contexts <- MCContexts
    Plugins <- MCPlugins
    Versions <- MCVersions
    Depends <- MCDepends
    Market <- MCMarket
    Before <- MCBefore
    Orders <- MCOrders
    Faults <- MCFaults
    MaxRequests = 2
    Readers <- MCReaders
    NameOf <- MCNameOf
    Strangers <- MCStrangers
    Rank <- MCRank
INVARIANTS
    GetTypeOK
    ListedWereThere
    StayedAreListed
    FailsOnlyFirst
    WaitedThenListed
