\* The market may be empty, and fill up.
SPECIFICATION Spec
CONSTANTS
    app = app
    lib = lib
    old = old
    Nothing = Nothing
    Plugins <- MCPlugins
    Versions <- MCVersions
    Markets <- MCMarketsAndNone
    Queries <- MCLimits
INVARIANTS
    FetchedOnce
