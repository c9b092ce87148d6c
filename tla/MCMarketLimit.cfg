\* A limit of 0 among others.
SPECIFICATION Spec
CONSTANTS
    app = app
    lib = lib
    old = old
    Nothing = Nothing
    Plugins <- MCPlugins
    Versions <- MCVersions
    Markets <- MCMarkets
    Queries <- MCLimits
INVARIANTS
    LimitIsMaximum
