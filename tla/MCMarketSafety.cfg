\* Packages and the market change while the list is made.
SPECIFICATION Spec
CONSTANTS
    app = app
    lib = lib
    old = old
    Nothing = Nothing
    Plugins <- MCPlugins
    Versions <- MCVersions
    Markets <- MCMarkets
    Queries <- MCQueries
INVARIANTS
    ListingTypeOK
    AnswerAddsUp
    PageInOrder
    UpgradableIsNewer
