-------------------------- MODULE MCMarketListing --------------------------
(* MarketListing with two or three plugins, one of them without a name,    *)
(* and with queries that filter, search, order and page.                   *)
EXTENDS MarketListing

CONSTANTS app, lib, old

MCPlugins == {app, lib, old}
MCVersions == {1, 2}

Offer(v, fits) == [version |-> v, fits |-> fits]

AppEntry == [plugin |-> app, name |-> 2, versions |-> <<Offer(2, TRUE), Offer(1, TRUE)>>]
LibEntry == [plugin |-> lib, name |-> 1, versions |-> <<Offer(2, FALSE), Offer(1, TRUE)>>]
OldEntry == [plugin |-> old, name |-> Nothing, versions |-> <<>>]

MCMarkets == {<<AppEntry, LibEntry>>, <<OldEntry, AppEntry, LibEntry>>}
MCMarketsAndNone == {<<>>, <<AppEntry>>}

All == [plugin |-> Nothing, installed |-> Nothing, plugins |-> MCPlugins,
        versions |-> {}, order |-> "name", desc |-> FALSE,
        limit |-> Nothing, offset |-> 0]

MCQueries ==
    {All,
     [All EXCEPT !.limit = 1, !.offset = 1],
     [All EXCEPT !.desc = TRUE, !.limit = 2],
     [All EXCEPT !.installed = TRUE, !.order = "installed_version"],
     [All EXCEPT !.installed = FALSE, !.offset = 1],
     [All EXCEPT !.plugins = {app}, !.versions = {1}, !.limit = 0],
     [All EXCEPT !.plugin = lib, !.order = "installed_version", !.desc = TRUE]}

MCLimits == {All, [All EXCEPT !.limit = 1], [All EXCEPT !.limit = 0]}

=============================================================================
