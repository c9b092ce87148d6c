-------------------------- MODULE MCPluginListing --------------------------
(* PluginListing with an application that depends on a library, named so   *)
(* that the application's name has a dash, and a stranger between them.    *)
EXTENDS PluginListing, TLC

CONSTANTS c1, c2, c3, app, lib, a, b, reader

MCContexts == {c1, c2, c3}
MCPlugins == {app, lib}
MCVersions == {1, 2}
MCReaders == {reader}
MCAlnum == {a, b}

MCDepends == app :> <<[plugin |-> lib, version |-> 0]>> @@ lib :> <<>>

Fitting(v) == [version |-> v, fits |-> TRUE]

MCMarket == lib :> <<Fitting(2)>>

Order(kind, p, v) ==
    [kind |-> kind, method |-> "git", plugin |-> p, version |-> v,
     reinstall |-> FALSE, subdirectory |-> FALSE, parent |-> Nothing]

MCOrders == {Order("install", app, 1), Order("install", lib, 1),
             Order("uninstall", lib, 0), Order("uninstall", app, 0)}

MCBefore == [p \in MCPlugins |-> Absent]

MCFaults == {"worker"}

MCNameOf == app :> [namespace |-> <<a>>, name |-> <<a, Dash, b>>] @@
            lib :> [namespace |-> <<b>>, name |-> <<b>>]

(* It has no namespace.                                                    *)
Stranger == <<Prefix, Dash, a>>

MCStrangers == {Stranger}

MCRank == PackageOf(app) :> 1 @@ Stranger :> 2 @@ PackageOf(lib) :> 3

=============================================================================
