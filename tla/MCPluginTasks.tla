--------------------------- MODULE MCPluginTasks ---------------------------
(* PluginTasks with an application that depends on a library, and a plugin *)
(* the market does not have.                                               *)
EXTENDS PluginTasks, TLC

CONSTANTS c1, c2, c3, c4, app, lib, gone

MCThree == {c1, c2, c3}
MCFour == {c1, c2, c3, c4}
MCPlugins == {app, lib, gone}
MCVersions == {1, 2}

MCDepends == app :> <<[plugin |-> lib, version |-> 0]>> @@ lib :> <<>> @@
             gone :> <<>>

Offer(v, fits) == [version |-> v, fits |-> fits]

(* The newest version first.  The latest library is for another Wazo.      *)
MCMarket ==
    app :> <<Offer(2, TRUE), Offer(1, TRUE)>> @@
    lib :> <<Offer(2, FALSE), Offer(1, TRUE)>>

Install(p, how, v, again) ==
    [kind |-> "install", method |-> how, plugin |-> p, version |-> v,
     reinstall |-> again, subdirectory |-> FALSE, parent |-> Nothing]

Uninstall(p) == [Install(p, "git", 0, FALSE) EXCEPT !.kind = "uninstall"]

MCNothingBefore == [p \in MCPlugins |-> Absent]

(* The library's old version.                                              *)
MCLibraryBefore ==
    [MCNothingBefore EXCEPT ![lib] = [version |-> 1, configured |-> TRUE]]

(* The application from git nests the library from the market.             *)
MCAllOrders ==
    {Install(app, "git", 1, FALSE),
     [Install(lib, "git", 2, TRUE) EXCEPT !.subdirectory = TRUE],
     Install(gone, "market", 0, FALSE), Uninstall(lib), Uninstall(app)}

(* What is installed may be forced to be again, or be uninstalled again.   *)
MCInstalls ==
    {Install(app, "git", 1, FALSE), Install(app, "market", 2, FALSE),
     Install(lib, "git", 2, FALSE), Install(lib, "market", 0, FALSE),
     Install(lib, "git", 1, FALSE), Install(lib, "git", 1, TRUE),
     Install(app, "git", 1, TRUE), Uninstall(lib)}

(* The market's version of an installed plugin, forced.                    *)
MCMarketReinstall ==
    {Install(lib, "market", 0, FALSE), Install(lib, "market", 0, TRUE)}

(* What waits for the worker, for a dependency, or for both.               *)
MCWaiting ==
    {Install(app, "git", 1, FALSE), Install(lib, "market", 0, FALSE), Uninstall(lib)}

MCEveryFault == AllFaults
MCRecoverable == {"download", "build", "command"}
MCCommandFault == {"command"}
MCNoFault == {}

=============================================================================
