--------------------------- MODULE PackageHistory ---------------------------
(***************************************************************************)
(* PluginTasks with a history variable: for each task, the packages whose  *)
(* metadata file disappeared, and those whose file appeared, since the task*)
(* began, and since its own command was done when it came to that.  No step*)
(* depends on it.  What a task says of the packages at its end it knows    *)
(* from a moment before: with the history one can state that there was     *)
(* such a moment.                                                          *)
(***************************************************************************)
EXTENDS PluginTasks

VARIABLE since   (* of each task: the packages gone and come since then     *)

historyVars == <<taskVars, since>>

Began(c) == at[c] \notin {"free", "queued"}

NoHistory == [gone |-> {}, came |-> {}]

Disappeared == {p \in Plugins : Installed(p) /\ ~Installed(p)'}
Appeared == {p \in Plugins : ~Installed(p) /\ Installed(p)'}

(* The worker reports the (un)install of c done.                           *)
Reported(c) ==
    /\ call[c].phase = "running"
    /\ call[c].cmd.name \in {"install", "uninstall"}
    /\ call'[c].phase = "answered"
    /\ call'[c].ok

Remember ==
    since' = [c \in Contexts |->
                 CASE Reported(c) -> NoHistory
                   [] Began(c) /\ ~Reported(c) ->
                          [gone |-> since[c].gone \union Disappeared,
                           came |-> since[c].came \union Appeared]
                   [] OTHER -> since[c]]

HistoryInit == Init /\ since = [c \in Contexts |-> NoHistory]

HistoryNext == Next /\ Remember

HistorySpec == HistoryInit /\ [][HistoryNext]_historyVars

-----------------------------------------------------------------------------
(* Properties.                                                             *)

(* No version the market has for the request is for this Wazo.              *)
NothingFits(c) ==
    /\ order[c].method = "market"
    /\ \A i \in 1..Len(Market[Plugin(c)]) :
          Wanted(c, Market[Plugin(c)][i].version) => ~Market[Plugin(c)][i].fits

Completed(c, kind) == told[c] = <<"completed">> /\ order[c].kind = kind

(* "completed" of an install: the plugin, and what it depends on, is there, *)
(* or its file has disappeared since gdebi was done with it.  An install    *)
(* found unnecessary before or after the download (download.py:73-84,       *)
(* validator.py:46) has no such moment: then since it began.  Other tasks   *)
(* install and remove all the while, and between the look and the event     *)
(* there is the removal of the build directory (tasks.py:111-112).          *)
(* (download.py:49 says "completed" also of a plugin the market has no      *)
(* fitting version of.)                                                     *)
CompletedMeansInstalled ==
    \A c \in Contexts :
        Completed(c, "install") =>
            \/ \A p \in DependsOn(Plugin(c)) \union {Plugin(c)} :
                  Installed(p) \/ p \in since[c].gone
            \/ NothingFits(c)

(* "completed" of an uninstall: the plugin, and all that depends on it, is  *)
(* gone, or is there because it was installed again since apt-get was done. *)
(* The uninstall was asked for of a plugin that was there (service.py:87),  *)
(* which another task may have removed or replaced before a thread took it. *)
CompletedMeansRemoved ==
    \A c \in Contexts :
        Completed(c, "uninstall") =>
            \A p \in RemovedWith(Plugin(c)) : ~Installed(p) \/ p \in since[c].came

=============================================================================
