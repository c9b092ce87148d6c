---------------------------- MODULE PluginTasks ----------------------------
(***************************************************************************)
(* wazo_plugind/tasks.py, with the parts of download.py, validator.py,     *)
(* db.py and service.py it calls: an install or an uninstall is a sequence *)
(* of steps an executor thread takes for one Context, each announced on    *)
(* the bus, with one except clause for each way a step can fail.  An       *)
(* install nests the installs of the plugin's dependencies, on the same    *)
(* thread.  The root commands go through CommandService; what happens to   *)
(* the packages while one runs is the work of gdebi and apt-get.           *)
(*                                                                         *)
(* Tasks run at the same time and share the installed packages: what one   *)
(* has read of them may be stale when it acts on it.                       *)
(***************************************************************************)
EXTENDS Naturals, Sequences, FiniteSets

CONSTANTS Contexts,    (* the Context objects, one for each (un)install    *)
          Plugins,
          Versions,    (* plugin versions, in their order                  *)
          Nothing,     (* Python's None                                    *)
          Depends,     (* "depends" of a plugin's metadata                 *)
          Market,      (* the market's plugins and their versions          *)
          Before,      (* the packages when the program starts             *)
          Orders,      (* what the HTTP API is asked for                   *)
          Faults,      (* the parts that may fail                          *)
          MaxRequests  (* bound: requests to the API                       *)

Dependencies == [plugin : Plugins, version : Versions \union {0}]

Offers == [version : Versions, fits : BOOLEAN]

Packages == [version : Versions \union {0}, configured : BOOLEAN]

Absent == [version |-> 0, configured |-> FALSE]

(* Debian's Depends, which debian.py generates from "depends".             *)
DependsOn(p) == {Depends[p][i].plugin : i \in 1..Len(Depends[p])}

Requests == [kind : {"install", "uninstall"}, method : {"git", "market"},
             plugin : Plugins, version : Versions \union {0},
             reinstall : BOOLEAN, subdirectory : BOOLEAN,
             parent : Contexts \union {Nothing}]

Commands == [name : {"update", "install", "uninstall"}, plugin : Plugins,
             version : Versions \union {0}]

AllFaults == {"download", "decode", "extract", "validate", "build", "command",
              "clean", "bus", "worker"}

(* A version of 0 is none.  A git request has the version its ref holds.   *)
ASSUME PluginTasksAssumption ==
    /\ Versions \subseteq Nat \ {0}
    /\ Nothing \notin Contexts \union Commands
    /\ IsFiniteSet(Contexts)
    /\ Depends \in [Plugins -> Seq(Dependencies)]
    /\ DOMAIN Market \subseteq Plugins
    /\ Market \in [DOMAIN Market -> Seq(Offers)]
    /\ Before \in [Plugins -> Packages]
    /\ \A p \in Plugins :
          /\ Before[p].configured => Before[p].version # 0
          /\ Before[p].version # 0 => \A q \in DependsOn(p) : Before[q].version # 0
    /\ Orders \subseteq Requests
    /\ \A o \in Orders :
          /\ o.parent = Nothing
          /\ o.kind = "install" /\ o.method = "git" => o.version # 0
    /\ Faults \subseteq AllFaults
    /\ MaxRequests \in Nat

VARIABLES
    order,      (* the arguments each Context was made with                *)
    at,         (* the step it is at, or how it ended                      *)
    todo,       (* install_dependencies: what it has not come to yet       *)
    child,      (* the Context of the dependency it is installing          *)
    look,       (* what it has read of the packages to choose a version    *)
    version,    (* the version of what it downloaded                       *)
    disk,       (* its directories that exist, named after its uuid        *)
    extracted,  (* ctx.extract_path is set                                 *)
    told,       (* the verdicts published for it                           *)
    clause,     (* what its except clause has still to do                  *)
    pkg,        (* the installed packages                                  *)
    stage,      (* how far the running command is                          *)
    worker,     (* CommandService                                          *)
    call

Service == INSTANCE CommandService WITH Clients <- Contexts

contextVars == <<order, todo, child, look, version, extracted>>
handlerVars == <<at, disk, told, clause>>
packageVars == <<pkg, stage>>
serviceVars == <<worker, call>>
taskVars == <<contextVars, handlerVars, packageVars, serviceVars>>

InstallSteps == {"starting", "downloading", "extracting", "validating",
                 "installing dependencies", "building", "packaging",
                 "updating", "installing", "cleaning", "completed"}
UninstallSteps == {"starting", "removing", "completed"}
Steps == InstallSteps \union UninstallSteps

(* Within the downloading step, and in an except clause.                   *)
Between == {"choosing", "handling"}

(* The task returned, let an exception out, or was ended by SystemExit.    *)
Ends == {"returned", "escaped", "exited"}

NoOrder == [kind |-> "none", parent |-> Nothing]

NoLook == [installed |-> 0, known |-> 0, choice |-> 0, next |-> 1]

Init ==
    /\ order = [c \in Contexts |-> NoOrder]
    /\ at = [c \in Contexts |-> "free"]
    /\ todo = [c \in Contexts |-> <<>>]
    /\ child = [c \in Contexts |-> Nothing]
    /\ look = [c \in Contexts |-> NoLook]
    /\ version = [c \in Contexts |-> 0]
    /\ disk = [c \in Contexts |-> {}]
    /\ extracted = [c \in Contexts |-> FALSE]
    /\ told = [c \in Contexts |-> <<>>]
    /\ clause = [c \in Contexts |-> <<>>]
    /\ pkg = Before
    /\ stage = "none"
    /\ worker = "up"
    /\ call = [c \in Contexts |-> Service!NoCall]

Plugin(c) == order[c].plugin

(* Plugin.is_installed: the metadata file is there, from the moment dpkg   *)
(* unpacks it.                                                             *)
Installed(p) == pkg[p].version # 0

-----------------------------------------------------------------------------
(* The except clauses.                                                     *)

(* Mutant: the error's identifier is published as the status.              *)
VerdictById(c, error) ==
    IF order[c].kind = "install" /\ error \in {"already", "dependency"}
    THEN "completed"
    ELSE "install-error"

Verdict(c, error) ==
    IF order[c].kind = "install" /\ error \in {"already", "dependency"}
    THEN "completed"
    ELSE "error"

(* Mutant: every clause publishes first.                                   *)
ClausePublishFirst(c, error) ==
    IF order[c].kind = "uninstall" \/ error = "validation"
    THEN <<Verdict(c, error)>>
    ELSE <<Verdict(c, error), "clean">>

(* Mutant: the generic clause does not clean.                              *)
ClauseNoClean(c, error) ==
    IF order[c].kind = "uninstall" \/ error \in {"validation", "other"}
    THEN <<Verdict(c, error)>>
    ELSE <<"clean", Verdict(c, error)>>

(* What the clause for an exception does, in its order: it cleans, and     *)
(* publishes a verdict.                                                    *)
Clause(c, error) ==
    CASE order[c].kind = "uninstall" \/ error = "validation" ->
             <<Verdict(c, error)>>
      [] order[c].kind = "install" /\ error = "other" ->
             <<Verdict(c, error), "clean">>
      [] OTHER -> <<"clean", Verdict(c, error)>>

(* A step raises.  "left" is what it left on the disk.                     *)
HandleLeaving(c, error, left) ==
    /\ at' = [at EXCEPT ![c] = "handling"]
    /\ clause' = [clause EXCEPT ![c] = Clause(c, error)]
    /\ disk' = [disk EXCEPT ![c] = left]
    /\ UNCHANGED told

Handle(c, error) == HandleLeaving(c, error, disk[c])

Fails(c, fault, errors) == fault \in Faults /\ \E error \in errors : Handle(c, error)

Goto(c, place) ==
    /\ at' = [at EXCEPT ![c] = place]
    /\ UNCHANGED <<disk, told, clause>>

Proceed(c) ==
    /\ clause' = [clause EXCEPT ![c] = Tail(@)]
    /\ at' = [at EXCEPT ![c] = IF Tail(clause[c]) = <<>> THEN "returned" ELSE "handling"]

(* The clause itself raises, and no clause is for that.                    *)
Escape(c) ==
    /\ clause' = [clause EXCEPT ![c] = <<>>]
    /\ at' = [at EXCEPT ![c] = "escaped"]
    /\ UNCHANGED <<disk, told>>

(* _PackageBuilder.clean does nothing without an extract_path, and rmtree  *)
(* raises when the directory is gone.                                      *)
HandlerCleans(c) ==
    /\ at[c] = "handling"
    /\ Head(clause[c]) = "clean"
    /\ \/ /\ ~extracted[c]
          /\ Proceed(c)
          /\ UNCHANGED <<disk, told>>
       \/ /\ extracted[c] /\ "build" \in disk[c]
          /\ disk' = [disk EXCEPT ![c] = @ \ {"build"}]
          /\ Proceed(c)
          /\ UNCHANGED told
       \/ /\ extracted[c]
          /\ "clean" \in Faults \/ "build" \notin disk[c]
          /\ Escape(c)
    /\ UNCHANGED <<contextVars, packageVars, serviceVars>>

HandlerTells(c) ==
    /\ at[c] = "handling"
    /\ Head(clause[c]) # "clean"
    /\ \/ /\ told' = [told EXCEPT ![c] = Append(@, Head(clause[c]))]
          /\ Proceed(c)
          /\ UNCHANGED disk
       \/ "bus" \in Faults /\ Escape(c)
    /\ UNCHANGED <<contextVars, packageVars, serviceVars>>

-----------------------------------------------------------------------------
(* The HTTP API: PluginService.create and delete.                          *)

Made == {c \in Contexts : at[c] # "free"}

(* A Context is made with a new uuid, any one.                             *)
Fresh(c) == at[c] = "free" /\ c = CHOOSE d \in Contexts : at[d] = "free"

Submit(c, o) ==
    /\ Fresh(c)
    /\ Cardinality({d \in Made : order[d].parent = Nothing}) < MaxRequests
    /\ o.kind = "uninstall" => Installed(o.plugin)
    /\ order' = [order EXCEPT ![c] = o]
    /\ Goto(c, "queued")
    /\ UNCHANGED <<todo, child, look, version, extracted, packageVars, serviceVars>>

-----------------------------------------------------------------------------
(* The steps.  A thread publishes the step's name and runs its function.   *)

(* The step's event cannot be published, so its function is not run.  It   *)
(* is published once for all the dependencies.                             *)
PublishFails(c) ==
    /\ at[c] \in Steps
    /\ call[c].phase = "idle"
    /\ child[c] = Nothing
    /\ at[c] = "installing dependencies" => todo[c] = Depends[Plugin(c)]
    /\ Fails(c, "bus", {"other"})
    /\ UNCHANGED <<contextVars, packageVars, serviceVars>>

Execute(c) ==
    /\ at[c] = "queued"
    /\ Goto(c, "starting")
    /\ UNCHANGED <<contextVars, packageVars, serviceVars>>

Starting(c) ==
    /\ at[c] = "starting"
    /\ Goto(c, IF order[c].kind = "install" THEN "downloading" ELSE "removing")
    /\ UNCHANGED <<contextVars, packageVars, serviceVars>>

(* _GitDownloader: git clone, which may fail, or succeed and write what    *)
(* exec_and_log cannot decode: then nobody knows of the clone.             *)
Fetch(c, v) ==
    \/ /\ disk' = [disk EXCEPT ![c] = @ \union {"download"}]
       /\ version' = [version EXCEPT ![c] = v]
       /\ at' = [at EXCEPT ![c] = "extracting"]
       /\ UNCHANGED <<told, clause>>
    \/ /\ Fails(c, "download", {"command", "other"})
       /\ UNCHANGED version
    \/ /\ "decode" \in Faults
       /\ HandleLeaving(c, "other", disk[c] \union {"download"})
       /\ UNCHANGED version

Wanted(c, v) == order[c].version \in {0, v}

(* A market that does not have the plugin, or does not answer, is an error.*)
Download(c) ==
    /\ at[c] = "downloading"
    /\ \/ order[c].method = "git" /\ Fetch(c, order[c].version)
       \/ /\ order[c].method = "market"
          /\ \/ Plugin(c) \notin DOMAIN Market /\ Handle(c, "other")
             \/ Fails(c, "download", {"other"})
          /\ UNCHANGED version
    /\ UNCHANGED <<order, todo, child, look, extracted, packageVars, serviceVars>>

(* MarketPluginUpdater: installed_version is what Plugin.metadata reads.   *)
LookUp(c) ==
    LET v == pkg[Plugin(c)].version IN
    /\ at[c] = "downloading"
    /\ order[c].method = "market"
    /\ Plugin(c) \in DOMAIN Market
    /\ look' = [look EXCEPT ![c] = [NoLook EXCEPT !.installed = v, !.known = v]]
    /\ Goto(c, "choosing")
    /\ UNCHANGED <<order, todo, child, version, extracted, packageVars, serviceVars>>

(* A version is upgradable when it fits this Wazo and is newer than what   *)
(* is installed.  The metadata file is read again when it was not there.   *)
(* The first upgradable version that is asked for is taken.                *)
Mark(c) ==
    LET offer == Market[Plugin(c)][look[c].next]
        known == IF offer.fits /\ look[c].known = 0
                 THEN pkg[Plugin(c)].version
                 ELSE look[c].known
        takes == offer.fits /\ known < offer.version /\ Wanted(c, offer.version)
    IN
    /\ at[c] = "choosing"
    /\ look[c].next <= Len(Market[Plugin(c)])
    /\ look' = [look EXCEPT ![c].known = known,
                            ![c].choice = IF takes /\ @ = 0 THEN offer.version ELSE @,
                            ![c].next = @ + 1]
    /\ UNCHANGED <<order, todo, child, version, extracted>>
    /\ UNCHANGED <<handlerVars, packageVars, serviceVars>>

(* Mutant: a plugin that is not there is taken for one in any version.     *)
SatisfiedUnseen(c) == ~order[c].reinstall /\ Wanted(c, look[c].installed)

(* _MarketDownloader._already_satisfied                                    *)
Satisfied(c) ==
    /\ ~order[c].reinstall
    /\ look[c].installed # 0
    /\ Wanted(c, look[c].installed)

Choose(c) ==
    /\ at[c] = "choosing"
    /\ look[c].next > Len(Market[Plugin(c)])
    /\ IF Satisfied(c) \/ look[c].choice = 0
       THEN Handle(c, "dependency") /\ UNCHANGED version
       ELSE Fetch(c, look[c].choice)
    /\ look' = [look EXCEPT ![c] = NoLook]
    /\ UNCHANGED <<order, todo, child, extracted, packageVars, serviceVars>>

(* A subdirectory is moved out of the clone, and the clone stays.  Without *)
(* a readable plugin.yml the build directory is there but extract_path is  *)
(* not set.                                                                *)
Extract(c) ==
    LET kept == IF order[c].subdirectory THEN {"download"} ELSE {} IN
    /\ at[c] = "extracting"
    /\ \/ /\ disk' = [disk EXCEPT ![c] = kept \union {"build"}]
          /\ extracted' = [extracted EXCEPT ![c] = TRUE]
          /\ at' = [at EXCEPT ![c] = "validating"]
          /\ UNCHANGED <<told, clause>>
       \/ /\ "extract" \in Faults
          /\ \/ Handle(c, "other")
             \/ HandleLeaving(c, "other", kept \union {"build"})
          /\ UNCHANGED extracted
    /\ UNCHANGED <<order, todo, child, look, version, packageVars, serviceVars>>

(* Mutant: the validator does not look at reinstall.                       *)
ValidateNoReinstall(c) ==
    /\ at[c] = "validating"
    /\ \/ /\ Fails(c, "validate", {"validation", "other"})
          /\ UNCHANGED todo
       \/ /\ pkg[Plugin(c)].version = version[c]
          /\ Handle(c, "already")
          /\ UNCHANGED todo
       \/ /\ pkg[Plugin(c)].version # version[c]
          /\ todo' = [todo EXCEPT ![c] = Depends[Plugin(c)]]
          /\ Goto(c, "installing dependencies")
    /\ UNCHANGED <<order, child, look, version, extracted, packageVars, serviceVars>>

(* Validator.validate reads the metadata file once.  What is no mapping,   *)
(* or cannot be read as YAML, raises another exception than the schema     *)
(* does.  The step also clears the reinstall parameter, which nobody reads *)
(* after it.                                                               *)
Validate(c) ==
    /\ at[c] = "validating"
    /\ \/ /\ Fails(c, "validate", {"validation", "other"})
          /\ UNCHANGED todo
       \/ /\ ~order[c].reinstall
          /\ pkg[Plugin(c)].version = version[c]
          /\ Handle(c, "already")
          /\ UNCHANGED todo
       \/ /\ order[c].reinstall \/ pkg[Plugin(c)].version # version[c]
          /\ todo' = [todo EXCEPT ![c] = Depends[Plugin(c)]]
          /\ Goto(c, "installing dependencies")
    /\ UNCHANGED <<order, child, look, version, extracted, packageVars, serviceVars>>

(* install_dependency calls _package_and_install_impl with a new Context.  *)
InstallDependency(c, d) ==
    /\ at[c] = "installing dependencies"
    /\ child[c] = Nothing
    /\ todo[c] # <<>>
    /\ Fresh(d)
    /\ order' = [order EXCEPT ![d] =
                    [kind |-> "install", method |-> "market",
                     plugin |-> Head(todo[c]).plugin,
                     version |-> Head(todo[c]).version,
                     reinstall |-> FALSE, subdirectory |-> FALSE, parent |-> c]]
    /\ todo' = [todo EXCEPT ![c] = Tail(@)]
    /\ child' = [child EXCEPT ![c] = d]
    /\ Goto(d, "starting")
    /\ UNCHANGED <<look, version, extracted, packageVars, serviceVars>>

(* What the nested call told its subscribers is not looked at, what it     *)
(* raised is an exception of this step.                                    *)
DependencyEnds(c) ==
    /\ child[c] # Nothing
    /\ child' = [child EXCEPT ![c] = Nothing]
    /\ \/ at[child[c]] = "returned" /\ UNCHANGED handlerVars
       \/ at[child[c]] = "escaped" /\ Handle(c, "other")
       \/ at[child[c]] = "exited" /\ Goto(c, "exited")
    /\ UNCHANGED <<order, todo, look, version, extracted, packageVars, serviceVars>>

(* Mutant: the nested installs are submitted and not waited for.           *)
DependenciesDoneEarly(c) ==
    /\ at[c] = "installing dependencies"
    /\ todo[c] = <<>>
    /\ Goto(c, "building")
    /\ UNCHANGED <<contextVars, packageVars, serviceVars>>

DependenciesDone(c) ==
    /\ at[c] = "installing dependencies"
    /\ child[c] = Nothing
    /\ todo[c] = <<>>
    /\ Goto(c, "building")
    /\ UNCHANGED <<contextVars, packageVars, serviceVars>>

(* The plugin's own script: what it makes is under the build directory.    *)
Build(c) ==
    /\ at[c] = "building"
    /\ Goto(c, "packaging") \/ Fails(c, "build", {"command", "other"})
    /\ UNCHANGED <<contextVars, packageVars, serviceVars>>

(* The script again, the copy of the plugin's data, the debian files and   *)
(* dpkg-deb, all under the build directory.                                *)
Package(c) ==
    /\ at[c] = "packaging"
    /\ Goto(c, "updating") \/ Fails(c, "build", {"command", "other"})
    /\ UNCHANGED <<contextVars, packageVars, serviceVars>>

(* A plugin without debian_depends needs no apt-get update.  One without   *)
(* dependencies may have some of its own.                                  *)
SkipUpdate(c) ==
    /\ at[c] = "updating"
    /\ call[c].phase = "idle"
    /\ Depends[Plugin(c)] = <<>>
    /\ Goto(c, "installing")
    /\ UNCHANGED <<contextVars, packageVars, serviceVars>>

RootCommand(c) ==
    [name |-> CASE at[c] = "updating" -> "update"
                [] at[c] = "installing" -> "install"
                [] OTHER -> "uninstall",
     plugin |-> Plugin(c),
     version |-> version[c]]

(* Mutant: the build directory goes as soon as the command is sent.        *)
AskAndClean(c) ==
    /\ at[c] \in {"updating", "installing", "removing"}
    /\ Service!Invoke(c, RootCommand(c))
    /\ disk' = [disk EXCEPT ![c] = @ \ {"build"}]
    /\ UNCHANGED <<contextVars, at, told, clause, packageVars>>

Ask(c) ==
    /\ at[c] \in {"updating", "installing", "removing"}
    /\ Service!Invoke(c, RootCommand(c))
    /\ UNCHANGED <<contextVars, handlerVars, packageVars>>

(* Mutant: the result of the command is not looked at.                     *)
AnsweredUnchecked(c) ==
    /\ Service!Return(c)
    /\ Goto(c, CASE at[c] = "updating" -> "installing"
                 [] at[c] = "installing" -> "cleaning"
                 [] OTHER -> "completed")
    /\ UNCHANGED <<contextVars, packageVars>>

(* Mutant: a failure is neither an error nor a success.                    *)
AnsweredOk(c) ==
    /\ Service!Return(c)
    /\ call[c].ok
    /\ Goto(c, CASE at[c] = "updating" -> "installing"
                 [] at[c] = "installing" -> "cleaning"
                 [] OTHER -> "completed")
    /\ UNCHANGED <<contextVars, packageVars>>

Answered(c) ==
    /\ Service!Return(c)
    /\ \/ call[c].ok /\ Goto(c, CASE at[c] = "updating" -> "installing"
                                  [] at[c] = "installing" -> "cleaning"
                                  [] OTHER -> "completed")
       \/ ~call[c].ok /\ Handle(c, "other")
    /\ UNCHANGED <<contextVars, packageVars>>

(* The worker is dead: SystemExit is caught by no clause.                  *)
Exits(c) ==
    /\ Service!Forget(c)
    /\ Goto(c, "exited")
    /\ UNCHANGED <<contextVars, packageVars>>

Clean(c) ==
    /\ at[c] = "cleaning"
    /\ \/ /\ disk' = [disk EXCEPT ![c] = @ \ {"build"}]
          /\ at' = [at EXCEPT ![c] = "completed"]
          /\ UNCHANGED <<told, clause>>
       \/ Fails(c, "clean", {"other"})
    /\ UNCHANGED <<contextVars, packageVars, serviceVars>>

Complete(c) ==
    /\ at[c] = "completed"
    /\ at' = [at EXCEPT ![c] = "returned"]
    /\ told' = [told EXCEPT ![c] = Append(@, "completed")]
    /\ UNCHANGED <<contextVars, disk, clause, packageVars, serviceVars>>

-----------------------------------------------------------------------------
(* The root worker and the packages.                                       *)

(* gdebi takes a package whose dependencies are installed.                 *)
Ready(p) == \A q \in DependsOn(p) : pkg[q].configured

(* apt-get remove takes with a package those that depend on it.            *)
RemovedWith(p) ==
    {q \in Plugins : \A S \in SUBSET Plugins :
        p \in S /\ (\A r \in Plugins : DependsOn(r) \intersect S # {} => r \in S)
            => q \in S}

BeginCommand(c) ==
    /\ Service!Begin(c)
    /\ stage' = "begun"
    /\ UNCHANGED <<contextVars, handlerVars, pkg>>

(* gdebi and apt-get are processes of their own: what they have begun goes *)
(* on when the worker is killed.                                           *)
Unpack(c) ==
    LET m == call[c].cmd IN
    /\ Service!Running(c)
    /\ m.name = "install"
    /\ stage = "begun"
    /\ Ready(m.plugin)
    /\ pkg' = [pkg EXCEPT ![m.plugin] = [version |-> m.version, configured |-> FALSE]]
    /\ stage' = "unpacked"
    /\ UNCHANGED <<contextVars, handlerVars, serviceVars>>

(* The package's scripts are run.                                          *)
Configure(c) ==
    LET m == call[c].cmd IN
    /\ Service!Running(c)
    /\ m.name = "install"
    /\ stage = "unpacked"
    /\ pkg' = [pkg EXCEPT ![m.plugin].configured = TRUE]
    /\ stage' = "done"
    /\ UNCHANGED <<contextVars, handlerVars, serviceVars>>

(* One package after the other, those that depend on it first.             *)
RemovePackage(c, p) ==
    LET m == call[c].cmd IN
    /\ Service!Running(c)
    /\ m.name = "uninstall"
    /\ p \in RemovedWith(m.plugin)
    /\ Installed(p)
    /\ \A q \in Plugins : Installed(q) => p \notin DependsOn(q)
    /\ pkg' = [pkg EXCEPT ![p] = Absent]
    /\ UNCHANGED <<contextVars, handlerVars, stage, serviceVars>>

Finished(m) ==
    /\ m.name = "install" => stage = "done"
    /\ m.name = "uninstall" => \A p \in RemovedWith(m.plugin) : ~Installed(p)

(* A command fails at any point, and when it is done too: the worker       *)
(* cannot decode the output of a command that went well.  gdebi refuses a  *)
(* package without its dependencies.                                       *)
FinishCommand(c) ==
    LET m == call[c].cmd IN
    /\ Service!Running(c)
    /\ \/ Finished(m) /\ Service!Finish(c, TRUE)
       \/ /\ \/ "command" \in Faults
             \/ m.name = "install" /\ stage = "begun" /\ ~Ready(m.plugin)
          /\ Service!Finish(c, FALSE)
    /\ stage' = "none"
    /\ UNCHANGED <<contextVars, handlerVars, pkg>>

Refused(c) ==
    /\ Service!Refuse(c)
    /\ UNCHANGED <<contextVars, handlerVars, packageVars>>

WorkerDies ==
    /\ "worker" \in Faults
    /\ Service!Down
    /\ UNCHANGED <<contextVars, handlerVars, packageVars>>

-----------------------------------------------------------------------------

TaskStep(c) ==
    \/ PublishFails(c)
    \/ Execute(c)
    \/ Starting(c)
    \/ Download(c)
    \/ LookUp(c)
    \/ Mark(c)
    \/ Choose(c)
    \/ Extract(c)
    \/ Validate(c)
    \/ \E d \in Contexts : InstallDependency(c, d)
    \/ DependencyEnds(c)
    \/ DependenciesDone(c)
    \/ Build(c)
    \/ Package(c)
    \/ SkipUpdate(c)
    \/ Ask(c)
    \/ Answered(c)
    \/ Exits(c)
    \/ Clean(c)
    \/ Complete(c)
    \/ HandlerCleans(c)
    \/ HandlerTells(c)

Work(c) == Unpack(c) \/ Configure(c) \/ \E p \in Plugins : RemovePackage(c, p)

ServiceStep(c) == BeginCommand(c) \/ Work(c) \/ FinishCommand(c) \/ Refused(c)

Next ==
    \/ \E c \in Contexts :
          \/ \E o \in Orders : Submit(c, o)
          \/ TaskStep(c)
          \/ ServiceStep(c)
    \/ WorkerDies

Spec == Init /\ [][Next]_taskVars

(* Executor threads, the worker and its commands keep running; RootWorker's*)
(* liveness is what stands behind BeginCommand and FinishCommand.  Requests*)
(* are never owed.                                                         *)
Fairness ==
    \A c \in Contexts :
        /\ WF_taskVars(TaskStep(c))
        /\ WF_taskVars(BeginCommand(c))
        /\ WF_taskVars(Work(c))
        /\ WF_taskVars(FinishCommand(c))

FairSpec == Spec /\ Fairness

-----------------------------------------------------------------------------
(* Properties.                                                             *)

TaskTypeOK ==
    /\ order \in [Contexts -> Requests \union {NoOrder}]
    /\ at \in [Contexts -> Steps \union Between \union Ends \union {"free", "queued"}]
    /\ todo \in [Contexts -> Seq(Dependencies)]
    /\ child \in [Contexts -> Contexts \union {Nothing}]
    /\ look \in [Contexts -> [installed : Versions \union {0},
                              known : Versions \union {0},
                              choice : Versions \union {0}, next : Nat \ {0}]]
    /\ version \in [Contexts -> Versions \union {0}]
    /\ disk \in [Contexts -> SUBSET {"download", "build"}]
    /\ extracted \in [Contexts -> BOOLEAN]
    /\ told \in [Contexts -> Seq({"completed", "error"})]
    /\ clause \in [Contexts -> Seq({"clean", "completed", "error"})]
    /\ pkg \in [Plugins -> Packages]
    /\ stage \in {"none", "begun", "unpacked", "done"}
    /\ worker \in {"up", "down"}
    /\ call \in [Contexts ->
                    [phase : {"idle", "waiting", "running", "answered", "refused"},
                     cmd : Commands \union {Nothing}, ok : BOOLEAN]]

Over(c) == at[c] \in Ends

(* One verdict at most is published for a request, a task that returns has  *)
(* published one, and the installs of dependencies within it are over by    *)
(* then: _package_and_install_impl and _uninstall_and_publish, where a      *)
(* clause can itself raise and a parent's generic clause then speaks for    *)
(* the parent.  "completed" is the last thing a task does; after an error   *)
(* it may have its directory to remove (tasks.py:129-130), and nothing else.*)
AnswersAreFinal ==
    \A c \in Contexts :
        /\ Len(told[c]) <= 1
        /\ at[c] = "returned" => told[c] # <<>>
        /\ told[c] # <<>> =>
              /\ Over(c) \/ (at[c] = "handling" /\ clause[c] = <<"clean">>)
              /\ told[c] = <<"completed">> => Over(c)
              /\ \A d \in Contexts : order[d].parent = c => Over(d)

(* What the bus has said of a request: nothing at its end means that it is  *)
(* lost.                                                                    *)
Story(c) ==
    CASE at[c] = "free" -> "none"
      [] told[c] # <<>> -> told[c][1]
      [] Over(c) /\ told[c] = <<>> -> "lost"
      [] OTHER -> "open"

Stories == INSTANCE TaskStories WITH story <- [c \in Contexts |-> Story(c)],
                                     under <- [c \in Contexts |-> order[c].parent]

(* To a subscriber of the bus every request is a story that opens and       *)
(* closes once, and the stories of the dependencies open one after the      *)
(* other inside their parent's and close before it: tasks.py:224-246, where *)
(* a clause, a nested call or SystemExit may end a task anywhere.           *)
ImplementsStories == Stories!Spec

(* The .deb file is under the build directory.  It is there as long as the  *)
(* install command is on its way to the worker or running, whatever the     *)
(* other tasks clean up.                                                    *)
PackageKept ==
    \A c \in Contexts :
        /\ call[c].phase \in {"waiting", "running"}
        /\ call[c].cmd.name = "install"
        => "build" \in disk[c]

(* "completed" is published only after the build directory was removed:     *)
(* whoever waits for it finds nothing left in extract_dir                   *)
(* (test_plugin_installation.py:564), also when the plugin was there        *)
(* already and when the install nests others.                               *)
CompletedIsClean ==
    \A c \in Contexts : told[c] = <<"completed">> => "build" \notin disk[c]

(* Without the faults that leave what clean does not know of, a task that   *)
(* has ended leaves no directory behind, whether it succeeded or failed:    *)
(* _package_and_install_impl, whose clauses clean in three different orders.*)
NothingLeft == \A c \in Contexts : at[c] = "returned" => disk[c] = {}

(* Whatever fails, a task that has read plugin.yml and returns leaves only  *)
(* what no clause removes: the rest of a clone of which a subdirectory was  *)
(* moved (tasks.py:199), and the build directory of a plugin that failed    *)
(* validation (tasks.py:113-117), before anything was installed for it.     *)
LeftBehind ==
    \A c \in Contexts :
        at[c] = "returned" /\ extracted[c] =>
            /\ "download" \in disk[c] => order[c].subdirectory
            /\ "build" \in disk[c] =>
                  /\ told[c] = <<"error">>
                  /\ call[c].cmd = Nothing
                  /\ \A d \in Contexts : order[d].parent # c

(* The worker has reported the (un)install command of c done.               *)
Applied(c) ==
    /\ call[c].phase = "idle"
    /\ call[c].cmd # Nothing
    /\ call[c].cmd.name \in {"install", "uninstall"}
    /\ call[c].ok

(* A plugin that is reinstalled on request is installed again: "It is now   *)
(* possible to force the reinstallation of a plugin on POST /plugins with   *)
(* query parameter reinstall=True" (CHANGELOG.md:30).                       *)
ReinstallRuns ==
    \A c \in Contexts :
        told[c] = <<"completed">> /\ order[c].kind = "install" /\ order[c].reinstall
            => Applied(c)

(* A request that was taken is answered on the bus, when the worker lives,  *)
(* the bus takes the events and directories can be removed.                 *)
Answers == \A c \in Contexts : at[c] = "queued" ~> told[c] # <<>>

=============================================================================
