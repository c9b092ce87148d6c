------------------------ MODULE PackageOutcomeProofs ------------------------
(***************************************************************************)
(* What PackageHistory says of the packages, proved: "completed" was true  *)
(* at some moment of the task that says it.                                *)
(*                                                                         *)
(* The packages are changed by the commands of every task, at any moment   *)
(* of every other.  A task that has seen its plugin there can only say     *)
(* afterwards that it was there or has disappeared since; the history      *)
(* variable makes that a fact no later step can take back (HistoryStays),  *)
(* which the invariant carries from the look to the verdict.               *)
(***************************************************************************)
EXTENDS TaskOutcomeProofs, PackageHistory

(* A plugin is installed with all that it depends on.                      *)
Consistent ==
    /\ \A p \in Plugins : pkg[p].configured => Installed(p)
    /\ \A p \in Plugins : Installed(p) => \A q \in DependsOn(p) : Installed(q)

(* What the running command has unpacked is there.                         *)
Working ==
    \A c \in Contexts :
        Service!Running(c) /\ stage \in {"unpacked", "done"} =>
            call[c].cmd.name = "install" /\ Installed(call[c].cmd.plugin)

PInv == Consistent /\ Working

(* The steps that have a version, and those before the root command.       *)
Fetched == Built \union {"extracting"}
Uncalled == {"free", "queued", "starting", "downloading", "choosing", "extracting",
             "validating", "installing dependencies", "building", "packaging"}

Versioned(c) ==
    /\ at[c] # "free" /\ order[c].kind = "install" /\ order[c].method = "git"
          => order[c].version # 0
    /\ at[c] \in Fetched => version[c] # 0

(* A task makes each of its commands once.                                 *)
CommandOK(c) ==
    /\ at[c] \in Uncalled => call[c].cmd = Nothing
    /\ call[c].phase = "idle" =>
          /\ at[c] \in {"updating", "removing"} => call[c].cmd = Nothing
          /\ at[c] = "installing" /\ call[c].cmd # Nothing => call[c].cmd.name = "update"
    /\ call[c].phase \in {"waiting", "running", "refused"} => ~call[c].ok
    /\ call[c].cmd # Nothing =>
          /\ call[c].cmd.plugin = Plugin(c)
          /\ call[c].cmd.name = "uninstall" <=> order[c].kind = "uninstall"
          /\ call[c].cmd.name = "install" =>
                /\ call[c].cmd.version # 0
                /\ at[c] \in {"installing", "cleaning", "completed", "handling"} \union Ends

(* A task on its way to "completed" has had its command succeed.           *)
Ended(c) ==
    /\ at[c] \in {"cleaning", "completed"} => Applied(c)
    /\ Completed(c, "uninstall") => Applied(c)

CommandsOK == \A c \in Contexts : Versioned(c) /\ CommandOK(c) /\ Ended(c)

(* What was there, or was not, at some moment since c began.               *)
WasThere(p, c) == Installed(p) \/ p \in since[c].gone
WasGone(p, c) == ~Installed(p) \/ p \in since[c].came

Needs(c) == DependsOn(Plugin(c)) \union {Plugin(c)}
There(c) == \A p \in Needs(c) : WasThere(p, c)
Gone(c) == \A p \in RemovedWith(Plugin(c)) : WasGone(p, c)

(* The versions looked at so far were none to take, for they did not fit.  *)
NoneFits(c) ==
    \A i \in 1..Len(Market[Plugin(c)]) :
        i < look[c].next /\ Wanted(c, Market[Plugin(c)][i].version)
            => ~Market[Plugin(c)][i].fits

Looked(c) ==
    at[c] = "choosing" =>
        /\ look[c].installed # 0 \/ look[c].known # 0 => There(c)
        /\ look[c].known = 0 /\ look[c].choice = 0 => NoneFits(c)

Done(c) ==
    call[c].cmd # Nothing /\ call[c].phase \notin {"waiting", "running"} /\ call[c].ok

InstallKept(c) ==
    /\ Done(c) /\ call[c].cmd.name = "install" => There(c)
    /\ Granted(c) \/ Completed(c, "install") => There(c) \/ NothingFits(c)

UninstallKept(c) == Done(c) /\ call[c].cmd.name = "uninstall" => Gone(c)

HInv == \A c \in Contexts : Looked(c) /\ InstallKept(c) /\ UninstallKept(c)

-----------------------------------------------------------------------------
(* The dependencies.                                                       *)

LEMMA DependsOnPlugins ==
    ASSUME NEW p \in Plugins PROVE DependsOn(p) \subseteq Plugins
  <1>1. Depends[p] \in Seq(Dependencies)
    BY PluginTasksAssumption
  <1>2. ASSUME NEW i \in 1..Len(Depends[p]) PROVE Depends[p][i].plugin \in Plugins
    <2>1. Depends[p][i] \in Dependencies
      BY <1>1, ElementOfSeq
    <2> QED
      BY <2>1 DEF Dependencies
  <1> QED
    BY <1>2 DEF DependsOn

(* apt-get removes a package with what depends on it, so what it leaves    *)
(* depends on nothing it removes.                                          *)
LEMMA RemovedWithItself ==
    ASSUME NEW p \in Plugins PROVE p \in RemovedWith(p)
  BY DEF RemovedWith

LEMMA RemovedWithDependents ==
    ASSUME NEW p \in Plugins, NEW q \in RemovedWith(p), NEW r \in Plugins,
           q \in DependsOn(r)
    PROVE  r \in RemovedWith(p)
  <1> DEFINE Closed(S) ==
                p \in S /\ (\A s \in Plugins : DependsOn(s) \intersect S # {} => s \in S)
  <1>1. SUFFICES ASSUME NEW S \in SUBSET Plugins, Closed(S) PROVE r \in S
    BY DEF RemovedWith
  <1>2. q \in S
    BY <1>1 DEF RemovedWith
  <1> QED
    BY <1>1, <1>2

-----------------------------------------------------------------------------
(* The commands of a task.                                                 *)

(* A request is an install or an uninstall, and which it is stays.         *)
LEMMA KindOfOrder ==
    ASSUME IInv, LInv, NEW c \in Contexts
    PROVE  /\ at[c] = "free" => order[c].kind = "none"
           /\ at[c] # "free" => order[c].kind \in {"install", "uninstall"}
           /\ at[c] \in {"updating", "installing", "cleaning"} => order[c].kind = "install"
           /\ at[c] = "removing" => order[c].kind = "uninstall"
  <1>1. at[c] = "free" => order[c].kind = "none"
    BY DEF IInv, ContextOK, NoOrder
  <1>2. ASSUME at[c] # "free" PROVE order[c].kind \in {"install", "uninstall"}
    <2>1. order[c] \in Requests
      BY <1>2 DEF IInv, ContextOK
    <2> QED
      BY <2>1 DEF Requests
  <1>3. Course(c)
    BY DEF LInv
  <1> QED
    BY <1>1, <1>2, <1>3 DEF Course, InstallSteps

LEMMA SameOrder ==
    ASSUME NEW c \in Contexts, Kinds(c)
    PROVE  Born(c) \/ order'[c] = order[c]
  BY DEF Kinds, Quiet, Same, InCall, Handled, Handling, Onward, Exited, Concluded

(* The root command of the step it is at.                                  *)
LEMMA CommandOf ==
    ASSUME IInv, LInv, NEW c \in Contexts, at[c] \in {"updating", "installing", "removing"}
    PROVE  /\ RootCommand(c) \in Commands /\ RootCommand(c) # Nothing
           /\ RootCommand(c).plugin = Plugin(c) /\ Plugin(c) \in Plugins
           /\ RootCommand(c).version = version[c]
           /\ \/ /\ at[c] = "updating" /\ RootCommand(c).name = "update"
                 /\ order[c].kind = "install"
              \/ /\ at[c] = "installing" /\ RootCommand(c).name = "install"
                 /\ order[c].kind = "install"
              \/ /\ at[c] = "removing" /\ RootCommand(c).name = "uninstall"
                 /\ order[c].kind = "uninstall"
  <1>1. at[c] \in Stays
    BY DEF Stays, Steps, InstallSteps, UninstallSteps
  <1>2. RootCommand(c) \in Commands /\ RootCommand(c) # Nothing
    BY <1>1, RootCommandType, PluginTasksAssumption
  <1>3. Plugin(c) \in Plugins
    BY <1>1, SoloStep
  <1> QED
    BY <1>2, <1>3, KindOfOrder DEF RootCommand

(* Every step keeps the version of a task that has downloaded.             *)
LEMMA VersionStays ==
    ASSUME IInv, [Next]_taskVars, NEW c \in Contexts, at[c] \notin {"downloading", "choosing"}
    PROVE  version'[c] = version[c]
  <1>1. ASSUME NEW d \in Contexts, Download(d) \/ Choose(d) PROVE version'[c] = version[c]
    <2>1. d # c
      BY <1>1 DEF Download, Choose
    <2>2. ASSUME NEW v, Fetch(d, v) PROVE version'[c] = version[c]
      BY <2>1, <2>2 DEF Fetch, IInv, TaskTypeOK
    <2> QED
      BY <1>1, <2>2 DEF Download, Choose
  <1>2. ASSUME NEW d \in Contexts, TaskStep(d) PROVE Download(d) \/ Choose(d) \/ UNCHANGED version
    BY <1>2 DEF TaskStep, PublishFails, Execute, Starting, LookUp, Mark, Extract, Validate,
                InstallDependency, DependencyEnds, DependenciesDone, Build, Package,
                SkipUpdate, Ask, Answered, Exits, Clean, Complete, HandlerCleans,
                HandlerTells, contextVars
  <1>3. ASSUME NEW d \in Contexts, ServiceStep(d) PROVE UNCHANGED version
    BY <1>3 DEF ServiceStep, BeginCommand, Work, Unpack, Configure, RemovePackage,
                FinishCommand, Refused, contextVars
  <1>4. CASE WorkerDies \/ UNCHANGED taskVars
    BY <1>4 DEF WorkerDies, taskVars, contextVars
  <1>5. ASSUME NEW d \in Contexts, NEW o \in Orders, Submit(d, o) PROVE UNCHANGED version
    BY <1>5 DEF Submit
  <1> QED
    BY <1>1, <1>2, <1>3, <1>4, <1>5 DEF Next

LEMMA VersionedKept ==
    ASSUME IInv, LInv, [Next]_taskVars, NEW c \in Contexts, Versioned(c), Kinds(c)
    PROVE  Versioned(c)'
  <1>1. ASSUME at'[c] # "free", order'[c].kind = "install", order'[c].method = "git"
        PROVE  order'[c].version # 0
    <2>1. CASE order'[c] = order[c] /\ at[c] # "free"
      BY <1>1, <2>1 DEF Versioned
    <2>2. CASE Born(c)
      BY <1>1, <2>2, PluginTasksAssumption DEF Born
    <2>3. at[c] = "free" => Born(c)
      BY <1>1 DEF Kinds, Quiet, Same, InCall, Handled, Handling, Onward, Exited,
                  Concluded, Stays, Steps, InstallSteps, UninstallSteps
    <2> QED
      BY <2>1, <2>2, <2>3, SameOrder
  <1>2. ASSUME at'[c] \in Fetched PROVE version'[c] # 0
    <2>1. CASE at[c] \in {"downloading", "choosing"}
      <3>1. version'[c] \in Versions \/ (order[c].method = "git" /\ version'[c] = order[c].version)
        BY <1>2, <2>1 DEF Kinds, Quiet, Same, Born, InCall, Handled, Handling, Onward,
                          Exited, Concluded, Fetched, Built
      <3>2. order[c].kind = "install"
        BY <2>1 DEF LInv, Course, InstallSteps
      <3> QED
        BY <2>1, <3>1, <3>2, PluginTasksAssumption DEF Versioned
    <2>2. CASE at[c] \notin {"downloading", "choosing"}
      <3>1. at[c] \in Fetched
        BY <1>2, <2>2 DEF Kinds, Quiet, Same, Born, InCall, Handled, Handling, Cleared,
                          Spoken, GivenUp, Onward, Exited, Concluded, Fetched, Built
      <3> QED
        BY <2>2, <3>1, VersionStays DEF Versioned
    <2> QED
      BY <2>1, <2>2
  <1> QED
    BY <1>1, <1>2 DEF Versioned

LEMMA CommandKept ==
    ASSUME IInv, IInv', LInv, NEW c \in Contexts, Versioned(c), CommandOK(c), Kinds(c)
    PROVE  CommandOK(c)'
  <1>1. call'[c].phase # "idle" => at'[c] \in {"updating", "installing", "removing"}
    BY DEF IInv, ContextOK, InTheCall
  <1>2. CASE Quiet(c)
    BY <1>2 DEF Quiet, Same, CommandOK, Plugin
  <1>3. CASE Born(c)
    <2>1. at'[c] \in {"queued", "starting"} /\ call'[c].cmd = Nothing
      BY <1>3 DEF Born, CommandOK, Uncalled
    <2> QED
      BY <1>1, <2>1 DEF CommandOK
  <1>4. CASE InCall(c)
    <2>1. /\ at[c] \in {"updating", "installing", "removing"}
          /\ at'[c] = at[c] /\ order'[c] = order[c]
          /\ Called(call[c], call'[c])
          /\ call'[c].cmd = RootCommand(c)
      BY <1>4 DEF InCall, Same
    <2>2. call'[c].phase \in {"waiting", "running", "refused"} => ~call'[c].ok
      BY <2>1 DEF Called, CommandOK
    <2>3. call'[c].phase # "idle"
      BY <2>1 DEF Called
    <2>4. version[c] # 0 \/ at[c] = "removing"
      BY <2>1 DEF Versioned, Fetched, Built
    <2> QED
      BY <2>1, <2>2, <2>3, <2>4, CommandOf DEF CommandOK, Plugin, Uncalled
  <1>5. ASSUME at'[c] \in Ends \union {"handling"}, order'[c] = order[c],
               call'[c].cmd = call[c].cmd
        PROVE  CommandOK(c)'
    <2>1. call'[c].phase = "idle" /\ at'[c] \in {"returned", "escaped", "exited", "handling"}
      BY <1>1, <1>5 DEF Ends
    <2> QED
      BY <1>5, <2>1 DEF CommandOK, Plugin, Uncalled, Ends
  <1>6. CASE Onward(c)
    <2>1. order'[c] = order[c] /\ call'[c].phase = "idle" /\ call'[c].cmd = call[c].cmd
      BY <1>6 DEF Onward
    <2>2. at'[c] \in Uncalled => at[c] \in Uncalled
      BY <1>6 DEF Onward, Uncalled
    <2>3. at'[c] \in {"updating", "removing"} => at[c] \in Uncalled
      BY <1>6 DEF Onward, Uncalled
    <2>4. at'[c] = "installing" /\ call[c].cmd # Nothing => call[c].cmd.name = "update"
      BY <1>6 DEF Onward, CommandOK
    <2>5. ASSUME call[c].cmd # Nothing, call[c].cmd.name = "install"
          PROVE  at'[c] \in {"installing", "cleaning", "completed"}
      <3>1. at[c] \in {"installing", "cleaning", "completed", "handling"} \union Ends
        BY <2>5 DEF CommandOK
      <3> QED
        BY <1>6, <3>1 DEF Onward, Ends
    <2> QED
      BY <2>1, <2>2, <2>3, <2>4, <2>5 DEF CommandOK, Plugin
  <1>7. ASSUME NEW error, NEW left, Handled(c, error, left) PROVE CommandOK(c)'
    BY <1>5, <1>7 DEF Handled, Ends
  <1>8. CASE Handling(c) \/ Exited(c) \/ Concluded(c)
    BY <1>5, <1>8 DEF Handling, Cleared, Spoken, GivenUp, Exited, Concluded, Ends
  <1> QED
    BY <1>2, <1>3, <1>4, <1>6, <1>7, <1>8 DEF Kinds

(* "completed" is said, or to be said, at the end of an install or an      *)
(* uninstall, or of an install that was found unnecessary.                 *)
LEMMA CompletedFrom ==
    ASSUME IInv, LInv, NEW c \in Contexts, Kinds(c),
           Granted(c)' \/ told'[c] = <<"completed">>
    PROVE  \/ Granted(c) \/ told[c] = <<"completed">>
           \/ Concluded(c)
           \/ order[c].kind = "install" /\ (AlreadyThere(c) \/ Unneeded(c))
  <1>1. CASE told'[c] = told[c] /\ clause'[c] = clause[c]
    BY <1>1 DEF Granted
  <1>2. ASSUME NEW error, NEW left, Handled(c, error, left)
        PROVE  order[c].kind = "install" /\ (AlreadyThere(c) \/ Unneeded(c))
    <2>1. /\ told'[c] = <<>> /\ clause'[c] = Clause(c, error)
          /\ order[c].kind \in {"install", "uninstall"}
      BY <1>2, SoloStep DEF Handled, Requests
    <2>2. Granted(c)'
      BY <2>1, Verdicts
    <2>3. order[c].kind = "install" /\ error \in {"already", "dependency"}
      <3>1. clause'[c] # <<"error">>
        BY <2>2, Verdicts, Clauses DEF Granted
      <3> QED
        BY <2>1, <2>2, <3>1, ClauseFor, ClauseOf, Clauses DEF Granted
    <2> QED
      BY <1>2, <2>3 DEF Handled
  <1>3. CASE Handling(c)
    BY <1>3, Clauses, Verdicts DEF Handling, Cleared, Spoken, GivenUp, Granted
  <1> QED
    BY <1>1, <1>2, <1>3 DEF Kinds, Quiet, Same, Born, InCall, Onward, Exited

LEMMA EndedKept ==
    ASSUME IInv, IInv', LInv, NEW c \in Contexts, CommandOK(c), Ended(c), Kinds(c)
    PROVE  Ended(c)'
  <1>1. ASSUME at'[c] \in {"cleaning", "completed"} PROVE Applied(c)'
    <2>1. CASE at[c] \in {"cleaning", "completed"}
      <3>1. Applied(c) /\ call'[c] = call[c]
        BY <1>1, <2>1 DEF Ended, Kinds, Quiet, Same, Born, InCall, Handled, Handling,
                          Onward, Exited, Concluded
      <3> QED
        BY <3>1 DEF Applied
    <2>2. CASE at[c] \notin {"cleaning", "completed"}
      <3>1. /\ Onward(c) /\ at[c] \in {"installing", "removing"}
            /\ call[c].phase = "answered"
            /\ call'[c].phase = "idle" /\ call'[c].ok /\ call'[c].cmd = call[c].cmd
        BY <1>1, <2>2 DEF Kinds, Quiet, Same, Born, InCall, Handled, Handling, Cleared,
                          Spoken, GivenUp, Onward, Exited, Concluded
      <3>2. call[c].cmd = RootCommand(c)
        BY <3>1, OpenCall
      <3> QED
        BY <3>1, <3>2, CommandOf DEF Applied
    <2> QED
      BY <2>1, <2>2
  <1>2. ASSUME Completed(c, "uninstall")' PROVE Applied(c)'
    <2>1. /\ told'[c] = <<"completed">> /\ order'[c].kind = "uninstall"
      BY <1>2 DEF Completed
    <2>2. ~Born(c)
      BY <2>1, Verdicts DEF Born, IInv, ContextOK, Telling
    <2>3. order[c].kind = "uninstall" /\ ~Granted(c)
      BY <2>1, <2>2, SameOrder DEF LInv, Course
    <2>4. CASE Concluded(c)
      BY <2>4 DEF Concluded, Ended, Applied
    <2>5. CASE told[c] = <<"completed">>
      <3>1. at[c] \in Ends
        BY <2>5, Verdicts DEF IInv, ContextOK, Telling, TaskTypeOK, Stays, Between
      <3>2. Quiet(c)
        BY <3>1 DEF Kinds, Born, InCall, Handled, Handling, Onward, Exited, Concluded,
                    Ends, Stays, Steps, InstallSteps, UninstallSteps
      <3>3. Applied(c)
        BY <2>3, <2>5 DEF Ended, Completed
      <3> QED
        BY <3>2, <3>3 DEF Quiet, Applied
    <2> QED
      BY <2>1, <2>3, <2>4, <2>5, CompletedFrom
  <1> QED
    BY <1>1, <1>2 DEF Ended

LEMMA CommandsInductive == Spec => []CommandsOK
  <1>1. ASSUME Init PROVE CommandsOK
    <2>1. ASSUME NEW c \in Contexts PROVE Versioned(c) /\ CommandOK(c) /\ Ended(c)
      <3>1. /\ at[c] = "free" /\ call[c] = Service!NoCall /\ told[c] = <<>>
            /\ call[c].cmd = Nothing /\ call[c].phase = "idle"
        BY <1>1 DEF Init, Service!NoCall
      <3> QED
        BY <3>1, Verdicts DEF Versioned, Fetched, Built, CommandOK, Ended, Completed
    <2> QED
      BY <2>1 DEF CommandsOK
  <1>2. ASSUME IInv, IInv', LInv, CommandsOK, [Next]_taskVars PROVE CommandsOK'
    <2>1. ASSUME NEW c \in Contexts
          PROVE  Versioned(c)' /\ CommandOK(c)' /\ Ended(c)'
      <3>1. Kinds(c) /\ Versioned(c) /\ CommandOK(c) /\ Ended(c)
        BY <1>2, StepKind DEF StepOf, Kinds, CommandsOK
      <3> QED
        BY <1>2, <3>1, VersionedKept, CommandKept, EndedKept
    <2> QED
      BY <2>1 DEF CommandsOK
  <1> QED
    BY <1>1, <1>2, TasksInductive, LInvInductive, PTL DEF Spec

-----------------------------------------------------------------------------
(* What the commands do to the packages.                                   *)

(* Nothing else changes the packages or begins a command.                  *)
LEMMA OtherSteps ==
    ASSUME IInv, [Next]_taskVars
    PROVE  \/ \E c \in Contexts : BeginCommand(c) \/ Work(c) \/ FinishCommand(c)
           \/ /\ UNCHANGED packageVars
              /\ \A c \in Contexts : call'[c].phase = "running" => call'[c] = call[c]
  <1>1. ASSUME NEW d \in Contexts, NEW k, k.phase # "running",
               call' = [call EXCEPT ![d] = k]
        PROVE  \A c \in Contexts : call'[c].phase = "running" => call'[c] = call[c]
    BY <1>1 DEF IInv, TaskTypeOK
  <1>2. ASSUME NEW d \in Contexts, Ask(d) \/ Answered(d) \/ Exits(d) \/ Refused(d)
        PROVE  /\ UNCHANGED packageVars
               /\ \A c \in Contexts : call'[c].phase = "running" => call'[c] = call[c]
    <2>1. UNCHANGED packageVars
      BY <1>2 DEF Ask, Answered, Exits, Refused
    <2>2. CASE Ask(d)
      <3>1. call' = [call EXCEPT ![d] = [phase |-> "waiting", cmd |-> RootCommand(d),
                                         ok |-> FALSE]]
        BY <2>2 DEF Ask, Service!Invoke
      <3> QED
        BY <1>1, <2>1, <3>1
    <2>3. ASSUME NEW place \in {"idle", "refused"}, call' = [call EXCEPT ![d].phase = place]
          PROVE  \A c \in Contexts : call'[c].phase = "running" => call'[c] = call[c]
      BY <2>3 DEF IInv, TaskTypeOK
    <2> QED
      BY <1>2, <2>1, <2>2, <2>3 DEF Answered, Exits, Refused, Service!Return,
                                    Service!Forget, Service!Refuse
  <1>3. ASSUME NEW d \in Contexts, TaskStep(d), ~(Ask(d) \/ Answered(d) \/ Exits(d))
        PROVE  UNCHANGED packageVars /\ call' = call
    BY <1>3 DEF TaskStep, PublishFails, Execute, Starting, Download, LookUp, Mark, Choose,
                Extract, Validate, InstallDependency, DependencyEnds, DependenciesDone,
                Build, Package, SkipUpdate, Clean, Complete, HandlerCleans, HandlerTells,
                serviceVars
  <1>4. ASSUME NEW d \in Contexts, NEW o \in Orders, Submit(d, o)
        PROVE  UNCHANGED packageVars /\ call' = call
    BY <1>4 DEF Submit, serviceVars
  <1>5. CASE WorkerDies \/ UNCHANGED taskVars
    BY <1>5 DEF WorkerDies, Service!Down, taskVars, serviceVars
  <1> QED
    BY <1>2, <1>3, <1>4, <1>5 DEF Next, ServiceStep

(* The command that runs, and whose it is.                                 *)
LEMMA RunningCommand ==
    ASSUME IInv, LInv, CommandsOK, NEW c \in Contexts, call[c].phase = "running"
    PROVE  /\ call[c].cmd.plugin = Plugin(c) /\ Plugin(c) \in Plugins
           /\ call[c].cmd # Nothing
           /\ call[c].cmd.name = "install" => call[c].cmd.version # 0
  <1>1. call[c].cmd = RootCommand(c) /\ at[c] \in {"updating", "installing", "removing"}
    BY OpenCall
  <1>2. call[c].cmd # Nothing /\ call[c].cmd.plugin = Plugin(c) /\ Plugin(c) \in Plugins
    BY <1>1, CommandOf
  <1> QED
    BY <1>2 DEF CommandsOK, CommandOK

LEMMA UnpackKeeps ==
    ASSUME IInv, LInv, CommandsOK, OneCommand, PInv, NEW c \in Contexts,
           Unpack(c) \/ Configure(c)
    PROVE  PInv' /\ \A q \in Plugins : Installed(q) => Installed(q)'
  <1>1. /\ call[c].phase = "running" /\ call[c].cmd.name = "install" /\ call' = call
    BY DEF Unpack, Configure, Service!Running, serviceVars
  <1>2. PICK p \in Plugins : p = call[c].cmd.plugin
    BY <1>1, RunningCommand
  <1>3. pkg'[p].version # 0 /\ \A q \in Plugins \ {p} : pkg'[q] = pkg[q]
    <2>1. CASE Unpack(c)
      <3>1. call[c].cmd.version # 0
        BY <1>1, RunningCommand
      <3> QED
        BY <1>2, <2>1, <3>1 DEF Unpack, IInv, TaskTypeOK
    <2>2. CASE Configure(c)
      <3>1. pkg' = [pkg EXCEPT ![p] = [pkg[p] EXCEPT !.configured = TRUE]]
        BY <1>2, <2>2 DEF Configure
      <3>2. pkg[p].version # 0
        BY <1>2, <2>2 DEF Configure, PInv, Working, Installed
      <3>3. pkg'[p].version = pkg[p].version
        BY <3>1 DEF IInv, TaskTypeOK, Packages
      <3> QED
        BY <3>1, <3>2, <3>3 DEF IInv, TaskTypeOK
    <2> QED
      BY <2>1, <2>2
  <1>4. \A q \in Plugins : Installed(q) => Installed(q)'
    BY <1>3 DEF Installed
  <1>5. Installed(p)' /\ \A q \in DependsOn(p) : Installed(q)
    <2>1. Installed(p)'
      BY <1>3 DEF Installed
    <2>2. CASE Unpack(c)
      <3>1. Ready(p)
        BY <1>2, <2>2 DEF Unpack
      <3>2. DependsOn(p) \subseteq Plugins
        BY DependsOnPlugins
      <3> QED
        BY <2>1, <3>1, <3>2 DEF Ready, PInv, Consistent
    <2>3. CASE Configure(c)
      <3>1. Installed(p)
        BY <1>2, <2>3 DEF Configure, PInv, Working
      <3> QED
        BY <2>1, <3>1 DEF PInv, Consistent
    <2> QED
      BY <2>1, <2>2, <2>3
  <1>6. Consistent'
    <2>1. \A q \in Plugins : pkg'[q].configured => Installed(q)'
      BY <1>3, <1>5 DEF PInv, Consistent, Installed
    <2>2. ASSUME NEW r \in Plugins, Installed(r)', NEW q \in DependsOn(r)
          PROVE  Installed(q)'
      <3>1. q \in Plugins
        BY DependsOnPlugins
      <3>2. Installed(q)
        BY <1>3, <1>5, <2>2 DEF PInv, Consistent, Installed
      <3> QED
        BY <1>4, <3>1, <3>2
    <2> QED
      BY <2>1, <2>2 DEF Consistent
  <1>7. Working'
    <2>1. ASSUME NEW d \in Contexts, call'[d].phase = "running" PROVE d = c
      BY <1>1, <2>1 DEF OneCommand, Service!Running
    <2>2. call'[c].cmd.plugin = p /\ call'[c].cmd.name = "install"
      BY <1>1, <1>2
    <2>3. pkg'[call'[c].cmd.plugin].version # 0
      BY <1>3, <2>2
    <2> QED
      BY <2>1, <2>2, <2>3 DEF Working, Service!Running, Installed
  <1> QED
    BY <1>4, <1>6, <1>7 DEF PInv

LEMMA RemoveKeeps ==
    ASSUME IInv, LInv, CommandsOK, OneCommand, PInv, NEW c \in Contexts,
           NEW p \in Plugins, RemovePackage(c, p)
    PROVE  PInv'
  <1>1. /\ call[c].phase = "running" /\ call[c].cmd.name = "uninstall"
        /\ call' = call /\ stage' = stage
        /\ \A q \in Plugins : Installed(q) => p \notin DependsOn(q)
    BY DEF RemovePackage, Service!Running, serviceVars
  <1>2. /\ pkg'[p] = Absent
        /\ \A q \in Plugins \ {p} : pkg'[q] = pkg[q]
    BY DEF RemovePackage, IInv, TaskTypeOK
  <1>3. stage \notin {"unpacked", "done"}
    BY <1>1 DEF PInv, Working, Service!Running
  <1>4. \A q \in Plugins : pkg'[q].configured => Installed(q)'
    BY <1>2 DEF PInv, Consistent, Installed, Absent
  <1>5. ASSUME NEW r \in Plugins, Installed(r)', NEW q \in DependsOn(r)
        PROVE  Installed(q)'
    <2>1. q \in Plugins
      BY DependsOnPlugins
    <2>2. r # p /\ Installed(r)
      BY <1>2, <1>5 DEF Installed, Absent
    <2>3. q # p /\ Installed(q)
      BY <1>1, <1>5, <2>2 DEF PInv, Consistent
    <2> QED
      BY <1>2, <2>1, <2>3 DEF Installed
  <1> QED
    BY <1>1, <1>3, <1>4, <1>5 DEF PInv, Consistent, Working

LEMMA PackagesKept ==
    ASSUME IInv, LInv, CommandsOK, OneCommand, PInv, [Next]_taskVars
    PROVE  PInv'
  <1>1. CASE pkg' = pkg /\ stage' \in {"none", "begun"}
    BY <1>1 DEF PInv, Consistent, Working, Installed
  <1>2. ASSUME NEW c \in Contexts, BeginCommand(c) \/ FinishCommand(c) PROVE PInv'
    BY <1>1, <1>2 DEF BeginCommand, FinishCommand
  <1>3. ASSUME NEW c \in Contexts, Work(c) PROVE PInv'
    BY <1>3, UnpackKeeps, RemoveKeeps DEF Work
  <1>4. CASE /\ UNCHANGED packageVars
             /\ \A c \in Contexts : call'[c].phase = "running" => call'[c] = call[c]
    BY <1>4 DEF PInv, Consistent, Working, Installed, Service!Running, packageVars
  <1> QED
    BY <1>2, <1>3, <1>4, OtherSteps

THEOREM PackagesInductive == Spec => []PInv
  <1>1. Init => PInv
    BY PluginTasksAssumption
       DEF Init, PInv, Consistent, Working, Installed, Service!Running, Service!NoCall
  <1>2. IInv /\ LInv /\ CommandsOK /\ OneCommand /\ PInv /\ [Next]_taskVars => PInv'
    BY PackagesKept
  <1> QED
    BY <1>1, <1>2, TasksInductive, LInvInductive, CommandsInductive, TasksUseService, PTL
       DEF Spec

(* Whatever fails and however the tasks interleave, an installed plugin    *)
(* has all that it depends on.  gdebi and apt-get each see to it, and the  *)
(* worker runs them one after the other, so neither spoils it for the      *)
(* other, nor does a command that fails half-way.                          *)
THEOREM DependenciesStay == Spec => []Consistent
  <1>1. PInv => Consistent
    BY DEF PInv
  <1> QED
    BY <1>1, PackagesInductive, PTL

-----------------------------------------------------------------------------
(* What was seen stays true.                                               *)

LEMMA HistoryOfTasks == HistorySpec => Spec
  <1>1. HistoryInit => Init
    BY DEF HistoryInit
  <1>2. [HistoryNext]_historyVars => [Next]_taskVars
    BY DEF HistoryNext, historyVars
  <1> QED
    BY <1>1, <1>2, PTL DEF HistorySpec, Spec

LEMMA HistoryStays ==
    ASSUME [HistoryNext]_historyVars, NEW c \in Contexts, Began(c), ~Reported(c),
           NEW p \in Plugins
    PROVE  /\ WasThere(p, c) => WasThere(p, c)'
           /\ WasGone(p, c) => WasGone(p, c)'
  <1>1. CASE UNCHANGED historyVars
    BY <1>1 DEF historyVars, taskVars, packageVars, WasThere, WasGone, Installed
  <1>2. CASE HistoryNext
    <2>1. /\ since'[c].gone = since[c].gone \union Disappeared
          /\ since'[c].came = since[c].came \union Appeared
      BY <1>2 DEF HistoryNext, Remember
    <2> QED
      BY <2>1 DEF WasThere, WasGone, Disappeared, Appeared
  <1> QED
    BY <1>1, <1>2

(* Which packages a task is about.                                         *)
LEMMA Concerned ==
    ASSUME IInv, NEW c \in Contexts, at[c] # "free"
    PROVE  /\ Plugin(c) \in Plugins
           /\ Needs(c) \subseteq Plugins /\ RemovedWith(Plugin(c)) \subseteq Plugins
  <1>1. Plugin(c) \in Plugins
    BY DEF IInv, ContextOK, Requests, Plugin
  <1> QED
    BY <1>1, DependsOnPlugins DEF Needs, RemovedWith

LEMMA ReportedInCall ==
    ASSUME IInv, NEW c \in Contexts, Reported(c)
    PROVE  at[c] \in {"updating", "installing", "removing"}
  BY OpenCall DEF Reported

LEMMA AllStay ==
    ASSUME IInv, [HistoryNext]_historyVars, NEW c \in Contexts, Began(c),
           ~Reported(c), order'[c] = order[c]
    PROVE  /\ There(c) => There(c)'
           /\ Gone(c) => Gone(c)'
           /\ NothingFits(c) => NothingFits(c)'
  <1>1. Plugin(c)' = Plugin(c) /\ at[c] # "free"
    BY DEF Plugin, Began
  <1>2. Needs(c)' = Needs(c) /\ RemovedWith(Plugin(c))' = RemovedWith(Plugin(c))
    BY <1>1 DEF Needs
  <1>3. Needs(c) \subseteq Plugins /\ RemovedWith(Plugin(c)) \subseteq Plugins
    BY <1>1, Concerned
  <1>4. There(c) => There(c)'
    BY <1>2, <1>3, HistoryStays DEF There
  <1>5. Gone(c) => Gone(c)'
    BY <1>2, <1>3, HistoryStays DEF Gone
  <1>6. NothingFits(c) => NothingFits(c)'
    BY <1>1 DEF NothingFits, Wanted
  <1> QED
    BY <1>4, <1>5, <1>6

(* A plugin that is there is there with all it depends on.                 *)
LEMMA SeenThere ==
    ASSUME PInv, NEW c \in Contexts, Plugin(c) \in Plugins, Installed(Plugin(c))
    PROVE  There(c)
  BY DEF PInv, Consistent, There, Needs, WasThere

-----------------------------------------------------------------------------
(* What a task sees of the packages.                                       *)

(* What it has read of the packages changes only as it reads.              *)
LEMMA LookSteps ==
    ASSUME IInv, [Next]_taskVars, NEW c \in Contexts, at'[c] = "choosing"
    PROVE  LookUp(c) \/ Mark(c) \/ (at[c] = "choosing" /\ look'[c] = look[c])
  <1>1. Kinds(c)
    BY StepKind DEF StepOf, Kinds
  <1>2. /\ at[c] \in {"downloading", "choosing"}
        /\ at[c] = "downloading" => Onward(c)
    BY <1>1 DEF Kinds, Quiet, Same, Born, InCall, Handled, Handling, Cleared, Spoken,
                GivenUp, Onward, Exited, Concluded
  <1>3. ASSUME NEW d \in Contexts, LookUp(d) \/ Mark(d) \/ Choose(d)
        PROVE  d = c \/ (at'[c] = at[c] /\ look'[c] = look[c])
    BY <1>3 DEF LookUp, Mark, Choose, Fetch, Handle, HandleLeaving, Fails, Goto, handlerVars,
                IInv, TaskTypeOK
  <1>4. ~Choose(c)
    <2>1. ASSUME Choose(c)
          PROVE  \E place : place # "choosing" /\ at' = [at EXCEPT ![c] = place]
      BY <2>1 DEF Choose, Fetch, Handle, HandleLeaving, Fails
    <2> QED
      BY <2>1 DEF IInv, TaskTypeOK
  <1>5. ASSUME \A d \in Contexts : ~(LookUp(d) \/ Mark(d) \/ Choose(d))
        PROVE  at[c] = "choosing" /\ look'[c] = look[c]
    <2>1. UNCHANGED look
      <3>1. ASSUME NEW d \in Contexts, TaskStep(d) PROVE UNCHANGED look
        BY <1>5, <3>1 DEF TaskStep, PublishFails, Execute, Starting, Download, Extract,
             Validate, InstallDependency, DependencyEnds, DependenciesDone, Build,
             Package, SkipUpdate, Ask, Answered, Exits, Clean, Complete, HandlerCleans,
             HandlerTells, contextVars
      <3>2. ASSUME NEW d \in Contexts, ServiceStep(d) PROVE UNCHANGED look
        BY <3>2 DEF ServiceStep, BeginCommand, Work, Unpack, Configure, RemovePackage,
             FinishCommand, Refused, contextVars
      <3>3. ASSUME NEW d \in Contexts, NEW o \in Orders, Submit(d, o)
            PROVE  UNCHANGED look
        BY <3>3 DEF Submit
      <3>4. CASE WorkerDies \/ UNCHANGED taskVars
        BY <3>4 DEF WorkerDies, taskVars, contextVars
      <3> QED
        BY <3>1, <3>2, <3>3, <3>4 DEF Next
    <2>2. at[c] # "downloading"
      <3>1. SUFFICES ASSUME at[c] = "downloading" PROVE FALSE
        OBVIOUS
      <3>2. at' # at
        BY <3>1
      <3>3. PICK d \in Contexts : TaskStep(d) \/ \E o \in Orders : Submit(d, o)
        BY <3>2 DEF Next, ServiceStep, BeginCommand, Work, Unpack, Configure,
             RemovePackage, FinishCommand, Refused, WorkerDies, taskVars, handlerVars
      <3>4. ASSUME NEW e \in Contexts, NEW place, place # "choosing",
                   at' = [at EXCEPT ![e] = place]
            PROVE  FALSE
        BY <3>1, <3>4 DEF IInv, TaskTypeOK
      <3>5. \E e \in Contexts : \E place :
               place # "choosing" /\ at' = [at EXCEPT ![e] = place]
        BY <1>5, <3>2, <3>3 DEF TaskStep, Submit, PublishFails, Execute, Starting,
             Download, Fetch, Extract, Validate, InstallDependency, DependencyEnds,
             DependenciesDone, Build, Package, SkipUpdate, Ask, Answered, Exits, Clean,
             Complete, HandlerCleans, HandlerTells, Proceed, Escape, Fails, Handle,
             HandleLeaving, Goto, handlerVars
      <3> QED
        BY <3>4, <3>5
    <2> QED
      BY <1>2, <2>1, <2>2
  <1> QED
    BY <1>2, <1>3, <1>4, <1>5

LEMMA LookUpSees ==
    ASSUME IInv, PInv, NEW c \in Contexts, LookUp(c)
    PROVE  /\ look'[c].installed # 0 \/ look'[c].known # 0 => There(c)
           /\ look'[c].next = 1
  <1> DEFINE v == pkg[Plugin(c)].version
  <1>1. look'[c] = [NoLook EXCEPT !.installed = v, !.known = v]
    BY LooksTyped DEF LookUp
  <1>2. /\ look'[c].installed = v /\ look'[c].known = v
        /\ look'[c].next = 1
    BY <1>1 DEF NoLook
  <1>3. Plugin(c) \in Plugins
    BY SoloStep DEF LookUp, Stays, Steps, InstallSteps
  <1>4. v # 0 => There(c)
    BY <1>3, SeenThere DEF Installed
  <1> QED
    BY <1>2, <1>4

(* One more version is looked at.                                          *)
LEMMA MarkSees ==
    ASSUME IInv, PInv, NEW c \in Contexts, Looked(c), Mark(c)
    PROVE  /\ look'[c].installed # 0 \/ look'[c].known # 0 => There(c)
           /\ look'[c].known = 0 /\ look'[c].choice = 0 => NoneFits(c)'
  <1> DEFINE offer == Market[Plugin(c)][look[c].next]
             known == IF offer.fits /\ look[c].known = 0
                      THEN pkg[Plugin(c)].version
                      ELSE look[c].known
             takes == offer.fits /\ known < offer.version /\ Wanted(c, offer.version)
             choice == IF takes /\ look[c].choice = 0 THEN offer.version ELSE look[c].choice
             new == [look[c] EXCEPT !.known = known, !.choice = choice, !.next = @ + 1]
  <1>1. /\ at[c] = "choosing"
        /\ look[c].next <= Len(Market[Plugin(c)])
        /\ look' = [look EXCEPT ![c] = new]
        /\ order' = order
    BY DEF Mark
  <1>2. /\ Plugin(c) \in Plugins /\ Plugin(c) \in DOMAIN Market
        /\ look[c] \in Looks
    BY <1>1, SoloStep, LooksTyped DEF Stays, IInv, ContextOK, AtTheMarket
  <1>3. offer \in Offers
    <2>1. Market[Plugin(c)] \in Seq(Offers)
      BY <1>2, PluginTasksAssumption
    <2> QED
      BY <1>1, <1>2, <2>1 DEF Looks
  <1>4. offer.version \in Nat \ {0}
    BY <1>3, PluginTasksAssumption DEF Offers
  <1>5. /\ look'[c].installed = look[c].installed
        /\ look'[c].known = known
        /\ look'[c].choice = choice
        /\ look'[c].next = look[c].next + 1
    <2>1. look'[c] = new
      BY <1>1, LooksTyped
    <2> HIDE DEF known, choice
    <2> QED
      BY <1>2, <2>1 DEF Looks
  <1>6. look'[c].installed # 0 \/ look'[c].known # 0 => There(c)
    <2>1. pkg[Plugin(c)].version # 0 => There(c)
      BY <1>2, SeenThere DEF Installed
    <2> QED
      BY <1>1, <1>5, <2>1 DEF Looked
  <1>7. ASSUME look'[c].known = 0, look'[c].choice = 0 PROVE NoneFits(c)'
    <2>1. known = 0 /\ look[c].choice = 0 /\ ~takes
      BY <1>4, <1>5, <1>7
    <2>2. look[c].known = 0 \/ ~offer.fits
      BY <2>1
    <2>3. look[c].known = 0
      BY <2>1
    <2>4. Wanted(c, offer.version) => ~offer.fits
      BY <1>4, <2>1
    <2>5. NoneFits(c)
      BY <1>1, <2>1, <2>3 DEF Looked
    <2>6. Plugin(c)' = Plugin(c) /\ order'[c] = order[c]
      BY <1>1 DEF Plugin
    <2>7. ASSUME NEW i \in 1..Len(Market[Plugin(c)]), i < look'[c].next,
                 Wanted(c, Market[Plugin(c)][i].version)
          PROVE  ~Market[Plugin(c)][i].fits
      <3>1. look[c].next \in Nat
        BY <1>2 DEF Looks
      <3>2. i = look[c].next \/ i < look[c].next
        BY <1>5, <2>7, <3>1
      <3> QED
        BY <2>4, <2>5, <2>7, <3>2 DEF NoneFits
    <2> QED
      BY <2>6, <2>7 DEF NoneFits, Wanted
  <1> QED
    BY <1>6, <1>7

LEMMA LookedKept ==
    ASSUME IInv, PInv, [Next]_taskVars, [HistoryNext]_historyVars, NEW c \in Contexts,
           Looked(c)
    PROVE  Looked(c)'
  <1>1. SUFFICES ASSUME at'[c] = "choosing" PROVE Looked(c)'
    BY DEF Looked
  <1>2. CASE LookUp(c)
    <2>1. Began(c) /\ order' = order /\ ~Reported(c)
      BY <1>2, ReportedInCall DEF LookUp, Began
    <2>2. There(c) => There(c)'
      BY <2>1, AllStay
    <2>3. NoneFits(c)'
      BY <1>2, LookUpSees DEF NoneFits
    <2> QED
      BY <1>2, <2>2, <2>3, LookUpSees DEF Looked
  <1>3. CASE Mark(c)
    <2>1. Began(c) /\ order' = order /\ ~Reported(c)
      BY <1>3, ReportedInCall DEF Mark, Began
    <2>2. There(c) => There(c)'
      BY <2>1, AllStay
    <2> QED
      BY <1>3, <2>2, MarkSees DEF Looked
  <1>4. CASE at[c] = "choosing" /\ look'[c] = look[c]
    <2>1. Began(c) /\ order'[c] = order[c] /\ ~Reported(c)
      <3>1. Kinds(c) /\ ~Born(c)
        BY <1>4, StepKind DEF StepOf, Kinds, Born
      <3> QED
        BY <1>4, <3>1, SameOrder, ReportedInCall DEF Began
    <2>2. There(c) => There(c)'
      BY <2>1, AllStay
    <2>3. NoneFits(c) => NoneFits(c)'
      BY <1>4, <2>1 DEF NoneFits, Wanted, Plugin
    <2> QED
      BY <1>4, <2>2, <2>3 DEF Looked
  <1> QED
    BY <1>1, <1>2, <1>3, <1>4, LookSteps

(* When the market's downloader or the validator finds an install          *)
(* unnecessary, the plugin is there, or was when the downloader looked, or *)
(* nothing of it is for this Wazo.                                         *)
LEMMA UnnecessaryIsThere ==
    ASSUME IInv, CommandsOK, PInv, NEW c \in Contexts, Looked(c),
           order[c].kind = "install", AlreadyThere(c) \/ Unneeded(c)
    PROVE  There(c) \/ NothingFits(c)
  <1>1. CASE AlreadyThere(c)
    <2>1. Plugin(c) \in Plugins
      BY <1>1, SoloStep DEF AlreadyThere, Stays, Steps, InstallSteps
    <2>2. pkg[Plugin(c)].version # 0
      BY <1>1 DEF AlreadyThere, CommandsOK, Versioned, Fetched, Built
    <2> QED
      BY <2>1, <2>2, SeenThere DEF Installed
  <1>2. CASE Unneeded(c) /\ (look[c].installed # 0 \/ look[c].known # 0)
    BY <1>2 DEF Unneeded, Looked
  <1>3. CASE Unneeded(c) /\ look[c].installed = 0 /\ look[c].known = 0
    <2>1. /\ at[c] = "choosing" /\ look[c].choice = 0
          /\ look[c].next > Len(Market[Plugin(c)])
      BY <1>3 DEF Unneeded, Satisfied
    <2>2. NoneFits(c) /\ order[c].method = "market" /\ Plugin(c) \in DOMAIN Market
      BY <1>3, <2>1 DEF Looked, IInv, ContextOK, AtTheMarket
    <2>3. look[c].next \in Nat /\ Len(Market[Plugin(c)]) \in Nat
      <3>1. Market[Plugin(c)] \in Seq(Offers)
        BY <2>2, PluginTasksAssumption
      <3> QED
        BY <3>1, LooksTyped DEF Looks
    <2>4. \A i \in 1..Len(Market[Plugin(c)]) : i < look[c].next
      BY <2>1, <2>3
    <2> QED
      BY <2>2, <2>4 DEF NoneFits, NothingFits
  <1> QED
    BY <1>1, <1>2, <1>3

-----------------------------------------------------------------------------
(* What the worker reports done.                                           *)

LEMMA AnsweredBy ==
    ASSUME IInv, [Next]_taskVars, NEW c \in Contexts,
           call[c].phase \in {"waiting", "running"}, call'[c].phase = "answered"
    PROVE  FinishCommand(c)
  <1>1. call' # call
    OBVIOUS
  <1>2. \E d \in Contexts : \/ Ask(d) \/ Answered(d) \/ Exits(d)
                            \/ BeginCommand(d) \/ FinishCommand(d) \/ Refused(d)
    <2>1. ASSUME NEW d \in Contexts, TaskStep(d) PROVE Ask(d) \/ Answered(d) \/ Exits(d)
      BY <1>1, <2>1 DEF TaskStep, PublishFails, Execute, Starting, Download, LookUp, Mark,
           Choose, Extract, Validate, InstallDependency, DependencyEnds, DependenciesDone,
           Build, Package, SkipUpdate, Clean, Complete, HandlerCleans, HandlerTells,
           serviceVars
    <2>2. ASSUME NEW d \in Contexts, ServiceStep(d)
          PROVE  BeginCommand(d) \/ FinishCommand(d) \/ Refused(d)
      BY <1>1, <2>2 DEF ServiceStep, Work, Unpack, Configure, RemovePackage, serviceVars
    <2>3. ASSUME NEW d \in Contexts, NEW o \in Orders, Submit(d, o) PROVE FALSE
      BY <1>1, <2>3 DEF Submit, serviceVars
    <2>4. ~(WorkerDies \/ UNCHANGED taskVars)
      BY <1>1 DEF WorkerDies, Service!Down, taskVars, serviceVars
    <2> QED
      BY <2>1, <2>2, <2>3, <2>4 DEF Next
  <1>3. ASSUME NEW d \in Contexts, FinishCommand(d) PROVE d = c
    BY <1>3 DEF FinishCommand, Service!Finish, IInv, TaskTypeOK
  <1>4. ASSUME NEW d \in Contexts, \/ Ask(d) \/ Answered(d) \/ Exits(d)
                                   \/ BeginCommand(d) \/ Refused(d)
        PROVE  FALSE
    <2>1. CASE Ask(d)
      <3>1. call' = [call EXCEPT ![d] = [phase |-> "waiting", cmd |-> RootCommand(d),
                                         ok |-> FALSE]]
        BY <2>1 DEF Ask, Service!Invoke
      <3> QED
        BY <3>1 DEF IInv, TaskTypeOK
    <2>2. ASSUME NEW place \in {"idle", "running", "refused"},
                 call' = [call EXCEPT ![d].phase = place]
          PROVE  FALSE
      BY <2>2 DEF IInv, TaskTypeOK
    <2> QED
      BY <1>4, <2>1, <2>2 DEF Answered, Exits, BeginCommand, Refused, Service!Return,
                              Service!Forget, Service!Begin, Service!Refuse
  <1> QED
    BY <1>2, <1>3, <1>4

(* A command is reported done when its work was just found done.           *)
LEMMA DoneBy ==
    ASSUME IInv, CommandsOK, [Next]_taskVars, NEW c \in Contexts,
           ~Done(c), Done(c)'
    PROVE  /\ call[c].phase = "running" /\ call'[c].cmd = call[c].cmd
           /\ Finished(call[c].cmd)
  <1>1. CommandOK(c) /\ Kinds(c)
    BY StepKind DEF StepOf, Kinds, CommandsOK
  <1>2. InCall(c)
    <2>1. call'[c] # call[c]
      BY DEF Done
    <2>2. ~Exited(c) /\ ~Onward(c)
      BY <1>1, <2>1 DEF Exited, Onward, Done, CommandOK
    <2>3. ~(\E error, left : Handled(c, error, left))
      BY <2>1 DEF Handled, Done
    <2> QED
      BY <1>1, <2>1, <2>2, <2>3 DEF Kinds, Quiet, Born, Handling, Concluded
  <1>3. call[c].phase \in {"waiting", "running"} /\ call'[c].phase = "answered"
    BY <1>1, <1>2 DEF InCall, Called, Done, CommandOK
  <1>4. FinishCommand(c)
    BY <1>3, AnsweredBy
  <1>5. call[c].phase = "running" /\ ~Service!Finish(c, FALSE)
    BY <1>4 DEF FinishCommand, Service!Running, Service!Finish, IInv, TaskTypeOK, Done
  <1>6. Finished(call[c].cmd) /\ Service!Finish(c, TRUE)
    BY <1>4, <1>5 DEF FinishCommand
  <1>7. call'[c].cmd = call[c].cmd
    BY <1>6 DEF Service!Finish, IInv, TaskTypeOK
  <1> QED
    BY <1>5, <1>6, <1>7

(* What was reported done stays so until the next command is sent.         *)
LEMMA DoneStays ==
    ASSUME NEW c \in Contexts, Kinds(c), Done(c), Done(c)'
    PROVE  call'[c].cmd = call[c].cmd
  BY DEF Kinds, Quiet, Born, InCall, Called, Handled, Handling, Onward, Exited,
         Concluded, Done

LEMMA DoneAnswered ==
    ASSUME NEW c \in Contexts, Kinds(c), CommandsOK, call[c].phase = "running", Done(c)'
    PROVE  call'[c].phase = "answered"
  BY DEF CommandsOK, CommandOK, Kinds, Quiet, Same, Born, InCall, Called, Handled, Handling, Onward, Exited,
         Concluded, Done

(* When its command is reported done, the packages are as it says.         *)
LEMMA ReportedTruly ==
    ASSUME IInv, LInv, CommandsOK, PInv, [Next]_taskVars, NEW c \in Contexts, Reported(c)
    PROVE  /\ at'[c] = at[c] /\ told'[c] = <<>> /\ ~Granted(c)'
           /\ call'[c].cmd = call[c].cmd
           /\ call[c].cmd.name = "install" => There(c)'
           /\ call[c].cmd.name = "uninstall" => Gone(c)'
  <1>1. /\ call[c].phase = "running" /\ call'[c].phase = "answered" /\ call'[c].ok
        /\ at[c] \in {"updating", "installing", "removing"}
    BY ReportedInCall DEF Reported
  <1>2. Kinds(c) /\ FinishCommand(c)
    BY <1>1, StepKind, AnsweredBy DEF StepOf, Kinds
  <1>3. /\ pkg' = pkg /\ order' = order /\ at' = at /\ told' = told /\ clause' = clause
    BY <1>2 DEF FinishCommand, contextVars, handlerVars
  <1>4. told[c] = <<>> /\ clause[c] = <<>>
    BY <1>1 DEF IInv, ContextOK, Telling, Stays, Steps, InstallSteps, UninstallSteps
  <1>5. ~Granted(c)'
    BY <1>3, <1>4, Clauses DEF Granted
  <1>6. /\ call[c].cmd.plugin = Plugin(c) /\ Plugin(c) \in Plugins /\ call[c].cmd # Nothing
    BY <1>1, RunningCommand
  <1>7. Plugin(c)' = Plugin(c) /\ \A p \in Plugins : Installed(p)' <=> Installed(p)
    BY <1>3 DEF Plugin, Installed
  <1>8. Finished(call[c].cmd) /\ call'[c].cmd = call[c].cmd
    <2>1. (~Done(c) /\ Done(c)') \/ call'[c].cmd = Nothing
      BY <1>1 DEF Done
    <2>2. call'[c].cmd = call[c].cmd
      BY <1>2 DEF FinishCommand, Service!Finish, IInv, TaskTypeOK
    <2> QED
      BY <1>6, <2>1, <2>2, DoneBy
  <1>9. ASSUME call[c].cmd.name = "install" PROVE There(c)'
    <2>1. Installed(Plugin(c))
      BY <1>1, <1>6, <1>8, <1>9 DEF Finished, PInv, Working, Service!Running
    <2>2. \A p \in Needs(c) : Installed(p) /\ p \in Plugins
      BY <1>6, <2>1, DependsOnPlugins DEF PInv, Consistent, Needs
    <2>3. Needs(c)' = Needs(c)
      BY <1>7 DEF Needs
    <2> QED
      BY <1>7, <2>2, <2>3 DEF There, WasThere
  <1>10. ASSUME call[c].cmd.name = "uninstall" PROVE Gone(c)'
    <2>1. \A p \in RemovedWith(Plugin(c)) : ~Installed(p) /\ p \in Plugins
      BY <1>6, <1>8, <1>10 DEF Finished, RemovedWith
    <2>2. RemovedWith(Plugin(c))' = RemovedWith(Plugin(c))
      BY <1>7
    <2> QED
      BY <1>7, <2>1, <2>2 DEF Gone, WasGone
  <1> QED
    BY <1>3, <1>4, <1>5, <1>8, <1>9, <1>10

(* A task that has not begun has no command and nothing to say.            *)
LEMMA NotBegun ==
    ASSUME IInv, LInv, CommandsOK, NEW c \in Contexts, Kinds(c), ~Began(c)
    PROVE  ~Done(c)' /\ ~Granted(c)' /\ told'[c] # <<"completed">>
  <1>1. at[c] \in {"free", "queued"} /\ call[c].cmd = Nothing
    BY DEF Began, CommandsOK, CommandOK, Uncalled
  <1>2. call'[c].cmd = Nothing
    BY <1>1 DEF Kinds, Quiet, Born, InCall, Handled, Handling, Onward, Exited, Concluded
  <1>3. told[c] = <<>> /\ clause[c] = <<>>
    BY <1>1 DEF IInv, ContextOK, Telling, Stays
  <1>4. ~Granted(c) /\ told[c] # <<"completed">>
    BY <1>3, Verdicts, Clauses DEF Granted
  <1>5. ~Concluded(c) /\ ~AlreadyThere(c) /\ ~Unneeded(c)
    BY <1>1 DEF Concluded, AlreadyThere, Unneeded
  <1> QED
    BY <1>2, <1>4, <1>5, CompletedFrom DEF Done

-----------------------------------------------------------------------------
(* What "completed" says.                                                  *)

LEMMA InstallKeptStep ==
    ASSUME IInv, LInv, CommandsOK, PInv, [Next]_taskVars, [HistoryNext]_historyVars,
           NEW c \in Contexts, Looked(c), InstallKept(c)
    PROVE  InstallKept(c)'
  <1>1. Kinds(c)
    BY StepKind DEF StepOf, Kinds
  <1>2. CASE ~Began(c)
    BY <1>1, <1>2, NotBegun DEF InstallKept, Completed
  <1>3. CASE Reported(c)
    BY <1>3, ReportedTruly, Verdicts DEF InstallKept, Completed
  <1>4. CASE Began(c) /\ ~Reported(c)
    <2>1. order'[c] = order[c] /\ ~Born(c) /\ at[c] # "free"
      BY <1>1, <1>4, SameOrder DEF Born, Began
    <2>2. /\ There(c) => There(c)'
          /\ NothingFits(c) => NothingFits(c)'
      BY <1>4, <2>1, AllStay
    <2>3. ASSUME Done(c)', call'[c].cmd.name = "install" PROVE There(c)'
      <3>1. CASE Done(c)
        BY <1>1, <2>2, <2>3, <3>1, DoneStays DEF InstallKept
      <3>2. CASE ~Done(c)
        <4>1. /\ call[c].phase = "running" /\ call'[c].cmd = call[c].cmd
          BY <2>3, <3>2, DoneBy
        <4>2. call'[c].phase = "answered"
          BY <1>1, <2>3, <4>1, DoneAnswered
        <4> QED
          BY <1>4, <2>3, <4>1, <4>2 DEF Reported, Done
      <3> QED
        BY <3>1, <3>2
    <2>4. ASSUME Granted(c)' \/ Completed(c, "install")'
          PROVE  There(c)' \/ NothingFits(c)'
      <3>1. CASE Granted(c) \/ told[c] = <<"completed">>
        <4>1. Granted(c) \/ Completed(c, "install")
          <5>1. CASE Completed(c, "install")'
            BY <2>1, <3>1, <5>1 DEF Completed
          <5>2. CASE Granted(c)' /\ told[c] = <<"completed">>
            <6>1. at[c] \in Ends /\ clause[c] = <<>>
              BY <5>2, Verdicts DEF IInv, ContextOK, Telling, TaskTypeOK, Stays, Between, Ends
            <6>2. clause'[c] = clause[c]
              BY <1>1, <6>1 DEF Kinds, Quiet, Same, Born, InCall, Handled, Handling, Onward,
                                Exited, Concluded, Ends, Stays, Steps, InstallSteps,
                                UninstallSteps
            <6> QED
              BY <5>2, <6>1, <6>2, Clauses DEF Granted
          <5> QED
            BY <2>4, <3>1, <5>1, <5>2
        <4> QED
          BY <2>2, <4>1 DEF InstallKept
      <3>2. CASE Concluded(c)
        <4>1. at[c] = "completed" /\ clause'[c] = <<>>
          BY <3>2 DEF Concluded, IInv, ContextOK, Telling
        <4>2. order[c].kind = "install"
          BY <2>1, <2>4, <4>1, Clauses DEF Granted, Completed
        <4>3. Applied(c) /\ CommandOK(c)
          BY <4>1 DEF CommandsOK, Ended
        <4>4. Done(c) /\ call[c].cmd.name = "install"
          BY <4>2, <4>3 DEF Applied, Done, CommandOK
        <4> QED
          BY <2>2, <4>4 DEF InstallKept
      <3>3. CASE order[c].kind = "install" /\ (AlreadyThere(c) \/ Unneeded(c))
        BY <2>2, <3>3, UnnecessaryIsThere
      <3> QED
        BY <1>1, <2>4, <3>1, <3>2, <3>3, CompletedFrom DEF Completed
    <2> QED
      BY <2>3, <2>4 DEF InstallKept
  <1> QED
    BY <1>2, <1>3, <1>4

LEMMA UninstallKeptStep ==
    ASSUME IInv, LInv, CommandsOK, PInv, [Next]_taskVars, [HistoryNext]_historyVars,
           NEW c \in Contexts, UninstallKept(c)
    PROVE  UninstallKept(c)'
  <1>1. Kinds(c)
    BY StepKind DEF StepOf, Kinds
  <1>2. CASE ~Began(c)
    BY <1>1, <1>2, NotBegun DEF UninstallKept
  <1>3. CASE Reported(c)
    BY <1>3, ReportedTruly DEF UninstallKept
  <1>4. CASE Began(c) /\ ~Reported(c)
    <2>1. order'[c] = order[c]
      BY <1>1, <1>4, SameOrder DEF Born, Began
    <2>2. Gone(c) => Gone(c)'
      BY <1>4, <2>1, AllStay
    <2>3. ASSUME Done(c)', call'[c].cmd.name = "uninstall" PROVE Gone(c)'
      <3>1. CASE Done(c)
        BY <1>1, <2>2, <2>3, <3>1, DoneStays DEF UninstallKept
      <3>2. CASE ~Done(c)
        <4>1. /\ call[c].phase = "running" /\ call'[c].cmd = call[c].cmd
          BY <2>3, <3>2, DoneBy
        <4>2. call'[c].phase = "answered"
          BY <1>1, <2>3, <4>1, DoneAnswered
        <4> QED
          BY <1>4, <2>3, <4>1, <4>2 DEF Reported, Done
      <3> QED
        BY <3>1, <3>2
    <2> QED
      BY <2>3 DEF UninstallKept
  <1> QED
    BY <1>2, <1>3, <1>4

(* The invariant holds of every state, whatever other tasks install and    *)
(* remove meanwhile.                                                       *)
LEMMA HistoryInductive == HistorySpec => []HInv
  <1>1. ASSUME HistoryInit PROVE HInv
    <2>1. ASSUME NEW c \in Contexts
          PROVE  Looked(c) /\ InstallKept(c) /\ UninstallKept(c)
      <3>1. /\ at[c] = "free" /\ call[c] = Service!NoCall /\ told[c] = <<>>
            /\ clause[c] = <<>> /\ call[c].cmd = Nothing
        BY <1>1 DEF HistoryInit, Init, Service!NoCall
      <3> QED
        BY <3>1, Verdicts, Clauses
           DEF Looked, InstallKept, UninstallKept, Done, Granted, Completed
    <2> QED
      BY <2>1 DEF HInv
  <1>2. ASSUME IInv, LInv, CommandsOK, PInv, HInv, [Next]_taskVars,
               [HistoryNext]_historyVars
        PROVE  HInv'
    <2>1. ASSUME NEW c \in Contexts
          PROVE  Looked(c)' /\ InstallKept(c)' /\ UninstallKept(c)'
      <3>1. Looked(c) /\ InstallKept(c) /\ UninstallKept(c)
        BY <1>2 DEF HInv
      <3> QED
        BY <1>2, <3>1, LookedKept, InstallKeptStep, UninstallKeptStep
    <2> QED
      BY <2>1 DEF HInv
  <1> QED
    BY <1>1, <1>2, HistoryOfTasks, TasksInductive, LInvInductive, CommandsInductive,
       PackagesInductive, PTL DEF HistorySpec, Spec

(* "completed" of an install: the plugin and all it depends on are there or *)
(* have disappeared since gdebi was done with it (since the install began, *)
(* when it was found unnecessary), or no version of it is for this Wazo.   *)
(* For any tasks, market and dependencies, any faults and any interleaving *)
(* of reads, commands, clauses and events.                                 *)
THEOREM CompletedMeansInstalledHolds == HistorySpec => []CompletedMeansInstalled
  <1>1. HInv => CompletedMeansInstalled
    <2>1. ASSUME HInv, NEW c \in Contexts, Completed(c, "install")
          PROVE  There(c) \/ NothingFits(c)
      BY <2>1 DEF HInv, InstallKept
    <2> QED
      BY <2>1 DEF CompletedMeansInstalled, There, WasThere, Needs
  <1> QED
    BY <1>1, HistoryInductive, PTL

(* "completed" of an uninstall: the plugin, and whatever depends on it, is *)
(* gone or was installed again since apt-get was done.                     *)
THEOREM CompletedMeansRemovedHolds == HistorySpec => []CompletedMeansRemoved
  <1>1. CommandsOK /\ HInv => CompletedMeansRemoved
    <2>1. ASSUME CommandsOK, HInv, NEW c \in Contexts, Completed(c, "uninstall")
          PROVE  Gone(c)
      <3>1. Applied(c) /\ CommandOK(c) /\ UninstallKept(c)
        BY <2>1 DEF CommandsOK, Ended, HInv
      <3>2. Done(c) /\ call[c].cmd.name = "uninstall"
        BY <2>1, <3>1 DEF Applied, Done, CommandOK, Completed
      <3> QED
        BY <3>1, <3>2 DEF UninstallKept
    <2> QED
      BY <2>1 DEF CompletedMeansRemoved, Gone, WasGone
  <1> QED
    BY <1>1, HistoryInductive, HistoryOfTasks, CommandsInductive, PTL

=============================================================================
