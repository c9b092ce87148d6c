------------------------- MODULE TaskOutcomeProofs -------------------------
(***************************************************************************)
(* What PluginTasks says of the end of a task, proved: what it leaves on   *)
(* the disk, that a forced reinstallation installs, and that it gets there.*)
(*                                                                         *)
(* Each property speaks of one task at a time.  So the steps are summed up *)
(* first, as what they do to one context (StepOf), and each invariant is   *)
(* then a statement about one context that these few kinds of steps keep.  *)
(***************************************************************************)
EXTENDS PluginTasksProofs

Same(c) ==
    /\ order'[c] = order[c]
    /\ at'[c] = at[c]
    /\ told'[c] = told[c]
    /\ clause'[c] = clause[c]
    /\ disk'[c] = disk[c]
    /\ extracted'[c] = extracted[c]

Quiet(c) == Same(c) /\ call'[c] = call[c]

(* The Context is made, for a request or for a dependency.                  *)
Born(c) ==
    /\ at[c] = "free" /\ at'[c] \in {"queued", "starting"}
    /\ order'[c] \in Requests
    /\ \/ order'[c] \in Orders
       \/ /\ order'[c].kind = "install" /\ order'[c].method = "market"
          /\ ~order'[c].reinstall /\ ~order'[c].subdirectory
    /\ order'[c].kind = "uninstall" => Installed(order'[c].plugin)
    /\ \A p \in Contexts :
          order'[c].parent = p => at[p] = "installing dependencies"
    /\ told'[c] = told[c] /\ clause'[c] = clause[c] /\ disk'[c] = disk[c]
    /\ extracted'[c] = extracted[c] /\ call'[c] = call[c]

(* A call is made, or goes on.                                              *)
Called(old, new) ==
    \/ old.phase = "idle" /\ new.phase = "waiting" /\ ~new.ok
    \/ /\ old.phase \in {"waiting", "running"} /\ new.cmd = old.cmd
       /\ \/ new.phase \in {"running", "refused"} /\ new.ok = old.ok
          \/ new.phase = "answered"

(* Its root command is sent, begun, finished or refused.                    *)
InCall(c) ==
    /\ Same(c)
    /\ at[c] \in {"updating", "installing", "removing"}
    /\ Called(call[c], call'[c])
    /\ call'[c].cmd = RootCommand(c)

Kept(c) == IF order[c].subdirectory THEN {"download"} ELSE {}

(* What the validator and the market's downloader have found.               *)
AlreadyThere(c) == at[c] = "validating" /\ pkg[Plugin(c)].version = version[c]
Unneeded(c) ==
    /\ at[c] = "choosing"
    /\ look[c].next > Len(Market[Plugin(c)])
    /\ Satisfied(c) \/ look[c].choice = 0

(* It fails, and a clause begins.                                           *)
Handled(c, error, left) ==
    /\ order'[c] = order[c] /\ extracted'[c] = extracted[c] /\ told'[c] = told[c]
    /\ at[c] \in Stays /\ at'[c] = "handling"
    /\ clause'[c] = Clause(c, error)
    /\ disk'[c] = left
    /\ \/ left = disk[c]
       \/ /\ at[c] \in {"downloading", "choosing"} /\ "decode" \in Faults
          /\ left = disk[c] \union {"download"}
       \/ at[c] = "extracting" /\ left = Kept(c) \union {"build"}
    /\ at[c] = "extracting" => Faults \intersect {"extract", "bus"} # {}
    /\ error = "validation" => at[c] = "validating" /\ "validate" \in Faults
    /\ error = "already" => ~order[c].reinstall /\ AlreadyThere(c)
    /\ error = "dependency" => order[c].method = "market" /\ Unneeded(c)
    /\ call'[c].cmd = call[c].cmd
    /\ call'[c] = call[c] \/ ~call'[c].ok

(* The clause cleans, publishes a verdict, or raises.                       *)
Cleared(c) ==
    /\ told'[c] = told[c]
    /\ disk'[c] = IF extracted[c] THEN disk[c] \ {"build"} ELSE disk[c]
    /\ \/ /\ told[c] = <<>> /\ at'[c] = "handling"
          /\ \/ clause[c] = <<"clean", "error">> /\ clause'[c] = <<"error">>
             \/ clause[c] = <<"clean", "completed">> /\ clause'[c] = <<"completed">>
       \/ /\ told[c] = <<"error">> /\ at'[c] = "returned"
          /\ clause[c] = <<"clean">> /\ clause'[c] = <<>>

Spoken(c) ==
    /\ told[c] = <<>>
    /\ disk'[c] = disk[c]
    /\ \/ /\ at'[c] = "handling" /\ told'[c] = <<"error">>
          /\ clause[c] = <<"error", "clean">> /\ clause'[c] = <<"clean">>
       \/ /\ at'[c] = "returned" /\ clause'[c] = <<>>
          /\ told'[c] = clause[c] /\ clause[c] \in {<<"error">>, <<"completed">>}

GivenUp(c) ==
    /\ at'[c] = "escaped" /\ clause'[c] = <<>>
    /\ told'[c] = told[c] /\ disk'[c] = disk[c]

Handling(c) ==
    /\ at[c] = "handling"
    /\ order'[c] = order[c] /\ extracted'[c] = extracted[c] /\ call'[c] = call[c]
    /\ Cleared(c) \/ Spoken(c) \/ GivenUp(c)

(* It goes on.                                                              *)
Onward(c) ==
    /\ order'[c] = order[c] /\ told'[c] = told[c] /\ clause'[c] = clause[c]
    /\ call'[c].phase = "idle"
    /\ \/ /\ UNCHANGED <<disk[c], extracted[c]>>
          /\ call'[c] = call[c]
          /\ \/ at[c] = "queued" /\ at'[c] = "starting"
             \/ /\ at[c] = "starting"
                /\ at'[c] = IF order[c].kind = "install" THEN "downloading" ELSE "removing"
             \/ at[c] = "downloading" /\ at'[c] = "choosing"
             \/ at[c] = "validating" /\ at'[c] = "installing dependencies"
             \/ at[c] = "installing dependencies" /\ at'[c] = "building"
             \/ at[c] = "building" /\ at'[c] = "packaging"
             \/ at[c] = "packaging" /\ at'[c] = "updating"
             \/ at[c] = "updating" /\ at'[c] = "installing"
       \/ /\ UNCHANGED <<disk[c], extracted[c]>>
          /\ call'[c].cmd = call[c].cmd /\ call'[c].ok
          /\ call[c].phase = "answered" /\ call[c].ok
          /\ \/ at[c] = "updating" /\ at'[c] = "installing" /\ call[c].cmd.name = "update"
             \/ at[c] = "installing" /\ at'[c] = "cleaning" /\ call[c].cmd.name = "install"
             \/ at[c] = "removing" /\ at'[c] = "completed"
          /\ call[c].cmd # Nothing
       \/ /\ at'[c] = "extracting"
          /\ \/ at[c] = "choosing" /\ version'[c] \in Versions
             \/ /\ at[c] = "downloading" /\ order[c].method = "git"
                /\ version'[c] = order[c].version
          /\ disk'[c] = disk[c] \union {"download"}
          /\ extracted'[c] = extracted[c] /\ call'[c] = call[c]
       \/ /\ at[c] = "extracting" /\ at'[c] = "validating"
          /\ disk'[c] = Kept(c) \union {"build"}
          /\ extracted'[c] /\ call'[c] = call[c]
       \/ /\ at[c] = "cleaning" /\ at'[c] = "completed"
          /\ disk'[c] = disk[c] \ {"build"}
          /\ extracted'[c] = extracted[c] /\ call'[c] = call[c]

Exited(c) ==
    /\ at[c] \in Stays /\ at'[c] = "exited"
    /\ order'[c] = order[c] /\ told'[c] = told[c] /\ clause'[c] = clause[c]
    /\ disk'[c] = disk[c] /\ extracted'[c] = extracted[c]
    /\ call'[c].cmd = call[c].cmd /\ call'[c].ok = call[c].ok

Concluded(c) ==
    /\ at[c] = "completed" /\ at'[c] = "returned"
    /\ told'[c] = <<"completed">>
    /\ order'[c] = order[c] /\ clause'[c] = clause[c] /\ disk'[c] = disk[c]
    /\ extracted'[c] = extracted[c] /\ call'[c] = call[c]

Kinds(c) ==
    \/ Quiet(c)
    \/ Born(c)
    \/ InCall(c)
    \/ \E error, left : Handled(c, error, left)
    \/ Handling(c)
    \/ Onward(c)
    \/ Exited(c)
    \/ Concluded(c)

StepOf(c) == Kinds(c) /\ \A d \in Contexts \ {c} : Quiet(d)

-----------------------------------------------------------------------------
(* Every step is one of these kinds.                                        *)

(* A clause that begins while no call is open, or when one has failed.      *)
LEMMA HandledStep ==
    ASSUME IInv, NEW c \in Contexts, at[c] \in Stays,
           NEW error, NEW left, HandleLeaving(c, error, left),
           order' = order, extracted' = extracted,
           \/ left = disk[c]
           \/ /\ at[c] \in {"downloading", "choosing"} /\ "decode" \in Faults
              /\ left = disk[c] \union {"download"}
           \/ at[c] = "extracting" /\ left = Kept(c) \union {"build"},
           at[c] = "extracting" => Faults \intersect {"extract", "bus"} # {},
           error = "validation" => at[c] = "validating" /\ "validate" \in Faults,
           error = "already" => ~order[c].reinstall /\ AlreadyThere(c),
           error = "dependency" => order[c].method = "market" /\ Unneeded(c),
           call'[c].cmd = call[c].cmd,
           call'[c] = call[c] \/ ~call'[c].ok,
           \A d \in Contexts \ {c} : call'[d] = call[d]
    PROVE  StepOf(c)
  <1>1. /\ at'[c] = "handling" /\ clause'[c] = Clause(c, error) /\ disk'[c] = left
        /\ told' = told
        /\ \A d \in Contexts \ {c} :
              at'[d] = at[d] /\ clause'[d] = clause[d] /\ disk'[d] = disk[d]
    BY DEF HandleLeaving, IInv, TaskTypeOK
  <1>2. Handled(c, error, left)
    BY <1>1 DEF Handled
  <1>3. \A d \in Contexts \ {c} : Quiet(d)
    BY <1>1 DEF Quiet, Same
  <1> QED
    BY <1>2, <1>3 DEF StepOf, Kinds

(* A step that goes to another place.                                       *)
LEMMA OnwardStep ==
    ASSUME IInv, NEW c \in Contexts, NEW place, at' = [at EXCEPT ![c] = place],
           told' = told, clause' = clause, order' = order,
           at'[c] = place => Onward(c) \/ Exited(c),
           \A d \in Contexts \ {c} : /\ disk'[d] = disk[d]
                                    /\ extracted'[d] = extracted[d]
                                    /\ call'[d] = call[d]
    PROVE  StepOf(c)
  <1>1. at'[c] = place /\ \A d \in Contexts \ {c} : at'[d] = at[d]
    BY DEF IInv, TaskTypeOK
  <1>2. \A d \in Contexts \ {c} : Quiet(d)
    BY <1>1 DEF Quiet, Same
  <1> QED
    BY <1>1, <1>2 DEF StepOf, Kinds

(* The steps at which no call is open, or can be.                           *)
LEMMA NoCallOpen ==
    ASSUME IInv, NEW c \in Contexts,
           at[c] \notin {"updating", "installing", "removing"}
    PROVE  call[c].phase = "idle"
  BY DEF IInv, ContextOK, InTheCall

LEMMA PublishFailsKind ==
    ASSUME IInv, NEW c \in Contexts, PublishFails(c) PROVE StepOf(c)
  <1>1. /\ at[c] \in Stays /\ "bus" \in Faults
        /\ HandleLeaving(c, "other", disk[c])
        /\ UNCHANGED <<order, extracted, call>>
    BY DEF PublishFails, Fails, Handle, Stays, contextVars, serviceVars
  <1> QED
    BY <1>1, HandledStep

LEMMA PlainKind ==
    ASSUME IInv, NEW c \in Contexts,
           Execute(c) \/ Starting(c) \/ DependenciesDone(c) \/ SkipUpdate(c)
    PROVE  StepOf(c)
  <1> USE DEF Execute, Starting, DependenciesDone, SkipUpdate, Goto
  <1>1. UNCHANGED <<order, extracted, call, disk, told, clause>> /\ call[c].phase = "idle"
    BY NoCallOpen DEF contextVars, serviceVars
  <1>2. PICK place :
           /\ at' = [at EXCEPT ![c] = place]
           /\ \/ at[c] = "queued" /\ place = "starting"
              \/ /\ at[c] = "starting"
                 /\ place = IF order[c].kind = "install" THEN "downloading" ELSE "removing"
              \/ at[c] = "installing dependencies" /\ place = "building"
              \/ at[c] = "updating" /\ place = "installing"
    OBVIOUS
  <1>3. at'[c] = place => Onward(c)
    BY <1>1, <1>2 DEF Onward
  <1> QED
    BY <1>1, <1>2, <1>3, OnwardStep

LEMMA DownloadKind ==
    ASSUME IInv, NEW c \in Contexts, Download(c) \/ LookUp(c) \/ Choose(c)
    PROVE  StepOf(c)
  <1>1. /\ at[c] \in {"downloading", "choosing"} /\ at[c] \in Stays
        /\ call[c].phase = "idle"
        /\ UNCHANGED <<order, extracted, call>>
    BY NoCallOpen DEF Download, LookUp, Choose, Stays, Steps, InstallSteps, serviceVars
  <1>2. ASSUME NEW error \in {"command", "other", "dependency"}, Handle(c, error),
               error = "dependency" => order[c].method = "market" /\ Unneeded(c)
        PROVE  StepOf(c)
    BY <1>1, <1>2, HandledStep DEF Handle
  <1>3. ASSUME NEW v, Fetch(c, v),
               \/ at[c] = "choosing" /\ v \in Versions
               \/ /\ at[c] = "downloading" /\ order[c].method = "git"
                  /\ v = order[c].version
        PROVE  StepOf(c)
    <2>1. CASE /\ disk' = [disk EXCEPT ![c] = @ \union {"download"}]
               /\ version' = [version EXCEPT ![c] = v]
               /\ at' = [at EXCEPT ![c] = "extracting"]
               /\ UNCHANGED <<told, clause>>
      <3>1. /\ disk'[c] = disk[c] \union {"download"} /\ version'[c] = v
            /\ \A d \in Contexts \ {c} : disk'[d] = disk[d]
        BY <2>1 DEF IInv, TaskTypeOK
      <3>2. at'[c] = "extracting" => Onward(c)
        BY <1>1, <1>3, <2>1, <3>1 DEF Onward
      <3> QED
        BY <1>1, <2>1, <3>1, <3>2, OnwardStep
    <2>2. CASE Fails(c, "download", {"command", "other"})
      BY <1>2, <2>2 DEF Fails
    <2>3. CASE /\ "decode" \in Faults
               /\ HandleLeaving(c, "other", disk[c] \union {"download"})
      BY <1>1, <2>3, HandledStep
    <2> QED
      BY <1>3, <2>1, <2>2, <2>3 DEF Fetch
  <1>4. CASE Download(c)
    <2>1. CASE Fetch(c, order[c].version) /\ order[c].method = "git"
      BY <1>3, <1>4, <2>1 DEF Download
    <2>2. CASE Handle(c, "other")
      BY <1>2, <2>2
    <2> QED
      BY <1>4, <2>1, <2>2 DEF Download, Fails
  <1>5. CASE LookUp(c)
    <2>1. /\ at[c] = "downloading" /\ at' = [at EXCEPT ![c] = "choosing"]
          /\ UNCHANGED <<disk, told, clause>>
      BY <1>5 DEF LookUp, Goto
    <2>2. at'[c] = "choosing" => Onward(c)
      BY <1>1, <2>1 DEF Onward
    <2> QED
      BY <1>1, <2>1, <2>2, OnwardStep
  <1>6. CASE Choose(c)
    <2>1. /\ at[c] = "choosing" /\ AtTheMarket(c)
          /\ look[c].next > Len(Market[Plugin(c)])
      BY <1>6 DEF Choose, IInv, ContextOK
    <2>2. CASE (Satisfied(c) \/ look[c].choice = 0) /\ Handle(c, "dependency")
      BY <1>2, <2>1, <2>2 DEF Unneeded, AtTheMarket
    <2>3. CASE look[c].choice # 0 /\ Fetch(c, look[c].choice)
      <3>1. look[c].choice \in Versions
        BY <2>3, LooksTyped DEF Looks
      <3> QED
        BY <1>3, <2>1, <2>3, <3>1
    <2> QED
      BY <1>6, <2>2, <2>3 DEF Choose
  <1> QED
    BY <1>4, <1>5, <1>6

LEMMA ExtractKind ==
    ASSUME IInv, NEW c \in Contexts, Extract(c) PROVE StepOf(c)
  <1>1. /\ at[c] = "extracting" /\ at[c] \in Stays /\ call[c].phase = "idle"
        /\ UNCHANGED <<order, call>>
    BY NoCallOpen DEF Extract, Stays, Steps, InstallSteps, serviceVars
  <1>2. CASE /\ disk' = [disk EXCEPT ![c] = Kept(c) \union {"build"}]
             /\ extracted' = [extracted EXCEPT ![c] = TRUE]
             /\ at' = [at EXCEPT ![c] = "validating"]
             /\ UNCHANGED <<told, clause>>
    <2>1. /\ disk'[c] = Kept(c) \union {"build"} /\ extracted'[c]
          /\ \A d \in Contexts \ {c} :
                disk'[d] = disk[d] /\ extracted'[d] = extracted[d]
      BY <1>2 DEF IInv, TaskTypeOK
    <2>2. at'[c] = "validating" => Onward(c)
      BY <1>1, <1>2, <2>1 DEF Onward
    <2> QED
      BY <1>1, <1>2, <2>1, <2>2, OnwardStep
  <1>3. CASE /\ "extract" \in Faults
             /\ \/ Handle(c, "other")
                \/ HandleLeaving(c, "other", Kept(c) \union {"build"})
             /\ UNCHANGED extracted
    BY <1>1, <1>3, HandledStep DEF Handle
  <1> QED
    BY <1>2, <1>3 DEF Extract, Kept

LEMMA ValidateKind ==
    ASSUME IInv, NEW c \in Contexts, Validate(c) PROVE StepOf(c)
  <1>1. /\ at[c] = "validating" /\ at[c] \in Stays /\ call[c].phase = "idle"
        /\ UNCHANGED <<order, extracted, call>>
    BY NoCallOpen DEF Validate, Stays, Steps, InstallSteps, serviceVars
  <1>2. ASSUME NEW error \in {"validation", "other", "already"}, Handle(c, error),
               error = "validation" => "validate" \in Faults,
               error = "already" => ~order[c].reinstall /\ AlreadyThere(c)
        PROVE  StepOf(c)
    BY <1>1, <1>2, HandledStep DEF Handle
  <1>3. ASSUME Goto(c, "installing dependencies") PROVE StepOf(c)
    <2>1. UNCHANGED <<disk, told, clause>> /\ at' = [at EXCEPT ![c] = "installing dependencies"]
      BY <1>3 DEF Goto
    <2>2. at'[c] = "installing dependencies" => Onward(c)
      BY <1>1, <2>1 DEF Onward
    <2> QED
      BY <1>1, <2>1, <2>2, OnwardStep
  <1> QED
    BY <1>1, <1>2, <1>3 DEF Validate, Fails, AlreadyThere

LEMMA BuildKind ==
    ASSUME IInv, NEW c \in Contexts, Build(c) \/ Package(c) PROVE StepOf(c)
  <1>1. /\ at[c] \in {"building", "packaging"} /\ at[c] \in Stays
        /\ call[c].phase = "idle"
        /\ UNCHANGED <<order, extracted, call>>
    BY NoCallOpen DEF Build, Package, Stays, Steps, InstallSteps, contextVars, serviceVars
  <1>2. ASSUME NEW error \in {"command", "other"}, Handle(c, error) PROVE StepOf(c)
    BY <1>1, <1>2, HandledStep DEF Handle
  <1>3. ASSUME NEW place, Goto(c, place),
               \/ at[c] = "building" /\ place = "packaging"
               \/ at[c] = "packaging" /\ place = "updating"
        PROVE  StepOf(c)
    <2>1. UNCHANGED <<disk, told, clause>> /\ at' = [at EXCEPT ![c] = place]
      BY <1>3 DEF Goto
    <2>2. at'[c] = place => Onward(c)
      BY <1>1, <1>3, <2>1 DEF Onward
    <2> QED
      BY <1>1, <2>1, <2>2, OnwardStep
  <1> QED
    BY <1>2, <1>3 DEF Build, Package, Fails

LEMMA CleanKind ==
    ASSUME IInv, NEW c \in Contexts, Clean(c) PROVE StepOf(c)
  <1>1. /\ at[c] = "cleaning" /\ at[c] \in Stays /\ call[c].phase = "idle"
        /\ UNCHANGED <<order, extracted, call>>
    BY NoCallOpen DEF Clean, Stays, Steps, InstallSteps, contextVars, serviceVars
  <1>2. CASE Fails(c, "clean", {"other"})
    BY <1>1, <1>2, HandledStep DEF Fails, Handle
  <1>3. CASE /\ disk' = [disk EXCEPT ![c] = @ \ {"build"}]
             /\ at' = [at EXCEPT ![c] = "completed"]
             /\ UNCHANGED <<told, clause>>
    <2>1. /\ disk'[c] = disk[c] \ {"build"}
          /\ \A d \in Contexts \ {c} : disk'[d] = disk[d]
      BY <1>3 DEF IInv, TaskTypeOK
    <2>2. at'[c] = "completed" => Onward(c)
      BY <1>1, <1>3, <2>1 DEF Onward
    <2> QED
      BY <1>1, <1>3, <2>1, <2>2, OnwardStep
  <1> QED
    BY <1>2, <1>3 DEF Clean

LEMMA CompleteKind ==
    ASSUME IInv, NEW c \in Contexts, Complete(c) PROVE StepOf(c)
  <1>1. at[c] = "completed" /\ told[c] = <<>>
    BY SoloStep DEF Complete, Stays, Steps, InstallSteps
  <1>2. Append(told[c], "completed") = <<"completed">>
    BY <1>1
  <1>3. /\ at'[c] = "returned" /\ told'[c] = <<"completed">>
        /\ \A d \in Contexts \ {c} : at'[d] = at[d] /\ told'[d] = told[d]
    BY <1>2 DEF Complete, IInv, TaskTypeOK
  <1>4. UNCHANGED <<order, disk, clause, extracted, call>>
    BY DEF Complete, contextVars, serviceVars
  <1>5. Concluded(c) /\ \A d \in Contexts \ {c} : Quiet(d)
    BY <1>1, <1>3, <1>4 DEF Concluded, Quiet, Same
  <1> QED
    BY <1>5 DEF StepOf, Kinds

(* A statement of an except clause.                                         *)
LEMMA HandlingKind ==
    ASSUME IInv, NEW c \in Contexts, HandlerCleans(c) \/ HandlerTells(c)
    PROVE  StepOf(c)
  <1>1. /\ at[c] = "handling" /\ UNCHANGED <<order, extracted, call>>
        /\ Head(clause[c]) = "clean" <=> HandlerCleans(c)
    BY DEF HandlerCleans, HandlerTells, contextVars, serviceVars
  <1>2. \/ told[c] = <<>> /\ clause[c] \in Whole \union {<<"completed">>}
        \/ told[c] = <<"error">> /\ clause[c] = <<"clean">>
    BY <1>1, InTheClause
  <1>3. CASE Escape(c)
    <2>1. GivenUp(c) /\ \A d \in Contexts \ {c} : Quiet(d)
      BY <1>1, <1>3 DEF Escape, GivenUp, Quiet, Same, IInv, TaskTypeOK
    <2> QED
      BY <1>1, <2>1 DEF Handling, StepOf, Kinds
  <1>4. CASE HandlerCleans(c) /\ ~Escape(c)
    <2> DEFINE rest == Tail(clause[c])
    <2>1. /\ Proceed(c) /\ told' = told
          /\ disk'[c] = IF extracted[c] THEN disk[c] \ {"build"} ELSE disk[c]
          /\ \A d \in Contexts \ {c} : disk'[d] = disk[d]
      BY <1>4 DEF HandlerCleans, IInv, TaskTypeOK
    <2>2. \/ /\ told[c] = <<>> /\ rest # <<>>
             /\ \/ clause[c] = <<"clean", "error">> /\ rest = <<"error">>
                \/ clause[c] = <<"clean", "completed">> /\ rest = <<"completed">>
          \/ told[c] = <<"error">> /\ clause[c] = <<"clean">> /\ rest = <<>>
      <3>1. Head(clause[c]) = "clean"
        BY <1>4 DEF HandlerCleans
      <3>2. CASE clause[c] \in {<<"error">>, <<"error", "clean">>, <<"completed">>}
        <4>1. Head(clause[c]) # "clean"
          BY <3>2
        <4> QED
          BY <3>1, <4>1
      <3>3. CASE clause[c] = <<"clean", "error">> /\ told[c] = <<>>
        <4>1. rest = <<"error">>
          BY <3>3
        <4> QED
          BY <3>3, <4>1, Verdicts
      <3>4. CASE clause[c] = <<"clean", "completed">> /\ told[c] = <<>>
        <4>1. rest = <<"completed">>
          BY <3>4
        <4> QED
          BY <3>4, <4>1, Verdicts
      <3>5. CASE clause[c] = <<"clean">> /\ told[c] = <<"error">>
        <4>1. rest = <<>>
          BY <3>5
        <4> QED
          BY <3>5, <4>1
      <3> QED
        BY <1>2, <3>2, <3>3, <3>4, <3>5 DEF Whole
    <2> HIDE DEF rest
    <2>3. /\ clause'[c] = rest
          /\ at'[c] = IF rest = <<>> THEN "returned" ELSE "handling"
          /\ \A d \in Contexts \ {c} : clause'[d] = clause[d] /\ at'[d] = at[d]
      BY <2>1 DEF Proceed, rest, IInv, TaskTypeOK
    <2>4. Cleared(c) /\ \A d \in Contexts \ {c} : Quiet(d)
      BY <1>1, <2>1, <2>2, <2>3 DEF Cleared, Quiet, Same
    <2> QED
      BY <1>1, <2>4 DEF Handling, StepOf, Kinds
  <1>5. CASE HandlerTells(c) /\ ~Escape(c)
    <2> DEFINE rest == Tail(clause[c])
               said == Append(told[c], Head(clause[c]))
    <2>1. /\ Proceed(c) /\ disk' = disk
          /\ told'[c] = said
          /\ \A d \in Contexts \ {c} : told'[d] = told[d]
      BY <1>5 DEF HandlerTells, IInv, TaskTypeOK
    <2>2. /\ told[c] = <<>>
          /\ \/ /\ clause[c] = <<"error", "clean">> /\ rest = <<"clean">>
                /\ rest # <<>> /\ said = <<"error">>
             \/ /\ clause[c] \in {<<"error">>, <<"completed">>} /\ rest = <<>>
                /\ said = clause[c]
      <3>1. Head(clause[c]) # "clean"
        BY <1>5 DEF HandlerTells
      <3>2. CASE clause[c] \in {<<"clean", "error">>, <<"clean", "completed">>, <<"clean">>}
        <4>1. Head(clause[c]) = "clean"
          BY <3>2
        <4> QED
          BY <3>1, <4>1
      <3>3. CASE clause[c] = <<"error", "clean">> /\ told[c] = <<>>
        <4>1. rest = <<"clean">> /\ said = <<"error">>
          BY <3>3
        <4> QED
          BY <3>3, <4>1, Verdicts
      <3>4. CASE clause[c] = <<"error">> /\ told[c] = <<>>
        <4>1. rest = <<>> /\ said = <<"error">>
          BY <3>4
        <4> QED
          BY <3>4, <4>1
      <3>5. CASE clause[c] = <<"completed">> /\ told[c] = <<>>
        <4>1. rest = <<>> /\ said = <<"completed">>
          BY <3>5
        <4> QED
          BY <3>5, <4>1
      <3> QED
        BY <1>2, <3>2, <3>3, <3>4, <3>5 DEF Whole
    <2> HIDE DEF rest, said
    <2>3. /\ clause'[c] = rest
          /\ at'[c] = IF rest = <<>> THEN "returned" ELSE "handling"
          /\ \A d \in Contexts \ {c} : clause'[d] = clause[d] /\ at'[d] = at[d]
      BY <2>1 DEF Proceed, rest, IInv, TaskTypeOK
    <2>4. Spoken(c) /\ \A d \in Contexts \ {c} : Quiet(d)
      BY <1>1, <2>1, <2>2, <2>3 DEF Spoken, Quiet, Same
    <2> QED
      BY <1>1, <2>4 DEF Handling, StepOf, Kinds
  <1> QED
    BY <1>3, <1>4, <1>5

(* Choosing a version and the work of a command concern no task's course.   *)
LEMMA QuietKind ==
    ASSUME NEW c \in Contexts, Mark(c) \/ Work(c) PROVE \A d \in Contexts : Quiet(d)
  BY DEF Mark, Work, Unpack, Configure, RemovePackage, Quiet, Same, contextVars,
         handlerVars, serviceVars

(* A call that stays open.                                                  *)
LEMMA InCallStep ==
    ASSUME IInv, NEW c \in Contexts,
           at[c] \in {"updating", "installing", "removing"},
           NEW k, Called(call[c], k), k.cmd = RootCommand(c),
           call' = [call EXCEPT ![c] = k],
           UNCHANGED <<contextVars, handlerVars>>
    PROVE  StepOf(c)
  <1>1. call'[c] = k /\ \A d \in Contexts \ {c} : call'[d] = call[d]
    BY DEF IInv, TaskTypeOK
  <1>2. \A d \in Contexts : Same(d)
    BY DEF Same, contextVars, handlerVars
  <1>3. InCall(c)
    BY <1>1, <1>2 DEF InCall
  <1> QED
    BY <1>1, <1>2, <1>3 DEF StepOf, Kinds, Quiet

LEMMA CallKind ==
    ASSUME IInv, NEW c \in Contexts, Ask(c) \/ (ServiceStep(c) /\ ~Work(c))
    PROVE  StepOf(c)
  <1>1. UNCHANGED <<contextVars, handlerVars>>
    BY DEF Ask, ServiceStep, BeginCommand, FinishCommand, Refused
  <1>2. at[c] \in {"updating", "installing", "removing"}
    BY OpenCall DEF Ask, ServiceStep, BeginCommand, FinishCommand, Refused,
       Service!Begin, Service!Running, Service!Refuse
  <1>3. PICK k : /\ Called(call[c], k) /\ k.cmd = RootCommand(c)
                 /\ call' = [call EXCEPT ![c] = k]
    <2>1. CASE Ask(c)
      BY <2>1 DEF Ask, Service!Invoke, Called
    <2>2. ASSUME call[c].phase # "idle" PROVE call[c].cmd = RootCommand(c)
      BY <2>2, OpenCall
    <2>3. CASE BeginCommand(c)
      <3>1. call' = [call EXCEPT ![c] = [call[c] EXCEPT !.phase = "running"]]
        BY <2>3 DEF BeginCommand, Service!Begin
      <3>2. /\ Called(call[c], [call[c] EXCEPT !.phase = "running"])
            /\ [call[c] EXCEPT !.phase = "running"].cmd = call[c].cmd
            /\ call[c].phase # "idle"
        BY <2>3 DEF IInv, TaskTypeOK, BeginCommand, Service!Begin, Called
      <3> QED
        BY <2>2, <3>1, <3>2
    <2>4. CASE FinishCommand(c)
      BY <2>2, <2>4 DEF FinishCommand, Service!Finish, Service!Running, Called
    <2>5. CASE Refused(c)
      <3>1. call' = [call EXCEPT ![c] = [call[c] EXCEPT !.phase = "refused"]]
        BY <2>5 DEF Refused, Service!Refuse
      <3>2. /\ Called(call[c], [call[c] EXCEPT !.phase = "refused"])
            /\ [call[c] EXCEPT !.phase = "refused"].cmd = call[c].cmd
            /\ call[c].phase # "idle"
        BY <2>5 DEF IInv, TaskTypeOK, Refused, Service!Refuse, Called
      <3> QED
        BY <2>2, <3>1, <3>2
    <2> QED
      BY <2>1, <2>3, <2>4, <2>5 DEF ServiceStep
  <1> QED
    BY <1>1, <1>2, <1>3, InCallStep

(* The answer to a call is taken: nothing but its phase changes.            *)
LEMMA AnswerTaken ==
    ASSUME IInv, NEW c \in Contexts, call' = [call EXCEPT ![c].phase = "idle"]
    PROVE  /\ call'[c].phase = "idle"
           /\ call'[c].cmd = call[c].cmd /\ call'[c].ok = call[c].ok
           /\ \A d \in Contexts \ {c} : call'[d] = call[d]
  BY DEF IInv, TaskTypeOK

LEMMA AnsweredKind ==
    ASSUME IInv, NEW c \in Contexts, Answered(c) PROVE StepOf(c)
  <1>1. /\ call[c].phase # "idle"
        /\ call' = [call EXCEPT ![c].phase = "idle"]
        /\ UNCHANGED <<order, extracted>>
    BY DEF Answered, Service!Return, contextVars
  <1>2. /\ at[c] \in {"updating", "installing", "removing"} /\ at[c] \in Stays
        /\ call[c].cmd = RootCommand(c) /\ call[c].cmd \in Commands
    BY <1>1, OpenCall
  <1>3. CASE ~call[c].ok /\ Handle(c, "other")
    <2>1. ~call'[c].ok /\ call'[c].cmd = call[c].cmd
      BY <1>1, <1>3, AnswerTaken
    <2>2. \A d \in Contexts \ {c} : call'[d] = call[d]
      BY <1>1, AnswerTaken
    <2> QED
      BY <1>1, <1>2, <1>3, <2>1, <2>2, HandledStep DEF Handle
  <1> DEFINE place == CASE at[c] = "updating" -> "installing"
                        [] at[c] = "installing" -> "cleaning"
                        [] OTHER -> "completed"
  <1>4. CASE call[c].ok /\ Goto(c, place)
    <2>1. UNCHANGED <<disk, told, clause>> /\ at' = [at EXCEPT ![c] = place]
      BY <1>4 DEF Goto
    <2>2. \/ /\ at[c] = "updating" /\ place = "installing"
             /\ call[c].cmd.name = "update"
          \/ /\ at[c] = "installing" /\ place = "cleaning"
             /\ call[c].cmd.name = "install"
          \/ at[c] = "removing" /\ place = "completed"
      BY <1>2 DEF RootCommand
    <2>3. call[c].cmd # Nothing
      BY <1>2, PluginTasksAssumption
    <2>4. /\ call'[c].phase = "idle" /\ call'[c].cmd = call[c].cmd /\ call'[c].ok
          /\ call[c].phase = "answered" /\ call[c].ok
          /\ \A d \in Contexts \ {c} : call'[d] = call[d]
      BY <1>1, <1>4, AnswerTaken DEF Answered, Service!Return
    <2> HIDE DEF place
    <2>5. at'[c] = place => Onward(c)
      BY <1>1, <2>1, <2>2, <2>3, <2>4 DEF Onward
    <2> QED
      BY <1>1, <2>1, <2>4, <2>5, OnwardStep
  <1> QED
    BY <1>3, <1>4 DEF Answered

LEMMA ExitsKind ==
    ASSUME IInv, NEW c \in Contexts, Exits(c) PROVE StepOf(c)
  <1>1. /\ call[c].phase # "idle"
        /\ call' = [call EXCEPT ![c].phase = "idle"]
        /\ UNCHANGED <<order, extracted, disk, told, clause>>
        /\ at' = [at EXCEPT ![c] = "exited"]
    BY DEF Exits, Service!Forget, Goto, contextVars
  <1>2. at[c] \in Stays
    BY <1>1, OpenCall
  <1>3. /\ call'[c].cmd = call[c].cmd
        /\ \A d \in Contexts \ {c} : call'[d] = call[d]
    BY <1>1, AnswerTaken
  <1>4. at'[c] = "exited" => Exited(c)
    BY <1>1, <1>2, <1>3 DEF Exited
  <1> QED
    BY <1>1, <1>3, <1>4, OnwardStep

LEMMA DependencyEndsKind ==
    ASSUME IInv, NEW c \in Contexts, DependencyEnds(c) PROVE StepOf(c)
  <1>1. /\ at[c] = "installing dependencies" /\ at[c] \in Stays
        /\ UNCHANGED <<order, extracted, call>>
    BY ChildOf DEF DependencyEnds, Stays, Steps, InstallSteps, serviceVars
  <1>2. CASE UNCHANGED handlerVars
    <2>1. \A d \in Contexts : Quiet(d)
      BY <1>1, <1>2 DEF Quiet, Same, handlerVars
    <2> QED
      BY <2>1 DEF StepOf, Kinds
  <1>3. CASE Handle(c, "other")
    BY <1>1, <1>3, HandledStep DEF Handle
  <1>4. CASE Goto(c, "exited")
    <2>1. UNCHANGED <<disk, told, clause>> /\ at' = [at EXCEPT ![c] = "exited"]
      BY <1>4 DEF Goto
    <2>2. at'[c] = "exited" => Exited(c)
      BY <1>1, <2>1 DEF Exited
    <2> QED
      BY <1>1, <2>1, <2>2, OnwardStep
  <1> QED
    BY <1>2, <1>3, <1>4 DEF DependencyEnds

LEMMA BornStep ==
    ASSUME IInv, NEW c \in Contexts, at[c] = "free",
           NEW r \in Requests, NEW place \in {"queued", "starting"},
           order' = [order EXCEPT ![c] = r], at' = [at EXCEPT ![c] = place],
           UNCHANGED <<told, clause, disk, extracted, call>>,
           \/ r \in Orders
           \/ /\ r.kind = "install" /\ r.method = "market"
              /\ ~r.reinstall /\ ~r.subdirectory,
           r.kind = "uninstall" => Installed(r.plugin),
           \A p \in Contexts : r.parent = p => at[p] = "installing dependencies"
    PROVE  StepOf(c)
  <1>1. /\ order'[c] = r /\ at'[c] = place
        /\ \A d \in Contexts \ {c} : order'[d] = order[d] /\ at'[d] = at[d]
    BY DEF IInv, TaskTypeOK
  <1>2. Born(c)
    <2>1. order'[c].kind = "uninstall" => Installed(order'[c].plugin)
      BY <1>1 DEF Installed
    <2> QED
      BY <1>1, <2>1 DEF Born
  <1>3. \A d \in Contexts \ {c} : Quiet(d)
    BY <1>1 DEF Quiet, Same
  <1> QED
    BY <1>2, <1>3 DEF StepOf, Kinds

LEMMA SubmitKind ==
    ASSUME IInv, NEW c \in Contexts, NEW o \in Orders, Submit(c, o) PROVE StepOf(c)
  <1>1. o \in Requests /\ \A p \in Contexts : o.parent # p
    BY PluginTasksAssumption
  <1>2. /\ at[c] = "free" /\ order' = [order EXCEPT ![c] = o]
        /\ o.kind = "uninstall" => Installed(o.plugin)
        /\ at' = [at EXCEPT ![c] = "queued"]
        /\ UNCHANGED <<told, clause, disk, extracted, call>>
    BY DEF Submit, Fresh, Goto, serviceVars
  <1> QED
    BY <1>1, <1>2, BornStep

LEMMA InstallDependencyKind ==
    ASSUME IInv, NEW c \in Contexts, NEW d \in Contexts, InstallDependency(c, d)
    PROVE  StepOf(d)
  <1> DEFINE r == [kind |-> "install", method |-> "market",
                   plugin |-> Head(todo[c]).plugin,
                   version |-> Head(todo[c]).version,
                   reinstall |-> FALSE, subdirectory |-> FALSE, parent |-> c]
  <1>1. /\ at[c] = "installing dependencies"
        /\ at[d] = "free" /\ order' = [order EXCEPT ![d] = r]
        /\ at' = [at EXCEPT ![d] = "starting"]
        /\ todo[c] # <<>>
        /\ UNCHANGED <<told, clause, disk, extracted, call>>
    BY DEF InstallDependency, Fresh, Goto, serviceVars
  <1>2. Head(todo[c]) \in Dependencies
    <2>1. todo[c] \in Seq(Dependencies)
      BY DEF IInv, TaskTypeOK
    <2> QED
      BY <1>1, <2>1, HeadTailProperties
  <1>3. /\ r \in Requests /\ r.parent = c
        /\ r.kind = "install" /\ r.method = "market"
        /\ ~r.reinstall /\ ~r.subdirectory
    BY <1>2 DEF Requests, Dependencies
  <1> HIDE DEF r
  <1> QED
    BY <1>1, <1>3, BornStep

(* Every step of the system is of one of the kinds for one context.         *)
LEMMA StepKind ==
    ASSUME IInv, [Next]_taskVars
    PROVE  (\E c \in Contexts : StepOf(c)) \/ (\A c \in Contexts : Quiet(c))
  <1>1. ASSUME NEW c \in Contexts, TaskStep(c), ~Mark(c)
        PROVE  \E d \in Contexts : StepOf(d)
    BY <1>1, PublishFailsKind, PlainKind, DownloadKind, ExtractKind, ValidateKind,
       InstallDependencyKind, DependencyEndsKind, BuildKind, CallKind, AnsweredKind,
       ExitsKind, CleanKind, CompleteKind, HandlingKind DEF TaskStep
  <1>2. CASE WorkerDies \/ UNCHANGED taskVars
    BY <1>2 DEF WorkerDies, Service!Down, taskVars, Quiet, Same, contextVars,
                handlerVars, serviceVars
  <1> QED
    BY <1>1, <1>2, CallKind, QuietKind, SubmitKind DEF Next

-----------------------------------------------------------------------------
(* What is left behind.                                                     *)

(* The steps before extract_path is set, and before anything is asked for.  *)
Unread == {"free", "queued", "starting", "downloading", "choosing", "extracting",
           "removing"}
Early == {"free", "queued", "starting", "downloading", "choosing", "extracting",
          "validating"}

(* "completed" is still to be said.                                         *)
Granted(c) == clause[c] \in {<<"completed">>, <<"clean", "completed">>}

Course(c) ==
    /\ at[c] \in Unread => ~extracted[c]
    /\ at[c] \in (InstallSteps \ {"starting", "completed"}) \union {"choosing"} =>
          order[c].kind = "install"
    /\ at[c] = "removing" => order[c].kind # "install"
    /\ Granted(c) => order[c].kind = "install"
    /\ extracted[c] => order[c].kind = "install"
    /\ extracted[c] /\ "download" \in disk[c] => order[c].subdirectory

Childless(c) == \A d \in Contexts : order[d].parent # c

Beginning(c) == at[c] \in Early => call[c].cmd = Nothing /\ Childless(c)

(* It has returned, or will without cleaning any more.                      *)
Settled(c) ==
    \/ at[c] = "returned"
    \/ at[c] = "handling" /\ clause[c] \in {<<"error">>, <<"completed">>}

(* A clause that cleans leaves no build directory, so it was the clause of  *)
(* a failed validation.                                                     *)
Leaves(c) ==
    Settled(c) /\ extracted[c] /\ "build" \in disk[c] =>
        /\ told[c] = <<"error">> \/ clause[c] = <<"error">>
        /\ call[c].cmd = Nothing /\ Childless(c)

LInv == \A c \in Contexts : Course(c) /\ Beginning(c) /\ Leaves(c)

(* The clauses of an install and of an uninstall.                           *)
LEMMA ClauseFor ==
    ASSUME NEW c, NEW error
    PROVE  /\ order[c].kind = "uninstall" \/ error = "validation" =>
                 Clause(c, error) = <<"error">>
           /\ order[c].kind = "install" /\ error # "validation" =>
                 Clause(c, error) \in {<<"error", "clean">>, <<"clean", "error">>,
                                      <<"clean", "completed">>}
  BY DEF Clause, Verdict

LEMMA Clauses ==
    /\ {<<"error">>, <<"completed">>} \intersect
          {<<>>, <<"clean">>, <<"error", "clean">>, <<"clean", "error">>,
           <<"clean", "completed">>} = {}
    /\ <<"clean", "completed">> \notin {<<>>, <<"clean">>, <<"error">>, <<"error", "clean">>,
                                      <<"clean", "error">>}
  <1>1. \A a, b, d : <<a>> # <<b, d>>
    <2>1. ASSUME NEW a, NEW b, NEW d, <<a>> = <<b, d>> PROVE FALSE
      <3>1. Len(<<a>>) = Len(<<b, d>>)
        BY <2>1
      <3> QED
        BY <3>1
    <2> QED
      BY <2>1
  <1>2. \A a, b, d, e : <<a, b>> = <<d, e>> => a = d /\ b = e
    <2>1. ASSUME NEW a, NEW b, NEW d, NEW e, <<a, b>> = <<d, e>> PROVE a = d /\ b = e
      <3>1. <<a, b>>[1] = <<d, e>>[1] /\ <<a, b>>[2] = <<d, e>>[2]
        BY <2>1
      <3> QED
        BY <3>1
    <2> QED
      BY <2>1
  <1>3. \A a, b : <<a, b>> # <<>>
    <2>1. ASSUME NEW a, NEW b, <<a, b>> = <<>> PROVE FALSE
      <3>1. Len(<<a, b>>) = Len(<<>>)
        BY <2>1
      <3> QED
        BY <3>1
    <2> QED
      BY <2>1
  <1>4. <<"clean", "completed">> \notin {<<"error", "clean">>, <<"clean", "error">>}
    BY <1>2
  <1> QED
    BY <1>1, <1>3, <1>4, Verdicts

LEMMA QuietCourse ==
    ASSUME NEW c \in Contexts, Course(c), Same(c) PROVE Course(c)'
  BY DEF Course, Granted, Same

LEMMA KindCourse ==
    ASSUME IInv, NEW c \in Contexts, Course(c), Kinds(c) PROVE Course(c)'
  <1> USE DEF Course, Unread, InstallSteps
  <1>1. CASE Quiet(c) \/ InCall(c)
    BY <1>1, QuietCourse DEF Quiet, InCall
  <1>2. at[c] = "free" \/ at[c] \in Stays => clause[c] = <<>>
    BY SoloStep DEF IInv, ContextOK, Telling
  <1>3. CASE Born(c)
    <2>1. /\ ~extracted'[c] /\ at'[c] \in {"queued", "starting"}
          /\ clause'[c] = <<>>
      BY <1>2, <1>3 DEF Born
    <2> QED
      BY <2>1, Clauses DEF Granted
  <1>4. ASSUME NEW error, NEW left, Handled(c, error, left) PROVE Course(c)'
    <2>1. /\ at'[c] = "handling" /\ UNCHANGED <<order[c], extracted[c]>>
          /\ disk'[c] = left /\ clause'[c] = Clause(c, error)
          /\ \/ left = disk[c] \/ at[c] \in {"downloading", "choosing"}
             \/ at[c] = "extracting"
      BY <1>4 DEF Handled
    <2>2. order[c].kind \in {"install", "uninstall"}
      BY <1>4, SoloStep DEF Handled, Requests
    <2>3. Granted(c)' => order[c].kind = "install"
      <3>1. CASE order[c].kind = "uninstall"
        <4>1. clause'[c] = <<"error">>
          BY <2>1, <3>1, ClauseFor
        <4> QED
          BY <4>1, Verdicts, Clauses DEF Granted
      <3> QED
        BY <2>2, <3>1
    <2> QED
      BY <2>1, <2>3
  <1>5. CASE Handling(c)
    <2>1. /\ at'[c] \in {"handling", "returned", "escaped"}
          /\ UNCHANGED <<order[c], extracted[c]>>
          /\ disk'[c] \subseteq disk[c]
      BY <1>5 DEF Handling, Cleared, Spoken, GivenUp
    <2>2. Granted(c)' => Granted(c)
      BY <1>5, Clauses, Verdicts DEF Handling, Cleared, Spoken, GivenUp, Granted
    <2> QED
      BY <2>1, <2>2
  <1>6. CASE Onward(c)
    <2>1. clause'[c] = clause[c]
      BY <1>6 DEF Onward
    <2> QED
      BY <1>6, <2>1 DEF Onward, Kept, Granted
  <1>7. CASE Exited(c) \/ Concluded(c)
    BY <1>7 DEF Exited, Concluded, Granted
  <1> QED
    BY <1>1, <1>3, <1>4, <1>5, <1>6, <1>7 DEF Kinds

(* Nobody becomes a child of a context that installs no dependencies.       *)
LEMMA StaysChildless ==
    ASSUME NEW c \in Contexts, Childless(c), at[c] # "installing dependencies",
           NEW b \in Contexts, StepOf(b)
    PROVE  Childless(c)'
  <1>1. ASSUME NEW d \in Contexts PROVE order'[d].parent # c
    <2>1. order'[d] = order[d] \/ Born(d)
      BY DEF StepOf, Kinds, Quiet, Same, InCall, Handled, Handling, Onward, Exited,
             Concluded
    <2> QED
      BY <2>1 DEF Born, Childless
  <1> QED
    BY <1>1 DEF Childless

LEMMA KindBeginning ==
    ASSUME IInv, NEW c \in Contexts, Beginning(c), StepOf(c) PROVE Beginning(c)'
  <1>1. SUFFICES ASSUME at'[c] \in Early
                 PROVE  call'[c].cmd = Nothing /\ Childless(c)'
    BY DEF Beginning
  <1>2. at[c] \in Early /\ call'[c].cmd = call[c].cmd
    BY <1>1 DEF StepOf, Kinds, Quiet, Same, Born, InCall, Handled, Handling, Cleared,
                Spoken, GivenUp, Onward, Exited, Concluded, Early
  <1>3. call[c].cmd = Nothing /\ Childless(c) /\ at[c] # "installing dependencies"
    BY <1>2 DEF Beginning, Early
  <1> QED
    BY <1>2, <1>3, StaysChildless

LEMMA KindLeaves ==
    ASSUME IInv, NEW c \in Contexts, Course(c), Beginning(c), Leaves(c), StepOf(c)
    PROVE  Leaves(c)'
  <1>1. SUFFICES ASSUME Settled(c)', extracted'[c], "build" \in disk'[c]
                 PROVE  /\ told'[c] = <<"error">> \/ clause'[c] = <<"error">>
                        /\ call'[c].cmd = Nothing /\ Childless(c)'
    BY DEF Leaves
  <1>2. CASE Quiet(c)
    <2>1. Settled(c) /\ extracted[c] /\ "build" \in disk[c]
      BY <1>1, <1>2 DEF Quiet, Same, Settled
    <2>2. /\ told[c] = <<"error">> \/ clause[c] = <<"error">>
          /\ call[c].cmd = Nothing /\ Childless(c)
      BY <2>1 DEF Leaves
    <2>3. /\ told'[c] = told[c] /\ clause'[c] = clause[c] /\ call'[c] = call[c]
          /\ at[c] # "installing dependencies"
      BY <1>2, <2>1 DEF Quiet, Same, Settled
    <2> QED
      BY <2>2, <2>3, StaysChildless
  <1>3. ASSUME NEW error, NEW left, Handled(c, error, left)
        PROVE  /\ clause'[c] = <<"error">> /\ call'[c].cmd = Nothing
               /\ Childless(c)'
    <2>1. /\ extracted[c] /\ order[c].kind = "install"
          /\ at'[c] = "handling" /\ clause'[c] = Clause(c, error)
      BY <1>1, <1>3 DEF Handled, Course
    <2>2. clause'[c] \in {<<"error">>, <<"completed">>}
      BY <1>1, <2>1 DEF Settled
    <2>3. error = "validation"
      BY <2>1, <2>2, ClauseFor, Clauses
    <2>4. at[c] = "validating" /\ call'[c].cmd = call[c].cmd
      BY <1>3, <2>3 DEF Handled
    <2>5. call[c].cmd = Nothing /\ Childless(c)
      BY <2>4 DEF Beginning, Early
    <2> QED
      BY <2>1, <2>3, <2>4, <2>5, ClauseFor, StaysChildless
  <1>4. CASE Handling(c)
    <2>1. Spoken(c) /\ at'[c] = "returned" /\ clause[c] \in {<<"error">>, <<"completed">>}
      BY <1>1, <1>4, Clauses DEF Handling, Cleared, Spoken, GivenUp, Settled
    <2>2. Settled(c) /\ extracted[c] /\ "build" \in disk[c] /\ at[c] = "handling"
      BY <1>1, <1>4, <2>1 DEF Handling, Spoken, Settled
    <2>3. /\ told[c] = <<"error">> \/ clause[c] = <<"error">>
          /\ call[c].cmd = Nothing /\ Childless(c)
      BY <2>2 DEF Leaves
    <2>4. told'[c] = <<"error">> /\ call'[c] = call[c]
      BY <1>4, <2>1, <2>3, Verdicts, Clauses DEF Handling, Spoken
    <2> QED
      BY <2>2, <2>3, <2>4, StaysChildless
  <1>5. CASE Concluded(c)
    <2>1. "build" \notin disk[c]
      BY <1>5 DEF Concluded, IInv, ContextOK, Directories, Unbuilt
    <2> QED
      BY <1>1, <1>5, <2>1 DEF Concluded
  <1>6. ~(Born(c) \/ InCall(c) \/ Onward(c) \/ Exited(c))
    BY <1>1 DEF Born, InCall, Same, Onward, Exited, Settled
  <1> QED
    BY <1>2, <1>3, <1>4, <1>5, <1>6 DEF StepOf, Kinds

(* The other contexts, at a step of b.                                      *)
LEMMA OthersLeave ==
    ASSUME NEW c \in Contexts, Course(c), Beginning(c), Leaves(c), Quiet(c),
           NEW b \in Contexts, StepOf(b)
    PROVE  Course(c)' /\ Beginning(c)' /\ Leaves(c)'
  <1>1. Course(c)'
    BY QuietCourse DEF Quiet
  <1>2. Beginning(c)'
    <2>1. CASE at[c] \in Early
      <3>1. at[c] # "installing dependencies"
        BY <2>1 DEF Early
      <3>2. Childless(c)' /\ call'[c].cmd = Nothing
        BY <2>1, <3>1, StaysChildless DEF Beginning, Quiet
      <3> QED
        BY <3>2 DEF Beginning
    <2>2. CASE at[c] \notin Early
      BY <2>2 DEF Beginning, Quiet, Same
    <2> QED
      BY <2>1, <2>2
  <1>3. Leaves(c)'
    <2>1. CASE Settled(c) /\ extracted[c] /\ "build" \in disk[c]
      <3>1. at[c] # "installing dependencies"
        BY <2>1 DEF Settled
      <3>2. /\ Childless(c)' /\ call'[c].cmd = Nothing
            /\ told'[c] = <<"error">> \/ clause'[c] = <<"error">>
        BY <2>1, <3>1, StaysChildless DEF Leaves, Quiet, Same
      <3> QED
        BY <3>2 DEF Leaves
    <2>2. CASE ~(Settled(c) /\ extracted[c] /\ "build" \in disk[c])
      BY <2>2 DEF Leaves, Settled, Quiet, Same
    <2> QED
      BY <2>1, <2>2
  <1> QED
    BY <1>1, <1>2, <1>3

LEMMA QuietLeave ==
    ASSUME \A c \in Contexts : Quiet(c), LInv PROVE LInv'
  <1>1. ASSUME NEW c \in Contexts PROVE Course(c)' /\ Beginning(c)' /\ Leaves(c)'
    <2>1. Course(c)'
      BY QuietCourse DEF LInv, Quiet
    <2>2. Childless(c)' = Childless(c)
      BY DEF Childless, Quiet, Same
    <2> QED
      BY <2>1, <2>2 DEF LInv, Beginning, Leaves, Settled, Quiet, Same
  <1> QED
    BY <1>1 DEF LInv

LEMMA LInvInductive == Spec => []LInv
  <1>1. ASSUME Init PROVE LInv
    <2>1. ASSUME NEW c \in Contexts PROVE Course(c) /\ Beginning(c) /\ Leaves(c)
      <3>1. /\ at[c] = "free" /\ ~extracted[c] /\ call[c] = Service!NoCall
            /\ clause[c] = <<>>
            /\ \A d \in Contexts : order[d].parent = Nothing
        BY <1>1 DEF Init, NoOrder
      <3>2. Childless(c)
        BY <3>1, PluginTasksAssumption DEF Childless
      <3> QED
        BY <3>1, <3>2, Clauses DEF Course, Granted, Beginning, Leaves, Settled,
                                   InstallSteps, Service!NoCall
    <2> QED
      BY <2>1 DEF LInv
  <1>2. ASSUME IInv, LInv, [Next]_taskVars PROVE LInv'
    <2>1. CASE \A c \in Contexts : Quiet(c)
      BY <1>2, <2>1, QuietLeave
    <2>2. ASSUME NEW b \in Contexts, StepOf(b) PROVE LInv'
      <3>1. ASSUME NEW c \in Contexts
            PROVE  Course(c)' /\ Beginning(c)' /\ Leaves(c)'
        <4>1. Course(c) /\ Beginning(c) /\ Leaves(c)
          BY <1>2 DEF LInv
        <4>2. CASE c = b
          BY <1>2, <2>2, <4>1, <4>2, KindCourse, KindBeginning, KindLeaves DEF StepOf
        <4>3. CASE c # b
          <5>1. Quiet(c)
            BY <2>2, <4>3 DEF StepOf
          <5> QED
            BY <2>2, <4>1, <5>1, OthersLeave
        <4> QED
          BY <4>2, <4>3
      <3> QED
        BY <3>1 DEF LInv
    <2> QED
      BY <1>2, <2>1, <2>2, StepKind
  <1> QED
    BY <1>1, <1>2, TasksInductive, PTL DEF Spec

(* Whatever parts fail and however tasks interleave, only the rest of a     *)
(* clone with a subdirectory and the build directory of a plugin that       *)
(* failed validation are left by a task that returns: the except clauses    *)
(* of _package_and_install_impl.                                            *)
THEOREM LeftBehindHolds == Spec => []LeftBehind
  <1>1. IInv /\ LInv => LeftBehind
    <2> SUFFICES ASSUME IInv, LInv, NEW c \in Contexts, at[c] = "returned", extracted[c]
                 PROVE  /\ "download" \in disk[c] => order[c].subdirectory
                        /\ "build" \in disk[c] =>
                              /\ told[c] = <<"error">>
                              /\ call[c].cmd = Nothing
                              /\ \A d \in Contexts : order[d].parent # c
      BY DEF LeftBehind
    <2>1. clause[c] = <<>> /\ Settled(c)
      BY DEF IInv, ContextOK, Telling, Settled
    <2> QED
      BY <2>1, Verdicts DEF LInv, Course, Leaves, Childless
  <1> QED
    BY <1>1, TasksInductive, LInvInductive, PTL

(* The directories on the way, when nothing breaks that clean cannot undo.  *)
Tidy(c) ==
    /\ at[c] # "free" => ~order[c].subdirectory
    /\ at[c] \in Unbuilt \ {"extracting"} => disk[c] = {}
    /\ at[c] = "extracting" => disk[c] = {"download"}
    /\ at[c] \in Built => disk[c] = {"build"}
    /\ at[c] = "handling" => disk[c] \subseteq {"build"} /\ (extracted[c] \/ disk[c] = {})
    /\ Settled(c) => disk[c] = {}

LEMMA TidyKept ==
    ASSUME IInv, LInv, Faults \intersect {"decode", "validate", "extract", "bus"} = {},
           \A o \in Orders : ~o.subdirectory,
           NEW c \in Contexts, Tidy(c), Kinds(c)
    PROVE  Tidy(c)'
  <1>1. Course(c) /\ Directories(c)
    BY DEF LInv, IInv, ContextOK
  <1>2. CASE Quiet(c) \/ InCall(c) \/ Exited(c)
    BY <1>2 DEF Quiet, InCall, Same, Exited, Tidy, Settled, Stays, Steps, InstallSteps,
                UninstallSteps, Unbuilt, Built
  <1>3. CASE Born(c)
    <2>1. at[c] = "free" /\ disk'[c] = {} /\ ~order'[c].subdirectory
      BY <1>3 DEF Born, Tidy, Unbuilt
    <2> QED
      BY <1>3, <2>1 DEF Born, Tidy, Settled, Built
  <1>4. ASSUME NEW error, NEW left, Handled(c, error, left) PROVE Tidy(c)'
    <2>1. /\ at'[c] = "handling" /\ order'[c] = order[c] /\ extracted'[c] = extracted[c]
          /\ at[c] # "extracting" /\ at[c] # "free" /\ disk'[c] = disk[c]
          /\ clause'[c] = Clause(c, error)
          /\ error # "validation"
      BY <1>4 DEF Handled, Stays, Steps, InstallSteps, UninstallSteps
    <2>2. CASE at[c] \in Built
      <3>1. disk[c] = {"build"} /\ extracted[c] /\ order[c].kind = "install"
        BY <1>1, <2>2 DEF Tidy, Directories, Course
      <3>2. ~Settled(c)'
        BY <2>1, <3>1, ClauseFor, Clauses DEF Settled
      <3> QED
        BY <2>1, <3>1, <3>2 DEF Tidy, Unbuilt, Built
    <2>3. CASE at[c] \notin Built
      <3>1. at[c] \in Unbuilt
        BY <1>4, <2>3 DEF Handled, Stays, Steps, InstallSteps, UninstallSteps,
                          Built, Unbuilt
      <3>2. disk'[c] = {}
        BY <2>1, <3>1 DEF Tidy
      <3> QED
        BY <2>1, <3>2 DEF Tidy, Unbuilt, Built
    <2> QED
      BY <2>2, <2>3
  <1>5. CASE Handling(c)
    <2>1. /\ at[c] = "handling" /\ order'[c] = order[c] /\ extracted'[c] = extracted[c]
          /\ disk[c] \subseteq {"build"} /\ (extracted[c] \/ disk[c] = {})
          /\ ~order[c].subdirectory
          /\ at'[c] \in {"handling", "returned", "escaped"}
      BY <1>5 DEF Handling, Cleared, Spoken, GivenUp, Tidy
    <2>2. disk'[c] \subseteq disk[c]
      BY <1>5 DEF Handling, Cleared, Spoken, GivenUp
    <2>3. ASSUME Settled(c)' PROVE disk'[c] = {}
      <3>1. CASE Cleared(c)
        BY <2>1, <3>1 DEF Cleared
      <3>2. CASE Spoken(c)
        <4>1. Settled(c)
          BY <2>1, <2>3, <3>2, Clauses DEF Spoken, Settled
        <4> QED
          BY <3>2, <4>1 DEF Spoken, Tidy
      <3>3. ~GivenUp(c)
        BY <2>3 DEF GivenUp, Settled
      <3> QED
        BY <1>5, <3>1, <3>2, <3>3 DEF Handling
    <2> QED
      BY <2>1, <2>2, <2>3 DEF Tidy, Unbuilt, Built
  <1>6. CASE Onward(c)
    <2>1. order'[c] = order[c] /\ Kept(c) = {}
      BY <1>6 DEF Onward, Tidy, Kept
    <2> QED
      BY <1>6, <2>1 DEF Onward, Tidy, Settled, Unbuilt, Built
  <1>7. CASE Concluded(c)
    BY <1>7 DEF Concluded, Tidy, Unbuilt, Built
  <1> QED
    BY <1>2, <1>3, <1>4, <1>5, <1>6, <1>7 DEF Kinds

(* When extraction, validation and the bus do not fail, git writes UTF-8,   *)
(* and nobody asks for a subdirectory, a task that returns has left nothing *)
(* on the disk, whatever fails of downloads, builds, commands and the       *)
(* worker.                                                                  *)
THEOREM NothingLeftHolds ==
    ASSUME Faults \intersect {"decode", "validate", "extract", "bus"} = {},
           \A o \in Orders : ~o.subdirectory
    PROVE  Spec => []NothingLeft
  <1> DEFINE AllTidy == \A c \in Contexts : Tidy(c)
  <1>1. Init => AllTidy
    BY DEF Init, Tidy, Settled, Built
  <1>2. IInv /\ LInv /\ AllTidy /\ [Next]_taskVars => AllTidy'
    <2> SUFFICES ASSUME IInv, LInv, AllTidy, [Next]_taskVars, NEW c \in Contexts
                 PROVE  Tidy(c)'
      OBVIOUS
    <2>1. Kinds(c)
      BY StepKind DEF StepOf, Kinds
    <2> QED
      BY <2>1, TidyKept
  <1>3. AllTidy => NothingLeft
    BY DEF Tidy, Settled, NothingLeft
  <1> QED
    BY <1>1, <1>2, <1>3, TasksInductive, LInvInductive, PTL DEF Spec

-----------------------------------------------------------------------------
(* A forced reinstallation.                                                 *)

(* A task on its way to "completed" has had its install command succeed.    *)
Reinstalled(c) ==
    /\ at[c] # "free" /\ order[c].reinstall => order[c].method = "git"
    /\ at[c] \in {"cleaning", "completed"} /\ order[c].kind = "install" => Applied(c)
    /\ Granted(c) => ~order[c].reinstall
    /\ /\ told[c] = <<"completed">>
       /\ order[c].kind = "install" /\ order[c].reinstall
       => Applied(c)

LEMMA ReinstalledKept ==
    ASSUME IInv, LInv, \A o \in Orders : o.reinstall => o.method = "git",
           NEW c \in Contexts, Reinstalled(c), Kinds(c)
    PROVE  Reinstalled(c)'
  <1>1. at[c] = "free" \/ at[c] \in Stays => told[c] = <<>> /\ clause[c] = <<>>
    BY DEF IInv, ContextOK, Telling, Stays, Steps, InstallSteps, UninstallSteps
  <1>2. CASE Quiet(c)
    BY <1>2 DEF Quiet, Same, Reinstalled, Applied, Granted
  <1>3. CASE InCall(c)
    <2>1. /\ told'[c] = <<>> /\ clause'[c] = <<>>
          /\ at'[c] \notin {"free", "cleaning", "completed"}
          /\ at[c] # "free" /\ order'[c] = order[c]
      BY <1>1, <1>3 DEF InCall, Same, Stays, Steps, InstallSteps, UninstallSteps
    <2> QED
      BY <2>1, Clauses, Verdicts DEF Reinstalled, Granted
  <1>4. CASE Born(c)
    <2>1. told'[c] = <<>> /\ clause'[c] = <<>> /\ at'[c] \notin {"cleaning", "completed"}
      BY <1>1, <1>4 DEF Born
    <2>2. order'[c].reinstall => order'[c].method = "git"
      BY <1>4 DEF Born
    <2> QED
      BY <2>1, <2>2, Clauses, Verdicts DEF Reinstalled, Granted
  <1>5. ASSUME NEW error, NEW left, Handled(c, error, left) PROVE Reinstalled(c)'
    <2>1. /\ order'[c] = order[c] /\ at[c] # "free" /\ at'[c] = "handling"
          /\ told'[c] = <<>> /\ clause'[c] = Clause(c, error)
          /\ error \in {"already", "dependency"} =>
                ~order[c].reinstall \/ order[c].method = "market"
      BY <1>1, <1>5 DEF Handled, Stays, Steps, InstallSteps, UninstallSteps
    <2>2. order[c].reinstall => order[c].method = "git"
      BY <2>1 DEF Reinstalled
    <2>3. order[c].kind \in {"install", "uninstall"}
      BY <1>5, SoloStep DEF Handled, Requests
    <2>4. Granted(c)' => error \in {"already", "dependency"}
      BY <2>1, <2>3, ClauseFor, ClauseOf, Clauses DEF Granted
    <2> QED
      BY <2>1, <2>2, <2>4, Verdicts DEF Reinstalled
  <1>6. CASE Handling(c)
    <2>1. /\ order'[c] = order[c] /\ call'[c] = call[c] /\ at[c] = "handling"
          /\ at'[c] \in {"handling", "returned", "escaped"}
      BY <1>6 DEF Handling, Cleared, Spoken, GivenUp
    <2>2. Granted(c)' => Granted(c)
      BY <1>6, Clauses, Verdicts DEF Handling, Cleared, Spoken, GivenUp, Granted
    <2>3. told'[c] = <<"completed">> => told[c] = <<"completed">> \/ Granted(c)
      BY <1>6, Verdicts DEF Handling, Cleared, Spoken, GivenUp, Granted
    <2> QED
      BY <2>1, <2>2, <2>3 DEF Reinstalled, Applied
  <1>7. CASE Onward(c)
    <2>1. at[c] \in Stays /\ at[c] # "free" /\ order'[c] = order[c]
      BY <1>7 DEF Onward, Stays, Steps, InstallSteps, UninstallSteps
    <2>2. told'[c] = <<>> /\ clause'[c] = <<>>
      BY <1>1, <1>7, <2>1 DEF Onward
    <2>3. ASSUME at'[c] \in {"cleaning", "completed"}, order[c].kind = "install"
          PROVE  Applied(c)'
      <3>1. CASE at[c] = "cleaning"
        BY <1>7, <2>3, <3>1 DEF Onward, Reinstalled, Applied
      <3>2. CASE at[c] = "installing"
        BY <1>7, <2>3, <3>2 DEF Onward, Applied
      <3>3. at[c] # "removing"
        BY <2>3 DEF LInv, Course
      <3> QED
        BY <1>7, <2>3, <3>1, <3>2, <3>3 DEF Onward
    <2> QED
      BY <2>1, <2>2, <2>3, Clauses, Verdicts DEF Reinstalled, Granted
  <1>8. CASE Exited(c)
    <2>1. /\ told'[c] = <<>> /\ clause'[c] = <<>> /\ at'[c] = "exited"
          /\ order'[c] = order[c] /\ at[c] # "free"
      BY <1>1, <1>8 DEF Exited, Stays, Steps, InstallSteps, UninstallSteps
    <2> QED
      BY <2>1, Clauses, Verdicts DEF Reinstalled, Granted
  <1>9. CASE Concluded(c)
    BY <1>9 DEF Concluded, Reinstalled, Applied, Granted
  <1> QED
    BY <1>2, <1>3, <1>4, <1>5, <1>6, <1>7, <1>8, <1>9 DEF Kinds

(* A reinstallation that is forced from git is installed again before it is *)
(* called completed, whatever fails.  From the market it is not.            *)
THEOREM ReinstallRunsHolds ==
    ASSUME \A o \in Orders : o.reinstall => o.method = "git"
    PROVE  Spec => []ReinstallRuns
  <1> DEFINE AllReinstalled == \A c \in Contexts : Reinstalled(c)
  <1>1. Init => AllReinstalled
    BY Clauses, Verdicts DEF Init, Reinstalled, Granted
  <1>2. IInv /\ LInv /\ AllReinstalled /\ [Next]_taskVars => AllReinstalled'
    <2> SUFFICES ASSUME IInv, LInv, AllReinstalled, [Next]_taskVars, NEW c \in Contexts
                 PROVE  Reinstalled(c)'
      OBVIOUS
    <2>1. Kinds(c)
      BY StepKind DEF StepOf, Kinds
    <2> QED
      BY <2>1, ReinstalledKept
  <1>3. AllReinstalled => ReinstallRuns
    BY DEF Reinstalled, ReinstallRuns
  <1> QED
    BY <1>1, <1>2, <1>3, TasksInductive, LInvInductive, PTL DEF Spec

-----------------------------------------------------------------------------
(* Tasks go forward.                                                        *)

(* Each line of a task's code with those that may come after it, in their   *)
(* order: no pair leads back.                                               *)
Track ==
    {<<"free", "queued">>, <<"free", "starting">>, <<"queued", "starting">>,
     <<"starting", "downloading">>, <<"starting", "removing">>,
     <<"downloading", "choosing">>, <<"downloading", "extracting">>,
     <<"choosing", "extracting">>, <<"extracting", "validating">>,
     <<"validating", "installing dependencies">>,
     <<"installing dependencies", "building">>, <<"building", "packaging">>,
     <<"packaging", "updating">>, <<"updating", "installing">>,
     <<"installing", "cleaning">>, <<"cleaning", "completed">>,
     <<"removing", "completed">>, <<"completed", "returned">>,
     <<"handling", "returned">>, <<"handling", "escaped">>}
    \union {"installing dependencies", "updating", "installing", "removing"} \X {"exited"}
    \union Stays \X {"handling"}

CallTrack == {<<"idle", "waiting">>, <<"waiting", "running">>, <<"running", "answered">>,
              <<"waiting", "refused">>}

StageTrack == {<<"begun", "unpacked">>, <<"unpacked", "done">>}

Rests(c) == look'[c] = look[c] /\ clause'[c] = clause[c]

Stands(c) ==
    /\ at'[c] = at[c] /\ todo'[c] = todo[c] /\ child'[c] = child[c]
    /\ call'[c] = call[c] /\ Rests(c)

(* It is at a later step; or at the same, with fewer dependencies to come   *)
(* to; or with one less that it waits for; or further in its call, in the   *)
(* versions it looks at, or in its clause.                                  *)
Ahead(c) ==
    \/ <<at[c], at'[c]>> \in Track
    \/ /\ at'[c] = at[c]
       /\ \/ Len(todo'[c]) < Len(todo[c])
          \/ /\ todo'[c] = todo[c]
             /\ \/ child[c] # Nothing /\ child'[c] = Nothing
                \/ /\ child'[c] = child[c]
                   /\ \/ <<call[c].phase, call'[c].phase>> \in CallTrack /\ Rests(c)
                      \/ /\ call'[c] = call[c] /\ clause'[c] = clause[c]
                         /\ look[c].next < look'[c].next
                      \/ /\ call'[c] = call[c] /\ look'[c] = look[c]
                         /\ Len(clause'[c]) < Len(clause[c])

(* The work of the running command: the package goes through the stages of  *)
(* its installation, or packages are removed.                               *)
PackagesGo ==
    \/ <<stage, stage'>> \in StageTrack
    \/ /\ stage' = stage
       /\ \E p \in Plugins : Installed(p) /\ ~Installed(p)'
       /\ \A p \in Plugins : Installed(p)' => Installed(p)

Forward ==
    /\ \A c \in Contexts : Stands(c) \/ Ahead(c)
    /\ \/ worker = "up" /\ worker' = "down"
       \/ \E c \in Contexts : Ahead(c)
       \/ PackagesGo

(* The task c goes to a later step, and nothing else moves.                 *)
Moves(c) ==
    /\ \E place : at' = [at EXCEPT ![c] = place] /\ <<at[c], place>> \in Track
    /\ \A d \in Contexts \ {c} :
          /\ todo'[d] = todo[d] /\ child'[d] = child[d] /\ call'[d] = call[d]
          /\ Rests(d)

LEMMA MovesForward ==
    ASSUME TaskTypeOK, NEW c \in Contexts, Moves(c)
    PROVE  Forward
  <1>1. Ahead(c) /\ \A d \in Contexts \ {c} : Stands(d)
    BY DEF TaskTypeOK, Moves, Ahead, Stands
  <1> QED
    BY <1>1 DEF Forward

LEMMA HandleLands ==
    ASSUME TaskTypeOK, NEW c \in Contexts, NEW error, NEW left,
           HandleLeaving(c, error, left), at[c] \in Stays
    PROVE  /\ \E place : at' = [at EXCEPT ![c] = place] /\ <<at[c], place>> \in Track
           /\ \A d \in Contexts \ {c} : clause'[d] = clause[d]
  <1>1. at' = [at EXCEPT ![c] = "handling"]
    BY DEF HandleLeaving
  <1>2. <<at[c], "handling">> \in Track
    BY DEF Track
  <1>3. \A d \in Contexts \ {c} : clause'[d] = clause[d]
    BY DEF HandleLeaving, TaskTypeOK
  <1> QED
    BY <1>1, <1>2, <1>3

(* A step that fails, or goes to one later place.                           *)
LEMMA StepForward ==
    ASSUME IInv, NEW c \in Contexts,
           \/ at[c] \in Stays /\ \E error, left : HandleLeaving(c, error, left)
           \/ /\ clause' = clause
              /\ \E place : at' = [at EXCEPT ![c] = place] /\ <<at[c], place>> \in Track,
           \A d \in Contexts \ {c} : /\ todo'[d] = todo[d] /\ child'[d] = child[d]
                                    /\ call'[d] = call[d] /\ look'[d] = look[d]
    PROVE  Forward
  <1>1. TaskTypeOK
    BY DEF IInv
  <1>2. Moves(c)
    BY <1>1, HandleLands DEF Moves, Rests
  <1> QED
    BY <1>1, <1>2, MovesForward

LEMMA TaskStepForward ==
    ASSUME IInv, NEW c \in Contexts, TaskStep(c)
    PROVE  Forward
  <1>1. /\ TaskTypeOK
        /\ todo \in [Contexts -> Seq(Dependencies)]
        /\ call[c].phase # "idle" => at[c] \in {"updating", "installing", "removing"}
        /\ child[c] # Nothing => at[c] = "installing dependencies"
    BY DEF IInv, TaskTypeOK, Family, ContextOK, InTheCall
  <1>2. CASE PublishFails(c)
    <2>1. at[c] \in Stays /\ UNCHANGED <<todo, child, look, call>>
      BY <1>2 DEF PublishFails, Stays, contextVars, serviceVars
    <2>2. \E error, left : HandleLeaving(c, error, left)
      BY <1>2 DEF PublishFails, Fails, Handle
    <2> QED BY <2>1, <2>2, StepForward
  <1>3. CASE Execute(c) \/ Starting(c) \/ SkipUpdate(c) \/ DependenciesDone(c) \/ Complete(c)
    <2>1. UNCHANGED <<todo, child, look, clause, call>>
      BY <1>3 DEF Execute, Starting, SkipUpdate, DependenciesDone, Complete, Goto,
                  contextVars, serviceVars
    <2>2. \E place : at' = [at EXCEPT ![c] = place] /\ <<at[c], place>> \in Track
      BY <1>3 DEF Track, Execute, Starting, SkipUpdate, DependenciesDone, Complete, Goto
    <2> QED BY <2>1, <2>2, StepForward
  <1>4. CASE Download(c) \/ LookUp(c) \/ Choose(c)
    <2>1. /\ at[c] \in {"downloading", "choosing"} /\ at[c] \in Stays
          /\ UNCHANGED <<todo, child, call>>
          /\ \A d \in Contexts \ {c} : look'[d] = look[d]
      BY <1>1, <1>4 DEF Download, LookUp, Choose, Stays, Steps, InstallSteps, serviceVars,
                        TaskTypeOK
    <2>2. \/ \E error, left : HandleLeaving(c, error, left)
          \/ clause' = clause /\ at' = [at EXCEPT ![c] = "extracting"]
          \/ /\ clause' = clause /\ at[c] = "downloading"
             /\ at' = [at EXCEPT ![c] = "choosing"]
      BY <1>4 DEF Download, LookUp, Choose, Fetch, Fails, Handle, Goto
    <2>3. {<<"downloading", "choosing">>, <<"downloading", "extracting">>,
           <<"choosing", "extracting">>} \subseteq Track
      BY DEF Track
    <2> QED BY <2>1, <2>2, <2>3, StepForward
  <1>5. CASE Mark(c)
    <2>1. /\ UNCHANGED <<at, todo, child, call, clause>>
          /\ \A d \in Contexts \ {c} : look'[d] = look[d]
          /\ look'[c].next = look[c].next + 1
      <3> DEFINE known == IF /\ Market[Plugin(c)][look[c].next].fits
                             /\ look[c].known = 0
                          THEN pkg[Plugin(c)].version
                          ELSE look[c].known
                 choice(old) ==
                     IF /\ Market[Plugin(c)][look[c].next].fits
                        /\ known < Market[Plugin(c)][look[c].next].version
                        /\ Wanted(c, Market[Plugin(c)][look[c].next].version)
                        /\ old = 0
                     THEN Market[Plugin(c)][look[c].next].version
                     ELSE old
      <3>1. look' = [look EXCEPT ![c].known = known,
                                 ![c].choice = choice(@),
                                 ![c].next = @ + 1]
        BY <1>5 DEF Mark
      <3> HIDE DEF known, choice
      <3>2. look \in [Contexts -> Looks]
        BY LooksTyped
      <3>3. /\ \A d \in Contexts \ {c} : look'[d] = look[d]
            /\ look'[c].next = look[c].next + 1
        BY <3>1, <3>2 DEF Looks
      <3> QED
        BY <1>5, <3>3 DEF Mark, handlerVars, serviceVars
    <2>2. look[c].next < look'[c].next
      BY <2>1, LooksTyped DEF Looks
    <2> QED BY <2>1, <2>2 DEF Ahead, Stands, Rests, Forward
  <1>6. CASE Extract(c) \/ Validate(c) \/ Build(c) \/ Package(c) \/ Clean(c)
    <2>1. /\ at[c] \in Stays
          /\ UNCHANGED <<child, look, call>>
          /\ \A d \in Contexts \ {c} : todo'[d] = todo[d]
      BY <1>1, <1>6 DEF Extract, Validate, Build, Package, Clean, Stays, Steps, InstallSteps,
                        contextVars, serviceVars
    <2>2. \/ \E error, left : HandleLeaving(c, error, left)
          \/ /\ clause' = clause
             /\ \/ at[c] = "extracting" /\ at' = [at EXCEPT ![c] = "validating"]
                \/ /\ at[c] = "validating"
                   /\ at' = [at EXCEPT ![c] = "installing dependencies"]
                \/ at[c] = "building" /\ at' = [at EXCEPT ![c] = "packaging"]
                \/ at[c] = "packaging" /\ at' = [at EXCEPT ![c] = "updating"]
                \/ at[c] = "cleaning" /\ at' = [at EXCEPT ![c] = "completed"]
      BY <1>6 DEF Extract, Validate, Build, Package, Clean, Fails, Handle, Goto
    <2>3. {<<"extracting", "validating">>, <<"validating", "installing dependencies">>,
           <<"building", "packaging">>, <<"packaging", "updating">>,
           <<"cleaning", "completed">>} \subseteq Track
      BY DEF Track
    <2> QED BY <2>1, <2>2, <2>3, StepForward
  <1>7. ASSUME NEW d \in Contexts, InstallDependency(c, d) PROVE Forward
    <2>1. /\ at[d] = "free" /\ at[c] = "installing dependencies" /\ c # d
          /\ at' = [at EXCEPT ![d] = "starting"]
          /\ todo[c] # <<>> /\ todo' = [todo EXCEPT ![c] = Tail(@)]
          /\ child' = [child EXCEPT ![c] = d]
          /\ UNCHANGED <<call, look, clause>>
      BY <1>7 DEF InstallDependency, Fresh, Goto, serviceVars
    <2>2. Len(Tail(todo[c])) < Len(todo[c])
      <3>1. todo[c] \in Seq(Dependencies) /\ todo[c] # <<>>
        BY <1>1, <2>1
      <3> QED BY <3>1
    <2>3. Ahead(c)
      BY <1>1, <2>1, <2>2 DEF Ahead, TaskTypeOK
    <2>4. Ahead(d)
      BY <1>1, <2>1 DEF Track, Ahead, TaskTypeOK
    <2>5. \A e \in Contexts \ {c, d} : Stands(e)
      BY <1>1, <2>1 DEF Stands, Rests, TaskTypeOK
    <2> QED BY <2>3, <2>4, <2>5 DEF Forward
  <1>8. CASE DependencyEnds(c)
    <2>1. /\ child[c] # Nothing /\ child' = [child EXCEPT ![c] = Nothing]
          /\ UNCHANGED <<todo, call, look>>
          /\ at[c] = "installing dependencies"
      BY <1>1, <1>8 DEF DependencyEnds, serviceVars
    <2>2. CASE UNCHANGED handlerVars
      BY <1>1, <2>1, <2>2 DEF Ahead, Stands, Rests, Forward, TaskTypeOK, handlerVars
    <2>3. CASE ~UNCHANGED handlerVars
      <3>1. at[c] \in Stays
        BY <2>1 DEF Stays, Steps, InstallSteps
      <3>2. \/ \E error, left : HandleLeaving(c, error, left)
            \/ clause' = clause /\ at' = [at EXCEPT ![c] = "exited"]
        BY <1>8, <2>3 DEF DependencyEnds, Handle, Goto
      <3>3. <<at[c], "exited">> \in Track
        BY <2>1 DEF Track
      <3>4. \A d \in Contexts \ {c} : child'[d] = child[d]
        BY <1>1, <2>1 DEF TaskTypeOK
      <3> QED BY <2>1, <3>1, <3>2, <3>3, <3>4, StepForward
    <2> QED BY <2>2, <2>3
  <1>9. CASE Ask(c)
    <2>1. /\ UNCHANGED <<at, todo, child, look, clause>>
          /\ call[c].phase = "idle"
          /\ \E m : call' = [call EXCEPT ![c] = [phase |-> "waiting", cmd |-> m, ok |-> FALSE]]
      BY <1>9 DEF Ask, Service!Invoke, contextVars, handlerVars
    <2>2. call'[c].phase = "waiting"
      <3>1. PICK m : call' = [call EXCEPT ![c] = [phase |-> "waiting", cmd |-> m, ok |-> FALSE]]
        BY <2>1
      <3>2. DOMAIN call = Contexts
        BY <1>1 DEF TaskTypeOK
      <3>3. call'[c] = [phase |-> "waiting", cmd |-> m, ok |-> FALSE]
        BY <3>1, <3>2
      <3> QED BY <3>3
    <2>3. \A d \in Contexts \ {c} : call'[d] = call[d]
      BY <1>1, <2>1 DEF TaskTypeOK
    <2>4. <<call[c].phase, call'[c].phase>> \in CallTrack
      BY <2>1, <2>2 DEF CallTrack
    <2> QED BY <2>1, <2>3, <2>4 DEF Ahead, Stands, Rests, Forward
  <1>10. CASE Answered(c)
    <2>1. at[c] \in {"updating", "installing", "removing"}
      BY <1>1, <1>10 DEF Answered, Service!Return
    <2>2. /\ UNCHANGED <<todo, child, look>>
          /\ \A d \in Contexts \ {c} : call'[d] = call[d]
      BY <1>1, <1>10 DEF Answered, Service!Return, contextVars, TaskTypeOK
    <2>3. \/ \E error, left : HandleLeaving(c, error, left)
          \/ /\ clause' = clause
             /\ \/ at[c] = "updating" /\ at' = [at EXCEPT ![c] = "installing"]
                \/ at[c] = "installing" /\ at' = [at EXCEPT ![c] = "cleaning"]
                \/ at[c] = "removing" /\ at' = [at EXCEPT ![c] = "completed"]
      BY <1>10, <2>1 DEF Answered, Handle, Goto
    <2>4. at[c] \in Stays
      BY <2>1 DEF Stays, Steps, InstallSteps, UninstallSteps
    <2>5. {<<"updating", "installing">>, <<"installing", "cleaning">>,
           <<"removing", "completed">>} \subseteq Track
      BY DEF Track
    <2> QED BY <2>2, <2>3, <2>4, <2>5, StepForward
  <1>11. CASE Exits(c)
    <2>1. /\ at' = [at EXCEPT ![c] = "exited"]
          /\ UNCHANGED <<todo, child, look, clause>>
          /\ call[c].phase = "refused"
          /\ call' = [call EXCEPT ![c] = [call[c] EXCEPT !.phase = "idle"]]
      BY <1>11 DEF Exits, Service!Forget, Goto, contextVars
    <2>2. at[c] \in {"updating", "installing", "removing"}
      BY <1>1, <2>1
    <2>3. <<at[c], "exited">> \in Track
      BY <2>2 DEF Track
    <2>4. \A d \in Contexts \ {c} : call'[d] = call[d]
      BY <1>1, <2>1 DEF TaskTypeOK
    <2> QED BY <2>1, <2>3, <2>4, StepForward
  <1>12. CASE HandlerCleans(c) \/ HandlerTells(c)
    <2>1. /\ at[c] = "handling" /\ UNCHANGED <<todo, child, look, call>>
          /\ Proceed(c) \/ Escape(c)
      BY <1>12 DEF HandlerCleans, HandlerTells, contextVars, serviceVars
    <2>2. \A d \in Contexts \ {c} : clause'[d] = clause[d] /\ at'[d] = at[d]
      BY <1>1, <2>1 DEF Proceed, Escape, TaskTypeOK
    <2>3. <<"handling", "returned">> \in Track /\ <<"handling", "escaped">> \in Track
      BY DEF Track
    <2>4. at'[c] \in {"returned", "escaped"} \/ (Proceed(c) /\ at'[c] = "handling")
      BY <1>1, <2>1 DEF Proceed, Escape, TaskTypeOK
    <2>5. CASE at'[c] \in {"returned", "escaped"}
      <3>1. Ahead(c)
        BY <2>1, <2>3, <2>5 DEF Ahead
      <3> QED
        BY <2>1, <2>2, <3>1 DEF Forward, Stands, Rests
    <2>6. CASE Proceed(c) /\ at'[c] = "handling"
      <3> DEFINE rest == Tail(clause[c])
      <3>1. clause'[c] = rest
        BY <1>1, <2>6 DEF Proceed, TaskTypeOK
      <3>2. clause[c] \in Whole \union {<<"completed">>, <<"clean">>}
        BY <2>1, InTheClause
      <3>3. Len(rest) < Len(clause[c])
        BY <3>2 DEF Whole
      <3> HIDE DEF rest
      <3>4. Ahead(c)
        BY <2>1, <2>6, <3>1, <3>3 DEF Ahead
      <3> QED
        BY <2>1, <2>2, <3>4 DEF Forward, Stands, Rests
    <2> QED BY <2>4, <2>5, <2>6
  <1> QED
    BY <1>2, <1>3, <1>4, <1>5, <1>6, <1>7, <1>8, <1>9, <1>10, <1>11, <1>12 DEF TaskStep

LEMMA WorkForward ==
    ASSUME IInv, NEW c \in Contexts, Work(c) PROVE Forward
  <1>1. \A d \in Contexts : Stands(d)
    BY DEF Work, Unpack, Configure, RemovePackage, Stands, Rests, contextVars, handlerVars,
           serviceVars
  <1>2. CASE Unpack(c) \/ Configure(c)
    <2>1. <<stage, stage'>> \in StageTrack
      BY <1>2 DEF Unpack, Configure, StageTrack
    <2> QED
      BY <1>1, <2>1 DEF Forward, PackagesGo
  <1>3. ASSUME NEW p \in Plugins, RemovePackage(c, p) PROVE Forward
    <2>1. /\ Installed(p) /\ pkg' = [pkg EXCEPT ![p] = Absent] /\ stage' = stage
      BY <1>3 DEF RemovePackage
    <2>2. ~Installed(p)' /\ \A q \in Plugins : Installed(q)' => Installed(q)
      BY <2>1 DEF Installed, Absent, IInv, TaskTypeOK
    <2> QED
      BY <1>1, <2>1, <2>2 DEF Forward, PackagesGo
  <1> QED
    BY <1>2, <1>3 DEF Work

LEMMA ServiceStepForward ==
    ASSUME IInv, NEW c \in Contexts, ServiceStep(c), ~Work(c)
    PROVE  Forward
  <1>1. UNCHANGED <<at, todo, child, look, clause>>
    BY DEF ServiceStep, BeginCommand, FinishCommand, Refused, contextVars, handlerVars
  <1>2. /\ <<call[c].phase, call'[c].phase>> \in CallTrack
        /\ \A d \in Contexts \ {c} : call'[d] = call[d]
    BY DEF IInv, TaskTypeOK, ServiceStep, BeginCommand, FinishCommand, Refused, CallTrack,
           Service!Begin, Service!Finish, Service!Running, Service!Refuse
  <1> QED
    BY <1>1, <1>2 DEF Ahead, Stands, Rests, Forward

(* No task ever goes back, and each step of the program takes one forward,  *)
(* or the command it runs, or is the end of the worker:                     *)
(* _package_and_install_impl retries nothing, and install_dependencies goes *)
(* through its list once (tasks.py:71-91, tasks.py:224-230).  A task has    *)
(* finitely many steps before it, so all that can keep it from its end is   *)
(* that no thread takes the next; that none waits for ever is Answers,      *)
(* which the runs check.                                                    *)
THEOREM TasksGoForward == Spec => [][Forward]_taskVars
  <1>1. IInv /\ [Next]_taskVars => [Forward]_taskVars
    <2> SUFFICES ASSUME IInv, Next PROVE Forward
      OBVIOUS
    <2>1. ASSUME NEW c \in Contexts, NEW o \in Orders, Submit(c, o) PROVE Forward
      <3>1. /\ at' = [at EXCEPT ![c] = "queued"] /\ at[c] = "free"
            /\ UNCHANGED <<todo, child, look, clause, call>>
        BY <2>1 DEF Submit, Fresh, Goto, serviceVars
      <3>2. <<"free", "queued">> \in Track
        BY DEF Track
      <3> QED BY <3>1, <3>2, StepForward
    <2>2. CASE WorkerDies
      BY <2>2 DEF WorkerDies, Service!Down, Forward, Stands, Rests, contextVars, handlerVars
    <2> QED
      BY <2>1, <2>2, TaskStepForward, WorkForward, ServiceStepForward DEF Next
  <1> QED
    BY <1>1, TasksInductive, PTL DEF Spec

-----------------------------------------------------------------------------
(* What the tasks ask of the root worker.                                   *)

LEMMA CommandIsCommand ==
    ASSUME IInv, NEW c \in Contexts, at[c] \in {"updating", "installing", "removing"}
    PROVE  RootCommand(c) \in Commands
  <1>1. Plugin(c) \in Plugins
    BY SoloStep DEF Stays, Steps, InstallSteps, UninstallSteps
  <1>2. version[c] \in Versions \union {0}
    BY DEF IInv, TaskTypeOK
  <1> QED
    BY <1>1, <1>2 DEF RootCommand, Commands

LEMMA TaskStepUses ==
    ASSUME IInv, NEW c \in Contexts, TaskStep(c)
    PROVE  Service!Next \/ UNCHANGED serviceVars
  <1>1. CASE Ask(c)
    <2>1. Service!Invoke(c, RootCommand(c)) /\ RootCommand(c) \in Commands
      BY <1>1, CommandIsCommand DEF Ask
    <2> QED BY <2>1 DEF Service!Next
  <1>2. CASE Answered(c)
    BY <1>2 DEF Answered, Service!Next
  <1>3. CASE Exits(c)
    BY <1>3 DEF Exits, Service!Next
  <1>4. CASE UNCHANGED serviceVars
    BY <1>4
  <1>5. TaskStep(c) => Ask(c) \/ Answered(c) \/ Exits(c) \/ UNCHANGED serviceVars
    BY DEF TaskStep, PublishFails, Execute, Starting, Download, LookUp, Mark, Choose,
           Extract, Validate, InstallDependency, DependencyEnds, DependenciesDone, Build,
           Package, SkipUpdate, Clean, Complete, HandlerCleans, HandlerTells
  <1> QED
    BY <1>1, <1>2, <1>3, <1>4, <1>5

OneCommand == \A c, d \in Contexts : Service!Running(c) /\ Service!Running(d) => c = d

LEMMA ServiceKeepsOne ==
    ASSUME TaskTypeOK, OneCommand, Service!Next \/ UNCHANGED serviceVars
    PROVE  OneCommand'
  <1>1. DOMAIN call = Contexts /\ \A c \in Contexts : "phase" \in DOMAIN call[c]
    BY DEF TaskTypeOK
  <1>2. ASSUME NEW c \in Contexts, Service!Begin(c) PROVE OneCommand'
    <2>1. \A d \in Contexts : call[d].phase # "running"
      BY <1>2 DEF Service!Begin, Service!Running
    <2>2. \A d \in Contexts \ {c} : call'[d] = call[d]
      BY <1>1, <1>2 DEF Service!Begin
    <2> QED
      BY <2>1, <2>2 DEF OneCommand, Service!Running
  <1>3. CASE \A c \in Contexts : call'[c].phase = "running" => call[c].phase = "running"
    BY <1>3 DEF OneCommand, Service!Running
  <1>4. ASSUME NEW c \in Contexts, NEW place, place # "running",
               call' = [call EXCEPT ![c].phase = place]
        PROVE  \A d \in Contexts : call'[d].phase = "running" => call[d].phase = "running"
    BY <1>1, <1>4
  <1>5. ASSUME NEW c \in Contexts, NEW m \in Commands, Service!Invoke(c, m)
        PROVE  \A d \in Contexts : call'[d].phase = "running" => call[d].phase = "running"
    BY <1>1, <1>5 DEF Service!Invoke
  <1>6. ASSUME NEW c \in Contexts, NEW ok \in BOOLEAN, Service!Finish(c, ok)
        PROVE  \A d \in Contexts : call'[d].phase = "running" => call[d].phase = "running"
    BY <1>1, <1>6 DEF Service!Finish
  <1>7. ASSUME NEW c \in Contexts,
               Service!Return(c) \/ Service!Refuse(c) \/ Service!Forget(c)
        PROVE  \A d \in Contexts : call'[d].phase = "running" => call[d].phase = "running"
    BY <1>4, <1>7 DEF Service!Return, Service!Refuse, Service!Forget
  <1>8. CASE Service!Up \/ Service!Down \/ UNCHANGED serviceVars
    BY <1>3, <1>8 DEF Service!Up, Service!Down, serviceVars
  <1> QED
    BY <1>2, <1>3, <1>5, <1>6, <1>7, <1>8 DEF Service!Next

(* What the tasks do with their worker is what CommandService allows, and   *)
(* RootWorker does: a thread has one command at a time, takes the answer    *)
(* before it sends another, and finds the worker dead or is answered        *)
(* (tasks.py:146-255, root_worker.py:58-68).  Two tasks never have a        *)
(* command running each.                                                    *)
THEOREM TasksUseService == Spec => [][Service!Next]_serviceVars /\ []OneCommand
  <1>1. Init => OneCommand
    BY DEF Init, OneCommand, Service!Running, Service!NoCall
  <1>2. IInv /\ [Next]_taskVars => [Service!Next]_serviceVars
    <2> SUFFICES ASSUME IInv, [Next]_taskVars PROVE Service!Next \/ UNCHANGED serviceVars
      OBVIOUS
    <2>1. ASSUME NEW c \in Contexts, NEW o \in Orders, Submit(c, o)
          PROVE UNCHANGED serviceVars
      BY <2>1 DEF Submit
    <2>2. CASE WorkerDies
      BY <2>2 DEF WorkerDies, Service!Next
    <2>3. ASSUME NEW c \in Contexts, ServiceStep(c)
          PROVE  Service!Next \/ UNCHANGED serviceVars
      BY <2>3 DEF ServiceStep, BeginCommand, Work, Unpack, Configure, RemovePackage,
                  FinishCommand, Refused, Service!Next
    <2>4. CASE UNCHANGED taskVars
      BY <2>4 DEF taskVars
    <2> QED
      BY <2>1, <2>2, <2>3, <2>4, TaskStepUses DEF Next
  <1>3. IInv /\ OneCommand /\ [Next]_taskVars => OneCommand'
    BY <1>2, ServiceKeepsOne DEF IInv
  <1> QED
    BY <1>1, <1>2, <1>3, TasksInductive, PTL DEF Spec

=============================================================================
