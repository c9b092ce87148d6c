------------------------- MODULE PluginTasksProofs -------------------------
(***************************************************************************)
(* Proofs about PluginTasks for any plugins, dependencies, market and      *)
(* faults, and any number of contexts.                                     *)
(*                                                                         *)
(* The invariants of PluginTasks speak of how a task ends.  What makes     *)
(* them inductive is where it is before that: which steps have the build   *)
(* directory (Directories), in which a call may be open (InTheCall), what  *)
(* was published and what its except clause has still to do (Telling), and *)
(* that an active nested install is the one its parent waits for (Family). *)
(***************************************************************************)
EXTENDS PluginTasks, SequenceTheorems, TLAPS

(* The steps that have ctx.extract_path, and those from before and after.  *)
Built == {"validating", "installing dependencies", "building", "packaging",
          "updating", "installing", "cleaning"}
Unbuilt == {"free", "queued", "starting", "downloading", "choosing",
            "extracting", "removing", "completed"}

(* Where a task may be while it has not failed yet.                         *)
Stays == Steps \union {"queued", "choosing"}

(* The clauses when they begin, and what is left of them afterwards.        *)
Whole == {<<"error">>, <<"error", "clean">>, <<"clean", "error">>,
          <<"clean", "completed">>}

Telling(c) ==
    /\ told[c] \in {<<>>, <<"completed">>, <<"error">>}
    /\ at[c] = "free" \/ at[c] \in Stays => told[c] = <<>>
    /\ at[c] = "handling" =>
          \/ told[c] = <<>> /\ clause[c] \in Whole \union {<<"completed">>}
          \/ told[c] = <<"error">> /\ clause[c] = <<"clean">>
    /\ at[c] # "handling" => clause[c] = <<>>
    /\ at[c] = "returned" => told[c] # <<>>

Directories(c) ==
    /\ at[c] \in Built => extracted[c] /\ "build" \in disk[c]
    /\ at[c] \in Unbuilt => "build" \notin disk[c]
    /\ told[c] = <<"completed">> \/ clause[c] = <<"completed">> => "build" \notin disk[c]
    /\ clause[c] = <<"clean", "completed">> => extracted[c] \/ "build" \notin disk[c]

InTheCall(c) ==
    call[c].phase # "idle" =>
        /\ at[c] \in {"updating", "installing", "removing"}
        /\ call[c].cmd = RootCommand(c)

(* It reads the packages to choose a version of what the market has.        *)
AtTheMarket(c) == order[c].method = "market" /\ Plugin(c) \in DOMAIN Market

ContextOK(c) ==
    /\ at[c] = "free" => order[c] = NoOrder
    /\ at[c] # "free" => order[c] \in Requests
    /\ Telling(c)
    /\ Directories(c)
    /\ InTheCall(c)
    /\ at[c] = "choosing" => AtTheMarket(c)

Family ==
    /\ \A c \in Contexts :
          child[c] # Nothing =>
              /\ at[c] = "installing dependencies"
              /\ at[child[c]] # "free"
              /\ order[child[c]].parent = c
    /\ \A c, d \in Contexts :
          order[d].parent = c /\ ~Over(d) => child[c] = d

IInv == TaskTypeOK /\ Family /\ \A c \in Contexts : ContextOK(c)

-----------------------------------------------------------------------------
(* The except clauses.                                                      *)

(* A clause is one of four, and says "completed" last, of two exceptions.   *)
LEMMA ClauseOf ==
    ASSUME NEW c, NEW error
    PROVE  /\ Clause(c, error) \in Whole
           /\ Clause(c, error) = <<"clean", "completed">> =>
                 error \in {"already", "dependency"}
  BY DEF Clause, Verdict, Whole

LEMMA Sequences == \A S : \A a, b \in S : /\ <<>> \in Seq(S) /\ <<a>> \in Seq(S)
                                            /\ <<a, b>> \in Seq(S)
  OBVIOUS

LEMMA Verdicts ==
    /\ <<"clean">> \notin {<<>>, <<"error">>, <<"completed">>}
    /\ <<"error">> \notin {<<>>, <<"completed">>}
    /\ <<"completed">> # <<>>
  <1>1. \A a, b : <<a>> = <<b>> => a = b
    <2>1. ASSUME NEW a, NEW b, <<a>> = <<b>> PROVE a = b
      <3>1. <<a>>[1] = <<b>>[1]
        BY <2>1
      <3> QED
        BY <3>1
    <2> QED
      BY <2>1
  <1>2. \A a : <<a>> # <<>>
    <2>1. ASSUME NEW a PROVE <<a>> # <<>>
      <3>1. Len(<<a>>) # Len(<<>>)
        OBVIOUS
      <3> QED
        BY <3>1
    <2> QED
      BY <2>1
  <1> QED
    BY <1>1, <1>2

LEMMA WholeTyped == Whole \subseteq Seq({"clean", "completed", "error"})
  BY Sequences DEF Whole

-----------------------------------------------------------------------------
(* What a step of one context leaves alone.                                 *)

(* The types of what the clauses write.                                     *)
HandlerTypes ==
    /\ at \in [Contexts -> Steps \union Between \union Ends \union {"free", "queued"}]
    /\ disk \in [Contexts -> SUBSET {"download", "build"}]
    /\ told \in [Contexts -> Seq({"completed", "error"})]
    /\ clause \in [Contexts -> Seq({"clean", "completed", "error"})]

LEMMA Untouched ==
    ASSUME NEW d \in Contexts, ContextOK(d),
           at'[d] = at[d], order'[d] = order[d], told'[d] = told[d],
           clause'[d] = clause[d], disk'[d] = disk[d], extracted'[d] = extracted[d],
           call'[d] = call[d], version'[d] = version[d]
    PROVE  ContextOK(d)'
  BY DEF ContextOK, Telling, Directories, InTheCall, Over, RootCommand, Plugin, AtTheMarket

(* A context that waits for no nested install may move on or end.           *)
LEMMA FamilyMove ==
    ASSUME TaskTypeOK, Family, NEW c \in Contexts, NEW place,
           at' = [at EXCEPT ![c] = place],
           place # "free", ~Over(c), child[c] = Nothing,
           order' = order, child' = child
    PROVE  Family'
  <1>1. \A d \in Contexts : at'[d] = IF d = c THEN place ELSE at[d]
    BY DEF TaskTypeOK
  <1>2. ASSUME NEW d \in Contexts, child[d] # Nothing
        PROVE  /\ at'[d] = "installing dependencies"
               /\ at'[child[d]] # "free"
               /\ order[child[d]].parent = d
    <2>1. child[d] \in Contexts
      BY <1>2 DEF TaskTypeOK
    <2> QED
      BY <1>1, <1>2, <2>1 DEF Family
  <1>3. ASSUME NEW e \in Contexts, NEW d \in Contexts, order[d].parent = e, ~Over(d)'
        PROVE  child[e] = d
    <2>1. ~Over(d)
      BY <1>1, <1>3 DEF Over
    <2> QED
      BY <1>3, <2>1 DEF Family
  <1> QED
    BY <1>2, <1>3 DEF Family

(* A clause begun by c keeps every context in order.                        *)
LEMMA HandleOK ==
    ASSUME TaskTypeOK, NEW c \in Contexts, at[c] \in Stays,
           \A d \in Contexts : ContextOK(d),
           NEW error, NEW left \in SUBSET {"download", "build"},
           HandleLeaving(c, error, left),
           error \in {"already", "dependency"} => extracted[c] \/ "build" \notin left,
           order' = order, version' = version, extracted' = extracted,
           call'[c].phase = "idle",
           \A d \in Contexts \ {c} : call'[d] = call[d]
    PROVE  /\ \A d \in Contexts : ContextOK(d)'
           /\ at' = [at EXCEPT ![c] = "handling"]
           /\ HandlerTypes'
  <1>1. /\ at' = [at EXCEPT ![c] = "handling"]
        /\ clause' = [clause EXCEPT ![c] = Clause(c, error)]
        /\ disk' = [disk EXCEPT ![c] = left]
        /\ told' = told
    BY DEF HandleLeaving
  <1>2. /\ at'[c] = "handling" /\ clause'[c] = Clause(c, error) /\ disk'[c] = left
        /\ \A d \in Contexts \ {c} :
              at'[d] = at[d] /\ clause'[d] = clause[d] /\ disk'[d] = disk[d]
    BY <1>1 DEF TaskTypeOK
  <1>3. told[c] = <<>> /\ order[c] \in Requests
    BY DEF ContextOK, Telling, Stays, Steps, InstallSteps, UninstallSteps
  <1>4. ContextOK(c)'
    <2> DEFINE said == Clause(c, error)
    <2>1. said \in Whole
      BY ClauseOf
    <2>2. said # <<"completed">>
      BY <2>1 DEF Whole
    <2>3. said = <<"clean", "completed">> => extracted[c] \/ "build" \notin left
      BY ClauseOf
    <2>4. clause'[c] = said
      BY <1>2
    <2> HIDE DEF said
    <2>5. Telling(c)'
      BY <1>1, <1>2, <1>3, <2>1, <2>4 DEF Telling, Whole, Stays, Steps, InstallSteps,
                                          UninstallSteps
    <2>6. Directories(c)'
      <3>1. told'[c] # <<"completed">>
        BY <1>1, <1>3
      <3>2. at'[c] \notin Built \union Unbuilt
        BY <1>2 DEF Built, Unbuilt
      <3> QED
        BY <1>2, <2>2, <2>3, <2>4, <3>1, <3>2, Zenon DEF Directories
    <2>7. InTheCall(c)'
      BY DEF InTheCall
    <2> QED
      BY <1>2, <1>3, <2>5, <2>6, <2>7 DEF ContextOK
  <1>5. \A d \in Contexts \ {c} : ContextOK(d)'
    BY <1>1, <1>2, Untouched
  <1>6. HandlerTypes'
    <2>1. Whole \subseteq Seq({"clean", "completed", "error"})
      BY WholeTyped
    <2>2. Clause(c, error) \in Seq({"clean", "completed", "error"})
      BY <2>1, ClauseOf
    <2> QED
      BY <1>1, <2>2 DEF TaskTypeOK, HandlerTypes, Between
  <1> QED
    BY <1>1, <1>4, <1>5, <1>6

(* So does a step that publishes no verdict and goes to a place whose       *)
(* directories are as they should be.                                       *)
LEMMA MoveOK ==
    ASSUME TaskTypeOK, NEW c \in Contexts, at[c] \in Stays,
           \A d \in Contexts : ContextOK(d),
           NEW place, at' = [at EXCEPT ![c] = place],
           place \notin {"free", "returned", "handling"},
           told' = told, clause' = clause, order' = order,
           place \in Built => extracted'[c] /\ "build" \in disk'[c],
           place \in Unbuilt => "build" \notin disk'[c],
           call'[c].phase = "idle",
           place = "choosing" => AtTheMarket(c),
           \A d \in Contexts \ {c} :
               /\ disk'[d] = disk[d]
               /\ extracted'[d] = extracted[d]
               /\ version'[d] = version[d]
               /\ call'[d] = call[d]
    PROVE  \A d \in Contexts : ContextOK(d)'
  <1>1. at'[c] = place /\ \A d \in Contexts \ {c} : at'[d] = at[d]
    BY DEF TaskTypeOK
  <1>2. /\ told[c] = <<>> /\ clause[c] = <<>>
        /\ at[c] # "free" /\ order[c] \in Requests
    BY DEF ContextOK, Telling, Stays, Steps, InstallSteps, UninstallSteps
  <1>3. ContextOK(c)'
    <2>1. Telling(c)'
      BY <1>1, <1>2 DEF Telling
    <2>2. Directories(c)'
      BY <1>1, <1>2 DEF Directories
    <2>3. InTheCall(c)'
      BY DEF InTheCall
    <2> QED
      BY <1>1, <1>2, <2>1, <2>2, <2>3 DEF ContextOK, AtTheMarket, Plugin
  <1> QED
    BY <1>1, <1>3, Untouched

-----------------------------------------------------------------------------
(* The steps that concern one context only.                                 *)

(* What such a step may rely on, and must show.                             *)
LEMMA SoloStep ==
    ASSUME IInv, NEW c \in Contexts, at[c] \in Stays
    PROVE  /\ at[c] # "free" /\ at[c] # "handling" /\ ~Over(c)
           /\ told[c] = <<>> /\ clause[c] = <<>>
           /\ order[c] \in Requests /\ Plugin(c) \in Plugins
           /\ at[c] # "installing dependencies" => child[c] = Nothing
           /\ at[c] \notin {"updating", "installing", "removing"} =>
                 call[c].phase = "idle"
           /\ disk[c] \in SUBSET {"download", "build"}
  BY DEF IInv, ContextOK, Telling, InTheCall, Family, Stays, Steps, InstallSteps,
         UninstallSteps, Over, Ends, Plugin, Requests, TaskTypeOK

LEMMA PublishFailsStep ==
    ASSUME IInv, NEW c \in Contexts, PublishFails(c) PROVE IInv'
  <1> USE DEF PublishFails, Fails, Handle
  <1>1. at[c] \in Stays
    BY DEF Stays
  <1>2. /\ \A d \in Contexts : ContextOK(d)'
        /\ at' = [at EXCEPT ![c] = "handling"]
        /\ HandlerTypes'
    BY <1>1, SoloStep, HandleOK DEF IInv, contextVars, serviceVars
  <1>3. TaskTypeOK'
    BY <1>2 DEF IInv, TaskTypeOK, HandlerTypes, contextVars, packageVars, serviceVars
  <1>4. Family'
    BY <1>1, <1>2, SoloStep, FamilyMove DEF IInv, contextVars
  <1> QED
    BY <1>2, <1>3, <1>4 DEF IInv

LEMMA PlainStep ==
    ASSUME IInv, NEW c \in Contexts,
           Execute(c) \/ Starting(c) \/ DependenciesDone(c) \/ SkipUpdate(c)
    PROVE  IInv'
  <1> USE DEF Execute, Starting, DependenciesDone, SkipUpdate, Goto
  <1>1. at[c] \in Stays /\ child[c] = Nothing /\ call[c].phase = "idle"
    BY SoloStep DEF Stays, Steps, InstallSteps, UninstallSteps
  <1>2. PICK place \in Stays :
           /\ at' = [at EXCEPT ![c] = place]
           /\ place \in Built => at[c] \in Built
           /\ place \in Unbuilt => at[c] \in Unbuilt
           /\ place # "choosing"
    BY DEF Stays, Steps, InstallSteps, UninstallSteps, Built, Unbuilt
  <1>3. UNCHANGED <<contextVars, told, disk, clause, packageVars, serviceVars>>
    OBVIOUS
  <1>4. place \notin {"free", "returned", "handling"}
    BY DEF Stays, Steps, InstallSteps, UninstallSteps
  <1>5. Directories(c)
    BY DEF IInv, ContextOK
  <1>6. \A d \in Contexts : ContextOK(d)'
    BY <1>1, <1>2, <1>3, <1>4, <1>5, MoveOK
       DEF IInv, contextVars, serviceVars, Directories
  <1>7. Family'
    BY <1>1, <1>2, <1>3, <1>4, SoloStep, FamilyMove DEF IInv, contextVars
  <1>8. TaskTypeOK'
    BY <1>2, <1>3 DEF IInv, TaskTypeOK, contextVars, packageVars, serviceVars, Stays,
                      Between
  <1> QED
    BY <1>6, <1>7, <1>8 DEF IInv

(* And of what they do not.                                                 *)
Looks == [installed : Versions \union {0}, known : Versions \union {0},
          choice : Versions \union {0}, next : Nat \ {0}]

Stages == {"none", "begun", "unpacked", "done"}

RestOK ==
    /\ todo \in [Contexts -> Seq(Dependencies)]
    /\ look \in [Contexts -> Looks]
    /\ version \in [Contexts -> Versions \union {0}]
    /\ extracted \in [Contexts -> BOOLEAN]
    /\ pkg \in [Plugins -> Packages]
    /\ stage \in Stages
    /\ worker \in {"up", "down"}
    /\ call \in [Contexts ->
                    [phase : {"idle", "waiting", "running", "answered", "refused"},
                     cmd : Commands \union {Nothing}, ok : BOOLEAN]]

(* A clause, and a step that goes on, when no nested install is open: the   *)
(* two lemmas above for the whole of IInv.                                  *)
LEMMA HandleStep ==
    ASSUME IInv, NEW c \in Contexts, at[c] \in Stays, child[c] = Nothing,
           NEW error, NEW left \in SUBSET {"download", "build"},
           HandleLeaving(c, error, left),
           error \in {"already", "dependency"} => extracted[c] \/ "build" \notin left,
           order' = order, child' = child, version' = version,
           extracted' = extracted,
           call'[c].phase = "idle",
           \A d \in Contexts \ {c} : call'[d] = call[d],
           RestOK'
    PROVE  IInv'
  <1>1. at[c] # "free" /\ ~Over(c)
    BY SoloStep
  <1>2. /\ \A d \in Contexts : ContextOK(d)'
        /\ at' = [at EXCEPT ![c] = "handling"]
        /\ HandlerTypes'
    BY HandleOK DEF IInv
  <1>3. Family'
    BY <1>1, <1>2, FamilyMove DEF IInv
  <1>4. TaskTypeOK'
    BY <1>2 DEF IInv, TaskTypeOK, HandlerTypes, RestOK, Looks, Stages
  <1> QED
    BY <1>2, <1>3, <1>4 DEF IInv

LEMMA MoveStep ==
    ASSUME IInv, NEW c \in Contexts, at[c] \in Stays, child[c] = Nothing,
           NEW place \in Stays, at' = [at EXCEPT ![c] = place],
           told' = told, clause' = clause, order' = order, child' = child,
           place \in Built => extracted'[c] /\ "build" \in disk'[c],
           place \in Unbuilt => "build" \notin disk'[c],
           disk' \in [Contexts -> SUBSET {"download", "build"}],
           call'[c].phase = "idle",
           place = "choosing" => AtTheMarket(c),
           \A d \in Contexts \ {c} :
               /\ disk'[d] = disk[d]
               /\ extracted'[d] = extracted[d]
               /\ version'[d] = version[d]
               /\ call'[d] = call[d],
           RestOK'
    PROVE  IInv'
  <1>1. at[c] # "free" /\ ~Over(c)
    BY SoloStep
  <1>2. place \notin {"free", "returned", "handling"}
    BY DEF Stays, Steps, InstallSteps, UninstallSteps
  <1>3. \A d \in Contexts : ContextOK(d)'
    BY <1>1, <1>2, MoveOK DEF IInv
  <1>4. Family'
    BY <1>1, <1>2, FamilyMove DEF IInv
  <1>5. TaskTypeOK'
    BY DEF IInv, TaskTypeOK, RestOK, Stays, Between, Looks, Stages
  <1> QED
    BY <1>3, <1>4, <1>5 DEF IInv

LEMMA RestStays ==
    ASSUME IInv, UNCHANGED <<contextVars, packageVars, serviceVars>> PROVE RestOK'
  BY DEF IInv, TaskTypeOK, RestOK, Looks, Stages, contextVars, packageVars, serviceVars

(* What _GitDownloader leaves: the clone, or nothing new.                   *)
LEMMA FetchStep ==
    ASSUME IInv, NEW c \in Contexts, at[c] \in {"downloading", "choosing"},
           NEW v \in Versions \union {0}, Fetch(c, v),
           look' \in [Contexts -> Looks],
           UNCHANGED <<order, todo, child, extracted, packageVars, serviceVars>>
    PROVE  IInv'
  <1>1. /\ at[c] \in Stays /\ child[c] = Nothing /\ call[c].phase = "idle"
        /\ disk[c] \in SUBSET {"download", "build"}
        /\ "build" \notin disk[c]
    <2>1. at[c] \in Stays
      BY DEF Stays, Steps, InstallSteps
    <2>2. Directories(c)
      BY DEF IInv, ContextOK
    <2> QED
      BY <2>1, <2>2, SoloStep DEF Directories, Unbuilt
  <1>2. version' \in [Contexts -> Versions \union {0}]
    BY DEF Fetch, IInv, TaskTypeOK
  <1>3. RestOK'
    BY <1>2 DEF IInv, TaskTypeOK, RestOK, Stages, packageVars, serviceVars
  <1>4. CASE /\ disk' = [disk EXCEPT ![c] = @ \union {"download"}]
             /\ version' = [version EXCEPT ![c] = v]
             /\ at' = [at EXCEPT ![c] = "extracting"]
             /\ UNCHANGED <<told, clause>>
    <2>1. /\ disk' \in [Contexts -> SUBSET {"download", "build"}]
          /\ "build" \notin disk'[c]
          /\ \A d \in Contexts \ {c} :
                disk'[d] = disk[d] /\ version'[d] = version[d]
      BY <1>1, <1>4 DEF IInv, TaskTypeOK
    <2>2. "extracting" \in Stays /\ "extracting" \notin Built
      BY DEF Stays, Steps, InstallSteps, Built
    <2> QED
      BY <1>1, <1>3, <1>4, <2>1, <2>2, MoveStep DEF serviceVars
  <1>5. CASE /\ Fails(c, "download", {"command", "other"})
             /\ UNCHANGED version
    BY <1>1, <1>3, <1>5, HandleStep DEF Fails, Handle, serviceVars
  <1>6. CASE /\ HandleLeaving(c, "other", disk[c] \union {"download"})
             /\ UNCHANGED version
    <2>1. disk[c] \union {"download"} \in SUBSET {"download", "build"}
      BY <1>1
    <2> QED
      BY <1>1, <1>3, <1>6, <2>1, HandleStep DEF serviceVars
  <1> QED
    BY <1>4, <1>5, <1>6 DEF Fetch

(* What a failed look at the market leaves: nothing.                        *)
LEMMA GiveUpStep ==
    ASSUME IInv, NEW c \in Contexts, at[c] \in {"downloading", "choosing"},
           NEW error, Handle(c, error),
           look' \in [Contexts -> Looks],
           UNCHANGED <<order, todo, child, version, extracted, packageVars, serviceVars>>
    PROVE  IInv'
  <1>1. at[c] \in Stays
    BY DEF Stays, Steps, InstallSteps
  <1>2. /\ child[c] = Nothing /\ call[c].phase = "idle"
        /\ disk[c] \in SUBSET {"download", "build"}
        /\ "build" \notin disk[c]
    BY <1>1, SoloStep DEF IInv, ContextOK, Directories, Unbuilt
  <1>3. RestOK'
    BY DEF IInv, TaskTypeOK, RestOK, Stages, packageVars, serviceVars
  <1> QED
    BY <1>1, <1>2, <1>3, HandleStep DEF Handle, serviceVars

LEMMA LooksTyped == ASSUME IInv PROVE look \in [Contexts -> Looks]
  BY DEF IInv, TaskTypeOK, Looks

LEMMA DownloadStep ==
    ASSUME IInv, NEW c \in Contexts, Download(c) PROVE IInv'
  <1>1. /\ at[c] = "downloading"
        /\ UNCHANGED <<order, todo, child, look, extracted, packageVars, serviceVars>>
    BY DEF Download
  <1>2. order[c].version \in Versions \union {0}
    BY <1>1, SoloStep DEF Stays, Steps, InstallSteps, Requests
  <1>3. look' \in [Contexts -> Looks]
    BY <1>1, LooksTyped
  <1>4. CASE Fetch(c, order[c].version)
    BY <1>1, <1>2, <1>3, <1>4, FetchStep
  <1>5. CASE UNCHANGED version /\ (Handle(c, "other") \/ Fails(c, "download", {"other"}))
    BY <1>1, <1>3, <1>5, GiveUpStep DEF Fails
  <1> QED
    BY <1>4, <1>5 DEF Download

LEMMA LookUpStep ==
    ASSUME IInv, NEW c \in Contexts, LookUp(c) PROVE IInv'
  <1> DEFINE v == pkg[Plugin(c)].version
             new == [NoLook EXCEPT !.installed = v, !.known = v]
  <1>1. /\ at[c] = "downloading" /\ at[c] \in Stays
        /\ child[c] = Nothing /\ call[c].phase = "idle"
        /\ Plugin(c) \in Plugins /\ Directories(c)
    BY SoloStep DEF LookUp, Stays, Steps, InstallSteps, IInv, ContextOK
  <1>2. /\ at' = [at EXCEPT ![c] = "choosing"]
        /\ UNCHANGED <<disk, told, clause, order, todo, child, version, extracted>>
        /\ UNCHANGED <<packageVars, serviceVars>>
    BY DEF LookUp, Goto
  <1>3. look' \in [Contexts -> Looks]
    <2>1. v \in Versions \union {0}
      BY <1>1 DEF IInv, TaskTypeOK, Packages
    <2>2. NoLook \in Looks
      BY DEF NoLook, Looks
    <2> HIDE DEF v
    <2>3. new \in Looks
      BY <2>1, <2>2 DEF Looks
    <2> QED
      BY <2>3, LooksTyped DEF LookUp, v
  <1>4. RestOK'
    BY <1>2, <1>3 DEF IInv, TaskTypeOK, RestOK, Stages, packageVars, serviceVars
  <1>5. /\ "choosing" \in Stays /\ "choosing" \notin Built
        /\ "build" \notin disk[c]
        /\ disk' \in [Contexts -> SUBSET {"download", "build"}]
    BY <1>1, <1>2 DEF Stays, Built, Unbuilt, Directories, IInv, TaskTypeOK
  <1>6. AtTheMarket(c)
    BY DEF LookUp, AtTheMarket
  <1> QED
    BY <1>1, <1>2, <1>4, <1>5, <1>6, MoveStep DEF serviceVars

LEMMA MarkStep ==
    ASSUME IInv, NEW c \in Contexts, Mark(c) PROVE IInv'
  <1> DEFINE offer == Market[Plugin(c)][look[c].next]
             known == IF offer.fits /\ look[c].known = 0
                      THEN pkg[Plugin(c)].version
                      ELSE look[c].known
             takes == offer.fits /\ known < offer.version /\ Wanted(c, offer.version)
             choice == IF takes /\ look[c].choice = 0 THEN offer.version ELSE look[c].choice
             new == [look[c] EXCEPT !.known = known, !.choice = choice, !.next = @ + 1]
  <1>1. /\ at[c] = "choosing"
        /\ look[c].next <= Len(Market[Plugin(c)])
        /\ look' = [look EXCEPT ![c] = new]
        /\ UNCHANGED <<order, todo, child, version, extracted>>
        /\ UNCHANGED <<handlerVars, packageVars, serviceVars>>
    BY DEF Mark
  <1>2. /\ Plugin(c) \in Plugins /\ Plugin(c) \in DOMAIN Market
        /\ look[c] \in Looks
    BY <1>1, SoloStep, LooksTyped DEF Stays, IInv, ContextOK, AtTheMarket
  <1>3. offer \in Offers
    <2>1. Market[Plugin(c)] \in Seq(Offers)
      BY <1>2, PluginTasksAssumption
    <2> QED
      BY <1>1, <1>2, <2>1 DEF Looks
  <1>4. known \in Versions \union {0} /\ choice \in Versions \union {0}
    BY <1>2, <1>3 DEF IInv, TaskTypeOK, Packages, Offers, Looks
  <1>5. new \in Looks
    <2>1. look[c].next + 1 \in Nat \ {0}
      BY <1>2 DEF Looks
    <2> HIDE DEF known, choice
    <2> QED
      BY <1>2, <1>4, <2>1 DEF Looks
  <1>6. look' \in [Contexts -> Looks]
    BY <1>1, <1>5, LooksTyped
  <1>7. TaskTypeOK'
    BY <1>1, <1>6 DEF IInv, TaskTypeOK, Looks, handlerVars, packageVars, serviceVars
  <1>8. Family'
    BY <1>1 DEF IInv, Family, Over, handlerVars
  <1>9. \A d \in Contexts : ContextOK(d)'
    BY <1>1, Untouched DEF IInv, handlerVars, serviceVars
  <1> QED
    BY <1>7, <1>8, <1>9 DEF IInv

LEMMA ChooseStep ==
    ASSUME IInv, NEW c \in Contexts, Choose(c) PROVE IInv'
  <1>1. /\ at[c] = "choosing"
        /\ UNCHANGED <<order, todo, child, extracted, packageVars, serviceVars>>
    BY DEF Choose
  <1>2. look' \in [Contexts -> Looks] /\ look[c].choice \in Versions \union {0}
    <2>1. NoLook \in Looks
      BY DEF NoLook, Looks
    <2> QED
      BY <2>1, LooksTyped DEF Choose, Looks
  <1>3. CASE Handle(c, "dependency") /\ UNCHANGED version
    BY <1>1, <1>2, <1>3, GiveUpStep
  <1>4. CASE Fetch(c, look[c].choice)
    BY <1>1, <1>2, <1>4, FetchStep
  <1> QED
    BY <1>3, <1>4 DEF Choose

LEMMA ExtractStep ==
    ASSUME IInv, NEW c \in Contexts, Extract(c) PROVE IInv'
  <1> DEFINE kept == IF order[c].subdirectory THEN {"download"} ELSE {}
  <1>1. /\ at[c] = "extracting" /\ at[c] \in Stays /\ child[c] = Nothing
        /\ call[c].phase = "idle"
        /\ disk[c] \in SUBSET {"download", "build"}
    BY SoloStep DEF Extract, Stays, Steps, InstallSteps
  <1>2. RestOK'
    BY DEF Extract, IInv, TaskTypeOK, RestOK, Looks, Stages, packageVars, serviceVars
  <1>3. UNCHANGED <<order, todo, child, version, packageVars, serviceVars>>
    BY DEF Extract
  <1>4. CASE /\ disk' = [disk EXCEPT ![c] = kept \union {"build"}]
             /\ extracted' = [extracted EXCEPT ![c] = TRUE]
             /\ at' = [at EXCEPT ![c] = "validating"]
             /\ UNCHANGED <<told, clause>>
    <2>1. /\ disk' \in [Contexts -> SUBSET {"download", "build"}]
          /\ "build" \in disk'[c]
          /\ extracted'[c]
          /\ \A d \in Contexts \ {c} :
                disk'[d] = disk[d] /\ extracted'[d] = extracted[d]
      BY <1>4 DEF IInv, TaskTypeOK
    <2>2. "validating" \in Stays /\ "validating" \notin Unbuilt
      BY DEF Stays, Steps, InstallSteps, Unbuilt
    <2> QED
      BY <1>1, <1>2, <1>3, <1>4, <2>1, <2>2, MoveStep DEF serviceVars
  <1>5. CASE /\ Handle(c, "other") \/ HandleLeaving(c, "other", kept \union {"build"})
             /\ UNCHANGED extracted
    <2>1. PICK left \in SUBSET {"download", "build"} : HandleLeaving(c, "other", left)
      BY <1>1, <1>5 DEF Handle
    <2> QED
      BY <1>1, <1>2, <1>3, <1>5, <2>1, HandleStep DEF serviceVars
  <1> QED
    BY <1>4, <1>5 DEF Extract

LEMMA ValidateStep ==
    ASSUME IInv, NEW c \in Contexts, Validate(c) PROVE IInv'
  <1>1. /\ at[c] = "validating" /\ at[c] \in Stays /\ child[c] = Nothing
        /\ call[c].phase = "idle"
        /\ disk[c] \in SUBSET {"download", "build"}
        /\ Plugin(c) \in Plugins
    BY SoloStep DEF Validate, Stays, Steps, InstallSteps
  <1>2. extracted[c] /\ "build" \in disk[c]
    BY <1>1 DEF IInv, ContextOK, Directories, Built
  <1>3. UNCHANGED <<order, child, look, version, extracted, packageVars, serviceVars>>
    BY DEF Validate
  <1>4. todo' \in [Contexts -> Seq(Dependencies)]
    BY <1>1, PluginTasksAssumption DEF Validate, IInv, TaskTypeOK
  <1>5. RestOK'
    BY <1>3, <1>4 DEF IInv, TaskTypeOK, RestOK, Looks, Stages, packageVars, serviceVars
  <1>6. ASSUME NEW error, Handle(c, error) PROVE IInv'
    BY <1>1, <1>2, <1>3, <1>5, <1>6, HandleStep DEF Handle, serviceVars
  <1>7. ASSUME Goto(c, "installing dependencies") PROVE IInv'
    <2>1. /\ "installing dependencies" \in Stays
          /\ "installing dependencies" \notin Unbuilt
      BY DEF Stays, Steps, InstallSteps, Unbuilt
    <2>2. disk' \in [Contexts -> SUBSET {"download", "build"}]
      BY <1>7 DEF Goto, IInv, TaskTypeOK
    <2> QED
      BY <1>1, <1>2, <1>3, <1>5, <1>7, <2>1, <2>2, MoveStep DEF Goto, serviceVars
  <1> QED
    BY <1>6, <1>7 DEF Validate, Fails

LEMMA BuildPackageStep ==
    ASSUME IInv, NEW c \in Contexts, Build(c) \/ Package(c) PROVE IInv'
  <1>1. /\ at[c] \in {"building", "packaging"} /\ at[c] \in Stays
        /\ child[c] = Nothing /\ call[c].phase = "idle"
        /\ disk[c] \in SUBSET {"download", "build"}
    BY SoloStep DEF Build, Package, Stays, Steps, InstallSteps
  <1>2. extracted[c] /\ "build" \in disk[c]
    BY <1>1 DEF IInv, ContextOK, Directories, Built
  <1>3. UNCHANGED <<contextVars, packageVars, serviceVars>> /\ RestOK'
    BY RestStays DEF Build, Package
  <1>4. ASSUME NEW error, Handle(c, error) PROVE IInv'
    BY <1>1, <1>2, <1>3, <1>4, HandleStep DEF Handle, contextVars, serviceVars
  <1>5. ASSUME NEW place \in {"packaging", "updating"}, Goto(c, place) PROVE IInv'
    <2>1. place \in Stays /\ place \notin Unbuilt
      BY DEF Stays, Steps, InstallSteps, Unbuilt
    <2>2. disk' \in [Contexts -> SUBSET {"download", "build"}]
      BY <1>5 DEF Goto, IInv, TaskTypeOK
    <2> QED
      BY <1>1, <1>2, <1>3, <1>5, <2>1, <2>2, MoveStep
         DEF Goto, contextVars, serviceVars
  <1> QED
    BY <1>4, <1>5 DEF Build, Package, Fails

LEMMA CleanStep ==
    ASSUME IInv, NEW c \in Contexts, Clean(c) PROVE IInv'
  <1>1. /\ at[c] = "cleaning" /\ at[c] \in Stays
        /\ child[c] = Nothing /\ call[c].phase = "idle"
        /\ disk[c] \in SUBSET {"download", "build"}
    BY SoloStep DEF Clean, Stays, Steps, InstallSteps
  <1>2. UNCHANGED <<contextVars, packageVars, serviceVars>> /\ RestOK'
    BY RestStays DEF Clean
  <1>3. CASE Fails(c, "clean", {"other"})
    BY <1>1, <1>2, <1>3, HandleStep DEF Fails, Handle, contextVars, serviceVars
  <1>4. CASE /\ disk' = [disk EXCEPT ![c] = @ \ {"build"}]
             /\ at' = [at EXCEPT ![c] = "completed"]
             /\ UNCHANGED <<told, clause>>
    <2>1. "completed" \in Stays /\ "completed" \notin Built
      BY DEF Stays, Steps, InstallSteps, Built
    <2>2. /\ disk' \in [Contexts -> SUBSET {"download", "build"}]
          /\ "build" \notin disk'[c]
          /\ \A d \in Contexts \ {c} : disk'[d] = disk[d]
      BY <1>4 DEF IInv, TaskTypeOK
    <2> QED
      BY <1>1, <1>2, <1>4, <2>1, <2>2, MoveStep DEF contextVars, serviceVars
  <1> QED
    BY <1>3, <1>4 DEF Clean

(* A verdict is published, by the last step or by a clause, or the clause   *)
(* cleans: what that takes to keep IInv.                                    *)
LEMMA TellingStep ==
    ASSUME IInv, NEW c \in Contexts, ~Over(c), at[c] # "free", child[c] = Nothing,
           call[c].phase = "idle",
           NEW place \in {"handling", "returned", "escaped"},
           at' = [at EXCEPT ![c] = place],
           UNCHANGED <<contextVars, packageVars, serviceVars>>,
           \A d \in Contexts \ {c} :
              told'[d] = told[d] /\ clause'[d] = clause[d] /\ disk'[d] = disk[d],
           HandlerTypes', Telling(c)', Directories(c)'
    PROVE  IInv'
  <1>1. TaskTypeOK'
    BY DEF IInv, TaskTypeOK, HandlerTypes, contextVars, packageVars, serviceVars
  <1>2. Family'
    BY FamilyMove DEF IInv, contextVars
  <1>3. at'[c] = place /\ \A d \in Contexts \ {c} : at'[d] = at[d]
    BY DEF IInv, TaskTypeOK
  <1>4. ContextOK(c)'
    <2>1. ContextOK(c)
      BY DEF IInv
    <2>2. InTheCall(c)'
      BY DEF InTheCall, serviceVars
    <2> QED
      BY <1>3, <2>1, <2>2 DEF ContextOK, contextVars
  <1>5. \A d \in Contexts \ {c} : ContextOK(d)'
    BY <1>3, Untouched DEF IInv, contextVars, serviceVars
  <1> QED
    BY <1>1, <1>2, <1>4, <1>5 DEF IInv

LEMMA CompleteStep ==
    ASSUME IInv, NEW c \in Contexts, Complete(c) PROVE IInv'
  <1>1. /\ at[c] = "completed" /\ ~Over(c) /\ at[c] # "free"
        /\ child[c] = Nothing /\ told[c] = <<>> /\ clause[c] = <<>>
        /\ "build" \notin disk[c] /\ call[c].phase = "idle"
    <2>1. at[c] = "completed" /\ at[c] \in Stays
      BY DEF Complete, Stays, Steps, InstallSteps
    <2>2. Directories(c)
      BY DEF IInv, ContextOK
    <2> QED
      BY <2>1, <2>2, SoloStep DEF Directories, Unbuilt
  <1>2. UNCHANGED <<contextVars, disk, clause, packageVars, serviceVars>>
    BY DEF Complete
  <1>3. told' = [told EXCEPT ![c] = <<"completed">>]
    <2>1. Append(told[c], "completed") = <<"completed">>
      BY <1>1
    <2> QED
      BY <2>1 DEF Complete
  <1>4. at' = [at EXCEPT ![c] = "returned"]
    BY DEF Complete
  <1>5. /\ at'[c] = "returned" /\ told'[c] = <<"completed">>
        /\ \A d \in Contexts \ {c} : at'[d] = at[d] /\ told'[d] = told[d]
    BY <1>3, <1>4 DEF IInv, TaskTypeOK
  <1>6. HandlerTypes'
    BY <1>2, <1>3, <1>4 DEF IInv, TaskTypeOK, HandlerTypes, Ends
  <1>7. Telling(c)'
    BY <1>1, <1>2, <1>5 DEF Telling, Stays, Steps, InstallSteps, UninstallSteps
  <1>8. Directories(c)'
    BY <1>1, <1>2, <1>5 DEF Directories, Built, Unbuilt
  <1> QED
    BY <1>1, <1>2, <1>4, <1>5, <1>6, <1>7, <1>8, TellingStep

-----------------------------------------------------------------------------
(* The statements of the except clauses.                                    *)

LEMMA InTheClause ==
    ASSUME IInv, NEW c \in Contexts, at[c] = "handling"
    PROVE  /\ ~Over(c) /\ at[c] # "free" /\ child[c] = Nothing
           /\ call[c].phase = "idle" /\ Directories(c)
           /\ \/ told[c] = <<>> /\ clause[c] \in Whole \union {<<"completed">>}
              \/ told[c] = <<"error">> /\ clause[c] = <<"clean">>
  BY DEF IInv, ContextOK, Telling, InTheCall, Family, Over, Ends

(* It gives up: nothing more is published or cleaned.                       *)
LEMMA EscapeStep ==
    ASSUME IInv, NEW c \in Contexts, at[c] = "handling", Escape(c),
           UNCHANGED <<contextVars, packageVars, serviceVars>>
    PROVE  IInv'
  <1>1. /\ clause' = [clause EXCEPT ![c] = <<>>]
        /\ at' = [at EXCEPT ![c] = "escaped"]
        /\ UNCHANGED <<disk, told>>
    BY DEF Escape
  <1>2. /\ ~Over(c) /\ at[c] # "free" /\ child[c] = Nothing
        /\ call[c].phase = "idle" /\ Directories(c)
        /\ told[c] \in {<<>>, <<"error">>}
    BY InTheClause
  <1>3. /\ at'[c] = "escaped" /\ clause'[c] = <<>>
        /\ \A d \in Contexts \ {c} : clause'[d] = clause[d]
    BY <1>1 DEF IInv, TaskTypeOK
  <1>4. HandlerTypes'
    BY <1>1 DEF IInv, TaskTypeOK, HandlerTypes, Ends
  <1>5. Telling(c)'
    BY <1>1, <1>2, <1>3 DEF Telling, Stays, Steps, InstallSteps, UninstallSteps
  <1>6. Directories(c)'
    <2>1. told'[c] # <<"completed">> /\ clause'[c] # <<"completed">>
      BY <1>1, <1>2, <1>3, Verdicts
    <2>2. clause'[c] # <<"clean", "completed">>
      BY <1>3
    <2>3. at'[c] \notin Built \union Unbuilt
      BY <1>3 DEF Built, Unbuilt
    <2> QED
      BY <2>1, <2>2, <2>3, Zenon DEF Directories
  <1> QED
    BY <1>1, <1>2, <1>3, <1>4, <1>5, <1>6, TellingStep

(* A statement of the clause is done.                                       *)
LEMMA ProceedStep ==
    ASSUME IInv, NEW c \in Contexts, at[c] = "handling", Proceed(c),
           UNCHANGED <<contextVars, packageVars, serviceVars>>,
           NEW said \in {<<>>, <<"error">>, <<"completed">>},
           told' = [told EXCEPT ![c] = said],
           NEW kept \in SUBSET {"download", "build"},
           disk' = [disk EXCEPT ![c] = kept],
           \/ /\ Head(clause[c]) = "clean" /\ said = told[c]
              /\ \/ kept = disk[c] /\ ~extracted[c]
                 \/ kept = disk[c] \ {"build"}
           \/ /\ Head(clause[c]) # "clean" /\ said = <<Head(clause[c])>>
              /\ kept = disk[c]
    PROVE  IInv'
  <1> DEFINE rest == Tail(clause[c])
             place == IF rest = <<>> THEN "returned" ELSE "handling"
  <1>1. /\ ~Over(c) /\ at[c] # "free" /\ child[c] = Nothing
        /\ call[c].phase = "idle" /\ Directories(c)
        /\ \/ told[c] = <<>> /\ clause[c] \in Whole \union {<<"completed">>}
           \/ told[c] = <<"error">> /\ clause[c] = <<"clean">>
    BY InTheClause
  <1>2. /\ clause' = [clause EXCEPT ![c] = rest]
        /\ at' = [at EXCEPT ![c] = place]
    BY DEF Proceed
  <1>3. /\ at'[c] = place /\ clause'[c] = rest /\ told'[c] = said /\ disk'[c] = kept
        /\ \A d \in Contexts \ {c} :
              told'[d] = told[d] /\ clause'[d] = clause[d] /\ disk'[d] = disk[d]
    BY <1>2 DEF IInv, TaskTypeOK
  <1>4. /\ rest \in {<<>>, <<"clean">>, <<"error">>, <<"completed">>}
        /\ rest = <<"clean">> => said = <<"error">>
        /\ rest = <<"error">> => said = <<>>
        /\ rest = <<"completed">> => said = <<>> /\ clause[c] = <<"clean", "completed">>
        /\ rest = <<>> => said # <<>>
        /\ said = <<"completed">> => clause[c] = <<"completed">>
    <2>1. \/ clause[c] \in Whole \union {<<"completed">>} /\ told[c] = <<>>
          \/ clause[c] = <<"clean">> /\ told[c] = <<"error">>
      BY <1>1
    <2>2. CASE clause[c] = <<"error">> /\ told[c] = <<>>
      <3>1. rest = <<>> /\ said = <<"error">>
        BY <2>2
      <3> QED
        BY <3>1, Verdicts
    <2>3. CASE clause[c] = <<"error", "clean">> /\ told[c] = <<>>
      <3>1. rest = <<"clean">> /\ said = <<"error">>
        BY <2>3
      <3> QED
        BY <3>1, Verdicts
    <2>4. CASE clause[c] = <<"clean", "error">> /\ told[c] = <<>>
      <3>1. rest = <<"error">> /\ said = <<>>
        BY <2>4
      <3> QED
        BY <3>1, Verdicts
    <2>5. CASE clause[c] = <<"clean", "completed">> /\ told[c] = <<>>
      <3>1. rest = <<"completed">> /\ said = <<>>
        BY <2>5
      <3> QED
        BY <2>5, <3>1, Verdicts
    <2>6. CASE clause[c] = <<"completed">> /\ told[c] = <<>>
      <3>1. rest = <<>> /\ said = <<"completed">>
        BY <2>6
      <3> QED
        BY <2>6, <3>1, Verdicts
    <2>7. CASE clause[c] = <<"clean">> /\ told[c] = <<"error">>
      <3>1. rest = <<>> /\ said = <<"error">>
        BY <2>7
      <3> QED
        BY <3>1, Verdicts
    <2> QED
      BY <2>1, <2>2, <2>3, <2>4, <2>5, <2>6, <2>7 DEF Whole
  <1> HIDE DEF rest
  <1>5. Telling(c)'
    BY <1>3, <1>4 DEF Telling, Whole, Stays, Steps, InstallSteps, UninstallSteps
  <1>6. Directories(c)'
    <2>1. UNCHANGED extracted
      BY DEF contextVars
    <2>2. said = <<"completed">> => "build" \notin kept
      BY <1>1, <1>4 DEF Directories
    <2>3. rest = <<"completed">> => "build" \notin kept
      BY <1>1, <1>4 DEF Directories
    <2>4. rest # <<"clean", "completed">>
      BY <1>4
    <2>5. place \notin Built \union Unbuilt
      BY DEF Built, Unbuilt
    <2> QED
      BY <1>3, <2>1, <2>2, <2>3, <2>4, <2>5 DEF Directories
  <1>7. HandlerTypes'
    <2>1. rest \in Seq({"clean", "completed", "error"})
      BY <1>4, Sequences
    <2>2. said \in Seq({"completed", "error"})
      BY Sequences
    <2>3. place \in Steps \union Between \union Ends \union {"free", "queued"}
      BY DEF Between, Ends
    <2> HIDE DEF place
    <2> QED
      BY <1>2, <2>1, <2>2, <2>3 DEF IInv, TaskTypeOK, HandlerTypes
  <1>8. place \in {"handling", "returned", "escaped"}
    OBVIOUS
  <1> HIDE DEF place
  <1> QED
    BY <1>1, <1>2, <1>3, <1>5, <1>6, <1>7, <1>8, TellingStep

LEMMA HandlerCleansStep ==
    ASSUME IInv, NEW c \in Contexts, HandlerCleans(c) PROVE IInv'
  <1>1. /\ at[c] = "handling" /\ Head(clause[c]) = "clean"
        /\ UNCHANGED <<contextVars, packageVars, serviceVars>>
    BY DEF HandlerCleans
  <1>2. /\ told[c] \in {<<>>, <<"error">>}
        /\ disk[c] \in SUBSET {"download", "build"}
        /\ told = [told EXCEPT ![c] = told[c]]
        /\ disk = [disk EXCEPT ![c] = disk[c]]
    BY <1>1, InTheClause DEF IInv, TaskTypeOK
  <1>3. CASE ~extracted[c] /\ Proceed(c) /\ UNCHANGED <<disk, told>>
    BY <1>1, <1>2, <1>3, ProceedStep
  <1>4. CASE /\ disk' = [disk EXCEPT ![c] = @ \ {"build"}]
             /\ Proceed(c)
             /\ UNCHANGED told
    <2>1. disk[c] \ {"build"} \in SUBSET {"download", "build"}
      BY <1>2
    <2> QED
      BY <1>1, <1>2, <1>4, <2>1, ProceedStep
  <1>5. CASE Escape(c)
    BY <1>1, <1>5, EscapeStep
  <1> QED
    BY <1>3, <1>4, <1>5 DEF HandlerCleans

LEMMA HandlerTellsStep ==
    ASSUME IInv, NEW c \in Contexts, HandlerTells(c) PROVE IInv'
  <1>1. /\ at[c] = "handling" /\ Head(clause[c]) # "clean"
        /\ UNCHANGED <<contextVars, packageVars, serviceVars>>
    BY DEF HandlerTells
  <1>2. /\ told[c] = <<>> /\ Head(clause[c]) \in {"completed", "error"}
        /\ disk[c] \in SUBSET {"download", "build"}
        /\ disk = [disk EXCEPT ![c] = disk[c]]
    BY <1>1, InTheClause DEF IInv, TaskTypeOK, Whole
  <1>3. CASE /\ told' = [told EXCEPT ![c] = Append(@, Head(clause[c]))]
             /\ Proceed(c)
             /\ UNCHANGED disk
    <2> DEFINE said == <<Head(clause[c])>>
    <2>1. Append(told[c], Head(clause[c])) = said
      BY <1>2
    <2>2. told' = [told EXCEPT ![c] = said]
      BY <1>3, <2>1
    <2>3. said \in {<<>>, <<"error">>, <<"completed">>}
      BY <1>2
    <2> HIDE DEF said
    <2>4. said = <<Head(clause[c])>>
      BY DEF said
    <2> QED
      BY <1>1, <1>2, <1>3, <2>2, <2>3, <2>4, ProceedStep
  <1>4. CASE Escape(c)
    BY <1>1, <1>4, EscapeStep
  <1> QED
    BY <1>3, <1>4 DEF HandlerTells

-----------------------------------------------------------------------------
(* The root commands.                                                       *)

CallType == [phase : {"idle", "waiting", "running", "answered", "refused"},
             cmd : Commands \union {Nothing}, ok : BOOLEAN]

LEMMA RootCommandType ==
    ASSUME IInv, NEW c \in Contexts, at[c] \in Stays
    PROVE  RootCommand(c) \in Commands
  <1>1. Plugin(c) \in Plugins /\ version[c] \in Versions \union {0}
    BY SoloStep DEF IInv, TaskTypeOK
  <1> QED
    BY <1>1 DEF RootCommand, Commands

(* A step that moves call alone and leaves c in the call it was in.         *)
LEMMA CallMoves ==
    ASSUME IInv, NEW c \in Contexts, NEW k \in CallType,
           call' = [call EXCEPT ![c] = k],
           at[c] \in {"updating", "installing", "removing"},
           k.cmd = RootCommand(c),
           worker' = worker, pkg' = pkg, stage' \in Stages,
           UNCHANGED <<contextVars, handlerVars>>
    PROVE  IInv'
  <1>1. call'[c] = k /\ \A d \in Contexts \ {c} : call'[d] = call[d]
    BY DEF IInv, TaskTypeOK
  <1>2. TaskTypeOK'
    BY DEF IInv, TaskTypeOK, CallType, Stages, contextVars, handlerVars
  <1>3. Family'
    BY DEF IInv, Family, Over, contextVars, handlerVars
  <1>4. ContextOK(c)'
    BY <1>1 DEF IInv, ContextOK, Telling, Directories, InTheCall, Over, RootCommand,
                Plugin, AtTheMarket, contextVars, handlerVars
  <1>5. \A d \in Contexts \ {c} : ContextOK(d)'
    BY <1>1, Untouched DEF IInv, contextVars, handlerVars
  <1> QED
    BY <1>2, <1>3, <1>4, <1>5 DEF IInv

LEMMA AskStep ==
    ASSUME IInv, NEW c \in Contexts, Ask(c) PROVE IInv'
  <1> DEFINE k == [phase |-> "waiting", cmd |-> RootCommand(c), ok |-> FALSE]
  <1>1. /\ at[c] \in {"updating", "installing", "removing"}
        /\ call' = [call EXCEPT ![c] = k]
        /\ UNCHANGED <<contextVars, handlerVars, packageVars>>
        /\ worker' = worker
    BY DEF Ask, Service!Invoke
  <1>2. at[c] \in Stays
    BY <1>1 DEF Stays, Steps, InstallSteps, UninstallSteps
  <1>3. k \in CallType
    BY <1>2, RootCommandType DEF CallType
  <1>4. pkg' = pkg /\ stage' \in Stages
    BY <1>1 DEF IInv, TaskTypeOK, Stages, packageVars
  <1> QED
    BY <1>1, <1>3, <1>4, CallMoves

(* The call c has open, when it has one.                                    *)
LEMMA OpenCall ==
    ASSUME IInv, NEW c \in Contexts, call[c].phase # "idle"
    PROVE  /\ at[c] \in {"updating", "installing", "removing"}
           /\ at[c] \in Stays
           /\ child[c] = Nothing
           /\ call[c].cmd = RootCommand(c)
           /\ call[c].cmd \in Commands
           /\ call[c] \in CallType
  <1>1. /\ at[c] \in {"updating", "installing", "removing"}
        /\ call[c].cmd = RootCommand(c)
    BY DEF IInv, ContextOK, InTheCall
  <1>2. at[c] \in Stays
    BY <1>1 DEF Stays, Steps, InstallSteps, UninstallSteps
  <1>3. call[c] \in CallType
    BY DEF IInv, TaskTypeOK, CallType
  <1> QED
    BY <1>1, <1>2, <1>3, SoloStep, RootCommandType

(* The call is over for c: its result was taken, or the worker is dead.     *)
LEMMA CallOver ==
    ASSUME IInv, NEW c \in Contexts, call' = [call EXCEPT ![c].phase = "idle"],
           worker' = worker, UNCHANGED <<contextVars, packageVars>>
    PROVE  /\ RestOK'
           /\ call'[c].phase = "idle"
           /\ \A d \in Contexts \ {c} : call'[d] = call[d]
  <1> DEFINE Calls == [phase : {"idle", "waiting", "running", "answered", "refused"},
                       cmd : Commands \union {Nothing}, ok : BOOLEAN]
  <1>1. call \in [Contexts -> Calls]
    BY DEF IInv, TaskTypeOK
  <1>2. call[c] \in Calls
    BY <1>1
  <1>3. [call[c] EXCEPT !.phase = "idle"] \in Calls
    BY <1>2
  <1>4. call' = [call EXCEPT ![c] = [call[c] EXCEPT !.phase = "idle"]]
    OBVIOUS
  <1>5. /\ call' \in [Contexts -> Calls]
        /\ call'[c].phase = "idle"
        /\ \A d \in Contexts \ {c} : call'[d] = call[d]
    BY <1>1, <1>2, <1>3, <1>4
  <1>6. UNCHANGED <<todo, look, version, extracted, pkg, stage, worker>>
    BY DEF contextVars, packageVars
  <1> QED
    BY <1>5, <1>6 DEF IInv, TaskTypeOK, RestOK, Looks, Stages

LEMMA AnsweredStep ==
    ASSUME IInv, NEW c \in Contexts, Answered(c) PROVE IInv'
  <1>1. /\ call[c].phase # "idle"
        /\ call' = [call EXCEPT ![c].phase = "idle"]
        /\ worker' = worker
        /\ UNCHANGED <<contextVars, packageVars>>
    BY DEF Answered, Service!Return
  <1>2. /\ at[c] \in {"updating", "installing", "removing"}
        /\ at[c] \in Stays
        /\ child[c] = Nothing
        /\ disk[c] \in SUBSET {"download", "build"}
        /\ Directories(c)
    BY <1>1, OpenCall, SoloStep DEF IInv, ContextOK
  <1>3. CASE Handle(c, "other")
    BY <1>1, <1>2, <1>3, CallOver, HandleStep DEF Handle, contextVars
  <1> DEFINE place == CASE at[c] = "updating" -> "installing"
                        [] at[c] = "installing" -> "cleaning"
                        [] OTHER -> "completed"
  <1>4. CASE Goto(c, place)
    <2>1. /\ place \in {"installing", "cleaning", "completed"}
          /\ place \in Built => at[c] \in Built
          /\ place \in Unbuilt => at[c] \in Unbuilt
      BY <1>2 DEF Built, Unbuilt
    <2>2. place \in Stays
      BY <2>1 DEF Stays, Steps, InstallSteps
    <2>3. /\ at' = [at EXCEPT ![c] = place]
          /\ UNCHANGED <<disk, told, clause>>
          /\ disk' \in [Contexts -> SUBSET {"download", "build"}]
      BY <1>4 DEF Goto, IInv, TaskTypeOK
    <2>4. /\ place \in Built => extracted'[c] /\ "build" \in disk'[c]
          /\ place \in Unbuilt => "build" \notin disk'[c]
      BY <1>1, <1>2, <2>1, <2>3 DEF Directories, contextVars
    <2>5. place # "choosing"
      BY <2>1
    <2> HIDE DEF place
    <2> QED
      BY <1>1, <1>2, <2>2, <2>3, <2>4, <2>5, CallOver, MoveStep DEF contextVars
  <1> QED
    BY <1>3, <1>4 DEF Answered

LEMMA ExitsStep ==
    ASSUME IInv, NEW c \in Contexts, Exits(c) PROVE IInv'
  <1>1. /\ call[c].phase # "idle"
        /\ call' = [call EXCEPT ![c].phase = "idle"]
        /\ worker' = worker
        /\ UNCHANGED <<contextVars, disk, told, clause, packageVars>>
        /\ at' = [at EXCEPT ![c] = "exited"]
    BY DEF Exits, Service!Forget, Goto
  <1>2. at[c] \in Stays /\ at[c] # "free" /\ ~Over(c) /\ child[c] = Nothing
    BY <1>1, OpenCall, SoloStep
  <1>3. RestOK' /\ call'[c].phase = "idle" /\ \A d \in Contexts \ {c} : call'[d] = call[d]
    BY <1>1, CallOver
  <1>4. TaskTypeOK'
    BY <1>1, <1>3 DEF IInv, TaskTypeOK, RestOK, Looks, Stages, contextVars, Ends
  <1>5. "exited" \notin Built \union Unbuilt
    BY DEF Built, Unbuilt
  <1>6. \A d \in Contexts : ContextOK(d)'
    BY <1>1, <1>2, <1>3, <1>5, MoveOK DEF IInv, contextVars
  <1>7. Family'
    BY <1>1, <1>2, FamilyMove DEF IInv, contextVars
  <1> QED
    BY <1>4, <1>6, <1>7 DEF IInv

(* The worker's side of a call.                                             *)
LEMMA BeginCommandStep ==
    ASSUME IInv, NEW c \in Contexts, BeginCommand(c) PROVE IInv'
  <1> DEFINE k == [call[c] EXCEPT !.phase = "running"]
  <1>1. /\ call[c].phase # "idle"
        /\ call' = [call EXCEPT ![c] = k]
        /\ worker' = worker /\ pkg' = pkg /\ stage' \in Stages
        /\ UNCHANGED <<contextVars, handlerVars>>
    BY DEF BeginCommand, Service!Begin, Stages
  <1>2. /\ at[c] \in {"updating", "installing", "removing"}
        /\ call[c].cmd = RootCommand(c)
        /\ call[c] \in CallType
    BY <1>1, OpenCall
  <1>3. k \in CallType /\ k.cmd = call[c].cmd
    BY <1>2 DEF CallType
  <1> QED
    BY <1>1, <1>2, <1>3, CallMoves

LEMMA FinishCommandStep ==
    ASSUME IInv, NEW c \in Contexts, FinishCommand(c) PROVE IInv'
  <1> DEFINE m == call[c].cmd
             k(ok) == [phase |-> "answered", cmd |-> m, ok |-> ok]
  <1>1. PICK ok \in BOOLEAN :
            /\ call[c].phase = "running"
            /\ call' = [call EXCEPT ![c] = k(ok)]
            /\ worker' = worker /\ pkg' = pkg /\ stage' \in Stages
            /\ UNCHANGED <<contextVars, handlerVars>>
    BY DEF FinishCommand, Service!Finish, Service!Running, Stages
  <1>2. /\ at[c] \in {"updating", "installing", "removing"}
        /\ m = RootCommand(c)
        /\ m \in Commands
    BY <1>1, OpenCall
  <1>3. k(ok) \in CallType /\ k(ok).cmd = m
    BY <1>2 DEF CallType
  <1> HIDE DEF k
  <1> QED
    BY <1>1, <1>2, <1>3, CallMoves

(* What the command does to the packages concerns no task.                  *)
LEMMA PackagesMove ==
    ASSUME IInv, UNCHANGED <<contextVars, handlerVars, serviceVars>>,
           pkg' \in [Plugins -> Packages], stage' \in Stages
    PROVE  IInv'
  <1>1. TaskTypeOK'
    BY DEF IInv, TaskTypeOK, Stages, contextVars, handlerVars, serviceVars
  <1>2. Family'
    BY DEF IInv, Family, Over, contextVars, handlerVars
  <1>3. \A c \in Contexts : ContextOK(c)'
    BY Untouched DEF IInv, contextVars, handlerVars, serviceVars
  <1> QED
    BY <1>1, <1>2, <1>3 DEF IInv

LEMMA WorkStep ==
    ASSUME IInv, NEW c \in Contexts, Work(c) PROVE IInv'
  <1> DEFINE m == call[c].cmd
             new == [version |-> m.version, configured |-> FALSE]
  <1>1. /\ call[c].phase = "running"
        /\ UNCHANGED <<contextVars, handlerVars, serviceVars>>
    BY DEF Work, Unpack, Configure, RemovePackage, Service!Running
  <1>2. m \in Commands
    BY <1>1, OpenCall
  <1>3. m.plugin \in Plugins /\ new \in Packages
    BY <1>2 DEF Commands, Packages
  <1>4. pkg \in [Plugins -> Packages] /\ stage' \in Stages
    BY DEF Work, Unpack, Configure, RemovePackage, IInv, TaskTypeOK, Stages
  <1>5. CASE Unpack(c)
    <2>1. pkg' = [pkg EXCEPT ![m.plugin] = new]
      BY <1>5 DEF Unpack
    <2> HIDE DEF new
    <2> QED
      BY <1>1, <1>3, <1>4, <2>1, PackagesMove
  <1>6. CASE Configure(c)
    <2> DEFINE done == [pkg[m.plugin] EXCEPT !.configured = TRUE]
    <2>1. done \in Packages
      BY <1>3, <1>4 DEF Packages
    <2>2. pkg' = [pkg EXCEPT ![m.plugin] = done]
      BY <1>6 DEF Configure
    <2> HIDE DEF done
    <2> QED
      BY <1>1, <1>3, <1>4, <2>1, <2>2, PackagesMove
  <1>7. CASE \E p \in Plugins : RemovePackage(c, p)
    <2>1. PICK p \in Plugins : pkg' = [pkg EXCEPT ![p] = Absent]
      BY <1>7 DEF RemovePackage
    <2>2. Absent \in Packages
      BY DEF Absent, Packages
    <2> QED
      BY <1>1, <1>4, <2>1, <2>2, PackagesMove
  <1> QED
    BY <1>5, <1>6, <1>7 DEF Work

LEMMA RefusedStep ==
    ASSUME IInv, NEW c \in Contexts, Refused(c) PROVE IInv'
  <1> DEFINE k == [call[c] EXCEPT !.phase = "refused"]
  <1>1. /\ call[c].phase # "idle"
        /\ call' = [call EXCEPT ![c] = k]
        /\ worker' = worker
        /\ UNCHANGED <<contextVars, handlerVars, packageVars>>
    BY DEF Refused, Service!Refuse
  <1>2. /\ at[c] \in {"updating", "installing", "removing"}
        /\ call[c].cmd = RootCommand(c)
        /\ call[c] \in CallType
    BY <1>1, OpenCall
  <1>3. k \in CallType /\ k.cmd = call[c].cmd
    BY <1>2 DEF CallType
  <1>4. pkg' = pkg /\ stage' \in Stages
    BY <1>1 DEF IInv, TaskTypeOK, Stages, packageVars
  <1> QED
    BY <1>1, <1>2, <1>3, <1>4, CallMoves

LEMMA WorkerDiesStep ==
    ASSUME IInv, WorkerDies PROVE IInv'
  <1>1. worker' = "down" /\ UNCHANGED <<contextVars, handlerVars, packageVars, call>>
    BY DEF WorkerDies, Service!Down
  <1>2. TaskTypeOK'
    BY <1>1 DEF IInv, TaskTypeOK, contextVars, handlerVars, packageVars
  <1>3. Family'
    BY <1>1 DEF IInv, Family, Over, contextVars, handlerVars
  <1>4. \A c \in Contexts : ContextOK(c)'
    BY <1>1, Untouched DEF IInv, contextVars, handlerVars
  <1> QED
    BY <1>2, <1>3, <1>4 DEF IInv

-----------------------------------------------------------------------------
(* The steps that concern two contexts.                                     *)

(* Family, for one nested install and for one that is still going on.       *)
LEMMA ChildOf ==
    ASSUME IInv, NEW e \in Contexts, child[e] # Nothing
    PROVE  /\ child[e] \in Contexts
           /\ at[e] = "installing dependencies"
           /\ at[child[e]] # "free"
           /\ order[child[e]].parent = e
  <1>1. Family /\ TaskTypeOK
    BY DEF IInv
  <1>2. child[e] \in Contexts
    BY <1>1 DEF TaskTypeOK
  <1> QED
    BY <1>1, <1>2 DEF Family

LEMMA WaitedFor ==
    ASSUME IInv, NEW e \in Contexts, NEW d \in Contexts,
           order[d].parent = e, ~Over(d)
    PROVE  child[e] = d
  <1>1. Family
    BY DEF IInv
  <1> QED
    BY <1>1 DEF Family

Places == Steps \union Between \union Ends \union {"free", "queued"}

(* A Context is made: by a request, or for a dependency.                    *)
LEMMA NewContext ==
    ASSUME IInv, NEW c \in Contexts, at[c] = "free",
           NEW r \in Requests, NEW place \in {"queued", "starting"},
           order' = [order EXCEPT ![c] = r],
           at' = [at EXCEPT ![c] = place],
           UNCHANGED <<version, extracted, disk, told, clause, packageVars, serviceVars>>
    PROVE  /\ \A d \in Contexts : ContextOK(d)'
           /\ order' \in [Contexts -> Requests \union {NoOrder}]
           /\ at' \in [Contexts -> Places]
           /\ child[c] = Nothing
           /\ \A e \in Contexts : child[e] # c
           /\ order'[c] = r /\ at'[c] = place
           /\ \A d \in Contexts \ {c} : order'[d] = order[d] /\ at'[d] = at[d]
  <1>1. /\ order'[c] = r /\ at'[c] = place
        /\ \A d \in Contexts \ {c} : order'[d] = order[d] /\ at'[d] = at[d]
    BY DEF IInv, TaskTypeOK
  <1>2. ContextOK(c)
    BY DEF IInv
  <1>3. /\ told[c] = <<>> /\ clause[c] = <<>>
        /\ "build" \notin disk[c] /\ call[c].phase = "idle"
    BY <1>2 DEF ContextOK, Telling, Directories, Unbuilt, InTheCall
  <1>4. ContextOK(c)'
    <2>1. Telling(c)'
      BY <1>1, <1>3 DEF Telling
    <2>2. Directories(c)'
      BY <1>1, <1>3 DEF Directories, Built
    <2>3. InTheCall(c)'
      BY <1>3 DEF InTheCall, serviceVars
    <2> QED
      BY <1>1, <2>1, <2>2, <2>3 DEF ContextOK
  <1>5. \A d \in Contexts \ {c} : ContextOK(d)'
    BY <1>1, Untouched DEF IInv, serviceVars
  <1>6. /\ order' \in [Contexts -> Requests \union {NoOrder}]
        /\ at' \in [Contexts -> Places]
    BY DEF IInv, TaskTypeOK, Steps, InstallSteps, Places
  <1>7. /\ child[c] = Nothing
        /\ \A e \in Contexts : child[e] # c
    BY PluginTasksAssumption DEF IInv, Family
  <1> QED
    BY <1>1, <1>4, <1>5, <1>6, <1>7

LEMMA SubmitStep ==
    ASSUME IInv, NEW c \in Contexts, NEW o \in Orders, Submit(c, o) PROVE IInv'
  <1>1. /\ at[c] = "free"
        /\ order' = [order EXCEPT ![c] = o]
        /\ at' = [at EXCEPT ![c] = "queued"]
        /\ UNCHANGED <<todo, child, look, version, extracted>>
        /\ UNCHANGED <<disk, told, clause, packageVars, serviceVars>>
    BY DEF Submit, Fresh, Goto
  <1>2. o \in Requests /\ o.parent = Nothing
    BY PluginTasksAssumption
  <1>3. /\ \A d \in Contexts : ContextOK(d)'
        /\ order' \in [Contexts -> Requests \union {NoOrder}]
        /\ at' \in [Contexts -> Places]
        /\ child[c] = Nothing
        /\ \A e \in Contexts : child[e] # c
        /\ order'[c] = o /\ at'[c] = "queued"
        /\ \A d \in Contexts \ {c} : order'[d] = order[d] /\ at'[d] = at[d]
    BY <1>1, <1>2, NewContext
  <1>4. TaskTypeOK'
    BY <1>1, <1>3 DEF IInv, TaskTypeOK, Places, packageVars, serviceVars
  <1>5. ASSUME NEW e \in Contexts, child[e] # Nothing
        PROVE  /\ at'[e] = "installing dependencies"
               /\ at'[child[e]] # "free"
               /\ order'[child[e]].parent = e
    <2>1. /\ child[e] \in Contexts
          /\ at[e] = "installing dependencies"
          /\ at[child[e]] # "free"
          /\ order[child[e]].parent = e
      BY <1>5, ChildOf
    <2>2. child[e] # c /\ e # c
      BY <1>1, <2>1
    <2> QED
      BY <1>3, <2>1, <2>2
  <1>6. ASSUME NEW e \in Contexts, NEW d \in Contexts, order'[d].parent = e, ~Over(d)'
        PROVE  child[e] = d
    <2>1. d # c
      BY <1>2, <1>3, <1>6, PluginTasksAssumption
    <2>2. order[d].parent = e /\ at'[d] = at[d]
      BY <1>3, <1>6, <2>1
    <2>3. ~Over(d)
      BY <1>6, <2>2 DEF Over
    <2> QED
      BY <2>2, <2>3, WaitedFor
  <1>7. Family'
    BY <1>1, <1>5, <1>6 DEF Family
  <1> QED
    BY <1>3, <1>4, <1>7 DEF IInv

LEMMA InstallDependencyStep ==
    ASSUME IInv, NEW c \in Contexts, NEW d \in Contexts, InstallDependency(c, d)
    PROVE  IInv'
  <1> DEFINE r == [kind |-> "install", method |-> "market",
                   plugin |-> Head(todo[c]).plugin,
                   version |-> Head(todo[c]).version,
                   reinstall |-> FALSE, subdirectory |-> FALSE, parent |-> c]
  <1>1. /\ at[c] = "installing dependencies"
        /\ child[c] = Nothing
        /\ at[d] = "free"
        /\ order' = [order EXCEPT ![d] = r]
        /\ todo[c] # <<>>
        /\ todo' = [todo EXCEPT ![c] = Tail(@)]
        /\ child' = [child EXCEPT ![c] = d]
        /\ at' = [at EXCEPT ![d] = "starting"]
        /\ UNCHANGED <<look, version, extracted, disk, told, clause>>
        /\ UNCHANGED <<packageVars, serviceVars>>
    BY DEF InstallDependency, Fresh, Goto
  <1>2. /\ todo[c] \in Seq(Dependencies)
        /\ Head(todo[c]) \in Dependencies
        /\ Tail(todo[c]) \in Seq(Dependencies)
    <2>1. todo[c] \in Seq(Dependencies)
      BY DEF IInv, TaskTypeOK
    <2> QED
      BY <1>1, <2>1, HeadTailProperties
  <1>3. r \in Requests /\ r.parent = c
    BY <1>2 DEF Requests, Dependencies
  <1> HIDE DEF r
  <1>4. /\ \A e \in Contexts : ContextOK(e)'
        /\ order' \in [Contexts -> Requests \union {NoOrder}]
        /\ at' \in [Contexts -> Places]
        /\ \A e \in Contexts : child[e] # d
        /\ order'[d] = r /\ at'[d] = "starting"
        /\ \A e \in Contexts \ {d} : order'[e] = order[e] /\ at'[e] = at[e]
    BY <1>1, <1>3, NewContext
  <1>5. c # d
    BY <1>1
  <1>6. child'[c] = d /\ \A e \in Contexts \ {c} : child'[e] = child[e]
    BY <1>1 DEF IInv, TaskTypeOK
  <1>7. todo' \in [Contexts -> Seq(Dependencies)]
    <2>1. todo \in [Contexts -> Seq(Dependencies)]
      BY DEF IInv, TaskTypeOK
    <2> QED
      BY <1>1, <1>2, <2>1
  <1>8. TaskTypeOK'
    BY <1>1, <1>4, <1>7 DEF IInv, TaskTypeOK, Places, packageVars, serviceVars
  <1>9. ASSUME NEW e \in Contexts, child'[e] # Nothing
        PROVE  /\ at'[e] = "installing dependencies"
               /\ at'[child'[e]] # "free"
               /\ order'[child'[e]].parent = e
    <2>1. CASE e = c
      <3>1. child'[e] = d /\ at'[e] = at[c]
        BY <1>4, <1>5, <1>6, <2>1
      <3> QED
        BY <1>1, <1>3, <1>4, <2>1, <3>1
    <2>2. CASE e # c
      <3>1. child'[e] = child[e] /\ child[e] # d
        BY <1>4, <1>6, <2>2
      <3>2. /\ child[e] \in Contexts
            /\ at[e] = "installing dependencies"
            /\ at[child[e]] # "free"
            /\ order[child[e]].parent = e
        BY <1>9, <3>1, ChildOf
      <3>3. e # d
        BY <1>1, <3>2
      <3> QED
        BY <1>4, <3>1, <3>2, <3>3
    <2> QED
      BY <2>1, <2>2
  <1>10. ASSUME NEW e \in Contexts, NEW x \in Contexts, order'[x].parent = e, ~Over(x)'
         PROVE  child'[e] = x
    <2>1. CASE x = d
      BY <1>3, <1>4, <1>6, <1>10, <2>1
    <2>2. CASE x # d
      <3>1. child[e] = x
        <4>1. order[x].parent = e /\ at'[x] = at[x]
          BY <1>4, <1>10, <2>2
        <4>2. ~Over(x)
          BY <1>10, <4>1 DEF Over
        <4> QED
          BY <4>1, <4>2, WaitedFor
      <3>2. e # c
        BY <1>1, <3>1, PluginTasksAssumption
      <3> QED
        BY <1>6, <3>1, <3>2
    <2> QED
      BY <2>1, <2>2
  <1>11. Family'
    BY <1>9, <1>10 DEF Family
  <1> QED
    BY <1>4, <1>8, <1>11 DEF IInv

(* The nested install of c is over, and c stays or ends.                    *)
LEMMA FamilyLeaves ==
    ASSUME IInv, NEW c \in Contexts, child[c] # Nothing, at[child[c]] \in Ends,
           child' = [child EXCEPT ![c] = Nothing], order' = order,
           NEW place, at' = [at EXCEPT ![c] = place], place # "free"
    PROVE  Family'
  <1>1. /\ \A e \in Contexts : at'[e] = IF e = c THEN place ELSE at[e]
        /\ child'[c] = Nothing
        /\ \A e \in Contexts \ {c} : child'[e] = child[e]
    BY DEF IInv, TaskTypeOK
  <1>2. ASSUME NEW e \in Contexts, child'[e] # Nothing
        PROVE  /\ at'[e] = "installing dependencies"
               /\ at'[child'[e]] # "free"
               /\ order[child'[e]].parent = e
    <2>1. e # c /\ child'[e] = child[e]
      BY <1>1, <1>2
    <2>2. /\ child[e] \in Contexts
          /\ at[e] = "installing dependencies"
          /\ at[child[e]] # "free"
          /\ order[child[e]].parent = e
      BY <1>2, <2>1, ChildOf
    <2> QED
      BY <1>1, <2>1, <2>2
  <1>3. ASSUME NEW e \in Contexts, NEW d \in Contexts, order[d].parent = e, ~Over(d)'
        PROVE  child'[e] = d
    <2>1. at[c] = "installing dependencies" /\ child[c] \in Contexts
      BY ChildOf
    <2>2. ~Over(d)
      BY <1>1, <1>3, <2>1 DEF Over, Ends
    <2>3. child[e] = d
      BY <1>3, <2>2, WaitedFor
    <2>4. e # c
      BY <2>2, <2>3 DEF Over
    <2> QED
      BY <1>1, <2>3, <2>4
  <1> QED
    BY <1>2, <1>3 DEF Family

LEMMA DependencyEndsStep ==
    ASSUME IInv, NEW c \in Contexts, DependencyEnds(c) PROVE IInv'
  <1>1. /\ child[c] # Nothing
        /\ child' = [child EXCEPT ![c] = Nothing]
        /\ UNCHANGED <<order, todo, look, version, extracted, packageVars, serviceVars>>
        /\ at[child[c]] \in Ends
    BY DEF DependencyEnds, Ends
  <1>2. at[c] = "installing dependencies"
    BY <1>1 DEF IInv, Family
  <1>3. /\ at[c] \in Stays /\ at[c] # "free" /\ ~Over(c)
        /\ call[c].phase = "idle"
        /\ disk[c] \in SUBSET {"download", "build"}
    BY <1>2, SoloStep DEF Stays, Steps, InstallSteps
  <1>4. RestOK' /\ child' \in [Contexts -> Contexts \union {Nothing}]
    BY <1>1 DEF IInv, TaskTypeOK, RestOK, Looks, Stages, packageVars, serviceVars
  <1>5. CASE UNCHANGED handlerVars
    <2>1. at' = [at EXCEPT ![c] = at[c]]
      BY <1>5 DEF IInv, TaskTypeOK, handlerVars
    <2>2. Family'
      BY <1>1, <1>3, <2>1, FamilyLeaves
    <2>3. \A d \in Contexts : ContextOK(d)'
      BY <1>1, <1>5, Untouched DEF IInv, handlerVars, serviceVars
    <2>4. TaskTypeOK'
      BY <1>1, <1>4, <1>5 DEF IInv, TaskTypeOK, RestOK, Looks, Stages, handlerVars
    <2> QED
      BY <2>2, <2>3, <2>4 DEF IInv
  <1>6. CASE Handle(c, "other")
    <2>1. /\ \A d \in Contexts : ContextOK(d)'
          /\ at' = [at EXCEPT ![c] = "handling"]
          /\ HandlerTypes'
      BY <1>1, <1>3, <1>6, HandleOK DEF IInv, Handle, serviceVars
    <2>2. Family'
      BY <1>1, <2>1, FamilyLeaves
    <2>3. TaskTypeOK'
      BY <1>1, <1>4, <2>1 DEF IInv, TaskTypeOK, HandlerTypes, RestOK, Looks, Stages
    <2> QED
      BY <2>1, <2>2, <2>3 DEF IInv
  <1>7. CASE Goto(c, "exited")
    <2>1. "exited" \notin Built \union Unbuilt
      BY DEF Built, Unbuilt
    <2>2. \A d \in Contexts : ContextOK(d)'
      BY <1>1, <1>3, <1>7, <2>1, MoveOK DEF IInv, Goto, serviceVars
    <2>3. Family'
      BY <1>1, <1>7, FamilyLeaves DEF Goto
    <2>4. TaskTypeOK'
      BY <1>1, <1>4, <1>7 DEF IInv, TaskTypeOK, RestOK, Looks, Stages, Goto, Ends
    <2> QED
      BY <2>2, <2>3, <2>4 DEF IInv
  <1> QED
    BY <1>5, <1>6, <1>7 DEF DependencyEnds

-----------------------------------------------------------------------------
(* The inductive invariant.                                                 *)

LEMMA IInit ==
    ASSUME Init PROVE IInv
  <1>1. TaskTypeOK
    BY PluginTasksAssumption DEF Init, TaskTypeOK, NoOrder, NoLook, Service!NoCall
  <1>2. Family
    BY PluginTasksAssumption DEF Init, Family, NoOrder
  <1>3. \A c \in Contexts : ContextOK(c)
    BY DEF Init, ContextOK, Telling, Directories, InTheCall, Built, Unbuilt,
           Service!NoCall
  <1> QED
    BY <1>1, <1>2, <1>3 DEF IInv

LEMMA StepOK ==
    ASSUME IInv, [Next]_taskVars PROVE IInv'
  <1>1. ASSUME NEW c \in Contexts, TaskStep(c) PROVE IInv'
    BY <1>1, PublishFailsStep, PlainStep, DownloadStep, LookUpStep, MarkStep,
       ChooseStep, ExtractStep, ValidateStep, InstallDependencyStep,
       DependencyEndsStep, BuildPackageStep, AskStep, AnsweredStep, ExitsStep,
       CleanStep, CompleteStep, HandlerCleansStep, HandlerTellsStep DEF TaskStep
  <1>2. ASSUME NEW c \in Contexts, ServiceStep(c) PROVE IInv'
    BY <1>2, BeginCommandStep, WorkStep, FinishCommandStep, RefusedStep DEF ServiceStep
  <1>3. CASE UNCHANGED taskVars
    <2>1. UNCHANGED <<contextVars, handlerVars, packageVars, serviceVars>>
      BY <1>3 DEF taskVars
    <2>2. TaskTypeOK'
      BY <2>1 DEF IInv, TaskTypeOK, contextVars, handlerVars, packageVars, serviceVars
    <2>3. Family'
      BY <2>1 DEF IInv, Family, Over, contextVars, handlerVars
    <2>4. \A c \in Contexts : ContextOK(c)'
      BY <2>1, Untouched DEF IInv, contextVars, handlerVars, serviceVars
    <2> QED
      BY <2>2, <2>3, <2>4 DEF IInv
  <1> QED
    BY <1>1, <1>2, <1>3, SubmitStep, WorkerDiesStep DEF Next

(* IInv holds in every state of every behaviour.                            *)
THEOREM TasksInductive == Spec => []IInv
  <1>1. Init => IInv
    BY IInit
  <1>2. IInv /\ [Next]_taskVars => IInv'
    BY StepOK
  <1> QED
    BY <1>1, <1>2, PTL DEF Spec

-----------------------------------------------------------------------------

(* Every variable of tasks.py's model keeps its type, whatever plugins,     *)
(* dependencies, market, requests and faults there are.                     *)
THEOREM TasksTypeCorrect == Spec => []TaskTypeOK
  <1>1. IInv => TaskTypeOK
    BY DEF IInv
  <1> QED
    BY <1>1, TasksInductive, PTL

(* No request ever gets two verdicts, a task that returns has published     *)
(* one, and it speaks only when all it nested is over.  After "completed"   *)
(* it does nothing more, and after an error it cleans at most: the steps    *)
(* and the except clauses, statement by statement, of                       *)
(* _package_and_install_impl and _uninstall_and_publish.                    *)
THEOREM AnswersAreFinalHolds == Spec => []AnswersAreFinal
  <1>1. ASSUME IInv, NEW c \in Contexts
        PROVE  /\ Len(told[c]) <= 1
               /\ at[c] = "returned" => told[c] # <<>>
               /\ told[c] # <<>> =>
                     /\ Over(c) \/ (at[c] = "handling" /\ clause[c] = <<"clean">>)
                     /\ told[c] = <<"completed">> => Over(c)
                     /\ \A d \in Contexts : order[d].parent = c => Over(d)
    <2>1. Telling(c)
      BY <1>1 DEF IInv, ContextOK
    <2>2. Len(told[c]) <= 1
      <3>1. CASE told[c] = <<>>
        BY <3>1
      <3>2. CASE told[c] = <<"completed">>
        BY <3>2
      <3>3. CASE told[c] = <<"error">>
        BY <3>3
      <3> QED
        BY <2>1, <3>1, <3>2, <3>3 DEF Telling
    <2>3. at[c] = "returned" => told[c] # <<>>
      BY <2>1 DEF Telling
    <2>4. told[c] # <<>> =>
             /\ Over(c) \/ (at[c] = "handling" /\ clause[c] = <<"clean">>)
             /\ told[c] = <<"completed">> => Over(c)
      <3>1. at[c] \in Places
        BY <1>1 DEF IInv, TaskTypeOK, Places
      <3> QED
        BY <2>1, <3>1 DEF Telling, Over, Places, Stays, Between
    <2>5. ASSUME told[c] # <<>>, NEW d \in Contexts, order[d].parent = c PROVE Over(d)
      <3>1. SUFFICES ASSUME ~Over(d) PROVE FALSE
        OBVIOUS
      <3>2. child[c] = d
        BY <1>1, <2>5, <3>1, WaitedFor
      <3>3. at[c] = "installing dependencies"
        BY <1>1, <3>2, ChildOf, PluginTasksAssumption
      <3> QED
        BY <2>1, <2>5, <3>3 DEF Telling, Stays, Steps, InstallSteps
    <2> QED
      BY <2>2, <2>3, <2>4, <2>5
  <1>2. IInv => AnswersAreFinal
    BY <1>1 DEF AnswersAreFinal
  <1> QED
    BY <1>2, TasksInductive, PTL

(* No interleaving of tasks removes the build directory, with the .deb file *)
(* in it, under an install command that is on its way or running.           *)
THEOREM PackageKeptHolds == Spec => []PackageKept
  <1>1. ASSUME IInv, NEW c \in Contexts,
               call[c].phase \in {"waiting", "running"},
               call[c].cmd.name = "install"
        PROVE  "build" \in disk[c]
    <2>1. at[c] \in {"updating", "installing", "removing"} /\ call[c].cmd = RootCommand(c)
      BY <1>1, OpenCall
    <2>2. at[c] = "installing"
      BY <1>1, <2>1 DEF RootCommand
    <2>3. Directories(c)
      BY <1>1 DEF IInv, ContextOK
    <2> QED
      BY <2>2, <2>3 DEF Directories, Built
  <1>2. IInv => PackageKept
    BY <1>1 DEF PackageKept
  <1> QED
    BY <1>2, TasksInductive, PTL

(* Nobody is told "completed" before the build directory is gone, whichever *)
(* way the task came to its end.                                            *)
THEOREM CompletedIsCleanHolds == Spec => []CompletedIsClean
  <1>1. IInv => CompletedIsClean
    BY DEF IInv, ContextOK, Directories, CompletedIsClean
  <1> QED
    BY <1>1, TasksInductive, PTL

-----------------------------------------------------------------------------
(* PluginTasks implements TaskStories.                                      *)

StoryMap == [c \in Contexts |-> Story(c)]
UnderMap == [c \in Contexts |-> order[c].parent]

LEMMA StoryOf ==
    ASSUME IInv, NEW c \in Contexts
    PROVE  /\ at[c] = "free" => Story(c) = "none"
           /\ at[c] # "free" /\ told[c] = <<>> /\ ~Over(c) => Story(c) = "open"
           /\ told[c] # <<>> \/ Over(c) => Story(c) \in {"completed", "error", "lost"}
  <1>1. /\ told[c] \in {<<>>, <<"completed">>, <<"error">>}
        /\ at[c] = "free" => told[c] = <<>>
    BY DEF IInv, ContextOK, Telling
  <1>2. Over(c) => at[c] # "free"
    BY DEF Over, Ends
  <1>3. CASE told[c] = <<>>
    BY <1>1, <1>2, <1>3 DEF Story
  <1>4. CASE told[c] = <<"completed">>
    BY <1>1, <1>4, Verdicts DEF Story
  <1>5. CASE told[c] = <<"error">>
    BY <1>1, <1>5, Verdicts DEF Story
  <1> QED
    BY <1>1, <1>3, <1>4, <1>5

(* What is open under c is the nested install c waits for.                  *)
LEMMA OpenUnder ==
    ASSUME IInv, NEW c \in Contexts, NEW d \in Contexts,
           order[d].parent = c, Story(d) = "open"
    PROVE  child[c] = d /\ ~Over(d)
  <1>1. ~Over(d)
    BY StoryOf
  <1> QED
    BY <1>1, WaitedFor

(* A step of one task goes on with its story or closes it.                  *)
LEMMA OneStory ==
    ASSUME IInv, IInv', NEW c \in Contexts, at[c] # "free", ~Over(c),
           told[c] = <<>>, order' = order, at'[c] # "free",
           \A d \in Contexts \ {c} : at'[d] = at[d] /\ told'[d] = told[d],
           Over(c)' \/ told'[c] # <<>> => child[c] = Nothing \/ Over(child[c])
    PROVE  [Stories!Next]_(Stories!storyVars)
  <1>1. \A d \in Contexts \ {c} : Story(d)' = Story(d)
    BY DEF Story, Over
  <1>2. Story(c) = "open" /\ UnderMap' = UnderMap
    BY StoryOf DEF UnderMap
  <1>3. StoryMap' = [StoryMap EXCEPT ![c] = Story(c)']
    BY <1>1 DEF StoryMap
  <1>4. CASE ~Over(c)' /\ told'[c] = <<>>
    <2>1. Story(c)' = "open"
      BY <1>4 DEF Story
    <2>2. StoryMap' = StoryMap
      BY <1>1, <1>2, <2>1 DEF StoryMap
    <2> QED
      BY <1>2, <2>2 DEF Stories!storyVars, StoryMap, UnderMap
  <1>5. CASE Over(c)' \/ told'[c] # <<>>
    <2>1. told'[c] \in {<<>>, <<"completed">>, <<"error">>}
      BY DEF IInv, ContextOK, Telling
    <2>2. told'[c] = <<>> => Story(c)' = "lost"
      BY <1>5 DEF Story
    <2>3. Story(c)' \in {"completed", "error", "lost"}
      <3>1. CASE told'[c] = <<>>
        BY <2>2, <3>1
      <3>2. CASE told'[c] = <<"completed">>
        BY <3>2, Verdicts DEF Story
      <3>3. CASE told'[c] = <<"error">>
        BY <3>3, Verdicts DEF Story
      <3> QED
        BY <2>1, <3>1, <3>2, <3>3
    <2>4. ASSUME NEW d \in Contexts, order[d].parent = c PROVE Story(d) # "open"
      BY <1>5, <2>4, OpenUnder, PluginTasksAssumption
    <2>5. Stories!NothingOpenUnder(c)
      BY <2>4 DEF Stories!NothingOpenUnder
    <2>6. Stories!Close(c, Story(c)')
      BY <1>2, <1>3, <2>5 DEF Stories!Close, StoryMap, UnderMap
    <2> QED
      BY <2>3, <2>6 DEF Stories!Next, Stories!Verdicts
  <1> QED
    BY <1>4, <1>5

(* What comes after the verdict concerns nobody.                            *)
LEMMA SameStory ==
    ASSUME NEW c \in Contexts, at[c] # "free", at'[c] # "free", told[c] # <<>>,
           order' = order, told' = told,
           \A d \in Contexts \ {c} : at'[d] = at[d]
    PROVE  UNCHANGED (Stories!storyVars)
  <1>1. \A d \in Contexts : Story(d)' = Story(d)
    BY DEF Story, Over
  <1> QED
    BY <1>1 DEF Stories!storyVars

(* A Context that is made opens a story, under its parent's if it has one.  *)
LEMMA NewStory ==
    ASSUME IInv, NEW c \in Contexts, at[c] = "free",
           NEW r \in Requests, NEW place \in {"queued", "starting"},
           order' = [order EXCEPT ![c] = r],
           at' = [at EXCEPT ![c] = place], told' = told,
           r.parent # Nothing =>
               /\ r.parent \in Contexts
               /\ at[r.parent] = "installing dependencies"
               /\ child[r.parent] = Nothing
    PROVE  Stories!Next
  <1>1. /\ at'[c] = place /\ order'[c] = r
        /\ \A d \in Contexts \ {c} : at'[d] = at[d] /\ order'[d] = order[d]
    BY DEF IInv, TaskTypeOK
  <1>2. \A d \in Contexts \ {c} : Story(d)' = Story(d)
    BY <1>1 DEF Story, Over
  <1>3. Story(c) = "none" /\ Story(c)' = "open"
    <2>1. told[c] = <<>>
      BY DEF IInv, ContextOK, Telling
    <2> QED
      BY <1>1, <2>1 DEF Story, Over, Ends
  <1>4. StoryMap' = [StoryMap EXCEPT ![c] = "open"]
    BY <1>2, <1>3 DEF StoryMap
  <1>5. UnderMap' = [UnderMap EXCEPT ![c] = r.parent]
    <2>1. order'[c].parent = r.parent
      BY <1>1
    <2>2. ASSUME NEW d \in Contexts \ {c} PROVE order'[d].parent = order[d].parent
      BY <1>1, Zenon
    <2> QED
      BY <2>1, <2>2 DEF UnderMap
  <1>6. r.parent \in Contexts \union {Nothing}
    BY DEF Requests
  <1>7. ASSUME r.parent # Nothing
        PROVE  Story(r.parent) = "open" /\ Stories!NothingOpenUnder(r.parent)
    <2>1. Story(r.parent) = "open"
      <3>1. told[r.parent] = <<>>
        BY <1>7 DEF IInv, ContextOK, Telling, Stays, Steps, InstallSteps
      <3> QED
        BY <1>7, <3>1 DEF Story, Over, Ends
    <2>2. ASSUME NEW d \in Contexts, order[d].parent = r.parent PROVE Story(d) # "open"
      BY <1>7, <2>2, OpenUnder, PluginTasksAssumption
    <2> QED
      BY <2>1, <2>2 DEF Stories!NothingOpenUnder
  <1>8. Stories!Open(c, r.parent)
    BY <1>3, <1>4, <1>5, <1>6, <1>7 DEF Stories!Open, StoryMap, UnderMap
  <1> QED
    BY <1>6, <1>8 DEF Stories!Next

(* What an except clause does to the other tasks: nothing.                  *)
LEMMA HandleOne ==
    ASSUME TaskTypeOK, NEW c \in Contexts, NEW error, NEW left,
           HandleLeaving(c, error, left)
    PROVE  /\ at'[c] = "handling" /\ told' = told
           /\ \A d \in Contexts \ {c} : at'[d] = at[d]
  BY DEF HandleLeaving, TaskTypeOK

LEMMA TaskStories ==
    ASSUME IInv, IInv', NEW c \in Contexts, TaskStep(c)
    PROVE  [Stories!Next]_(Stories!storyVars)
  <1>1. CASE \E d \in Contexts : InstallDependency(c, d)
    <2>1. PICK d \in Contexts : InstallDependency(c, d)
      BY <1>1
    <2>2. Head(todo[c]) \in Dependencies
      <3>1. todo[c] \in Seq(Dependencies) /\ todo[c] # <<>>
        BY <2>1 DEF InstallDependency, IInv, TaskTypeOK
      <3> QED
        BY <3>1, HeadTailProperties
    <2> DEFINE r == [kind |-> "install", method |-> "market",
                     plugin |-> Head(todo[c]).plugin,
                     version |-> Head(todo[c]).version,
                     reinstall |-> FALSE, subdirectory |-> FALSE, parent |-> c]
    <2>3. r \in Requests /\ r.parent = c
      BY <2>2 DEF Requests, Dependencies
    <2>4. /\ at[d] = "free" /\ order' = [order EXCEPT ![d] = r]
          /\ at' = [at EXCEPT ![d] = "starting"] /\ told' = told
          /\ at[c] = "installing dependencies" /\ child[c] = Nothing
      BY <2>1 DEF InstallDependency, Fresh, Goto
    <2> HIDE DEF r
    <2> QED
      BY <2>3, <2>4, NewStory
  <1>2. CASE DependencyEnds(c)
    <2>1. child[c] # Nothing /\ Over(child[c]) /\ order' = order
      BY <1>2 DEF DependencyEnds, Over, Ends
    <2>2. /\ at[c] = "installing dependencies"
          /\ at[c] # "free" /\ ~Over(c) /\ told[c] = <<>>
      <3>1. at[c] = "installing dependencies"
        BY <2>1, ChildOf
      <3> QED
        BY <3>1, SoloStep DEF Stays, Steps, InstallSteps
    <2>3. /\ at'[c] # "free"
          /\ \A d \in Contexts \ {c} : at'[d] = at[d] /\ told'[d] = told[d]
      <3>1. CASE UNCHANGED handlerVars
        BY <2>2, <3>1 DEF handlerVars
      <3>2. CASE Handle(c, "other")
        BY <3>2, HandleOne DEF Handle, IInv
      <3>3. CASE Goto(c, "exited")
        BY <3>3 DEF Goto, IInv, TaskTypeOK
      <3> QED
        BY <1>2, <3>1, <3>2, <3>3 DEF DependencyEnds
    <2> QED
      BY <2>1, <2>2, <2>3, OneStory
  <1>3. CASE Ask(c) \/ Mark(c)
    <2>1. UNCHANGED <<order, at, told>>
      BY <1>3 DEF Ask, Mark, contextVars, handlerVars
    <2> QED
      BY <2>1 DEF Stories!storyVars, Story, Over
  <1>4. ASSUME NEW place, at' = [at EXCEPT ![c] = place], place # "free",
               \A d \in Contexts \ {c} : told'[d] = told[d]
        PROVE  at'[c] # "free" /\ \A d \in Contexts \ {c} : at'[d] = at[d]
    BY <1>4 DEF IInv, TaskTypeOK
  <1>5. ASSUME at[c] \in Stays, child[c] = Nothing, order' = order,
               \/ \E error, left : HandleLeaving(c, error, left)
               \/ \E place : /\ at' = [at EXCEPT ![c] = place] /\ place # "free"
                             /\ \A d \in Contexts \ {c} : told'[d] = told[d]
        PROVE  [Stories!Next]_(Stories!storyVars)
    BY <1>4, <1>5, HandleOne, SoloStep, OneStory DEF IInv
  <1>6. CASE PublishFails(c)
    BY <1>5, <1>6 DEF PublishFails, Fails, Handle, Stays, contextVars
  <1>7. CASE Execute(c) \/ Starting(c) \/ DependenciesDone(c) \/ SkipUpdate(c)
    <2>1. at[c] \in Stays /\ child[c] = Nothing
      BY <1>7, SoloStep DEF Execute, Starting, DependenciesDone, SkipUpdate,
                            Stays, Steps, InstallSteps
    <2> QED
      BY <1>5, <1>7, <2>1 DEF Execute, Starting, DependenciesDone, SkipUpdate,
                              Goto, contextVars
  <1>8. CASE Download(c) \/ LookUp(c) \/ Choose(c)
    <2>1. at[c] \in Stays /\ child[c] = Nothing /\ order' = order
      BY <1>8, SoloStep DEF Download, LookUp, Choose, Stays, Steps, InstallSteps
    <2> QED
      BY <1>5, <1>8, <2>1 DEF Download, LookUp, Choose, Fetch, Fails, Handle, Goto
  <1>9. CASE Extract(c) \/ Validate(c)
    <2>1. at[c] \in Stays /\ child[c] = Nothing /\ order' = order
      BY <1>9, SoloStep DEF Extract, Validate, Stays, Steps, InstallSteps
    <2> QED
      BY <1>5, <1>9, <2>1 DEF Extract, Validate, Fails, Handle, Goto
  <1>10. CASE Build(c) \/ Package(c) \/ Clean(c) \/ Complete(c)
    <2>1. at[c] \in Stays /\ child[c] = Nothing /\ order' = order
      BY <1>10, SoloStep DEF Build, Package, Clean, Complete, Stays, Steps,
                             InstallSteps, contextVars
    <2>2. CASE Build(c) \/ Package(c) \/ Clean(c)
      BY <1>5, <2>1, <2>2 DEF Build, Package, Clean, Fails, Handle, Goto
    <2>3. CASE Complete(c)
      <3>1. at' = [at EXCEPT ![c] = "returned"] /\ \A d \in Contexts \ {c} : told'[d] = told[d]
        BY <2>3 DEF Complete, IInv, TaskTypeOK
      <3> QED
        BY <1>5, <2>1, <3>1
    <2> QED
      BY <1>10, <2>2, <2>3
  <1>11. CASE Answered(c) \/ Exits(c)
    <2>1. call[c].phase # "idle" /\ order' = order
      BY <1>11 DEF Answered, Exits, Service!Return, Service!Forget, contextVars
    <2>2. at[c] \in Stays /\ child[c] = Nothing
      BY <2>1, OpenCall
    <2> QED
      BY <1>5, <1>11, <2>1, <2>2 DEF Answered, Exits, Handle, Goto
  <1>12. CASE HandlerCleans(c) \/ HandlerTells(c)
    <2>1. /\ at[c] = "handling" /\ order' = order
          /\ ~Over(c) /\ at[c] # "free" /\ child[c] = Nothing
      <3>1. at[c] = "handling" /\ order' = order
        BY <1>12 DEF HandlerCleans, HandlerTells, contextVars
      <3> QED
        BY <3>1, InTheClause
    <2>2. /\ at'[c] # "free"
          /\ \A d \in Contexts \ {c} : at'[d] = at[d] /\ told'[d] = told[d]
      <3>1. \E place \in {"returned", "handling", "escaped"} : at' = [at EXCEPT ![c] = place]
        BY <1>12 DEF HandlerCleans, HandlerTells, Proceed, Escape
      <3>2. \A d \in Contexts \ {c} : told'[d] = told[d]
        BY <1>12 DEF HandlerCleans, HandlerTells, Escape, IInv, TaskTypeOK
      <3> QED
        BY <3>1, <3>2 DEF IInv, TaskTypeOK
    <2>3. CASE told[c] = <<>>
      BY <2>1, <2>2, <2>3, OneStory
    <2>4. CASE told[c] # <<>>
      <3>1. clause[c] = <<"clean">>
        BY <2>1, <2>4, InTheClause
      <3>2. Head(clause[c]) = "clean"
        BY <3>1
      <3>3. told' = told
        BY <1>12, <3>2 DEF HandlerCleans, HandlerTells, Escape
      <3> QED
        BY <2>1, <2>2, <2>4, <3>3, SameStory
    <2> QED
      BY <2>3, <2>4
  <1> QED
    BY <1>1, <1>2, <1>3, <1>6, <1>7, <1>8, <1>9, <1>10, <1>11, <1>12 DEF TaskStep

(* To the subscribers of the bus the tasks are stories that open and close  *)
(* once, nested as the installs are: every step of tasks.py, with whatever  *)
(* fails in it, opens one, closes one, or goes on inside one.               *)
THEOREM StoriesRefinement == Spec => ImplementsStories
  <1>1. ASSUME Init PROVE Stories!Init
    <2>1. IInv
      BY <1>1, IInit
    <2>2. \A c \in Contexts : Story(c) = "none" /\ order[c].parent = Nothing
      BY <1>1, <2>1, StoryOf DEF Init, NoOrder
    <2> QED
      BY <2>2 DEF Stories!Init
  <1>2. ASSUME IInv, IInv', [Next]_taskVars PROVE [Stories!Next]_(Stories!storyVars)
    <2>1. CASE \E c \in Contexts : TaskStep(c)
      BY <1>2, <2>1, TaskStories
    <2>2. CASE \E c \in Contexts, o \in Orders : Submit(c, o)
      <3>1. PICK c \in Contexts, o \in Orders : Submit(c, o)
        BY <2>2
      <3>2. o \in Requests /\ o.parent = Nothing
        BY PluginTasksAssumption
      <3>3. /\ at[c] = "free" /\ order' = [order EXCEPT ![c] = o]
            /\ at' = [at EXCEPT ![c] = "queued"] /\ told' = told
        BY <3>1 DEF Submit, Fresh, Goto
      <3> QED
        BY <1>2, <3>2, <3>3, NewStory
    <2>3. CASE \/ UNCHANGED taskVars
               \/ WorkerDies
               \/ \E c \in Contexts : ServiceStep(c)
      <3>1. UNCHANGED <<order, at, told>>
        BY <2>3 DEF taskVars, WorkerDies, ServiceStep, BeginCommand, Work, Unpack,
                    Configure, RemovePackage, FinishCommand, Refused, contextVars,
                    handlerVars
      <3> QED
        BY <3>1 DEF Stories!storyVars, Story, Over
    <2> QED
      BY <1>2, <2>1, <2>2, <2>3 DEF Next
  <1> QED
    BY <1>1, <1>2, TasksInductive, PTL DEF Spec, ImplementsStories, Stories!Spec

=============================================================================
