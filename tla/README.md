# wazo-plugind in TLA+

Models, model-checking runs and proofs for wazo-plugind, the service that installs and removes the plugins of a
Wazo server. Paths below are relative to the repository (`wazo_plugind/...`); module names are files here.

    tlc -workers 2 -config MCRootWorkerSafety.cfg MCRootWorker     # one run
    tlapm RootWorkerProofs.tla                                     # one module's proofs

## 1. The system

wazo-plugind is one main process, with an HTTP server and ten executor threads, and one child process that keeps
root's rights.

| part | state it keeps | operations | talks to |
|---|---|---|---|
| root worker (`root_worker.py`) | the child process, two multiprocessing queues, an Event, a lock | `run`, `stop`, `send_cmd_and_wait`; the child's `_run` loop | called by tasks; signals the main process when the child is dead |
| controller (`controller.py`, `bin/main.py`) | the server, the executor, `_stopping_thread`, signal handlers | start, `run`, `stop`, shutdown | owns the worker and the executor |
| service (`service.py`) | the cached Wazo version | `create`, `delete`, listings | submits tasks to the executor |
| tasks (`tasks.py`, `download.py`, `helpers/validator.py`, `context.py`) | a `Context` per request, a clone and a build directory named after it | eleven install steps, three uninstall steps, five except clauses, nested installs of dependencies | root worker, bus, market, installed packages |
| installed plugins and market (`db.py`, `helpers/version.py`) | dpkg's packages and their metadata files; the market's list | `is_installed`, upgradable mark, list, filter, sort, page | read by the API and by the tasks |
| package generation (`debian.py`) | files under the build directory | `generate` | called by a task |
| HTTP API (`http.py`, `schema.py`) | the master tenant | resources | service |
| bus (`bus.py`) | a connection | progress and error events | subscribers |

What is hard in it:

* threads share one pair of queues without request identifiers, under a lock, with a liveness test outside it;
* the worker can die at any point, and tells nobody;
* the program is taken down by signals that may come twice, early, or from one of its own threads;
* tasks run at the same time on the same packages: what one read is stale when it acts on it;
* an except clause publishes and cleans, in different orders, and either may itself raise, inside an install that is
  nested in another, while other tasks and the worker go on between its two statements;
* commands fail halfway: a package can be unpacked and not configured, and a removal is seen before it is reported.

The `hazards` of `PROJECT.json` list them one by one at the line where they bite, with the property that covers
each or the reason why none does.

What makes each part correct:

* root worker: a caller gets the result of its own command; the lock comes back; after `stop` nobody waits and
  nothing is left behind; a live worker is never reported dead;
* controller: every accepted task ends before the worker is stopped; a SIGTERM ends the program;
* installed plugins: what is listed was there, what stayed is listed, what the bus has reported done is seen;
* market listing: the items and the two counts of one answer agree, a page is the right part of the whole, what is
  offered as an upgrade is one;
* tasks: a request gets one verdict, when nothing but the removal of a directory is left to do; "completed" was true
  of the packages at a moment of the task; nothing is left on the disk but what no clause removes; the package file is
  there while root installs it; a forced reinstallation reinstalls; the stories of dependencies are told inside the
  story of the plugin that needs them.

## 2. The modules

| module | models | abstracts |
|---|---|---|
| `CommandService` | what the worker promises its callers: invoke, run one at a time, answer, or refuse | queues, lock |
| `RootWorker` | `root_worker.py` step by step; implements `CommandService` | the commands' effects |
| `RootWorkerProofs` | theorems about `RootWorker` | |
| `Controller` | `controller.py`, `main`, the stop threads, the executor, around `RootWorker`'s own actions | what a task does between its root commands |
| `ControllerProofs` | theorems about `Controller` | |
| `PluginTasks` | `tasks.py` with `download.py`, the validator, `create`/`delete`, over `CommandService` | file contents, the executor's queue |
| `TaskStories` | what the bus tells a subscriber: stories that open, nest and close with one verdict | everything a task does inside |
| `PackageHistory` | `PluginTasks` with a history variable, to say what "completed" means | |
| `PluginTasksProofs` | theorems about `PluginTasks`: types, verdicts, the package file; it implements `TaskStories` | |
| `TaskOutcomeProofs` | theorems about what a task has done and left at its end, what it asks of the worker, and its progress | |
| `PackageOutcomeProofs` | theorems about the packages, and what "completed" says of them | |
| `PackageNames` | how a plugin's Debian package is named and found back (`db.py`, `schema.py`) | the 36 characters |
| `PackageNamesProofs` | the way there and back | |
| `PluginListing` | `GET /plugins`: `PluginDB.list_`, `PackageDB`, beside the running tasks | the file's other fields |
| `PluginListingProofs` | theorems about `PluginListing` | |
| `MarketListing` | `GET /market`: `http.py`'s `Market.get`, `MarketProxy`, `MarketDB`, `MarketPluginUpdater` | the text of fields and of the search |
| `MarketListingProofs` | theorems about `MarketListing` | |
| `MCRootWorker`, `MCController`, `MCPluginTasks`, `MCPackageHistory`, `MCPluginListing`, `MCMarketListing` | constants for TLC | |

They compose in a chain: `Controller` uses `RootWorker`'s actions without its guards on callers and is shown to
implement `RootWorker`'s specification (it discharges the assumption); `RootWorker` implements `CommandService`;
`PluginTasks` is written over `CommandService`, is shown to take no other steps with the worker, and implements
`TaskStories`. `PackageHistory` adds a history to `PluginTasks`, and `PluginListing` extends it and
`PackageNames`: its readers move between the tasks' own steps. `MarketListing` stands by itself: it only reads the
packages the tasks change, and takes any change of them as possible.

### RootWorker

State: `process`, where the child is in `_run`, the two queues, the Event, the lock, and for each thread where it is
in `send_cmd_and_wait`. One action per statement that another process can observe: `CheckAlive` (line 59), `Acquire`
(66), `Put` (67), `Get` (68, which also releases the lock), `WorkerCheck` (125), `WorkerGet`/`WorkerTimeout`
(127-129), `WorkerExecute` (131), `WorkerPut` (132); `RequestStop` and `AwaitProcess` are the two halves of `stop`.
The `thread` field of queued commands and answers is history, which no guard reads: it lets `OwnAnswer` say whose
answer it was. `WorkerCrash` may lose the result the feeder thread has not written yet. A put on a closed queue would
raise; `ClosedMeansQuiet` shows that it cannot happen, so the action has no such branch.

### Controller

The main thread walks through `boot, init, armed, serving, joining, shutdown, leaving, stopping, returned, exited`.
A signal is pending until the interpreter runs the handler in the main thread, and each handler makes a stop thread.
`joined` is the stop thread `run` finds in `_stopping_thread`, the last one made. cheroot is external: `stop` does
nothing to a server that is not ready, otherwise it stops accepting and returns when its threads are done. HTTP
requests (`Posts`) go `none, handling, queued, running, done`, or `rejected` if the executor was shut down, or
`aborted` by SystemExit. A task makes up to `MaxCalls` root commands and ends at any point between them.

### PluginTasks

A `Context` is `free`, `queued`, at one of the steps, in an except clause (`handling`), or over: `returned`, `escaped`
(an exception got out) or `exited` (SystemExit). A step is an action that includes its publication; its failures are
the exceptions the code can meet there, by the clause that catches them (`command`, `already`, `validation`,
`dependency`, `other`). What the code does in several statements that others can come between is several actions:

* a clause. `Clause` gives what each does, in its order; the step that fails only starts it (`Handle`), and
  `HandlerCleans` and `HandlerTells` do one statement each. The generic clause publishes (tasks.py:129) and then cleans
  (130), those of an install found unnecessary clean (111, 119) and then publish (112, 120). Either may raise (`Escape`).
* the market's download. `LookUp` is the read of the metadata file for `installed_version` (db.py:92), each `Mark` looks
  at one of the market's versions and reads the file again if it was not there (db.py:113), and `Choose` decides, from
  what was read (`look`), what may no longer be so. `Validate` reads the file once more (validator.py:46).
* the worker's command. Between `BeginCommand` and `FinishCommand` gdebi unpacks (`Unpack`) and configures
  (`Configure`), and apt-get removes one package after the other (`RemovePackage`), all of it seen by whoever looks. They
  are processes of their own, so they may go on after the worker was killed; and a command that did its work may be
  reported as failed, when its output cannot be decoded (helpers/__init__.py:26, root_worker.py:93).

`HandleLeaving` says what the failed step had left on the disk: a clone nobody knows of when its output cannot be
decoded (`Fetch`), a build directory without `extract_path` when `plugin.yml` cannot be read (`Extract`). A nested
install is a `Context` of its own with a `parent`; the parent waits for it and continues, handles its exception, or
is ended by it. `Faults` says which parts may fail in a run, `Before` which packages there are at the start. gdebi, dpkg
and apt-get are external: refusal of a package whose dependencies are not there, removal of what depends on a package.
The metadata file, by which `is_installed` decides, exists from the unpacking on.

Not in it: what the repositories contain beyond the version and the dependencies (a git URL and the market are
assumed to agree on it), the ten-thread limit of the executor (a queued task may start at once), the parallel run of
two `create` calls before `submit` (they share no state).

### PackageHistory

What a task says at its end it knows from before: the look at the packages, the removal of the build directory and the
event are separate, and apt-get may be at work for another task all the while. "completed" can only mean that there was
a moment at which it was true. `since[c]` makes that a fact about the present state: the plugins whose metadata file
disappeared (`gone`), and whose file appeared (`came`), since the task began; and when the worker reports its own
(un)install command done, it is emptied (`Reported`), so that from then on it tells what happened since. No step of a
task reads it. `CompletedMeansInstalled` says of an install that the plugin and each of its dependencies is there or in
`gone`; for a task that ran gdebi this leaves no room for a package that was never installed, or that disappeared before
gdebi was done. `CompletedMeansRemoved` says the same of an uninstall, of what `RemovedWith` it and of `came`.

There is no counterpart for "error": an install may be reported as an error although the package is there, since the
worker's answer may be wrong about a command that did its work, and cleaning and the bus may fail after it.

### TaskStories

The other end of the bus. `Story` gives what can be concluded of a request from its events: nothing yet, going on, or
closed as completed, as error, or without a verdict (`lost`: an exception or SystemExit got out, or the bus refused the
event). In `TaskStories` a story opens once and closes once; inside an open story one other may be open at a time; and a
story closes after all it has opened. `ImplementsStories` says that the eleven steps, five clauses and nested calls of
`PluginTasks` never do anything else, whatever fails.

### PackageNames and PluginListing

A name is the sequence of its characters. `PackageName` puts prefix, name and namespace together with dashes;
`ExtractNamespaceAndName` is the regular expression of `db.py:294`, as the set of places where its last dash can match
(there is one at most, since a namespace holds no dash).

`PluginListing` has the tasks of `PackageHistory` and, for each reader, one `GET /plugins`: it asks dpkg for the section's
packages (`ListPackages`, one snapshot), then opens one metadata file per step in dpkg's order (`ReadPackage`), and does
all of that a second time to count. `known` is dpkg's database: a removed package stays in it, since `dpkg-query -W`
lists it until it is purged, and `list_` leaves it out for want of a metadata file. A package of the section that is not
a plugin's is skipped by the same clause, whose log names the plugin before it: when there was none yet the request
fails (`SkipStranger`). `meanwhile` is history for the properties: what was installed at some moment of the request
(`seen`), at all of them (`stayed`), and the tasks whose completion the bus had reported before (`waited`).

### MarketListing

One request goes `listing, updating, counting, filtering, answered`, or ends as `failed` (the market did not answer)
or `refused` (it cannot be sorted). `content` is the proxy's cache: the market's entries with the two fields `update`
writes into them, one read of the metadata file at a time (`AddInstalledVersion`, `AddUpgradable`, with `known` for
`Plugin._metadata`), while `PackageChanges` and `MarketChanges` go on. `Select` is filter and search (`Matching`: the
places in the content), sort (`Sorted`: each place goes to the number of places not after it, which is what a stable
sort does) and page (`Page`).
Matching of text is abstracted to the sets of plugins and installed versions in which the search text occurs; versions
are in one order, as numbers. Entries have unique plugins only in the instances.
`GET /market/<namespace>/<name>` is the same listing without the counts, and is not modelled apart.

## 3. The runs

| run | question | bounds |
|---|---|---|
| `worker_safety` | own answers, clean stop, no false alarms, under crashes; does RootWorker implement CommandService? | 3 threads, 2 commands, symmetric |
| `controller_safety` | do tasks end first; who can be rejected; does the program stop only when it should; does the shutdown order give RootWorker what it assumes? | 2 threads, 2 requests, 2 commands each, 2 SIGTERMs, crash |
| `controller_live` | does SIGTERM end the program, do accepted tasks end, is the lock always released, does the worker's stop return? | 2 threads, 1 SIGTERM, 1 command each, no crash |
| `controller_dead` | (violation) and when the worker was killed? | the same with crash |
| `tasks_faults` | verdicts, stories, package file, cleaning, leftovers, when anything may fail | 2 requests, 3 contexts, all faults |
| `tasks_installed` | was "completed" true of an install and of an uninstall, while each other's commands are at work; is nothing left; does a forced reinstallation from git install? | 2 requests, 4 contexts, the library there before |
| `tasks_market_reinstall` | (violation) and from the market? | 2 requests |
| `tasks_live` | is every request answered? | 2 requests, 4 contexts |
| `plugin_listing` | what does `GET /plugins` answer while tasks install and remove? | 2 requests, 3 contexts, 1 reader, a worker that may be killed, 2 plugins and a package of nobody's |
| `market_safety` | do the parts of an answer agree, and are upgrades upgrades? | 2 markets of 2 and 3 plugins, 7 queries, any changes meanwhile |
| `market_once` | (violation) is the market fetched once per request? | a market that may be empty |
| `market_limit` | (violation) is the limit the most one gets? | limits none, 1, 0 |

Why the bounds are enough. Three threads are one that holds the lock, one that waits for it and one that is between
the liveness test and the lock: the three positions that differ. Two SIGTERMs from outside, and those the threads
send, are what it takes to replace a stop thread that is still draining. Two requests are two tasks that race on one
plugin, or on a plugin and what it depends on; with four contexts both may be nesting at the same time, with three
one of them is. Two versions are an old and a new one, of which the market has the newest marked for another Wazo.
No run has a plugin with a dependency of a dependency.

In `tasks_installed` the library is there from the start, in its old version, so that its removal can fall between the
look of an install that finds it there and its "completed", and can be reported while an install waits: a package
that had to be installed first would take a request of its own. Its requests are those whose outcome depends on what is
installed. Nobody asks it for a subdirectory, and only downloads, builds and commands fail: the other faults leave
directories (`LeftBehind`, in `tasks_faults`, has them all).

In `plugin_listing` the application's name has a dash, and the package that is no plugin's sorts between the two plugins:
it comes first when only the library was ever installed, and then the request fails, and after a plugin otherwise. The
application needs the library, so that both appear in one request and a removal takes both away. Readers share nothing
with one another, so one is enough. The worker may be killed during a removal, which then goes on or stops halfway.

The market's instances have a plugin without the field to order by, one with a version for another Wazo, an offset
beyond a page and each filter alone; requests share nothing, so one at a time is enough, and nothing there is bounded.

The cfgs of `MCRootWorker`, `MCController`, `MCPluginTasks` and `MCPackageHistory` disable TLC's deadlock check because
the program really stops: the requests are finitely many, and a stopped worker or main process takes no step. What must not stop is stated as liveness.

### Fairness

`ControllerFairness`: the worker process, the main thread, the stop threads, the HTTP threads and the executor's take
their next step (operating system scheduling); a command that was put is eventually got (`SF` of `WorkerGet`: the feeder
thread flushes, and 0.1 s polling cannot miss it for ever). `threading.Lock` is not assumed to be fair. New requests,
signals from outside, failures and the death of the worker are never assumed to happen. `PluginTasks!Fairness` gives
each task its next step, and the running command (`Work`, `FinishCommand`) its own; no request, failure or death of the
worker is owed.

### Findings

* `controller_dead`: `executor.shutdown` can block for ever, against the comment at `root_worker.py:63`. The test
  before the lock protects only threads that have not put their command yet.
* `tasks_market_reinstall`: `reinstall=true` from the market publishes "completed" and reinstalls nothing, against
  `CHANGELOG.md:30` and the API's description. Only upgradable versions are candidates, and the installed version is
  not upgradable.
* `market_once`: an empty answer is taken for no answer, and the market is fetched up to three times for one request,
  against the docstring at `db.py:54`; when it fills up in between, the counts are of plugins the items do not show.
* `market_limit`: `limit=0`, which the schema admits, returns all items, against `api.yml:205`.

## 4. The proofs

Model checking covers the instances above; these hold for every value of the constants (and under the modules' named
assumptions: what type each constant has, that `Nothing` is none of the model values, and, in `PluginListing`, that no
two plugins have one name and that dpkg lists packages in some order).

`RootWorkerProofs`. The inductive invariant `IInv` is `TypeOK` with three parts. `LockHolder`: a thread is at the put
or the get exactly when it holds the lock. `InFlight`: while a thread is in the get, its command is in exactly one
place (command queue, worker, result queue, or lost with a killed worker), and otherwise every place is empty; this
is what replaces the missing request identifier. `Lifecycle`: the owner's stage bounds the process's and the callers'.
From it: `TypeCorrect`, `OwnAnswerHolds`, `ClosedMeansQuietHolds`, `NoFalseAlarmHolds`, and `Refinement`, in which
each step maps to a step of `CommandService` (`CallerSimulation`, `WorkerSimulation`) or to a stutter.

`ControllerProofs`. `CInv` relates the stage of the main thread to the worker's owner, to the server and its stop
threads, and every request to the one place it is in: queued once, or run by one thread. From it `RejectionHolds`,
`TasksEndFirstHolds` and `WorkerEnvironment`: `ControllerSpec => Spec` of `RootWorker`. `WorkerEnvironment` and
`Refinement` compose: the whole program implements `CommandService` (`ProgramServes`), and the worker's own invariants
hold in it (`ProgramAnswersItsOwn`). `StopsForAReasonHolds` is about the other way out: `send_cmd_and_wait` sends SIGTERM
when `is_alive` is false, which is also so of a worker that has left as told, or not started. `ReasonInv` counts what
may have told the main thread (`Told`: a signal from outside, or an alarm of a task), and the worker's `NoFalseAlarm`
makes an alarm the sign of a killed worker.

`PluginTasksProofs`, from `PluginTasksAssumption`, for any contexts, plugins, dependency graph (cycles
included), market and set of faults. The properties speak of how a task ends; what makes them inductive is where it is
before that. `IInv` adds to the types, for every context (`ContextOK`): what it has published, and what its clause has
still to do (`Telling`: nothing is published before a clause begins, and what is left of a clause that has spoken is at
most its clean); between extraction and cleaning it has its build directory and `extract_path`, before and after it has
none, and a clause that is about to say "completed" has removed it (`Directories`); it is in a call only at a step that
makes one, and the call's command is that step's (`InTheCall`). About two contexts (`Family`): an install that is still
going on and has a parent is the one its parent waits for, so a parent that speaks has nothing open below it. One lemma
covers all that a failing step does (`HandleOK`), one all that goes on (`MoveOK`), then there is one per action.
`TasksInductive` is `Spec => []IInv`; from it `TasksTypeCorrect`, `AnswersAreFinalHolds`, `PackageKeptHolds`,
`CompletedIsCleanHolds`.

`StoriesRefinement`, from the same invariant: `Family` and `Telling` are just what makes a step that opens or closes a
context a step of `TaskStories`; all other steps are stutters.

`TaskOutcomeProofs` is about one task's end. `StepKind` first sums up every step as a kind for the one context it moves
(`Born`, `InCall`, `Handled`, `Handling`, `Onward`, `Exited`, `Concluded`) and `Quiet` for the others, so that each
invariant need only be checked against a few kinds. `LInv` says what a task has come past: `extract_path` is set only
after extraction and a clone is then left only by a subdirectory (`Course`), nothing was asked for or nested before
validation (`Beginning`), and a task that has returned, or has only its verdict to publish, with a build directory has
failed validation (`Leaves`). From it `LeftBehindHolds`, under no further assumption. Two theorems have a premise,
because without it the code does otherwise:

| theorem | premise | otherwise |
|---|---|---|
| `NothingLeftHolds` | no fault of decoding, extraction, validation or the bus, no subdirectory | each leaves a directory on its way |
| `ReinstallRunsHolds` | reinstallations are asked for from git | the finding of `tasks_market_reinstall` |

`TasksUseService`: with the worker the tasks take only `CommandService`'s steps, so that `RootWorker`, which implements
it for any callers that keep to them, can stand in its place; two tasks never have a command running each.
`TasksGoForward` is the safety half of termination. `Track` lists the pairs of places a task may go between, none of
which leads back. Every step takes some task along it, or shortens its list of dependencies, gets its call on, its look
at the market's versions or its clause; or it takes the running command further (`PackagesGo`); and no step takes a task
back. Only the worker's death moves nothing. That no thread waits for ever is the other half, and liveness.

`PackageOutcomeProofs` is about the packages, which every task's commands change. A task makes each command once and
goes on only when it succeeded (`CommandsOK`, from `StepKind` again). `PInv`: what an installed plugin depends on is
installed (`Consistent`), since gdebi unpacks a package only when they are there and no other command runs until it is
done (`Working`), and apt-get takes with a package what needs it, those first (`RemovedWith` is closed under
dependence); this is `DependenciesStay`. `HInv`, over `HistorySpec`, carries what a task has seen to what it says:

* a task that has found a version of its plugin in the metadata file has it, and with it (`Consistent`) all it depends
  on, there or in `gone`; one that found none has, of the versions it looked at so far, passed over only such as do not
  fit (`Looked`). So an install found unnecessary was unnecessary at that moment (`UnnecessaryIsThere`), and a clause that
  is to say "completed" keeps that (`InstallKept`);
* when the worker reports an install done the package is there, and when it reports an uninstall done everything
  removed with it is away (`ReportedTruly`): from `Working`, and from what `Finished` asks of the commands' exit;
* a package that was there stays or goes into `gone`, and one that was away stays away or goes into `came`, whoever moves
  (`HistoryStays`). This is what the history variable is for: nothing else says it once another command is over.

From them `CompletedMeansInstalledHolds` and `CompletedMeansRemovedHolds`, for any faults, the death of the worker
included. Only the worker's word that a command succeeded is relied on, never that it failed.

`PackageNamesProofs`. `RoundTrip`: for every name and namespace the schema admits, `ExtractNamespaceAndName` of the
package name gives them back. The last dash is the only place the expression can match (`OneMatch`): a later one does
not exist, an earlier one would put a dash into the namespace. `PackagesDiffer` follows.

`PluginListingProofs`, for any plugins, strangers, readers and tasks, and any order of the packages. `ReadersOnlyLook`:
the tasks beside the readers are those of `PackageHistory`, with its history. `ListingInv` follows one `list_` through its snapshot: what was
found was seen and each plugin found once (`AllReal`); what stayed is found, or its package is still to come
(`NoneMissed`, with `Present \subseteq known`); and a request that failed did so before all that stayed (`FailedFirst`).
`WaitedThenListedHolds` takes these to the bus: at the beginning of a request what the awaited tasks have told is true of
the packages or of the history (`TellsTrue`, by the two theorems on "completed"), and `WaitedInv` carries it through what
the tasks and their commands do while the reader reads: what was installed stays, or its file goes and is in `gone` at
the same step, although its removal is not reported yet or never will be; what was away is not seen, or is in `came`.
`RoundTrip` ties a package to its plugin's file, also where names hold dashes.

`MarketListingProofs`, for any markets and queries. First the pure part: the order is total on places, so that `Sorted`
is a bijection that keeps ties in place (`SortIsStable`), and what `Page` and `Select` make of it. Then `MInv`: an entry
`list_` has come past is honest, as its upgradable versions are newer than the version written beside it (`Walk`), and
the answer is a selection of the content as it stays until the end of the request (`Shown`). Two theorems say how far two
of the findings go: only a market that was empty is asked again (`OnlyEmptyIsAskedAgain`), and only a limit of 0
is none (`OnlyZeroIsNoLimit`).

Every safety property that a passing run checks is a theorem here. Only model-checked is all liveness (`SigtermStops`,
`ShutdownEnds`, `AcceptedEnds`, `LockReleased`, `StopCompletes`, `Answers`), since the prover has no rules for fairness and ENABLED. The
four violations are of instances.

## 5. Not modelled

* How LooseVersion orders the text of versions, its alphabetic fallback, and the schema's `min_wazo_version` and
  `max_wazo_version`, which are compared as strings: functions of two strings with neither state nor interleaving. Versions
  are numbers in the models, and whether one fits this Wazo is part of the market's data.
* The types YAML gives a version (`1.0` is a float in the installed file and a string in the candidate's metadata).
* A second signal handler that runs between the two statements of the first (controller.py:103-104): the outer one would
  start the inner one's thread again, a RuntimeError in the main thread. `Handle` runs both statements as one step.
* An answer of `GET /market` that its own result schema refuses (http.py:130-131, an entry of the market with an invalid
  field): the request fails after the first of the three calls, and has no answer that a property could be about.
* The master tenant (`http.py:39-64`): set once by the token renewer, and requests before are refused; authentication.
* `get_plugin_metadata` and `get_from_market`: one read of one file, and the market's list with two strict filters.
* The maintainer scripts and templates, and the fixed prefix of `debian.py:45` where `db.py:261` takes the configured
  one: they are the same in every configuration the repository has.
* A dependency that has dependencies, and cycles, are admitted by `PluginTasks` and its proofs, but no run has one:
  the contexts of a run are finite, and a cycle would end at that bound instead of Python's recursion limit.
* Configuration, exceptions, service discovery (no state that changes), TLS and WSGI set-up, the marshmallow library.
