----------------------------- MODULE Controller -----------------------------
(***************************************************************************)
(* wazo_plugind/controller.py and bin/main.py around the root worker: the  *)
(* main thread starts the worker, installs the signal handlers, serves     *)
(* HTTP until a stop thread stops the server, waits for the executor and   *)
(* stops the worker.  HTTP handlers submit tasks to the executor, whose    *)
(* threads call the worker (RootWorker).                                   *)
(*                                                                         *)
(* RootWorker assumes that nobody calls the worker outside run and stop.   *)
(* This module has no such guard: ImplementsRootWorker checks that the     *)
(* order in which the program is taken down provides it.                   *)
(***************************************************************************)
EXTENDS RootWorker, FiniteSets

CONSTANTS Posts,       (* the HTTP requests that submit a task             *)
          MaxCalls,    (* bound: root commands of one task                 *)
          MaxSigterm   (* bound: SIGTERMs sent from outside                *)

ASSUME ControllerAssumption ==
    /\ Nothing \notin Posts
    /\ IsFiniteSet(Posts)
    /\ MaxCalls \in Nat
    /\ MaxSigterm \in Nat

VARIABLES
    main,           (* where the main thread is in main and Controller.run *)
    server,         (* cheroot: "new", "ready", "draining" or "stopped"    *)
    stop_threads,   (* the threads Controller.stop made, by their state    *)
    joined,         (* the index of the one run joins, 0 before that       *)
    pending,        (* a SIGTERM the main thread has not handled yet       *)
    sigterms,       (* how many came from outside                          *)
    accepting,      (* _executor takes work: shutdown was not called       *)
    backlog,        (* _executor's work queue                              *)
    work,           (* the request whose task each executor thread runs    *)
    calls,          (* the root commands that task has sent                *)
    post            (* how far each request is                             *)

mainVars == <<main, joined>>
serverVars == <<server, stop_threads>>
signalVars == <<pending, sigterms>>
executorVars == <<accepting, backlog, work, calls>>
controllerVars == <<mainVars, serverVars, signalVars, executorVars, post>>
allVars == <<vars, controllerVars>>

(* The interpreter runs signal handlers in these states.                   *)
Armed == main \in {"armed", "serving", "joining", "shutdown", "leaving",
                   "stopping", "returned"}

ControllerInit ==
    /\ Init
    /\ main = "boot"
    /\ server = "new"
    /\ stop_threads = <<>>
    /\ joined = 0
    /\ pending = FALSE
    /\ sigterms = 0
    /\ accepting = TRUE
    /\ backlog = <<>>
    /\ work = [t \in Threads |-> Nothing]
    /\ calls = [t \in Threads |-> 0]
    /\ post = [p \in Posts |-> "none"]

-----------------------------------------------------------------------------
(* The main thread.                                                        *)

(* "with RootWorker() as root_worker"                                      *)
StartWorker ==
    /\ main = "boot"
    /\ Run
    /\ main' = "init"
    /\ UNCHANGED <<joined, serverVars, signalVars, executorVars, post>>

InstallHandlers ==
    /\ main = "init"
    /\ main' = "armed"
    /\ UNCHANGED <<vars, joined, serverVars, signalVars, executorVars, post>>

(* server.start binds its socket and accepts from here on.                 *)
Serve ==
    /\ main = "armed"
    /\ main' = "serving"
    /\ server' = "ready"
    /\ UNCHANGED <<vars, joined, stop_threads, signalVars, executorVars, post>>

(* server.start raises (the port is taken).  The finally clause joins the   *)
(* stop thread, or raises itself because there was never one; either way    *)
(* executor.shutdown is skipped and the root worker's __exit__ is next.     *)
ServeFails ==
    /\ main = "armed"
    /\ stop_threads # <<>> => stop_threads[Len(stop_threads)] = "done"
    /\ main' = "leaving"
    /\ UNCHANGED <<vars, joined, serverVars, signalVars, executorVars, post>>

(* The serve loop ends when the server is not ready any more; the finally   *)
(* clause joins the stop thread it finds in _stopping_thread, the latest.   *)
LeaveServe ==
    /\ main = "serving"
    /\ server # "ready"
    /\ main' = "joining"
    /\ joined' = Len(stop_threads)
    /\ UNCHANGED <<vars, serverVars, signalVars, executorVars, post>>

(* Mutant: run does not join the stop thread.                              *)
ShutdownUnjoined ==
    /\ main = "joining"
    /\ main' = "shutdown"
    /\ accepting' = FALSE
    /\ UNCHANGED <<vars, joined, serverVars, signalVars, backlog, work, calls, post>>

(* Mutant: executor.shutdown(cancel_futures=True).                         *)
ShutdownCancels ==
    /\ main = "joining"
    /\ stop_threads[joined] = "done"
    /\ main' = "shutdown"
    /\ accepting' = FALSE
    /\ backlog' = <<>>
    /\ UNCHANGED <<vars, joined, serverVars, signalVars, work, calls, post>>

(* The join returns and executor.shutdown closes the executor.              *)
Shutdown ==
    /\ main = "joining"
    /\ stop_threads[joined] = "done"
    /\ main' = "shutdown"
    /\ accepting' = FALSE
    /\ UNCHANGED <<vars, joined, serverVars, signalVars, backlog, work, calls, post>>

(* Mutant: executor.shutdown(wait=False).                                  *)
ShutdownReturnsAtOnce ==
    /\ main = "shutdown"
    /\ main' = "leaving"
    /\ UNCHANGED <<vars, joined, serverVars, signalVars, executorVars, post>>

(* executor.shutdown returns when every task has ended.                     *)
ShutdownReturns ==
    /\ main = "shutdown"
    /\ backlog = <<>>
    /\ \A t \in Threads : work[t] = Nothing
    /\ main' = "leaving"
    /\ UNCHANGED <<vars, joined, serverVars, signalVars, executorVars, post>>

(* RootWorker.__exit__                                                      *)
StopWorker ==
    /\ main = "leaving"
    /\ RequestStop
    /\ main' = "stopping"
    /\ UNCHANGED <<joined, serverVars, signalVars, executorVars, post>>

WorkerStopped ==
    /\ main = "stopping"
    /\ AwaitProcess
    /\ main' = "returned"
    /\ UNCHANGED <<joined, serverVars, signalVars, executorVars, post>>

(* The interpreter waits for the stop threads, which are no daemons.        *)
Exit ==
    /\ main = "returned"
    /\ \A i \in 1..Len(stop_threads) : stop_threads[i] = "done"
    /\ main' = "exited"
    /\ UNCHANGED <<vars, joined, serverVars, signalVars, executorVars, post>>

-----------------------------------------------------------------------------
(* Signals.                                                                 *)

(* systemd stops the service.  It signals the worker too, which ignores it. *)
Terminate ==
    /\ sigterms < MaxSigterm
    /\ Armed \/ main = "init"
    /\ sigterms' = sigterms + 1
    /\ pending' = TRUE
    /\ UNCHANGED <<vars, mainVars, serverVars, executorVars, post>>

(* Mutant: the stop thread is made and never started.                       *)
HandleUnstarted ==
    /\ pending
    /\ Armed
    /\ pending' = FALSE
    /\ stop_threads' = Append(stop_threads, "new")
    /\ UNCHANGED <<vars, mainVars, server, sigterms, executorVars, post>>

(* _signal_handler and Controller.stop: a new stop thread replaces the one  *)
(* in _stopping_thread, which goes on.                                      *)
Handle ==
    /\ pending
    /\ Armed
    /\ pending' = FALSE
    /\ stop_threads' = Append(stop_threads, "start")
    /\ UNCHANGED <<vars, mainVars, server, sigterms, executorVars, post>>

(* Without the handlers SIGTERM ends the main process on the spot.          *)
Die ==
    /\ pending
    /\ main = "init"
    /\ main' = "killed"
    /\ UNCHANGED <<vars, joined, serverVars, signalVars, executorVars, post>>

-----------------------------------------------------------------------------
(* The stop threads: server.stop, of cheroot.                               *)

(* It does nothing to a server that is not ready.                           *)
StopServer(i) ==
    /\ i \in 1..Len(stop_threads)
    /\ stop_threads[i] = "start"
    /\ IF server = "ready"
       THEN /\ server' = "draining"
            /\ stop_threads' = [stop_threads EXCEPT ![i] = "drain"]
       ELSE /\ stop_threads' = [stop_threads EXCEPT ![i] = "done"]
            /\ UNCHANGED server
    /\ UNCHANGED <<vars, mainVars, signalVars, executorVars, post>>

(* It returns when the HTTP threads have finished what they were doing.     *)
ServerDrained(i) ==
    /\ i \in 1..Len(stop_threads)
    /\ stop_threads[i] = "drain"
    /\ \A p \in Posts : post[p] # "handling"
    /\ server' = "stopped"
    /\ stop_threads' = [stop_threads EXCEPT ![i] = "done"]
    /\ UNCHANGED <<vars, mainVars, signalVars, executorVars, post>>

-----------------------------------------------------------------------------
(* The HTTP threads and the executor.                                       *)

Accept(p) ==
    /\ server = "ready"
    /\ post[p] = "none"
    /\ post' = [post EXCEPT ![p] = "handling"]
    /\ UNCHANGED <<vars, mainVars, serverVars, signalVars, executorVars>>

(* PluginService.create and delete: the executor refuses work after         *)
(* shutdown, and the request fails.                                         *)
Submit(p) ==
    /\ post[p] = "handling"
    /\ IF accepting
       THEN /\ backlog' = Append(backlog, p)
            /\ post' = [post EXCEPT ![p] = "queued"]
       ELSE /\ post' = [post EXCEPT ![p] = "rejected"]
            /\ UNCHANGED backlog
    /\ UNCHANGED <<vars, mainVars, serverVars, signalVars, accepting, work, calls>>

Begin(t) ==
    /\ work[t] = Nothing
    /\ backlog # <<>>
    /\ work' = [work EXCEPT ![t] = Head(backlog)]
    /\ backlog' = Tail(backlog)
    /\ post' = [post EXCEPT ![Head(backlog)] = "running"]
    /\ UNCHANGED <<vars, mainVars, serverVars, signalVars, accepting, calls>>

TaskCalls(t) ==
    /\ work[t] # Nothing
    /\ calls[t] < MaxCalls
    /\ \E c \in Commands : Call(t, c)
    /\ calls' = [calls EXCEPT ![t] = @ + 1]
    /\ UNCHANGED <<mainVars, serverVars, signalVars, accepting, backlog, work, post>>

(* A step of a call; the one that finds the worker dead signals the main    *)
(* process.                                                                 *)
TaskInCall(t) ==
    /\ CheckAlive(t) \/ Acquire(t) \/ Put(t) \/ Get(t)
    /\ pending' = (pending \/ at'[t] = "raised")
    /\ UNCHANGED <<mainVars, serverVars, sigterms, executorVars, post>>

EndTask(t, outcome) ==
    /\ work' = [work EXCEPT ![t] = Nothing]
    /\ calls' = [calls EXCEPT ![t] = 0]
    /\ post' = [post EXCEPT ![work[t]] = outcome]
    /\ UNCHANGED <<mainVars, serverVars, signalVars, accepting, backlog>>

TaskEnds(t) ==
    /\ work[t] # Nothing
    /\ at[t] = "idle"
    /\ EndTask(t, "done")
    /\ UNCHANGED vars

(* SystemExit ends the task, not the thread.                                *)
TaskAborts(t) ==
    /\ Forget(t)
    /\ EndTask(t, "aborted")

WorkerRuns ==
    /\ WorkerStep
    /\ UNCHANGED controllerVars

WorkerDies ==
    /\ WorkerCrash
    /\ UNCHANGED controllerVars

-----------------------------------------------------------------------------

MainStep ==
    \/ StartWorker
    \/ InstallHandlers
    \/ Serve
    \/ LeaveServe
    \/ Shutdown
    \/ ShutdownReturns
    \/ StopWorker
    \/ WorkerStopped
    \/ Exit

TaskStep(t) ==
    \/ Begin(t)
    \/ TaskCalls(t)
    \/ TaskInCall(t)
    \/ TaskEnds(t)
    \/ TaskAborts(t)

StopStep(i) == StopServer(i) \/ ServerDrained(i)

ControllerNext ==
    \/ MainStep
    \/ ServeFails
    \/ Terminate
    \/ Handle
    \/ Die
    \/ \E i \in 1..Len(stop_threads) : StopStep(i)
    \/ \E p \in Posts : Accept(p) \/ Submit(p)
    \/ \E t \in Threads : TaskStep(t)
    \/ WorkerRuns
    \/ WorkerDies

ControllerSpec == ControllerInit /\ [][ControllerNext]_allVars

(* The most stop threads there can be: a SIGTERM from outside makes one, a  *)
(* task that finds the worker dead makes one.                               *)
MaxStops == MaxSigterm + Cardinality(Posts)

(* Every thread of the program runs, its lock and its queues wake those who *)
(* wait, and the feeder thread of the command queue flushes, so a command   *)
(* is not missed for ever.  The lock is not assumed to be fair: one waiter  *)
(* may wait for ever, the lock may not.  New requests, signals from         *)
(* outside, a failing server.start and the death of the worker are never    *)
(* owed.                                                                    *)
ControllerFairness ==
    /\ WF_allVars(MainStep)
    /\ WF_allVars(Handle \/ Die)
    /\ \A i \in 1..MaxStops : WF_allVars(StopStep(i))
    /\ \A p \in Posts : WF_allVars(Submit(p))
    /\ \A t \in Threads : WF_allVars(TaskStep(t))
    /\ WF_allVars(WorkerRuns)
    /\ SF_allVars(WorkerGet /\ UNCHANGED controllerVars)

FairControllerSpec == ControllerSpec /\ ControllerFairness

-----------------------------------------------------------------------------
(* Properties.                                                              *)

ControllerTypeOK ==
    /\ main \in {"boot", "init", "armed", "serving", "joining", "shutdown",
                  "leaving", "stopping", "returned", "exited", "killed"}
    /\ server \in {"new", "ready", "draining", "stopped"}
    /\ stop_threads \in Seq({"start", "drain", "done"})
    /\ joined \in Nat
    /\ pending \in BOOLEAN
    /\ sigterms \in 0..MaxSigterm
    /\ accepting \in BOOLEAN
    /\ backlog \in Seq(Posts)
    /\ work \in [Threads -> Posts \union {Nothing}]
    /\ calls \in [Threads -> 0..MaxCalls]
    /\ post \in [Posts -> {"none", "handling", "queued", "running", "done",
                          "aborted", "rejected"}]

(* The program takes itself down in an order that gives RootWorker what it  *)
(* assumes: no thread is in send_cmd_and_wait, or will enter it, once the   *)
(* queues are closed, also when a second SIGTERM arrives meanwhile, when    *)
(* the worker dies and when server.start fails.                             *)
ImplementsRootWorker == Spec

(* Every task the executor took has ended when the worker is asked to stop: *)
(* a plugin is not left half installed by a restart of the service.         *)
TasksEndFirst ==
    main \in {"leaving", "stopping", "returned", "exited"} =>
        \A p \in Posts : post[p] \notin {"queued", "running"}

(* A request that was accepted while the server was ready is turned down by *)
(* the executor only if a second SIGTERM replaced the stop thread that run  *)
(* joins: with one, the join waits for the HTTP threads.                    *)
RejectedOnlyAfterSecondSignal ==
    (\E p \in Posts : post[p] = "rejected") => Len(stop_threads) >= 2

(* The program neither stops its server nor aborts a task of itself: it was *)
(* sent a SIGTERM, or its worker was killed and not merely found absent by  *)
(* a task that runs before it starts or after it left (bin/main.py:27,      *)
(* controller.py:99, root_worker.py:59-64).                                 *)
StopsForAReason ==
    /\ server \in {"draining", "stopped"} => sigterms > 0 \/ process = "killed"
    /\ \A p \in Posts : post[p] = "aborted" => process = "killed"

(* A SIGTERM that reaches a program that serves ends it in good order.      *)
SigtermStops == pending /\ main = "serving" ~> main = "exited"

(* executor.shutdown does not block for ever: "shutdown the current thread  *)
(* execution so that executor.shutdown does not block" (root_worker.py:63). *)
ShutdownEnds == main = "shutdown" ~> main = "exited"

(* What the executor accepted is run to its end.                            *)
AcceptedEnds ==
    \A p \in Posts : post[p] = "queued" ~> post[p] \in {"done", "aborted"}

=============================================================================
