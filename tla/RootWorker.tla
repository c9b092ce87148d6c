----------------------------- MODULE RootWorker -----------------------------
(***************************************************************************)
(* wazo_plugind/root_worker.py: the main process keeps one child process   *)
(* with root privileges.  Executor threads hand it a command through a     *)
(* multiprocessing queue and wait for the result on a second queue, both   *)
(* under one threading.Lock; the main thread starts the child and stops it *)
(* through a multiprocessing Event.                                        *)
(*                                                                         *)
(* Neither queue carries a request identifier: that a thread gets its own  *)
(* answer rests on the lock alone.  The "thread" field of a queued command *)
(* or of an answer is history, no action's guard reads it.                 *)
(***************************************************************************)
EXTENDS Naturals, Sequences

CONSTANTS Threads,   (* the executor's threads                             *)
          Commands,  (* the commands they send                             *)
          Nothing,   (* Python's None                                      *)
          MayCrash   (* whether the worker process may be killed           *)

ASSUME RootWorkerAssumption ==
    /\ Nothing \notin Threads
    /\ Nothing \notin Commands
    /\ Nothing \notin [thread : Threads, cmd : Commands, ok : BOOLEAN]
    /\ MayCrash \in BOOLEAN

VARIABLES
    process,         (* _process: "new", "running", "exited" or "killed"   *)
    worker_at,       (* where the child is in _run                         *)
    request,         (* the command the child got last                     *)
    answer,          (* the result of that command                         *)
    command_queue,   (* _command_queue                                     *)
    result_queue,    (* _result_queue                                      *)
    stop_requested,  (* _stop_requested, a multiprocessing Event           *)
    lock,            (* _command_queue_lock: its holder, or Nothing        *)
    at,              (* where each thread is in send_cmd_and_wait          *)
    cmd,             (* the command of each thread's last call             *)
    got,             (* the answer each thread's last call returned        *)
    owner,           (* where the main thread is in run and stop           *)
    sigterm          (* a thread has sent SIGTERM to the main process      *)

workerVars == <<process, worker_at, request, answer>>
queueVars == <<command_queue, result_queue, stop_requested>>
callerVars == <<lock, at, cmd, got>>
ownerVars == <<owner, sigterm>>
vars == <<workerVars, queueVars, callerVars, ownerVars>>

Requests == [thread : Threads, cmd : Commands]
Answers == [thread : Threads, cmd : Commands, ok : BOOLEAN]

InCall(t) == at[t] \in {"check", "lock", "put", "get"}

(* Mutant: stop waits only for the threads that hold the lock.             *)
QuiescentLocked == \A t \in Threads : at[t] \notin {"put", "get"}

(* executor.shutdown() has returned, or nothing was ever submitted.        *)
Quiescent == \A t \in Threads : ~InCall(t)

Init ==
    /\ process = "new"
    /\ worker_at = "start"
    /\ request = Nothing
    /\ answer = Nothing
    /\ command_queue = <<>>
    /\ result_queue = <<>>
    /\ stop_requested = FALSE
    /\ lock = Nothing
    /\ at = [t \in Threads |-> "idle"]
    /\ cmd = [t \in Threads |-> Nothing]
    /\ got = [t \in Threads |-> Nothing]
    /\ owner = "new"
    /\ sigterm = FALSE

-----------------------------------------------------------------------------
(* The main thread.                                                        *)

(* run, from __enter__.                                                    *)
Run ==
    /\ owner = "new"
    /\ owner' = "started"
    /\ process' = "running"
    /\ UNCHANGED <<worker_at, request, answer, queueVars, callerVars, sigterm>>

(* Mutant: the queues are closed but the Event is not set.                 *)
RequestStopUnset ==
    /\ owner = "started"
    /\ owner' = "stopping"
    /\ UNCHANGED <<workerVars, queueVars, callerVars, sigterm>>

(* stop, from __exit__: the Event is set and both queues are closed.  From *)
(* here on a put on the command queue would raise.                         *)
RequestStop ==
    /\ owner = "started"
    /\ owner' = "stopping"
    /\ stop_requested' = TRUE
    /\ UNCHANGED <<workerVars, command_queue, result_queue, callerVars, sigterm>>

(* stop: is_alive, then join.                                              *)
AwaitProcess ==
    /\ owner = "stopping"
    /\ process # "running"
    /\ owner' = "stopped"
    /\ UNCHANGED <<workerVars, queueVars, callerVars, sigterm>>

-----------------------------------------------------------------------------
(* An executor thread in send_cmd_and_wait.                                *)

(* apt_get_update, install and uninstall all come here.                    *)
Call(t, c) ==
    /\ at[t] = "idle"
    /\ at' = [at EXCEPT ![t] = "check"]
    /\ cmd' = [cmd EXCEPT ![t] = c]
    /\ got' = [got EXCEPT ![t] = Nothing]
    /\ UNCHANGED <<workerVars, queueVars, lock, ownerVars>>

(* The process is tested BEFORE the lock is taken, so what the test saw    *)
(* may be stale by the time the command is put.  A dead worker makes the   *)
(* thread send SIGTERM to the main process and raise SystemExit.           *)
CheckAlive(t) ==
    /\ at[t] = "check"
    /\ IF process = "running"
       THEN /\ at' = [at EXCEPT ![t] = "lock"]
            /\ UNCHANGED sigterm
       ELSE /\ at' = [at EXCEPT ![t] = "raised"]
            /\ sigterm' = TRUE
    /\ UNCHANGED <<workerVars, queueVars, lock, cmd, got, owner>>

(* Mutant: send_cmd_and_wait without the lock.                             *)
AcquireUnlocked(t) ==
    /\ at[t] = "lock"
    /\ lock' = t
    /\ at' = [at EXCEPT ![t] = "put"]
    /\ UNCHANGED <<workerVars, queueVars, cmd, got, ownerVars>>

Acquire(t) ==
    /\ at[t] = "lock"
    /\ lock = Nothing
    /\ lock' = t
    /\ at' = [at EXCEPT ![t] = "put"]
    /\ UNCHANGED <<workerVars, queueVars, cmd, got, ownerVars>>

Put(t) ==
    /\ at[t] = "put"
    /\ command_queue' = Append(command_queue, [thread |-> t, cmd |-> cmd[t]])
    /\ at' = [at EXCEPT ![t] = "get"]
    /\ UNCHANGED <<workerVars, result_queue, stop_requested, lock, cmd, got,
                   ownerVars>>

(* A get without a timeout: it waits for ever if no result ever comes.  The *)
(* parent holds the write end of the pipe too, so the death of the child    *)
(* does not end the wait.                                                   *)
Get(t) ==
    /\ at[t] = "get"
    /\ result_queue # <<>>
    /\ got' = [got EXCEPT ![t] = Head(result_queue)]
    /\ result_queue' = Tail(result_queue)
    /\ lock' = Nothing
    /\ at' = [at EXCEPT ![t] = "idle"]
    /\ UNCHANGED <<workerVars, command_queue, stop_requested, cmd, ownerVars>>

(* SystemExit reaches the executor, which ends the work item and keeps the  *)
(* thread.                                                                  *)
Forget(t) ==
    /\ at[t] = "raised"
    /\ at' = [at EXCEPT ![t] = "idle"]
    /\ UNCHANGED <<workerVars, queueVars, lock, cmd, got, ownerVars>>

-----------------------------------------------------------------------------
(* The child process in _run.                                              *)

(* setsid, and SIGTERM is ignored from here on.                            *)
WorkerStart ==
    /\ process = "running"
    /\ worker_at = "start"
    /\ worker_at' = "loop"
    /\ UNCHANGED <<process, request, answer, queueVars, callerVars, ownerVars>>

WorkerCheck ==
    /\ process = "running"
    /\ worker_at = "loop"
    /\ IF stop_requested
       THEN process' = "exited" /\ UNCHANGED worker_at
       ELSE worker_at' = "get" /\ UNCHANGED process
    /\ UNCHANGED <<request, answer, queueVars, callerVars, ownerVars>>

WorkerGet ==
    /\ process = "running"
    /\ worker_at = "get"
    /\ command_queue # <<>>
    /\ request' = Head(command_queue)
    /\ command_queue' = Tail(command_queue)
    /\ worker_at' = "run"
    /\ UNCHANGED <<process, answer, result_queue, stop_requested, callerVars,
                   ownerVars>>

(* Mutant: the child waits for a command without a timeout.                *)
WorkerTimeoutNever == FALSE

(* Mutant: the child leaves its loop when no command came.                 *)
WorkerTimeoutLeaves ==
    /\ process = "running"
    /\ worker_at = "get"
    /\ process' = "exited"
    /\ UNCHANGED <<worker_at, request, answer, queueVars, callerVars, ownerVars>>

(* get(timeout=0.1) raises Empty.  It may do so while a command is on its   *)
(* way, because a feeder thread moves it from the caller to the pipe.       *)
WorkerTimeout ==
    /\ process = "running"
    /\ worker_at = "get"
    /\ worker_at' = "loop"
    /\ UNCHANGED <<process, request, answer, queueVars, callerVars, ownerVars>>

(* Mutant: the child sends the command back in place of its result.        *)
WorkerExecuteEcho ==
    /\ process = "running"
    /\ worker_at = "run"
    /\ answer' = request
    /\ worker_at' = "put"
    /\ UNCHANGED <<process, request, queueVars, callerVars, ownerVars>>

(* Mutant: an exception skips the put.                                     *)
WorkerExecuteSilent ==
    /\ process = "running"
    /\ worker_at = "run"
    /\ \E ok \in BOOLEAN :
          /\ answer' = [thread |-> request.thread, cmd |-> request.cmd, ok |-> ok]
          /\ worker_at' = IF ok THEN "put" ELSE "loop"
    /\ UNCHANGED <<process, request, queueVars, callerVars, ownerVars>>

(* _CommandExecutor.execute: TRUE when the command succeeded; an exception  *)
(* of any kind becomes None, which the callers read as a failure.           *)
WorkerExecute ==
    /\ process = "running"
    /\ worker_at = "run"
    /\ \E ok \in BOOLEAN :
          answer' = [thread |-> request.thread, cmd |-> request.cmd, ok |-> ok]
    /\ worker_at' = "put"
    /\ UNCHANGED <<process, request, queueVars, callerVars, ownerVars>>

(* Mutant: the child runs the command once more after its result is sent.  *)
WorkerPutRetry ==
    /\ process = "running"
    /\ worker_at = "put"
    /\ result_queue' = Append(result_queue, answer)
    /\ worker_at' = "run"
    /\ UNCHANGED <<process, request, answer, command_queue, stop_requested,
                   callerVars, ownerVars>>

WorkerPut ==
    /\ process = "running"
    /\ worker_at = "put"
    /\ result_queue' = Append(result_queue, answer)
    /\ worker_at' = "loop"
    /\ UNCHANGED <<process, request, answer, command_queue, stop_requested,
                   callerVars, ownerVars>>

(* The process is killed: the OOM killer, a SIGKILL, a SIGTERM that comes   *)
(* before WorkerStart.  A result that its feeder thread has not yet written *)
(* to the pipe dies with it.                                                *)
WorkerCrash ==
    /\ MayCrash
    /\ process = "running"
    /\ process' = "killed"
    /\ result_queue' \in {result_queue, <<>>}
    /\ UNCHANGED <<worker_at, request, answer, command_queue, stop_requested,
                   callerVars, ownerVars>>

-----------------------------------------------------------------------------
(* The worker alone, with what the rest of the program owes it: calls are   *)
(* made between run and stop only, and stop waits for the calls to end.     *)
(* The Controller module is where that assumption is discharged.            *)

CallerStep(t) ==
    \/ CheckAlive(t)
    \/ Acquire(t)
    \/ Put(t)
    \/ Get(t)
    \/ Forget(t)

WorkerStep ==
    \/ WorkerStart
    \/ WorkerCheck
    \/ WorkerGet
    \/ WorkerTimeout
    \/ WorkerExecute
    \/ WorkerPut

Next ==
    \/ Run
    \/ Quiescent /\ RequestStop
    \/ AwaitProcess
    \/ \E t \in Threads :
          \/ owner = "started" /\ \E c \in Commands : Call(t, c)
          \/ CallerStep(t)
    \/ WorkerStep
    \/ WorkerCrash

Spec == Init /\ [][Next]_vars

-----------------------------------------------------------------------------
(* Properties.                                                              *)

TypeOK ==
    /\ process \in {"new", "running", "exited", "killed"}
    /\ worker_at \in {"start", "loop", "get", "run", "put"}
    /\ request \in Requests \union {Nothing}
    /\ answer \in Answers \union {Nothing}
    /\ command_queue \in Seq(Requests)
    /\ result_queue \in Seq(Answers)
    /\ stop_requested \in BOOLEAN
    /\ lock \in Threads \union {Nothing}
    /\ at \in [Threads -> {"idle", "check", "lock", "put", "get", "raised"}]
    /\ cmd \in [Threads -> Commands \union {Nothing}]
    /\ got \in [Threads -> Answers \union {Nothing}]
    /\ owner \in {"new", "started", "stopping", "stopped"}
    /\ sigterm \in BOOLEAN

(* A call returns the result of the command it sent, although results carry *)
(* no identifier and the threads share one queue: send_cmd_and_wait, with   *)
(* the put and the get under one lock.                                      *)
OwnAnswer ==
    \A t \in Threads :
        got[t] # Nothing => got[t].thread = t /\ got[t].cmd = cmd[t]

(* Once stop has closed the queues nothing is left in them, no thread is    *)
(* inside send_cmd_and_wait and no command is running: no caller is left    *)
(* waiting for an answer that cannot come.                                  *)
ClosedMeansQuiet ==
    owner \in {"stopping", "stopped"} =>
        /\ Quiescent
        /\ lock = Nothing
        /\ command_queue = <<>>
        /\ result_queue = <<>>
        /\ process = "running" => worker_at \in {"start", "loop", "get"}

(* A thread sends SIGTERM to the main process only about a worker that was  *)
(* killed: it never takes a worker that has not been started yet, or one    *)
(* that left because stop asked it to, for a dead one (the is_alive test of *)
(* send_cmd_and_wait cannot tell them apart).                               *)
NoFalseAlarm == sigterm => process = "killed"

(* The lock is always given back: _command_queue_lock is released when the  *)
(* result comes, so one slow command delays the others but stops none.      *)
(* True as long as the worker is not killed.                                *)
LockReleased == \A t \in Threads : lock = t ~> lock # t

(* Once stop is requested the child leaves its loop and the join returns.   *)
StopCompletes == stop_requested ~> owner = "stopped"

-----------------------------------------------------------------------------
(* The queues and the lock implement CommandService.                        *)

Queued(t) == \E i \in 1..Len(command_queue) : command_queue[i].thread = t

Executing(t) == worker_at = "run" /\ request.thread = t

Phase(t) ==
    CASE at[t] = "idle" -> "idle"
      [] at[t] = "raised" -> "refused"
      [] at[t] \in {"check", "lock", "put"} -> "waiting"
      [] at[t] = "get" /\ Executing(t) -> "running"
      [] at[t] = "get" /\ ~Executing(t) /\ Queued(t) -> "waiting"
      [] OTHER -> "answered"

(* The result of t's command is the worker's last answer until t has it.    *)
Result(t) ==
    CASE Phase(t) = "answered" -> answer.ok
      [] Phase(t) = "idle" /\ got[t] # Nothing -> got[t].ok
      [] OTHER -> FALSE

WorkerStatus ==
    CASE process = "new" -> "new"
      [] process = "running" -> "up"
      [] OTHER -> "down"

Calls == [t \in Threads |->
             [phase |-> Phase(t), cmd |-> cmd[t], ok |-> Result(t)]]

Service == INSTANCE CommandService WITH
    Clients <- Threads,
    worker <- WorkerStatus,
    call <- Calls

(* Every step of the queues, the lock and the worker is a step of the       *)
(* service or changes nothing in it: root_worker.py gives its callers one   *)
(* command at a time, begun and finished once, and its own result.          *)
ImplementsService == Service!Spec

=============================================================================
