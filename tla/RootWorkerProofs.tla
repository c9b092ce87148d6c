-------------------------- MODULE RootWorkerProofs --------------------------
(***************************************************************************)
(* Proofs about RootWorker for any set of threads and commands, with or    *)
(* without crashes of the worker.                                          *)
(*                                                                         *)
(* The invariants of RootWorker are not inductive.  What makes them so is  *)
(* InFlight: the lock turns the two queues into one slot that is either    *)
(* empty or holds the one call of the thread at "get", somewhere on its    *)
(* way from the command queue through the worker to the result queue.      *)
(***************************************************************************)
EXTENDS RootWorker, TLAPS

(* What a call has put aside is there when it is used: the caller's command, *)
(* the worker's request, the worker's answer.                               *)
Initialised ==
    /\ \A t \in Threads : at[t] # "idle" => cmd[t] \in Commands /\ got[t] = Nothing
    /\ worker_at = "run" => request \in Requests
    /\ worker_at = "put" => answer \in Answers

(* A thread is between acquiring and releasing the lock iff it holds it.   *)
LockHolder == \A t \in Threads : lock = t <=> at[t] \in {"put", "get"}

Busy == worker_at \in {"run", "put"}

Request(t) == [thread |-> t, cmd |-> cmd[t]]

AnswerTo(t, a) == a \in Answers /\ a.thread = t /\ a.cmd = cmd[t]

(* Where the call of the thread at "get" can be.                           *)
InCommandQueue(t) ==
    command_queue = <<Request(t)>> /\ result_queue = <<>> /\ ~Busy
InWorker(t) ==
    /\ command_queue = <<>> /\ result_queue = <<>> /\ Busy
    /\ request = Request(t)
    /\ worker_at = "put" => AnswerTo(t, answer)
InResultQueue(t) ==
    /\ command_queue = <<>> /\ ~Busy
    /\ result_queue = <<answer>>
    /\ AnswerTo(t, answer)
LostWithWorker ==
    command_queue = <<>> /\ result_queue = <<>> /\ process = "killed"

InFlight ==
    /\ \A t \in Threads : at[t] = "get" =>
          \/ InCommandQueue(t)
          \/ InWorker(t)
          \/ InResultQueue(t)
          \/ LostWithWorker
    /\ (\A t \in Threads : at[t] # "get") =>
          command_queue = <<>> /\ result_queue = <<>> /\ ~Busy

(* Start and stop: the process exists once run was called, leaves in good  *)
(* order only when asked to, and is asked to only when no call is open.    *)
Lifecycle ==
    /\ process = "new" <=> owner = "new"
    /\ owner = "new" => Quiescent
    /\ stop_requested <=> owner \in {"stopping", "stopped"}
    /\ stop_requested => Quiescent
    /\ process = "exited" => stop_requested

IInv ==
    /\ TypeOK
    /\ Initialised
    /\ LockHolder
    /\ InFlight
    /\ Lifecycle
    /\ OwnAnswer
    /\ NoFalseAlarm

-----------------------------------------------------------------------------

(* The initial values have their types.                                     *)
LEMMA InitTypes == Init => TypeOK /\ Initialised
<1> SUFFICES ASSUME Init
             PROVE  TypeOK /\ Initialised
  OBVIOUS
<1>1. at \in [Threads -> {"idle", "check", "lock", "put", "get", "raised"}]
  BY DEF Init
<1>2. cmd \in [Threads -> Commands \union {Nothing}]
  BY DEF Init
<1>3. got \in [Threads -> Answers \union {Nothing}]
  BY DEF Init
<1>4. command_queue \in Seq(Requests) /\ result_queue \in Seq(Answers)
  BY DEF Init
<1>5. Initialised
  BY DEF Init, Initialised
<1>6. QED
  BY <1>1, <1>2, <1>3, <1>4, <1>5 DEF Init, TypeOK

(* Every variable keeps its type, and what a call puts aside is set before *)
(* it is read, in every behaviour of the program.                          *)
LEMMA Typing == Spec => [](TypeOK /\ Initialised)
<1>1. Init => TypeOK /\ Initialised
  BY InitTypes
<1>2. TypeOK /\ Initialised /\ [Next]_vars => TypeOK' /\ Initialised'
  <2> SUFFICES ASSUME TypeOK, Initialised, [Next]_vars
               PROVE  TypeOK' /\ Initialised'
    OBVIOUS
  <2> USE RootWorkerAssumption DEF TypeOK, Initialised, workerVars, queueVars, callerVars, ownerVars
  <2>1. CASE Run
    BY <2>1 DEF Run
  <2>2. CASE RequestStop
    BY <2>2 DEF RequestStop
  <2>3. CASE AwaitProcess
    BY <2>3 DEF AwaitProcess
  <2>4. ASSUME NEW t \in Threads, NEW c \in Commands, Call(t, c)
        PROVE  TypeOK' /\ Initialised'
    BY <2>4 DEF Call
  <2>5. ASSUME NEW t \in Threads, CheckAlive(t)
        PROVE  TypeOK' /\ Initialised'
    BY <2>5 DEF CheckAlive
  <2>6. ASSUME NEW t \in Threads, Acquire(t)
        PROVE  TypeOK' /\ Initialised'
    BY <2>6 DEF Acquire
  <2>7. ASSUME NEW t \in Threads, Put(t)
        PROVE  TypeOK' /\ Initialised'
    BY <2>7 DEF Put, Requests
  <2>8. ASSUME NEW t \in Threads, Get(t)
        PROVE  TypeOK' /\ Initialised'
    BY <2>8 DEF Get
  <2>9. ASSUME NEW t \in Threads, Forget(t)
        PROVE  TypeOK' /\ Initialised'
    BY <2>9 DEF Forget
  <2>10. CASE WorkerStart
    BY <2>10 DEF WorkerStart
  <2>11. CASE WorkerCheck
    BY <2>11 DEF WorkerCheck
  <2>12. CASE WorkerGet
    BY <2>12 DEF WorkerGet
  <2>13. CASE WorkerTimeout
    BY <2>13 DEF WorkerTimeout
  <2>14. CASE WorkerExecute
    BY <2>14 DEF WorkerExecute, Requests, Answers
  <2>15. CASE WorkerPut
    BY <2>15 DEF WorkerPut
  <2>16. CASE WorkerCrash
    <3>1. result_queue' \in Seq(Answers)
      <4>1. CASE result_queue' = result_queue
        BY <4>1
      <4>2. CASE result_queue' = <<>>
        BY <4>2
      <4>3. QED
        BY <2>16, <4>1, <4>2 DEF WorkerCrash
    <3>2. QED
      BY <2>16, <3>1 DEF WorkerCrash
  <2>17. CASE UNCHANGED vars
    BY <2>17 DEF vars
  <2>18. QED
    BY <2>1, <2>2, <2>3, <2>4, <2>5, <2>6, <2>7, <2>8, <2>9, <2>10, <2>11,
       <2>12, <2>13, <2>14, <2>15, <2>16, <2>17
       DEF Next, CallerStep, WorkerStep
<1>3. QED
  BY <1>1, <1>2, PTL DEF Spec

-----------------------------------------------------------------------------
(* One lemma per part of the invariant.  Each has a step per action that can *)
(* disturb the part and a step for those that leave its variables alone.     *)

(* The lock is held exactly between Acquire and Get.                         *)
LEMMA LockHolderStep ==
    ASSUME TypeOK, LockHolder, [Next]_vars
    PROVE  LockHolder'
<1> USE RootWorkerAssumption DEF TypeOK, LockHolder
<1>1. ASSUME NEW t \in Threads, Acquire(t)
      PROVE  LockHolder'
  BY <1>1 DEF Acquire
<1>2. ASSUME NEW t \in Threads, Get(t)
      PROVE  LockHolder'
  BY <1>2 DEF Get
<1>3. ASSUME NEW t \in Threads, Put(t)
      PROVE  LockHolder'
  BY <1>3 DEF Put
<1>4. ASSUME NEW t \in Threads,
             \/ \E c \in Commands : Call(t, c)
             \/ CheckAlive(t)
             \/ Forget(t)
      PROVE  LockHolder'
  BY <1>4 DEF Call, CheckAlive, Forget
<1>5. CASE UNCHANGED callerVars
  BY <1>5 DEF callerVars
<1>6. QED
  BY <1>1, <1>2, <1>3, <1>4, <1>5
     DEF Next, CallerStep, WorkerStep, vars, Run, RequestStop, AwaitProcess,
         WorkerStart, WorkerCheck, WorkerGet, WorkerTimeout, WorkerExecute,
         WorkerPut, WorkerCrash

(* The worker is started once, leaves only on request, and the request comes *)
(* only when no call is open.                                                *)
LEMMA LifecycleStep ==
    ASSUME TypeOK, Lifecycle, [Next]_vars
    PROVE  Lifecycle'
<1> USE DEF TypeOK, Lifecycle, Quiescent, InCall
<1>1. CASE Run \/ AwaitProcess \/ (Quiescent /\ RequestStop)
  BY <1>1 DEF Run, AwaitProcess, RequestStop, queueVars, callerVars, workerVars
<1>2. ASSUME NEW t \in Threads,
             \/ owner = "started" /\ \E c \in Commands : Call(t, c)
             \/ CallerStep(t)
      PROVE  Lifecycle'
  BY <1>2 DEF CallerStep, Call, CheckAlive, Acquire, Put, Get, Forget,
              workerVars, queueVars, ownerVars
<1>3. CASE WorkerCheck \/ WorkerCrash
  BY <1>3 DEF WorkerCheck, WorkerCrash, queueVars, callerVars, ownerVars
<1>4. CASE UNCHANGED <<process, stop_requested, callerVars, ownerVars>>
  BY <1>4 DEF callerVars, ownerVars
<1>5. QED
  BY <1>1, <1>2, <1>3, <1>4
     DEF Next, WorkerStep, vars, workerVars, queueVars, WorkerStart, WorkerGet,
         WorkerTimeout, WorkerExecute, WorkerPut

(* The two queues and the worker together are one slot.                      *)
LEMMA InFlightStep ==
    ASSUME TypeOK, Initialised, LockHolder, InFlight, Lifecycle, [Next]_vars,
           TypeOK'
    PROVE  InFlight'
<1> USE DEF InFlight, InCommandQueue, InWorker, InResultQueue, LostWithWorker,
            Busy, Request, AnswerTo
<1>1. ASSUME NEW t \in Threads, Put(t)
      PROVE  InFlight'
  <2>1. \A u \in Threads : at[u] # "get"
    BY <1>1, RootWorkerAssumption DEF Put, LockHolder
  <2>2. InCommandQueue(t)'
    <3>1. Append(<<>>, Request(t)) = <<Request(t)>>
      OBVIOUS
    <3>2. QED
      BY <1>1, <2>1, <3>1 DEF Put, workerVars
  <2>3. \A u \in Threads : at'[u] = "get" => u = t
    BY <1>1, <2>1 DEF Put, TypeOK
  <2>4. at'[t] = "get"
    BY <1>1 DEF Put, TypeOK
  <2>5. QED
    BY <2>2, <2>3, <2>4
<1>2. ASSUME NEW t \in Threads, Get(t)
      PROVE  InFlight'
  <2>1. InResultQueue(t)
    BY <1>2 DEF Get
  <2>2. command_queue' = <<>> /\ result_queue' = <<>> /\ ~Busy'
    BY <1>2, <2>1 DEF Get, workerVars
  <2>3. \A u \in Threads : at'[u] # "get"
    BY <1>2, RootWorkerAssumption DEF Get, LockHolder, TypeOK
  <2>4. QED
    BY <2>2, <2>3
<1>3. ASSUME NEW t \in Threads,
             \/ \E c \in Commands : Call(t, c)
             \/ CheckAlive(t)
             \/ Acquire(t)
             \/ Forget(t)
      PROVE  InFlight'
  BY <1>3 DEF Call, CheckAlive, Acquire, Forget, TypeOK, workerVars, queueVars
<1>4. CASE WorkerGet
  BY <1>4 DEF WorkerGet, TypeOK, callerVars
<1>5. CASE WorkerExecute
  BY <1>5 DEF WorkerExecute, Initialised, Requests, Answers, queueVars, callerVars
<1>6. CASE WorkerPut
  <2>1. Append(<<>>, answer) = <<answer>>
    OBVIOUS
  <2>2. QED
    BY <1>6, <2>1 DEF WorkerPut, callerVars
<1>7. CASE WorkerCrash
  <2>1. CASE result_queue' = result_queue
    BY <1>7, <2>1 DEF WorkerCrash, callerVars
  <2>2. CASE result_queue' = <<>>
    BY <1>7, <2>2 DEF WorkerCrash, callerVars
  <2>3. QED
    BY <1>7, <2>1, <2>2 DEF WorkerCrash
<1>8. CASE WorkerStart \/ WorkerCheck \/ WorkerTimeout
  BY <1>8 DEF WorkerStart, WorkerCheck, WorkerTimeout, queueVars, callerVars
<1>9. CASE Run
  <2>1. \A t \in Threads : at[t] # "get"
    BY <1>9 DEF Run, Lifecycle, Quiescent, InCall
  <2>2. QED
    BY <1>9, <2>1 DEF Run, queueVars, callerVars
<1>10. CASE UNCHANGED <<workerVars, command_queue, result_queue, callerVars>>
  BY <1>10 DEF workerVars, callerVars
<1>11. QED
  BY <1>1, <1>2, <1>3, <1>4, <1>5, <1>6, <1>7, <1>8, <1>9, <1>10
     DEF Next, CallerStep, WorkerStep, vars, RequestStop, AwaitProcess, queueVars

(* Get hands the thread the one answer in flight, which is its own.          *)
LEMMA OwnAnswerStep ==
    ASSUME TypeOK, InFlight, OwnAnswer, [Next]_vars
    PROVE  OwnAnswer'
<1> USE DEF TypeOK, OwnAnswer
<1>1. ASSUME NEW t \in Threads, Get(t)
      PROVE  OwnAnswer'
  <2>1. result_queue = <<answer>> /\ AnswerTo(t, answer)
    BY <1>1 DEF Get, InFlight, InCommandQueue, InWorker, InResultQueue,
                LostWithWorker
  <2>2. QED
    BY <1>1, <2>1 DEF Get, AnswerTo
<1>2. ASSUME NEW t \in Threads, NEW c \in Commands, Call(t, c)
      PROVE  OwnAnswer'
  BY <1>2 DEF Call
<1>3. CASE UNCHANGED <<cmd, got>>
  BY <1>3
<1>4. QED
  BY <1>1, <1>2, <1>3
     DEF Next, CallerStep, WorkerStep, vars, callerVars, Run, RequestStop,
         AwaitProcess, CheckAlive, Acquire, Put, Forget, WorkerStart,
         WorkerCheck, WorkerGet, WorkerTimeout, WorkerExecute, WorkerPut,
         WorkerCrash

(* The test of CheckAlive cannot meet a worker that is new or has left.      *)
LEMMA NoFalseAlarmStep ==
    ASSUME TypeOK, Lifecycle, NoFalseAlarm, [Next]_vars
    PROVE  NoFalseAlarm'
<1> USE DEF NoFalseAlarm
<1>1. ASSUME NEW t \in Threads, CheckAlive(t)
      PROVE  NoFalseAlarm'
  <2>1. process \in {"running", "killed"}
    BY <1>1 DEF CheckAlive, Lifecycle, Quiescent, InCall, TypeOK
  <2>2. QED
    BY <1>1, <2>1 DEF CheckAlive, workerVars
<1>2. CASE Run
  BY <1>2 DEF Run, Lifecycle
<1>3. CASE WorkerCheck \/ WorkerCrash
  BY <1>3 DEF WorkerCheck, WorkerCrash, ownerVars
<1>4. CASE UNCHANGED <<process, sigterm>>
  BY <1>4
<1>5. QED
  BY <1>1, <1>2, <1>3, <1>4
     DEF Next, CallerStep, WorkerStep, vars, workerVars, ownerVars, RequestStop,
         AwaitProcess, Call, Acquire, Put, Get, Forget, WorkerStart, WorkerGet,
         WorkerTimeout, WorkerExecute, WorkerPut

THEOREM Inductive == Spec => []IInv
<1>1. Init => IInv
  BY RootWorkerAssumption, InitTypes
     DEF Init, IInv, LockHolder, InFlight, Lifecycle, OwnAnswer, NoFalseAlarm,
         Busy, Quiescent, InCall
<1>2. (TypeOK /\ Initialised) /\ (TypeOK /\ Initialised)' /\ IInv /\ [Next]_vars
      => IInv'
  BY LockHolderStep, LifecycleStep, InFlightStep, OwnAnswerStep, NoFalseAlarmStep
     DEF IInv
<1>3. QED
  BY <1>1, <1>2, Typing, PTL DEF Spec

-----------------------------------------------------------------------------
(* The invariants of RootWorker.                                             *)

(* Every variable keeps its type.                                            *)
THEOREM TypeCorrect == Spec => []TypeOK
BY Typing, PTL

(* A call returns the answer to its own command (send_cmd_and_wait).         *)
THEOREM OwnAnswerHolds == Spec => []OwnAnswer
<1>1. IInv => OwnAnswer
  BY DEF IInv
<1>2. QED
  BY <1>1, Inductive, PTL

(* Nothing is left in the queues that BaseWorker.stop closes, nobody waits   *)
(* for an answer and no command is running.                                  *)
THEOREM ClosedMeansQuietHolds == Spec => []ClosedMeansQuiet
<1>1. IInv => ClosedMeansQuiet
  <2> SUFFICES ASSUME IInv, owner \in {"stopping", "stopped"}
               PROVE  /\ Quiescent
                      /\ lock = Nothing
                      /\ command_queue = <<>> /\ result_queue = <<>>
                      /\ process = "running" => worker_at \in {"start", "loop", "get"}
    BY DEF ClosedMeansQuiet
  <2>1. Quiescent
    BY DEF IInv, Lifecycle
  <2>2. \A t \in Threads : at[t] \notin {"put", "get"}
    BY <2>1 DEF Quiescent, InCall
  <2>3. lock = Nothing
    BY <2>2 DEF IInv, TypeOK, LockHolder
  <2>4. command_queue = <<>> /\ result_queue = <<>> /\ ~Busy
    BY <2>2 DEF IInv, InFlight
  <2>5. worker_at \in {"start", "loop", "get"}
    BY <2>4 DEF IInv, TypeOK, Busy
  <2>6. QED
    BY <2>1, <2>3, <2>4, <2>5
<1>2. QED
  BY <1>1, Inductive, PTL

(* SIGTERM is sent to the main process only about a worker that was killed.  *)
THEOREM NoFalseAlarmHolds == Spec => []NoFalseAlarm
<1>1. IInv => NoFalseAlarm
  BY DEF IInv
<1>2. QED
  BY <1>1, Inductive, PTL

-----------------------------------------------------------------------------
(* RootWorker implements CommandService.                                     *)

CallOf(t) == [phase |-> Phase(t), cmd |-> cmd[t], ok |-> Result(t)]

SameWorkerView == UNCHANGED <<worker_at, request, answer, command_queue>>

(* A thread's call looks the same after a step that changes neither the      *)
(* thread nor what the mapping reads of the worker and the command queue.    *)
LEMMA SameCall ==
    ASSUME NEW t \in Threads, SameWorkerView,
           at'[t] = at[t], cmd'[t] = cmd[t], got'[t] = got[t]
    PROVE  CallOf(t)' = CallOf(t)
BY DEF CallOf, Phase, Result, Executing, Queued, SameWorkerView

(* A thread that is not at "get" looks the same whatever the worker does.    *)
LEMMA SameOutsideGet ==
    ASSUME NEW t \in Threads, TypeOK, at[t] # "get",
           at'[t] = at[t], cmd'[t] = cmd[t], got'[t] = got[t]
    PROVE  CallOf(t)' = CallOf(t)
BY DEF CallOf, Phase, Result, TypeOK

(* A step that changes one thread's call is described by that call alone.    *)
LEMMA OneCallChanges ==
    ASSUME NEW t \in Threads,
           \A u \in Threads \ {t} : CallOf(u)' = CallOf(u)
    PROVE  Calls' = [Calls EXCEPT ![t] = CallOf(t)']
BY DEF Calls, CallOf

LEMMA NoCallChanges ==
    ASSUME \A u \in Threads : CallOf(u)' = CallOf(u)
    PROVE  Calls' = Calls
BY DEF Calls, CallOf

(* The steps of a caller are Invoke, Refuse, Return, Forget or stuttering.   *)
LEMMA CallerSimulation ==
    ASSUME IInv, IInv', NEW t \in Threads,
           \/ \E c \in Commands : Call(t, c)
           \/ CallerStep(t)
    PROVE  [Service!Next]_<<WorkerStatus, Calls>>
<1> USE DEF IInv, TypeOK
<1>1. WorkerStatus' = WorkerStatus
  BY DEF WorkerStatus, CallerStep, Call, CheckAlive, Acquire, Put, Get, Forget,
         workerVars
<1>2. \A u \in Threads \ {t} : at'[u] = at[u] /\ cmd'[u] = cmd[u] /\ got'[u] = got[u]
  BY DEF CallerStep, Call, CheckAlive, Acquire, Put, Get, Forget
<1>3. CASE ~Put(t)
  <2>1. SameWorkerView
    BY <1>3 DEF SameWorkerView, CallerStep, Call, CheckAlive, Acquire, Get, Forget,
           workerVars, queueVars
  <2>2. \A u \in Threads \ {t} : CallOf(u)' = CallOf(u)
    BY <1>2, <2>1, SameCall
  <2>3. Calls' = [Calls EXCEPT ![t] = CallOf(t)']
    BY <2>2, OneCallChanges
  <2>4. ASSUME NEW c \in Commands, Call(t, c)
        PROVE  Service!Invoke(t, c)
    <3>1. CallOf(t).phase = "idle"
      BY <2>4 DEF Call, CallOf, Phase
    <3>2. CallOf(t)' = [phase |-> "waiting", cmd |-> c, ok |-> FALSE]
      BY <2>4 DEF Call, CallOf, Phase, Result
    <3>3. QED
      BY <1>1, <2>3, <3>1, <3>2 DEF Service!Invoke, Calls, CallOf
  <2>5. CASE CheckAlive(t) /\ process # "running"
    <3>1. WorkerStatus = "down"
      BY <2>5 DEF CheckAlive, WorkerStatus, Lifecycle, Quiescent, InCall
    <3>2. CallOf(t) = [phase |-> "waiting", cmd |-> cmd[t], ok |-> FALSE]
      BY <2>5 DEF CheckAlive, CallOf, Phase, Result
    <3>3. CallOf(t)' = [phase |-> "refused", cmd |-> cmd[t], ok |-> FALSE]
      BY <2>5 DEF CheckAlive, CallOf, Phase, Result
    <3>4. Service!Refuse(t)
      BY <1>1, <2>3, <3>1, <3>2, <3>3 DEF Service!Refuse, Calls, CallOf
    <3>5. QED
      BY <3>4 DEF Service!Next
  <2>6. CASE (CheckAlive(t) /\ process = "running") \/ Acquire(t)
    <3>1. CallOf(t)' = CallOf(t)
      BY <2>6 DEF CheckAlive, Acquire, CallOf, Phase, Result
    <3>2. QED
      BY <1>1, <2>2, <3>1, NoCallChanges
  <2>7. CASE Get(t)
    <3>1. InResultQueue(t)
      BY <2>7 DEF Get, InFlight, InCommandQueue, InWorker, LostWithWorker
    <3>2. CallOf(t) = [phase |-> "answered", cmd |-> cmd[t], ok |-> answer.ok]
      <4>1. ~Executing(t) /\ ~Queued(t)
        BY <3>1 DEF InResultQueue, Busy, Executing, Queued
      <4>2. Phase(t) = "answered"
        BY <2>7, <4>1 DEF Get, Phase
      <4>3. QED
        BY <4>2 DEF CallOf, Result
    <3>3. got'[t] = answer
      BY <2>7, <3>1 DEF Get, InResultQueue
    <3>4. CallOf(t)' = [phase |-> "idle", cmd |-> cmd[t], ok |-> answer.ok]
      BY <2>7, <3>1, <3>3, RootWorkerAssumption
         DEF Get, CallOf, Phase, Result, InResultQueue, AnswerTo, Answers
    <3>5. Service!Return(t)
      BY <1>1, <2>3, <3>2, <3>4 DEF Service!Return, Calls, CallOf
    <3>6. QED
      BY <3>5 DEF Service!Next
  <2>8. CASE Forget(t)
    <3>1. CallOf(t) = [phase |-> "refused", cmd |-> cmd[t], ok |-> FALSE]
      BY <2>8 DEF Forget, CallOf, Phase, Result
    <3>2. CallOf(t)' = [phase |-> "idle", cmd |-> cmd[t], ok |-> FALSE]
      BY <2>8 DEF Forget, CallOf, Phase, Result, Initialised
    <3>3. Service!Forget(t)
      BY <1>1, <2>3, <3>1, <3>2 DEF Service!Forget, Calls, CallOf
    <3>4. QED
      BY <3>3 DEF Service!Next
  <2>9. QED
    BY <1>3, <2>4, <2>5, <2>6, <2>7, <2>8 DEF CallerStep, Service!Next
<1>4. CASE Put(t)
  <2>1. \A u \in Threads \ {t} : at[u] # "get"
    BY <1>4, RootWorkerAssumption DEF Put, LockHolder
  <2>2. \A u \in Threads \ {t} : CallOf(u)' = CallOf(u)
    BY <1>2, <2>1, SameOutsideGet
  <2>3. \A u \in Threads : at[u] # "get"
    BY <1>4, <2>1 DEF Put
  <2>4. CallOf(t)' = CallOf(t)
    <3>1. command_queue' = <<Request(t)>>
      <4>1. Append(<<>>, Request(t)) = <<Request(t)>>
        OBVIOUS
      <4>2. QED
        BY <1>4, <2>3, <4>1 DEF Put, InFlight, Request
    <3>2. Queued(t)'
      BY <3>1 DEF Queued, Request
    <3>3. ~Executing(t)'
      BY <1>4, <2>3 DEF Put, InFlight, Busy, Executing, workerVars
    <3>4. Phase(t) = "waiting" /\ Phase(t)' = "waiting"
      BY <1>4, <3>2, <3>3 DEF Put, Phase
    <3>5. Result(t)' = Result(t) /\ cmd' = cmd
      BY <1>4, <3>4 DEF Put, Result
    <3>6. QED
      BY <3>4, <3>5 DEF CallOf
  <2>5. QED
    BY <1>1, <2>2, <2>4, NoCallChanges
<1>5. QED
  BY <1>3, <1>4

(* The steps of the worker and of the main thread are Up, Down, Begin,       *)
(* Finish or stuttering.                                                     *)
LEMMA WorkerSimulation ==
    ASSUME IInv, IInv',
           \/ Run
           \/ RequestStop
           \/ AwaitProcess
           \/ WorkerStep
           \/ WorkerCrash
    PROVE  [Service!Next]_<<WorkerStatus, Calls>>
<1> USE DEF IInv, TypeOK
<1>1. UNCHANGED <<at, cmd, got>>
  BY DEF Run, RequestStop, AwaitProcess, WorkerStep, WorkerStart, WorkerCheck,
         WorkerGet, WorkerTimeout, WorkerExecute, WorkerPut, WorkerCrash, callerVars
<1>2. CASE Run \/ RequestStop \/ AwaitProcess \/ WorkerCrash
  <2>1. SameWorkerView
    BY <1>2 DEF Run, RequestStop, AwaitProcess, WorkerCrash, SameWorkerView,
                workerVars, queueVars
  <2>2. Calls' = Calls
    BY <1>1, <2>1, SameCall, NoCallChanges
  <2>3. CASE Run
    <3>1. WorkerStatus = "new" /\ WorkerStatus' = "up"
      BY <2>3 DEF Run, WorkerStatus, Lifecycle
    <3>2. QED
      BY <2>2, <3>1 DEF Service!Next, Service!Up
  <2>4. CASE WorkerCrash
    <3>1. WorkerStatus = "up" /\ WorkerStatus' = "down"
      BY <2>4 DEF WorkerCrash, WorkerStatus
    <3>2. QED
      BY <2>2, <3>1 DEF Service!Next, Service!Down
  <2>5. CASE RequestStop \/ AwaitProcess
    <3>1. WorkerStatus' = WorkerStatus
      BY <2>5 DEF RequestStop, AwaitProcess, WorkerStatus, workerVars
    <3>2. QED
      BY <2>2, <3>1
  <2>6. QED
    BY <1>2, <2>3, <2>4, <2>5
<1>3. CASE WorkerStart \/ WorkerTimeout \/ WorkerCheck
  <2>1. \A t \in Threads : CallOf(t)' = CallOf(t)
    <3> SUFFICES ASSUME NEW t \in Threads
                 PROVE  CallOf(t)' = CallOf(t)
      OBVIOUS
    <3>1. ~Executing(t) /\ ~Executing(t)'
      BY <1>3 DEF WorkerStart, WorkerTimeout, WorkerCheck, Executing
    <3>2. UNCHANGED <<command_queue, answer>>
      BY <1>3 DEF WorkerStart, WorkerTimeout, WorkerCheck, queueVars
    <3>3. Phase(t)' = Phase(t)
      BY <1>1, <3>1, <3>2 DEF Phase, Queued
    <3>4. QED
      BY <1>1, <3>2, <3>3 DEF CallOf, Result
  <2>2. Calls' = Calls
    BY <2>1, NoCallChanges
  <2>3. CASE WorkerCheck /\ stop_requested
    <3>1. WorkerStatus = "up" /\ WorkerStatus' = "down"
      BY <2>3 DEF WorkerCheck, WorkerStatus
    <3>2. QED
      BY <2>2, <3>1 DEF Service!Next, Service!Down
  <2>4. CASE ~(WorkerCheck /\ stop_requested)
    <3>1. WorkerStatus' = WorkerStatus
      BY <1>3, <2>4 DEF WorkerStart, WorkerTimeout, WorkerCheck, WorkerStatus
    <3>2. QED
      BY <2>2, <3>1
  <2>5. QED
    BY <2>3, <2>4
<1>4. CASE WorkerGet \/ WorkerExecute \/ WorkerPut
  <2>1. WorkerStatus = "up" /\ WorkerStatus' = "up"
    BY <1>4 DEF WorkerGet, WorkerExecute, WorkerPut, WorkerStatus
  <2>2. PICK t \in Threads : at[t] = "get"
    BY <1>4 DEF WorkerGet, WorkerExecute, WorkerPut, InFlight, Busy
  <2>3. \A u \in Threads \ {t} : at[u] # "get"
    BY <2>2, RootWorkerAssumption DEF LockHolder
  <2>4. \A u \in Threads \ {t} : CallOf(u)' = CallOf(u)
    BY <1>1, <2>3, SameOutsideGet
  <2>5. Calls' = [Calls EXCEPT ![t] = CallOf(t)']
    BY <2>4, OneCallChanges
  <2>6. CASE WorkerGet
    <3>1. InCommandQueue(t)
      BY <2>2, <2>6 DEF WorkerGet, InFlight, InWorker, InResultQueue, LostWithWorker
    <3>2. Queued(t) /\ ~Executing(t)
      BY <3>1 DEF InCommandQueue, Queued, Executing, Busy, Request
    <3>3. Executing(t)'
      BY <2>6, <3>1 DEF WorkerGet, InCommandQueue, Executing, Request
    <3>4. CallOf(t) = [phase |-> "waiting", cmd |-> cmd[t], ok |-> FALSE]
      BY <2>2, <3>2 DEF CallOf, Phase, Result
    <3>5. CallOf(t)' = [phase |-> "running", cmd |-> cmd[t], ok |-> FALSE]
      BY <1>1, <2>2, <3>3 DEF CallOf, Phase, Result
    <3>6. \A u \in Threads : Calls[u].phase # "running"
      BY <2>3, <3>4 DEF Calls, CallOf, Phase
    <3>7. Service!Begin(t)
      BY <2>1, <2>5, <3>4, <3>5, <3>6
         DEF Service!Begin, Service!Running, Calls, CallOf
    <3>8. QED
      BY <3>7 DEF Service!Next
  <2>7. CASE WorkerExecute
    <3>1. InWorker(t)
      BY <2>2, <2>7 DEF WorkerExecute, InFlight, InCommandQueue, InResultQueue,
                        LostWithWorker, Busy
    <3>2. Executing(t) /\ ~Queued(t)'
      BY <2>7, <3>1 DEF WorkerExecute, InWorker, Executing, Queued, Request, queueVars
    <3>3. ~Executing(t)'
      BY <2>7 DEF WorkerExecute, Executing
    <3>4. PICK ok \in BOOLEAN :
             answer' = [thread |-> request.thread, cmd |-> request.cmd, ok |-> ok]
      BY <2>7 DEF WorkerExecute
    <3>5. CallOf(t) = [phase |-> "running", cmd |-> cmd[t], ok |-> FALSE]
      BY <2>2, <3>2 DEF CallOf, Phase, Result
    <3>6. Phase(t)' = "answered"
      BY <1>1, <2>2, <3>2, <3>3 DEF Phase
    <3>7. CallOf(t)' = [phase |-> "answered", cmd |-> cmd[t], ok |-> ok]
      BY <1>1, <3>4, <3>6 DEF CallOf, Result
    <3>8. Service!Finish(t, ok)
      BY <2>1, <2>5, <3>5, <3>7 DEF Service!Finish, Service!Running, Calls, CallOf
    <3>9. QED
      BY <3>8 DEF Service!Next
  <2>8. CASE WorkerPut
    <3>1. ~Executing(t) /\ ~Executing(t)' /\ UNCHANGED <<answer, command_queue>>
      BY <2>8 DEF WorkerPut, Executing
    <3>2. CallOf(t)' = CallOf(t)
      BY <1>1, <2>2, <3>1 DEF CallOf, Phase, Result, Queued
    <3>3. QED
      BY <2>1, <2>4, <3>2, NoCallChanges
  <2>9. QED
    BY <1>4, <2>6, <2>7, <2>8
<1>5. QED
  BY <1>2, <1>3, <1>4 DEF WorkerStep

(* root_worker.py keeps the promise CommandService makes to its callers:     *)
(* one command at a time, begun and finished once, its result to its caller. *)
THEOREM Refinement == Spec => ImplementsService
<1>1. Init => Service!Init
  BY DEF Init, Service!Init, Service!NoCall, Calls, WorkerStatus, Phase, Result
<1>2. IInv /\ IInv' /\ [Next]_vars => [Service!Next]_<<WorkerStatus, Calls>>
  <2> SUFFICES ASSUME IInv, IInv', [Next]_vars
               PROVE  [Service!Next]_<<WorkerStatus, Calls>>
    OBVIOUS
  <2>1. CASE UNCHANGED vars
    BY <2>1 DEF vars, workerVars, queueVars, callerVars, ownerVars, WorkerStatus,
                Calls, Phase, Result, Executing, Queued
  <2>2. QED
    BY <2>1, CallerSimulation, WorkerSimulation DEF Next
<1>3. QED
  BY <1>1, <1>2, Inductive, PTL DEF Spec, ImplementsService, Service!Spec, Service!serviceVars

=============================================================================
