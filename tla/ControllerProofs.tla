-------------------------- MODULE ControllerProofs --------------------------
(***************************************************************************)
(* The Controller discharges what RootWorker assumes of its environment,   *)
(* for any number of threads, requests, calls and signals, so everything   *)
(* RootWorkerProofs shows of the worker alone holds in the whole program.  *)
(***************************************************************************)
EXTENDS Controller, RootWorkerProofs, SequenceTheorems

(* The states in which the executor has run its last task.                 *)
Finished == main \in {"leaving", "stopping", "returned", "exited"}

(* The stages of BaseWorker follow those of the main thread.               *)
OwnerStage ==
    /\ owner = "new" <=> main = "boot"
    /\ owner = "started" <=> main \in {"init", "armed", "serving", "joining",
                                       "shutdown", "leaving", "killed"}
    /\ owner = "stopping" <=> main = "stopping"

(* Requests come from a server that was ready, tasks from requests.        *)
ServerStage ==
    /\ main \in {"boot", "init", "armed", "killed"} => server = "new"
    /\ main = "serving" => server # "new"
    /\ main \in {"joining", "shutdown"} => server \in {"draining", "stopped"}
    /\ server = "new" => \A p \in Posts : post[p] = "none"
    /\ server = "ready" => main = "serving"
    /\ Finished => server # "ready"
    /\ ~accepting => main = "shutdown" \/ Finished
    /\ main = "shutdown" => ~accepting
    /\ Finished => server = "new" \/ ~accepting

(* One stop thread drains the server, and while it does HTTP threads may be  *)
(* at work; the run that joins it, or a later one, is in shutdown.          *)
StopStage ==
    /\ \A i \in 1..Len(stop_threads) : stop_threads[i] = "drain" => server = "draining"
    /\ \A i, j \in 1..Len(stop_threads) :
          stop_threads[i] = "drain" /\ stop_threads[j] = "drain" => i = j
    /\ server = "draining" => \E i \in 1..Len(stop_threads) : stop_threads[i] = "drain"
    /\ server = "stopped" => stop_threads # <<>> /\ \A p \in Posts : post[p] # "handling"
    /\ main = "joining" => joined \in 1..Len(stop_threads)
    /\ ~accepting => \/ Len(stop_threads) >= 2
                     \/ \A p \in Posts : post[p] # "handling"

(* The backlog holds the queued requests, each once.                        *)
QueuedOnce ==
    /\ \A p \in Posts : post[p] = "queued" =>
          \E i \in 1..Len(backlog) : backlog[i] = p
    /\ \A i \in 1..Len(backlog) : post[backlog[i]] = "queued"
    /\ \A i, j \in 1..Len(backlog) : backlog[i] = backlog[j] => i = j

(* The executor threads work on the running requests, each on its own, and  *)
(* only such a thread is in a call.                                         *)
RunningOnce ==
    /\ \A p \in Posts : post[p] = "running" => \E t \in Threads : work[t] = p
    /\ \A t \in Threads : work[t] # Nothing => post[work[t]] = "running"
    /\ \A t, u \in Threads : work[t] # Nothing /\ work[t] = work[u] => t = u
    /\ \A t \in Threads : at[t] # "idle" => work[t] # Nothing

Bookkeeping == QueuedOnce /\ RunningOnce

StopThreads == Seq({"start", "drain", "done"})

CInv ==
    /\ ControllerTypeOK
    /\ at \in [Threads -> {"idle", "check", "lock", "put", "get", "raised"}]
    /\ OwnerStage
    /\ ServerStage
    /\ StopStage
    /\ Bookkeeping
    /\ TasksEndFirst
    /\ RejectedOnlyAfterSecondSignal

-----------------------------------------------------------------------------

LEMMA CInvInit == ControllerInit => CInv
<1> SUFFICES ASSUME ControllerInit
             PROVE  CInv
  OBVIOUS
<1>1. stop_threads \in StopThreads /\ backlog \in Seq(Posts)
  BY DEF ControllerInit, StopThreads
<1>2. ControllerTypeOK
  <2>1. work \in [Threads -> Posts \union {Nothing}]
    BY DEF ControllerInit
  <2>2. calls \in [Threads -> 0..MaxCalls] /\ sigterms \in 0..MaxSigterm
    BY ControllerAssumption DEF ControllerInit
  <2>3. post \in [Posts -> {"none", "handling", "queued", "running", "done",
                            "aborted", "rejected"}]
    BY DEF ControllerInit
  <2>4. QED
    BY <1>1, <2>1, <2>2, <2>3 DEF ControllerInit, ControllerTypeOK, StopThreads
<1>3. at \in [Threads -> {"idle", "check", "lock", "put", "get", "raised"}]
  BY DEF ControllerInit, Init
<1>4. OwnerStage /\ ServerStage /\ TasksEndFirst
  BY DEF ControllerInit, Init, OwnerStage, ServerStage, TasksEndFirst, Finished
<1>6. StopStage /\ RejectedOnlyAfterSecondSignal
  BY DEF ControllerInit, StopStage, RejectedOnlyAfterSecondSignal
<1>5. Bookkeeping
  BY DEF ControllerInit, Init, Bookkeeping, QueuedOnce, RunningOnce
<1>7. QED
  BY <1>2, <1>3, <1>4, <1>5, <1>6 DEF CInv

LEMMA OnlyIndex ==
    ASSUME NEW n \in Nat, n < 2, NEW j \in 1..n
    PROVE  n = 1 /\ j = 1
OBVIOUS

(* The steps of the main thread and of the stop threads and signals.         *)
LEMMA CInvMain ==
    ASSUME CInv,
           \/ MainStep
           \/ ServeFails
           \/ Terminate
           \/ Handle
           \/ Die
           \/ \E i \in 1..Len(stop_threads) : StopStep(i)
    PROVE  CInv'
<1> USE DEF CInv
<1>1. UNCHANGED <<at, work, backlog, calls, post>>
  BY DEF MainStep, StartWorker, InstallHandlers, Serve, LeaveServe, Shutdown,
         ShutdownReturns, StopWorker, WorkerStopped, Exit, ServeFails, Terminate,
         Handle, Die, StopStep, StopServer, ServerDrained, Run, RequestStop,
         AwaitProcess, vars, callerVars, executorVars
<1>2. Bookkeeping'
  BY <1>1 DEF Bookkeeping, QueuedOnce, RunningOnce
<1>3. CASE MainStep \/ ServeFails \/ Die
  <2>1. ControllerTypeOK'
    <3>1. UNCHANGED <<stop_threads, pending, sigterms>>
      BY <1>3 DEF MainStep, StartWorker, InstallHandlers, Serve, LeaveServe,
           Shutdown, ShutdownReturns, StopWorker, WorkerStopped, Exit, ServeFails,
           Die, serverVars, signalVars
    <3>2. joined' \in Nat
      BY <1>3, LenProperties
         DEF MainStep, StartWorker, InstallHandlers, Serve, LeaveServe,
           Shutdown, ShutdownReturns, StopWorker, WorkerStopped, Exit, ServeFails,
           Die, ControllerTypeOK
    <3>3. /\ main' \in {"boot", "init", "armed", "serving", "joining", "shutdown",
                       "leaving", "stopping", "returned", "exited", "killed"}
          /\ server' \in {"new", "ready", "draining", "stopped"}
          /\ accepting' \in BOOLEAN
      BY <1>3 DEF MainStep, StartWorker, InstallHandlers, Serve, LeaveServe,
           Shutdown, ShutdownReturns, StopWorker, WorkerStopped, Exit, ServeFails,
           Die, serverVars, executorVars, ControllerTypeOK
    <3>4. QED
      BY <1>1, <3>1, <3>2, <3>3 DEF ControllerTypeOK
  <2>2. OwnerStage'
    BY <1>3 DEF MainStep, StartWorker, InstallHandlers, Serve, LeaveServe,
         Shutdown, ShutdownReturns, StopWorker, WorkerStopped, Exit, ServeFails,
         Die, Run, RequestStop, AwaitProcess, vars, ownerVars, OwnerStage
  <2>3. ServerStage'
    <3> USE DEF ServerStage, Finished
    <3>1. CASE Serve \/ ServeFails
      BY <1>1, <3>1 DEF Serve, ServeFails, serverVars, executorVars
    <3>2. CASE LeaveServe \/ Shutdown
      BY <1>1, <3>2 DEF LeaveServe, Shutdown, serverVars, executorVars, ControllerTypeOK
    <3>3. CASE ShutdownReturns \/ StopWorker \/ WorkerStopped \/ Exit
      BY <1>1, <3>3 DEF ShutdownReturns, StopWorker, WorkerStopped, Exit, serverVars,
           executorVars
    <3>4. CASE StartWorker \/ InstallHandlers \/ Die
      BY <1>1, <3>4 DEF StartWorker, InstallHandlers, Die, serverVars, executorVars
    <3>5. QED
      BY <1>3, <3>1, <3>2, <3>3, <3>4 DEF MainStep
  <2>4. TasksEndFirst'
    <3>1. CASE ShutdownReturns
      <4>1. 1..Len(backlog) = {}
        BY <3>1 DEF ShutdownReturns
      <4>2. \A p \in Posts : post[p] \notin {"queued", "running"}
        BY <3>1, <4>1, ControllerAssumption DEF ShutdownReturns, Bookkeeping, QueuedOnce, RunningOnce
      <4>3. QED
        BY <1>1, <4>2 DEF TasksEndFirst
    <3>2. CASE ServeFails
      BY <1>1, <3>2 DEF ServeFails, TasksEndFirst, ServerStage
    <3>3. CASE ~ShutdownReturns /\ ~ServeFails
      BY <1>1, <1>3, <3>3 DEF MainStep, StartWorker, InstallHandlers, Serve,
           LeaveServe, Shutdown, StopWorker, WorkerStopped, Exit, Die, TasksEndFirst
    <3>4. QED
      BY <3>1, <3>2, <3>3
  <2>5. StopStage'
    <3> USE DEF StopStage
    <3>1. CASE LeaveServe
      <4>1. server \in {"draining", "stopped"}
        BY <3>1 DEF LeaveServe, ServerStage, ControllerTypeOK
      <4>2. stop_threads # <<>>
        <5>1. CASE server = "draining"
          <6>1. PICK i \in 1..Len(stop_threads) : stop_threads[i] = "drain"
            BY <5>1
          <6>2. QED
            BY <6>1
        <5>2. QED
          BY <4>1, <5>1
      <4>3. Len(stop_threads) \in 1..Len(stop_threads)
        BY <4>2, EmptySeq, LenProperties DEF ControllerTypeOK
      <4>4. QED
        BY <1>1, <3>1, <4>3 DEF LeaveServe, serverVars, executorVars
    <3>2. CASE Shutdown
      <4>1. CASE Len(stop_threads) < 2
        <5>1. Len(stop_threads) = 1 /\ joined = 1
          <6>1. Len(stop_threads) \in Nat
            BY DEF ControllerTypeOK
          <6>2. joined \in 1..Len(stop_threads)
            BY <3>2 DEF Shutdown
          <6>3. QED
            BY <4>1, <6>1, <6>2, OnlyIndex
        <5>2. server = "stopped"
          BY <3>2, <5>1 DEF Shutdown, ServerStage
        <5>3. QED
          BY <1>1, <3>2, <5>2 DEF Shutdown, serverVars
      <4>2. CASE Len(stop_threads) >= 2
        BY <1>1, <3>2, <4>2 DEF Shutdown, serverVars
      <4>3. QED
        BY <4>1, <4>2, LenProperties DEF ControllerTypeOK
    <3>3. CASE Serve
      BY <1>1, <3>3 DEF Serve, ServerStage, executorVars
    <3>4. CASE ~LeaveServe /\ ~Shutdown /\ ~Serve
      BY <1>1, <1>3, <3>4 DEF MainStep, StartWorker, InstallHandlers, ShutdownReturns,
           StopWorker, WorkerStopped, Exit, ServeFails, Die, serverVars, executorVars
    <3>5. QED
      BY <3>1, <3>2, <3>3, <3>4
  <2>6. RejectedOnlyAfterSecondSignal'
    <3>1. stop_threads' = stop_threads
      BY <1>3 DEF MainStep, StartWorker, InstallHandlers, Serve, LeaveServe, Shutdown,
           ShutdownReturns, StopWorker, WorkerStopped, Exit, ServeFails, Die, serverVars
    <3>2. QED
      BY <1>1, <3>1 DEF RejectedOnlyAfterSecondSignal
  <2>7. QED
    BY <1>1, <1>2, <2>1, <2>2, <2>3, <2>4, <2>5, <2>6
<1>4. CASE Terminate \/ Handle
  <2>1. ControllerTypeOK'
    <3>1. CASE Terminate
      BY <3>1, ControllerAssumption DEF Terminate, ControllerTypeOK, mainVars,
           serverVars, executorVars
    <3>2. CASE Handle
      <4>1. stop_threads' \in StopThreads
        BY <3>2, AppendProperties DEF Handle, ControllerTypeOK, StopThreads
      <4>2. QED
        BY <1>1, <3>2, <4>1 DEF Handle, ControllerTypeOK, StopThreads, mainVars,
             executorVars
    <3>3. QED
      BY <1>4, <3>1, <3>2
  <2>2. UNCHANGED <<main, server, accepting, owner>>
    BY <1>4 DEF Terminate, Handle, mainVars, serverVars, executorVars, vars, ownerVars
  <2>3. StopStage' /\ RejectedOnlyAfterSecondSignal'
    <3>1. CASE Terminate
      BY <1>1, <2>2, <3>1
         DEF Terminate, StopStage, RejectedOnlyAfterSecondSignal, mainVars, serverVars
    <3>2. CASE Handle
      <4>1. /\ Len(stop_threads') = Len(stop_threads) + 1
            /\ stop_threads' # <<>>
            /\ \A i \in 1..Len(stop_threads) : stop_threads'[i] = stop_threads[i]
            /\ stop_threads'[Len(stop_threads) + 1] = "start"
            /\ Len(stop_threads) \in Nat
        <5>1. "start" \in {"start", "drain", "done"}
          OBVIOUS
        <5>2. stop_threads \in Seq({"start", "drain", "done"})
          BY DEF ControllerTypeOK
        <5>3. stop_threads' = Append(stop_threads, "start")
          BY <3>2 DEF Handle
        <5>4. QED
          BY <5>1, <5>2, <5>3, AppendProperties, LenProperties
      <4>2. QED
        BY <1>1, <2>2, <3>2, <4>1
           DEF Handle, StopStage, RejectedOnlyAfterSecondSignal, mainVars
    <3>3. QED
      BY <1>4, <3>1, <3>2
  <2>4. QED
    BY <1>1, <1>2, <2>1, <2>2, <2>3 DEF OwnerStage, ServerStage, TasksEndFirst, Finished
<1>5. ASSUME NEW i \in 1..Len(stop_threads), StopStep(i)
      PROVE  CInv'
  <2>1. UNCHANGED <<main, joined, pending, sigterms, accepting, owner>>
    BY <1>5 DEF StopStep, StopServer, ServerDrained, mainVars, signalVars,
         executorVars, vars, ownerVars
  <2>2. stop_threads' \in StopThreads
    <3>1. \A e \in {"start", "drain", "done"} :
             [stop_threads EXCEPT ![i] = e] \in StopThreads
      BY ExceptSeq DEF ControllerTypeOK, StopThreads
    <3>2. QED
      BY <1>5, <3>1 DEF StopStep, StopServer, ServerDrained
  <2>3. ControllerTypeOK'
    BY <1>1, <1>5, <2>1, <2>2
       DEF StopStep, StopServer, ServerDrained, ControllerTypeOK, StopThreads
  <2>4. ServerStage'
    BY <1>1, <1>5, <2>1
       DEF StopStep, StopServer, ServerDrained, ServerStage, StopStage, Finished
  <2>5. /\ Len(stop_threads') = Len(stop_threads)
        /\ \A j \in 1..Len(stop_threads) : j # i => stop_threads'[j] = stop_threads[j]
        /\ StopServer(i) /\ server = "ready" => stop_threads'[i] = "drain"
        /\ ~(StopServer(i) /\ server = "ready") => stop_threads'[i] = "done"
    BY <1>5, ExceptSeq DEF StopStep, StopServer, ServerDrained, ControllerTypeOK
  <2>6. StopStage'
    <3>1. stop_threads' # <<>>
      BY <2>5
    <3>2. CASE StopServer(i) /\ server = "ready"
      BY <1>1, <2>1, <2>5, <3>1, <3>2 DEF StopServer, StopStage
    <3>3. CASE StopServer(i) /\ server # "ready"
      BY <1>1, <2>1, <2>5, <3>1, <3>3 DEF StopServer, StopStage
    <3>4. CASE ServerDrained(i)
      <4>1. ~StopServer(i)
        BY <3>4 DEF ServerDrained, StopServer
      <4>2. QED
        BY <1>1, <2>1, <2>5, <3>1, <3>4, <4>1 DEF ServerDrained, StopStage
    <3>5. QED
      BY <1>5, <3>2, <3>3, <3>4 DEF StopStep
  <2>7. QED
    BY <1>1, <1>2, <2>1, <2>3, <2>4, <2>5, <2>6
       DEF OwnerStage, TasksEndFirst, RejectedOnlyAfterSecondSignal
<1>6. QED
  BY <1>3, <1>4, <1>5

(* The steps of the HTTP threads, the executor threads and the worker.       *)
LEMMA CInvTasks ==
    ASSUME CInv,
           \/ \E p \in Posts : Accept(p) \/ Submit(p)
           \/ \E t \in Threads : TaskStep(t)
           \/ WorkerRuns
           \/ WorkerDies
    PROVE  CInv'
<1> USE ControllerAssumption DEF CInv
<1>1. UNCHANGED <<main, joined, server, stop_threads, sigterms, accepting, owner>>
  BY DEF Accept, Submit, TaskStep, Begin, TaskCalls, TaskInCall, TaskEnds,
         TaskAborts, EndTask, Call, CheckAlive, Acquire, Put, Get, Forget,
         WorkerRuns, WorkerDies, WorkerStep, WorkerStart, WorkerCheck, WorkerGet,
         WorkerTimeout, WorkerExecute, WorkerPut, WorkerCrash, vars, ownerVars,
         mainVars, serverVars, signalVars, executorVars, controllerVars
<1>elems. /\ \A i \in 1..Len(backlog) : backlog[i] \in Posts
       /\ \A t \in Threads : work[t] # Nothing => work[t] \in Posts
  BY ElementOfSeq DEF ControllerTypeOK
<1>2. OwnerStage'
  BY <1>1 DEF OwnerStage
<1>3. ASSUME NEW p \in Posts, Accept(p)
      PROVE  CInv'
  <2>1. UNCHANGED <<at, work, backlog, calls, pending>>
    BY <1>3 DEF Accept, vars, callerVars, executorVars, signalVars
  <2>2. post' = [post EXCEPT ![p] = "handling"] /\ post[p] = "none"
    BY <1>3 DEF Accept
  <2>3. server = "ready" /\ main = "serving" /\ accepting
    BY <1>3 DEF Accept, ServerStage
  <2>4. Bookkeeping'
    <3>1. QueuedOnce'
      BY <1>elems, <2>1, <2>2 DEF Bookkeeping, QueuedOnce, ControllerTypeOK
    <3>2. RunningOnce'
      BY <1>elems, <2>1, <2>2 DEF Bookkeeping, RunningOnce, ControllerTypeOK
    <3>3. QED
      BY <3>1, <3>2 DEF Bookkeeping
  <2>5. QED
    BY <1>1, <1>2, <2>1, <2>2, <2>3, <2>4
       DEF ControllerTypeOK, ServerStage, StopStage, TasksEndFirst, Finished,
           RejectedOnlyAfterSecondSignal
<1>4. ASSUME NEW p \in Posts, Submit(p)
      PROVE  CInv'
  <2>1. UNCHANGED <<at, work, calls, pending>> /\ post[p] = "handling"
    BY <1>4 DEF Submit, vars, callerVars, signalVars
  <2>2. server # "new" /\ server # "stopped"
    BY <2>1 DEF ServerStage, StopStage
  <2>3. CASE accepting
    <3>1. /\ backlog' = Append(backlog, p)
          /\ post' = [post EXCEPT ![p] = "queued"]
      BY <1>4, <2>3 DEF Submit
    <3>2. /\ backlog' \in Seq(Posts)
          /\ Len(backlog') = Len(backlog) + 1
          /\ \A i \in 1..Len(backlog) : backlog'[i] = backlog[i]
          /\ backlog'[Len(backlog) + 1] = p
          /\ Len(backlog) \in Nat
      BY <3>1, AppendProperties, LenProperties DEF ControllerTypeOK
    <3>3. Bookkeeping'
      <4>1. \A i \in 1..Len(backlog) : backlog[i] # p
        BY <2>1 DEF Bookkeeping, QueuedOnce
      <4>2. \A q \in Posts : post'[q] = "queued" =>
               \E i \in 1..Len(backlog') : backlog'[i] = q
        <5>1. \A q \in Posts \ {p} : post'[q] = post[q]
          BY <3>1 DEF ControllerTypeOK
        <5>2. Len(backlog) + 1 \in 1..Len(backlog')
          BY <3>2
        <5>3. \A i \in 1..Len(backlog) : i \in 1..Len(backlog')
          BY <3>2
        <5>4. QED
          BY <3>2, <5>1, <5>2, <5>3 DEF Bookkeeping, QueuedOnce
      <4>3. \A i \in 1..Len(backlog') : post'[backlog'[i]] = "queued"
        BY <1>elems, <3>1, <3>2 DEF Bookkeeping, QueuedOnce, ControllerTypeOK
      <4>4. \A i, j \in 1..Len(backlog') : backlog'[i] = backlog'[j] => i = j
        BY <3>2, <4>1 DEF Bookkeeping, QueuedOnce
      <4>5. RunningOnce'
        BY <1>elems, <2>1, <3>1 DEF Bookkeeping, RunningOnce, ControllerTypeOK
      <4>6. QED
        BY <4>2, <4>3, <4>4, <4>5 DEF Bookkeeping, QueuedOnce
    <3>4. main \notin {"leaving", "stopping", "returned", "exited"}
      BY <2>2, <2>3 DEF ServerStage, Finished
    <3>5. QED
      BY <1>1, <1>2, <2>1, <2>2, <2>3, <3>1, <3>2, <3>3, <3>4
         DEF ControllerTypeOK, ServerStage, StopStage, TasksEndFirst, Finished,
             RejectedOnlyAfterSecondSignal
  <2>4. CASE ~accepting
    <3>1. backlog' = backlog /\ post' = [post EXCEPT ![p] = "rejected"]
      BY <1>4, <2>4 DEF Submit
    <3>2. Bookkeeping'
      <4>1. QueuedOnce'
        BY <1>elems, <2>1, <3>1 DEF Bookkeeping, QueuedOnce, ControllerTypeOK
      <4>2. RunningOnce'
        BY <1>elems, <2>1, <3>1 DEF Bookkeeping, RunningOnce, ControllerTypeOK
      <4>3. QED
        BY <4>1, <4>2 DEF Bookkeeping
    <3>3. Len(stop_threads) >= 2
      BY <2>1, <2>4 DEF StopStage
    <3>4. QED
      BY <1>1, <1>2, <2>1, <2>2, <3>1, <3>2, <3>3
         DEF ControllerTypeOK, ServerStage, StopStage, TasksEndFirst, Finished,
             RejectedOnlyAfterSecondSignal
  <2>5. QED
    BY <2>3, <2>4
<1>5. ASSUME NEW t \in Threads, Begin(t)
      PROVE  CInv'
  <2>1. UNCHANGED <<at, calls, pending>> /\ work[t] = Nothing
    BY <1>5 DEF Begin, vars, callerVars, signalVars
  <2> DEFINE p == Head(backlog)
  <2>2. p \in Posts /\ post[p] = "queued" /\ p = backlog[1] /\ Len(backlog) \in Nat \ {0}
    BY <1>5, HeadTailProperties, EmptySeq DEF Begin, ControllerTypeOK, Bookkeeping, QueuedOnce
  <2>3. /\ work' = [work EXCEPT ![t] = p]
        /\ post' = [post EXCEPT ![p] = "running"]
        /\ backlog' = Tail(backlog)
    BY <1>5 DEF Begin
  <2>4. /\ backlog' \in Seq(Posts)
        /\ Len(backlog') = Len(backlog) - 1
        /\ \A i \in 1..Len(backlog') : backlog'[i] = backlog[i + 1]
    BY <1>5, HeadTailProperties DEF Begin, ControllerTypeOK
  <2> HIDE DEF p
  <2>5. Bookkeeping'
    <3>1. \A i \in 1..Len(backlog') : backlog'[i] # p /\ post[backlog'[i]] = "queued"
                                     /\ backlog'[i] \in Posts
      BY <2>2, <2>4, ElementOfSeq DEF Bookkeeping, QueuedOnce
    <3>2. \A q \in Posts \ {p} : post[q] = "queued" =>
             \E i \in 1..Len(backlog') : backlog'[i] = q
      <4> SUFFICES ASSUME NEW q \in Posts \ {p}, post[q] = "queued"
                   PROVE  \E i \in 1..Len(backlog') : backlog'[i] = q
        OBVIOUS
      <4>1. PICK i \in 1..Len(backlog) : backlog[i] = q
        BY DEF Bookkeeping, QueuedOnce
      <4>2. i - 1 \in 1..Len(backlog') /\ (i - 1) + 1 = i
        BY <2>2, <2>4, <4>1
      <4>3. QED
        BY <2>4, <4>1, <4>2
    <3>3. \A i, j \in 1..Len(backlog') : backlog'[i] = backlog'[j] => i = j
      BY <2>2, <2>4 DEF Bookkeeping, QueuedOnce
    <3>4. \A u \in Threads : work[u] # p
      BY <2>2 DEF Bookkeeping, RunningOnce
    <3>5. QueuedOnce'
      <4>1. \A q \in Posts \ {p} : post'[q] = post[q]
        BY <2>3 DEF ControllerTypeOK
      <4>2. post'[p] = "running"
        BY <2>2, <2>3 DEF ControllerTypeOK
      <4>3. QED
        BY <3>1, <3>2, <3>3, <4>1, <4>2 DEF QueuedOnce
    <3>6. RunningOnce'
      BY <1>elems, <2>1, <2>2, <2>3, <3>4, ControllerAssumption
         DEF Bookkeeping, RunningOnce, ControllerTypeOK
    <3>7. QED
      BY <3>5, <3>6 DEF Bookkeeping
  <2>6. main \notin {"leaving", "stopping", "returned", "exited"} /\ server # "new"
    BY <2>2 DEF TasksEndFirst, ServerStage
  <2>7. QED
    BY <1>1, <1>2, <2>1, <2>2, <2>3, <2>4, <2>5, <2>6
       DEF ControllerTypeOK, ServerStage, StopStage, TasksEndFirst, Finished,
           RejectedOnlyAfterSecondSignal
<1>6. ASSUME NEW t \in Threads, TaskEnds(t) \/ TaskAborts(t)
      PROVE  CInv'
  <2>1. work[t] # Nothing /\ work[t] \in Posts /\ post[work[t]] = "running"
    BY <1>6 DEF TaskEnds, TaskAborts, Forget, Bookkeeping, RunningOnce, ControllerTypeOK
  <2>2. PICK o \in {"done", "aborted"} : EndTask(t, o)
    BY <1>6 DEF TaskEnds, TaskAborts
  <2>3. UNCHANGED <<backlog, pending>>
    BY <2>2 DEF EndTask, signalVars
  <2>4. /\ at' \in [Threads -> {"idle", "check", "lock", "put", "get", "raised"}]
        /\ at'[t] = "idle"
        /\ \A u \in Threads : u # t => at'[u] = at[u]
    BY <1>6 DEF TaskEnds, TaskAborts, Forget, vars, callerVars
  <2>5. /\ work' \in [Threads -> Posts \union {Nothing}]
        /\ work'[t] = Nothing
        /\ \A u \in Threads : u # t => work'[u] = work[u]
        /\ calls' \in [Threads -> 0..MaxCalls]
    BY <2>2 DEF EndTask, ControllerTypeOK
  <2>6. /\ post' \in [Posts -> {"none", "handling", "queued", "running", "done",
                               "aborted", "rejected"}]
        /\ \A p \in Posts : p # work[t] => post'[p] = post[p]
        /\ post'[work[t]] = o
    BY <2>1, <2>2 DEF EndTask, ControllerTypeOK
  <2>7. Bookkeeping'
    <3>1. QueuedOnce'
      BY <1>elems, <2>1, <2>3, <2>6 DEF Bookkeeping, QueuedOnce
    <3>2. RunningOnce'
      <4>1. \A p \in Posts : post'[p] = "running" => \E u \in Threads : work'[u] = p
        <5> SUFFICES ASSUME NEW p \in Posts, post'[p] = "running"
                     PROVE  \E u \in Threads : work'[u] = p
          OBVIOUS
        <5>1. p # work[t] /\ post[p] = "running"
          BY <2>6
        <5>2. PICK u \in Threads : work[u] = p
          BY <5>1 DEF Bookkeeping, RunningOnce
        <5>3. QED
          BY <2>5, <5>1, <5>2
      <4>2. \A u \in Threads : work'[u] # Nothing => post'[work'[u]] = "running"
        <5> SUFFICES ASSUME NEW u \in Threads, work'[u] # Nothing
                     PROVE  post'[work'[u]] = "running"
          OBVIOUS
        <5>1. u # t /\ work'[u] = work[u]
          BY <2>5
        <5>2. work[u] # work[t] /\ work[u] \in Posts /\ post[work[u]] = "running"
          <6>1. work[u] # Nothing /\ work[t] # Nothing
            BY <2>1, <5>1
          <6>2. work[u] \in Posts
            BY <1>elems, <6>1
          <6>3. work[u] # work[t]
            BY <5>1, <6>1 DEF Bookkeeping, RunningOnce
          <6>4. post[work[u]] = "running"
            BY <6>1 DEF Bookkeeping, RunningOnce
          <6>5. QED
            BY <6>2, <6>3, <6>4
        <5>3. post'[work[u]] = post[work[u]]
          BY <2>6, <5>2
        <5>4. QED
          BY <5>1, <5>2, <5>3
      <4>3. \A u, v \in Threads : work'[u] # Nothing /\ work'[u] = work'[v] => u = v
        BY <2>5 DEF Bookkeeping, RunningOnce
      <4>4. \A u \in Threads : at'[u] # "idle" => work'[u] # Nothing
        BY <2>4, <2>5 DEF Bookkeeping, RunningOnce
      <4>5. QED
        BY <4>1, <4>2, <4>3, <4>4 DEF RunningOnce
    <3>3. QED
      BY <3>1, <3>2 DEF Bookkeeping
  <2>8. server # "new"
    BY <2>1 DEF ServerStage
  <2>9. QED
    BY <1>1, <1>2, <2>1, <2>3, <2>4, <2>5, <2>6, <2>7, <2>8
       DEF ControllerTypeOK, ServerStage, StopStage, TasksEndFirst, Finished,
           RejectedOnlyAfterSecondSignal
<1>7. ASSUME NEW t \in Threads, TaskCalls(t) \/ TaskInCall(t)
      PROVE  CInv'
  <2>1. UNCHANGED <<work, backlog, post>> /\ work[t] # Nothing
    BY <1>7 DEF TaskCalls, TaskInCall, CheckAlive, Acquire, Put, Get, executorVars,
                Bookkeeping, RunningOnce
  <2>2. /\ at' \in [Threads -> {"idle", "check", "lock", "put", "get", "raised"}]
        /\ \A u \in Threads : u # t => at'[u] = at[u]
    BY <1>7 DEF TaskCalls, TaskInCall, Call, CheckAlive, Acquire, Put, Get
  <2>3. calls' \in [Threads -> 0..MaxCalls] /\ pending' \in BOOLEAN
    <3>1. CASE TaskCalls(t)
      BY <3>1 DEF TaskCalls, signalVars, ControllerTypeOK
    <3>2. CASE TaskInCall(t)
      <4>1. pending' \in BOOLEAN
        BY <3>2 DEF TaskInCall, ControllerTypeOK
      <4>2. QED
        BY <3>2, <4>1 DEF TaskInCall, executorVars, ControllerTypeOK
    <3>3. QED
      BY <1>7, <3>1, <3>2
  <2>4. Bookkeeping'
    BY <2>1, <2>2 DEF Bookkeeping, QueuedOnce, RunningOnce
  <2>5. QED
    BY <1>1, <1>2, <2>1, <2>2, <2>3, <2>4
       DEF ControllerTypeOK, ServerStage, StopStage, TasksEndFirst, Finished,
           RejectedOnlyAfterSecondSignal
<1>8. CASE WorkerRuns \/ WorkerDies
  <2>1. UNCHANGED <<at, work, backlog, calls, post, pending>>
    BY <1>8 DEF WorkerRuns, WorkerDies, WorkerStep, WorkerStart, WorkerCheck,
         WorkerGet, WorkerTimeout, WorkerExecute, WorkerPut, WorkerCrash, callerVars,
         signalVars, executorVars, controllerVars
  <2>2. Bookkeeping'
    BY <1>1, <2>1 DEF Bookkeeping, QueuedOnce, RunningOnce
  <2>3. ControllerTypeOK'
    BY <1>1, <2>1 DEF ControllerTypeOK
  <2>4. QED
    BY <1>1, <1>2, <2>1, <2>2, <2>3
       DEF ServerStage, StopStage, TasksEndFirst, Finished,
           RejectedOnlyAfterSecondSignal
<1>9. QED
  BY <1>3, <1>4, <1>5, <1>6, <1>7, <1>8 DEF TaskStep

THEOREM ControllerInductive == ControllerSpec => []CInv
<1>1. CInv /\ [ControllerNext]_allVars => CInv'
  <2> SUFFICES ASSUME CInv, [ControllerNext]_allVars
               PROVE  CInv'
    OBVIOUS
  <2>1. CASE UNCHANGED allVars
    BY <2>1 DEF allVars, vars, callerVars, ownerVars, controllerVars, mainVars,
         serverVars, signalVars, executorVars, CInv, ControllerTypeOK, OwnerStage,
         ServerStage, StopStage, Bookkeeping, QueuedOnce, RunningOnce, TasksEndFirst,
         Finished,
         RejectedOnlyAfterSecondSignal
  <2>2. QED
    BY <2>1, CInvMain, CInvTasks DEF ControllerNext
<1>2. QED
  BY <1>1, CInvInit, PTL DEF ControllerSpec

(* The controller's variables keep their types, for any threads, requests    *)
(* and bounds.                                                               *)
THEOREM ControllerTypeCorrect == ControllerSpec => []ControllerTypeOK
<1>1. CInv => ControllerTypeOK
    BY DEF CInv
<1>2. QED
  BY <1>1, ControllerInductive, PTL

(* No request is turned down by the executor before a second SIGTERM came.   *)
THEOREM RejectionHolds == ControllerSpec => []RejectedOnlyAfterSecondSignal
<1>1. CInv => RejectedOnlyAfterSecondSignal
  BY DEF CInv
<1>2. QED
  BY <1>1, ControllerInductive, PTL

(* The tasks have ended when the worker is asked to stop.                    *)
THEOREM TasksEndFirstHolds == ControllerSpec => []TasksEndFirst
<1>1. CInv => TasksEndFirst
  BY DEF CInv
<1>2. QED
  BY <1>1, ControllerInductive, PTL

(* The whole program is an environment RootWorker can live in.               *)
THEOREM WorkerEnvironment == ControllerSpec => ImplementsRootWorker
<1>1. ControllerInit => Init
  BY DEF ControllerInit
<1>2. CInv /\ [ControllerNext]_allVars => [Next]_vars
  <2> SUFFICES ASSUME CInv, [ControllerNext]_allVars
               PROVE  [Next]_vars
    OBVIOUS
  <2>1. CASE StartWorker \/ WorkerStopped \/ WorkerRuns \/ WorkerDies
    BY <2>1 DEF StartWorker, WorkerStopped, WorkerRuns, WorkerDies, Next
  <2>2. CASE StopWorker
    <3>1. \A t \in Threads : at[t] = "idle"
      BY <2>2 DEF StopWorker, CInv, TasksEndFirst, Bookkeeping, RunningOnce, ControllerTypeOK
    <3>2. Quiescent
      BY <3>1 DEF Quiescent, InCall
    <3>3. QED
      BY <2>2, <3>2 DEF StopWorker, Next
  <2>3. ASSUME NEW t \in Threads, TaskCalls(t)
        PROVE  [Next]_vars
    <3>1. post[work[t]] = "running" /\ work[t] \in Posts
      BY <2>3 DEF TaskCalls, CInv, Bookkeeping, RunningOnce, ControllerTypeOK
    <3>2. server # "new" /\ main \notin {"stopping", "returned", "exited"}
      BY <3>1 DEF CInv, ServerStage, TasksEndFirst
    <3>3. owner = "started"
      BY <3>2 DEF CInv, OwnerStage, ServerStage, ControllerTypeOK
    <3>4. QED
      BY <2>3, <3>3 DEF TaskCalls, Next
  <2>4. ASSUME NEW t \in Threads, TaskInCall(t) \/ TaskAborts(t)
        PROVE  [Next]_vars
    BY <2>4 DEF TaskInCall, TaskAborts, CallerStep, Next
  <2>5. CASE UNCHANGED vars
    BY <2>5
  <2>6. QED
    BY <2>1, <2>2, <2>3, <2>4, <2>5
       DEF ControllerNext, MainStep, InstallHandlers, Serve, LeaveServe, Shutdown,
           ShutdownReturns, Exit, ServeFails, Terminate, Handle, Die, StopStep,
           StopServer, ServerDrained, Accept, Submit, TaskStep, Begin, TaskEnds,
           allVars
<1>3. QED
  BY <1>1, <1>2, ControllerInductive, PTL DEF ControllerSpec, ImplementsRootWorker, Spec

-----------------------------------------------------------------------------
(* The whole program.                                                       *)

(* What RootWorkerProofs shows of the worker alone holds of the program:    *)
(* send_cmd_and_wait, called by the executor's threads while the program is *)
(* served and taken down, keeps the promise CommandService makes.           *)
THEOREM ProgramServes == ControllerSpec => ImplementsService
BY WorkerEnvironment, Refinement, PTL DEF ImplementsRootWorker

(* Every command that a task sends is answered to that task, the queues are *)
(* empty when stop closes them, and a thread tells the main process to stop *)
(* for a worker that was killed and for no other.                           *)
THEOREM ProgramAnswersItsOwn ==
    ControllerSpec => [](OwnAnswer /\ ClosedMeansQuiet /\ NoFalseAlarm)
BY WorkerEnvironment, OwnAnswerHolds, ClosedMeansQuietHolds, NoFalseAlarmHolds, PTL
   DEF ImplementsRootWorker

(* Where a reason comes from: what makes the stop threads, and what aborts  *)
(* a task, is a signal from outside or the one a call sent.                 *)
Told == sigterms > 0 \/ sigterm

ReasonInv ==
    /\ \A t \in Threads : at[t] = "raised" => sigterm
    /\ \A p \in Posts : post[p] = "aborted" => sigterm
    /\ pending \/ stop_threads # <<>> => Told

LEMMA ReasonInvStep ==
    ASSUME CInv, ReasonInv, [ControllerNext]_allVars
    PROVE  ReasonInv'
<1>1. /\ sigterms \in Nat /\ stop_threads \in StopThreads
      /\ at \in [Threads -> {"idle", "check", "lock", "put", "get", "raised"}]
      /\ work \in [Threads -> Posts \union {Nothing}]
      /\ post \in [Posts -> {"none", "handling", "queued", "running", "done",
                              "aborted", "rejected"}]
      /\ backlog \in Seq(Posts)
  BY ControllerAssumption DEF CInv, ControllerTypeOK, StopThreads
(* The steps that no thread's call has part in.                             *)
<1>2. ASSUME UNCHANGED <<at, sigterm>>, UNCHANGED post, UNCHANGED <<signalVars, stop_threads>>
      PROVE  ReasonInv'
  BY <1>2 DEF ReasonInv, Told, signalVars
<1>3. CASE MainStep \/ ServeFails \/ Die
  <2>1. UNCHANGED <<at, sigterm>> /\ UNCHANGED post /\ UNCHANGED <<signalVars, stop_threads>>
    BY <1>3 DEF MainStep, ServeFails, Die, StartWorker, InstallHandlers, Serve, LeaveServe,
                Shutdown, ShutdownReturns, StopWorker, WorkerStopped, Exit, Run, RequestStop,
                AwaitProcess, serverVars, vars, callerVars, ownerVars
  <2> QED BY <1>2, <2>1
<1>4. CASE WorkerRuns \/ WorkerDies
  <2>1. UNCHANGED <<at, sigterm>>
    BY <1>4 DEF WorkerRuns, WorkerDies, WorkerStep, WorkerStart, WorkerCheck, WorkerGet,
                WorkerTimeout, WorkerExecute, WorkerPut, WorkerCrash, callerVars, ownerVars
  <2>2. UNCHANGED post /\ UNCHANGED <<signalVars, stop_threads>>
    BY <1>4 DEF WorkerRuns, WorkerDies, controllerVars, serverVars
  <2> QED BY <1>2, <2>1, <2>2
<1>5. CASE Terminate
  <2>1. /\ UNCHANGED <<at, sigterm>> /\ UNCHANGED post
        /\ sigterms' = sigterms + 1
    BY <1>5 DEF Terminate, vars, callerVars, ownerVars
  <2> QED BY <1>1, <2>1 DEF ReasonInv, Told
<1>6. CASE Handle
  <2>1. /\ UNCHANGED <<at, sigterm>> /\ UNCHANGED post
        /\ UNCHANGED sigterms /\ pending
    BY <1>6 DEF Handle, vars, callerVars, ownerVars
  <2> QED BY <2>1 DEF ReasonInv, Told
<1>7. ASSUME NEW i \in 1..Len(stop_threads), StopStep(i)
      PROVE  ReasonInv'
  <2>1. /\ UNCHANGED <<at, sigterm>> /\ UNCHANGED post
        /\ UNCHANGED signalVars /\ stop_threads # <<>>
    BY <1>1, <1>7 DEF StopStep, StopServer, ServerDrained, vars, callerVars, ownerVars,
                      StopThreads
  <2> QED BY <2>1 DEF ReasonInv, Told, signalVars
<1>8. ASSUME NEW p \in Posts, Accept(p) \/ Submit(p)
      PROVE  ReasonInv'
  <2>1. /\ UNCHANGED <<at, sigterm>> /\ UNCHANGED <<signalVars, stop_threads>>
        /\ \A q \in Posts : post'[q] = "aborted" => post[q] = "aborted"
    BY <1>1, <1>8 DEF Accept, Submit, vars, callerVars, ownerVars, serverVars
  <2> QED BY <2>1 DEF ReasonInv, Told, signalVars
<1>9. ASSUME NEW t \in Threads, Begin(t) \/ TaskEnds(t)
      PROVE  ReasonInv'
  <2>1. /\ UNCHANGED <<at, sigterm>> /\ UNCHANGED <<signalVars, stop_threads>>
        /\ \A q \in Posts : post'[q] = "aborted" => post[q] = "aborted"
    BY <1>1, <1>9 DEF Begin, TaskEnds, EndTask, vars, callerVars, ownerVars, serverVars
  <2> QED BY <2>1 DEF ReasonInv, Told, signalVars
<1>10. ASSUME NEW t \in Threads, TaskCalls(t)
       PROVE  ReasonInv'
  <2>1. /\ UNCHANGED sigterm /\ UNCHANGED <<signalVars, stop_threads>> /\ UNCHANGED post
        /\ \A u \in Threads : at'[u] = "raised" => at[u] = "raised"
    BY <1>1, <1>10 DEF TaskCalls, Call, ownerVars, serverVars
  <2> QED BY <2>1 DEF ReasonInv, Told, signalVars
(* The call that finds the worker dead signals the main process.            *)
<1>11. ASSUME NEW t \in Threads, TaskInCall(t)
       PROVE  ReasonInv'
  <2>1. /\ UNCHANGED <<sigterms, stop_threads>> /\ UNCHANGED post
        /\ pending' = (pending \/ at'[t] = "raised")
    BY <1>11 DEF TaskInCall, serverVars
  <2>2. /\ sigterm => sigterm'
        /\ \A u \in Threads : at'[u] = "raised" => at[u] = "raised" \/ sigterm'
    BY <1>1, <1>11 DEF TaskInCall, CheckAlive, Acquire, Put, Get, ownerVars
  <2>3. \A u \in Threads : at'[u] = "raised" => sigterm'
    BY <2>2 DEF ReasonInv
  <2> QED BY <2>1, <2>2, <2>3 DEF ReasonInv, Told
<1>12. ASSUME NEW t \in Threads, TaskAborts(t)
       PROVE  ReasonInv'
  <2>1. at[t] = "raised" /\ UNCHANGED sigterm /\ UNCHANGED <<signalVars, stop_threads>>
    BY <1>12 DEF TaskAborts, Forget, EndTask, ownerVars, serverVars
  <2>2. sigterm /\ sigterm'
    BY <2>1 DEF ReasonInv
  <2> QED BY <2>1, <2>2 DEF ReasonInv, Told
<1>13. CASE UNCHANGED allVars
  BY <1>2, <1>13 DEF allVars, vars, callerVars, ownerVars, controllerVars, serverVars
<1> QED
  BY <1>3, <1>4, <1>5, <1>6, <1>7, <1>8, <1>9, <1>10, <1>11, <1>12, <1>13
     DEF ControllerNext, TaskStep

(* The service goes down, and drops a task, only when it was sent a SIGTERM *)
(* or its worker was killed: a task never takes a worker that has not been  *)
(* started, or that was asked to stop, for a dead one (root_worker.py:62).  *)
THEOREM StopsForAReasonHolds == ControllerSpec => []StopsForAReason
<1>1. ControllerInit => ReasonInv
  BY DEF ControllerInit, Init, ReasonInv
<1>2. ControllerSpec => []ReasonInv
  BY <1>1, ReasonInvStep, ControllerInductive, PTL DEF ControllerSpec
<1>3. CInv /\ ReasonInv /\ NoFalseAlarm => StopsForAReason
  <2> SUFFICES ASSUME CInv, ReasonInv, NoFalseAlarm PROVE StopsForAReason
    OBVIOUS
  <2>1. server \in {"draining", "stopped"} => stop_threads # <<>>
    BY DEF CInv, ControllerTypeOK, StopStage
  <2>2. \A p \in Posts : post[p] = "aborted" => process = "killed"
    BY DEF ReasonInv, NoFalseAlarm
  <2> QED BY <2>1, <2>2 DEF StopsForAReason, ReasonInv, Told, NoFalseAlarm
<1> QED
  BY <1>2, <1>3, ControllerInductive, ProgramAnswersItsOwn, PTL

=============================================================================
