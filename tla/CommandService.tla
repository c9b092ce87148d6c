--------------------------- MODULE CommandService ---------------------------
(***************************************************************************)
(* What RootWorker promises the executor threads that use it               *)
(* (wazo_plugind/root_worker.py), without saying how: a client invokes a   *)
(* privileged command (apt-get update, gdebi, apt-get remove), the worker  *)
(* runs at most one command at a time, and the client is handed the result *)
(* of its own command.  A client that finds the worker down is refused.    *)
(*                                                                         *)
(* RootWorker implements this specification; PluginTasks is built on it.   *)
(***************************************************************************)
CONSTANTS Clients,   (* the callers of send_cmd_and_wait                   *)
          Commands,  (* the privileged commands, with their arguments      *)
          Nothing    (* Python's None: no command yet                      *)

VARIABLES worker,    (* the worker: not started, "up" or "down"            *)
          call       (* the current or last call of every client           *)

serviceVars == <<worker, call>>

NoCall == [phase |-> "idle", cmd |-> Nothing, ok |-> FALSE]

Running(c) == call[c].phase = "running"

Init ==
    /\ worker = "new"
    /\ call = [c \in Clients |-> NoCall]

(* BaseWorker.run: the process exists from here on.                        *)
Up ==
    /\ worker = "new"
    /\ worker' = "up"
    /\ UNCHANGED call

(* The worker leaves, because it was asked to or because it was killed.    *)
Down ==
    /\ worker = "up"
    /\ worker' = "down"
    /\ UNCHANGED call

Invoke(c, m) ==
    /\ call[c].phase = "idle"
    /\ call' = [call EXCEPT ![c] = [phase |-> "waiting", cmd |-> m, ok |-> FALSE]]
    /\ UNCHANGED worker

(* The worker is the only process that runs commands, and it runs them one *)
(* after the other: apt and dpkg never run twice at the same time.         *)
Begin(c) ==
    /\ worker = "up"
    /\ call[c].phase = "waiting"
    /\ \A d \in Clients : ~Running(d)
    /\ call' = [call EXCEPT ![c].phase = "running"]
    /\ UNCHANGED worker

Finish(c, ok) ==
    /\ worker = "up"
    /\ Running(c)
    /\ call' = [call EXCEPT ![c] = [phase |-> "answered", cmd |-> @.cmd, ok |-> ok]]
    /\ UNCHANGED worker

Return(c) ==
    /\ call[c].phase = "answered"
    /\ call' = [call EXCEPT ![c].phase = "idle"]
    /\ UNCHANGED worker

(* send_cmd_and_wait raises SystemExit instead of calling a dead worker.   *)
Refuse(c) ==
    /\ worker = "down"
    /\ call[c].phase = "waiting"
    /\ call' = [call EXCEPT ![c].phase = "refused"]
    /\ UNCHANGED worker

(* The executor thread drops the work item that SystemExit ended.          *)
Forget(c) ==
    /\ call[c].phase = "refused"
    /\ call' = [call EXCEPT ![c].phase = "idle"]
    /\ UNCHANGED worker

Next ==
    \/ Up
    \/ Down
    \/ \E c \in Clients :
          \/ \E m \in Commands : Invoke(c, m)
          \/ Begin(c)
          \/ \E ok \in BOOLEAN : Finish(c, ok)
          \/ Return(c)
          \/ Refuse(c)
          \/ Forget(c)

Spec == Init /\ [][Next]_serviceVars

=============================================================================
