------------------------------ MODULE Connection ------------------------------
(***************************************************************************)
(* src/pvpn_tui/connection.py, the orchestrator of the one tunnel, with    *)
(* the local-agent client of src/pvpn_tui/proton_api/agent.py, the saved   *)
(* last server of src/pvpn_tui/state.py, and the way src/pvpn_tui/app.py   *)
(* starts the orchestrator and shuts it down.                              *)
(*                                                                         *)
(* Everything runs on one asyncio loop.  An operation is a coroutine run   *)
(* by a task of its own: a connect, a disconnect, or the re-attachment of  *)
(* the agent at start-up.  Control changes hands at awaits only, so an     *)
(* action is what a task does from one await to the next, and pc[t] names  *)
(* the await at which the task of t is suspended.  Task.cancel() makes the *)
(* next step of a task the delivery of CancelledError.                     *)
(***************************************************************************)
EXTENDS WireGuard

CONSTANTS
  NoActive,
  DiskWorks,      \* can the state file be written?
  CrashAllowed    \* may the program be killed?

ASSUME ConnectionAssumption ==
  /\ DiskWorks \in BOOLEAN
  /\ CrashAllowed \in BOOLEAN
  /\ NoActive \notin [by : Op, told : Op \union {NoOp}]

VARIABLES
  state,        \* _state
  active,       \* _active: the operation that set it, and the one whose agent
                \*   wrote its forwarded_port, agent_state and agent_error last
  target,       \* _target_name, as the operation that set it
  error,        \* _last_error
  task,         \* _task
  agent,        \* _agent, as the operation whose client it is
  listening,    \* operations whose client has a listen future that is alive
  statsTask,    \* _stats_task, as the operation that created it
  pollers,      \* operations whose stats poller is alive
  kind,         \* kind[t]: what operation t is
  pc,           \* pc[t]: where it is suspended, or how it ended
  cancel,       \* cancel[t]: what has become of a cancellation of its task
  lastId,       \* last_server_id in the state file
  app           \* the life of the program around the orchestrator

statusVars == <<state, active, target, error>>
agentVars  == <<agent, listening>>
statsVars  == <<statsTask, pollers>>
callVars   == <<task, kind, server>>

vars == <<wgVars, statusVars, agentVars, statsVars, callVars, pc, cancel,
          lastId, app>>

Connecting    == {"c_cert", "c_up", "c_unwind"}
Attaching     == {"a_dial", "a_ask", "a_renew_stop", "a_renew", "a_redial",
                  "a_reask", "a_stop"}
Disconnecting == {"d_start", "d_stats", "d_agent", "d_down", "d_unwind"}
InFlight      == Connecting \union Attaching \union Disconnecting
\* How a task ends; "denied" is the PermissionError of a kill, "unwritten" the
\* OSError of a config file, and a "gone" task went away with the process.
Done          == {"returned", "raised", "cancelled", "denied", "unwritten"}
Closing       == {"s_task", "s_stats", "s_agent", "drain"}

States == {"DISCONNECTED", "CONNECTING", "CONNECTED", "DISCONNECTING"}

Actives == [by : Op, told : Op \union {NoOp}]

TypeOK ==
  /\ WgTypeOK
  /\ state \in States
  /\ active \in Actives \union {NoActive}
  /\ target \in Op \union {NoOp}
  /\ error \in {"none", "cancelled", "cert", "failed"}
  /\ task \in Op \union {NoOp}
  /\ agent \in Op \union {NoOp}
  /\ listening \subseteq Op
  /\ statsTask \in Op \union {NoOp}
  /\ pollers \subseteq Op
  /\ kind \in [Op -> {"none", "connect", "disconnect", "attach"}]
  /\ pc \in [Op -> {"idle", "gone"} \union InFlight \union Done]
  /\ cancel \in [Op -> {"no", "pending", "taken", "swallowed"}]
  /\ lastId \in Server \union {NoServer}
  /\ app \in {"starting", "running"} \union Closing

Init ==
  /\ link = NoLink
  /\ proc = [t \in Op |-> "none"]
  /\ conf = {}
  /\ server = [t \in Op |-> NoServer]
  /\ state = "DISCONNECTED"
  /\ active = NoActive
  /\ target = NoOp
  /\ error = "none"
  /\ task = NoOp
  /\ agent = NoOp
  /\ listening = {}
  /\ statsTask = NoOp
  /\ pollers = {}
  /\ kind = [t \in Op |-> "none"]
  /\ pc = [t \in Op |-> "idle"]
  /\ cancel = [t \in Op |-> "no"]
  /\ lastId = NoServer
  /\ app = "starting"

-----------------------------------------------------------------------------
(* Helpers.                                                                *)

Goes(t, to) == pc' = [pc EXCEPT ![t] = to]

\* Task t is resumed normally at p, or with CancelledError at p.
At(t, p)          == pc[t] = p /\ cancel[t] # "pending"
CancelledAt(t, p) == pc[t] = p /\ cancel[t] = "pending"

Ends(t, how)      == Goes(t, how)
EndsCancelled(t)  == Goes(t, "cancelled") /\ cancel' = [cancel EXCEPT ![t] = "taken"]

\* An await under suppress(CancelledError): the task goes on.
Swallows(t) ==
  cancel' = IF cancel[t] = "pending"
            THEN [cancel EXCEPT ![t] = "swallowed"] ELSE cancel

\* is_busy
Busy == state \in {"CONNECTING", "DISCONNECTING"}

TaskInFlight == task # NoOp /\ pc[task] \in InFlight

SetStatus(s, a, e) ==
  /\ state' = s
  /\ active' = a
  /\ error' = e

Shown(t) == [by |-> t, told |-> NoOp]

\* A CancelledError reaches its task, and the kill its process, within a few
\* iterations of the loop: before polkit lets another process become root.
KillsDelivered ==
  ~ \E u \in Op : cancel[u] = "pending" /\ pc[u] \in {"c_up", "d_down"}

-----------------------------------------------------------------------------
(* start_connect, start_disconnect: called by the screens, no await.       *)

\* A new operation takes the next number.
Spawn(t, k, p) ==
  /\ pc[t] = "idle"
  /\ \A u \in Op : u < t => pc[u] # "idle"
  /\ kind' = [kind EXCEPT ![t] = k]
  /\ Goes(t, p)

\* Mutant of StartConnect: a task in flight is not refused.
StartConnect_NoGuard(t, s) ==
  /\ app \in {"running", "s_stats", "s_agent"}
  /\ Spawn(t, "connect", "c_cert")
  /\ server' = [server EXCEPT ![t] = s]
  /\ task' = t
  /\ UNCHANGED <<wgVars, statusVars, agentVars, statsVars, cancel, lastId, app>>

\* A quick connect may also come while shutdown awaits the poller or the agent;
\* while it awaits _task, that is in flight.
StartConnect(t, s) ==
  /\ app \in {"running", "s_stats", "s_agent"}
  /\ ~TaskInFlight
  /\ Spawn(t, "connect", "c_cert")
  /\ server' = [server EXCEPT ![t] = s]
  /\ task' = t
  /\ UNCHANGED <<wgVars, statusVars, agentVars, statsVars, cancel, lastId, app>>

\* Mutant of StartDisconnect: the task in flight is not cancelled.
StartDisconnect_NoCancel(t) ==
  /\ app = "running"
  /\ Spawn(t, "disconnect", "d_start")
  /\ task' = t
  /\ UNCHANGED <<wgVars, statusVars, agentVars, statsVars, cancel, server,
                 lastId, app>>

StartDisconnect(t) ==
  /\ app = "running"
  /\ Spawn(t, "disconnect", "d_start")
  /\ cancel' = IF TaskInFlight
               THEN [cancel EXCEPT ![task] = "pending"] ELSE cancel
  /\ task' = t
  /\ UNCHANGED <<wgVars, statusVars, agentVars, statsVars, server, lastId, app>>

-----------------------------------------------------------------------------
(* _connect, up to the tunnel.  The task waits at c_cert for its first step *)
(* and for ensure_fresh_cert, at c_up for the script.                       *)

\* No enabled physical server, or no credentials: raised without a _set.
ConnectImpossible(t) ==
  /\ At(t, "c_cert")
  /\ Ends(t, "raised")
  /\ UNCHANGED <<wgVars, statusVars, agentVars, statsVars, callVars, cancel,
                 lastId, app>>

CertRefreshFails(t) ==
  /\ At(t, "c_cert")
  /\ SetStatus("DISCONNECTED", NoActive, "cert")
  /\ Ends(t, "raised")
  /\ UNCHANGED <<wgVars, target, agentVars, statsVars, callVars, cancel,
                 lastId, app>>

BringUpTunnel(t) ==
  /\ At(t, "c_cert")
  /\ target' = t
  /\ SetStatus("CONNECTING", NoActive, "none")
  /\ WgUp(t)
  /\ Goes(t, "c_up")
  /\ UNCHANGED <<agentVars, statsVars, callVars, cancel, lastId, app>>

\* wg_up cannot write the config file: the status is CONNECTING for no more than
\* this step.
ConnectUnwritten(t) ==
  /\ At(t, "c_cert")
  /\ ConfUnwritten(t)
  /\ target' = NoOp
  /\ SetStatus("DISCONNECTED", NoActive, "failed")
  /\ Ends(t, "unwritten")
  /\ UNCHANGED <<agentVars, statsVars, callVars, cancel, lastId, app>>

\* The end of _start_agent.  A connect goes on to start the stats poller.
StartPoller(t) ==
  IF kind[t] = "connect"
  THEN statsTask' = t /\ pollers' = pollers \union {t}
  ELSE UNCHANGED statsVars

\* After the tunnel is up: _start_agent is skipped for want of a domain or of
\* credentials, or its client starts dialling.
StartAgent(t) ==
  \/ Goes(t, "a_dial") /\ UNCHANGED statsVars
  \/ Ends(t, "returned") /\ StartPoller(t)

\* The state file is loaded, changed and saved.  A failure is only logged, and may
\* leave a file that has been truncated: load() takes it for no file.
SaveLastServer(t) ==
  lastId' \in IF DiskWorks THEN {server[t]} ELSE {lastId, NoServer}

\* Mutant of ConnectUp: the name of the server is saved instead of its id.
ConnectUp_SavesName(t) ==
  /\ At(t, "c_up")
  /\ Succeeded(t)
  /\ Reap(t)
  /\ target' = NoOp
  /\ SetStatus("CONNECTED", Shown(t), "none")
  /\ lastId' = IF DiskWorks THEN t ELSE lastId
  /\ StartAgent(t)
  /\ UNCHANGED <<agentVars, callVars, cancel, app>>

\* Mutant of ConnectUp: the last server is not remembered.
ConnectUp_NotSaved(t) ==
  /\ At(t, "c_up")
  /\ Succeeded(t)
  /\ Reap(t)
  /\ target' = NoOp
  /\ SetStatus("CONNECTED", Shown(t), "none")
  /\ StartAgent(t)
  /\ UNCHANGED <<agentVars, callVars, cancel, lastId, app>>

\* Mutant of ConnectUp: the target is not cleared.
ConnectUp_KeepsTarget(t) ==
  /\ At(t, "c_up")
  /\ Succeeded(t)
  /\ Reap(t)
  /\ SetStatus("CONNECTED", Shown(t), "none")
  /\ SaveLastServer(t)
  /\ StartAgent(t)
  /\ UNCHANGED <<target, agentVars, callVars, cancel, app>>

ConnectUp(t) ==
  /\ At(t, "c_up")
  /\ Succeeded(t)
  /\ Reap(t)
  /\ target' = NoOp
  /\ SetStatus("CONNECTED", Shown(t), "none")
  /\ SaveLastServer(t)
  /\ StartAgent(t)
  /\ UNCHANGED <<agentVars, callVars, cancel, app>>

\* Mutant of ConnectFails: the failure is raised without a _set.
ConnectFails_Silent(t) ==
  /\ At(t, "c_up")
  /\ proc[t] = "failed"
  /\ Reap(t)
  /\ Ends(t, "raised")
  /\ UNCHANGED <<statusVars, agentVars, statsVars, callVars, cancel, lastId, app>>

ConnectFails(t) ==
  /\ At(t, "c_up")
  /\ proc[t] = "failed"
  /\ Reap(t)
  /\ target' = NoOp
  /\ SetStatus("DISCONNECTED", NoActive, "failed")
  /\ Ends(t, "raised")
  /\ UNCHANGED <<agentVars, statsVars, callVars, cancel, lastId, app>>

\* Cancelled before the tunnel was attempted: nothing has been done yet.
ConnectDropped(t) ==
  /\ CancelledAt(t, "c_cert")
  /\ EndsCancelled(t)
  /\ UNCHANGED <<wgVars, statusVars, agentVars, statsVars, callVars, lastId, app>>

ConnectKilled(t) ==
  /\ CancelledAt(t, "c_up")
  /\ Kill(t)
  /\ Goes(t, "c_unwind")
  /\ cancel' = [cancel EXCEPT ![t] = "taken"]
  /\ UNCHANGED <<statusVars, agentVars, statsVars, callVars, lastId, app>>

\* The PermissionError replaces the CancelledError: "except Exception".
ConnectKillDenied(t) ==
  /\ CancelledAt(t, "c_up")
  /\ Abandon(t)
  /\ target' = NoOp
  /\ SetStatus("DISCONNECTED", NoActive, "failed")
  /\ Goes(t, "denied")
  /\ cancel' = [cancel EXCEPT ![t] = "taken"]
  /\ UNCHANGED <<agentVars, statsVars, callVars, lastId, app>>

\* The killed process has been waited for.
ConnectUnwinds(t) ==
  /\ pc[t] = "c_unwind"
  /\ Reap(t)
  /\ target' = NoOp
  /\ SetStatus("DISCONNECTED", NoActive, "cancelled")
  /\ EndsCancelled(t)
  /\ UNCHANGED <<agentVars, statsVars, callVars, lastId, app>>

-----------------------------------------------------------------------------
(* _start_agent: dial the agent (a_dial), request port forwarding (a_ask);  *)
(* after an ExpiredCertificateError stop the client, refresh and try once   *)
(* more with a new one (a_renew_stop, a_renew, a_redial, a_reask).          *)

Dialling == {"a_dial", "a_redial"}
Asking   == {"a_ask", "a_reask"}

\* Connected: the client starts its listen future, then requests the feature.
AgentDials(t) ==
  /\ pc[t] \in Dialling /\ cancel[t] # "pending"
  /\ listening' = listening \union {t}
  /\ Goes(t, IF pc[t] = "a_dial" THEN "a_ask" ELSE "a_reask")
  /\ UNCHANGED <<wgVars, statusVars, agent, statsVars, callVars, cancel, lastId, app>>

\* The request is granted; _agent is replaced, whatever it was.
AgentStarts(t) ==
  /\ pc[t] \in Asking /\ cancel[t] # "pending"
  /\ agent' = t
  /\ Ends(t, "returned")
  /\ StartPoller(t)
  /\ UNCHANGED <<wgVars, statusVars, listening, callVars, cancel, lastId, app>>

\* Mutant of AgentRenewed: the agent is dialled as if for the first time.
AgentRenewed_DialsAnew(t) ==
  /\ At(t, "a_renew")
  /\ Goes(t, "a_dial")
  /\ UNCHANGED <<wgVars, statusVars, agentVars, statsVars, callVars, cancel, lastId, app>>

\* The first attempt meets an expired certificate.  stop() has something to
\* wait for only if the client had begun to listen.
AgentCertExpired(t) ==
  /\ pc[t] \in {"a_dial", "a_ask"} /\ cancel[t] # "pending"
  /\ listening' = listening \ {t}
  /\ Goes(t, IF pc[t] = "a_dial" THEN "a_renew" ELSE "a_renew_stop")
  /\ UNCHANGED <<wgVars, statusVars, agent, statsVars, callVars, cancel, lastId, app>>

AgentRenewStopped(t) ==
  /\ pc[t] = "a_renew_stop"
  /\ Swallows(t)
  /\ Goes(t, "a_renew")
  /\ UNCHANGED <<wgVars, statusVars, agentVars, statsVars, callVars, lastId, app>>

AgentRenewed(t) ==
  /\ At(t, "a_renew")
  /\ Goes(t, "a_redial")
  /\ UNCHANGED <<wgVars, statusVars, agentVars, statsVars, callVars, cancel, lastId, app>>

\* The agent of t writes the agent fields of whatever is active by now: all of
\* _on_agent_status, _on_agent_error and _update_agent_state do that.
AgentWrites(t) ==
  active' = IF active = NoActive THEN NoActive ELSE [active EXCEPT !.told = t]

\* _start_agent gives up without a client: a dial failed, or the refresh.
AgentGivesUp(t) ==
  /\ pc[t] \in Dialling \union {"a_renew"} /\ cancel[t] # "pending"
  /\ AgentWrites(t)
  /\ Ends(t, "returned")
  /\ StartPoller(t)
  /\ UNCHANGED <<wgVars, state, target, error, agentVars, callVars, cancel, lastId, app>>

\* The request failed: stop the client first.
AgentRefuses(t) ==
  /\ pc[t] \in Asking /\ cancel[t] # "pending"
  /\ listening' = listening \ {t}
  /\ Goes(t, "a_stop")
  /\ UNCHANGED <<wgVars, statusVars, agent, statsVars, callVars, cancel, lastId, app>>

AgentStopped(t) ==
  /\ pc[t] = "a_stop"
  /\ Swallows(t)
  /\ AgentWrites(t)
  /\ Ends(t, "returned")
  /\ StartPoller(t)
  /\ UNCHANGED <<wgVars, state, target, error, agentVars, callVars, lastId, app>>

\* CancelledError is no Exception: nothing is stopped, a listen future lives on.
AgentDropped(t) ==
  /\ pc[t] \in Dialling \union Asking \union {"a_renew"} /\ cancel[t] = "pending"
  /\ EndsCancelled(t)
  /\ UNCHANGED <<wgVars, statusVars, agentVars, statsVars, callVars, lastId, app>>

-----------------------------------------------------------------------------
(* Callbacks of the listen futures, and the stats poller.                   *)

\* A status or an error of the agent of a arrives at _on_agent_status or
\* _on_agent_error.
AgentReports(a) ==
  /\ a \in listening
  /\ AgentWrites(a)
  /\ UNCHANGED <<wgVars, state, target, error, agentVars, statsVars, callVars,
                 pc, cancel, lastId, app>>

\* Mutant of PollerStops: the loop ends only when the link is gone.
PollerStops_LinkOnly(p) ==
  /\ p \in pollers
  /\ ~link.present
  /\ pollers' = pollers \ {p}
  /\ UNCHANGED <<wgVars, statusVars, agentVars, statsTask, callVars, pc, cancel,
                 lastId, app>>

\* One iteration of _consume_stats a second; this one ends the loop.
PollerStops(p) ==
  /\ p \in pollers
  /\ active = NoActive \/ NoStats
  /\ pollers' = pollers \ {p}
  /\ UNCHANGED <<wgVars, statusVars, agentVars, statsTask, callVars, pc, cancel,
                 lastId, app>>

-----------------------------------------------------------------------------
(* _disconnect: stop the poller, stop the agent, take the link down.  The   *)
(* step that reaches the end of one await runs on to the next that          *)
(* suspends; s is the status that step leaves if it does suspend.           *)

\* From "await wg_down": return at once if there is no link.
TakeDown(t, s) ==
  \/ /\ LinkExists
     /\ WgDown(t)
     /\ Goes(t, "d_down")
     /\ state' = s
     /\ UNCHANGED <<active, error>>
  \/ /\ ~LinkExists
     /\ Ends(t, "returned")
     /\ SetStatus("DISCONNECTED", NoActive, "none")
     /\ UNCHANGED wgVars

\* From "if self._agent is not None".
StopAgent(t, s) ==
  \/ /\ agent # NoOp
     /\ listening' = listening \ {agent}
     /\ Goes(t, "d_agent")
     /\ state' = s
     /\ UNCHANGED <<wgVars, active, error>>
  \/ /\ agent = NoOp
     /\ TakeDown(t, s)
     /\ UNCHANGED listening

\* Cancelling a poller ends it: its next step is the CancelledError.
DisconnectStarts(t) ==
  /\ At(t, "d_start")
  /\ \/ /\ statsTask \in pollers
        /\ pollers' = pollers \ {statsTask}
        /\ state' = "DISCONNECTING"
        /\ Goes(t, "d_stats")
        /\ UNCHANGED <<wgVars, active, error, listening>>
     \/ /\ statsTask \notin pollers
        /\ StopAgent(t, "DISCONNECTING")
        /\ UNCHANGED pollers
  /\ UNCHANGED <<target, agent, statsTask, callVars, cancel, lastId, app>>

\* The poller has ended: _stats_task is cleared, whatever it is by now.
DisconnectPollerStopped(t) ==
  /\ pc[t] = "d_stats"
  /\ Swallows(t)
  /\ statsTask' = NoOp
  /\ StopAgent(t, state)
  /\ UNCHANGED <<target, agent, pollers, callVars, lastId, app>>

\* The agent has stopped: _agent is cleared, whatever it is by now.
DisconnectAgentStopped(t) ==
  /\ pc[t] = "d_agent"
  /\ Swallows(t)
  /\ agent' = NoOp
  /\ TakeDown(t, state)
  /\ UNCHANGED <<target, listening, statsVars, callVars, lastId, app>>

DisconnectDown(t) ==
  /\ At(t, "d_down")
  /\ Succeeded(t)
  /\ Reap(t)
  /\ SetStatus("DISCONNECTED", NoActive, "none")
  /\ Ends(t, "returned")
  /\ UNCHANGED <<target, agentVars, statsVars, callVars, cancel, lastId, app>>

DisconnectFails(t) ==
  /\ At(t, "d_down")
  /\ proc[t] = "failed"
  /\ Reap(t)
  /\ SetStatus("DISCONNECTED", NoActive, "failed")
  /\ Ends(t, "raised")
  /\ UNCHANGED <<target, agentVars, statsVars, callVars, cancel, lastId, app>>

\* Cancelled before its first step: the coroutine never runs.
DisconnectDropped(t) ==
  /\ CancelledAt(t, "d_start")
  /\ EndsCancelled(t)
  /\ UNCHANGED <<wgVars, statusVars, agentVars, statsVars, callVars, lastId, app>>

DisconnectKilled(t) ==
  /\ CancelledAt(t, "d_down")
  /\ Kill(t)
  /\ Goes(t, "d_unwind")
  /\ cancel' = [cancel EXCEPT ![t] = "taken"]
  /\ UNCHANGED <<statusVars, agentVars, statsVars, callVars, lastId, app>>

DisconnectKillDenied(t) ==
  /\ CancelledAt(t, "d_down")
  /\ Abandon(t)
  /\ SetStatus("DISCONNECTED", NoActive, "failed")
  /\ Goes(t, "denied")
  /\ cancel' = [cancel EXCEPT ![t] = "taken"]
  /\ UNCHANGED <<target, agentVars, statsVars, callVars, lastId, app>>

DisconnectUnwinds(t) ==
  /\ pc[t] = "d_unwind"
  /\ Reap(t)
  /\ SetStatus("DISCONNECTED", NoActive, "cancelled")
  /\ EndsCancelled(t)
  /\ UNCHANGED <<target, agentVars, statsVars, callVars, lastId, app>>

-----------------------------------------------------------------------------
(* The program around the orchestrator: on_mount attaches to a link left by *)
(* an earlier run, on_unmount shuts the orchestrator down, asyncio.run       *)
(* cancels the tasks that are left and ends when they have.                  *)

\* attach_existing returns False, or is not called: the user has to log in,
\* there is no link, no server was saved, or the server is no longer listed.
Mount ==
  /\ app = "starting"
  /\ app' = "running"
  /\ UNCHANGED <<wgVars, statusVars, agentVars, statsVars, callVars, pc, cancel,
                 lastId>>

\* attach_existing returns True: the link is taken for the saved server, the
\* poller starts, and a task nobody keeps dials the agent (if it can).
MountAttached(t) ==
  /\ app = "starting"
  /\ LinkExists
  /\ lastId # NoServer
  /\ SetStatus("CONNECTED", Shown(t), "none")
  /\ server' = [server EXCEPT ![t] = lastId]
  /\ statsTask' = t
  /\ pollers' = pollers \union {t}
  /\ \E p \in {"a_dial", "returned"} : Spawn(t, "attach", p)
  /\ app' = "running"
  /\ UNCHANGED <<wgVars, target, agentVars, task, cancel, lastId>>

\* asyncio.run cancels every task that is left.
CancelsAll ==
  cancel' = [t \in Op |-> IF pc[t] \in InFlight THEN "pending" ELSE cancel[t]]

\* shutdown() from "if self._agent is not None": stopping it suspends.
ShutdownAgent ==
  \/ /\ agent # NoOp
     /\ listening' = listening \ {agent}
     /\ app' = "s_agent"
     /\ UNCHANGED <<cancel, pollers>>
  \/ /\ agent = NoOp
     /\ app' = "drain"
     /\ CancelsAll
     /\ pollers' = {}
     /\ UNCHANGED listening

\* shutdown() from "if self._stats_task is not None".
ShutdownPoller ==
  \/ /\ statsTask \in pollers
     /\ pollers' = pollers \ {statsTask}
     /\ app' = "s_stats"
     /\ UNCHANGED <<cancel, listening>>
  \/ /\ statsTask \notin pollers
     /\ ShutdownAgent

\* Mutant of Shutdown: the task in flight is awaited, but not cancelled.
Shutdown_NoCancel ==
  /\ app = "running"
  /\ \/ /\ TaskInFlight
        /\ app' = "s_task"
        /\ UNCHANGED <<listening, pollers, cancel>>
     \/ /\ ~TaskInFlight
        /\ ShutdownPoller
  /\ UNCHANGED <<wgVars, statusVars, agent, statsTask, callVars, pc, lastId>>

Shutdown ==
  /\ app = "running"
  /\ \/ /\ TaskInFlight
        /\ cancel' = [cancel EXCEPT ![task] = "pending"]
        /\ app' = "s_task"
        /\ UNCHANGED <<listening, pollers>>
     \/ /\ ~TaskInFlight
        /\ ShutdownPoller
  /\ UNCHANGED <<wgVars, statusVars, agent, statsTask, callVars, pc, lastId>>

ShutdownTaskEnded ==
  /\ app = "s_task"
  /\ pc[task] \in {"returned", "cancelled"}
  /\ ShutdownPoller
  /\ UNCHANGED <<wgVars, statusVars, agent, statsTask, callVars, pc, lastId>>

\* Mutant of ShutdownAborted: the exception takes the program back to work.
ShutdownAborted_Resumes ==
  /\ app = "s_task"
  /\ pc[task] \in {"raised", "denied", "unwritten"}
  /\ app' = "running"
  /\ UNCHANGED <<wgVars, statusVars, agentVars, statsVars, callVars, pc, cancel,
                 lastId>>

\* Only CancelledError is suppressed: any other exception ends shutdown().
ShutdownAborted ==
  /\ app = "s_task"
  /\ pc[task] \in {"raised", "denied", "unwritten"}
  /\ app' = "drain"
  /\ CancelsAll
  /\ pollers' = {}
  /\ UNCHANGED <<wgVars, statusVars, agentVars, statsTask, callVars, pc, lastId>>

ShutdownPollerEnded ==
  /\ app = "s_stats"
  /\ statsTask' = NoOp
  /\ ShutdownAgent
  /\ UNCHANGED <<wgVars, statusVars, agent, callVars, pc, lastId>>

ShutdownAgentEnded ==
  /\ app = "s_agent"
  /\ agent' = NoOp
  /\ app' = "drain"
  /\ CancelsAll
  /\ pollers' = {}
  /\ UNCHANGED <<wgVars, statusVars, listening, statsTask, callVars, pc, lastId>>

\* What a new process starts with.
NewProcess ==
  /\ state' = "DISCONNECTED"
  /\ active' = NoActive
  /\ target' = NoOp
  /\ error' = "none"
  /\ task' = NoOp
  /\ agent' = NoOp
  /\ listening' = {}
  /\ statsTask' = NoOp
  /\ pollers' = {}
  /\ app' = "starting"

\* All tasks have ended; the program ends, and may be started again.
Exit ==
  /\ app = "drain"
  /\ \A t \in Op : pc[t] \notin InFlight
  /\ NewProcess
  /\ UNCHANGED <<wgVars, kind, server, pc, cancel, lastId>>

\* A program that dies while it saves the last server leaves a truncated file.
Saving == \E t \in Op : At(t, "c_up") /\ Succeeded(t)

\* The process is killed: its scripts and its key files are left behind.
Crash ==
  /\ CrashAllowed
  /\ app # "starting"
  /\ NewProcess
  /\ pc' = [t \in Op |-> IF pc[t] \in InFlight THEN "gone" ELSE pc[t]]
  /\ lastId' \in {lastId} \union IF Saving THEN {NoServer} ELSE {}
  /\ UNCHANGED <<wgVars, kind, server, cancel>>

-----------------------------------------------------------------------------
orchestratorVars == <<statusVars, agentVars, statsVars, callVars, pc, cancel,
                      lastId, app>>

AnswerPrompt(t) ==
  /\ KillsDelivered
  /\ Authorize(t) \/ Dismiss(t)
  /\ UNCHANGED orchestratorVars

RunScript(t) == ScriptCommand(t) /\ UNCHANGED orchestratorVars

ConnectStep(t) ==
  \/ ConnectImpossible(t) \/ CertRefreshFails(t) \/ BringUpTunnel(t)
  \/ ConnectUnwritten(t) \/ ConnectUp(t) \/ ConnectFails(t)
  \/ ConnectDropped(t) \/ ConnectKilled(t) \/ ConnectKillDenied(t)
  \/ ConnectUnwinds(t)

AgentStep(t) ==
  \/ AgentDials(t) \/ AgentStarts(t) \/ AgentCertExpired(t)
  \/ AgentRenewStopped(t) \/ AgentRenewed(t) \/ AgentGivesUp(t)
  \/ AgentRefuses(t) \/ AgentStopped(t) \/ AgentDropped(t)

DisconnectStep(t) ==
  \/ DisconnectStarts(t) \/ DisconnectPollerStopped(t)
  \/ DisconnectAgentStopped(t) \/ DisconnectDown(t) \/ DisconnectFails(t)
  \/ DisconnectDropped(t) \/ DisconnectKilled(t) \/ DisconnectKillDenied(t)
  \/ DisconnectUnwinds(t)

\* What the event loop does by itself with task t.
TaskStep(t) == ConnectStep(t) \/ AgentStep(t) \/ DisconnectStep(t)

UserStep(t) ==
  \/ \E s \in Server : StartConnect(t, s)
  \/ StartDisconnect(t)
  \/ MountAttached(t)

ShutdownStep ==
  \/ ShutdownTaskEnded \/ ShutdownAborted
  \/ ShutdownPollerEnded \/ ShutdownAgentEnded
  \/ Exit

Next ==
  \/ \E t \in Op : \/ UserStep(t)
                   \/ TaskStep(t)
                   \/ AnswerPrompt(t)
                   \/ RunScript(t)
                   \/ AgentReports(t)
                   \/ PollerStops(t)
  \/ Mount
  \/ Shutdown
  \/ ShutdownStep
  \/ Crash

Spec == Init /\ [][Next]_vars

-----------------------------------------------------------------------------
(* Safety.                                                                 *)

\* The status line never mixes two connections: a server is shown only while
\* connected or on the way down, a target only on the way up (the docstring of
\* target_name), and a success or a new attempt has cleared the last error.
StatusConsistent ==
  /\ state = "CONNECTED" => active # NoActive
  /\ active # NoActive => state \in {"CONNECTED", "DISCONNECTING"} /\ target = NoOp
  /\ state = "CONNECTING" => target # NoOp
  /\ state \in {"CONNECTING", "CONNECTED"} => error = "none"

\* The orchestrator is never left "connecting" or "disconnecting" with nobody
\* at work: whoever ends, however it ends, settles the status it had set.
BusyHasOwner ==
  /\ state = "CONNECTING" =>
       \E t \in Op : pc[t] \in {"c_up", "c_unwind"}
  /\ state = "DISCONNECTING" =>
       \E t \in Op : pc[t] \in {"d_stats", "d_agent", "d_down", "d_unwind"}

\* The file with the private key outlives neither success, failure, a
\* cancellation nor a kill that is denied: only a crash leaves it behind, and a
\* failure to write it to its end.
KeyFileRemoved ==
  \A t \in conf : pc[t] \in {"c_up", "c_unwind", "gone", "unwritten"}

\* The server shown is the one that a relaunch would attach to, so that a
\* tunnel that is left up on quit is found again (while the disk works).
SavedIsShown ==
  DiskWorks /\ active # NoActive => lastId = server[active.by]

\* No operation was cut loose: no kill was denied, no task went away in a
\* crash, and no cancellation was swallowed.
Orderly ==
  \A t \in Op : pc[t] \notin {"denied", "gone"} /\ cancel[t] # "swallowed"

\* Where nothing was cut loose, a status of CONNECTED after a connect means,
\* until the program drains its tasks to end, that wg0 is up and routed, with that
\* very server as its peer.
TunnelMatches ==
  /\ Orderly
  /\ app # "drain"
  /\ state = "CONNECTED"
  /\ kind[active.by] = "connect"
  =>
    link = [present |-> TRUE, peer |-> server[active.by], up |-> TRUE, routed |-> TRUE]

\* Where nothing was cancelled or killed, a disconnect that returned leaves no
\* link, until the next operation starts.
DisconnectTearsDown ==
  /\ \A t \in Op : cancel[t] = "no" /\ pc[t] # "gone"
  /\ task # NoOp
  /\ kind[task] = "disconnect"
  /\ pc[task] = "returned"
  => ~link.present

\* Where nothing was cut loose, two privileged scripts never run at a time: what
\* the commands of one build, those of another do not tear down half-way.
OneScriptAtATime ==
  Orderly /\ app # "drain" =>
    \A t, u \in Op : proc[t] \in Running /\ proc[u] \in Running => t = u

\* Nobody waits for what cannot come: an operation that awaits its process has
\* one, shutdown awaits a task that is over or was cancelled, and asyncio.run
\* waits for cancelled tasks only.
WaitsAreServed ==
  /\ \A t \in Op : pc[t] \in {"c_up", "d_down"} => proc[t] # "none"
  /\ app = "s_task" =>
       /\ task # NoOp
       /\ pc[task] \in Done \union InFlight
       /\ pc[task] \in InFlight => cancel[task] # "no"
  /\ app = "drain" => \A t \in Op : pc[t] \in InFlight => cancel[t] # "no"

-----------------------------------------------------------------------------
(* Action properties.                                                      *)

\* How far an operation has come: the awaits in the order of the code.
Stage(p) ==
  CASE p = "idle" -> 0
    [] p \in {"c_cert", "d_start"} -> 1
    [] p \in {"c_up", "d_stats"} -> 2
    [] p \in {"c_unwind", "d_agent"} -> 3
    [] p \in {"d_down", "a_dial"} -> 4
    [] p \in {"d_unwind", "a_ask"} -> 5
    [] p = "a_renew_stop" -> 6
    [] p = "a_renew" -> 7
    [] p = "a_redial" -> 8
    [] p = "a_reask" -> 9
    [] p = "a_stop" -> 10
    [] OTHER -> 11

\* No await is ever returned to: an expired certificate is renewed once, no
\* process is waited for twice, and what has ended stays ended, over restarts too.
OperationsAdvance ==
  [][\A t \in Op : pc'[t] # pc[t] => Stage(pc[t]) < Stage(pc'[t])]_vars

\* A connect that was superseded by a disconnect, and cancelled, never makes
\* the status CONNECTED: whoever does is the operation asked for last.
LatestRequestWins ==
  [][state # "CONNECTED" /\ state' = "CONNECTED"
       => active'.by = task \/ app = "starting"]_vars

\* A tunnel is taken off the status line by the operation asked for last, or by one
\* that was told to stop: it may be late, and overwrite the status of the next (the
\* handlers of CancelledError in _connect and _disconnect), but a request that
\* nobody has cancelled is never behind.
TunnelIsTakenDown ==
  [][state = "CONNECTED" /\ state' # "CONNECTED" /\ app' # "starting"
       => \E t \in Op : pc'[t] # pc[t] /\ (t = task \/ cancel[t] # "no")]_vars

\* The server on the status line.
ShownServer == IF active = NoActive THEN NoServer ELSE server[active.by]

Abstract == INSTANCE TunnelView WITH status <- state, shown <- ShownServer

\* The status line changes only as TunnelView allows, whatever overlaps.
ImplementsTunnelView == Abstract!ViewSpec

-----------------------------------------------------------------------------
(* Liveness, under the fairness of module App.                             *)

PromptsAnswered == []<>~PromptOpen

\* If prompts are answered one way or the other, no operation stays busy.
BusySettles ==
  PromptsAnswered => (Busy ~> ~Busy)

\* Pollers that nobody can cancel any more end when there is nothing to show.
PollersEnd == (<>[](active = NoActive)) => <>[](pollers = {})

\* If prompts are answered, a program asked to quit does.
QuitEnds == PromptsAnswered => (app \in Closing ~> app = "starting")

-----------------------------------------------------------------------------
(* What the documentation promises, and the code does not keep.            *)

\* start_connect: "Schedule a connect. Raises if a task is already in flight."
\* Leaving aside a task that is just about to receive its cancellation.
BusyIsRefused ==
  [][\A t \in Op : pc[t] = "idle" /\ pc'[t] = "c_cert"
       => \A u \in Op : kind[u] # "attach" /\ cancel[u] # "pending"
                         => pc[u] \notin InFlight]_vars

\* README: "d: disconnect (explicit teardown)".  Once a disconnect has returned
\* and no task and no script is left at work, there is no link.
DisconnectIsTeardown ==
  /\ task # NoOp
  /\ kind[task] = "disconnect"
  /\ pc[task] = "returned"
  /\ \A t \in Op : /\ proc[t] \in {"none"} \union Exited
                   /\ pc[t] \notin InFlight \union {"gone"}
  => ~link.present

\* README: "The tunnel stays up after q / ^c; relaunching the TUI reattaches."
\* The server shown after that is the one the tunnel leads to,
\* where nothing was cut loose.
AttachShowsTunnel ==
  /\ state = "CONNECTED"
  /\ kind[active.by] = "attach"
  /\ Orderly
  => link.peer = server[active.by]

\* shutdown: "Cancels in-flight tasks and closes our local-agent socket".
ShutdownClosesAgent == app = "drain" => listening = {}
=============================================================================
