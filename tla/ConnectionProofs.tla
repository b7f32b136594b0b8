--------------------------- MODULE ConnectionProofs ---------------------------
(* Theorems about Connection, for any number of operations and servers.    *)
EXTENDS Connection, TLAPS

\* A new process, on a system without a link.
LEMMA InitTypeOK == Init => TypeOK
  BY WireGuardAssumption DEF Init, TypeOK, WgTypeOK, NoLink, States, Actives

LEMMA NextTypeOK == TypeOK /\ [Next]_vars => TypeOK'
  <1> SUFFICES ASSUME TypeOK, [Next]_vars PROVE TypeOK'
    OBVIOUS
  <1> USE WireGuardAssumption DEF TypeOK, WgTypeOK, States, Actives
  <1>1. ASSUME NEW t \in Op, NEW s \in Server, StartConnect(t, s) PROVE TypeOK'
    BY <1>1 DEF StartConnect, Spawn, Goes, InFlight, Connecting, wgVars,
         statusVars, agentVars, statsVars, callVars
  <1>2. ASSUME NEW t \in Op, StartDisconnect(t) PROVE TypeOK'
    BY <1>2 DEF StartDisconnect, TaskInFlight, Spawn, Goes, InFlight,
         Disconnecting, wgVars, statusVars, agentVars, statsVars, callVars
  <1>3. ASSUME NEW t \in Op, MountAttached(t) PROVE TypeOK'
    BY <1>3 DEF MountAttached, SetStatus, Shown, Spawn, Goes, InFlight,
         Attaching, Done, wgVars, statusVars, agentVars, statsVars, callVars
  <1>4. ASSUME NEW t \in Op, ConnectImpossible(t) PROVE TypeOK'
    BY <1>4 DEF ConnectImpossible, At, CancelledAt, Ends, EndsCancelled, Goes,
         InFlight, Connecting, Done, wgVars, statusVars, agentVars, statsVars,
         callVars
  <1>5. ASSUME NEW t \in Op, CertRefreshFails(t) PROVE TypeOK'
    BY <1>5 DEF CertRefreshFails, At, CancelledAt, Ends, EndsCancelled, Goes,
         InFlight, Connecting, Done, SetStatus, wgVars, statusVars, agentVars,
         statsVars, callVars
  <1>6. ASSUME NEW t \in Op, BringUpTunnel(t) PROVE TypeOK'
    BY <1>6 DEF BringUpTunnel, At, CancelledAt, Ends, EndsCancelled, Goes,
         InFlight, Connecting, Done, SetStatus, WgUp, WriteConf, ProcIs, Prompting,
         wgVars, statusVars, agentVars, statsVars, callVars
  <1>31. ASSUME NEW t \in Op, ConnectUnwritten(t) PROVE TypeOK'
    BY <1>31 DEF ConnectUnwritten, At, CancelledAt, Ends, EndsCancelled, Goes,
         InFlight, Connecting, Done, SetStatus, ConfUnwritten, WriteConf,
         wgVars, statusVars, agentVars, statsVars, callVars
  <1>7. ASSUME NEW t \in Op, ConnectUp(t) PROVE TypeOK'
    <2>1. /\ lastId' \in Server \union {NoServer}
          /\ active' \in Actives \union {NoActive}
          /\ error' = "none" /\ target' = NoOp /\ state' = "CONNECTED"
      BY <1>7 DEF ConnectUp, SetStatus, Shown, SaveLastServer
    <2>2. WgTypeOK'
      BY <1>7 DEF ConnectUp, Reap, ProcIs, callVars
    <2>3. StartAgent(t)
      BY <1>7 DEF ConnectUp
    <2>4. pc' \in [Op -> {"idle", "gone"} \union InFlight \union Done]
      BY <2>3 DEF StartAgent, Goes, Ends, InFlight, Attaching, Done
    <2>5. statsTask' \in Op \union {NoOp} /\ pollers' \subseteq Op
      BY <2>3 DEF StartAgent, StartPoller, statsVars
    <2>6. QED
      BY <1>7, <2>1, <2>2, <2>4, <2>5 DEF ConnectUp, agentVars, callVars
  <1>8. ASSUME NEW t \in Op, ConnectFails(t) PROVE TypeOK'
    BY <1>8 DEF ConnectFails, At, CancelledAt, Ends, EndsCancelled, Goes,
         InFlight, Connecting, Done, SetStatus, Reap, ProcIs, wgVars,
         statusVars, agentVars, statsVars, callVars
  <1>9. ASSUME NEW t \in Op, ConnectDropped(t) PROVE TypeOK'
    BY <1>9 DEF ConnectDropped, At, CancelledAt, Ends, EndsCancelled, Goes,
         InFlight, Connecting, Done, wgVars, statusVars, agentVars, statsVars,
         callVars
  <1>10. ASSUME NEW t \in Op, ConnectKilled(t) PROVE TypeOK'
    BY <1>10 DEF ConnectKilled, At, CancelledAt, Ends, EndsCancelled, Goes,
         InFlight, Connecting, Done, Kill, ProcIs, wgVars, statusVars,
         agentVars, statsVars, callVars
  <1>11. ASSUME NEW t \in Op, ConnectKillDenied(t) PROVE TypeOK'
    BY <1>11 DEF ConnectKillDenied, At, CancelledAt, Ends, EndsCancelled,
         Goes, InFlight, Connecting, Done, SetStatus, Abandon, wgVars,
         statusVars, agentVars, statsVars, callVars
  <1>12. ASSUME NEW t \in Op, ConnectUnwinds(t) PROVE TypeOK'
    BY <1>12 DEF ConnectUnwinds, At, CancelledAt, Ends, EndsCancelled, Goes,
         InFlight, Connecting, Done, SetStatus, Reap, ProcIs, wgVars,
         statusVars, agentVars, statsVars, callVars
  <1>13. ASSUME NEW t \in Op, AgentStep(t) PROVE TypeOK'
    BY <1>13 DEF AgentStep, AgentDials, AgentStarts, AgentCertExpired,
         AgentRenewStopped, AgentRenewed, AgentGivesUp, AgentRefuses,
         AgentStopped, AgentDropped, At, Ends, EndsCancelled, Swallows, Goes,
         AgentWrites, StartPoller, InFlight, Attaching, Done, wgVars,
         statusVars, agentVars, statsVars, callVars
  <1>14. ASSUME NEW t \in Op,
                \/ DisconnectStarts(t)
                \/ DisconnectPollerStopped(t)
                \/ DisconnectAgentStopped(t)
         PROVE  TypeOK'
    <2> USE <1>14 DEF DisconnectStarts, DisconnectPollerStopped,
            DisconnectAgentStopped, StopAgent, TakeDown
    <2>1. /\ UNCHANGED <<link, conf, server>>
          /\ proc' \in {proc, [proc EXCEPT ![t] = "down_auth"]}
      BY DEF WgDown, ProcIs, wgVars, callVars
    <2>2. WgTypeOK'
      BY ONLY TypeOK, <2>1, t \in Op DEF TypeOK, WgTypeOK, Prompting
    <2>3. /\ state' \in {state, "DISCONNECTING", "DISCONNECTED"}
          /\ active' \in {active, NoActive}
          /\ error' \in {error, "none"}
      BY DEF SetStatus
    <2>4. \E p \in {"d_stats", "d_agent", "d_down", "returned"} :
            pc' = [pc EXCEPT ![t] = p]
      BY DEF Goes, Ends
    <2>5. cancel' \in {cancel, [cancel EXCEPT ![t] = "swallowed"]}
      BY DEF Swallows
    <2>6. /\ statsTask' \in {statsTask, NoOp} /\ pollers' \subseteq pollers
          /\ agent' \in {agent, NoOp} /\ listening' \subseteq listening
          /\ UNCHANGED <<target, task, kind, lastId, app>>
      BY DEF callVars, statsVars
    <2> QED
      BY ONLY TypeOK, t \in Op, <2>2, <2>3, <2>4, <2>5, <2>6
      DEF TypeOK, States, InFlight, Disconnecting, Done
  <1>17. ASSUME NEW t \in Op, DisconnectDown(t) PROVE TypeOK'
    BY <1>17 DEF DisconnectDown, At, CancelledAt, Ends, EndsCancelled,
         Swallows, Goes, SetStatus, InFlight, Disconnecting, Done, Reap,
         ProcIs, wgVars, statusVars, agentVars, statsVars, callVars
  <1>18. ASSUME NEW t \in Op, DisconnectFails(t) PROVE TypeOK'
    BY <1>18 DEF DisconnectFails, At, CancelledAt, Ends, EndsCancelled,
         Swallows, Goes, SetStatus, InFlight, Disconnecting, Done, Reap,
         ProcIs, wgVars, statusVars, agentVars, statsVars, callVars
  <1>19. ASSUME NEW t \in Op, DisconnectDropped(t) PROVE TypeOK'
    BY <1>19 DEF DisconnectDropped, At, CancelledAt, Ends, EndsCancelled,
         Swallows, Goes, SetStatus, InFlight, Disconnecting, Done, wgVars,
         statusVars, agentVars, statsVars, callVars
  <1>20. ASSUME NEW t \in Op, DisconnectKilled(t) PROVE TypeOK'
    BY <1>20 DEF DisconnectKilled, At, CancelledAt, Ends, EndsCancelled,
         Swallows, Goes, SetStatus, InFlight, Disconnecting, Done, Kill,
         ProcIs, wgVars, statusVars, agentVars, statsVars, callVars
  <1>21. ASSUME NEW t \in Op, DisconnectKillDenied(t) PROVE TypeOK'
    BY <1>21 DEF DisconnectKillDenied, At, CancelledAt, Ends, EndsCancelled,
         Swallows, Goes, SetStatus, InFlight, Disconnecting, Done, Abandon,
         wgVars, statusVars, agentVars, statsVars, callVars
  <1>22. ASSUME NEW t \in Op, DisconnectUnwinds(t) PROVE TypeOK'
    BY <1>22 DEF DisconnectUnwinds, At, CancelledAt, Ends, EndsCancelled,
         Swallows, Goes, SetStatus, InFlight, Disconnecting, Done, Reap,
         ProcIs, wgVars, statusVars, agentVars, statsVars, callVars
  <1>23. ASSUME NEW t \in Op, AnswerPrompt(t) PROVE TypeOK'
    <2>1. WgTypeOK'
      <3>1. UNCHANGED server
        BY <1>23 DEF AnswerPrompt, orchestratorVars, callVars
      <3>2. QED
        BY <1>23, <3>1 DEF AnswerPrompt, Authorize, Dismiss, ProcIs, Running, Exited
    <2>2. UNCHANGED orchestratorVars
      BY <1>23 DEF AnswerPrompt
    <2>3. QED
      BY <2>1, <2>2 DEF orchestratorVars, statusVars, agentVars, statsVars, callVars
  <1>24. ASSUME NEW t \in Op, RunScript(t) PROVE TypeOK'
    <2>1. WgTypeOK'
      <3>1. UNCHANGED server
        BY <1>24 DEF RunScript, orchestratorVars, callVars
      <3>2. link' \in [present : BOOLEAN, peer : Server \union {NoServer},
                        up : BOOLEAN, routed : BOOLEAN]
        <4>1. CASE DelStaleLink(t) \/ DelLink(t)
          <5>1. link' = NoLink
            BY <4>1 DEF DelStaleLink, DelLink
          <5>2. QED
            BY <5>1 DEF NoLink
        <4>2. CASE AddLink(t)
          BY <4>2 DEF AddLink, NoLink
        <4>3. CASE SetConf(t) \/ BringUp(t) \/ AddRoute(t) \/ ScriptFails(t)
          BY <4>3 DEF SetConf, BringUp, AddRoute, ScriptFails
        <4>4. QED
          BY <1>24, <4>1, <4>2, <4>3 DEF RunScript, ScriptCommand
      <3>3. conf' \subseteq Op
        BY <1>24 DEF RunScript, ScriptCommand, DelStaleLink, AddLink, SetConf,
             BringUp, AddRoute, DelLink, ScriptFails
      <3>4. proc' \in [Op -> {"none"} \union Prompting \union Running
                             \union Exited]
        BY <1>24 DEF RunScript, ScriptCommand, DelStaleLink, AddLink, SetConf,
             BringUp, AddRoute, DelLink, ScriptFails, ProcIs, Running, Exited
      <3>5. QED
        BY <3>1, <3>2, <3>3, <3>4
    <2>2. UNCHANGED orchestratorVars
      BY <1>24 DEF RunScript
    <2>3. QED
      BY <2>1, <2>2 DEF orchestratorVars, statusVars, agentVars, statsVars, callVars
  <1>25. ASSUME NEW t \in Op, AgentReports(t) \/ PollerStops(t) PROVE TypeOK'
    BY <1>25 DEF AgentReports, PollerStops, AgentWrites, wgVars, statusVars,
         agentVars, statsVars, callVars
  <1>26. CASE Mount
    BY <1>26 DEF Mount, wgVars, statusVars, agentVars, statsVars, callVars
  <1>27. CASE Shutdown
    <2>1. /\ cancel' \in [Op -> {"no", "pending", "taken", "swallowed"}]
          /\ app' \in {"starting", "running"} \union Closing
          /\ listening' \subseteq Op /\ pollers' \subseteq Op
      BY <1>27 DEF Shutdown, ShutdownPoller, ShutdownAgent, TaskInFlight,
           CancelsAll, Closing
    <2>2. UNCHANGED <<wgVars, statusVars, agent, statsTask, callVars, pc, lastId>>
      BY <1>27 DEF Shutdown
    <2>3. QED
      BY <2>1, <2>2 DEF wgVars, statusVars, callVars
  <1>28. CASE ShutdownStep
    BY <1>28 DEF ShutdownStep, ShutdownTaskEnded, ShutdownAborted,
         ShutdownPollerEnded, ShutdownAgentEnded, Exit, NewProcess,
         ShutdownPoller, ShutdownAgent, CancelsAll, Closing, wgVars,
         statusVars, agentVars, statsVars, callVars
  <1>29. CASE Crash
    BY <1>29 DEF Crash, NewProcess, wgVars, statusVars, agentVars, statsVars,
         callVars
  <1>30. CASE UNCHANGED vars
    BY <1>30 DEF vars, wgVars, statusVars, agentVars, statsVars, callVars
  <1> QED
    BY <1>1, <1>2, <1>3, <1>4, <1>5, <1>6, <1>7, <1>8, <1>9, <1>10, <1>11,
         <1>12, <1>13, <1>14, <1>17, <1>18, <1>19, <1>20, <1>21,
         <1>22, <1>23, <1>24, <1>25, <1>26, <1>27, <1>28, <1>29, <1>30, <1>31 DEF
         Next, UserStep, TaskStep, ConnectStep, DisconnectStep

\* Every variable keeps to its type.
THEOREM TypeCorrect == Spec => []TypeOK
  BY InitTypeOK, NextTypeOK, PTL DEF Spec

-----------------------------------------------------------------------------
(* The inductive invariant.                                                *)

\* A program that starts has no task, and shows nothing.
FreshStart ==
  app = "starting" =>
    /\ \A t \in Op : pc[t] \notin InFlight
    /\ state = "DISCONNECTED" /\ active = NoActive /\ error = "none"
    /\ target = NoOp /\ task = NoOp

\* What an operation is, as far as where it is suspended tells.
KindsMatch ==
  \A t \in Op :
    /\ pc[t] \in Connecting => kind[t] = "connect" /\ server[t] \in Server
    /\ pc[t] \in Disconnecting => kind[t] = "disconnect"
    /\ pc[t] = "idle" => cancel[t] = "no"

\* What is shown was set by an operation that has started.
ActiveStarted == active # NoActive => pc[active.by] # "idle"

\* Up to its decisive step, an operation that is not being cancelled is _task.
OwnsTask ==
  \A t \in Op :
    pc[t] \in {"c_cert", "c_up", "d_start"} /\ cancel[t] # "pending" => t = task

\* A status of DISCONNECTING means that the last request was a disconnect, and
\* that it is still at work, unless the program is closing.
DownByTask ==
  state = "DISCONNECTING" /\ app = "running" =>
    /\ task # NoOp
    /\ kind[task] = "disconnect"
    /\ pc[task] \in Disconnecting

\* Nobody but shutdown() and asyncio.run cancels _task and leaves it there.
TaskNotCancelled ==
  app = "running" /\ task # NoOp => cancel[task] # "pending"

\* While the last request brings up its tunnel, no other one is shown or taken down.
UpNotYet ==
  \A t \in Op :
    pc[t] = "c_up" /\ cancel[t] # "pending" => state \notin {"CONNECTED", "DISCONNECTING"}

\* Operations start in the order of their numbers, and _task has started.
StartedInOrder ==
  /\ \A t, u \in Op : t < u /\ pc[t] = "idle" => pc[u] = "idle"
  /\ task # NoOp => pc[task] # "idle"

\* Nothing takes the last request along but the end of the program.
TaskNotUnwinding ==
  app = "running" /\ task # NoOp =>
    pc[task] \notin {"c_unwind", "d_unwind", "cancelled"}

IInv ==
  /\ TypeOK
  /\ StatusConsistent
  /\ BusyHasOwner
  /\ KeyFileRemoved
  /\ SavedIsShown
  /\ FreshStart
  /\ KindsMatch
  /\ ActiveStarted
  /\ OwnsTask
  /\ DownByTask
  /\ TaskNotCancelled
  /\ UpNotYet
  /\ StartedInOrder
  /\ TaskNotUnwinding
-----------------------------------------------------------------------------
(* Init implies the invariant, and every step preserves it: a lemma for each *)
(* group of actions, a step for each action.                                 *)

LEMMA InitIInv == Init => IInv
  BY InitTypeOK DEF Init, IInv, StatusConsistent, BusyHasOwner, KeyFileRemoved,
     SavedIsShown, FreshStart, KindsMatch, ActiveStarted, OwnsTask, DownByTask,
     TaskNotCancelled, UpNotYet, StartedInOrder, TaskNotUnwinding, InFlight,
     Connecting, Attaching, Disconnecting

\* What the user asks for, and the attachment at start-up.
LEMMA UserKeepsIInv ==
  ASSUME IInv, TypeOK', NEW t \in Op, UserStep(t)
  PROVE  IInv'
  <1> USE WireGuardAssumption, ConnectionAssumption DEF IInv, TypeOK, WgTypeOK,
        Actives, InFlight, Connecting, Attaching, Disconnecting, Done, At,
        CancelledAt, Ends, EndsCancelled, Swallows, Goes, SetStatus, Shown,
        wgVars, statusVars, agentVars, statsVars, callVars, StatusConsistent,
        BusyHasOwner, KeyFileRemoved, SavedIsShown, FreshStart, KindsMatch,
        ActiveStarted, OwnsTask, DownByTask, TaskNotCancelled, UpNotYet,
        StartedInOrder, TaskNotUnwinding
  <1>1. ASSUME NEW s \in Server, StartConnect(t, s) PROVE IInv'
    BY <1>1 DEF StartConnect, Spawn, TaskInFlight
  <1>2. CASE StartDisconnect(t)
    BY <1>2 DEF StartDisconnect, Spawn, TaskInFlight
  <1>3. CASE MountAttached(t)
    BY <1>3 DEF MountAttached, Spawn
  <1> QED
    BY <1>1, <1>2, <1>3 DEF UserStep

\* A step of a connect up to the tunnel.
LEMMA ConnectKeepsIInv ==
  ASSUME IInv, TypeOK', NEW t \in Op, ConnectStep(t)
  PROVE  IInv'
  <1> USE WireGuardAssumption, ConnectionAssumption DEF IInv, TypeOK, WgTypeOK,
        Actives, InFlight, Connecting, Attaching, Disconnecting, Done, At,
        CancelledAt, Ends, EndsCancelled, Swallows, Goes, SetStatus, Shown,
        wgVars, statusVars, agentVars, statsVars, callVars, StatusConsistent,
        BusyHasOwner, KeyFileRemoved, SavedIsShown, FreshStart, KindsMatch,
        ActiveStarted, OwnsTask, DownByTask, TaskNotCancelled, UpNotYet,
        StartedInOrder, TaskNotUnwinding
  <1>1. CASE ConnectImpossible(t)
    BY <1>1 DEF ConnectImpossible
  <1>2. CASE CertRefreshFails(t)
    BY <1>2 DEF CertRefreshFails
  <1>3. CASE BringUpTunnel(t)
    BY <1>3 DEF BringUpTunnel, WgUp, WriteConf
  <1>4. CASE ConnectUp(t)
    BY <1>4 DEF ConnectUp, SaveLastServer, StartAgent, Reap
  <1>5. CASE ConnectFails(t)
    BY <1>5 DEF ConnectFails, Reap
  <1>6. CASE ConnectDropped(t)
    BY <1>6 DEF ConnectDropped
  <1>7. CASE ConnectKilled(t)
    BY <1>7 DEF ConnectKilled, Kill
  <1>8. CASE ConnectKillDenied(t)
    BY <1>8 DEF ConnectKillDenied, Abandon
  <1>9. CASE ConnectUnwinds(t)
    BY <1>9 DEF ConnectUnwinds, Reap
  <1>10. CASE ConnectUnwritten(t)
    BY <1>10 DEF ConnectUnwritten, ConfUnwritten, WriteConf
  <1> QED
    BY <1>1, <1>2, <1>3, <1>4, <1>5, <1>6, <1>7, <1>8, <1>9, <1>10 DEF
         ConnectStep

\* A step of a task that brings up an agent.
LEMMA AgentKeepsIInv ==
  ASSUME IInv, TypeOK', NEW t \in Op, AgentStep(t)
  PROVE  IInv'
  <1> USE WireGuardAssumption, ConnectionAssumption DEF IInv, TypeOK, WgTypeOK,
        Actives, InFlight, Connecting, Attaching, Disconnecting, Done, At,
        CancelledAt, Ends, EndsCancelled, Swallows, Goes, SetStatus, Shown,
        wgVars, statusVars, agentVars, statsVars, callVars, StatusConsistent,
        BusyHasOwner, KeyFileRemoved, SavedIsShown, FreshStart, KindsMatch,
        ActiveStarted, OwnsTask, DownByTask, TaskNotCancelled, UpNotYet,
        StartedInOrder, TaskNotUnwinding
  <1>1. CASE AgentDials(t)
    BY <1>1 DEF AgentDials, Dialling, Asking
  <1>2. CASE AgentStarts(t)
    BY <1>2 DEF AgentStarts, StartPoller, Dialling, Asking
  <1>3. CASE AgentCertExpired(t)
    BY <1>3 DEF AgentCertExpired
  <1>4. CASE AgentRenewStopped(t)
    BY <1>4 DEF AgentRenewStopped
  <1>5. CASE AgentRenewed(t)
    BY <1>5 DEF AgentRenewed
  <1>6. CASE AgentGivesUp(t)
    BY <1>6 DEF AgentGivesUp, AgentWrites, StartPoller, Dialling, Asking
  <1>7. CASE AgentRefuses(t)
    BY <1>7 DEF AgentRefuses, Dialling, Asking
  <1>8. CASE AgentStopped(t)
    BY <1>8 DEF AgentStopped, AgentWrites, StartPoller
  <1>9. CASE AgentDropped(t)
    BY <1>9 DEF AgentDropped, Dialling, Asking
  <1> QED
    BY <1>1, <1>2, <1>3, <1>4, <1>5, <1>6, <1>7, <1>8, <1>9 DEF AgentStep

\* The steps of a disconnect that run from one await to the next one that
\* suspends: either this one is suspended again, or it has settled the status.
LEMMA DisconnectMoves ==
  ASSUME TypeOK, NEW t \in Op,
         \/ DisconnectStarts(t)
         \/ DisconnectPollerStopped(t)
         \/ DisconnectAgentStopped(t)
  PROVE  /\ UNCHANGED <<conf, server, kind, task, target, lastId, app>>
         /\ pc[t] \in {"d_start", "d_stats", "d_agent"}
         /\ pc[t] = "d_start" => cancel[t] # "pending"
         /\ \A u \in Op : cancel'[u] # cancel[u] =>
              u = t /\ cancel[t] = "pending" /\ cancel'[t] = "swallowed"
         /\ \/ /\ \E p \in {"d_stats", "d_agent", "d_down"} :
                    pc' = [pc EXCEPT ![t] = p]
               /\ state' = IF pc[t] = "d_start" THEN "DISCONNECTING" ELSE state
               /\ UNCHANGED <<active, error>>
            \/ /\ pc' = [pc EXCEPT ![t] = "returned"]
               /\ state' = "DISCONNECTED" /\ active' = NoActive
               /\ error' = "none"
  BY DEF DisconnectStarts, DisconnectPollerStopped, DisconnectAgentStopped,
     StopAgent, TakeDown, WgDown, SetStatus, Goes, Ends, At, Swallows, TypeOK,
     wgVars, callVars

\* A step of a disconnect.
LEMMA DisconnectKeepsIInv ==
  ASSUME IInv, TypeOK', NEW t \in Op, DisconnectStep(t)
  PROVE  IInv'
  <1> USE WireGuardAssumption, ConnectionAssumption DEF IInv, TypeOK, WgTypeOK,
        Actives, InFlight, Connecting, Attaching, Disconnecting, Done, At,
        CancelledAt, Ends, EndsCancelled, Swallows, Goes, SetStatus, Shown,
        wgVars, statusVars, agentVars, statsVars, callVars, StatusConsistent,
        BusyHasOwner, KeyFileRemoved, SavedIsShown, FreshStart, KindsMatch,
        ActiveStarted, OwnsTask, DownByTask, TaskNotCancelled, UpNotYet,
        StartedInOrder, TaskNotUnwinding
  <1>1. CASE DisconnectDown(t)
    BY <1>1 DEF DisconnectDown, Reap
  <1>2. CASE DisconnectFails(t)
    BY <1>2 DEF DisconnectFails, Reap
  <1>3. CASE DisconnectDropped(t)
    BY <1>3 DEF DisconnectDropped
  <1>4. CASE DisconnectKilled(t)
    BY <1>4 DEF DisconnectKilled, Kill
  <1>5. CASE DisconnectKillDenied(t)
    BY <1>5 DEF DisconnectKillDenied, Abandon
  <1>6. CASE DisconnectUnwinds(t)
    BY <1>6 DEF DisconnectUnwinds, Reap
  <1>7. CASE \/ DisconnectStarts(t)
             \/ DisconnectPollerStopped(t)
             \/ DisconnectAgentStopped(t)
    <2> HIDE DEF IInv
    <2>1. /\ UNCHANGED <<conf, server, kind, task, target, lastId, app>>
          /\ pc[t] \in {"d_start", "d_stats", "d_agent"}
          /\ pc[t] = "d_start" => cancel[t] # "pending"
          /\ \A u \in Op : cancel'[u] # cancel[u] =>
               u = t /\ cancel[t] = "pending" /\ cancel'[t] = "swallowed"
      BY <1>7, DisconnectMoves DEF IInv
    <2>2. CASE /\ \E p \in {"d_stats", "d_agent", "d_down"} :
                    pc' = [pc EXCEPT ![t] = p]
               /\ state' = IF pc[t] = "d_start" THEN "DISCONNECTING" ELSE state
               /\ UNCHANGED <<active, error>>
      BY <2>1, <2>2 DEF IInv
    <2>3. CASE /\ pc' = [pc EXCEPT ![t] = "returned"]
               /\ state' = "DISCONNECTED" /\ active' = NoActive
               /\ error' = "none"
      BY <2>1, <2>3 DEF IInv
    <2> QED
      BY <1>7, <2>2, <2>3, DisconnectMoves DEF IInv
  <1> QED
    BY <1>1, <1>2, <1>3, <1>4, <1>5, <1>6, <1>7 DEF DisconnectStep

\* The life of the program around the orchestrator.
LEMMA ProgramKeepsIInv ==
  ASSUME IInv, TypeOK', Mount \/ Shutdown \/ ShutdownStep \/ Crash
  PROVE  IInv'
  <1> USE WireGuardAssumption, ConnectionAssumption DEF IInv, TypeOK, WgTypeOK,
        Actives, InFlight, Connecting, Attaching, Disconnecting, Done, At,
        CancelledAt, Ends, EndsCancelled, Swallows, Goes, SetStatus, Shown,
        wgVars, statusVars, agentVars, statsVars, callVars, StatusConsistent,
        BusyHasOwner, KeyFileRemoved, SavedIsShown, FreshStart, KindsMatch,
        ActiveStarted, OwnsTask, DownByTask, TaskNotCancelled, UpNotYet,
        StartedInOrder, TaskNotUnwinding
  <1>1. CASE Mount
    BY <1>1 DEF Mount
  <1>2. CASE Shutdown
    BY <1>2 DEF Shutdown, ShutdownPoller, ShutdownAgent, TaskInFlight,
         CancelsAll
  <1>3. CASE ShutdownTaskEnded
    BY <1>3 DEF ShutdownTaskEnded, ShutdownPoller, ShutdownAgent,
         CancelsAll
  <1>4. CASE ShutdownAborted
    BY <1>4 DEF ShutdownAborted, CancelsAll
  <1>5. CASE ShutdownPollerEnded
    BY <1>5 DEF ShutdownPollerEnded, ShutdownAgent, CancelsAll
  <1>6. CASE ShutdownAgentEnded
    BY <1>6 DEF ShutdownAgentEnded, CancelsAll
  <1>7. CASE Exit
    BY <1>7 DEF Exit, NewProcess
  <1>8. CASE Crash
    BY <1>8 DEF Crash, NewProcess
  <1> QED
    BY <1>1, <1>2, <1>3, <1>4, <1>5, <1>6, <1>7, <1>8 DEF ShutdownStep

\* Scripts, prompts, the callbacks of an agent and the stats pollers.
LEMMA OthersKeepIInv ==
  ASSUME IInv, TypeOK', NEW t \in Op,
         AnswerPrompt(t) \/ RunScript(t) \/ AgentReports(t) \/ PollerStops(t)
  PROVE  IInv'
  <1> USE WireGuardAssumption, ConnectionAssumption DEF IInv, TypeOK, WgTypeOK,
        Actives, InFlight, Connecting, Attaching, Disconnecting, Done, At,
        CancelledAt, Ends, EndsCancelled, Swallows, Goes, SetStatus, Shown,
        wgVars, statusVars, agentVars, statsVars, callVars, StatusConsistent,
        BusyHasOwner, KeyFileRemoved, SavedIsShown, FreshStart, KindsMatch,
        ActiveStarted, OwnsTask, DownByTask, TaskNotCancelled, UpNotYet,
        StartedInOrder, TaskNotUnwinding
  <1>1. CASE AnswerPrompt(t)
    BY <1>1 DEF AnswerPrompt, Authorize, Dismiss, orchestratorVars
  <1>2. CASE RunScript(t)
    BY <1>2 DEF RunScript, ScriptCommand, DelStaleLink, AddLink, SetConf,
         BringUp, AddRoute, DelLink, ScriptFails, orchestratorVars
  <1>3. CASE AgentReports(t)
    BY <1>3 DEF AgentReports, AgentWrites
  <1>4. CASE PollerStops(t)
    BY <1>4 DEF PollerStops
  <1> QED
    BY <1>1, <1>2, <1>3, <1>4

LEMMA NextIInv == IInv /\ [Next]_vars => IInv'
  <1> SUFFICES ASSUME IInv, [Next]_vars PROVE IInv'
    OBVIOUS
  <1>1. TypeOK'
    BY NextTypeOK DEF IInv
  <1>2. CASE UNCHANGED vars
    BY <1>2 DEF vars, IInv, TypeOK, WgTypeOK, StatusConsistent, BusyHasOwner,
       KeyFileRemoved, SavedIsShown, FreshStart, KindsMatch, ActiveStarted,
       OwnsTask, DownByTask, TaskNotCancelled, UpNotYet, StartedInOrder,
       TaskNotUnwinding, wgVars, statusVars,
       agentVars, statsVars, callVars
  <1>3. CASE Next
    BY <1>1, <1>3, UserKeepsIInv, ConnectKeepsIInv, AgentKeepsIInv,
       DisconnectKeepsIInv, ProgramKeepsIInv, OthersKeepIInv DEF Next, TaskStep
  <1> QED
    BY <1>2, <1>3

LEMMA IInvHolds == Spec => []IInv
  BY InitIInv, NextIInv, PTL DEF Spec

-----------------------------------------------------------------------------
(* What follows from it.                                                   *)

\* A server is shown only while connected or on the way down, a target only on
\* the way up, and no error while connected or connecting.
THEOREM StatusIsConsistent == Spec => []StatusConsistent
  BY IInvHolds, PTL DEF IInv

\* However many operations overlap and however each of them ends, a busy status
\* always has an operation at work that will settle it.
THEOREM BusyIsOwned == Spec => []BusyHasOwner
  BY IInvHolds, PTL DEF IInv

\* A private-key file exists only while its script may still need it, after the
\* program was killed, or where it could not be written to its end.
THEOREM KeyFilesAreRemoved == Spec => []KeyFileRemoved
  BY IInvHolds, PTL DEF IInv

\* While the state file can be written, it names the server that is shown.
THEOREM ShownIsSaved == Spec => []SavedIsShown
  BY IInvHolds, PTL DEF IInv
-----------------------------------------------------------------------------
(* How the status line may change: the refinement of TunnelView.           *)

\* The server on the status line stays, whatever else is written beside it.
SameShown ==
  IF active = NoActive
  THEN active' = NoActive
  ELSE /\ active' # NoActive
       /\ active'.by = active.by
       /\ server'[active.by] = server[active.by]

\* The kinds of changes that steps make to the status line.
Stays      == state' = state /\ SameShown
GoesDown   == state' = "DISCONNECTING" /\ SameShown
Settles    == state' = "DISCONNECTED" /\ active' = NoActive
Tries      == state' = "CONNECTING" /\ active' = NoActive
GoesUp(t)  == /\ state \in {"CONNECTING", "DISCONNECTED"}
              /\ state' = "CONNECTED" /\ active' = Shown(t)
              /\ server'[t] \in Server
              /\ t = task \/ app = "starting"

StatusMove == Stays \/ GoesDown \/ Settles \/ Tries \/ \E t \in Op : GoesUp(t)

LEMMA UserMoves ==
  ASSUME IInv, NEW t \in Op, UserStep(t)
  PROVE  StatusMove
  <1>1. ASSUME NEW s \in Server, StartConnect(t, s) PROVE Stays
    BY <1>1 DEF StartConnect, Spawn, Stays, SameShown, IInv, TypeOK, WgTypeOK,
       ActiveStarted, Actives, statusVars
  <1>2. CASE StartDisconnect(t)
    BY <1>2 DEF StartDisconnect, StatusMove, Stays, SameShown, statusVars
  <1>3. CASE MountAttached(t)
    <2>1. state = "DISCONNECTED"
      BY <1>3 DEF MountAttached, IInv, FreshStart
    <2>2. server'[t] = lastId /\ lastId \in Server
      BY <1>3 DEF MountAttached, IInv, TypeOK, WgTypeOK
    <2>3. GoesUp(t)
      BY <1>3, <2>1, <2>2 DEF MountAttached, GoesUp, SetStatus
    <2> QED
      BY <2>3 DEF StatusMove
  <1> QED
    BY <1>1, <1>2, <1>3 DEF UserStep, StatusMove

LEMMA ConnectMoves ==
  ASSUME IInv, NEW t \in Op, ConnectStep(t)
  PROVE  StatusMove
  <1>1. CASE ConnectImpossible(t) \/ ConnectDropped(t) \/ ConnectKilled(t)
    BY <1>1 DEF ConnectImpossible, ConnectDropped, ConnectKilled, StatusMove,
       Stays, SameShown, statusVars, callVars
  <1>2. CASE \/ CertRefreshFails(t) \/ ConnectFails(t)
             \/ ConnectKillDenied(t) \/ ConnectUnwinds(t) \/ ConnectUnwritten(t)
    BY <1>2 DEF CertRefreshFails, ConnectFails, ConnectKillDenied,
       ConnectUnwinds, ConnectUnwritten, SetStatus, StatusMove, Settles
  <1>3. CASE BringUpTunnel(t)
    BY <1>3 DEF BringUpTunnel, SetStatus, StatusMove, Tries
  <1>4. CASE ConnectUp(t)
    <2>1. t = task /\ kind[t] = "connect" /\ server[t] \in Server
      BY <1>4 DEF ConnectUp, At, IInv, OwnsTask, KindsMatch, Connecting
    <2>2. state \in {"CONNECTING", "DISCONNECTED"}
      BY <1>4, <2>1 DEF ConnectUp, At, IInv, TypeOK, States, UpNotYet
    <2>3. GoesUp(t)
      BY <1>4, <2>1, <2>2 DEF ConnectUp, SetStatus, GoesUp, callVars
    <2> QED
      BY <2>3 DEF StatusMove
  <1> QED
    BY <1>1, <1>2, <1>3, <1>4 DEF ConnectStep

LEMMA DisconnectStepMoves ==
  ASSUME IInv, NEW t \in Op, DisconnectStep(t)
  PROVE  StatusMove
  <1>1. CASE DisconnectDropped(t) \/ DisconnectKilled(t)
    BY <1>1 DEF DisconnectDropped, DisconnectKilled, StatusMove, Stays,
       SameShown, statusVars, callVars
  <1>2. CASE \/ DisconnectDown(t) \/ DisconnectFails(t)
             \/ DisconnectKillDenied(t) \/ DisconnectUnwinds(t)
    BY <1>2 DEF DisconnectDown, DisconnectFails, DisconnectKillDenied,
       DisconnectUnwinds, SetStatus, StatusMove, Settles
  <1>3. CASE \/ DisconnectStarts(t)
             \/ DisconnectPollerStopped(t)
             \/ DisconnectAgentStopped(t)
    BY <1>3, DisconnectMoves DEF IInv, StatusMove, Stays, GoesDown, Settles,
       SameShown
  <1> QED
    BY <1>1, <1>2, <1>3 DEF DisconnectStep

\* An agent writes beside the server that is shown, and never replaces it.
LEMMA AgentMoves ==
  ASSUME IInv, NEW t \in Op, AgentStep(t) \/ AgentReports(t)
  PROVE  StatusMove
  <1>1. state' = state /\ server' = server
    BY DEF AgentStep, AgentReports, AgentDials, AgentStarts, AgentCertExpired,
       AgentRenewStopped, AgentRenewed, AgentGivesUp, AgentRefuses,
       AgentStopped, AgentDropped, statusVars, callVars
  <1>2. active' = active \/ AgentWrites(t)
    BY DEF AgentStep, AgentReports, AgentDials, AgentStarts, AgentCertExpired,
       AgentRenewStopped, AgentRenewed, AgentGivesUp, AgentRefuses,
       AgentStopped, AgentDropped, statusVars
  <1>3. CASE active' = active
    BY <1>1, <1>3 DEF StatusMove, Stays, SameShown
  <1>4. CASE AgentWrites(t)
    <2>1. CASE active = NoActive
      BY <1>1, <1>4, <2>1 DEF AgentWrites, StatusMove, Stays, SameShown
    <2>2. CASE active # NoActive
      <3>1. active' \in Actives /\ active'.by = active.by
        BY <1>4, <2>2 DEF AgentWrites, IInv, TypeOK, Actives
      <3>2. active' # NoActive
        BY <3>1, ConnectionAssumption DEF Actives
      <3> QED
        BY <1>1, <2>2, <3>1, <3>2 DEF StatusMove, Stays, SameShown
    <2> QED
      BY <2>1, <2>2
  <1> QED
    BY <1>2, <1>3, <1>4

LEMMA ProgramMoves ==
  ASSUME IInv, Mount \/ Shutdown \/ ShutdownStep \/ Crash
  PROVE  StatusMove
  <1>1. CASE Exit \/ Crash
    BY <1>1 DEF Exit, Crash, NewProcess, StatusMove, Settles
  <1>2. CASE \/ Mount \/ Shutdown \/ ShutdownTaskEnded \/ ShutdownAborted
             \/ ShutdownPollerEnded \/ ShutdownAgentEnded
    BY <1>2 DEF Mount, Shutdown, ShutdownTaskEnded, ShutdownAborted,
       ShutdownPollerEnded, ShutdownAgentEnded, StatusMove, Stays, SameShown,
       statusVars, callVars
  <1> QED
    BY <1>1, <1>2 DEF ShutdownStep

LEMMA NextMoves == IInv /\ Next => StatusMove
  <1> SUFFICES ASSUME IInv, Next PROVE StatusMove
    OBVIOUS
  <1>1. ASSUME NEW t \in Op, AnswerPrompt(t) \/ RunScript(t) \/ PollerStops(t)
        PROVE  StatusMove
    BY <1>1 DEF AnswerPrompt, RunScript, PollerStops, StatusMove, Stays,
       SameShown, orchestratorVars, statusVars, callVars
  <1> QED
    BY <1>1, UserMoves, ConnectMoves, DisconnectStepMoves, AgentMoves,
       ProgramMoves DEF Next, TaskStep

\* Whoever makes the status CONNECTED is the operation asked for last: a connect
\* that a disconnect has superseded never does.
THEOREM LatestRequestIsShown == Spec => LatestRequestWins
  <1>1. IInv /\ [Next]_vars =>
          [state # "CONNECTED" /\ state' = "CONNECTED"
             => active'.by = task \/ app = "starting"]_vars
    <2> SUFFICES ASSUME IInv, Next, state # "CONNECTED", state' = "CONNECTED"
                 PROVE  active'.by = task \/ app = "starting"
      OBVIOUS
    <2>1. PICK t \in Op : GoesUp(t)
      BY NextMoves DEF StatusMove, Stays, GoesDown, Settles, Tries
    <2> QED
      BY <2>1 DEF GoesUp, Shown
  <1> QED
    BY <1>1, IInvHolds, PTL DEF Spec, LatestRequestWins

\* The orchestrator implements TunnelView: whatever overlaps, its status line
\* changes only as that specification allows.
THEOREM ConnectionImplementsTunnelView == Spec => ImplementsTunnelView
  <1>1. Init => Abstract!ViewInit
    BY DEF Init, Abstract!ViewInit, ShownServer
  <1>2. IInv /\ [Next]_vars => [Abstract!ViewNext]_(Abstract!View)
    <2> SUFFICES ASSUME IInv, [Next]_vars
                 PROVE  Abstract!ViewNext \/ UNCHANGED Abstract!View
      BY DEF Abstract!View
    <2>1. CASE UNCHANGED vars
      BY <2>1 DEF vars, Abstract!View, ShownServer, statusVars, callVars
    <2>2. CASE Stays
      BY <2>2 DEF Stays, SameShown, Abstract!View, ShownServer
    <2>3. CASE GoesDown
      BY <2>3 DEF GoesDown, SameShown, Abstract!ViewNext, Abstract!Dismantle,
         ShownServer
    <2>4. CASE Settles
      BY <2>4 DEF Settles, Abstract!ViewNext, Abstract!Settle, ShownServer
    <2>5. CASE Tries
      BY <2>5 DEF Tries, Abstract!ViewNext, Abstract!Attempt, ShownServer
    <2>6. ASSUME NEW t \in Op, GoesUp(t) PROVE Abstract!ViewNext
      <3>1. active' # NoActive /\ active'.by = t
        BY <2>6, ConnectionAssumption DEF GoesUp, Shown
      <3>2. ShownServer' = server'[t]
        BY <3>1 DEF ShownServer
      <3>3. Abstract!Establish(server'[t])
        BY <2>6, <3>2 DEF GoesUp, Abstract!Establish
      <3> QED
        BY <2>6, <3>3 DEF GoesUp, Abstract!ViewNext
    <2> QED
      BY <2>1, <2>2, <2>3, <2>4, <2>5, <2>6, NextMoves DEF StatusMove
  <1> QED
    BY <1>1, <1>2, IInvHolds, PTL
    DEF Spec, ImplementsTunnelView, Abstract!ViewSpec
=============================================================================
