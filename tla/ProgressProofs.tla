---------------------------- MODULE ProgressProofs ----------------------------
(***************************************************************************)
(* Proofs about the progress of the operations of module Connection: that  *)
(* each goes one way, that nobody waits for what cannot come, and that the *)
(* privileged scripts take turns.  They are the part of the liveness       *)
(* properties that is not about fairness.                                  *)
(***************************************************************************)
EXTENDS TunnelProofs

\* What a step of task t may do: it moves t on, and only t, takes back no
\* cancellation, and authorizes no script.
TaskFrame(t) ==
  /\ UNCHANGED <<app, task>>
  /\ pc[t] \in InFlight /\ pc'[t] \in InFlight \union Done
  /\ Stage(pc[t]) < Stage(pc'[t])
  /\ \A u \in Op : /\ u # t => pc'[u] = pc[u]
                   /\ cancel[u] # "no" => cancel'[u] # "no"
                   /\ cancel[u] = "swallowed" => cancel'[u] = "swallowed"
                   /\ proc'[u] \in Running => proc[u] \in Running

LEMMA ConnectFrame ==
  ASSUME TypeOK, WInv, NEW t \in Op, ConnectStep(t)
  PROVE  TaskFrame(t)
  <1> USE DEF TypeOK, WgTypeOK, WInv, TakenUnwinds, TaskFrame, Stage, InFlight,
        Connecting, Attaching, Done, Running, At, CancelledAt, Ends, EndsCancelled,
        Goes, ProcIs, wgVars, callVars
  <1>1. CASE ConnectImpossible(t)
    BY <1>1 DEF ConnectImpossible
  <1>2. CASE CertRefreshFails(t)
    BY <1>2 DEF CertRefreshFails
  <1>3. CASE BringUpTunnel(t)
    BY <1>3 DEF BringUpTunnel, WgUp
  <1>4. CASE ConnectUp(t)
    BY <1>4 DEF ConnectUp, StartAgent, Reap
  <1>5. CASE ConnectFails(t)
    BY <1>5 DEF ConnectFails, Reap
  <1>6. CASE ConnectDropped(t)
    BY <1>6 DEF ConnectDropped
  <1>7. CASE ConnectKilled(t)
    BY <1>7 DEF ConnectKilled, Kill
  <1>8. CASE ConnectKillDenied(t)
    BY <1>8 DEF ConnectKillDenied, Abandon
  <1>9. CASE ConnectUnwinds(t)
    BY <1>9 DEF ConnectUnwinds, Reap
  <1>10. CASE ConnectUnwritten(t)
    BY <1>10 DEF ConnectUnwritten, ConfUnwritten
  <1> QED
    BY <1>1, <1>2, <1>3, <1>4, <1>5, <1>6, <1>7, <1>8, <1>9, <1>10 DEF ConnectStep

LEMMA AgentFrame ==
  ASSUME TypeOK, NEW t \in Op, AgentStep(t)
  PROVE  TaskFrame(t)
  <1> USE DEF TypeOK, WgTypeOK, TaskFrame, Stage, InFlight, Attaching, Done,
        Dialling, Asking, At, CancelledAt, Ends, EndsCancelled, Swallows, Goes,
        wgVars, callVars
  <1>1. CASE AgentDials(t)
    BY <1>1 DEF AgentDials
  <1>2. CASE AgentStarts(t)
    BY <1>2 DEF AgentStarts
  <1>3. CASE AgentCertExpired(t)
    BY <1>3 DEF AgentCertExpired
  <1>4. CASE AgentRenewStopped(t)
    BY <1>4 DEF AgentRenewStopped
  <1>5. CASE AgentRenewed(t)
    BY <1>5 DEF AgentRenewed
  <1>6. CASE AgentGivesUp(t)
    BY <1>6 DEF AgentGivesUp
  <1>7. CASE AgentRefuses(t)
    BY <1>7 DEF AgentRefuses
  <1>8. CASE AgentStopped(t)
    BY <1>8 DEF AgentStopped
  <1>9. CASE AgentDropped(t)
    BY <1>9 DEF AgentDropped
  <1> QED
    BY <1>1, <1>2, <1>3, <1>4, <1>5, <1>6, <1>7, <1>8, <1>9 DEF AgentStep

LEMMA DisconnectFrame ==
  ASSUME TypeOK, WInv, NEW t \in Op, DisconnectStep(t)
  PROVE  TaskFrame(t)
  <1> USE DEF TypeOK, WgTypeOK, WInv, TakenUnwinds, TaskFrame, Stage, InFlight,
        Disconnecting, Done, Running, At, CancelledAt, Ends, EndsCancelled,
        Swallows, Goes, ProcIs, wgVars, callVars
  <1>1. CASE DisconnectDown(t)
    BY <1>1 DEF DisconnectDown, Reap
  <1>2. CASE DisconnectFails(t)
    BY <1>2 DEF DisconnectFails, Reap
  <1>3. CASE DisconnectDropped(t)
    BY <1>3 DEF DisconnectDropped
  <1>4. CASE DisconnectKilled(t)
    BY <1>4 DEF DisconnectKilled, Kill
  <1>5. CASE DisconnectKillDenied(t)
    BY <1>5 DEF DisconnectKillDenied, Abandon
  <1>6. CASE DisconnectUnwinds(t)
    BY <1>6 DEF DisconnectUnwinds, Reap
  <1>7. CASE DisconnectStarts(t)
    BY <1>7 DEF DisconnectStarts, StopAgent, TakeDown, WgDown
  <1>8. CASE DisconnectPollerStopped(t)
    BY <1>8 DEF DisconnectPollerStopped, StopAgent, TakeDown, WgDown
  <1>9. CASE DisconnectAgentStopped(t)
    BY <1>9 DEF DisconnectAgentStopped, TakeDown, WgDown
  <1> QED
    BY <1>1, <1>2, <1>3, <1>4, <1>5, <1>6, <1>7, <1>8, <1>9 DEF DisconnectStep

LEMMA TaskStepFrame ==
  ASSUME TypeOK, WInv, NEW t \in Op, TaskStep(t)
  PROVE  TaskFrame(t)
  BY ConnectFrame, AgentFrame, DisconnectFrame DEF TaskStep

-----------------------------------------------------------------------------
(* Operations go one way.                                                  *)

\* Operations change one at a time, and forwards, or go away with the process.
Advance == \A u \in Op : pc'[u] # pc[u] => Stage(pc[u]) < Stage(pc'[u])

LEMMA NextAdvances ==
  ASSUME TypeOK, WInv, [Next]_vars
  PROVE  Advance
  <1> USE DEF TypeOK, Advance, Stage, InFlight, Connecting, Attaching,
        Disconnecting, Done
  <1>1. ASSUME NEW t \in Op, UserStep(t) PROVE Advance
    BY <1>1 DEF UserStep, StartConnect, StartDisconnect, MountAttached, Spawn, Goes
  <1>2. ASSUME NEW t \in Op, TaskStep(t) PROVE Advance
    BY <1>2, TaskStepFrame DEF TaskFrame
  <1>3. ASSUME NEW t \in Op,
               AnswerPrompt(t) \/ RunScript(t) \/ AgentReports(t) \/ PollerStops(t)
        PROVE  Advance
    BY <1>3 DEF AnswerPrompt, RunScript, AgentReports, PollerStops,
       orchestratorVars
  <1>4. CASE Mount \/ Shutdown \/ ShutdownStep
    BY <1>4 DEF Mount, Shutdown, ShutdownStep, ShutdownTaskEnded, ShutdownAborted,
       ShutdownPollerEnded, ShutdownAgentEnded, Exit
  <1>5. CASE Crash
    BY <1>5 DEF Crash
  <1>6. CASE UNCHANGED vars
    BY <1>6 DEF vars
  <1> QED
    BY <1>1, <1>2, <1>3, <1>4, <1>5, <1>6 DEF Next

\* No operation comes back to an await it has left, over crashes and restarts
\* too: the certificate is renewed once, and what has ended stays ended.
THEOREM OperationsGoOneWay == Spec => OperationsAdvance
  <1>1. TInv /\ [Next]_vars =>
          [\A t \in Op : pc'[t] # pc[t] => Stage(pc[t]) < Stage(pc'[t])]_vars
    BY NextAdvances DEF TInv, IInv, Advance
  <1> QED
    BY <1>1, TInvHolds, PTL DEF Spec, OperationsAdvance

\* Whatever the event loop does with a task takes its operation further: there
\* are at most ten such steps before it has ended.
THEOREM TaskStepsAdvance ==
  Spec => [][\A t \in Op : TaskStep(t) => Stage(pc[t]) < Stage(pc'[t])]_vars
  <1>1. TInv => [\A t \in Op : TaskStep(t) => Stage(pc[t]) < Stage(pc'[t])]_vars
    BY TaskStepFrame DEF TInv, IInv, TaskFrame
  <1> QED
    BY <1>1, TInvHolds, PTL

\* What is left when the program drains its tasks runs out: none is started any
\* more, and those in flight only move on.
THEOREM DrainRunsDry ==
  Spec => [][app = "drain" /\ app' = "drain" =>
               \A t \in Op : pc'[t] # pc[t] =>
                 pc[t] \in InFlight /\ Stage(pc[t]) < Stage(pc'[t])]_vars
  <1> DEFINE Dry == app = "drain" /\ app' = "drain" =>
                      \A t \in Op : pc'[t] # pc[t] =>
                        pc[t] \in InFlight /\ Stage(pc[t]) < Stage(pc'[t])
  <1>1. ASSUME TInv, Next PROVE Dry
    <2>1. TypeOK /\ WInv
      BY <1>1 DEF TInv, IInv
    <2>2. ASSUME NEW t \in Op, UserStep(t) PROVE app # "drain"
      BY <2>2 DEF UserStep, StartConnect, StartDisconnect, MountAttached
    <2>3. ASSUME NEW t \in Op, TaskStep(t) PROVE Dry
      BY <2>1, <2>3, TaskStepFrame DEF TaskFrame
    <2>4. ASSUME NEW t \in Op,
                 AnswerPrompt(t) \/ RunScript(t) \/ AgentReports(t) \/ PollerStops(t)
          PROVE  UNCHANGED pc
      BY <2>4 DEF AnswerPrompt, RunScript, AgentReports, PollerStops, orchestratorVars
    <2>5. CASE \/ Mount \/ Shutdown \/ ShutdownTaskEnded \/ ShutdownAborted
               \/ ShutdownPollerEnded \/ ShutdownAgentEnded
      BY <2>5 DEF Mount, Shutdown, ShutdownTaskEnded, ShutdownAborted,
         ShutdownPollerEnded, ShutdownAgentEnded
    <2>6. CASE Exit \/ Crash
      BY <2>6 DEF Exit, Crash, NewProcess
    <2> QED
      BY <1>1, <2>2, <2>3, <2>4, <2>5, <2>6 DEF Next, ShutdownStep
  <1>2. TInv /\ [Next]_vars => [Dry]_vars
    BY <1>1
  <1> QED
    BY <1>2, TInvHolds, PTL DEF Spec

-----------------------------------------------------------------------------
(* Nobody waits for what cannot come.                                      *)

\* Whoever ends the program has cancelled what it waits for.
ClosersCancel ==
  /\ app = "s_task" =>
       /\ task # NoOp
       /\ pc[task] \in Done \union InFlight
       /\ pc[task] \in InFlight => cancel[task] # "no"
  /\ app = "drain" => \A t \in Op : pc[t] \in InFlight => cancel[t] # "no"

LEMMA NextClosersCancel ==
  ASSUME TInv, TypeOK', ClosersCancel, [Next]_vars
  PROVE  ClosersCancel'
  <1>1. TypeOK /\ WInv
    BY DEF TInv, IInv
  <1> USE DEF ClosersCancel
  <1>2. ASSUME NEW t \in Op, UserStep(t) PROVE ClosersCancel'
    BY <1>2 DEF UserStep, StartConnect, StartDisconnect, MountAttached
  <1>3. ASSUME NEW t \in Op, TaskStep(t) PROVE ClosersCancel'
    <2>1. TaskFrame(t)
      BY <1>1, <1>3, TaskStepFrame
    <2> QED
      BY <1>1, <2>1 DEF TaskFrame, TypeOK
  <1>4. ASSUME NEW t \in Op,
               AnswerPrompt(t) \/ RunScript(t) \/ AgentReports(t) \/ PollerStops(t)
        PROVE  ClosersCancel'
    BY <1>4 DEF AnswerPrompt, RunScript, AgentReports, PollerStops,
       orchestratorVars, callVars
  <1>5. CASE Shutdown
    <2> USE <1>1, <1>5 DEF Shutdown, TypeOK, callVars
    <2>1. CASE TaskInFlight
      BY <2>1 DEF TaskInFlight, ShutdownPoller, ShutdownAgent, CancelsAll
    <2>2. CASE ~TaskInFlight
      BY <2>2 DEF ShutdownPoller, ShutdownAgent, CancelsAll
    <2> QED
      BY <2>1, <2>2
  <1>6. CASE \/ ShutdownTaskEnded \/ ShutdownAborted
             \/ ShutdownPollerEnded \/ ShutdownAgentEnded
    BY <1>1, <1>6 DEF ShutdownTaskEnded, ShutdownAborted, ShutdownPollerEnded,
       ShutdownAgentEnded, ShutdownPoller, ShutdownAgent, CancelsAll, TypeOK
  <1>7. CASE Mount \/ Exit \/ Crash
    BY <1>7 DEF Mount, Exit, Crash, NewProcess
  <1>8. CASE UNCHANGED vars
    BY <1>8 DEF vars, callVars
  <1> QED
    BY <1>2, <1>3, <1>4, <1>5, <1>6, <1>7, <1>8 DEF Next, ShutdownStep

\* An operation that awaits its process has one, shutdown awaits a task that is
\* over or was cancelled, and asyncio.run waits for cancelled tasks only.
THEOREM NobodyWaitsForNothing == Spec => []WaitsAreServed
  <1>1. Init => ClosersCancel
    BY DEF Init, ClosersCancel
  <1>2. TInv /\ TInv' /\ ClosersCancel /\ [Next]_vars => ClosersCancel'
    BY NextClosersCancel DEF TInv, IInv
  <1>3. TInv /\ ClosersCancel => WaitsAreServed
    BY DEF TInv, WInv, ProcsMatch, ClosersCancel, WaitsAreServed
  <1> QED
    BY <1>1, <1>2, <1>3, TInvHolds, PTL DEF Spec

-----------------------------------------------------------------------------
(* The privileged scripts take turns.                                      *)

\* The step authorizes no script, and what it leaves orderly was so before.
NothingAuthorized ==
  /\ \A u \in Op : proc'[u] \in Running => proc[u] \in Running
  /\ Orderly' /\ app' # "drain" => Orderly /\ app # "drain"

\* A prompt is answered when no cancellation is on its way to a process: whoever
\* else awaits one was not cancelled, and would be _task, too.
LEMMA AuthorizedIsAlone ==
  ASSUME TInv, Orderly, NEW t \in Op, KillsDelivered, proc[t] \in Prompting,
         NEW u \in Op, u # t
  PROVE  proc[u] \notin Running
  <1> USE DEF TInv, IInv, TypeOK, WgTypeOK, WInv, Orderly, Prompting, Running
  <1>1. \A v \in Op : proc[v] # "none" => pc[v] \in {"c_up", "d_down"}
    BY DEF ProcsMatch
  <1>2. \A v \in Op : pc[v] \in {"c_up", "d_down"} => cancel[v] = "no"
    BY DEF KillsDelivered, TakenUnwinds, InFlight, Connecting, Disconnecting
  <1>3. \A v \in Op : proc[v] # "none" => v = task
    BY <1>1, <1>2 DEF OwnsWork, Connecting, Disconnecting
  <1> QED
    BY <1>3

LEMMA AnswersKeepTurns ==
  ASSUME TInv, OneScriptAtATime, NEW t \in Op, AnswerPrompt(t)
  PROVE  OneScriptAtATime'
  <1>1. /\ UNCHANGED <<pc, cancel, app>> /\ KillsDelivered /\ proc[t] \in Prompting
        /\ \A u \in Op \ {t} : proc'[u] = proc[u]
    BY DEF AnswerPrompt, orchestratorVars, Authorize, Dismiss, ProcIs, TInv, IInv,
       TypeOK, WgTypeOK
  <1> SUFFICES ASSUME Orderly, app # "drain", NEW u \in Op, NEW v \in Op,
                      proc'[u] \in Running, proc'[v] \in Running
               PROVE  u = v
    BY <1>1 DEF OneScriptAtATime, Orderly
  <1>2. \A w \in Op \ {t} : proc[w] \notin Running
    BY <1>1, AuthorizedIsAlone
  <1> QED
    BY <1>1, <1>2

LEMMA NextKeepsTurns ==
  ASSUME TInv, TInv', OneScriptAtATime, [Next]_vars
  PROVE  OneScriptAtATime'
  <1>1. TypeOK /\ WInv /\ ProcsMatch'
    BY DEF TInv, IInv, WInv
  <1>2. NothingAuthorized => OneScriptAtATime'
    BY DEF NothingAuthorized, OneScriptAtATime
  <1> USE DEF NothingAuthorized, Orderly
  <1>3. ASSUME NEW t \in Op, UserStep(t) PROVE NothingAuthorized
    <2> USE <1>1 DEF Spawn, Goes, TypeOK, WInv, TInv, IInv, wgVars
    <2>1. ASSUME NEW s \in Server, StartConnect(t, s) PROVE NothingAuthorized
      BY <2>1 DEF StartConnect
    <2>2. CASE StartDisconnect(t)
      BY <2>2 DEF StartDisconnect, TaskInFlight, TaskUncancelled
    <2>3. CASE MountAttached(t)
      BY <2>3 DEF MountAttached
    <2> QED
      BY <1>3, <2>1, <2>2, <2>3 DEF UserStep
  <1>4. ASSUME NEW t \in Op, TaskStep(t) PROVE NothingAuthorized
    <2>1. TaskFrame(t)
      BY <1>1, <1>4, TaskStepFrame
    <2>2. pc[t] \notin {"denied", "gone"}
      BY <2>1 DEF TaskFrame, InFlight, Connecting, Attaching, Disconnecting
    <2> QED
      BY <2>1, <2>2 DEF TaskFrame
  <1>5. ASSUME NEW t \in Op, RunScript(t) \/ AgentReports(t) \/ PollerStops(t)
        PROVE  NothingAuthorized
    <2>1. UNCHANGED <<pc, cancel, app>>
      BY <1>5 DEF RunScript, AgentReports, PollerStops, orchestratorVars
    <2>2. CASE RunScript(t)
      BY <1>1, <2>1, <2>2 DEF RunScript, ScriptCommand, DelStaleLink, AddLink,
         SetConf, BringUp, AddRoute, DelLink, ScriptFails, ProcIs, Running, TypeOK, WgTypeOK
    <2>3. CASE AgentReports(t) \/ PollerStops(t)
      BY <2>1, <2>3 DEF AgentReports, PollerStops, wgVars
    <2> QED
      BY <1>5, <2>2, <2>3
  <1>6. CASE \/ Mount \/ Shutdown \/ ShutdownTaskEnded \/ ShutdownAborted
             \/ ShutdownPollerEnded \/ ShutdownAgentEnded
    <2>1. UNCHANGED <<proc, pc>> /\ app # "drain"
      BY <1>6 DEF Mount, Shutdown, ShutdownTaskEnded, ShutdownAborted,
         ShutdownPollerEnded, ShutdownAgentEnded, wgVars
    <2>2. app' # "drain" =>
            \A u \in Op : cancel[u] = "swallowed" => cancel'[u] = "swallowed"
      BY <1>1, <1>6 DEF Mount, Shutdown, ShutdownTaskEnded, ShutdownAborted,
         ShutdownPollerEnded, ShutdownAgentEnded, ShutdownPoller, ShutdownAgent,
         CancelsAll, TaskInFlight, TypeOK, TInv, WInv, TaskUncancelled
    <2> QED
      BY <1>2, <2>1, <2>2
  <1>7. CASE Exit \/ Crash
    <2>1. \A u \in Op : pc'[u] \notin {"c_up", "d_down"}
      BY <1>1, <1>7 DEF Exit, Crash, TypeOK, InFlight, Connecting, Disconnecting
    <2>2. Orderly' => \A u \in Op : proc'[u] = "none"
      BY <1>1, <2>1 DEF ProcsMatch
    <2> QED
      BY <2>2 DEF OneScriptAtATime, Running
  <1>8. CASE UNCHANGED vars
    BY <1>2, <1>8 DEF vars, wgVars
  <1> QED
    BY <1>2, <1>3, <1>4, <1>5, <1>6, <1>7, <1>8, AnswersKeepTurns
    DEF Next, ShutdownStep

\* Where no kill was denied, no process crashed and no cancellation was swallowed,
\* the scripts of two operations never run at a time, however often the user
\* changes his mind and whatever the prompts he leaves open.
THEOREM ScriptsTakeTurns == Spec => []OneScriptAtATime
  <1>1. Init => OneScriptAtATime
    BY DEF Init, OneScriptAtATime, Running
  <1> QED
    BY <1>1, NextKeepsTurns, TInvHolds, PTL DEF Spec

-----------------------------------------------------------------------------
(* Who takes a tunnel off the status line.                                 *)

\* The step is of the operation asked for last, or of one that was told to stop.
EndedByRequest ==
  \E t \in Op : pc'[t] # pc[t] /\ (t = task \/ cancel[t] # "no")

\* A task step that changes the status is one of a connect or of a disconnect.
LEMMA StatusChangerIsEntitled ==
  ASSUME TInv, NEW t \in Op, TaskStep(t), state' # state
  PROVE  EndedByRequest
  <1>1. pc'[t] # pc[t]
    BY TaskStepFrame DEF TInv, IInv, TaskFrame, TypeOK, Stage, InFlight, Connecting,
       Attaching, Disconnecting
  <1>2. ~AgentStep(t)
    BY DEF AgentStep, AgentDials, AgentStarts, AgentCertExpired, AgentRenewStopped,
       AgentRenewed, AgentGivesUp, AgentRefuses, AgentStopped, AgentDropped, statusVars
  <1>3. CASE ConnectStep(t)
    <2>1. pc[t] \in Connecting
      BY <1>3 DEF ConnectStep, ConnectImpossible, CertRefreshFails, BringUpTunnel,
         ConnectUnwritten, ConnectUp, ConnectFails, ConnectDropped, ConnectKilled,
         ConnectKillDenied, ConnectUnwinds, At, CancelledAt, Connecting
    <2> QED
      BY <1>1, <2>1 DEF TInv, WInv, OwnsWork, EndedByRequest
  <1>4. CASE DisconnectStep(t)
    <2>1. pc[t] \in Disconnecting
      BY <1>4 DEF DisconnectStep, DisconnectStarts, DisconnectPollerStopped,
         DisconnectAgentStopped, DisconnectDown, DisconnectFails, DisconnectDropped,
         DisconnectKilled, DisconnectKillDenied, DisconnectUnwinds, At, CancelledAt,
         Disconnecting
    <2> QED
      BY <1>1, <2>1 DEF TInv, WInv, OwnsWork, EndedByRequest
  <1> QED
    BY <1>2, <1>3, <1>4 DEF TaskStep

LEMMA NextTakesDown ==
  ASSUME TInv, Next, state = "CONNECTED", state' # "CONNECTED", app' # "starting"
  PROVE  EndedByRequest
  <1>1. ASSUME NEW t \in Op, UserStep(t) PROVE FALSE
    BY <1>1 DEF UserStep, StartConnect, StartDisconnect, MountAttached, SetStatus,
       statusVars
  <1>2. ASSUME NEW t \in Op, TaskStep(t) PROVE EndedByRequest
    BY <1>2, StatusChangerIsEntitled
  <1>3. ASSUME NEW t \in Op,
               AnswerPrompt(t) \/ RunScript(t) \/ AgentReports(t) \/ PollerStops(t)
        PROVE  FALSE
    BY <1>3 DEF AnswerPrompt, RunScript, AgentReports, PollerStops, orchestratorVars,
       statusVars
  <1>4. CASE \/ Mount \/ Shutdown \/ ShutdownTaskEnded \/ ShutdownAborted
             \/ ShutdownPollerEnded \/ ShutdownAgentEnded
    BY <1>4 DEF Mount, Shutdown, ShutdownTaskEnded, ShutdownAborted,
       ShutdownPollerEnded, ShutdownAgentEnded, statusVars
  <1>5. CASE Exit \/ Crash
    BY <1>5 DEF Exit, Crash, NewProcess
  <1> QED
    BY <1>1, <1>2, <1>3, <1>4, <1>5 DEF Next, ShutdownStep

\* Whatever overlaps, a tunnel is taken off the status line by the operation asked
\* for last, or by one that was told to stop and is late; a request that nobody has
\* cancelled is never behind.
THEOREM TunnelIsTakenDownOnRequest == Spec => TunnelIsTakenDown
  <1> DEFINE Entitled == state = "CONNECTED" /\ state' # "CONNECTED" /\ app' # "starting"
                           => EndedByRequest
  <1>1. TInv /\ [Next]_vars => [Entitled]_vars
    BY NextTakesDown
  <1>2. Spec => [][Entitled]_vars
    BY <1>1, TInvHolds, PTL DEF Spec
  <1> QED
    BY <1>2 DEF TunnelIsTakenDown, EndedByRequest
=============================================================================
