------------------------------ MODULE TunnelProofs ------------------------------
(***************************************************************************)
(* Proofs about the tunnel itself: what the scripts that the operations of *)
(* module Connection spawn have made of the link, whatever overlaps.       *)
(***************************************************************************)
EXTENDS ConnectionProofs

\* Operations that await a process of theirs.
Touching(t) == pc[t] \in {"c_up", "d_down"}

\* The link once the script of t has configured it, once it is up, and once the
\* script is through.
SetFor(t) == [present |-> TRUE, peer |-> server[t], up |-> FALSE, routed |-> FALSE]
UpFor(t) == [SetFor(t) EXCEPT !.up = TRUE]
ThroughFor(t) == [present |-> TRUE, peer |-> server[t], up |-> TRUE, routed |-> TRUE]

\* Only an operation that awaits its process has one, unless it was cut loose,
\* and the process does what the operation wants.
ProcsMatch ==
  \A t \in Op :
    /\ proc[t] # "none" => pc[t] \in {"c_up", "d_down", "denied", "gone"}
    /\ pc[t] = "c_up" =>
         proc[t] \in {"up_auth", "del", "add", "setconf", "bring_up", "route", "ok",
                      "failed"}
    /\ pc[t] = "d_down" => proc[t] \in {"down_auth", "link_del", "ok", "failed"}

\* An operation on the link that nobody has cancelled is _task.
OwnsWork ==
  \A t \in Op :
    pc[t] \in Connecting \union Disconnecting /\ cancel[t] = "no" => t = task

\* A cancellation that was delivered at work leaves an operation that unwinds; a
\* connect swallows none, and no kill is denied but that of a cancellation.
TakenUnwinds ==
  \A t \in Op :
    /\ pc[t] \in InFlight /\ cancel[t] = "taken" => pc[t] \in {"c_unwind", "d_unwind"}
    /\ pc[t] \in Connecting \union {"d_unwind"} => cancel[t] # "swallowed"
    /\ pc[t] = "denied" => cancel[t] # "no"

\* While the program runs, nobody has cancelled _task at work.
TaskUncancelled ==
  app = "running" /\ task # NoOp /\ pc[task] \in InFlight => cancel[task] = "no"

\* A disconnect that is _task and at work: nothing is shown as connected.
DownNotUp ==
  task # NoOp /\ pc[task] \in Disconnecting \ {"d_start"} => state # "CONNECTED"

\* A script of a connect that was authorized, and not cancelled since, is alone,
\* and the link is what its commands so far have made of it.
ScriptAlone ==
  \A t \in Op :
    /\ pc[t] = "c_up" /\ cancel[t] # "pending"
    /\ proc[t] \in {"del", "add", "setconf", "bring_up", "route", "ok"}
    =>
      /\ \A u \in Op \ {t} : ~Touching(u)
      /\ proc[t] = "add" => link = NoLink
      /\ proc[t] = "setconf" => link = [NoLink EXCEPT !.present = TRUE]
      /\ proc[t] = "bring_up" => link = SetFor(t)
      /\ proc[t] = "route" => link = UpFor(t)
      /\ proc[t] = "ok" => link = ThroughFor(t)

\* Once a connect is shown as connected, no process touches the link.
TunnelStays ==
  state = "CONNECTED" /\ kind[active.by] = "connect" =>
    /\ link = ThroughFor(active.by)
    /\ \A u \in Op : ~Touching(u)

\* What was never cancelled or killed.
Quiet == \A t \in Op : cancel[t] = "no" /\ pc[t] # "gone"

\* The link is gone once the script of a disconnect is through, and stays so when
\* the disconnect has returned.
TornDown ==
  task # NoOp =>
    /\ pc[task] = "d_down" /\ proc[task] = "ok" => ~link.present
    /\ kind[task] = "disconnect" /\ pc[task] = "returned" => ~link.present

\* A disconnect dials no agent.
NoDialDown == \A t \in Op : pc[t] \in Attaching => kind[t] # "disconnect"

\* The part of the invariant that is about the operations alone.
WInv ==
  /\ ProcsMatch
  /\ OwnsWork
  /\ TakenUnwinds
  /\ TaskUncancelled
  /\ DownNotUp
  /\ NoDialDown

-----------------------------------------------------------------------------
(* The operations and their processes.                                     *)

LEMMA InitWInv == Init => WInv
  BY DEF Init, WInv, ProcsMatch, OwnsWork, TakenUnwinds, TaskUncancelled, DownNotUp,
     NoDialDown,
     InFlight, Connecting, Attaching, Disconnecting

LEMMA UserKeepsWInv ==
  ASSUME IInv, TypeOK', WInv, NEW t \in Op, UserStep(t)
  PROVE  WInv'
  <1> USE WireGuardAssumption, ConnectionAssumption DEF IInv, TypeOK, WgTypeOK,
        InFlight, Connecting, Attaching, Disconnecting, Done, Goes, SetStatus,
        wgVars, statusVars, agentVars, statsVars, callVars, FreshStart, KindsMatch,
        StartedInOrder, WInv, ProcsMatch, OwnsWork, TakenUnwinds, TaskUncancelled,
        DownNotUp, NoDialDown
  <1>1. ASSUME NEW s \in Server, StartConnect(t, s) PROVE WInv'
    BY <1>1 DEF StartConnect, Spawn, TaskInFlight
  <1>2. CASE StartDisconnect(t)
    BY <1>2 DEF StartDisconnect, Spawn, TaskInFlight
  <1>3. CASE MountAttached(t)
    BY <1>3 DEF MountAttached, Spawn
  <1> QED
    BY <1>1, <1>2, <1>3 DEF UserStep

LEMMA ConnectKeepsWInv ==
  ASSUME IInv, TypeOK', WInv, NEW t \in Op, ConnectStep(t)
  PROVE  WInv'
  <1> USE WireGuardAssumption, ConnectionAssumption DEF IInv, TypeOK, WgTypeOK,
        InFlight, Connecting, Attaching, Disconnecting, Done, At, CancelledAt, Ends,
        EndsCancelled, Goes, SetStatus, ProcIs, OwnsTask, KindsMatch,
        wgVars, statusVars, agentVars, statsVars, callVars,
        WInv, ProcsMatch, OwnsWork, TakenUnwinds, TaskUncancelled, DownNotUp,
        NoDialDown
  <1>1. CASE ConnectImpossible(t)
    BY <1>1 DEF ConnectImpossible
  <1>2. CASE CertRefreshFails(t)
    BY <1>2 DEF CertRefreshFails
  <1>3. CASE BringUpTunnel(t)
    BY <1>3 DEF BringUpTunnel, WgUp, WriteConf
  <1>4. CASE ConnectUp(t)
    BY <1>4 DEF ConnectUp, StartAgent, Reap
  <1>5. CASE ConnectFails(t)
    BY <1>5 DEF ConnectFails, Reap
  <1>6. CASE ConnectDropped(t)
    BY <1>6 DEF ConnectDropped
  <1>7. CASE ConnectKilled(t)
    BY <1>7 DEF ConnectKilled, Kill
  <1>8. CASE ConnectKillDenied(t)
    BY <1>8 DEF ConnectKillDenied, Abandon
  <1>9. CASE ConnectUnwinds(t)
    BY <1>9 DEF ConnectUnwinds, Reap
  <1>10. CASE ConnectUnwritten(t)
    BY <1>10 DEF ConnectUnwritten, ConfUnwritten
  <1> QED
    BY <1>1, <1>2, <1>3, <1>4, <1>5, <1>6, <1>7, <1>8, <1>9, <1>10 DEF ConnectStep

LEMMA AgentKeepsWInv ==
  ASSUME IInv, TypeOK', WInv, NEW t \in Op, AgentStep(t)
  PROVE  WInv'
  <1> USE WireGuardAssumption, ConnectionAssumption DEF IInv, TypeOK, WgTypeOK,
        InFlight, Connecting, Attaching, Disconnecting, Done, At, CancelledAt, Ends,
        EndsCancelled, Swallows, Goes, Dialling, Asking, TaskNotCancelled,
        wgVars, statusVars, agentVars, statsVars, callVars,
        WInv, ProcsMatch, OwnsWork, TakenUnwinds, TaskUncancelled, DownNotUp,
        NoDialDown
  <1>1. CASE AgentDials(t)
    BY <1>1 DEF AgentDials
  <1>2. CASE AgentStarts(t)
    BY <1>2 DEF AgentStarts
  <1>3. CASE AgentCertExpired(t)
    BY <1>3 DEF AgentCertExpired
  <1>4. CASE AgentRenewStopped(t)
    BY <1>4 DEF AgentRenewStopped
  <1>5. CASE AgentRenewed(t)
    BY <1>5 DEF AgentRenewed
  <1>6. CASE AgentGivesUp(t)
    BY <1>6 DEF AgentGivesUp
  <1>7. CASE AgentRefuses(t)
    BY <1>7 DEF AgentRefuses
  <1>8. CASE AgentStopped(t)
    BY <1>8 DEF AgentStopped
  <1>9. CASE AgentDropped(t)
    BY <1>9 DEF AgentDropped
  <1> QED
    BY <1>1, <1>2, <1>3, <1>4, <1>5, <1>6, <1>7, <1>8, <1>9 DEF AgentStep

\* How the awaits of a disconnect before its process touch the link: they spawn
\* the process, or find no link.
LEMMA DisconnectSpawns ==
  ASSUME TypeOK, NEW t \in Op,
         \/ DisconnectStarts(t)
         \/ DisconnectPollerStopped(t)
         \/ DisconnectAgentStopped(t)
  PROVE  /\ UNCHANGED link
         /\ \/ /\ UNCHANGED proc
               /\ \/ pc'[t] \in {"d_stats", "d_agent"}
                  \/ pc'[t] = "returned" /\ ~link.present
            \/ pc'[t] = "d_down" /\ proc' = [proc EXCEPT ![t] = "down_auth"]
  <1> DEFINE Spawns ==
        /\ UNCHANGED link
        /\ \/ /\ UNCHANGED proc
              /\ \/ pc'[t] \in {"d_stats", "d_agent"}
                 \/ pc'[t] = "returned" /\ ~link.present
           \/ pc'[t] = "d_down" /\ proc' = [proc EXCEPT ![t] = "down_auth"]
  <1> USE DEF TypeOK, Goes, Ends, wgVars
  <1>1. ASSUME NEW s, TakeDown(t, s) PROVE Spawns
    <2>1. CASE LinkExists /\ WgDown(t) /\ Goes(t, "d_down")
      BY <2>1 DEF WgDown, ProcIs
    <2>2. CASE ~LinkExists /\ Ends(t, "returned") /\ UNCHANGED wgVars
      BY <2>2 DEF LinkExists
    <2> QED
      BY <1>1, <2>1, <2>2 DEF TakeDown
  <1>2. ASSUME NEW s, StopAgent(t, s) PROVE Spawns
    <2>1. CASE Goes(t, "d_agent") /\ UNCHANGED wgVars
      BY <2>1
    <2> QED
      BY <1>1, <1>2, <2>1 DEF StopAgent
  <1>3. CASE Goes(t, "d_stats") /\ UNCHANGED wgVars
    BY <1>3
  <1> QED
    BY <1>1, <1>2, <1>3
    DEF DisconnectStarts, DisconnectPollerStopped, DisconnectAgentStopped

LEMMA DisconnectKeepsWInv ==
  ASSUME IInv, TypeOK', WInv, NEW t \in Op, DisconnectStep(t)
  PROVE  WInv'
  <1> USE WireGuardAssumption, ConnectionAssumption DEF IInv, TypeOK, WgTypeOK,
        InFlight, Connecting, Attaching, Disconnecting, Done, At, CancelledAt, Ends,
        EndsCancelled, Goes, SetStatus, ProcIs, OwnsTask, TaskNotCancelled,
        wgVars, statusVars, agentVars, statsVars, callVars,
        WInv, ProcsMatch, OwnsWork, TakenUnwinds, TaskUncancelled, DownNotUp,
        NoDialDown
  <1>1. CASE DisconnectDown(t)
    BY <1>1 DEF DisconnectDown, Reap
  <1>2. CASE DisconnectFails(t)
    BY <1>2 DEF DisconnectFails, Reap
  <1>3. CASE DisconnectDropped(t)
    BY <1>3 DEF DisconnectDropped
  <1>4. CASE DisconnectKilled(t)
    BY <1>4 DEF DisconnectKilled, Kill
  <1>5. CASE DisconnectKillDenied(t)
    BY <1>5 DEF DisconnectKillDenied, Abandon
  <1>6. CASE DisconnectUnwinds(t)
    BY <1>6 DEF DisconnectUnwinds, Reap
  <1>7. CASE \/ DisconnectStarts(t)
             \/ DisconnectPollerStopped(t)
             \/ DisconnectAgentStopped(t)
    <2> HIDE DEF IInv, WInv
    <2>1. /\ UNCHANGED <<conf, server, kind, task, target, lastId, app>>
          /\ pc[t] \in {"d_start", "d_stats", "d_agent"}
          /\ pc[t] = "d_start" => cancel[t] # "pending"
          /\ \A u \in Op : cancel'[u] # cancel[u] =>
               u = t /\ cancel[t] = "pending" /\ cancel'[t] = "swallowed"
      BY <1>7, DisconnectMoves DEF IInv
    <2>2. \A u \in Op \ {t} : pc'[u] = pc[u] /\ proc'[u] = proc[u]
      BY <1>7, DisconnectMoves, DisconnectSpawns DEF IInv
    <2>3. \/ /\ proc'[t] = proc[t]
             /\ pc'[t] \in {"d_stats", "d_agent", "returned"}
          \/ pc'[t] = "d_down" /\ proc'[t] = "down_auth"
      BY <1>7, DisconnectSpawns DEF IInv
    <2>4. \/ state' = state /\ pc[t] # "d_start"
          \/ state' \in {"DISCONNECTING", "DISCONNECTED"}
      BY <1>7, DisconnectMoves DEF IInv
    <2>5. ProcsMatch'
      BY <2>1, <2>2, <2>3 DEF WInv
    <2>6. OwnsWork' /\ TakenUnwinds'
      BY <2>1, <2>2, <2>3 DEF WInv
    <2>7. TaskUncancelled'
      BY <2>1, <2>2, <2>3 DEF WInv, IInv
    <2>8. DownNotUp' /\ NoDialDown'
      BY <2>1, <2>2, <2>3, <2>4 DEF WInv
    <2> QED
      BY <2>5, <2>6, <2>7, <2>8 DEF WInv
  <1> QED
    BY <1>1, <1>2, <1>3, <1>4, <1>5, <1>6, <1>7 DEF DisconnectStep

LEMMA ProgramKeepsWInv ==
  ASSUME IInv, TypeOK', WInv, Mount \/ Shutdown \/ ShutdownStep \/ Crash
  PROVE  WInv'
  <1> USE WireGuardAssumption, ConnectionAssumption DEF IInv, TypeOK, WgTypeOK,
        InFlight, Connecting, Attaching, Disconnecting, Done,
        wgVars, statusVars, agentVars, statsVars, callVars, FreshStart,
        WInv, ProcsMatch, OwnsWork, TakenUnwinds, TaskUncancelled, DownNotUp,
        NoDialDown
  <1>1. CASE Mount
    BY <1>1 DEF Mount
  <1>2. CASE Shutdown
    BY <1>2 DEF Shutdown, ShutdownPoller, ShutdownAgent, TaskInFlight, CancelsAll
  <1>3. CASE ShutdownTaskEnded
    BY <1>3 DEF ShutdownTaskEnded, ShutdownPoller, ShutdownAgent, CancelsAll
  <1>4. CASE ShutdownAborted
    BY <1>4 DEF ShutdownAborted, CancelsAll
  <1>5. CASE ShutdownPollerEnded
    BY <1>5 DEF ShutdownPollerEnded, ShutdownAgent, CancelsAll
  <1>6. CASE ShutdownAgentEnded
    BY <1>6 DEF ShutdownAgentEnded, CancelsAll
  <1>7. CASE Exit
    BY <1>7 DEF Exit, NewProcess
  <1>8. CASE Crash
    BY <1>8 DEF Crash, NewProcess
  <1> QED
    BY <1>1, <1>2, <1>3, <1>4, <1>5, <1>6, <1>7, <1>8 DEF ShutdownStep

LEMMA OthersKeepWInv ==
  ASSUME IInv, TypeOK', WInv, NEW t \in Op,
         AnswerPrompt(t) \/ RunScript(t) \/ AgentReports(t) \/ PollerStops(t)
  PROVE  WInv'
  <1> USE WireGuardAssumption, ConnectionAssumption DEF IInv, TypeOK, WgTypeOK,
        Prompting, Running, ProcIs, orchestratorVars,
        wgVars, statusVars, agentVars, statsVars, callVars,
        WInv, ProcsMatch, OwnsWork, TakenUnwinds, TaskUncancelled, DownNotUp,
        NoDialDown
  <1>1. CASE AnswerPrompt(t)
    BY <1>1 DEF AnswerPrompt, Authorize, Dismiss
  <1>2. CASE RunScript(t)
    BY <1>2 DEF RunScript, ScriptCommand, DelStaleLink, AddLink, SetConf, BringUp,
         AddRoute, DelLink, ScriptFails
  <1>3. CASE AgentReports(t) \/ PollerStops(t)
    BY <1>3 DEF AgentReports, PollerStops
  <1> QED
    BY <1>1, <1>2, <1>3

LEMMA NextWInv ==
  ASSUME IInv, TypeOK', WInv, [Next]_vars
  PROVE  WInv'
  <1>1. CASE UNCHANGED vars
    BY <1>1 DEF vars, WInv, ProcsMatch, OwnsWork, TakenUnwinds, TaskUncancelled,
       DownNotUp, NoDialDown, wgVars, statusVars, callVars
  <1>2. CASE Next
    BY <1>2, UserKeepsWInv, ConnectKeepsWInv, AgentKeepsWInv, DisconnectKeepsWInv,
       ProgramKeepsWInv, OthersKeepWInv DEF Next, TaskStep
  <1> QED
    BY <1>1, <1>2

-----------------------------------------------------------------------------
(* The link and its scripts.                                               *)

\* Where nothing was cut loose, scripts and status agree on the link.
LinkInv == Orderly /\ app # "drain" => ScriptAlone /\ TunnelStays

\* Where nothing was even cancelled, a disconnect leaves no link.
DownInv == Quiet => TornDown

LEMMA InitLinkInv == Init => LinkInv /\ DownInv
  BY WireGuardAssumption DEF Init, LinkInv, DownInv, ScriptAlone, TunnelStays, TornDown,
     Touching

\* What was cut loose, or cancelled at all, stays so.
LooseStays ==
  /\ \A u \in Op : /\ pc[u] \in {"denied", "gone"} => pc'[u] = pc[u]
                   /\ cancel[u] # "no" => cancel'[u] # "no"
  /\ app' # "drain" =>
       /\ app # "drain"
       /\ \A u \in Op : cancel[u] = "swallowed" => cancel'[u] = "swallowed"

\* The step leaves the link alone and starts no process.
NothingTouched ==
  /\ UNCHANGED link
  /\ \A u \in Op : Touching(u)' =>
       /\ pc'[u] = pc[u] /\ proc'[u] = proc[u] /\ server'[u] = server[u]
       /\ cancel[u] = "pending" => cancel'[u] = "pending"

\* The step shows no connect as connected that was not shown so.
NothingShown ==
  state' = "CONNECTED" /\ kind'[active'.by] = "connect" =>
    /\ state = "CONNECTED" /\ active'.by = active.by
    /\ kind'[active.by] = kind[active.by] /\ server'[active.by] = server[active.by]

\* The step lets no disconnect return.
NoneReturns ==
  task' # NoOp =>
    \/ pc'[task'] # "returned"
    \/ kind'[task'] # "disconnect"
    \/ task' = task /\ UNCHANGED <<pc[task], kind[task]>>

LinkFrame == NothingTouched /\ NothingShown /\ NoneReturns /\ LooseStays

LEMMA LinkKept ==
  ASSUME IInv, TypeOK', LinkInv, NothingTouched, NothingShown, LooseStays
  PROVE  LinkInv'
  <1> SUFFICES ASSUME Orderly', app' # "drain" PROVE ScriptAlone' /\ TunnelStays'
    BY DEF LinkInv
  <1>1. ScriptAlone /\ TunnelStays
    BY DEF LinkInv, Orderly, LooseStays
  <1>2. \A u \in Op : Touching(u)' => Touching(u)
    BY DEF NothingTouched, Touching
  <1>3. ScriptAlone'
    BY <1>1, <1>2 DEF IInv, ScriptAlone, NothingTouched, Touching, ThroughFor, UpFor,
       SetFor
  <1>4. TunnelStays'
    BY <1>1, <1>2 DEF IInv, TunnelStays, NothingTouched, NothingShown, ThroughFor
  <1> QED
    BY <1>3, <1>4

LEMMA DownKept ==
  ASSUME IInv, TypeOK', OwnsWork, DownInv, NothingTouched, NoneReturns, LooseStays
  PROVE  DownInv'
  <1> SUFFICES ASSUME Quiet', task' # NoOp PROVE TornDown'
    BY DEF DownInv, TornDown
  <1>1. Quiet
    BY DEF Quiet, LooseStays, IInv, TypeOK
  <1>2. ASSUME pc'[task'] = "d_down", proc'[task'] = "ok" PROVE ~link'.present
    <2>1. pc[task'] = "d_down" /\ proc[task'] = "ok" /\ UNCHANGED link
      BY <1>2 DEF NothingTouched, Touching, TypeOK
    <2>2. task' = task
      BY <1>1, <2>1 DEF IInv, TypeOK, OwnsWork, Quiet, Connecting, Disconnecting
    <2> QED
      BY <1>1, <2>1, <2>2 DEF DownInv, TornDown
  <1>3. ASSUME kind'[task'] = "disconnect", pc'[task'] = "returned"
        PROVE  ~link'.present
    BY <1>1, <1>3 DEF NoneReturns, NothingTouched, DownInv, TornDown
  <1> QED
    BY <1>2, <1>3 DEF TornDown

LEMMA FrameKeepsLink ==
  ASSUME IInv, TypeOK', WInv, LinkInv, DownInv, LinkFrame
  PROVE  LinkInv' /\ DownInv'
  BY LinkKept, DownKept DEF LinkFrame, WInv

\* Starting an operation, or attaching to a link, leaves the link alone.
LEMMA UserKeepsLink ==
  ASSUME IInv, TypeOK', WInv, LinkInv, DownInv, NEW t \in Op, UserStep(t)
  PROVE  LinkInv' /\ DownInv'
  <1> USE WireGuardAssumption, ConnectionAssumption DEF LinkFrame, NothingTouched,
        Touching, NothingShown, NoneReturns, LooseStays, SetStatus, Goes, Ends,
        EndsCancelled, At, CancelledAt, ProcIs, wgVars, statusVars, callVars,
        agentVars, statsVars, IInv, TypeOK, WgTypeOK, KindsMatch, WInv
  <1>1. ASSUME NEW s \in Server, StartConnect(t, s) PROVE LinkFrame
    BY <1>1 DEF StartConnect, Spawn, StatusConsistent, ActiveStarted, Actives
  <1>2. ASSUME StartDisconnect(t) PROVE LinkFrame
    BY <1>2 DEF StartDisconnect, Spawn, StatusConsistent, ActiveStarted, Actives,
      TaskInFlight, TaskUncancelled
  <1>3. ASSUME MountAttached(t) PROVE LinkFrame
    BY <1>3 DEF MountAttached, Spawn, Shown, FreshStart
  <1> HIDE DEF LinkFrame, IInv, TypeOK, WInv
  <1> QED
    BY <1>1, <1>2, <1>3, FrameKeepsLink DEF UserStep

\* So does all that an operation does about the agent.
LEMMA AgentKeepsLink ==
  ASSUME IInv, TypeOK', WInv, LinkInv, DownInv, NEW t \in Op, AgentStep(t)
  PROVE  LinkInv' /\ DownInv'
  <1> USE WireGuardAssumption, ConnectionAssumption DEF LinkFrame, NothingTouched,
        Touching, NothingShown, NoneReturns, LooseStays, SetStatus, Goes, Ends,
        EndsCancelled, At, CancelledAt, ProcIs, wgVars, statusVars, callVars,
        agentVars, statsVars, IInv, TypeOK, WgTypeOK, KindsMatch, WInv,
        Attaching, InFlight, StatusConsistent, Actives, NoDialDown
  <1>1. ASSUME AgentDials(t) PROVE LinkFrame
    BY <1>1 DEF AgentDials, Dialling
  <1>2. ASSUME AgentStarts(t) PROVE LinkFrame
    BY <1>2 DEF AgentStarts, Asking, StartPoller
  <1>3. ASSUME AgentCertExpired(t) PROVE LinkFrame
    BY <1>3 DEF AgentCertExpired
  <1>4. ASSUME AgentRenewStopped(t) PROVE LinkFrame
    BY <1>4 DEF AgentRenewStopped, Swallows
  <1>5. ASSUME AgentRenewed(t) PROVE LinkFrame
    BY <1>5 DEF AgentRenewed
  <1>6. ASSUME AgentGivesUp(t) PROVE LinkFrame
    BY <1>6 DEF AgentGivesUp, Dialling, AgentWrites, StartPoller
  <1>7. ASSUME AgentRefuses(t) PROVE LinkFrame
    BY <1>7 DEF AgentRefuses, Asking
  <1>8. ASSUME AgentStopped(t) PROVE LinkFrame
    BY <1>8 DEF AgentStopped, Swallows, AgentWrites, StartPoller
  <1>9. ASSUME AgentDropped(t) PROVE LinkFrame
    BY <1>9 DEF AgentDropped, Dialling, Asking
  <1> HIDE DEF LinkFrame, IInv, TypeOK, WInv
  <1> QED
    BY <1>1, <1>2, <1>3, <1>4, <1>5, <1>6, <1>7, <1>8, <1>9, FrameKeepsLink DEF
      AgentStep

\* A connect that spawns no script and does not succeed.
LEMMA ConnectKeepsLink ==
  ASSUME IInv, TypeOK', WInv, LinkInv, DownInv, NEW t \in Op,
         \/ ConnectImpossible(t)
         \/ CertRefreshFails(t)
         \/ ConnectFails(t)
         \/ ConnectDropped(t)
         \/ ConnectKilled(t)
         \/ ConnectKillDenied(t)
         \/ ConnectUnwinds(t)
         \/ ConnectUnwritten(t)
  PROVE  LinkInv' /\ DownInv'
  <1> USE WireGuardAssumption, ConnectionAssumption DEF LinkFrame, NothingTouched,
        Touching, NothingShown, NoneReturns, LooseStays, SetStatus, Goes, Ends,
        EndsCancelled, At, CancelledAt, ProcIs, wgVars, statusVars, callVars,
        agentVars, statsVars, IInv, TypeOK, WgTypeOK, KindsMatch, WInv, Connecting,
        TakenUnwinds
  <1>1. ASSUME ConnectImpossible(t) PROVE LinkFrame
    BY <1>1 DEF ConnectImpossible
  <1>2. ASSUME CertRefreshFails(t) PROVE LinkFrame
    BY <1>2 DEF CertRefreshFails
  <1>3. ASSUME ConnectFails(t) PROVE LinkFrame
    BY <1>3 DEF ConnectFails, Reap
  <1>4. ASSUME ConnectDropped(t) PROVE LinkFrame
    BY <1>4 DEF ConnectDropped
  <1>5. ASSUME ConnectKilled(t) PROVE LinkFrame
    BY <1>5 DEF ConnectKilled, Kill
  <1>6. ASSUME ConnectKillDenied(t) PROVE LinkFrame
    BY <1>6 DEF ConnectKillDenied, Abandon
  <1>7. ASSUME ConnectUnwinds(t) PROVE LinkFrame
    BY <1>7 DEF ConnectUnwinds, Reap
  <1>8. ASSUME ConnectUnwritten(t) PROVE LinkFrame
    BY <1>8 DEF ConnectUnwritten, ConfUnwritten
  <1> HIDE DEF LinkFrame, IInv, TypeOK, WInv
  <1> QED
    BY <1>1, <1>2, <1>3, <1>4, <1>5, <1>6, <1>7, <1>8, FrameKeepsLink

\* A connect that spawns its script is alone with it.
LEMMA BringUpKeepsLink ==
  ASSUME IInv, TypeOK', WInv, LinkInv, DownInv, NEW t \in Op, BringUpTunnel(t)
  PROVE  LinkInv' /\ DownInv'
  <1> USE DEF IInv, TypeOK, WgTypeOK, BringUpTunnel, SetStatus, WgUp, ProcIs, Goes, At,
        callVars, OwnsTask
  <1>1. t = task
    OBVIOUS
  <1>2. LinkInv'
    BY <1>1 DEF LinkInv, ScriptAlone, TunnelStays
  <1>3. DownInv'
    BY <1>1 DEF DownInv, TornDown
  <1> QED
    BY <1>2, <1>3

\* A connect succeeds with the link that its script has made.
LEMMA ConnectUpKeepsLink ==
  ASSUME IInv, TypeOK', WInv, LinkInv, DownInv, NEW t \in Op, ConnectUp(t)
  PROVE  LinkInv' /\ DownInv'
  <1>1. /\ pc[t] = "c_up" /\ cancel[t] # "pending" /\ proc[t] = "ok"
        /\ pc'[t] \in {"a_dial", "returned"}
        /\ \A u \in Op \ {t} : pc'[u] = pc[u] /\ proc'[u] = proc[u]
        /\ UNCHANGED <<link, task, kind, server, cancel, app>>
        /\ active'.by = t
    BY DEF ConnectUp, At, Succeeded, Reap, ProcIs, StartAgent, Goes, Ends, SetStatus,
       Shown, callVars, IInv, TypeOK, WgTypeOK
  <1>2. t = task /\ kind[t] = "connect"
    BY <1>1 DEF IInv, OwnsTask, KindsMatch, Connecting
  <1>3. LinkInv'
    <2> SUFFICES ASSUME Orderly', app' # "drain" PROVE ScriptAlone' /\ TunnelStays'
      BY DEF LinkInv
    <2>1. ScriptAlone
      BY <1>1 DEF LinkInv, Orderly
    <2>2. link = ThroughFor(t) /\ \A u \in Op : ~Touching(u)'
      BY <1>1, <2>1 DEF ScriptAlone, Touching
    <2> QED
      BY <1>1, <2>2 DEF ScriptAlone, TunnelStays, Touching, ThroughFor, UpFor, SetFor
  <1>4. DownInv'
    BY <1>1, <1>2 DEF DownInv, TornDown
  <1> QED
    BY <1>3, <1>4

\* A disconnect that fails, or is cancelled.
LEMMA DisconnectKeepsLink ==
  ASSUME IInv, TypeOK', WInv, LinkInv, DownInv, NEW t \in Op,
         \/ DisconnectFails(t)
         \/ DisconnectDropped(t)
         \/ DisconnectKilled(t)
         \/ DisconnectKillDenied(t)
         \/ DisconnectUnwinds(t)
  PROVE  LinkInv' /\ DownInv'
  <1> USE WireGuardAssumption, ConnectionAssumption DEF LinkFrame, NothingTouched,
        Touching, NothingShown, NoneReturns, LooseStays, SetStatus, Goes, Ends,
        EndsCancelled, At, CancelledAt, ProcIs, wgVars, statusVars, callVars,
        agentVars, statsVars, IInv, TypeOK, WgTypeOK, KindsMatch, WInv, Disconnecting,
        TakenUnwinds
  <1>1. ASSUME DisconnectFails(t) PROVE LinkFrame
    BY <1>1 DEF DisconnectFails, Reap
  <1>2. ASSUME DisconnectDropped(t) PROVE LinkFrame
    BY <1>2 DEF DisconnectDropped
  <1>3. ASSUME DisconnectKilled(t) PROVE LinkFrame
    BY <1>3 DEF DisconnectKilled, Kill
  <1>4. ASSUME DisconnectKillDenied(t) PROVE LinkFrame
    BY <1>4 DEF DisconnectKillDenied, Abandon
  <1>5. ASSUME DisconnectUnwinds(t) PROVE LinkFrame
    BY <1>5 DEF DisconnectUnwinds, Reap
  <1> HIDE DEF LinkFrame, IInv, TypeOK, WInv
  <1> QED
    BY <1>1, <1>2, <1>3, <1>4, <1>5, FrameKeepsLink

\* A disconnect that returns when its process is through leaves no link.
LEMMA DownKeepsLink ==
  ASSUME IInv, TypeOK', WInv, LinkInv, DownInv, NEW t \in Op, DisconnectDown(t)
  PROVE  LinkInv' /\ DownInv'
  <1> USE DEF DisconnectDown, SetStatus, Reap, ProcIs, Ends, Goes, At, callVars, IInv,
        TypeOK, WgTypeOK
  <1>1. NothingTouched /\ NothingShown /\ LooseStays
    BY DEF NothingTouched, Touching, NothingShown, LooseStays
  <1>2. LinkInv'
    BY <1>1, LinkKept
  <1>3. ASSUME Quiet' PROVE t = task /\ Quiet
    BY <1>3 DEF Quiet, WInv, OwnsWork, Disconnecting, Connecting
  <1>4. DownInv'
    BY <1>3 DEF DownInv, TornDown, Succeeded
  <1> QED
    BY <1>2, <1>4

\* A disconnect spawns its process when no connect has one that may succeed, and
\* it returns without one when there is no link.
LEMMA SpawnKeepsLink ==
  ASSUME IInv, TypeOK', WInv, LinkInv, DownInv, NEW t \in Op,
         \/ DisconnectStarts(t)
         \/ DisconnectPollerStopped(t)
         \/ DisconnectAgentStopped(t)
  PROVE  LinkInv' /\ DownInv'
  <1> DEFINE Spawned == pc'[t] = "d_down" /\ proc' = [proc EXCEPT ![t] = "down_auth"]
  <1>1. /\ UNCHANGED <<conf, server, kind, task, target, lastId, app, link>>
        /\ pc[t] \in {"d_start", "d_stats", "d_agent"}
        /\ \A u \in Op \ {t} : pc'[u] = pc[u] /\ cancel'[u] = cancel[u]
        /\ cancel'[t] \in {cancel[t], "swallowed"}
        /\ pc[t] = "d_start" => cancel[t] # "pending"
    BY DisconnectMoves, DisconnectSpawns DEF IInv, TypeOK
  <1>2. cancel[t] = "pending" => cancel'[t] = "swallowed"
    <2>1. pc[t] = "d_start" \/ Swallows(t)
      BY DEF DisconnectStarts, At, DisconnectPollerStopped, DisconnectAgentStopped
    <2> QED
      BY <1>1, <2>1 DEF Swallows, IInv, TypeOK
  <1>3. \/ /\ UNCHANGED proc
           /\ \/ pc'[t] \in {"d_stats", "d_agent"}
              \/ pc'[t] = "returned" /\ ~link.present
        \/ Spawned
    BY DisconnectSpawns DEF IInv
  <1>4. \/ state' \in {"DISCONNECTING", "DISCONNECTED"}
        \/ pc[t] # "d_start" /\ UNCHANGED <<state, active>>
    BY DisconnectMoves DEF IInv
  <1>5. ASSUME cancel'[t] # "swallowed" PROVE t = task /\ cancel[t] = "no"
    BY <1>1, <1>2, <1>5
    DEF WInv, OwnsWork, TakenUnwinds, Disconnecting, InFlight, IInv, TypeOK
  <1>6. LinkInv'
    <2>1. CASE ~Spawned
      <3>1. NothingTouched /\ NothingShown
        BY <1>1, <1>3, <1>4, <2>1 DEF NothingTouched, NothingShown, Touching
      <3>2. LooseStays
        BY <1>1 DEF LooseStays
      <3> QED
        BY <3>1, <3>2, LinkKept
    <2>2. CASE Spawned
      <3> SUFFICES ASSUME Orderly', app' # "drain" PROVE ScriptAlone' /\ TunnelStays'
        BY DEF LinkInv
      <3>1. t = task
        BY <1>5 DEF Orderly
      <3>2. \A u \in Op : pc'[u] = "c_up" => cancel'[u] = "pending"
        BY <1>1, <2>2, <3>1 DEF IInv, OwnsTask
      <3>3. state' # "CONNECTED"
        BY <1>1, <1>4, <3>1, WireGuardAssumption DEF WInv, DownNotUp, Disconnecting
      <3> QED
        BY <3>2, <3>3 DEF ScriptAlone, TunnelStays
    <2> QED
      BY <2>1, <2>2
  <1>7. DownInv'
    <2> SUFFICES ASSUME Quiet' PROVE TornDown'
      BY DEF DownInv
    <2>1. t = task
      BY <1>5 DEF Quiet
    <2> QED
      BY <1>1, <1>3, <2>1 DEF TornDown, IInv, TypeOK, WgTypeOK
  <1> QED
    BY <1>6, <1>7

\* Starting and shutting down leave the link alone.
LEMMA ProgramKeepsLink ==
  ASSUME IInv, TypeOK', WInv, LinkInv, DownInv,
         \/ Mount
         \/ Shutdown
         \/ ShutdownTaskEnded
         \/ ShutdownAborted
         \/ ShutdownPollerEnded
         \/ ShutdownAgentEnded
  PROVE  LinkInv' /\ DownInv'
  <1> USE WireGuardAssumption, ConnectionAssumption DEF LinkFrame, NothingTouched,
        Touching, NothingShown, NoneReturns, LooseStays, SetStatus, Goes, Ends,
        EndsCancelled, At, CancelledAt, ProcIs, wgVars, statusVars, callVars,
        agentVars, statsVars, IInv, TypeOK, WgTypeOK, KindsMatch, WInv
  <1>1. ASSUME Mount PROVE LinkFrame
    BY <1>1 DEF Mount
  <1>2. ASSUME Shutdown PROVE LinkFrame
    BY <1>2 DEF Shutdown, TaskInFlight, TaskUncancelled, ShutdownPoller,
      ShutdownAgent, CancelsAll
  <1>3. ASSUME ShutdownTaskEnded PROVE LinkFrame
    BY <1>3 DEF ShutdownTaskEnded, ShutdownPoller, ShutdownAgent, CancelsAll
  <1>4. ASSUME ShutdownAborted PROVE LinkFrame
    BY <1>4 DEF ShutdownAborted, CancelsAll
  <1>5. ASSUME ShutdownPollerEnded PROVE LinkFrame
    BY <1>5 DEF ShutdownPollerEnded, ShutdownAgent, CancelsAll
  <1>6. ASSUME ShutdownAgentEnded PROVE LinkFrame
    BY <1>6 DEF ShutdownAgentEnded, CancelsAll
  <1> HIDE DEF LinkFrame, IInv, TypeOK, WInv
  <1> QED
    BY <1>1, <1>2, <1>3, <1>4, <1>5, <1>6, FrameKeepsLink

\* A new process shows nothing, and the tasks of the old one are gone.
LEMMA RestartKeepsLink ==
  ASSUME IInv, TypeOK', WInv, Exit \/ Crash
  PROVE  LinkInv' /\ DownInv'
  <1>1. NewProcess /\ \A u \in Op : pc'[u] \notin InFlight
    BY DEF Exit, Crash, IInv, TypeOK, InFlight, Connecting, Attaching, Disconnecting
  <1> QED
    BY <1>1 DEF NewProcess, LinkInv, DownInv, ScriptAlone, TunnelStays, TornDown,
       InFlight, Connecting

\* So do the callbacks of the agents and the pollers.
LEMMA CallbacksKeepLink ==
  ASSUME IInv, TypeOK', WInv, LinkInv, DownInv, NEW t \in Op,
         AgentReports(t) \/ PollerStops(t)
  PROVE  LinkInv' /\ DownInv'
  <1> USE WireGuardAssumption, ConnectionAssumption DEF LinkFrame, NothingTouched,
        Touching, NothingShown, NoneReturns, LooseStays, SetStatus, Goes, Ends,
        EndsCancelled, At, CancelledAt, ProcIs, wgVars, statusVars, callVars,
        agentVars, statsVars, IInv, TypeOK, WgTypeOK, KindsMatch, WInv
  <1>1. ASSUME AgentReports(t) PROVE LinkFrame
    BY <1>1 DEF AgentReports, AgentWrites, StatusConsistent, Actives
  <1>2. ASSUME PollerStops(t) PROVE LinkFrame
    BY <1>2 DEF PollerStops
  <1> HIDE DEF LinkFrame, IInv, TypeOK, WInv
  <1> QED
    BY <1>1, <1>2, FrameKeepsLink

\* A script that is authorized is alone: two that nobody cancelled would both be
\* those of _task, and what is cancelled has been killed by then.
LEMMA AnswerKeepsLink ==
  ASSUME IInv, TypeOK', WInv, LinkInv, DownInv, NEW t \in Op, AnswerPrompt(t)
  PROVE  LinkInv' /\ DownInv'
  <1>1. /\ UNCHANGED <<link, state, active, task, kind, server, pc, cancel, app>>
        /\ proc[t] \in Prompting
        /\ proc'[t] \in {"del", "link_del", "failed"}
        /\ \A u \in Op \ {t} : proc'[u] = proc[u]
    BY DEF AnswerPrompt, Authorize, Dismiss, ProcIs, orchestratorVars, statusVars,
       callVars, IInv, TypeOK, WgTypeOK
  <1>2. LinkInv'
    <2> SUFFICES ASSUME Orderly', app' # "drain" PROVE ScriptAlone' /\ TunnelStays'
      BY DEF LinkInv
    <2>1. Orderly /\ ScriptAlone /\ TunnelStays
      BY <1>1 DEF LinkInv, Orderly
    <2>2. \A u \in Op : Touching(u) => u = task
      BY <2>1 DEF AnswerPrompt, KillsDelivered, Touching, Orderly, WInv, OwnsWork,
         TakenUnwinds, InFlight, Connecting, Disconnecting, IInv, TypeOK
    <2>3. Touching(t)
      BY <1>1, <2>1 DEF Touching, Orderly, WInv, ProcsMatch, Prompting
    <2>4. \A u \in Op : Touching(u)' <=> Touching(u)
      BY <1>1 DEF Touching
    <2>5. ScriptAlone'
      BY <1>1, <2>1, <2>2, <2>3, <2>4 DEF ScriptAlone, ThroughFor, UpFor, SetFor,
         Touching
    <2>6. TunnelStays'
      BY <1>1, <2>1, <2>4 DEF TunnelStays, ThroughFor
    <2> QED
      BY <2>5, <2>6
  <1>3. DownInv'
    BY <1>1 DEF DownInv, Quiet, TornDown, IInv, TypeOK, WgTypeOK
  <1> QED
    BY <1>2, <1>3

\* A command of a script that is alone makes of the link what the next one needs.
LEMMA ScriptKeepsLink ==
  ASSUME IInv, TypeOK', WInv, LinkInv, DownInv, NEW t \in Op, RunScript(t)
  PROVE  LinkInv' /\ DownInv'
  <1>1. /\ UNCHANGED <<state, active, task, kind, server, pc, cancel, app>>
        /\ proc[t] \in Running
        /\ \A u \in Op \ {t} : proc'[u] = proc[u]
    BY DEF RunScript, ScriptCommand, DelStaleLink, AddLink, SetConf, BringUp,
       AddRoute, DelLink, ScriptFails, ProcIs, Running, orchestratorVars, statusVars, callVars, IInv,
       TypeOK, WgTypeOK
  <1>2. LinkInv'
    <2> SUFFICES ASSUME Orderly', app' # "drain" PROVE ScriptAlone' /\ TunnelStays'
      BY DEF LinkInv
    <2>1. Orderly /\ ScriptAlone /\ TunnelStays
      BY <1>1 DEF LinkInv, Orderly
    <2>2. Touching(t)
      BY <1>1, <2>1 DEF Touching, Orderly, WInv, ProcsMatch, Running
    <2>3. TunnelStays'
      BY <1>1, <2>1, <2>2 DEF TunnelStays
    <2>4. ASSUME NEW u \in Op, pc[u] = "c_up", cancel[u] # "pending",
                 proc'[u] \in {"del", "add", "setconf", "bring_up", "route", "ok"}
          PROVE  /\ u = t
                 /\ \A v \in Op \ {t} : ~Touching(v)
                 /\ proc'[t] = "add" => link' = NoLink
                 /\ proc'[t] = "setconf" => link' = [NoLink EXCEPT !.present = TRUE]
                 /\ proc'[t] = "bring_up" => link' = SetFor(t)
                 /\ proc'[t] = "route" => link' = UpFor(t)
                 /\ proc'[t] = "ok" => link' = ThroughFor(t)
      <3>1. u = t
        BY <1>1, <2>1, <2>2, <2>4 DEF ScriptAlone
      <3>2. proc[t] \in {"del", "add", "setconf", "bring_up", "route"}
        BY <1>1, <2>4, <3>1 DEF WInv, ProcsMatch, Running
      <3>3. /\ \A v \in Op \ {t} : ~Touching(v)
            /\ proc[t] = "add" => link = NoLink
            /\ proc[t] = "setconf" => link = [NoLink EXCEPT !.present = TRUE]
            /\ proc[t] = "bring_up" => link = SetFor(t)
            /\ proc[t] = "route" => link = UpFor(t)
        BY <2>1, <2>4, <3>1, <3>2 DEF ScriptAlone
      <3>4. \/ proc'[t] = "add" /\ link' = NoLink
            \/ proc'[t] = "setconf" /\ link' = [NoLink EXCEPT !.present = TRUE]
            \/ /\ proc[t] = "setconf" /\ proc'[t] = "bring_up"
               /\ link' = [link EXCEPT !.peer = server[t]]
            \/ /\ proc[t] = "bring_up" /\ proc'[t] = "route"
               /\ link' = [link EXCEPT !.up = TRUE]
            \/ /\ proc[t] = "route" /\ proc'[t] = "ok"
               /\ link' = [link EXCEPT !.routed = TRUE]
            \/ proc'[t] = "failed"
        BY <3>2 DEF RunScript, ScriptCommand, DelStaleLink, AddLink, SetConf, BringUp,
           AddRoute, DelLink, ScriptFails, ProcIs, IInv, TypeOK, WgTypeOK
      <3>5. CASE proc'[t] \in {"add", "setconf"}
        BY <2>4, <3>1, <3>2, <3>3, <3>4, <3>5
      <3>6. CASE proc'[t] = "bring_up"
        <4>1. /\ link = [NoLink EXCEPT !.present = TRUE]
              /\ link' = [link EXCEPT !.peer = server[t]]
          BY <3>3, <3>4, <3>6
        <4>2. /\ link = [present |-> TRUE, peer |-> NoServer, up |-> FALSE,
                         routed |-> FALSE]
              /\ link' = [present |-> TRUE, peer |-> server[t], up |-> FALSE,
                          routed |-> FALSE]
          BY <4>1 DEF NoLink
        <4> QED
          BY <3>1, <3>3, <3>6, <4>2 DEF SetFor
      <3>7. CASE proc'[t] = "route"
        <4>1. link' = UpFor(t)
          BY <3>3, <3>4, <3>7 DEF UpFor
        <4> QED
          BY <3>1, <3>3, <3>7, <4>1
      <3>8. CASE proc'[t] = "ok"
        <4>1. /\ link = UpFor(t)
              /\ link' = [link EXCEPT !.routed = TRUE]
          BY <3>3, <3>4, <3>8
        <4>2. link' = ThroughFor(t)
          BY <4>1 DEF SetFor, UpFor, ThroughFor
        <4> QED
          BY <3>1, <3>3, <3>8, <4>2
      <3> QED
        BY <2>4, <3>1, <3>4, <3>5, <3>6, <3>7, <3>8
    <2>5. ScriptAlone'
      BY <1>1, <2>4 DEF ScriptAlone, Touching, ThroughFor, UpFor, SetFor
    <2> QED
      BY <2>3, <2>5
  <1>3. DownInv'
    <2> SUFFICES ASSUME Quiet', task' # NoOp PROVE TornDown'
      BY DEF DownInv, TornDown
    <2>1. Quiet
      BY <1>1 DEF Quiet
    <2>2. pc[t] \in {"c_up", "d_down"}
      BY <1>1, <2>1 DEF WInv, ProcsMatch, Running, TakenUnwinds, Quiet
    <2>3. t = task
      BY <2>1, <2>2 DEF Quiet, WInv, OwnsWork, Connecting, Disconnecting
    <2>4. ASSUME pc[t] = "d_down", proc'[t] = "ok" PROVE ~link'.present
      BY <1>1, <2>4 DEF WInv, ProcsMatch, Running, RunScript, ScriptCommand,
         DelStaleLink, AddLink, SetConf, BringUp, AddRoute, DelLink, ScriptFails,
         ProcIs, IInv, TypeOK, WgTypeOK, NoLink
    <2> QED
      BY <1>1, <2>2, <2>3, <2>4 DEF TornDown
  <1> QED
    BY <1>2, <1>3

-----------------------------------------------------------------------------
(* The theorems.                                                           *)

TInv == IInv /\ WInv /\ LinkInv /\ DownInv

LEMMA NextTInv == TInv /\ [Next]_vars => TInv'
  <1> SUFFICES ASSUME TInv, [Next]_vars PROVE TInv'
    OBVIOUS
  <1>1. IInv' /\ TypeOK' /\ IInv /\ WInv /\ LinkInv /\ DownInv
    BY NextIInv DEF TInv, IInv
  <1>2. WInv'
    BY <1>1, NextWInv
  <1>3. ASSUME UNCHANGED vars PROVE LinkInv' /\ DownInv'
    BY <1>1, <1>3 DEF vars, wgVars, statusVars, callVars, LinkInv, DownInv, Orderly,
       ScriptAlone, TunnelStays, Quiet, TornDown, Touching, ThroughFor, UpFor, SetFor
  <1>4. ASSUME Next PROVE LinkInv' /\ DownInv'
    <2>1. ASSUME NEW t \in Op, ConnectStep(t) PROVE LinkInv' /\ DownInv'
      BY <1>1, <2>1, ConnectKeepsLink, BringUpKeepsLink, ConnectUpKeepsLink
      DEF ConnectStep
    <2>2. ASSUME NEW t \in Op, DisconnectStep(t) PROVE LinkInv' /\ DownInv'
      BY <1>1, <2>2, DisconnectKeepsLink, DownKeepsLink, SpawnKeepsLink
      DEF DisconnectStep
    <2>3. ASSUME Mount \/ Shutdown \/ ShutdownStep \/ Crash
          PROVE  LinkInv' /\ DownInv'
      BY <1>1, <2>3, ProgramKeepsLink, RestartKeepsLink DEF ShutdownStep
    <2> QED
      BY <1>1, <1>4, <2>1, <2>2, <2>3, UserKeepsLink, AgentKeepsLink, AnswerKeepsLink,
         ScriptKeepsLink, CallbacksKeepLink DEF Next, TaskStep
  <1> QED
    BY <1>1, <1>2, <1>3, <1>4 DEF TInv

LEMMA TInvHolds == Spec => []TInv
  <1>1. Init => TInv
    BY InitIInv, InitWInv, InitLinkInv DEF TInv
  <1> QED
    BY <1>1, NextTInv, PTL DEF Spec

\* While nothing was cut loose, a connect that is shown as connected has wg0 up and
\* routed, with the server shown as its peer, whatever was cancelled or failed before.
THEOREM ShownTunnelIsUp == Spec => []TunnelMatches
  <1>1. TInv => TunnelMatches
    BY DEF TInv, LinkInv, TunnelMatches, TunnelStays, ThroughFor
  <1> QED
    BY <1>1, TInvHolds, PTL

\* While nothing was cancelled or killed, no link is left by a disconnect that
\* has returned.
THEOREM DisconnectLeavesNoLink == Spec => []DisconnectTearsDown
  <1>1. TInv => DisconnectTearsDown
    BY DEF TInv, DownInv, Quiet, TornDown, DisconnectTearsDown
  <1> QED
    BY <1>1, TInvHolds, PTL
================================================================================
