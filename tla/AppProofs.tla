------------------------------- MODULE AppProofs -------------------------------
(* Theorems about App, for any number of operations, servers and logouts.  *)
EXTENDS App, ProgressProofs

\* What the orchestrator does while its process lives.
LiveStep ==
  \/ \E t \in Op : \/ UserStep(t) \/ TaskStep(t)
                  \/ AnswerPrompt(t) \/ RunScript(t)
                  \/ AgentReports(t) \/ PollerStops(t)
  \/ Mount \/ Shutdown \/ ShutdownTaskEnded \/ ShutdownAborted
  \/ ShutdownPollerEnded \/ ShutdownAgentEnded
  \/ UNCHANGED vars

LEMMA AppStepIsLive == [AppNext]_appVars => LiveStep \/ ProgramEnds
  <1> SUFFICES ASSUME [AppNext]_appVars PROVE LiveStep \/ ProgramEnds
    OBVIOUS
  <1>1. CASE StartSignedIn \/ StartSignedOut
    BY <1>1 DEF StartSignedIn, StartSignedOut, LiveStep, UserStep
  <1>2. CASE UseForm \/ PressQuickConnect \/ QuickConnectFails
    BY <1>2 DEF UseForm, PressQuickConnect, QuickConnectFails, LiveStep
  <1>3. ASSUME NEW t \in Op, PressDisconnect(t) PROVE LiveStep
    BY <1>3 DEF PressDisconnect, LiveStep, UserStep
  <1>4. ASSUME NEW t \in Op, NEW s \in Server,
               ChooseServer(t, s) \/ QuickConnects(t, s)
        PROVE  LiveStep
    BY <1>4 DEF ChooseServer, QuickConnects, LiveStep, UserStep
  <1>5. ASSUME NEW t \in Op, ConnectionTask(t) \/ ConnectionBackground(t)
        PROVE  LiveStep
    BY <1>5 DEF ConnectionTask, ConnectionBackground, LiveStep
  <1>6. ASSUME NEW l \in Logout, PressLogout(l) \/ LogoutStep(l)
        PROVE  LiveStep
    BY <1>6 DEF PressLogout, LogoutStep, LogoutDisconnects, LogoutSkipsTunnel,
       LogoutDisconnected, LogoutSignsOut, LiveStep, UserStep
  <1>7. CASE Quit \/ Closes
    BY <1>7 DEF Quit, Closes, LiveStep
  <1>8. CASE UNCHANGED appVars
    BY <1>8 DEF appVars, LiveStep
  <1> QED
    BY <1>1, <1>2, <1>3, <1>4, <1>5, <1>6, <1>7, <1>8 DEF AppNext

\* A step of the program is a step of the orchestrator, or leaves it alone.
LEMMA AppStepIsStep == [AppNext]_appVars => [Next]_vars
  BY AppStepIsLive DEF LiveStep, ProgramEnds, Next, ShutdownStep

\* The program runs the orchestrator as Connection describes it: what screens,
\* logins and logouts do to it is among the steps that Connection allows, and
\* whatever is proved of Connection holds in the program.
THEOREM AppRunsConnection == AppSpec => Spec
  <1>1. AppInit => Init
    BY DEF AppInit
  <1> QED
    BY <1>1, AppStepIsStep, PTL DEF AppSpec, Spec

\* In the program the status line, too, implements TunnelView.
THEOREM AppImplementsTunnelView == AppSpec => ImplementsTunnelView
  BY AppRunsConnection, ConnectionImplementsTunnelView

\* Whatever the screens and logouts ask for, and in whatever order: the tunnel is
\* what the status line says, or is gone after a disconnect; the scripts take turns
\* and leave no key file; and nobody is left waiting.
THEOREM ProgramKeepsTheTunnel ==
  AppSpec => [](/\ StatusConsistent /\ BusyHasOwner /\ SavedIsShown
                /\ TunnelMatches /\ DisconnectTearsDown /\ KeyFileRemoved
                /\ OneScriptAtATime /\ WaitsAreServed)
  BY AppRunsConnection, StatusIsConsistent, BusyIsOwned, ShownIsSaved,
     ShownTunnelIsUp, DisconnectLeavesNoLink, KeyFilesAreRemoved, ScriptsTakeTurns,
     NobodyWaitsForNothing, PTL

-----------------------------------------------------------------------------
(* The invariant of the program.  What an operation may do to _task while a *)
(* logout awaits its disconnect comes from IInv, the invariant of           *)
(* Connection.                                                              *)

AppTypes ==
  /\ SessionTypeOK
  /\ logout \in [Logout -> {"idle", "done", "lost"} \union LoggingOut]
  /\ awaits \in [Logout -> Op \union {NoOp}]
  /\ quick \in 0 .. MaxQuick
  /\ exiting \in BOOLEAN

\* A program that starts shows no screen, and has no task.
AppFresh ==
  app = "starting" =>
    /\ screen = "none" /\ worker = "none" /\ formDisabled = FALSE
    /\ \A l \in Logout : logout[l] = "idle"

WorkerOnForm == worker # "none" => screen = "login"

\* While the program runs, the disconnect that a logout awaits, or was lost
\* with, is the last request, or was superseded by a later one.
AwaitsEarlier ==
  app = "running" =>
    \A l \in Logout :
      logout[l] \in {"down", "lost"} =>
        task # NoOp /\ awaits[l] \in Op /\ awaits[l] <= task

AInv ==
  /\ AppTypes
  /\ AppFresh
  /\ WorkerOnForm
  /\ MainIsSignedIn
  /\ FormIsUsable
  /\ AwaitsEarlier
  /\ LogoutLostToLaterRequest

\* A program that starts.
LEMMA InitAInv == AppInit => AInv
  <1> SUFFICES ASSUME AppInit PROVE AInv
    OBVIOUS
  <1>1. AppTypes
    <2>1. SessionTypeOK
      BY DEF AppInit, SessionInit, SessionTypeOK, Sessions, Screens
    <2>2. quick \in 0 .. MaxQuick
      BY AppAssumption DEF AppInit
    <2> QED
      BY <2>1, <2>2 DEF AppInit, AppTypes
  <1>2. AppFresh /\ WorkerOnForm /\ MainIsSignedIn /\ FormIsUsable
    BY DEF AppInit, SessionInit, AppFresh, WorkerOnForm, MainIsSignedIn,
       FormIsUsable
  <1>3. AwaitsEarlier /\ LogoutLostToLaterRequest
    BY DEF AppInit, Init, AwaitsEarlier, LogoutLostToLaterRequest
  <1> QED
    BY <1>1, <1>2, <1>3 DEF AInv

\* Starting the program: nothing of the session or of a logout is under way.
LEMMA StartKeepsAInv ==
  ASSUME IInv, AInv, StartSignedIn \/ StartSignedOut
  PROVE  AInv'
  <1>1. app = "starting" /\ app' = "running"
    BY DEF StartSignedIn, StartSignedOut, Mount, MountAttached
  <1>2. /\ screen' \in {"main", "login"} /\ (screen' = "main" => SignedIn)
        /\ quick' \in 0 .. MaxQuick
        /\ UNCHANGED <<session, formVars, logoutVars, exiting>>
    BY DEF StartSignedIn, StartSignedOut, AutoConnect, AInv, AppTypes
  <1> QED
    BY <1>1, <1>2 DEF AInv, AppTypes, SessionTypeOK, Screens, AppFresh,
       WorkerOnForm, MainIsSignedIn, SignedIn, FormIsUsable, AwaitsEarlier,
       LogoutLostToLaterRequest, formVars, logoutVars, LoggingOut

\* The login form.
LEMMA FormKeepsAInv ==
  ASSUME IInv, AInv, UseForm
  PROVE  AInv'
  <1>1. UNCHANGED <<app, task, logout, awaits, exiting>> /\ app = "running"
    BY DEF UseForm, vars, callVars, logoutVars
  <1>2. AppTypes'
    BY <1>1 DEF UseForm, Submit, CallApi, Refused, TwofaRequired, SignIn,
       AutoConnect, AInv, AppTypes, SessionTypeOK, Sessions, Screens, Created,
       Calling
  <1>3. (AppFresh /\ AwaitsEarlier /\ LogoutLostToLaterRequest)'
    BY <1>1 DEF AInv, AppFresh, AwaitsEarlier, LogoutLostToLaterRequest
  <1>4. (WorkerOnForm /\ MainIsSignedIn /\ FormIsUsable)'
    BY <1>1 DEF UseForm, Submit, CallApi, Refused, TwofaRequired, SignIn, AInv,
       WorkerOnForm, MainIsSignedIn, SignedIn, FormIsUsable, Created, Calling
  <1> QED
    BY <1>2, <1>3, <1>4 DEF AInv

\* A new operation is later than any that a logout awaits.
LEMMA LaterTask ==
  ASSUME IInv, AInv, NEW t \in Op,
         (\E s \in Server : StartConnect(t, s)) \/ StartDisconnect(t)
  PROVE  /\ app # "starting" /\ app' = app
         /\ task' = t /\ t # NoOp
         /\ task # NoOp => task < t
  <1>1. /\ app # "starting" /\ app' = app /\ task' = t
        /\ pc[t] = "idle" /\ \A u \in Op : u < t => pc[u] # "idle"
    BY DEF StartConnect, StartDisconnect, Spawn
  <1>2. task # NoOp => task \in Op /\ pc[task] # "idle"
    BY DEF IInv, TypeOK, StartedInOrder
  <1>3. task # NoOp => ~(t < task)
    BY <1>1, <1>2 DEF IInv, StartedInOrder
  <1>4. task # NoOp => task \in Nat /\ t \in Nat /\ task # t
    BY <1>1, <1>2, WireGuardAssumption
  <1> QED
    BY <1>1, <1>3, <1>4, WireGuardAssumption

\* A request leaves every logout that awaits, or was lost, behind.
LEMMA LaterThanAwaited ==
  ASSUME AInv, NEW t \in Op, app = "running", task # NoOp => task < t,
         NEW l \in Logout, logout[l] \in {"down", "lost"}, task \in Op \union {NoOp}
  PROVE  awaits[l] \in Op /\ awaits[l] < t /\ awaits[l] <= t
  <1>1. task # NoOp /\ awaits[l] \in Op /\ awaits[l] <= task
    BY DEF AInv, AwaitsEarlier
  <1>2. task \in Nat /\ awaits[l] \in Nat /\ t \in Nat
    BY <1>1, WireGuardAssumption
  <1> QED
    BY <1>1, <1>2

\* Keys, rows and quick connects that start an operation.
LEMMA RequestKeepsAInv ==
  ASSUME IInv, AInv, NEW t \in Op,
         PressDisconnect(t) \/ \E s \in Server : ChooseServer(t, s)
                                              \/ QuickConnects(t, s)
  PROVE  AInv'
  <1>1. /\ UNCHANGED <<sessionVars, logoutVars, exiting>>
        /\ (\E s \in Server : StartConnect(t, s)) \/ StartDisconnect(t)
    BY DEF PressDisconnect, ChooseServer, QuickConnects
  <1>2. quick' \in 0 .. MaxQuick
    BY AppAssumption DEF PressDisconnect, ChooseServer, QuickConnects, AInv,
       AppTypes
  <1>3. /\ app # "starting" /\ app' = app /\ task' = t /\ t # NoOp
        /\ task # NoOp => task < t
    BY <1>1, LaterTask
  <1>4. app = "running" =>
          \A l \in Logout : logout[l] \in {"down", "lost"}
                           => /\ awaits[l] \in Op
                              /\ awaits[l] < t /\ awaits[l] <= t
    BY <1>3, LaterThanAwaited DEF IInv, TypeOK
  <1>5. (AwaitsEarlier /\ LogoutLostToLaterRequest)'
    BY <1>1, <1>3, <1>4 DEF AwaitsEarlier, LogoutLostToLaterRequest,
       logoutVars
  <1> QED
    BY <1>1, <1>2, <1>3, <1>5 DEF AInv, AppTypes, SessionTypeOK, AppFresh,
       WorkerOnForm, MainIsSignedIn, SignedIn, FormIsUsable, sessionVars,
       formVars, logoutVars

\* A logout.  A cancelled disconnect is not the last request: nothing cancels
\* that one but the end of the program.
LEMMA LogoutKeepsAInv ==
  ASSUME IInv, AInv, NEW l \in Logout, PressLogout(l) \/ LogoutStep(l)
  PROVE  AInv'
  <1> USE DEF LoggingOut
  <1>1. CASE PressLogout(l) \/ LogoutSkipsTunnel(l)
    BY <1>1 DEF PressLogout, LogoutSkipsTunnel, LogoutIs, AInv, AppTypes,
       AppFresh, WorkerOnForm, MainIsSignedIn, SignedIn, FormIsUsable,
       AwaitsEarlier, LogoutLostToLaterRequest, SessionTypeOK, sessionVars,
       formVars, vars, callVars
  <1>2. ASSUME NEW t \in Op, LogoutDisconnects(l, t) PROVE AInv'
    <2>1. /\ app = "running" /\ app' = app /\ task' = t /\ t # NoOp
          /\ task # NoOp => task < t
      BY <1>2, LaterTask DEF LogoutDisconnects, StartDisconnect
    <2>2. /\ UNCHANGED <<sessionVars, quick, exiting>>
          /\ logout[l] = "new"
          /\ logout' = [logout EXCEPT ![l] = "down"]
          /\ awaits' = [awaits EXCEPT ![l] = t]
      BY <1>2 DEF LogoutDisconnects, LogoutIs
    <2>3. \A m \in Logout : logout[m] \in {"down", "lost"}
                             => /\ awaits[m] \in Op
                                /\ awaits[m] < t /\ awaits[m] <= t
      BY <2>1, LaterThanAwaited DEF IInv, TypeOK
    <2>4. t \in Nat /\ t <= t
      BY WireGuardAssumption
    <2>5. (AwaitsEarlier /\ LogoutLostToLaterRequest)'
      BY <2>1, <2>2, <2>3, <2>4 DEF AInv, AppTypes, AwaitsEarlier,
         LogoutLostToLaterRequest
    <2> QED
      BY <2>1, <2>2, <2>5 DEF AInv, AppTypes, SessionTypeOK, AppFresh,
         WorkerOnForm, MainIsSignedIn, SignedIn, FormIsUsable, sessionVars,
         formVars
  <1>3. CASE LogoutDisconnected(l)
    <2>1. /\ UNCHANGED <<vars, sessionVars, awaits, quick, exiting>>
          /\ logout[l] = "down"
          /\ logout' = [logout EXCEPT
               ![l] = IF pc[awaits[l]] = "cancelled" THEN "lost" ELSE "auth"]
      BY <1>3 DEF LogoutDisconnected, LogoutIs
    <2>2. app = "running" /\ pc[awaits[l]] = "cancelled"
            => task # NoOp /\ awaits[l] < task
      <3>1. app = "running" => /\ task \in Op /\ task # NoOp
                               /\ awaits[l] \in Op /\ awaits[l] <= task
        BY <2>1 DEF AInv, AwaitsEarlier, IInv, TypeOK
      <3>2. app = "running" => pc[task] # "cancelled"
        BY <3>1 DEF IInv, TaskNotUnwinding
      <3>3. app = "running" => task \in Nat /\ awaits[l] \in Nat
        BY <3>1, WireGuardAssumption
      <3> QED
        BY <3>1, <3>2, <3>3
    <2>3. (AwaitsEarlier /\ LogoutLostToLaterRequest)'
      BY <2>1, <2>2 DEF AInv, AppTypes, AwaitsEarlier,
         LogoutLostToLaterRequest, vars, callVars
    <2> QED
      BY <2>1, <2>3 DEF AInv, AppTypes, SessionTypeOK, AppFresh, WorkerOnForm,
         MainIsSignedIn, SignedIn, FormIsUsable, sessionVars, formVars, vars
  <1>4. CASE LogoutSignsOut(l)
    BY <1>4 DEF LogoutSignsOut, LogoutIs, AInv, AppTypes, SessionTypeOK,
       Sessions, AppFresh, WorkerOnForm, MainIsSignedIn, SignedIn, FormIsUsable,
       AwaitsEarlier, LogoutLostToLaterRequest, formVars, vars, callVars
  <1> QED
    BY <1>1, <1>2, <1>3, <1>4 DEF LogoutStep

\* Quitting, the end of the program, and what it does in the background.
LEMMA OthersKeepAInv ==
  ASSUME IInv, AInv,
         \/ \E t \in Op : ConnectionTask(t) \/ ConnectionBackground(t)
         \/ PressQuickConnect \/ QuickConnectFails
         \/ Quit \/ Closes \/ ProgramEnds \/ UNCHANGED appVars
  PROVE  AInv'
  <1>1. CASE \/ \E t \in Op : ConnectionTask(t) \/ ConnectionBackground(t)
             \/ PressQuickConnect \/ QuickConnectFails \/ UNCHANGED appVars
    <2>1. UNCHANGED <<app, task>>
      BY <1>1 DEF ConnectionTask, ConnectionBackground, PressQuickConnect,
         QuickConnectFails, appVars, vars, callVars, TaskStep, ConnectStep,
         AgentStep, DisconnectStep, ConnectImpossible, CertRefreshFails,
         BringUpTunnel, ConnectUnwritten, ConnectUp, ConnectFails, ConnectDropped, ConnectKilled,
         ConnectKillDenied, ConnectUnwinds, AgentDials, AgentStarts,
         AgentCertExpired, AgentRenewStopped, AgentRenewed, AgentGivesUp,
         AgentRefuses, AgentStopped, AgentDropped, DisconnectStarts,
         DisconnectPollerStopped, DisconnectAgentStopped, DisconnectDown,
         DisconnectFails, DisconnectDropped, DisconnectKilled,
         DisconnectKillDenied, DisconnectUnwinds, AnswerPrompt, RunScript,
         AgentReports, PollerStops, orchestratorVars
    <2>2. UNCHANGED <<sessionVars, logoutVars, exiting>>
      BY <1>1 DEF ConnectionTask, ConnectionBackground, PressQuickConnect,
         QuickConnectFails, appVars
    <2>3. quick' \in 0 .. MaxQuick
      BY <1>1, AppAssumption DEF ConnectionTask, ConnectionBackground,
         PressQuickConnect, QuickConnectFails, appVars, AInv, AppTypes
    <2> QED
      BY <2>1, <2>2, <2>3 DEF AInv, AppTypes, SessionTypeOK, AppFresh,
         WorkerOnForm, MainIsSignedIn, SignedIn, FormIsUsable, AwaitsEarlier,
         LogoutLostToLaterRequest, sessionVars, formVars, logoutVars
  <1>2. CASE Quit \/ Closes
    <2>1. /\ app' \in Closing
          /\ UNCHANGED <<sessionVars, logoutVars, quick, exiting>>
      BY <1>2 DEF Quit, Closes, Shutdown, ShutdownTaskEnded, ShutdownAborted,
         ShutdownPollerEnded, ShutdownAgentEnded, ShutdownPoller, ShutdownAgent,
         Closing
    <2> QED
      BY <2>1 DEF Closing, AInv, AppTypes, SessionTypeOK, AppFresh, WorkerOnForm,
         MainIsSignedIn, SignedIn, FormIsUsable, AwaitsEarlier,
         LogoutLostToLaterRequest, sessionVars, formVars, logoutVars
  <1>3. CASE ProgramEnds
    <2>1. /\ app' = "starting"
          /\ session' \in Sessions /\ screen' = "none" /\ worker' = "none"
          /\ twofaPending' = FALSE /\ formDisabled' = FALSE
          /\ logout' = [l \in Logout |-> "idle"]
          /\ awaits' = [l \in Logout |-> NoOp]
          /\ quick' = 0 /\ exiting' = FALSE
      BY <1>3 DEF ProgramEnds, Exit, Crash, NewProcess, NewSession, Restored,
         Sessions
    <2>2. AppTypes'
      <3>1. quick' \in 0 .. MaxQuick
        BY <2>1, AppAssumption
      <3> QED
        BY <2>1, <3>1 DEF AppTypes, SessionTypeOK, Screens
    <2> QED
      BY <2>1, <2>2 DEF AInv, AppFresh, WorkerOnForm, MainIsSignedIn,
         FormIsUsable, AwaitsEarlier, LogoutLostToLaterRequest
  <1> QED
    BY <1>1, <1>2, <1>3

LEMMA NextAInv == IInv /\ AInv /\ [AppNext]_appVars => AInv'
  BY StartKeepsAInv, FormKeepsAInv, RequestKeepsAInv, LogoutKeepsAInv,
     OthersKeepAInv DEF AppNext

LEMMA AInvHolds == AppSpec => []AInv
  <1>1. AppSpec => []IInv
    BY AppRunsConnection, IInvHolds
  <1> QED
    BY <1>1, InitAInv, NextAInv, PTL DEF AppSpec

\* Every variable of the program keeps to its type.
THEOREM AppTypeCorrect == AppSpec => []AppTypeOK
  <1>1. IInv /\ AInv => AppTypeOK
    BY DEF IInv, AInv, AppTypes, AppTypeOK
  <1> QED
    BY <1>1, AInvHolds, AppRunsConnection, IInvHolds, PTL

\* The main screen is there for a user who is signed in, second factor and all,
\* until one of his logouts has signed him out.
THEOREM MainScreenIsSignedIn == AppSpec => []MainIsSignedIn
  BY AInvHolds, PTL DEF AInv

\* The login form never stays disabled with nobody waiting for the API.
THEOREM FormStaysUsable == AppSpec => []FormIsUsable
  BY AInvHolds, PTL DEF AInv

\* A logout is lost only to a later request, or to the end of the program.
THEOREM LogoutIsLostToLaterRequest == AppSpec => []LogoutLostToLaterRequest
  BY AInvHolds, PTL DEF AInv

-----------------------------------------------------------------------------
(* What a logout waits for.                                                *)

\* A logout that awaits its disconnect awaits a task that is under way or over:
\* never one that has not been asked for, or went away with an earlier process.
AwaitedIsReal ==
  \A l \in Logout :
    logout[l] = "down" => awaits[l] \in Op /\ pc[awaits[l]] \in InFlight \union Done

\* While the process lives no task that was started is taken back.
LEMMA TasksStayReal ==
  ASSUME TypeOK, WInv, LiveStep, NEW u \in Op, pc[u] \in InFlight \union Done
  PROVE  pc'[u] \in InFlight \union Done
  <1> USE DEF TypeOK
  <1>1. ASSUME NEW t \in Op, UserStep(t) PROVE pc'[u] = pc[u]
    BY <1>1 DEF UserStep, StartConnect, StartDisconnect, MountAttached, Spawn, Goes,
       InFlight, Connecting, Attaching, Disconnecting, Done
  <1>2. ASSUME NEW t \in Op, TaskStep(t) PROVE pc'[u] \in InFlight \union Done
    BY <1>2, TaskStepFrame DEF TaskFrame
  <1>3. ASSUME NEW t \in Op,
               AnswerPrompt(t) \/ RunScript(t) \/ AgentReports(t) \/ PollerStops(t)
        PROVE  pc'[u] = pc[u]
    BY <1>3 DEF AnswerPrompt, RunScript, AgentReports, PollerStops, orchestratorVars
  <1>4. CASE \/ Mount \/ Shutdown \/ ShutdownTaskEnded \/ ShutdownAborted
             \/ ShutdownPollerEnded \/ ShutdownAgentEnded \/ UNCHANGED vars
    BY <1>4 DEF Mount, Shutdown, ShutdownTaskEnded, ShutdownAborted,
       ShutdownPollerEnded, ShutdownAgentEnded, vars
  <1> QED
    BY <1>1, <1>2, <1>3, <1>4 DEF LiveStep

LEMMA NextAwaitedIsReal ==
  ASSUME TypeOK, WInv, AppTypes, AwaitedIsReal, [AppNext]_appVars
  PROVE  AwaitedIsReal'
  <1>1. CASE ProgramEnds
    BY <1>1 DEF ProgramEnds, AwaitedIsReal
  <1>2. CASE ~ProgramEnds
    <2>1. \A u \in Op : pc[u] \in InFlight \union Done
                       => pc'[u] \in InFlight \union Done
      BY <1>2, AppStepIsLive, TasksStayReal
    <2>2. CASE UNCHANGED logoutVars
      BY <2>1, <2>2 DEF AwaitedIsReal, logoutVars
    <2>3. ASSUME NEW l \in Logout, NEW t \in Op, LogoutDisconnects(l, t)
          PROVE  AwaitedIsReal'
      <3>1. pc'[t] = "d_start"
        BY <2>3 DEF LogoutDisconnects, StartDisconnect, Spawn, Goes, TypeOK
      <3> QED
        BY <2>1, <2>3, <3>1 DEF LogoutDisconnects, LogoutIs, AwaitedIsReal,
           AppTypes, InFlight, Disconnecting
    <2>4. ASSUME NEW l \in Logout,
                 \/ PressLogout(l) \/ LogoutSkipsTunnel(l)
                 \/ LogoutDisconnected(l) \/ LogoutSignsOut(l)
          PROVE  AwaitedIsReal'
      BY <2>1, <2>4 DEF PressLogout, LogoutSkipsTunnel, LogoutDisconnected,
         LogoutSignsOut, LogoutIs, AwaitedIsReal, AppTypes
    <2> QED
      BY <1>2, <2>2, <2>3, <2>4 DEF AppNext, LogoutStep, StartSignedIn,
         StartSignedOut, UseForm, PressQuickConnect, QuickConnectFails,
         PressDisconnect, ChooseServer, QuickConnects, ConnectionTask,
         ConnectionBackground, Quit, Closes, appVars
  <1> QED
    BY <1>1, <1>2

\* A logout waits for nothing that has not been started or will never come to an
\* end: with TaskStepsAdvance, its disconnect is at most ten steps from its end.
THEOREM LogoutAwaitsSomething == AppSpec => []AwaitedIsReal
  <1>1. AppInit => AwaitedIsReal
    BY DEF AppInit, AwaitedIsReal
  <1>2. TInv /\ AInv /\ AwaitedIsReal /\ [AppNext]_appVars => AwaitedIsReal'
    BY NextAwaitedIsReal DEF TInv, IInv, AInv
  <1>3. AppSpec => []TInv
    BY AppRunsConnection, TInvHolds
  <1> QED
    BY <1>1, <1>2, <1>3, AInvHolds, PTL DEF AppSpec

-----------------------------------------------------------------------------
(* Who uses the program.                                                    *)

\* What the form relies on without saying so: nobody is signed in behind it, half
\* a login is always one that the API has asked a second factor for, and from then
\* on the form submits codes only.
FormInv ==
  /\ screen = "login" => session # "in"
  /\ session = "half" => screen = "login" /\ twofaPending
  /\ twofaPending => worker \notin {"login_new", "login_call"}
  /\ worker = "login_call" => session = "out"
  /\ \A l \in Logout : logout[l] # "idle" => screen = "main"

SignInMove == Promise!SignInViewNext \/ UNCHANGED Promise!signInView

LEMMA InitFormInv == AppInit => FormInv
  BY DEF AppInit, SessionInit, FormInv

LEMMA FormMoves ==
  ASSUME AInv, FormInv, UseForm
  PROVE  FormInv' /\ SignInMove
  <1> USE DEF AInv, AppTypes, SessionTypeOK, Sessions, Screens, Created, Calling,
        WorkerOnForm, FormInv, SignInMove, Promise!signInView,
        Promise!SignInViewNext, Who, SignedIn, logoutVars
  <1>1. UNCHANGED logout
    BY DEF UseForm
  <1>2. CASE Submit
    BY <1>1, <1>2 DEF Submit
  <1>3. CASE CallApi
    BY <1>1, <1>3 DEF CallApi
  <1>4. CASE Refused
    BY <1>1, <1>4 DEF Refused, Promise!DropSecondFactor
  <1>5. CASE TwofaRequired
    BY <1>1, <1>5 DEF TwofaRequired, Promise!AskSecondFactor
  <1>6. CASE SignIn
    BY <1>1, <1>6 DEF SignIn, Promise!LetIn
  <1> QED
    BY <1>2, <1>3, <1>4, <1>5, <1>6 DEF UseForm

LEMMA StartMoves ==
  ASSUME AInv, FormInv, StartSignedIn \/ StartSignedOut
  PROVE  FormInv' /\ SignInMove
  BY DEF StartSignedIn, StartSignedOut, Mount, MountAttached, AInv, AppFresh, FormInv,
     SignInMove, Promise!SignInViewNext, Promise!Welcome, Promise!signInView, Who,
     SignedIn, formVars, logoutVars

LEMMA LogoutMoves ==
  ASSUME AInv, FormInv, NEW l \in Logout, PressLogout(l) \/ LogoutStep(l)
  PROVE  FormInv' /\ SignInMove
  <1> USE DEF AInv, AppTypes, SessionTypeOK, Sessions, LoggingOut, LogoutIs, FormInv,
        WorkerOnForm, SignInMove, Promise!signInView, Promise!SignInViewNext, Who,
        SignedIn, sessionVars, formVars
  <1>1. CASE PressLogout(l)
    BY <1>1 DEF PressLogout
  <1>2. CASE \/ \E t \in Op : LogoutDisconnects(l, t)
             \/ LogoutSkipsTunnel(l)
             \/ LogoutDisconnected(l)
    BY <1>2 DEF LogoutDisconnects, LogoutSkipsTunnel, LogoutDisconnected
  <1>3. CASE LogoutSignsOut(l)
    BY <1>3 DEF LogoutSignsOut, Promise!SignOut
  <1> QED
    BY <1>1, <1>2, <1>3 DEF LogoutStep

LEMMA EndMoves ==
  ASSUME AInv, ProgramEnds
  PROVE  FormInv' /\ SignInMove
  BY DEF ProgramEnds, NewSession, Restored, AInv, AppTypes, SessionTypeOK, Sessions,
     FormInv, SignInMove, Promise!SignInViewNext, Promise!Restart, Who, SignedIn

LEMMA NextSignInMoves ==
  ASSUME AInv, FormInv, [AppNext]_appVars
  PROVE  FormInv' /\ SignInMove
  <1>1. ASSUME UNCHANGED sessionVars, UNCHANGED logoutVars
        PROVE  FormInv' /\ SignInMove
    BY <1>1 DEF FormInv, SignInMove, Promise!signInView, Who, SignedIn, sessionVars,
       formVars, logoutVars
  <1>2. CASE \/ PressQuickConnect \/ QuickConnectFails \/ Quit \/ Closes
             \/ \E t \in Op : \/ PressDisconnect(t)
                              \/ \E s \in Server : \/ ChooseServer(t, s)
                                                    \/ QuickConnects(t, s)
                              \/ ConnectionTask(t)
                              \/ ConnectionBackground(t)
             \/ UNCHANGED appVars
    BY <1>1, <1>2 DEF PressQuickConnect, QuickConnectFails, Quit, Closes,
       PressDisconnect, ChooseServer, QuickConnects, ConnectionTask,
       ConnectionBackground, appVars
  <1> QED
    BY <1>2, FormMoves, StartMoves, LogoutMoves, EndMoves DEF AppNext

\* The session and the screens implement SignInView: once the API has asked for a
\* second factor nobody gets in without it, only a logout signs a user out, and
\* half a login does not outlive the program.
THEOREM AppImplementsSignInView == AppSpec => ImplementsSignInView
  <1>1. AppInit => Promise!SignInViewInit
    BY DEF AppInit, SessionInit, Promise!SignInViewInit, Who, SignedIn
  <1>2. AInv /\ FormInv /\ [AppNext]_appVars
          => FormInv' /\ [Promise!SignInViewNext]_(Promise!signInView)
    BY NextSignInMoves DEF SignInMove
  <1> QED
    BY <1>1, <1>2, InitFormInv, AInvHolds, PTL
    DEF AppSpec, ImplementsSignInView, Promise!SignInViewSpec
=============================================================================
