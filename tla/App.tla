---------------------------------- MODULE App ----------------------------------
(***************************************************************************)
(* The program: the orchestrator (module Connection) and the session       *)
(* (module Session) with what the main screen does to both of them.        *)
(*                                                                         *)
(*   src/pvpn_tui/app.py           start-up, login, connect_by_selector    *)
(*   src/pvpn_tui/screens/main.py  quick connect, disconnect, logout       *)
(*                                                                         *)
(* A quick connect and a logout are asyncio tasks that nobody keeps; a     *)
(* logout awaits the task of its own disconnect.                           *)
(***************************************************************************)
EXTENDS Connection, Session

CONSTANTS
  Logout,       \* the logouts that may be asked for in one run of the program
  MaxQuick      \* bound: quick connects that are being resolved at a time

ASSUME AppAssumption == MaxQuick \in Nat

VARIABLES
  logout,       \* logout[l]: where the task of logout l is suspended, or its end
  awaits,       \* awaits[l]: the disconnect that it awaits
  quick,        \* how many quick connects are being resolved
  exiting       \* app.exit() has been called

logoutVars == <<logout, awaits>>
appVars    == <<vars, sessionVars, logoutVars, quick, exiting>>

LoggingOut == {"new", "down", "auth"}

AppTypeOK ==
  /\ TypeOK
  /\ SessionTypeOK
  /\ logout \in [Logout -> {"idle", "done", "lost"} \union LoggingOut]
  /\ awaits \in [Logout -> Op \union {NoOp}]
  /\ quick \in 0 .. MaxQuick
  /\ exiting \in BOOLEAN

AppInit ==
  /\ Init
  /\ SessionInit
  /\ logout = [l \in Logout |-> "idle"]
  /\ awaits = [l \in Logout |-> NoOp]
  /\ quick = 0
  /\ exiting = FALSE

-----------------------------------------------------------------------------
(* Start-up.                                                               *)

\* --connect starts a quick connect behind the main screen.
AutoConnect == quick' \in {quick, quick + 1} \intersect (0 .. MaxQuick)

\* A session was restored: the main screen, and the link of an earlier run.
StartSignedIn ==
  /\ SignedIn
  /\ Mount \/ \E t \in Op : MountAttached(t)
  /\ screen' = "main"
  /\ AutoConnect
  /\ UNCHANGED <<session, formVars, logoutVars, exiting>>

StartSignedOut ==
  /\ ~SignedIn
  /\ Mount
  /\ screen' = "login"
  /\ UNCHANGED <<session, formVars, logoutVars, quick, exiting>>

UseForm ==
  /\ app = "running"
  /\ \/ (Submit \/ CallApi \/ Refused \/ TwofaRequired) /\ UNCHANGED quick
     \/ SignIn /\ AutoConnect
  /\ UNCHANGED <<vars, logoutVars, exiting>>

-----------------------------------------------------------------------------
(* Keys of the main screen, and rows of the server browser over it.        *)

PressDisconnect(t) ==
  /\ screen = "main"
  /\ StartDisconnect(t)
  /\ UNCHANGED <<sessionVars, logoutVars, quick, exiting>>

\* A row of the browser: nothing happens without a server list.
ChooseServer(t, s) ==
  /\ app = "running"
  /\ screen = "main"
  /\ HasServers
  /\ StartConnect(t, s)
  /\ UNCHANGED <<sessionVars, logoutVars, quick, exiting>>

PressQuickConnect ==
  /\ app = "running"
  /\ screen = "main"
  /\ quick < MaxQuick
  /\ quick' = quick + 1
  /\ UNCHANGED <<vars, sessionVars, logoutVars, exiting>>

\* connect_by_selector after ensure_session_data: resolved and dispatched.
QuickConnects(t, s) ==
  /\ quick > 0
  /\ quick' = quick - 1
  /\ HasServers
  /\ StartConnect(t, s)
  /\ UNCHANGED <<sessionVars, logoutVars, exiting>>

\* No session, a failed fetch, no match, or the orchestrator is busy.
QuickConnectFails ==
  /\ quick > 0
  /\ quick' = quick - 1
  /\ UNCHANGED <<vars, sessionVars, logoutVars, exiting>>

-----------------------------------------------------------------------------
(* Logout: drop the tunnel, sign out, leave.                               *)

LogoutIs(l, p) == logout' = [logout EXCEPT ![l] = p]

PressLogout(l) ==
  /\ app = "running"
  /\ screen = "main"
  /\ logout[l] = "idle"
  /\ LogoutIs(l, "new")
  /\ UNCHANGED <<vars, sessionVars, awaits, quick, exiting>>

LogoutDisconnects(l, t) ==
  /\ logout[l] = "new"
  /\ LinkExists \/ active # NoActive
  /\ StartDisconnect(t)
  /\ awaits' = [awaits EXCEPT ![l] = t]
  /\ LogoutIs(l, "down")
  /\ UNCHANGED <<sessionVars, quick, exiting>>

LogoutSkipsTunnel(l) ==
  /\ logout[l] = "new"
  /\ ~LinkExists /\ active = NoActive
  /\ app # "drain"
  /\ LogoutIs(l, "auth")
  /\ UNCHANGED <<vars, sessionVars, awaits, quick, exiting>>

\* Mutant of LogoutDisconnected: a disconnect that fails ends the logout too.
LogoutDisconnected_FailureEnds(l) ==
  /\ logout[l] = "down"
  /\ pc[awaits[l]] \in Done
  /\ app # "drain"
  /\ LogoutIs(l, IF pc[awaits[l]] = "returned" THEN "auth" ELSE "lost")
  /\ UNCHANGED <<vars, sessionVars, awaits, quick, exiting>>

\* Mutant of LogoutDisconnected: the logout waits for success.
LogoutDisconnected_OnSuccess(l) ==
  /\ logout[l] = "down"
  /\ pc[awaits[l]] = "returned"
  /\ app # "drain"
  /\ LogoutIs(l, "auth")
  /\ UNCHANGED <<vars, sessionVars, awaits, quick, exiting>>

\* A failed disconnect does not matter; a cancelled one takes the logout along:
\* CancelledError is no Exception.
LogoutDisconnected(l) ==
  /\ logout[l] = "down"
  /\ pc[awaits[l]] \in Done
  /\ app # "drain"
  /\ LogoutIs(l, IF pc[awaits[l]] = "cancelled" THEN "lost" ELSE "auth")
  /\ UNCHANGED <<vars, sessionVars, awaits, quick, exiting>>

\* auth.logout returns, or raises and leaves the session; then app.exit().
LogoutSignsOut(l) ==
  /\ logout[l] = "auth"
  /\ app # "drain"
  /\ session' \in {"none", session}
  /\ exiting' = TRUE
  /\ LogoutIs(l, "done")
  /\ UNCHANGED <<vars, screen, formVars, awaits, quick>>

LogoutStep(l) ==
  \/ \E t \in Op : LogoutDisconnects(l, t)
  \/ LogoutSkipsTunnel(l)
  \/ LogoutDisconnected(l)
  \/ LogoutSignsOut(l)

-----------------------------------------------------------------------------
(* The orchestrator at work, and the end of the program.                   *)

\* Neither the tunnel nor the agent is attempted without credentials.
NeedsCredentials(t) ==
  pc'[t] # pc[t] /\ pc'[t] \in {"c_up", "a_dial", "a_redial"} => HasCredentials

ConnectionTask(t) ==
  /\ TaskStep(t)
  /\ NeedsCredentials(t)
  /\ UNCHANGED <<sessionVars, logoutVars, quick, exiting>>

ConnectionBackground(t) ==
  /\ AnswerPrompt(t) \/ RunScript(t) \/ AgentReports(t) \/ PollerStops(t)
  /\ UNCHANGED <<sessionVars, logoutVars, quick, exiting>>

\* q, or the end of a logout: on_unmount shuts the orchestrator down.
Quit == Shutdown /\ UNCHANGED <<sessionVars, logoutVars, quick, exiting>>

Closes ==
  /\ ShutdownTaskEnded \/ ShutdownAborted \/ ShutdownPollerEnded
     \/ ShutdownAgentEnded
  /\ UNCHANGED <<sessionVars, logoutVars, quick, exiting>>

\* The tasks that nobody keeps have been cancelled by asyncio.run.
ProgramEnds ==
  /\ Exit \/ Crash
  /\ NewSession
  /\ logout' = [l \in Logout |-> "idle"]
  /\ awaits' = [l \in Logout |-> NoOp]
  /\ quick' = 0
  /\ exiting' = FALSE

AppNext ==
  \/ StartSignedIn \/ StartSignedOut \/ UseForm
  \/ PressQuickConnect \/ QuickConnectFails
  \/ \E t \in Op : \/ PressDisconnect(t)
                   \/ \E s \in Server : ChooseServer(t, s) \/ QuickConnects(t, s)
                   \/ ConnectionTask(t)
                   \/ ConnectionBackground(t)
  \/ \E l \in Logout : PressLogout(l) \/ LogoutStep(l)
  \/ Quit \/ Closes \/ ProgramEnds

AppSpec == AppInit /\ [][AppNext]_appVars

(***************************************************************************)
(* The loop runs what is ready; a dial times out after ten seconds and the *)
(* requests of the API library have time-outs; the commands of a script    *)
(* end.  A program told to exit unmounts its screens.  Nothing makes a     *)
(* user answer a prompt, or press a key.                                   *)
(***************************************************************************)
AppFairness ==
  /\ \A t \in Op :
       /\ WF_appVars(ConnectionTask(t))
       /\ WF_appVars(RunScript(t) /\ ConnectionBackground(t))
       /\ WF_appVars(PollerStops(t) /\ ConnectionBackground(t))
  /\ \A l \in Logout : WF_appVars(LogoutStep(l))
  /\ WF_appVars(exiting /\ Quit)
  /\ WF_appVars(Closes)
  /\ WF_appVars(Exit /\ ProgramEnds)

AppFairSpec == AppSpec /\ AppFairness

-----------------------------------------------------------------------------
(* Safety.                                                                 *)

\* The main screen is there for a user who is signed in, second factor and all,
\* until one of his logouts has signed him out.
MainIsSignedIn ==
  screen = "main" => SignedIn \/ \E l \in Logout : logout[l] = "done"

\* The form never stays disabled with nobody waiting for the API.
FormIsUsable == screen = "login" /\ formDisabled => worker \in Calling

\* A logout is lost only to a later request, or to the end of the program:
\* a failing disconnect does not stop it.
LogoutLostToLaterRequest ==
  \A l \in Logout :
    logout[l] = "lost" /\ app = "running" => task # NoOp /\ awaits[l] < task

\* Who uses the program.
Who ==
  CASE SignedIn -> "user"
    [] session = "half" -> "half"
    [] OTHER -> "nobody"

Promise == INSTANCE SignInView
           WITH who <- Who, asked <- twofaPending, home <- screen = "main"

\* Sessions and screens change only as SignInView allows, however the workers of
\* the form, the answers of the API, logouts and restarts follow each other.
ImplementsSignInView == Promise!SignInViewSpec

-----------------------------------------------------------------------------
(* Liveness, under AppFairSpec.                                            *)

\* If prompts are answered, every logout that has begun comes to an end: it is
\* lost, or the program ends.
LogoutEnds ==
  PromptsAnswered =>
    \A l \in Logout :
      logout[l] \in {"down", "auth", "done"} ~> logout[l] \in {"lost", "idle"}

-----------------------------------------------------------------------------
(* What the documentation promises, and the code does not keep.            *)

\* _do_logout: "Logout implies the user is done - drop the tunnel first."
\* A program that ends signed out, where no operation has failed and no script is
\* at work, leaves no tunnel.
LogoutDropsTunnel ==
  /\ app = "drain"
  /\ session = "none"
  /\ \A t \in Op : pc[t] \in {"idle", "returned", "cancelled"} /\ proc[t] = "none"
  => ~link.up

\* README: "L: logout".  A user who asked for it and quits no further is signed
\* out, or on the way there.
LogoutIsNotLost ==
  (\E l \in Logout : logout[l] = "lost") /\ app = "running"
    => \E l \in Logout : logout[l] \in LoggingOut \union {"done"}
=============================================================================
