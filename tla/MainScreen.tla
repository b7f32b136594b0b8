------------------------------ MODULE MainScreen ------------------------------
(***************************************************************************)
(* src/pvpn_tui/screens/main.py: what the panel shows of the orchestrator, *)
(* which it sees as module TunnelView promises, and the pushes of the      *)
(* forwarded port (module PortPush).                                       *)
(*                                                                         *)
(* The panel is drawn again on every change of the status and once a       *)
(* second; the messages of a key are written over its first line.          *)
(***************************************************************************)
EXTENDS Naturals, PortPush

CONSTANTS
  Server, NoServer,
  MaxQuick       \* bound: quick connects that are being resolved at a time

ASSUME MainAssumption ==
  /\ NoServer \notin Server
  /\ MaxQuick \in Nat
  /\ Port \intersect {"hidden", "waiting"} = {}
  /\ Server \intersect {"hidden", "stale", "error"} = {}

VARIABLES
  status, shown,   \* the orchestrator, as its subscribers see it
  failed,          \* is there a last_error?
  linkPresent,     \* link_present: whether the kernel has a wg0 now
  quick,           \* quick connects that are being resolved
  panel            \* what is on the screen

view     == <<status, shown>>
mainVars == <<view, failed, linkPresent, port, quick, panel>>
allVars  == <<mainVars, pushVars>>

INSTANCE TunnelView

Statuses == {"DISCONNECTED", "CONNECTING", "CONNECTED", "DISCONNECTING"}

\* Messages over the first line.
Overlays == {"resolving", "failure"}

Panels == [line : Statuses \union Overlays,
           server : Server \union {"hidden", "stale", "error"},
           card : Port \union {"hidden", "waiting"}]

MainTypeOK ==
  /\ PushTypeOK
  /\ status \in Statuses
  /\ shown \in Server \union {NoServer}
  /\ failed \in BOOLEAN
  /\ linkPresent \in BOOLEAN
  /\ quick \in 0 .. MaxQuick
  /\ panel \in Panels

-----------------------------------------------------------------------------
(* _refresh_status.                                                        *)

\* The line below the status: a server, a link that nobody accounts for, or the
\* last error.
ServerLine(st, s, e, l) ==
  CASE st = "CONNECTED" /\ s # NoServer -> s
    [] st = "DISCONNECTED" /\ l -> "stale"
    [] st = "DISCONNECTED" /\ ~l /\ e -> "error"
    [] OTHER -> "hidden"

\* Mutant of PortCard: whatever forwarded_port is, it is shown.
PortCard_Raw(st, s, p) ==
  IF st # "CONNECTED" \/ s = NoServer THEN "hidden" ELSE p

\* An error of the agent stands where the port is waited for.
PortCard(st, s, p) ==
  CASE st # "CONNECTED" \/ s = NoServer -> "hidden"
    [] st = "CONNECTED" /\ s # NoServer /\ p # NoPort -> p
    [] OTHER -> "waiting"

Rendering ==
  [line |-> status, server |-> ServerLine(status, shown, failed, linkPresent),
   card |-> PortCard(status, shown, port)]

Refresh == panel' = Rendering'

Overlay(m) == panel' = [panel EXCEPT !.line = m]

MainInit ==
  /\ ViewInit
  /\ failed = FALSE
  /\ linkPresent \in BOOLEAN
  /\ port = NoPort
  /\ quick = 0
  /\ PushInit
  /\ panel = Rendering

-----------------------------------------------------------------------------
(* The orchestrator: each step calls _on_state_change.                     *)

\* A disconnect leaves the last error alone while it runs.
Errors(st) ==
  CASE st = "DISCONNECTED" -> BOOLEAN
    [] st = "DISCONNECTING" -> {failed}
    [] OTHER -> {FALSE}

\* Mutant of StatusChanges: the change is emitted before it is made.
StatusChanges_EmitFirst ==
  /\ ViewNext
  /\ failed' \in Errors(status')
  /\ port' = IF shown' = shown THEN port ELSE NoPort
  /\ UNCHANGED <<linkPresent, quick, pushVars>>
  /\ panel' = Rendering

\* _set.  Another active connection has no port yet.
StatusChanges ==
  /\ ViewNext
  /\ failed' \in Errors(status')
  /\ port' = IF shown' = shown THEN port ELSE NoPort
  /\ UNCHANGED <<linkPresent, quick, pushVars>>
  /\ Refresh

\* An agent, late ones included, writes the port of what is active, or none.
AgentReportsPort ==
  /\ shown # NoServer
  /\ port' \in (Port \union {NoPort}) \ {port}
  /\ UNCHANGED <<view, failed, linkPresent, quick, pushVars>>
  /\ Refresh

\* Scripts, and other programs, add and remove wg0: nobody is told.
LinkChanges ==
  /\ linkPresent' = ~linkPresent
  /\ UNCHANGED <<view, failed, port, quick, panel, pushVars>>

\* Mutant of Tick: the timer serves the counters of a connection only.
Tick_Connected ==
  /\ status = "CONNECTED"
  /\ UNCHANGED <<view, failed, linkPresent, port, quick, pushVars>>
  /\ Refresh

\* Once a second, on a status of the stats poller, and when the screen is back.
Tick ==
  /\ UNCHANGED <<view, failed, linkPresent, port, quick, pushVars>>
  /\ Refresh

-----------------------------------------------------------------------------
(* Keys.                                                                   *)

PressQuick ==
  /\ quick < MaxQuick
  /\ quick' = quick + 1
  /\ Overlay("resolving")
  /\ UNCHANGED <<view, failed, linkPresent, port, pushVars>>

\* Dispatched: the panel says so when the orchestrator does.
QuickDispatched ==
  /\ quick > 0
  /\ quick' = quick - 1
  /\ UNCHANGED <<view, failed, linkPresent, port, panel, pushVars>>

QuickRefused ==
  /\ quick > 0
  /\ quick' = quick - 1
  /\ Overlay("failure")
  /\ UNCHANGED <<view, failed, linkPresent, port, pushVars>>

PushKey(p) == PressPush(p) /\ UNCHANGED mainVars

PushThread(p) == PushStep(p) /\ UNCHANGED mainVars

EditConfig == UserEditsConfig /\ UNCHANGED mainVars

MainNext ==
  \/ StatusChanges \/ AgentReportsPort \/ LinkChanges \/ Tick
  \/ PressQuick \/ QuickDispatched \/ QuickRefused
  \/ \E p \in Push : PushKey(p) \/ PushThread(p)
  \/ EditConfig

MainSpec == MainInit /\ [][MainNext]_allVars

\* The timer of the screen ticks; of a push, nothing is known.
MainFairSpec == MainSpec /\ WF_allVars(Tick)

-----------------------------------------------------------------------------
(* Properties.                                                             *)

\* The panel never mixes two moments: the server and the port on it are those of
\* now, whatever message a key has written over the first line, and only what
\* nobody is told of, a link that comes or goes, may lag behind (_emit calls
\* _refresh_status after every change of what it shows).
PanelIsCurrent ==
  /\ panel.line \in {status} \union Overlays
  /\ panel.card = Rendering.card
  /\ panel.server # Rendering.server
       => status = "DISCONNECTED" /\ panel.server \in {"stale", "hidden", "error"}

-----------------------------------------------------------------------------
(* Liveness, under MainFairSpec.                                           *)

Outside == StatusChanges \/ AgentReportsPort \/ LinkChanges \/ PressQuick
             \/ QuickDispatched \/ QuickRefused

\* When nothing happens any more, the panel comes to tell the truth: "resolving"
\* and failures go, and so does a wg0 that has come or gone in silence.
PanelCatchesUp == <>[][~Outside]_mainVars => <>[](panel = Rendering)
=============================================================================
