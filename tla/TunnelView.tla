------------------------------ MODULE TunnelView ------------------------------
(***************************************************************************)
(* What the orchestrator promises the screens that subscribe to it: how    *)
(* the status line (src/pvpn_tui/connection.py, _state) and the server     *)
(* shown beside it (_active) may change, whatever operations overlap.      *)
(*                                                                         *)
(*   - a server is shown while connected, and while being disconnected;    *)
(*   - from being disconnected, no server is shown again before the line   *)
(*     has been settled or a new attempt has begun;                        *)
(*   - one server never takes the place of another directly.               *)
(***************************************************************************)
CONSTANTS Server, NoServer

VARIABLES status, shown

View == <<status, shown>>

ViewInit == status = "DISCONNECTED" /\ shown = NoServer

\* An attempt to connect begins; a server shown until now is forgotten.  It may
\* interrupt a disconnect only while the program closes, after that was cancelled.
Attempt ==
  /\ status' = "CONNECTING"
  /\ shown' = NoServer

\* The tunnel is up: after an attempt, or found at start-up, or after an attempt
\* whose status an older operation has overwritten while it was unwinding.
Establish(s) ==
  /\ status \in {"CONNECTING", "DISCONNECTED"}
  /\ status' = "CONNECTED"
  /\ shown' = s

\* A disconnect has begun; what was shown stays until it is done.
Dismantle ==
  /\ status' = "DISCONNECTING"
  /\ shown' = shown

\* The end of every disconnect and of every failure; the program may end too.
Settle ==
  /\ status' = "DISCONNECTED"
  /\ shown' = NoServer

ViewNext ==
  \/ Attempt
  \/ \E s \in Server : Establish(s)
  \/ Dismantle
  \/ Settle

ViewSpec == ViewInit /\ [][ViewNext]_View
=============================================================================
