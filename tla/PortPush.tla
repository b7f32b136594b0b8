------------------------------- MODULE PortPush -------------------------------
(***************************************************************************)
(* The key p: the forwarded port is pushed to qBittorrent's Web API.       *)
(*                                                                         *)
(*   src/pvpn_tui/app.py          push_port_to_qbittorrent                 *)
(*   src/pvpn_tui/config.py       the config file and its template         *)
(*   src/pvpn_tui/qbittorrent.py  log in, then set the port, in a thread   *)
(*                                                                         *)
(* A push reads port and config on the loop, before its await; what its    *)
(* thread then does is interleaved with everything, other pushes included. *)
(***************************************************************************)
CONSTANTS
  Push,          \* the presses of p in one run of the program
  Port, NoPort

ASSUME PushAssumption == NoPort \notin Port

VARIABLES
  port,          \* the forwarded_port of what is active, if anything is
  config,        \* the config file
  qbt,           \* the listen port of qBittorrent (external)
  push,          \* push[p]: where push p is, or how it ended
  pushed,        \* pushed[p]: the port that it has read
  alone          \* history, which no guard reads: has no other push been at work
                 \*   since p was pressed?

pushVars == <<config, qbt, push, pushed, alone>>

\* "blank" is the template and whatever load() takes for no configuration, a
\* file it cannot parse included; "garbled" is no UTF-8, and load() raises.
Configs == {"absent", "blank", "filled", "garbled"}

InThread == {"login", "set", "applied"}

\* A request that the thread has given up may still be on its way to qBittorrent.
AtWork == InThread \union {"late"}

PushTypeOK ==
  /\ port \in Port \union {NoPort}
  /\ config \in Configs
  /\ qbt \in Port \union {NoPort}
  /\ push \in [Push -> {"idle", "reported", "ended"} \union AtWork]
  /\ pushed \in [Push -> Port \union {NoPort}]
  /\ alone \in [Push -> BOOLEAN]

PushInit ==
  /\ config \in Configs
  /\ qbt \in Port \union {NoPort}
  /\ push = [p \in Push |-> "idle"]
  /\ pushed = [p \in Push |-> NoPort]
  /\ alone = [p \in Push |-> FALSE]

PushGoes(p, to) == push' = [push EXCEPT ![p] = to]

UserEditsConfig ==
  /\ config' \in Configs \ {config}
  /\ UNCHANGED <<port, qbt, push, pushed, alone>>

-----------------------------------------------------------------------------
(* action_push_port, and push_port_to_qbittorrent up to its await.         *)

NothingToPush(p) ==
  /\ push[p] = "idle" /\ port = NoPort
  /\ PushGoes(p, "ended")
  /\ UNCHANGED <<port, config, qbt, pushed, alone>>

\* Mutant of NotConfigured: the template is written over a file without settings.
NotConfigured_Overwrites(p) ==
  /\ push[p] = "idle" /\ port # NoPort
  /\ config # "filled"
  /\ config' = "blank"
  /\ PushGoes(p, "ended")
  /\ UNCHANGED <<port, qbt, pushed, alone>>

\* The template is written, if the disk lets it, where there is no file; a garbled
\* file, and a disk that does not, end the task with an exception.
NotConfigured(p) ==
  /\ push[p] = "idle" /\ port # NoPort
  /\ config # "filled"
  /\ config' \in IF config = "absent" THEN {"absent", "blank"} ELSE {config}
  /\ PushGoes(p, "ended")
  /\ UNCHANGED <<port, qbt, pushed, alone>>

StartPush(p) ==
  /\ push[p] = "idle" /\ port # NoPort
  /\ config = "filled"
  /\ PushGoes(p, "login")
  /\ pushed' = [pushed EXCEPT ![p] = port]
  /\ alone' = [u \in Push |-> u = p /\ \A q \in Push : push[q] \notin AtWork]
  /\ UNCHANGED <<port, config, qbt>>

-----------------------------------------------------------------------------
(* _push_blocking, in its thread.                                          *)

LoggedIn(p) ==
  /\ push[p] = "login"
  /\ PushGoes(p, "set")
  /\ UNCHANGED <<port, config, qbt, pushed, alone>>

\* Mutant of PortIsSet: the thread reads the forwarded port itself.
PortIsSet_PortNow(p) ==
  /\ push[p] = "set"
  /\ qbt' = port
  /\ PushGoes(p, "applied")
  /\ UNCHANGED <<port, config, pushed, alone>>

\* qBittorrent takes the new port, and then answers.
PortIsSet(p) ==
  /\ push[p] = "set"
  /\ qbt' = pushed[p]
  /\ PushGoes(p, "applied")
  /\ UNCHANGED <<port, config, pushed, alone>>

\* "qBittorrent listen port set to ..."
PushReported(p) ==
  /\ push[p] = "applied"
  /\ PushGoes(p, "reported")
  /\ UNCHANGED <<port, config, qbt, pushed, alone>>

\* Refused, unreachable, or a time-out: reported as a failure, or, if the exception
\* is no URLError, to nobody.  The port may have been set, or be set later.
PushFails(p) ==
  /\ \/ push[p] \in InThread /\ PushGoes(p, "ended")
     \/ push[p] = "set" /\ PushGoes(p, "late")
  /\ UNCHANGED <<port, config, qbt, pushed, alone>>

\* qBittorrent serves a request after its client has gone.
LateApplies(p) ==
  /\ push[p] = "late"
  /\ qbt' = pushed[p]
  /\ PushGoes(p, "ended")
  /\ UNCHANGED <<port, config, pushed, alone>>

PressPush(p) == NothingToPush(p) \/ NotConfigured(p) \/ StartPush(p)

PushStep(p) ==
  LoggedIn(p) \/ PortIsSet(p) \/ PushReported(p) \/ PushFails(p) \/ LateApplies(p)

-----------------------------------------------------------------------------
\* A report of success is true, whatever becomes of the forwarded port meanwhile:
\* qBittorrent listens on the very port that the report names, unless another push
\* has been at work in between, be it one that has failed and is applied late
\* (push_port_to_qbittorrent reports the port it has read before its await).
ReportIsTrue ==
  \A p \in Push : push[p] = "reported" /\ alone[p] => qbt = pushed[p]

\* The program leaves a config file that exists alone, whatever is in it (the
\* docstring of write_template), and pushes to nobody the user has not named.
ConfigIsTheUsers ==
  [][config' # config /\ ~UserEditsConfig => config = "absent" /\ config' = "blank"]_config
=============================================================================
