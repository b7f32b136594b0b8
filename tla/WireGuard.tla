------------------------------ MODULE WireGuard ------------------------------
(***************************************************************************)
(* src/pvpn_tui/wg.py: bringing the one WireGuard link, wg0, up and down   *)
(* through shell scripts that pkexec runs as root.                         *)
(*                                                                         *)
(* An operation of the orchestrator (module Connection) that touches the   *)
(* link spawns one pkexec process and awaits it.  The process first waits  *)
(* for the user to authorize it and then runs its commands one at a time:  *)
(* they interleave with everything the event loop does meanwhile, and      *)
(* they go on after the operation that spawned them has ended if they were *)
(* not killed.                                                             *)
(***************************************************************************)
EXTENDS Naturals, FiniteSets

CONSTANTS
  Op,           \* the operations of the orchestrator, numbered as they start
  NoOp,
  Server,       \* logical servers, each with one enabled physical server
  NoServer,
  TuiIsRoot     \* may the TUI signal a process that runs as root?

ASSUME WireGuardAssumption ==
  /\ Op \subseteq Nat
  /\ NoOp \notin Op
  /\ NoServer \notin Server
  /\ TuiIsRoot \in BOOLEAN

VARIABLES
  link,         \* wg0 in the kernel: present, with a peer, up, routed
  proc,         \* proc[t]: where the pkexec process spawned by t has got to
  conf,         \* operations whose private-key file is in the runtime dir
  server        \* server[t]: the server t is about (the peer of its WGConfig)

wgVars == <<link, proc, conf>>

NoLink == [present |-> FALSE, peer |-> NoServer, up |-> FALSE, routed |-> FALSE]

Prompting == {"up_auth", "down_auth"}
Running   == {"del", "add", "setconf", "bring_up", "route", "link_del"}
Exited    == {"ok", "failed"}

WgTypeOK ==
  /\ link \in [present : BOOLEAN, peer : Server \union {NoServer}, up : BOOLEAN,
               routed : BOOLEAN]
  /\ proc \in [Op -> {"none"} \union Prompting \union Running \union Exited]
  /\ conf \subseteq Op
  /\ server \in [Op -> Server \union {NoServer}]

-----------------------------------------------------------------------------
(* Calls of wg.py.                                                         *)

ProcIs(t, p) == proc' = [proc EXCEPT ![t] = p]

\* The config file holds the private key.
WriteConf(t) == conf' = conf \union {t}

\* up() before its try: the file cannot be made, or not be written to its end, and
\* then nobody unlinks what there is of it.
ConfUnwritten(t) ==
  /\ WriteConf(t) \/ UNCHANGED conf
  /\ UNCHANGED <<link, proc>>

\* up(): write the config file, then spawn pkexec.
WgUp(t) ==
  /\ WriteConf(t)
  /\ ProcIs(t, "up_auth")
  /\ UNCHANGED link

LinkExists == link.present

\* read_stats() finds no counters of the link.
NoStats == ~link.present

\* down(), which has seen the link: spawn pkexec "ip link del wg0".
WgDown(t) ==
  /\ ProcIs(t, "down_auth")
  /\ UNCHANGED <<link, conf>>

\* Mutant of Succeeded: a non-zero return code raises no WGError.
Succeeded_AnyExit(t) == proc[t] \in Exited

\* The return code that _pkexec_sh tests.
Succeeded(t) == proc[t] = "ok"

\* Mutant of Reap: the config file is unlinked on success only.
Reap_OnSuccessOnly(t) ==
  /\ ProcIs(t, "none")
  /\ conf' = IF Succeeded(t) THEN conf \ {t} ELSE conf
  /\ UNCHANGED link

\* up() or down() returns or raises: the process has been reaped, and the
\* finally clause of up() unlinks the config file.
Reap(t) ==
  /\ ProcIs(t, "none")
  /\ conf' = conf \ {t}
  /\ UNCHANGED link

\* proc.kill() raises PermissionError for a process that has become root.
KillDenied(t) == proc[t] \in Running /\ ~TuiIsRoot

\* The CancelledError handler of _pkexec_sh kills pkexec and then waits for it.
\* SIGKILL finds it asking for authorization, or running with us being root.
Kill(t) ==
  /\ ~KillDenied(t)
  /\ ProcIs(t, "none")
  /\ UNCHANGED <<link, conf>>

\* PermissionError leaves up() through its finally clause; the script runs on.
Abandon(t) ==
  /\ KillDenied(t)
  /\ conf' = conf \ {t}
  /\ UNCHANGED <<link, proc>>

-----------------------------------------------------------------------------
(* The script of t, run by the system: one action per command.             *)

Authorize(t) ==
  /\ proc[t] \in Prompting
  /\ ProcIs(t, IF proc[t] = "up_auth" THEN "del" ELSE "link_del")
  /\ UNCHANGED <<link, conf>>

\* The user dismisses the prompt, or pkexec cannot be run.
Dismiss(t) ==
  /\ proc[t] \in Prompting
  /\ ProcIs(t, "failed")
  /\ UNCHANGED <<link, conf>>

\* "ip link del wg0 || true"
DelStaleLink(t) ==
  /\ proc[t] = "del"
  /\ link' = NoLink
  /\ ProcIs(t, "add")
  /\ UNCHANGED conf

\* "ip link add wg0 type wireguard"
AddLink(t) ==
  /\ proc[t] = "add"
  /\ ~link.present
  /\ link' = [NoLink EXCEPT !.present = TRUE]
  /\ ProcIs(t, "setconf")
  /\ UNCHANGED conf

\* "wg setconf wg0 <conf>" reads the config file.
SetConf(t) ==
  /\ proc[t] = "setconf"
  /\ link.present
  /\ t \in conf
  /\ link' = [link EXCEPT !.peer = server[t]]
  /\ ProcIs(t, "bring_up")
  /\ UNCHANGED conf

\* "ip addr add" and "ip link set wg0 up": the address cannot be given twice.
BringUp(t) ==
  /\ proc[t] = "bring_up"
  /\ link.present /\ ~link.up
  /\ link' = [link EXCEPT !.up = TRUE]
  /\ ProcIs(t, "route")
  /\ UNCHANGED conf

\* "ip route add <pinned route> dev wg0", the last command: not twice, nor over a
\* link that is down.
AddRoute(t) ==
  /\ proc[t] = "route"
  /\ link.up /\ ~link.routed
  /\ link' = [link EXCEPT !.routed = TRUE]
  /\ ProcIs(t, "ok")
  /\ UNCHANGED conf

\* "ip link del wg0" of down()
DelLink(t) ==
  /\ proc[t] = "link_del"
  /\ link.present
  /\ link' = NoLink
  /\ ProcIs(t, "ok")
  /\ UNCHANGED conf

\* A command fails and set -eu ends the script where it is; nothing is undone.
\* The commands above cannot succeed when their conditions do not hold.
ScriptFails(t) ==
  /\ proc[t] \in Running
  /\ ProcIs(t, "failed")
  /\ UNCHANGED <<link, conf>>

ScriptCommand(t) ==
  \/ DelStaleLink(t)
  \/ AddLink(t)
  \/ SetConf(t)
  \/ BringUp(t)
  \/ AddRoute(t)
  \/ DelLink(t)
  \/ ScriptFails(t)

PromptOpen == \E t \in Op : proc[t] \in Prompting
=============================================================================
