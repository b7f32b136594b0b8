# A formal model of pvpn-tui

`pvpn-tui` is a terminal client for Proton VPN: it signs in, lists servers,
brings the WireGuard link `wg0` up and down through `pkexec`, keeps a connection
to Proton's "local agent" for the forwarded port, and leaves the tunnel up when
it quits so that the next start can attach to it again.

Everything in the program runs on one asyncio loop, and almost everything that
can go wrong in it comes from what happens between two awaits: operations that
are cancelled while they wait, processes that run as root and cannot be killed,
tasks that nobody keeps, and a kernel link that outlives the program. This
directory models that part in TLA+, checks it with TLC, and proves the main
safety properties with TLAPS.

## The system

Paths are relative to `src/src/pvpn_tui/`.

| Component | State it keeps | Operations | Talks to |
|---|---|---|---|
| Connection orchestrator, `connection.py` | `_state`, `_active`, `_target_name`, `_last_error`, `_task`, `_agent`, `_stats_task` | `start_connect`, `start_disconnect`, `attach_existing`, `shutdown`, `_connect`, `_disconnect`, `_start_agent`, the agent callbacks, `_consume_stats` | calls the link, the agent client, the auth service and the saved state; calls back its subscribers |
| WireGuard link, `wg.py` | the link in the kernel, the config file with the private key, one `pkexec` process per operation | `up`, `down`, `link_exists`, `read_stats` | polkit, the kernel |
| Local agent client, `proton_api/agent.py` | the socket, its listen future | `connect`, `request_port_forwarding`, `stop`, status and error callbacks | called by and calls back the orchestrator |
| Saved state, `state.py` | `last_server_id` in a file | `load`, `save` | the disk |
| Application, `app.py` | the services, the screen stack | `on_mount`, `on_unmount`, `_on_login_done`, `connect_by_selector`, `push_port_to_qbittorrent` | everything |
| Auth service, `proton_api/auth.py` | the one Proton session | `restore_default_session`, `login`, `provide_2fa`, `logout`, `ensure_session_data`, `ensure_fresh_cert`, `wg_credentials` | the keyring, the API |
| Login screen, `screens/login.py` | `_twofa_pending`, what is disabled, one exclusive worker | `_submit`, `_do_login`, `_do_2fa` | the auth service |
| Main screen, `screens/main.py` | what it renders, a one-second timer | quick connect, disconnect, push port, logout, `_refresh_status` | application, auth service; subscribes to the orchestrator |
| Server browser, `screens/servers.py` | rows, filter, sort key, debounce timer, the table, one exclusive worker | load, refresh, filter, sort, choose, dismiss | auth service; subscribes to the orchestrator |
| qBittorrent push, `qbittorrent.py`; config, `config.py` | the config file; a thread for every push | `push_listen_port`; `load`, `write_template` | qBittorrent's Web API |
| Resolver, `resolver.py` | none | `resolve_server` | the server list |
| Command line, logging, widgets, type stubs | none | parsing, set-up, layout | |

What is hard about it, and what correctness means for each part:

* **Orchestrator.** `_task` remembers one task, but several can be alive: a
  disconnect replaces `_task` while the connect that it cancelled is still
  unwinding, the re-attach task is kept by nobody, and a cancellation may arrive
  inside an `await` under `suppress(CancelledError)` and be swallowed. Whatever
  overlaps, the status line must not mix two connections, must not stay busy
  with nobody at work, and the last request must win.
* **Link.** The scripts run as root, one command at a time, interleaved with the
  loop; `set -eu` stops them half-way and nothing is undone; killing one that has
  become root is denied. The private-key file must not outlive its script, and
  CONNECTED must mean that the tunnel leads to the server shown.
* **Agent client.** Its listen future must be stopped with the connection that it
  belongs to; a callback writes into whatever is active by then.
* **Saved state.** The server shown must be the one that a relaunch attaches to.
* **Application.** Shutdown awaits a cancelled task, which awaits its process: it
  must end, and close what it opened.
* **Auth service and login screen.** The main screen is for users signed in with
  both factors; the form must always be usable again; a logout must sign out,
  whatever its disconnect does.
* **Server browser.** Its rows are a copy of a list that others replace, its table
  a copy of the rows that four things redraw, its workers cancel one another, and
  a chosen row is a message in a queue, and every redraw takes the cursor back to
  the first row. The table must be the best matches of what was fetched, Enter
  should choose the row that the user has moved to (it does not), and a status bar
  that says "Fetching" must have somebody who fetches.
* **Main screen and push.** The panel must not mix two moments of the
  orchestrator; a push reads the port before it awaits a thread, other pushes and
  the agent go on meanwhile, and what it reports should be true.
* **Resolver.** A selector may be a country code, a name and an id at once: the
  order in which the readings are tried is what it means.

`PROJECT.json` lists every hazard at its line, with the properties that guard it.

## Modules

| Module | Models | EXTENDS |
|---|---|---|
| `WireGuard` | `wg.py`: key file, `pkexec` processes, scripts command by command | |
| `Connection` | `connection.py`, with the agent client, the saved state, and start-up and shutdown in `app.py` | `WireGuard` |
| `TunnelView` | abstract: what subscribers may see of the status line | |
| `Session` | `auth.py` and `login.py` | |
| `SignInView` | abstract: who uses the program, and how he may come in | |
| `App` | `app.py` and `main.py` around both: login hand-over, quick connects, logouts | `Connection`, `Session`; instance of `SignInView` |
| `Catalog` | server lists, rows, their order, filter and limit; `resolver.py`: operators without state | |
| `ServerBrowser` | `servers.py`, over an orchestrator that behaves as `TunnelView` promises | `Catalog`; instance of `TunnelView` |
| `PortPush` | the key `p`: `app.py`'s push, `config.py`, `qbittorrent.py` | |
| `MainScreen` | the panel of `main.py`, over `TunnelView`, with the pushes | `PortPush`; instance of `TunnelView` |
| `ConnectionProofs`, `TunnelProofs`, `ProgressProofs` | theorems about `Connection`: the status line, the tunnel, progress | `Connection`; `ConnectionProofs`; `TunnelProofs` |
| `AppProofs` | theorems about `App` | `App`, `ProgressProofs` |
| `CatalogProofs`, `BrowserProofs` | theorems about sorting, filter and selectors, and about the browser | `Catalog`; `ServerBrowser`, `CatalogProofs` |
| `MainScreenProofs` | theorems about panel and pushes | `MainScreen` |
| `MCConnection`, `MCApp`, `MCServerBrowser`, `MCMainScreen` | TLC instances: symmetry sets, server lists | |

`TunnelView` is the seam between the two halves. `Connection` is shown to implement
it (by TLC and by proof); the screens are checked against anything that does.
`SignInView` says the same of the session: `App` implements it, whichever worker of
the form, answer of the API, logout or restart comes first.

### How the state corresponds to the code

A **task** is an operation `t \in Op`, numbered in the order of `create_task`.
`pc[t]` names the await at which the coroutine is suspended; an action is what
the coroutine does from one await to the next, because asyncio cannot switch
anywhere else. `cancel[t]` says what has become of `Task.cancel()`: once it is
`"pending"`, the only next step of the task is the delivery of `CancelledError`
(`CancelledAt`), or, at an await under `suppress`, its loss (`Swallows`).

| Variable | Code |
|---|---|
| `state`, `error`, `task`, `agent`, `statsTask` | `_state`, `_last_error`, `_task`, `_agent`, `_stats_task` |
| `active` | `_active`, as a record: `by`, the operation that set it, and `told`, the one whose agent wrote its port and agent state last |
| `target` | `_target_name`, as the operation that set it |
| `listening`, `pollers` | listen futures and poller tasks that are alive, whether or not anybody still refers to them |
| `server[t]` | the server operation `t` is about |
| `lastId` | `last_server_id` in the state file |
| `link`, `proc`, `conf` | `wg0`; the `pkexec` process of each operation; the key files |
| `app` | before `on_mount`, running, the awaits of `shutdown`, and the drain of `asyncio.run` |
| `session`, `worker`, `twofaPending`, `formDisabled` | `_session` and how far it is signed in; the form's worker; `_twofa_pending`; the disabled inputs |
| `logout[l]`, `awaits[l]` | a `_do_logout` task, and the disconnect that it awaits |
| `quick` | quick connects that are being resolved |
| `status`, `shown` | what `_emit` tells the screens: `state` and the server of `active` or `target` |
| `list` | `auth.server_list` |
| `rows`, `sort`, `filter`, `debounce` | `_rows`, `_sort`, `_filter`, whether `_filter_timer` runs |
| `table`, `cursor`, `focus`, `message` | the `DataTable`, its cursor, which widget has the focus, what the status bar says |
| `screen`, `worker`, `picked` | how far the browser is mounted; the worker of the group `servers`; a `RowSelected` in the queue |
| `source`, `pickedFrom`, `aimed` | history, for the properties: the listing of the rows and of the pick; the row the user has moved to, until he chooses it, leaves the table or has it drawn anew |
| `panel`, `failed`, `linkPresent` | what `_refresh_status` has drawn; `_last_error`; `link_present()` |
| `port`, `config`, `qbt` | the forwarded port, the config file, the listen port of qBittorrent |
| `push[p]`, `pushed[p]`, `alone[p]` | how far the `p`-th push is, the port that it has read; history: that no other push has been at work since |

Each operation of the code is an action: `StartConnect`, `StartDisconnect`,
`MountAttached`, `Shutdown`; the steps of `_connect` (`BringUpTunnel`,
`ConnectUp`, `ConnectFails`, ...), of `_start_agent` (`AgentDials`, ...,
`AgentDropped`) and of `_disconnect` (`DisconnectStarts`, ...); and the steps of
the environment: prompts (`AnswerPrompt`), commands of the scripts (`RunScript`),
agent callbacks (`AgentReports`), `Crash`. `map` in `PROJECT.json` gives the lines
of each.

### Abstractions

* Every logical server has one enabled physical server; that there is none is a
  failure of `ConnectImpossible`. Addresses, keys, counters and agent reports are
  reduced to whose they are. `last_server_id` is the server, not its text.
* A cancelled poller ends at its next step. `stop()` of an agent client suspends
  only once the client listens. A listen future that ends by itself is not
  modelled: it only makes fewer callbacks possible.
* `KillsDelivered`: a `CancelledError` reaches its task, and the kill its
  process, before polkit answers; both take a few iterations of the loop, an
  answer takes a person.
* A process killed with its prompt open leaves nothing behind; one that is
  abandoned, because killing root is denied (`TuiIsRoot = FALSE`), runs its script
  on. The two-second wait for a killed process ends with the process.
* `ip addr add` and `ip link set up` are one command (`BringUp`): no other reads the
  address. The pinned routes, by default one, are the last (`AddRoute`), so a script
  can fail with the link already up.
* `_write_conf` runs before the `try` of `up`: if it fails, what there is of the file
  stays (`ConfUnwritten`), and the operation ends without a process.
* The state file is written or not (`DiskWorks`). `write_text` truncates first: a
  crash while a connect saves may leave a file without a server.
* A quick connect may be dispatched in the awaits of `shutdown`, which nothing
  waits for then. Left out is the one turn of the event loop between the end of the
  task that `shutdown` cancelled and the next step of `shutdown`.
* What the API answers to a login is external. A session in the keyring that is not
  signed in is as good as none: it is only ever replaced by a login.
* The browser's status bar is reduced to "it waits for the API" and "it reports";
  the sort arrow and the wording are left out. `ListChanges` lets others replace
  the list at any time, and take it away, as a logout does: more than the code
  ever does. What `update_server_loads` returns (`Reloaded`) and that
  `DataTable.clear` takes the cursor to the first line are behaviours of libraries.
* A needle is the set of servers that contain it, a place or a name its
  alphabetical rank. Names of servers are taken to be unique, as Proton's are:
  otherwise `list.sort` would leave the order of equal rows to the listing.
* A screen that was dismissed stays subscribed until it is unmounted. If its
  widgets are gone already the listener raises, which `_emit` logs; the models
  allow for both.
* Of the panel, the status line, the line below it and the port card are modelled;
  traffic figures, uptime and the hint of the last server are not. The card's error
  of the agent and its "waiting" are one value, which says "no port".
* The time-outs of a push are of single socket operations, not of the whole: a push
  may take any time, or for ever. A request that it has given up may still be served
  (`LateApplies`). Nobody else sets the port of qBittorrent.
* Whatever `load()` takes for "not configured", an unparsable file included, is
  `"blank"`; a file that is no UTF-8 makes it raise (`"garbled"`).
* `Exit` and `Crash` lead back to `Init`-like states with the link, the state
  file, the key files and abandoned scripts as they were: the next start attaches
  to what it finds.

## Runs

| Run | Question | Bounds | Answer |
|---|---|---|---|
| `conn_safety` | Does anything that overlaps confuse the status, the key files, the saved server, the tunnel or whoever waits? | 3 operations, 2 servers, crashes | passes |
| `app_safety` | Do login, quick connects and logouts keep the session and the form right? | 3 operations, 1 server, 1 logout, 1 quick connect, no crash, kills never denied | passes |
| `app_liveness` | Does everything settle, and does a logout end? | 2 operations, 1 server, 1 logout, fairness, crashes | passes |
| `busy_is_refused` | Is a connect refused while one is at work? | 3 operations, 2 servers | violated |
| `disconnect_is_teardown` | Does a disconnect that returned leave no link, in the end? | 2 operations, 2 servers | violated |
| `attach_shows_tunnel` | Does a relaunch show the server that the link leads to? | 3 operations, 2 servers | violated |
| `shutdown_closes_agent` | Does quitting close the agent's connection? | 3 operations, 2 servers | violated |
| `logout_drops_tunnel` | Does a logout leave no tunnel? | 2 operations | violated |
| `logout_is_not_lost` | Does a logout sign out? | 3 operations | violated |
| `browser` | Is the table what was fetched, is a row that is dialled looked up again, does nothing stay half done, and what do selectors mean? | 3 servers, 3 listings, 2 needles, limit 2, 1 peer, fairness | passes |
| `enter_takes_the_row` | Does Enter choose the row that the user has moved to? | as `browser` | violated |
| `main_screen` | Is the panel of one moment, is a reported push true, is the config file the user's? | 2 servers, 2 ports, 2 pushes, 1 quick connect, fairness | passes |

**Why the bounds are enough.** The program never has more than a few tasks alive
at a time: an operation that unwinds, the one that superseded it, and a third
that is accepted meanwhile are all the roles there are, and three operations
play them in any order, with restarts in between. `app_liveness` runs the whole
program, logouts included, and has two operations: one that is at work and the one
that cancels it; a quick connect is left to `app_safety`, as it only decides when a
connect is asked for. `app_safety` leaves denied kills to `conn_safety`, to
`app_liveness` and to the proofs. That no operation, however many there are, comes back to an
`await` or needs more than ten steps is proved. Two servers tell the one shown
from the one the link leads to; where a property does not compare servers, one is
enough. Operations are numbered, so they are not symmetric; servers and logouts
are, and no run that checks liveness uses symmetry. In `browser`, three servers in two
countries are one more than the limit of the table, and the listings differ in
loads, in what is under maintenance and in what is listed: every key orders them
differently, and a row can go stale in each way that the code tells apart. `Peer`
bounds the servers that others connect to; the mark in the table is either on the
line or not. In `main_screen`, a second push is what can overtake the first, and a
second port what the agent may report in between.

**Properties.** `StatusConsistent`, `BusyHasOwner`, `KeyFileRemoved`,
`SavedIsShown`, `TunnelMatches` and `DisconnectTearsDown` are invariants of the
orchestrator, `LatestRequestWins` and `TunnelIsTakenDown` action properties, and
`ImplementsTunnelView` the refinement of `TunnelView` by `status <- state`,
`shown <- ShownServer`. `TunnelView` lets DISCONNECTED come from any status, because
the code does: an operation that was cancelled settles the status when it has
unwound, over that of a newer one, and so does a certificate that cannot be renewed
while a tunnel is up. `TunnelIsTakenDown` says who may do that: the last request, or
an operation that was told to stop.
`TunnelMatches`, `OneScriptAtATime` and `DisconnectTearsDown` say in their premises
which incidents (`Orderly`: a denied kill, a crash, a swallowed cancellation) they
leave out; the runs that are violated show what those incidents do. The first two
leave out the drain as well: `asyncio.run` cancels again what has swallowed a
cancellation, and `cancel[t]` no longer tells that it was cut loose.
`WaitsAreServed` and the action property `OperationsAdvance` are about every state
and step: what somebody waits for is on its way, and an operation never comes back to
an `await` that it has left. In `App`, `MainIsSignedIn`, `FormIsUsable` and
`LogoutLostToLaterRequest` are invariants, and `ImplementsSignInView` is the
refinement of `SignInView` by `who <- Who`, `asked <- twofaPending`,
`home <- screen = "main"`.

`TableIsCurrent` compares the table, which the model computes as the code does
(sort, filter, stop at the limit), with a reference definition (`BestRows`: the
matches with fewer than `DISPLAY_LIMIT` better ones). `NobodyWaitsInVain` and the
action property `DialsUsable` are about what happens between a key and its effect;
the latter also says what the code does *not* promise:
a chosen row is looked up again, but only to see whether it is listed, so a server
that has gone into maintenance since may be dialled. `SelectorsMeanWhatTheySay`
holds `resolve` against the docstring of `resolver.py` for every list in reach.
`PanelIsCurrent` says that only a link that comes or goes in silence may be ahead
of the panel; `ReportIsTrue` that qBittorrent has the port that a push reports, even
if another is forwarded by then, unless a second push has been at work, be it a late
request of one that has failed; `ConfigIsTheUsers` that no push writes over a file.

The liveness properties are `BusySettles`, `PollersEnd`, `QuitEnds`, `LogoutEnds`,
`QuietBrowserSettles` and `PanelCatchesUp`.

**Fairness.** `TaskStep(t)` is weakly fair: the loop runs whatever is ready, a
dial of the agent is bounded by ten seconds, and API requests have time-outs.
Scripts are weakly fair: `ip` and `wg` end. Pollers look once a second. The steps
of `shutdown` and of `asyncio.run` are fair, and so is a logout's task and the
unmounting after `app.exit()`. The browser's worker is fair because requests of the
API have time-outs; its timer, its messages and its unmounting because the loop
serves them. The panel's timer ticks once a second. Nothing of a push is fair. Nobody
is assumed to answer a polkit prompt or to press a key: `BusySettles`, `QuitEnds` and
`LogoutEnds` hold under the premise `PromptsAnswered`.

## What the runs found

1. `busy_is_refused`, `connection.py:234`. `start_connect` promises to raise "if a
   task is already in flight", but looks at `_task` only. A disconnect that finds
   no link is done at once, while the connect that it cancelled still waits for
   its killed process; the next connect is accepted beside it.
2. `disconnect_is_teardown`, `wg.py:82`. A disconnect while the connect's script
   runs as root: the kill raises `PermissionError`, the script runs on, and the
   link comes up after the disconnect has returned.
3. `attach_shows_tunnel`, `connection.py:176`. Any `wg0` is taken for the saved
   server: a link that a failed script has left without a peer is shown as
   CONNECTED.
4. `shutdown_closes_agent`, `connection.py:394`. A task that is cancelled while it
   requests port forwarding leaves its client listening, and `shutdown` knows
   nothing of it.
5. `logout_drops_tunnel`, `main.py:323`. A logout pressed while a connect waits
   for its prompt sees neither a link nor a server, does not cancel the connect,
   and leaves a tunnel up for a user who is signed out.
6. `logout_is_not_lost`, `main.py:326`. A `d` after a logout cancels the
   disconnect that the logout awaits; `CancelledError` passes `except Exception`,
   and the user stays signed in.
7. `enter_takes_the_row`, `servers.py:214`. Every redraw clears the table, which takes
   the cursor to the first row, and the listener redraws on every change of the
   status, once a second while connected: Enter then connects to the first row, not
   to the one that the user has moved to.

## What is proved

The theorems hold for any set of operations, servers and logouts, under the
assumptions on the constants only: operations are natural numbers, the "none"
values are not members of their sets, and the flags are Booleans.

* `ConnectionProofs`: `TypeCorrect`, `StatusIsConsistent`, `BusyIsOwned`,
  `KeyFilesAreRemoved`, `ShownIsSaved`, `LatestRequestIsShown`, and
  `ConnectionImplementsTunnelView`, the refinement.
* `TunnelProofs`: `ShownTunnelIsUp` (`TunnelMatches`) and `DisconnectLeavesNoLink`
  (`DisconnectTearsDown`).
* `ProgressProofs`: `ScriptsTakeTurns` (`OneScriptAtATime`), `NobodyWaitsForNothing`
  (`WaitsAreServed`), `OperationsGoOneWay` (`OperationsAdvance`),
  `TunnelIsTakenDownOnRequest` (`TunnelIsTakenDown`), `TaskStepsAdvance` and
  `DrainRunsDry`.
* `AppProofs`: `AppRunsConnection` (`AppSpec => Spec`: all of the above holds of
  the whole program) and what follows from it, `ProgramKeepsTheTunnel` and
  `AppImplementsTunnelView`; `AppTypeCorrect`, `MainScreenIsSignedIn`,
  `FormStaysUsable`, `LogoutIsLostToLaterRequest`, `LogoutAwaitsSomething`, and
  `AppImplementsSignInView`, the second refinement.
* `CatalogProofs`: `VisibleIsBest`, that sorting, filtering and stopping at the limit
  leave the best matches of any finite set of rows, best first; `FastestIsBest`.
* `BrowserProofs`: `TableStaysCurrent`, `SomebodyIsWaitedFor`, `DialledIsUsable`,
  `SelectorsKeepTheirMeaning`, `BrowserTypeCorrect`.
* `MainScreenProofs`: `MainTypeCorrect`, `PanelShowsNow`, `PushTellsTheTruth`,
  `ConfigStaysTheUsers`.

The assumptions about server lists (`CatalogAssumption`) are that there are finitely
many servers, that ranks, loads, scores and tiers are natural numbers, and that no
two servers have the same name.

**The invariant of Connection.** None of the safety properties is inductive.
`BusyHasOwner`, for one, breaks if an unwinding operation and the one that
superseded it could both be "the" owner. `IInv` adds what the code relies on
without saying so:

* `KindsMatch`: where an operation is suspended tells what it is, and one that
  has not started was never cancelled;
* `OwnsTask`: up to its decisive step, an operation that is not being cancelled
  *is* `_task`, so two of them never bring the tunnel up or start to take it down
  at a time;
* `DownByTask`: while the program runs, DISCONNECTING means that the last request
  was a disconnect and that it is still at work;
* `TaskNotCancelled`, `TaskNotUnwinding`: nobody cancels `_task` and leaves it
  there but shutdown;
* `UpNotYet`: while the last request brings up its tunnel, the line is not
  CONNECTED, nor DISCONNECTING, so its success replaces no other;
* `StartedInOrder`, `ActiveStarted`, `FreshStart`: numbers follow the order of
  starting, what is shown was set by an operation that has started, and a new
  process starts empty.

`InitIInv` and `NextIInv` prove it inductive, with one lemma per group of actions.
The action property and the refinement follow from a classification of the steps,
`StatusMove`: every step leaves the status alone, settles it, tries, goes up or
goes down, and `NextMoves` proves that under `IInv` each step is one of those.

**The invariant of the tunnel.** `TInv` adds the scripts and the link to `IInv`:

* `WInv` is about operations alone: a process belongs to the operation that awaits
  it and does what that wants (`ProcsMatch`), an operation on the link that nobody
  has cancelled is `_task` (`OwnsWork`), and what was cancelled unwinds and comes to
  nothing (`TakenUnwinds`, `TaskUncancelled`, `DownNotUp`, `NoDialDown`);
* `LinkInv`: where nothing was cut loose, an authorized script of a connect is the
  only one, the link is what its commands so far have made of it (`ScriptAlone`),
  and once that connect is shown no process touches the link (`TunnelStays`);
* `DownInv`: where nothing was even cancelled, the script of a disconnect leaves no
  link, and it stays so (`TornDown`).

Most steps touch neither the link nor what is shown; `LinkFrame` proves those at
once, and leaves the commands of the scripts and the settling of a connect.

**Scripts take turns.** A script that runs can only be joined by another when a
prompt is answered. Where nothing was cut loose, whoever has a prompt open and is not
cancelled is `_task` (`OwnsWork`), and kills come before answers (`KillsDelivered`),
so no other operation has a process at all: `AuthorizedIsAlone`. Every other step
authorizes nothing and leaves no more orderly what it found (`NothingAuthorized`).

**Progress.** What liveness says beyond fairness is proved. `TaskFrame` is what a step
of a task may do: it takes its operation to a later `Stage`, touches no other, takes
back no cancellation and authorizes no script. One lemma per coroutine proves it of
the twenty-eight steps. From it follow that operations go one way and end after at
most ten steps, that the drain starts nothing and runs dry, and, with `ClosersCancel`
(`shutdown` and `asyncio.run` have cancelled what they wait for), that nobody waits
for what cannot come. `NextTakesDown` goes through the steps that change the status:
under `TInv` each belongs to `_task` or to an operation that was cancelled, and nothing
else takes it off CONNECTED. That the steps are taken is fairness, and left to TLC.

**Who uses the program.** `FormInv` is what the form relies on: nobody is signed in
behind it, half a login is always one for which the API has asked a second factor,
and from then on the form submits codes only, because `_twofa_pending` is never reset
while the program runs. With it each step is one of `SignInView` or a stutter.

**The invariant of App.** `AInv` adds that the form's worker runs behind the form
only, that a program that starts has no logout under way, and `AwaitsEarlier`: the
disconnect that a logout awaits is `_task` or earlier. With `StartedInOrder` and
`TaskNotUnwinding` of `IInv`, a disconnect that ended cancelled was superseded,
which is `LogoutLostToLaterRequest`. `AwaitedIsReal` needs no more than `TaskFrame`:
while the process lives no operation that was started is taken back.

**The invariant of the browser.** `BrowserInv` says that the rows are those of the
listing that they were built from, sorted (`RowsFollow`), and that the table is what
they, the filter and the status say unless the timer runs (`TableFollows`); one
lemma, `RedrawFollows`, serves every step that redraws. What a redraw shows is a
matter of order: `InOrderIsInOrder` proves for any finite set in a strict order that
listing it by rank lists each member once and in order, `RowsInStrictOrder` that the
four-part keys are such an order because names are unique, and `VisibleIsBest` that
stopping at the limit is the same as counting the better matches. Two more parts,
`LinesAreUsable` and `PickIsUsable`, carry what `DialsUsable` needs from the redraw
to the message in the queue.

**The invariant of the main screen.** `PushInv` is what the report of a push rests
on: while it has been alone no other request is on its way to qBittorrent, and once
it is applied qBittorrent has its port.

**Only model-checked:** the liveness properties, which are beyond the prover: fairness
and `ENABLED` are needed to conclude from the theorems on progress that operations,
shutdown and logouts do end. And the seven documented promises, each refuted by a run.

## What is not modelled, and the plan

Not modelled: command line, logging, widgets and type stubs keep no state that
outlives a call; traffic figures and `_human_bytes` are formatting, and no property
is about them. The agent's Rust extension, the Proton session, textual, polkit,
`ip` and `wg` are modelled only as the code uses them.

Some things were met that no run is about. `push_listen_port` says that it raises
`QBittorrentError` on any failure (`qbittorrent.py:76-79`), but what is neither an
`HTTPError` nor a `URLError`, such as a time-out while an answer is read, leaves it
as it is, and the user is told nothing; in the model that push just ends. Two
overlapping pushes may leave qBittorrent on the older port, and so may a request that
it serves after the push has failed. A key file that could not be written to its end
is never removed. And the status may say DISCONNECTED of a tunnel that is up, after a
late cancellation or a certificate that could not be renewed. No text promises
otherwise; the hazards in `PROJECT.json` say which property covers which part.

Left for later: `App` composed with `ServerBrowser` through the list that both use,
instead of `ListChanges`.
