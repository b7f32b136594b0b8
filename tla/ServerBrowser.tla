----------------------------- MODULE ServerBrowser -----------------------------
(***************************************************************************)
(* src/pvpn_tui/screens/servers.py: the screen on which a server is chosen.*)
(*                                                                         *)
(* It subscribes to the orchestrator, which it sees as module TunnelView   *)
(* promises, and reads a server list that others fetch as well.  Between   *)
(* a key and its effect there may be a timer (the filter), a message in a  *)
(* queue (Enter on a row) or a worker that awaits the API; a new worker    *)
(* cancels the one before it.                                              *)
(***************************************************************************)
EXTENDS Catalog

CONSTANT Peer   \* bound: the servers that a tunnel may come up with

ASSUME BrowserAssumption == Peer \subseteq Server

VARIABLES
  status, shown,   \* the orchestrator, as its subscribers see it
  list,            \* auth.server_list
  screen,          \* "closed", "open", or "leaving": dismissed, not unmounted yet
  rows,            \* _rows
  sort,            \* _sort
  filter,          \* _filter
  debounce,        \* is the timer of the filter running?
  table,           \* the lines of the DataTable
  cursor,          \* the line under its cursor (external: textual)
  focus,           \* "filter" or "table"
  worker,          \* the exclusive worker of the group "servers"
  message,         \* what the status bar says
  picked,          \* the row key of a RowSelected message in the queue
  \* History, which no guard reads:
  source,          \* the listing that rows were built from
  pickedFrom,      \* the same when picked was
  aimed            \* the row that the user has moved the cursor to, if he has since
                   \*   neither chosen it, nor left the table, nor had it drawn anew

view        == <<status, shown>>
listVars    == <<rows, source, sort>>
tableVars   == <<table, cursor, aimed>>
pickVars    == <<picked, pickedFrom>>
browserVars == <<screen, listVars, filter, debounce, tableVars, focus, worker,
                 message, pickVars>>
allVars     == <<view, list, browserVars>>

INSTANCE TunnelView WITH Server <- Peer

Line == [id : Server, load : Nat, marked : BOOLEAN]

\* The status bar says that the screen waits for the API, or reports something.
Messages == {"waiting", "report"}

BrowserTypeOK ==
  /\ list \in Listing \union {NoList}
  /\ screen \in {"closed", "open", "leaving"}
  /\ rows \in Seq(Row)
  /\ sort \in SortKeys
  /\ filter \in Needle
  /\ debounce \in BOOLEAN
  /\ table \in Seq(Line)
  /\ cursor \in Nat
  /\ focus \in {"filter", "table"}
  /\ worker \in {"none", "load_new", "load_wait", "refresh_new", "refresh_wait"}
  /\ message \in Messages
  /\ picked \in Server \union {NoServer}
  /\ aimed \in Server \union {NoServer}

\* A screen that is made for each key s on the main screen.
Blank(w) ==
  /\ rows' = <<>> /\ source' = NoList /\ sort' = "country"
  /\ filter' = NoNeedle /\ debounce' = FALSE
  /\ table' = <<>> /\ cursor' = 1 /\ aimed' = NoServer
  /\ focus' = "filter"
  /\ worker' = w
  /\ message' = "waiting"
  /\ picked' = NoServer /\ pickedFrom' = NoList

BrowserInit ==
  /\ ViewInit
  /\ list \in Listing \union {NoList}
  /\ screen = "closed"
  /\ rows = <<>> /\ source = NoList /\ sort = "country"
  /\ filter = NoNeedle /\ debounce = FALSE
  /\ table = <<>> /\ cursor = 1 /\ aimed = NoServer
  /\ focus = "filter"
  /\ worker = "none"
  /\ message = "waiting"
  /\ picked = NoServer /\ pickedFrom = NoList

-----------------------------------------------------------------------------
(* What is drawn.                                                          *)

Lines(v, s) ==
  [i \in DOMAIN v |-> [id |-> v[i].id, load |-> v[i].load, marked |-> v[i].id = s]]

\* _redraw_table.  DataTable.clear takes the cursor to the first line.
Redraw ==
  /\ table' = Lines(VisibleRows(rows', filter'), shown')
  /\ cursor' = 1
  /\ message' = "report"

NewRows(l) ==
  /\ source' = l
  /\ UNCHANGED sort
  /\ rows' = Sorted(BuildRows(l), sort)

-----------------------------------------------------------------------------
(* The orchestrator and the session.                                       *)

\* Every change of the status, and the poller once a second, calls the listener;
\* a screen that is being removed has no table any more, and the exception is
\* caught and logged.
Emit ==
  /\ ViewNext \/ UNCHANGED view
  /\ UNCHANGED <<list, screen, listVars, filter, debounce, focus, worker, pickVars>>
  /\ \/ screen # "closed" /\ Redraw /\ UNCHANGED aimed
     \/ screen # "open" /\ UNCHANGED <<tableVars, message>>

\* A connect that renews its certificate, a quick connect or a logout replaces
\* the list, and tells nobody.
ListChanges ==
  /\ list' \in (Listing \union {NoList}) \ {list}
  /\ UNCHANGED <<view, browserVars>>

-----------------------------------------------------------------------------
(* The screen and its worker.                                              *)

OpenBrowser ==
  /\ screen = "closed"
  /\ screen' = "open"
  /\ Blank("load_new")
  /\ UNCHANGED <<view, list>>

\* The end of _load: rows, and the filter takes the focus.
ShowRows(l) ==
  /\ worker' = "none"
  /\ focus' = "filter"
  /\ UNCHANGED <<filter, debounce, screen, pickVars, view>>
  /\ NewRows(l)
  /\ Redraw /\ aimed' = NoServer

LoadFromSession ==
  /\ worker = "load_new"
  /\ list # NoList
  /\ UNCHANGED list
  /\ ShowRows(list)

LoadCallsApi ==
  /\ worker = "load_new"
  /\ list = NoList
  /\ worker' = "load_wait"
  /\ message' = "waiting"
  /\ UNCHANGED <<view, list, screen, listVars, filter, debounce, tableVars, focus,
                 pickVars>>

LoadEnds ==
  /\ worker = "load_wait"
  /\ list' \in Listing
  /\ ShowRows(list')

\* update_server_loads (external) pulls the loads of the servers that are listed.
Reloaded(l) == {m \in Listing : Ids(m) = Ids(l)}

\* Mutant of RefreshEnds: rows come back in the order of a new screen.
RefreshEnds_CountryOrder ==
  /\ worker = "refresh_wait"
  /\ list # NoList
  /\ list' \in Reloaded(list)
  /\ worker' = "none"
  /\ rows' = Sorted(BuildRows(list'), "country")
  /\ source' = list'
  /\ UNCHANGED <<sort, view, screen, filter, debounce, focus, pickVars>>
  /\ Redraw /\ aimed' = NoServer

\* There has to be a list whose loads can be refreshed.
RefreshEnds ==
  /\ worker = "refresh_wait"
  /\ list # NoList
  /\ list' \in Reloaded(list)
  /\ worker' = "none"
  /\ UNCHANGED <<view, screen, filter, debounce, focus, pickVars>>
  /\ NewRows(list')
  /\ Redraw /\ aimed' = NoServer

\* The session has lost its list during the await: the old rows are drawn again.
RefreshFindsNothing ==
  /\ worker = "refresh_wait"
  /\ list = NoList
  /\ worker' = "none"
  /\ UNCHANGED <<view, list, screen, listVars, filter, debounce, focus, pickVars>>
  /\ Redraw /\ aimed' = NoServer

RefreshCallsApi ==
  /\ worker = "refresh_new"
  /\ worker' = "refresh_wait"
  /\ message' = "waiting"
  /\ UNCHANGED <<view, list, screen, listVars, filter, debounce, tableVars, focus,
                 pickVars>>

\* Mutant of ApiFails: the exception is logged only.
ApiFails_Silent ==
  /\ worker \in {"load_wait", "refresh_wait"}
  /\ worker' = "none"
  /\ UNCHANGED <<view, list, screen, listVars, filter, debounce, tableVars, focus,
                 message, pickVars>>

ApiFails ==
  /\ worker \in {"load_wait", "refresh_wait"}
  /\ worker' = "none"
  /\ message' = "report"
  /\ UNCHANGED <<view, list, screen, listVars, filter, debounce, tableVars, focus,
                 pickVars>>

WorkerStep ==
  \/ LoadCallsApi \/ RefreshCallsApi \/ ApiFails
  \/ LoadEnds \/ RefreshEnds \/ RefreshFindsNothing \/ LoadFromSession

-----------------------------------------------------------------------------
(* Keys.                                                                   *)

PressRefresh ==
  /\ screen = "open" /\ focus = "table"
  /\ worker' = "refresh_new"
  /\ UNCHANGED <<view, list, screen, listVars, filter, debounce, tableVars, focus,
                 message, pickVars>>

PressSort(k) ==
  /\ screen = "open" /\ focus = "table"
  /\ k # sort
  /\ sort' = k
  /\ UNCHANGED <<view, list, screen, source, filter, debounce, focus, worker, pickVars>>
  /\ rows' = Sorted(ToSet(rows), k)
  /\ Redraw /\ aimed' = NoServer

\* Each change of the filter starts its timer anew.
Type(n) ==
  /\ screen = "open" /\ focus = "filter"
  /\ n # filter
  /\ filter' = n
  /\ debounce' = TRUE
  /\ UNCHANGED <<view, list, screen, listVars, tableVars, focus, worker, message,
                 pickVars>>

\* Mutant of DebounceFires: the timer is dropped once the filter has lost the focus.
DebounceFires_Focused ==
  /\ screen = "open" /\ debounce /\ focus = "filter"
  /\ debounce' = FALSE
  /\ UNCHANGED <<view, list, screen, listVars, filter, focus, worker, pickVars>>
  /\ Redraw /\ aimed' = NoServer

DebounceFires ==
  /\ screen = "open" /\ debounce
  /\ debounce' = FALSE
  /\ UNCHANGED <<view, list, screen, listVars, filter, focus, worker, pickVars>>
  /\ Redraw /\ aimed' = NoServer

SubmitFilter ==
  /\ screen = "open" /\ focus = "filter"
  /\ debounce' = FALSE
  /\ focus' = "table"
  /\ UNCHANGED <<view, list, screen, listVars, filter, worker, pickVars>>
  /\ Redraw /\ aimed' = NoServer

FocusFilter ==
  /\ screen = "open" /\ focus = "table"
  /\ focus' = "filter" /\ aimed' = NoServer
  /\ UNCHANGED <<view, list, screen, listVars, filter, debounce, table, cursor, worker,
                 message, pickVars>>

MoveCursor(i) ==
  /\ screen = "open" /\ focus = "table"
  /\ i \in DOMAIN table \ {cursor}
  /\ cursor' = i
  /\ aimed' = table[i].id
  /\ UNCHANGED <<view, list, screen, listVars, filter, debounce, table, focus,
                 worker, message, pickVars>>

\* Mutant of PressEnter: the message carries the line instead of the key.
PressEnter_Line ==
  /\ screen = "open" /\ focus = "table"
  /\ picked = NoServer
  /\ cursor \in DOMAIN table
  /\ picked' = cursor
  /\ pickedFrom' = source
  /\ UNCHANGED <<view, list, screen, listVars, filter, debounce, tableVars, focus,
                 worker, message>>

\* Enter on a row posts a RowSelected message with its key.
PressEnter ==
  /\ screen = "open" /\ focus = "table"
  /\ picked = NoServer
  /\ cursor \in DOMAIN table
  /\ picked' = table[cursor].id
  /\ pickedFrom' = source
  /\ aimed' = NoServer
  /\ UNCHANGED <<view, list, screen, listVars, filter, debounce, table, cursor, focus,
                 worker, message>>

PressEscape ==
  /\ screen = "open"
  /\ \/ focus = "filter" /\ focus' = "table" /\ UNCHANGED screen
     \/ focus = "table" /\ screen' = "leaving" /\ UNCHANGED focus
  /\ aimed' = NoServer
  /\ UNCHANGED <<view, list, listVars, filter, debounce, table, cursor, worker, message,
                 pickVars>>

\* on_unmount unsubscribes; timer, worker and messages go with the screen.
Unmount ==
  /\ screen = "leaving"
  /\ screen' = "closed"
  /\ Blank("none")
  /\ UNCHANGED <<view, list>>

-----------------------------------------------------------------------------
(* on_data_table_row_selected.                                             *)

Handled == picked' = NoServer /\ pickedFrom' = NoList

\* Mutant of DialPicked: a row that is on the screen need not be looked up.
DialPicked_NoLookup ==
  /\ screen # "closed" /\ picked # NoServer
  /\ list # NoList
  /\ Handled
  /\ screen' = "leaving"
  /\ UNCHANGED <<view, list, listVars, filter, debounce, tableVars, focus, worker,
                 message>>

\* start_connect accepts: the screen is dismissed.
DialPicked ==
  /\ screen # "closed" /\ picked # NoServer
  /\ list # NoList
  /\ picked \in Ids(list)
  /\ Handled
  /\ screen' = "leaving"
  /\ UNCHANGED <<view, list, listVars, filter, debounce, tableVars, focus, worker,
                 message>>

\* It is not listed any more, or the orchestrator is busy.
RefusePicked ==
  /\ screen # "closed" /\ picked # NoServer
  /\ list # NoList
  /\ Handled
  /\ message' = "report"
  /\ UNCHANGED <<view, list, screen, listVars, filter, debounce, tableVars, focus,
                 worker>>

IgnorePicked ==
  /\ screen # "closed" /\ picked # NoServer
  /\ list = NoList
  /\ Handled
  /\ UNCHANGED <<view, list, screen, listVars, filter, debounce, tableVars, focus,
                 worker, message>>

-----------------------------------------------------------------------------
PickStep == DialPicked \/ RefusePicked \/ IgnorePicked

BrowserStep == WorkerStep \/ DebounceFires \/ PickStep \/ Unmount

Key ==
  \/ OpenBrowser \/ PressRefresh \/ SubmitFilter \/ FocusFilter
  \/ PressEnter \/ PressEscape
  \/ \E k \in SortKeys : PressSort(k)
  \/ \E n \in Needle : Type(n)
  \/ \E i \in DOMAIN table : MoveCursor(i)

BrowserNext == Emit \/ ListChanges \/ BrowserStep \/ Key

BrowserSpec == BrowserInit /\ [][BrowserNext]_allVars

\* Requests of the API library have time-outs; timers and messages are served.
BrowserFairness ==
  /\ WF_allVars(WorkerStep)
  /\ WF_allVars(PickStep \/ Unmount \/ DebounceFires)

BrowserFairSpec == BrowserSpec /\ BrowserFairness

-----------------------------------------------------------------------------
(* Properties.                                                             *)

\* Whatever is fetched, typed, sorted and connected in whatever order, the table
\* holds the best matches of the listing that the browser has, in the order asked
\* for, and highlights the server that is shown as active; the filter alone may
\* be ahead of it, while its timer runs (_redraw_table and all who call it).
TableIsCurrent ==
  screen = "open" /\ ~debounce =>
    LET R == IF source = NoList THEN {} ELSE BuildRows(source)
        s == [i \in DOMAIN table |-> CHOOSE r \in R : r.id = table[i].id]
    IN  /\ \A i \in DOMAIN table : \E r \in R :
             table[i] = [id |-> r.id, load |-> r.load, marked |-> r.id = shown]
        /\ BestRows(s, R, filter, sort)

\* The browser never waits for nobody: however a load ends, and though r cancels
\* it, a status bar that says "Fetching" or "Refreshing" has a worker behind it.
NobodyWaitsInVain ==
  screen = "open" /\ message = "waiting" => worker # "none"

\* A server that is dialled from the browser can be used, unless the list has
\* been fetched anew since its row was built: the row is looked up again, but
\* only to see whether it is listed (on_data_table_row_selected).
DialsUsable ==
  [][DialPicked => /\ picked \in Ids(list)
                   /\ (Usable(list, picked) \/ list # pickedFrom)]_allVars

\* What a selector means, for any server list and any saved server: "fastest" is
\* the best usable server and "last" the saved one or nothing; a country code with
\* a usable server never leads out of the country, a name comes before an id, and
\* what is listed under some reading is found (the module docstring of resolver.py).
SelectorsMeanWhatTheySay ==
  list # NoList =>
    \A sel \in Selector, last \in Server \union {NoServer} :
      LET s    == Resolve(sel, list, last)
          Best(t, S) == Usable(list, t) /\ t \in S /\ \A u \in S :
            Usable(list, u) => list.logicals[t].score <= list.logicals[u].score
          None(S) == \A u \in S : ~Usable(list, u)
      IN  CASE sel = "fastest" -> IF s = NoServer THEN None(Server) ELSE Best(s, Server)
            [] sel = "last" -> s = IF last \in Ids(list) THEN last ELSE NoServer
            [] OTHER ->
                 IF ~None(InCountry[sel]) THEN Best(s, InCountry[sel])
                 ELSE IF Named[sel] \in Ids(list) THEN s = Named[sel]
                 ELSE IF Identified[sel] \in Ids(list) THEN s = Identified[sel]
                 ELSE s = NoServer

-----------------------------------------------------------------------------
(* Liveness, under BrowserFairSpec.                                        *)

\* Once the user lets go of the keys, nothing stays half done: no API call keeps
\* the status bar waiting, the table comes to show the filter, a row that was chosen
\* is dealt with, and a screen that was dismissed goes.
QuietBrowserSettles ==
  <>[][~Key]_allVars =>
    <>[](/\ screen # "leaving" /\ picked = NoServer
         /\ screen = "open" => message = "report" /\ ~debounce)

-----------------------------------------------------------------------------
(* What the documentation promises, and the code does not keep.            *)

\* README: "Enter (on a row): connect to that server".  Enter chooses the row that
\* the user has moved the cursor to, if no key of his has had the table drawn anew
\* since (on_data_table_row_selected, after a call of the listener).
EnterTakesTheRow ==
  [][PressEnter => aimed = NoServer \/ picked' = aimed]_allVars
=============================================================================
