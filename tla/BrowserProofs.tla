------------------------------ MODULE BrowserProofs ------------------------------
(***************************************************************************)
(* Proofs about module ServerBrowser, for any servers, server lists, texts *)
(* and needles.                                                            *)
(***************************************************************************)
EXTENDS ServerBrowser, CatalogProofs

USE CatalogAssumption, BrowserAssumption

-----------------------------------------------------------------------------
(* Selectors.                                                              *)

\* SelectorsMeanWhatTheySay for one server list.
LEMMA ResolveMeaning ==
  ASSUME list \in Listing
  PROVE  SelectorsMeanWhatTheySay
  <1> SUFFICES ASSUME NEW sel \in Selector, NEW last \in Server \union {NoServer}
               PROVE  LET s    == Resolve(sel, list, last)
                          Best(t, S) == Usable(list, t) /\ t \in S /\ \A u \in S :
                            Usable(list, u) =>
                              list.logicals[t].score <= list.logicals[u].score
                          None(S) == \A u \in S : ~Usable(list, u)
                      IN  CASE sel = "fastest" ->
                                 IF s = NoServer THEN None(Server) ELSE Best(s, Server)
                            [] sel = "last" ->
                                 s = IF last \in Ids(list) THEN last ELSE NoServer
                            [] OTHER ->
                                 IF ~None(InCountry[sel]) THEN Best(s, InCountry[sel])
                                 ELSE IF Named[sel] \in Ids(list) THEN s = Named[sel]
                                 ELSE IF Identified[sel] \in Ids(list)
                                 THEN s = Identified[sel]
                                 ELSE s = NoServer
    BY DEF SelectorsMeanWhatTheySay
  <1> DEFINE l == list
  <1>1. Ids(l) \subseteq Server
    BY DEF Ids
  <1>2. CASE sel = "fastest"
    <2>1. Resolve(sel, l, last) = Fastest(l, Ids(l))
      BY <1>2 DEF Resolve
    <2>2. \A u \in Server : Usable(l, u) => u \in Ids(l)
      BY DEF Usable
    <2>3. CASE \E s \in Ids(l) : Usable(l, s)
      <3>1. /\ Fastest(l, Ids(l)) \in Ids(l)
            /\ Usable(l, Fastest(l, Ids(l)))
            /\ \A u \in Ids(l) : Usable(l, u) =>
                 l.logicals[Fastest(l, Ids(l))].score <= l.logicals[u].score
        BY <1>1, <2>3, FastestIsBest
      <3> QED
        BY <1>1, <1>2, <2>1, <2>2, <3>1
    <2>4. CASE ~\E s \in Ids(l) : Usable(l, s)
      <3>1. Fastest(l, Ids(l)) = NoServer
        BY <1>1, <2>4, FastestIsBest
      <3> QED
        BY <1>2, <2>1, <2>2, <2>4, <3>1
    <2> QED
      BY <2>3, <2>4
  <1>3. CASE sel = "last"
    BY <1>3 DEF Resolve, Listed
  <1>4. CASE sel \in Text
    <2> DEFINE C == InCountry[sel]
    <2>1. C \in SUBSET Server
      BY <1>4
    <2>2. sel # "fastest" /\ sel # "last"
      BY <1>4
    <2>3. Resolve(sel, l, last) =
            OrElse(Fastest(l, C), OrElse(Listed(l, Named[sel]), Listed(l, Identified[sel])))
      BY <1>4, <2>2 DEF Resolve
    <2>4. CASE \E s \in C : Usable(l, s)
      <3>1. /\ Fastest(l, C) \in C
            /\ Usable(l, Fastest(l, C))
            /\ \A u \in C : Usable(l, u) =>
                 l.logicals[Fastest(l, C)].score <= l.logicals[u].score
        BY <2>1, <2>4, FastestIsBest
      <3>2. Resolve(sel, l, last) = Fastest(l, C)
        BY <2>1, <2>3, <3>1 DEF OrElse
      <3> QED
        BY <2>2, <2>4, <3>1, <3>2
    <2>5. CASE ~\E s \in C : Usable(l, s)
      <3>1. Fastest(l, C) = NoServer
        BY <2>1, <2>5, FastestIsBest
      <3>2. Resolve(sel, l, last) = OrElse(Listed(l, Named[sel]), Listed(l, Identified[sel]))
        BY <2>3, <3>1 DEF OrElse
      <3>3. NoServer \notin Ids(l)
        BY <1>1
      <3> QED
        BY <2>2, <2>5, <3>2, <3>3 DEF OrElse, Listed
    <2> QED
      BY <2>4, <2>5
  <1> QED
    BY <1>2, <1>3, <1>4 DEF Selector

-----------------------------------------------------------------------------
(* The browser.                                                            *)

\* The rows that a screen ought to have, from the listing that it has.
Offered(l) == IF l = NoList THEN {} ELSE BuildRows(l)

\* Every row is one of the listing, each has its row, and they are sorted.
RowsFollow ==
  /\ source \in Listing \union {NoList}
  /\ sort \in SortKeys /\ filter \in Needle
  /\ rows = Sorted(Offered(source), sort)

\* The table holds what the rows, the filter and the status say, unless the timer of
\* the filter is running.
TableFollows ==
  screen = "open" /\ ~debounce => table = Lines(VisibleRows(rows, filter), shown)

\* What the timer leaves on the screen is of the same listing.
LinesAreUsable ==
  /\ table \in Seq(Line)
  /\ \A i \in DOMAIN table : source \in Listing /\ Usable(source, table[i].id)

PickIsUsable ==
  picked # NoServer => pickedFrom \in Listing /\ Usable(pickedFrom, picked)

BrowserInv ==
  /\ BrowserTypeOK
  /\ RowsFollow
  /\ TableFollows
  /\ LinesAreUsable
  /\ PickIsUsable
  /\ NobodyWaitsInVain

Drawn == TableFollows /\ LinesAreUsable /\ NobodyWaitsInVain

LEMMA OfferedAreRows ==
  ASSUME NEW l \in Listing \union {NoList}
  PROVE  Offered(l) \in Rows /\ Offered(l) \subseteq Row
  BY BuildRowsAreRows, NoRows DEF Offered, Rows

\* Rows of a listing are usable in it.
LEMMA OfferedAreUsable ==
  ASSUME NEW l \in Listing \union {NoList}, NEW r \in Offered(l)
  PROVE  l \in Listing /\ Usable(l, r.id)
  <1>1. l \in Listing
    BY DEF Offered
  <1>2. r \in BuildRows(l)
    BY <1>1 DEF Offered
  <1>3. r.id \in {x \in Ids(l) : Usable(l, x)}
    BY <1>2 DEF BuildRows
  <1> QED
    BY <1>1, <1>3

LEMMA RowsAreTyped ==
  ASSUME NEW l \in Listing \union {NoList}, NEW k \in SortKeys
  PROVE  Sorted(Offered(l), k) \in Seq(Row) /\ ToSet(Sorted(Offered(l), k)) = Offered(l)
  <1> DEFINE rs == Sorted(Offered(l), k)
  <1>1. Offered(l) \in Rows /\ Offered(l) \subseteq Row
    BY OfferedAreRows
  <1>2. /\ rs \in Seq(Offered(l))
        /\ \A r \in Offered(l) : \E i \in DOMAIN rs : rs[i] = r
    BY <1>1, SortedIsInOrder
  <1> HIDE DEF rs
  <1>3. rs \in Seq(Row)
    BY <1>1, <1>2
  <1>4. \A i \in DOMAIN rs : rs[i] \in Offered(l)
    BY <1>2
  <1>5. ToSet(rs) = Offered(l)
    BY <1>2, <1>4 DEF ToSet
  <1> QED
    BY <1>3, <1>5 DEF rs

\* What a redraw draws.
LEMMA LinesOfRows ==
  ASSUME NEW l \in Listing \union {NoList}, NEW k \in SortKeys, NEW n \in Needle, NEW s,
         NEW v, v = VisibleRows(Sorted(Offered(l), k), n),
         NEW t, t = Lines(v, s)
  PROVE  /\ v \in Seq(Offered(l))
         /\ BestRows(v, Offered(l), n, k)
         /\ t \in Seq(Line)
         /\ \A i \in DOMAIN t : l \in Listing /\ Usable(l, t[i].id)
  <1>1. Offered(l) \in Rows /\ Offered(l) \subseteq Row
    BY OfferedAreRows
  <1>2. v \in Seq(Offered(l)) /\ BestRows(v, Offered(l), n, k)
    BY <1>1, VisibleIsBest
  <1>3. t = [i \in DOMAIN v |-> [id |-> v[i].id, load |-> v[i].load, marked |-> v[i].id = s]]
    BY DEF Lines
  <1>4. DOMAIN v = 1 .. Len(v) /\ Len(v) \in Nat /\ \A i \in DOMAIN v : v[i] \in Offered(l)
    BY <1>2
  <1>5. ASSUME NEW i \in DOMAIN v
        PROVE  /\ t[i] = [id |-> v[i].id, load |-> v[i].load, marked |-> v[i].id = s]
               /\ t[i] \in Line
               /\ Usable(l, t[i].id) /\ l \in Listing
    <2>1. t[i] = [id |-> v[i].id, load |-> v[i].load, marked |-> v[i].id = s]
      BY <1>3
    <2>2. v[i] \in Row
      BY <1>1, <1>4
    <2>3. t[i] \in Line
      BY <2>1, <2>2 DEF Row, Line
    <2>4. Usable(l, v[i].id) /\ l \in Listing
      BY <1>4, OfferedAreUsable
    <2> QED
      BY <2>1, <2>3, <2>4
  <1>6. t \in [1 .. Len(v) -> Line]
    BY <1>3, <1>4, <1>5
  <1>7. t \in Seq(Line)
    BY <1>4, <1>6, IsSequence
  <1> QED
    BY <1>2, <1>3, <1>5, <1>7

LEMMA BrowserInitInv == BrowserInit => BrowserInv
  <1> SUFFICES ASSUME BrowserInit PROVE BrowserInv
    OBVIOUS
  <1> USE DEF BrowserInit
  <1>1. sort \in SortKeys /\ Offered(source) = {}
    BY DEF SortKeys, Offered
  <1>2. RowsFollow
    BY <1>1, NoRows DEF RowsFollow
  <1>3. rows \in Seq(Row) /\ table \in Seq(Line)
    OBVIOUS
  <1>4. BrowserTypeOK
    BY <1>1, <1>3 DEF BrowserTypeOK, Messages
  <1> QED
    BY <1>2, <1>3, <1>4 DEF BrowserInv, TableFollows, LinesAreUsable, PickIsUsable,
       NobodyWaitsInVain

\* A redraw makes all that is drawn follow, whatever was drawn before.
LEMMA RedrawFollows ==
  ASSUME Redraw, RowsFollow'
  PROVE  Drawn' /\ cursor' \in Nat /\ message' \in Messages
  <1>1. /\ table' \in Seq(Line)
        /\ \A i \in DOMAIN table' : source' \in Listing /\ Usable(source', table'[i].id)
    <2>1. /\ source' \in Listing \union {NoList}
          /\ sort' \in SortKeys /\ filter' \in Needle
          /\ rows' = Sorted(Offered(source'), sort')
      BY DEF RowsFollow, Offered
    <2>2. table' = Lines(VisibleRows(Sorted(Offered(source'), sort'), filter'), shown')
      BY <2>1 DEF Redraw
    <2> QED
      BY <2>1, <2>2, LinesOfRows
  <1>2. TableFollows' /\ NobodyWaitsInVain'
    BY DEF Redraw, TableFollows, NobodyWaitsInVain
  <1>3. cursor' \in Nat /\ message' \in Messages
    BY DEF Redraw, Messages
  <1> QED
    BY <1>1, <1>2, <1>3 DEF Drawn, LinesAreUsable

LEMMA BrowserStepInv ==
  ASSUME BrowserInv, [BrowserNext]_allVars
  PROVE  BrowserInv'
  <1> USE DEF BrowserInv
  \* What leaves the table alone, and what leaves the rows alone.
  <1>1. ASSUME UNCHANGED <<shown, rows, source, filter, debounce, table>>,
               screen' = "open" => screen = "open",
               NobodyWaitsInVain'
        PROVE  Drawn'
    <2>1. Lines(VisibleRows(rows, filter), shown)' = Lines(VisibleRows(rows, filter), shown)
      BY <1>1
    <2>2. TableFollows'
      BY <1>1, <2>1 DEF TableFollows
    <2>3. LinesAreUsable'
      BY <1>1 DEF LinesAreUsable
    <2> QED
      BY <1>1, <2>2, <2>3 DEF Drawn
  <1>2. ASSUME UNCHANGED <<rows, source, sort, filter>> PROVE RowsFollow'
    BY <1>2 DEF RowsFollow
  <1>3. ASSUME UNCHANGED pickVars PROVE PickIsUsable'
    BY <1>3 DEF PickIsUsable, pickVars
  \* What draws it.
  <1>4. ASSUME NEW l \in Listing, source' = l, rows' = Sorted(BuildRows(l), sort),
               UNCHANGED <<sort, filter>>
        PROVE  RowsFollow' /\ rows' \in Seq(Row)
    <2>1. Offered(l) = BuildRows(l) /\ sort \in SortKeys
      BY DEF Offered, RowsFollow
    <2> QED
      BY <1>4, <2>1, RowsAreTyped DEF RowsFollow, Offered
  <1>5. ASSUME Redraw, RowsFollow', rows' \in Seq(Row), list' \in Listing \union {NoList},
               screen' = screen, debounce' \in BOOLEAN, focus' \in {"filter", "table"},
               worker' \in {worker, "none"}, UNCHANGED pickVars,
               aimed' \in {aimed, NoServer}
        PROVE  BrowserInv'
    <2>1. Drawn' /\ cursor' \in Nat /\ message' \in Messages
      BY <1>5, RedrawFollows
    <2>2. sort' \in SortKeys /\ filter' \in Needle
      BY <1>5 DEF RowsFollow
    <2>3. table' \in Seq(Line)
      BY <2>1 DEF Drawn, LinesAreUsable
    <2>4. BrowserTypeOK'
      BY <1>5, <2>1, <2>2, <2>3 DEF BrowserTypeOK, pickVars
    <2> QED
      BY <1>3, <1>5, <2>1, <2>4 DEF Drawn
  <1>6. CASE Emit
    <2>1. UNCHANGED <<list, screen, rows, source, sort, filter, debounce, focus, worker,
                      pickVars>>
      BY <1>6 DEF Emit, listVars
    <2>2. CASE Redraw /\ UNCHANGED aimed
      BY <1>2, <1>5, <2>1, <2>2 DEF BrowserTypeOK
    <2>3. CASE screen # "open" /\ UNCHANGED <<tableVars, message>>
      <3>1. Drawn'
        BY <2>1, <2>3 DEF Drawn, TableFollows, LinesAreUsable, NobodyWaitsInVain,
           tableVars
      <3>2. BrowserTypeOK'
        BY <2>1, <2>3 DEF BrowserTypeOK, tableVars, pickVars
      <3> QED
        BY <1>2, <1>3, <2>1, <3>1, <3>2 DEF Drawn
    <2> QED
      BY <1>6, <2>2, <2>3 DEF Emit
  <1>7. CASE ListChanges
    <2>1. Drawn'
      BY <1>1, <1>7 DEF ListChanges, browserVars, view, listVars, tableVars,
         NobodyWaitsInVain
    <2>2. BrowserTypeOK'
      BY <1>7 DEF ListChanges, browserVars, listVars, tableVars, pickVars, BrowserTypeOK
    <2> QED
      BY <1>2, <1>3, <1>7, <2>1, <2>2 DEF Drawn, ListChanges, browserVars, listVars
  <1>8. CASE OpenBrowser \/ Unmount
    <2>1. /\ list' = list /\ screen' \in {"open", "closed"}
          /\ worker' \in {"load_new", "none"}
          /\ screen' = "open" => worker' = "load_new"
          /\ rows' = <<>> /\ source' = NoList /\ sort' = "country"
          /\ filter' = NoNeedle /\ debounce' = FALSE
          /\ table' = <<>> /\ cursor' = 1 /\ aimed' = NoServer
          /\ focus' = "filter" /\ message' = "waiting"
          /\ picked' = NoServer /\ pickedFrom' = NoList
      BY <1>8 DEF OpenBrowser, Unmount, Blank
    <2>2. sort' \in SortKeys /\ Offered(source') = {} /\ <<>> = Sorted({}, sort')
      BY <2>1, NoRows DEF SortKeys, Offered
    <2>3. RowsFollow'
      BY <2>1, <2>2 DEF RowsFollow, Offered
    <2>4. Lines(VisibleRows(<<>>, NoNeedle), shown') = <<>>
      BY NoRows DEF Lines
    <2>5. Drawn'
      BY <2>1, <2>4 DEF Drawn, TableFollows, LinesAreUsable, NobodyWaitsInVain
    <2>6. rows' \in Seq(Row) /\ table' \in Seq(Line)
      BY <2>1
    <2>7. BrowserTypeOK'
      BY <2>1, <2>2, <2>6 DEF BrowserTypeOK, Messages
    <2> QED
      BY <2>1, <2>3, <2>5, <2>7 DEF Drawn, PickIsUsable
  <1>9. CASE LoadFromSession \/ LoadEnds \/ RefreshEnds
    <2>1. PICK l \in Listing : list' = l /\ NewRows(l)
      BY <1>9 DEF LoadFromSession, LoadEnds, RefreshEnds, ShowRows, Reloaded, BrowserTypeOK
    <2>2. /\ Redraw /\ aimed' = NoServer /\ worker' = "none" /\ focus' \in {focus, "filter"}
          /\ UNCHANGED <<filter, debounce, screen, pickVars>>
      BY <1>9 DEF LoadFromSession, LoadEnds, RefreshEnds, ShowRows
    <2>3. RowsFollow' /\ rows' \in Seq(Row)
      BY <1>4, <2>1, <2>2 DEF NewRows
    <2> QED
      BY <1>5, <2>1, <2>2, <2>3 DEF BrowserTypeOK
  <1>10. ASSUME NEW k \in SortKeys, PressSort(k) PROVE BrowserInv'
    <2>1. ToSet(rows) = Offered(source) /\ source \in Listing \union {NoList}
      BY RowsAreTyped DEF RowsFollow
    <2>2. /\ Redraw /\ aimed' = NoServer /\ sort' = k /\ rows' = Sorted(Offered(source), k)
          /\ UNCHANGED <<list, screen, source, filter, debounce, focus, worker, pickVars>>
      BY <1>10, <2>1 DEF PressSort
    <2>3. rows' \in Seq(Row)
      BY <2>1, <2>2, RowsAreTyped
    <2>4. RowsFollow'
      BY <2>1, <2>2 DEF RowsFollow
    <2> QED
      BY <1>5, <2>2, <2>3, <2>4 DEF BrowserTypeOK
  <1>11. CASE DebounceFires \/ SubmitFilter \/ RefreshFindsNothing
    <2>1. /\ Redraw /\ aimed' = NoServer
          /\ debounce' \in BOOLEAN /\ focus' \in {focus, "table"}
          /\ worker' \in {worker, "none"}
          /\ UNCHANGED <<list, screen, rows, source, sort, filter, pickVars>>
      BY <1>11 DEF DebounceFires, SubmitFilter, RefreshFindsNothing, listVars, BrowserTypeOK
    <2> QED
      BY <1>2, <1>5, <2>1 DEF BrowserTypeOK
  <1>12. ASSUME NEW n \in Needle, Type(n) PROVE BrowserInv'
    <2>1. /\ filter' = n /\ debounce' = TRUE
          /\ UNCHANGED <<list, screen, rows, source, sort, table, cursor, aimed, focus,
                         worker, message, pickVars>>
      BY <1>12 DEF Type, listVars, tableVars
    <2>2. Drawn'
      BY <2>1 DEF Drawn, TableFollows, LinesAreUsable, NobodyWaitsInVain
    <2>3. RowsFollow'
      BY <2>1 DEF RowsFollow
    <2>4. BrowserTypeOK'
      BY <2>1 DEF BrowserTypeOK, pickVars
    <2> QED
      BY <1>3, <2>1, <2>2, <2>3, <2>4 DEF Drawn
  <1>13. ASSUME NEW i \in DOMAIN table, MoveCursor(i) PROVE BrowserInv'
    <2>1. /\ cursor' = i /\ aimed' = table[i].id
          /\ UNCHANGED <<shown, list, screen, rows, source, sort, filter, debounce, table,
                         focus, worker, message, pickVars>>
      BY <1>13 DEF MoveCursor, view, listVars
    <2>2. Lines(VisibleRows(rows, filter), shown)' = Lines(VisibleRows(rows, filter), shown)
      BY <2>1
    <2>3. Drawn'
      BY <2>1, <2>2 DEF Drawn, TableFollows, LinesAreUsable, NobodyWaitsInVain
    <2>4. cursor' \in Nat /\ aimed' \in Server
      <3>1. table[i] \in Line /\ i \in Nat
        BY DEF BrowserTypeOK
      <3> QED
        BY <2>1, <3>1 DEF Line
    <2>5. BrowserTypeOK'
      BY <2>1, <2>4 DEF BrowserTypeOK, pickVars
    <2> QED
      BY <1>2, <1>3, <2>1, <2>3, <2>5 DEF Drawn
  <1>14. CASE LoadCallsApi \/ RefreshCallsApi \/ ApiFails \/ PressRefresh
    <2>1. NobodyWaitsInVain'
      BY <1>14 DEF LoadCallsApi, RefreshCallsApi, ApiFails, PressRefresh, NobodyWaitsInVain
    <2>2. UNCHANGED <<shown, list, screen, rows, source, sort, filter, debounce, table,
                      cursor, aimed, focus, pickVars>>
      BY <1>14 DEF LoadCallsApi, RefreshCallsApi, ApiFails, PressRefresh, view, listVars,
         tableVars
    <2>3. /\ worker' \in {"none", "load_wait", "refresh_new", "refresh_wait"}
          /\ message' \in {message, "waiting", "report"}
      BY <1>14 DEF LoadCallsApi, RefreshCallsApi, ApiFails, PressRefresh
    <2>4. BrowserTypeOK'
      BY <2>2, <2>3 DEF BrowserTypeOK, pickVars, Messages
    <2> QED
      BY <1>1, <1>2, <1>3, <2>1, <2>2, <2>4 DEF Drawn
  <1>15. CASE FocusFilter \/ PressEscape \/ UNCHANGED allVars
    <2>1. /\ UNCHANGED <<shown, list, rows, source, sort, filter, debounce, table,
                         cursor, worker, message, pickVars>>
          /\ aimed' \in {aimed, NoServer}
          /\ screen' \in {screen, "leaving"} /\ focus' \in {focus, "filter", "table"}
      BY <1>15 DEF FocusFilter, PressEscape, allVars, browserVars, view, listVars, tableVars
    <2>2. NobodyWaitsInVain'
      BY <2>1 DEF NobodyWaitsInVain
    <2>3. BrowserTypeOK'
      BY <2>1 DEF BrowserTypeOK, pickVars
    <2> QED
      BY <1>1, <1>2, <1>3, <2>1, <2>2, <2>3 DEF Drawn
  <1>16. CASE PressEnter \/ PickStep
    <2>1. /\ UNCHANGED <<shown, list, rows, source, sort, filter, debounce, table,
                         cursor, focus, worker>>
          /\ aimed' \in {aimed, NoServer}
          /\ screen' \in {screen, "leaving"} /\ message' \in {message, "report"}
      BY <1>16 DEF PressEnter, PickStep, DialPicked, RefusePicked, IgnorePicked, view,
         listVars, tableVars
    <2>2. NobodyWaitsInVain'
      BY <2>1 DEF NobodyWaitsInVain
    <2>3. \/ /\ picked' \in Server /\ pickedFrom' \in Listing
             /\ Usable(pickedFrom', picked')
          \/ picked' = NoServer
      <3>1. CASE PressEnter
        <4>1. cursor \in DOMAIN table /\ picked' = table[cursor].id /\ pickedFrom' = source
          BY <3>1 DEF PressEnter
        <4>2. source \in Listing /\ Usable(source, table[cursor].id)
          BY <4>1 DEF LinesAreUsable
        <4>3. table[cursor] \in Line
          BY <4>1 DEF LinesAreUsable
        <4> QED
          BY <4>1, <4>2, <4>3 DEF Line
      <3>2. CASE PickStep
        BY <3>2 DEF PickStep, DialPicked, RefusePicked, IgnorePicked, Handled
      <3> QED
        BY <1>16, <3>1, <3>2
    <2>4. BrowserTypeOK'
      BY <2>1, <2>3 DEF BrowserTypeOK, Messages
    <2>5. PickIsUsable'
      BY <2>3 DEF PickIsUsable
    <2> QED
      BY <1>1, <1>2, <2>1, <2>2, <2>4, <2>5 DEF Drawn
  <1> QED
    BY <1>6, <1>7, <1>8, <1>9, <1>10, <1>11, <1>12, <1>13, <1>14, <1>15, <1>16
       DEF BrowserNext, BrowserStep, WorkerStep, Key

-----------------------------------------------------------------------------
(* What follows from the invariant.                                        *)

LEMMA InvShowsBest ==
  ASSUME BrowserInv
  PROVE  TableIsCurrent
  <1> SUFFICES ASSUME screen = "open", ~debounce
               PROVE  LET R == IF source = NoList THEN {} ELSE BuildRows(source)
                          s == [i \in DOMAIN table |->
                                  CHOOSE r \in R : r.id = table[i].id]
                      IN  /\ \A i \in DOMAIN table : \E r \in R : table[i] =
                               [id |-> r.id, load |-> r.load, marked |-> r.id = shown]
                          /\ BestRows(s, R, filter, sort)
    BY DEF TableIsCurrent
  <1> DEFINE R == Offered(source)
             s == [i \in DOMAIN table |-> CHOOSE r \in R : r.id = table[i].id]
             v == VisibleRows(rows, filter)
  <1>1. /\ source \in Listing \union {NoList} /\ sort \in SortKeys /\ filter \in Needle
        /\ rows = Sorted(Offered(source), sort)
        /\ table = Lines(v, shown)
    BY DEF BrowserInv, RowsFollow, TableFollows
  <1>2. v \in Seq(R) /\ BestRows(v, R, filter, sort)
    BY <1>1, LinesOfRows
  <1>3. R \in Rows
    BY <1>1, OfferedAreRows
  <1>4. table = [i \in DOMAIN v |-> [id |-> v[i].id, load |-> v[i].load,
                                     marked |-> v[i].id = shown]]
    BY <1>1 DEF Lines
  <1> HIDE DEF R, v
  <1>5. DOMAIN table = DOMAIN v
    BY <1>4
  <1>6. \A i \in DOMAIN v : v[i] \in R
    BY <1>2
  <1>7. \A i \in DOMAIN table : \E r \in R : table[i] =
          [id |-> r.id, load |-> r.load, marked |-> r.id = shown]
    BY <1>4, <1>5, <1>6
  <1>8. ASSUME NEW i \in DOMAIN v
        PROVE  (CHOOSE r \in R : r.id = table[i].id) = v[i]
    <2>1. v[i] \in R /\ v[i].id = table[i].id
      BY <1>4, <1>6
    <2>2. \A r \in R : r.id = table[i].id => r = v[i]
      BY <1>3, <2>1 DEF Rows
    <2> QED
      BY <2>1, <2>2
  <1>9. s = [i \in DOMAIN v |-> v[i]]
    BY <1>5, <1>8
  <1>10. s = v
    BY <1>2, <1>9
  <1> QED
    BY <1>2, <1>7, <1>10 DEF R, Offered

LEMMA StepDialsUsable ==
  ASSUME BrowserInv, DialPicked
  PROVE  picked \in Ids(list) /\ (Usable(list, picked) \/ list # pickedFrom)
  BY DEF BrowserInv, PickIsUsable, DialPicked

-----------------------------------------------------------------------------
(* Theorems.                                                               *)

THEOREM BrowserInvariant == BrowserSpec => []BrowserInv
  BY BrowserInitInv, BrowserStepInv, PTL DEF BrowserSpec

\* The variables of the browser keep their types.
THEOREM BrowserTypeCorrect == BrowserSpec => []BrowserTypeOK
  BY BrowserInvariant, PTL DEF BrowserInv

\* Whatever order fetches, keys, timers and the orchestrator come in, a table whose
\* filter has settled holds the best matches of the listing, in the order asked for.
THEOREM TableStaysCurrent == BrowserSpec => []TableIsCurrent
  BY BrowserInvariant, InvShowsBest, PTL

\* No end of a load, and no cancelled one, leaves a status bar that waits for it.
THEOREM SomebodyIsWaitedFor == BrowserSpec => []NobodyWaitsInVain
  BY BrowserInvariant, PTL DEF BrowserInv

\* A server that is dialled can be used, unless the list was fetched anew meanwhile.
THEOREM DialledIsUsable == BrowserSpec => DialsUsable
  <1>1. BrowserInv => [DialPicked => /\ picked \in Ids(list)
                                     /\ Usable(list, picked) \/ list # pickedFrom]_allVars
    BY StepDialsUsable
  <1> QED
    BY BrowserInvariant, <1>1, PTL DEF DialsUsable

\* Selectors mean what resolver.py says for every list that the session ever has.
THEOREM SelectorsKeepTheirMeaning == BrowserSpec => []SelectorsMeanWhatTheySay
  <1>1. BrowserInv => SelectorsMeanWhatTheySay
    BY ResolveMeaning DEF BrowserInv, BrowserTypeOK, SelectorsMeanWhatTheySay
  <1> QED
    BY BrowserInvariant, <1>1, PTL
=============================================================================
