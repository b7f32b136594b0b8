-------------------------------- MODULE Catalog --------------------------------
(***************************************************************************)
(* The list of servers and what is picked out of it: the rows of           *)
(* src/pvpn_tui/screens/servers.py, with their order, filter and limit,    *)
(* and the selectors of src/pvpn_tui/resolver.py.  Nothing here has state. *)
(*                                                                         *)
(* A listing is a session's ServerList: the user's tier, and the logical   *)
(* servers by id.  Texts are what the code tells apart: a needle is the    *)
(* set of servers that contain it, a name or a place its alphabetical rank.*)
(***************************************************************************)
EXTENDS Integers, SequencesExt

CONSTANTS
  Server, NoServer,      \* ids of logical servers
  Country, City, Name,   \* of each server, ranked
  Needle, NoNeedle,      \* texts in the filter, and the empty one
  Found,                 \* Found[n]: servers whose country, city or name has n
  Text,                  \* selectors other than "fastest" and "last"
  InCountry,             \* InCountry[x]: servers of the country with code x
  Named,                 \* Named[x]: the server with that name
  Identified,            \* Identified[x]: the server with that id
  Listing, NoList,       \* the server lists that the API may return
  DISPLAY_LIMIT

ASSUME CatalogAssumption ==
  /\ NoServer \notin Server
  /\ NoList \notin Listing
  /\ NoNeedle \in Needle
  /\ Text \intersect {"fastest", "last"} = {}
  /\ DISPLAY_LIMIT \in Nat \ {0}
  /\ IsFiniteSet(Server)
  /\ Country \in [Server -> Nat] /\ City \in [Server -> Nat] /\ Name \in [Server -> Nat]
  /\ \A s, t \in Server : Name[s] = Name[t] => s = t
  /\ Found \in [Needle -> SUBSET Server]
  /\ InCountry \in [Text -> SUBSET Server]
  /\ Named \in [Text -> Server \union {NoServer}]
  /\ Identified \in [Text -> Server \union {NoServer}]
  /\ \A l \in Listing : l.logicals \in [DOMAIN l.logicals ->
       [enabled : BOOLEAN, maintenance : BOOLEAN, tier : Nat, load : Nat, score : Nat]]
  /\ \A l \in Listing : DOMAIN l.logicals \subseteq Server /\ l.user_tier \in Nat

Ids(l) == DOMAIN l.logicals

Usable(l, s) ==
  /\ s \in Ids(l)
  /\ l.logicals[s].enabled /\ ~l.logicals[s].maintenance
  /\ l.logicals[s].tier <= l.user_tier

-----------------------------------------------------------------------------
(* Rows.                                                                   *)

Row == [id : Server, load : Nat, score : Nat]

\* _build_rows: a copy of what is shown of every server that can be used.
BuildRows(l) ==
  {[id |-> s, load |-> l.logicals[s].load, score |-> l.logicals[s].score] :
     s \in {x \in Ids(l) : Usable(l, x)}}

SortKeys == {"country", "load", "score"}

\* _sort_keyfn, for the keys that a binding asks for.
SortKey(r, k) ==
  CASE k = "country" -> <<Country[r.id], City[r.id], r.load, Name[r.id]>>
    [] k = "load"    -> <<r.load, r.score, Country[r.id], Name[r.id]>>
    [] k = "score"   -> <<r.score, r.load, Country[r.id], Name[r.id]>>

Before(a, b, k) ==
  LET x == SortKey(a, k)
      y == SortKey(b, k)
  IN  \E i \in 1 .. 4 : x[i] < y[i] /\ \A j \in 1 .. i - 1 : x[j] = y[j]

\* How many members of S come before x, in the order of the pairs in L.
Rank(S, L, x) == Cardinality({y \in S : <<y, x>> \in L})

InOrder(S, L) == [i \in 1 .. Cardinality(S) |-> CHOOSE x \in S : Rank(S, L, x) = i - 1]

\* list.sort.  No two rows have the same key.
Sorted(R, k) == InOrder(R, {p \in R \X R : Before(p[1], p[2], k)})

Matches(r, n) == r.id \in Found[n]

Ascending(I) == InOrder(I, {p \in I \X I : p[1] < p[2]})

\* _visible_rows: the first matches in the order of the rows.
VisibleRows(rs, n) ==
  LET M == {i \in DOMAIN rs : Matches(rs[i], n)}
      s == Ascending({i \in M : Cardinality({h \in M : h < i}) < DISPLAY_LIMIT})
  IN  [j \in DOMAIN s |-> rs[s[j]]]

\* Reference: the rows with fewer than DISPLAY_LIMIT better ones, best first.
BestRows(s, R, n, k) ==
  LET M == {r \in R : Matches(r, n)}
  IN  /\ ToSet(s) = {r \in M :
            Cardinality({q \in M : Before(q, r, k)}) < DISPLAY_LIMIT}
      /\ \A i, j \in DOMAIN s : i < j => Before(s[i], s[j], k)

-----------------------------------------------------------------------------
(* Selectors.                                                              *)

Selector == {"fastest", "last"} \union Text

\* ServerList (external): the usable server with the best score among S; the
\* lookups by id and by name take any server that is listed.
Fastest(l, S) ==
  LET U == {s \in S : Usable(l, s)}
  IN  IF U = {} THEN NoServer
      ELSE CHOOSE s \in U : \A u \in U : l.logicals[s].score <= l.logicals[u].score

Listed(l, s) == IF s \in Ids(l) THEN s ELSE NoServer

OrElse(s, t) == IF s # NoServer THEN s ELSE t

\* Mutant of Resolve: a name is tried before the country.
Resolve_NameFirst(sel, l, last) ==
  CASE sel = "fastest" -> Fastest(l, Ids(l))
    [] sel = "last" -> Listed(l, last)
    [] sel \in Text -> OrElse(Listed(l, Named[sel]),
                         OrElse(Fastest(l, InCountry[sel]), Listed(l, Identified[sel])))

\* resolve: "fastest" and "last" mean nothing else; any other text is tried as a
\* country code, a name and an id, in this order.
Resolve(sel, l, last) ==
  CASE sel = "fastest" -> Fastest(l, Ids(l))
    [] sel = "last" -> Listed(l, last)
    [] sel \in Text -> OrElse(Fastest(l, InCountry[sel]),
                         OrElse(Listed(l, Named[sel]), Listed(l, Identified[sel])))
=============================================================================
