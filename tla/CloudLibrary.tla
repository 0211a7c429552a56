---------------------------- MODULE CloudLibrary ----------------------------
(***************************************************************************)
(* The game lists of the cloud tabs (cloudcatalog.cpp) and the view that   *)
(* shows them (the CloudGameList of cloud_game_list.cpp). All of it runs   *)
(* in the main thread, with inputs blocked. The PS5 list is built from the *)
(* entitlements of the account, read page by page; the PS3 and PS4 lists   *)
(* are the two halves of the PSNOW catalogue, read category by category.   *)
(* Lists are kept in files for a day, for any account.                     *)
(* A product id is a number: id % 10 is its title, 10 and above are the    *)
(* ids that the public catalogue uses for it, odd titles are PS4's.        *)
(***************************************************************************)
EXTENDS Integers, SequencesExt

CONSTANTS
  PageSize,   \* 300 in the code
  MaxLoads    \* bound: lists opened

VARIABLE cl   \* the account, the cache files, the list being loaded and the one shown

Files == {"psnow", "ps5cloud", "ps5owned"}
Missing == [is |-> "missing", by |-> 0, games |-> <<>>]
NoList == [tab |-> "none", ok |-> FALSE, by |-> 0, wanted |-> 0, force |-> FALSE, games |-> <<>>]

InitLibrary ==
  cl = [at |-> "off", account |-> 0, cache |-> [f \in Files |-> Missing], tab |-> "none", force |-> FALSE,
        server |-> <<>>, start |-> 0, next |-> 0, raw |-> <<>>, games |-> <<>>, shown |-> NoList, loads |-> 0]

-----------------------------------------------------------------------------
(* The entitlements of an account *)

Owned(id, full, self) ==
  [id |-> id, self |-> self, active |-> TRUE, feature |-> IF full THEN 3 ELSE 1, package |-> "PS4CD",
   name |-> "game", trial |-> FALSE, ppsa |-> TRUE]
Game(id) == Owned(id, TRUE, TRUE)

\* One of each kind that the code tells apart: games, an id of 0 being an entry without
\* one, and what is not a game of this list.
Games ==
  {Game(0), Game(1), Owned(1, FALSE, TRUE), [Owned(1, FALSE, FALSE) EXCEPT !.package = "PSGD"]}
Others ==
  {[Game(2) EXCEPT !.active = FALSE], [Game(2) EXCEPT !.feature = 0], [Game(2) EXCEPT !.package = "PSGT"],
   [Game(2) EXCEPT !.trial = TRUE], [Game(2) EXCEPT !.name = "demo"], [Game(2) EXCEPT !.name = "artbook"],
   [Game(2) EXCEPT !.package = "PSTRACK"], [Game(2) EXCEPT !.ppsa = FALSE]}

ParsePs5Entitlement(e) == e.id # 0

KeepPs5Entitlement(e) ==
  e.active /\ e.feature # 0 /\ e.package # "PSGT" /\ ~e.trial /\ e.name # "demo"

IsDigitalExtraName(name) == name = "artbook"

\* Entries of the same id differ in these two points only.
OwnedPs5StreamRank(e) ==
  (IF e.self THEN 4 ELSE 0) + (IF e.feature = 3 \/ e.package = "PSGD" THEN 2 ELSE 0)

\* The entries that are games of this console, and the list made of them: an id is listed
\* where it came first and stands for the entry that ranks highest, the first of equals.
Resolved(e) ==
  e.package \notin {"PSMEDIA", "PSTRACK"} /\ ~IsDigitalExtraName(e.name) /\ e.ppsa
Better(g, e) ==
  IF g.id = e.id /\ OwnedPs5StreamRank(e) > g.rank THEN [g EXCEPT !.rank = OwnedPs5StreamRank(e)] ELSE g
Listed(games, e) ==
  IF \E k \in DOMAIN games : games[k].id = e.id THEN [k \in DOMAIN games |-> Better(games[k], e)]
  ELSE Append(games, [id |-> e.id, rank |-> OwnedPs5StreamRank(e), hint |-> FALSE])

\* A game of the list whose id, or whose id's stable key, is in the public catalogue.
ProductIdStableKey(id) == id % 10
HintOf(id, catalog) ==
  \E c \in ToSet(catalog) : c = id \/ ProductIdStableKey(c) = ProductIdStableKey(id)
Hinted(games, catalog) ==
  [k \in DOMAIN games |-> [id |-> games[k].id, rank |-> games[k].rank, hint |-> HintOf(games[k].id, catalog)]]

PlatformForPsnowProductId(id) == IF id % 2 = 1 THEN "ps4" ELSE "ps3"

-----------------------------------------------------------------------------
(* The cache files *)

\* A file is read unless it is torn or older than a day, or a refresh is asked for.
UseCache(f, force) == ~force /\ cl.cache[f].is = "good"

\* The file cannot be opened, which nobody is told; or it is truncated and written, unless
\* the console is switched off in between.
Stored(r, f, games) ==
  {r, [r EXCEPT !.cache[f] = [is |-> "good", by |-> r.account, games |-> games]]}
Torn(r, f) == [r EXCEPT !.cache[f] = [Missing EXCEPT !.is = "torn"]]

Restarted(r) ==
  [r EXCEPT !.at = "idle", !.tab = "none", !.force = FALSE, !.server = <<>>, !.start = 0, !.next = 0,
            !.raw = <<>>, !.games = <<>>, !.shown = NoList]
Shown(r, ok, by, games) ==
  [Restarted(r) EXCEPT !.shown = [tab |-> r.tab, ok |-> ok, by |-> by, wanted |-> r.account, force |-> r.force, games |-> games]]
Failed(r) == Shown(r, FALSE, r.account, <<>>)

-----------------------------------------------------------------------------
(* The view *)

\* What the server holds while a list is read: entitlements, or the ids of two categories.
Lists ==
  {<<>>} \cup {<<a, b, Game(3)>> : a, b \in Games} \cup {<<a>> : a \in Others}
Categories == {<<<<1, 2>>, b>> : b \in {<<>>, <<2, 3>>}}

\* The rows of a tab, sorted by name (here as their ids), in any order where names are the
\* same: of the PSNOW catalogue only those of its platform.
Orders(places, name) ==
  {p \in Bijection(1..Cardinality(places), places) : \A j, k \in DOMAIN p : j < k => name[p[j]] <= name[p[k]]}
Rows(games, places, name) == {[k \in DOMAIN p |-> games[p[k]]] : p \in Orders(places, name)}
TabRows(tab, games) ==
  IF tab = "ps5" THEN Rows(games, DOMAIN games, [k \in DOMAIN games |-> games[k].id])
  ELSE Rows(games, {k \in DOMAIN games : PlatformForPsnowProductId(games[k]) = tab}, games)

CacheOf(tab) == IF tab = "ps5" THEN "ps5owned" ELSE "psnow"

\* The constructor: at the start of the program, for Refresh (which skips the cache) and
\* for a search or its reset.
Asked(r, s) == [r EXCEPT !.at = IF r.tab = "ps5" THEN "token" ELSE "code", !.server = s]
OpenList(tab, force) ==
  /\ cl.at = "idle" /\ cl.loads < MaxLoads
  /\ LET r == [cl EXCEPT !.tab = tab, !.force = force, !.shown = NoList, !.loads = @ + 1]
         c == cl.cache[CacheOf(tab)]
     IN \/ cl.account = 0 /\ cl' = Failed(r)
        \/ /\ cl.account # 0 /\ UseCache(CacheOf(tab), force)
           /\ \E rows \in TabRows(tab, c.games) : cl' = Shown(r, TRUE, c.by, rows)
        \/ /\ cl.account # 0 /\ ~UseCache(CacheOf(tab), force)
           /\ \E s \in IF tab = "ps5" THEN Lists ELSE Categories : cl' = Asked(r, s)

\* Signing in and out changes no list that is shown or kept.
SetAccount(a) ==
  /\ cl.at \in {"off", "idle"} /\ (cl.account = 0) # (a = 0)
  /\ cl' = [cl EXCEPT !.at = "idle", !.account = a]

DayPasses ==
  /\ cl.at = "idle" /\ \E f \in Files : cl.cache[f].is = "good"
  /\ cl' = [cl EXCEPT !.cache = [f \in Files |-> IF @[f].is = "good" THEN [Missing EXCEPT !.is = "old"] ELSE @[f]]]

-----------------------------------------------------------------------------
(* The PS5 library *)

FetchOwnedPs5EntitlementToken ==
  /\ cl.at = "token"
  /\ cl' \in {Failed(cl), [cl EXCEPT !.at = "page"]}

\* One page is asked for, and its entries are taken over one by one. Their number, those
\* without an id included, says whether there is another page and where it begins.
PageEnd == IF cl.start + PageSize < Len(cl.server) THEN cl.start + PageSize ELSE Len(cl.server)
PageCount == PageEnd - cl.start
FetchPs5EntitlementsPage ==
  /\ cl.at = "page"
  /\ cl' \in {Failed(cl), [cl EXCEPT !.at = "entries", !.next = cl.start]}
TakeEntries ==
  /\ cl.at = "entries"
  /\ cl' = IF cl.next < PageEnd
           THEN [cl EXCEPT !.next = @ + 1,
                           !.raw = LET e == cl.server[cl.next + 1] IN IF ParsePs5Entitlement(e) THEN Append(@, e) ELSE @]
           ELSE IF PageCount < PageSize THEN [cl EXCEPT !.at = "games", !.next = 0]
           ELSE [cl EXCEPT !.at = "page", !.start = @ + PageCount]

\* The entries that pass both filters; the three loops over them are one here.
BuildOwnedPs5GamesFromEntitlements ==
  /\ cl.at = "games"
  /\ cl' = IF cl.next < Len(cl.raw)
           THEN [cl EXCEPT !.next = @ + 1,
                           !.games = LET e == cl.raw[cl.next + 1]
                                     IN IF KeepPs5Entitlement(e) /\ Resolved(e) THEN Listed(@, e) ELSE @]
           ELSE [cl EXCEPT !.at = "catalog"]

\* The public catalogue, for the hints: from its file, or read and kept, or not to be had.
PublicCatalog == <<2, 11>>
WithHints(r, c) == [r EXCEPT !.at = "store", !.games = Hinted(@, c)]
FetchPs5CloudCatalog ==
  /\ cl.at = "catalog"
  /\ IF UseCache("ps5cloud", cl.force) THEN cl' = WithHints(cl, cl.cache["ps5cloud"].games)
     ELSE cl' \in {[cl EXCEPT !.at = "store"], Restarted(Torn(cl, "ps5cloud"))}
                    \cup {WithHints(r, PublicCatalog) : r \in Stored(cl, "ps5cloud", PublicCatalog)}

FetchOwnedPs5CloudGames ==
  /\ cl.at = "store" /\ cl.tab = "ps5"
  /\ IF cl.games = <<>> THEN cl' = Failed(cl)
     ELSE \/ \E r \in Stored(cl, "ps5owned", cl.games), rows \in TabRows("ps5", cl.games) :
               cl' = Shown(r, TRUE, r.account, rows)
          \/ cl' = Restarted(Torn(cl, "ps5owned"))

-----------------------------------------------------------------------------
(* The PSNOW catalogue *)

FetchPsnowOAuthCode ==
  /\ cl.at = "code"
  /\ cl' \in {Failed(cl), [cl EXCEPT !.at = "session"]}
FetchPsnowSession ==
  /\ cl.at = "session"
  /\ cl' \in {Failed(cl), [cl EXCEPT !.at = "base_url"]}
FetchPsnowBaseUrl ==
  /\ cl.at = "base_url"
  /\ cl' \in {Failed(cl), [cl EXCEPT !.at = "urls"]}

\* The links of the root container that are categories.
FetchPsnowCategoryUrls ==
  /\ cl.at = "urls"
  /\ cl' \in {Failed(cl), [cl EXCEPT !.at = "category"]}

\* A category that fails is skipped; raw keeps the games of the others.
FetchPsnowCategoryGames ==
  /\ cl.at = "category" /\ cl.start < Len(cl.server)
  /\ cl' \in {[cl EXCEPT !.start = @ + 1], [cl EXCEPT !.start = @ + 1, !.raw = @ \o cl.server[cl.start + 1]]}

\* Then each game is taken over once, and the list kept and shown.
AddUnique(games, id) == IF Contains(games, id) THEN games ELSE Append(games, id)
FetchPsnowCatalog ==
  /\ cl.at = "category" /\ cl.start = Len(cl.server)
  /\ IF cl.next < Len(cl.raw)
     THEN cl' = [cl EXCEPT !.next = @ + 1, !.games = AddUnique(@, cl.raw[cl.next + 1])]
     ELSE IF cl.games = <<>> THEN cl' = Failed(cl)
     ELSE \/ \E r \in Stored(cl, "psnow", cl.games), rows \in TabRows(cl.tab, cl.games) :
               cl' = Shown(r, TRUE, r.account, rows)
          \/ cl' = Restarted(Torn(cl, "psnow"))

NextLibrary ==
  \/ \E tab \in {"ps5", "ps4", "ps3"}, force \in BOOLEAN : OpenList(tab, force)
  \/ \E a \in 0..2 : SetAccount(a)
  \/ DayPasses
  \/ FetchOwnedPs5EntitlementToken \/ FetchPs5EntitlementsPage \/ TakeEntries
  \/ BuildOwnedPs5GamesFromEntitlements \/ FetchPs5CloudCatalog \/ FetchOwnedPs5CloudGames
  \/ FetchPsnowOAuthCode \/ FetchPsnowSession \/ FetchPsnowBaseUrl \/ FetchPsnowCategoryUrls
  \/ FetchPsnowCategoryGames \/ FetchPsnowCatalog

-----------------------------------------------------------------------------
\* The list built of the account's entitlements has every title it may stream, whatever page
\* it was on, each once and by its best entry; a tab's catalogue has its own platform's
\* titles, none twice; and after Refresh the list is the account's, whoever's is kept.
Streamable == {e \in ToSet(cl.server) : ParsePs5Entitlement(e) /\ KeepPs5Entitlement(e) /\ Resolved(e)}
LibraryIsRight ==
  /\ cl.at \in {"catalog", "store"} =>
       /\ {cl.games[k].id : k \in DOMAIN cl.games} = {e.id : e \in Streamable}
       /\ \A k \in DOMAIN cl.games : \A e \in Streamable :
            e.id = cl.games[k].id => OwnedPs5StreamRank(e) <= cl.games[k].rank
  /\ \A i, j \in DOMAIN cl.shown.games :
       cl.shown.tab = "ps5" => (cl.shown.games[i].id = cl.shown.games[j].id => i = j)
  /\ cl.shown.tab \in {"ps4", "ps3"} =>
       /\ IsInjective(cl.shown.games)
       /\ \A id \in ToSet(cl.shown.games) : PlatformForPsnowProductId(id) = cl.shown.tab
  /\ cl.shown.ok /\ cl.shown.force => cl.shown.by = cl.shown.wanted
=============================================================================
