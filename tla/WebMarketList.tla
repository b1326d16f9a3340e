----------------------------- MODULE WebMarketList -----------------------------
(***************************************************************************)
(* What a visitor sees of the markets: the height of the chain the web app *)
(* believes in (market-utils.ts), the status, odds and time it derives     *)
(* from it, the filters and orders of the two lists (market-filtering.ts,  *)
(* pool-list-filtering.ts) and their pages (Pagination.tsx).               *)
(*                                                                         *)
(* A market's text is the set of the words a search finds in it.  Volumes  *)
(* are in whole units, times in blocks.                                    *)
(***************************************************************************)
EXTENDS Integers, Sequences, FiniteSets, SequencesExt

CONSTANTS
  Listings,   \* lists of markets that may exist, as the contract stores them
  FilterSets, \* filters a visitor may set
  MaxHeight,  \* bound: the chain's height
  Day,        \* BLOCKS_PER_DAY (144)
  PerPage     \* ITEMS_PER_PAGE (12)

VARIABLES
  onChain,     \* external: the markets, and the height
  heightCache, \* the cached height, and whether it is fresh
  loaded,      \* the markets of the last load, the height it used and its warning
  browse       \* filters and page

listVars == <<onChain, heightCache, loaded, browse>>

Null == -1

\* calculateMarketStatus, calculateTimeRemaining and calculateOdds.
MarketStatus(p, height) ==
  IF p.settled THEN "settled"
  ELSE IF p.disputed THEN "disputed"
  ELSE IF p.frozen THEN "frozen"
  ELSE IF height > p.expiry THEN "expired" ELSE "active"

TimeRemaining(expiry, height) == IF height >= expiry THEN Null ELSE expiry - height

\* Math.round of a percentage.
Odds(part, total) == IF total = 0 THEN 50 ELSE (200 * part + total) \div (2 * total)

ProcessMarket(p, height) ==
  [poolId |-> p.id, createdAt |-> p.createdAt, text |-> p.text, asset |-> p.asset,
   category |-> p.category, tags |-> p.tags, mirrored |-> p.mirrored,
   volume |-> p.a + p.b, odds |-> <<Odds(p.a, p.a + p.b), Odds(p.b, p.a + p.b)>>,
   status |-> MarketStatus(p, height), left |-> TimeRemaining(p.expiry, height)]

\* getCurrentBlockHeight: zero without a fresh entry.
CachedHeight == IF heightCache.fresh THEN heightCache.value ELSE 0

ProcessAll(pools, height) == [i \in DOMAIN pools |-> ProcessMarket(pools[i], height)]

Load(height, warning) ==
  /\ loaded' = [markets |-> ProcessAll(onChain.pools, height), height |-> height,
                warning |-> warning]
  /\ UNCHANGED <<onChain, browse>>

\* fetchCurrentBlockHeightLive: an answer is cached; an abort falls back silently, and
\* any other failure with a warning.
HeightKnown ==
  /\ onChain.height > 0
  /\ heightCache' = [value |-> onChain.height, fresh |-> TRUE]
  /\ Load(onChain.height, FALSE)

HeightUnknown ==
  /\ \E aborted \in BOOLEAN : Load(CachedHeight, ~aborted)
  /\ UNCHANGED heightCache

\* readBlockHeightCache past its TTL.
HeightStale ==
  /\ heightCache.fresh /\ heightCache' = [heightCache EXCEPT !.fresh = FALSE]
  /\ UNCHANGED <<onChain, loaded, browse>>

\* External: the chain goes on, and its first market may be settled.
ChainGoesOn ==
  /\ onChain.height < MaxHeight
  /\ \E settled \in BOOLEAN :
       onChain' = [height |-> onChain.height + 1,
                   pools |-> [onChain.pools EXCEPT ![1].settled = @ \/ settled]]
  /\ UNCHANGED <<heightCache, loaded, browse>>

----------------------------------------------------------------------------
\* The filters of /markets, and what the address carries of them.

DefaultFilter == [q |-> "", status |-> "all", asset |-> "all", min |-> Null, max |-> Null,
                  time |-> "all", sort |-> "newest"]

Valid(value, allowed, default) == IF value \in allowed THEN value ELSE default

Normalize(f) ==
  [f EXCEPT !.status = Valid(@, {"all", "open", "settled", "disputed", "frozen"}, "all"),
            !.time = Valid(@, {"all", "ending-24h", "ending-7d", "created-7d", "created-30d"}, "all"),
            !.sort = Valid(@, {"newest", "ending-soon", "volume", "participants"}, "newest")]

ToParams(f) ==
  [k \in {key \in DOMAIN f : Normalize(f)[key] # DefaultFilter[key]} |-> Normalize(f)[k]]

FromParams(params) ==
  Normalize([k \in DOMAIN DefaultFilter |->
              IF k \in DOMAIN params THEN params[k] ELSE DefaultFilter[k]])

MatchesStatus(m, status) ==
  \/ status = "all"
  \/ status = "open" /\ m.status = "active"
  \/ status \in {"settled", "frozen", "disputed"} /\ m.status = status

\* A creation time below 10^9 is a block height, which every range of ages admits.
MatchesTime(m, time) ==
  CASE time = "ending-24h" -> m.status = "active" /\ m.left # Null /\ m.left <= Day
    [] time = "ending-7d"  -> m.status = "active" /\ m.left # Null /\ m.left <= 7 * Day
    [] OTHER               -> TRUE

Matches(m, f) ==
  /\ f.q = "" \/ f.q \in m.text
  /\ MatchesStatus(m, f.status)
  /\ f.asset \in {"all", m.asset}
  /\ f.min # Null => m.volume >= f.min
  /\ f.max # Null => m.volume <= f.max
  /\ MatchesTime(m, f.time)

Ending(m) == m.status = "active" /\ m.left # Null

\* The comparators; the sort is stable.  No market carries a participant count.
Before(m, n, sort) ==
  CASE sort \in {"volume", "participants"} ->
         m.volume > n.volume \/ (m.volume = n.volume /\ m.createdAt > n.createdAt)
    [] sort = "ending-soon" ->
         IF Ending(m) /\ Ending(n) THEN m.left < n.left
         ELSE Ending(m) \/ (~Ending(n) /\ m.createdAt > n.createdAt)
    [] OTHER ->
         m.createdAt > n.createdAt \/ (m.createdAt = n.createdAt /\ m.poolId > n.poolId)

Sorted(ms, chosen, sort) ==
  LET kept == {i \in DOMAIN ms : chosen[i]}
      place == [i \in kept |-> Cardinality({j \in kept :
                 Before(ms[j], ms[i], sort) \/ (~Before(ms[i], ms[j], sort) /\ j <= i)})]
  IN [k \in 1 .. Cardinality(kept) |-> ms[CHOOSE i \in kept : place[i] = k]]

FilterAndSort(ms, f) ==
  Sorted(ms, [i \in DOMAIN ms |-> Matches(ms[i], Normalize(f))], Normalize(f).sort)

\* The list of /pools: derivePoolStatus, the counts on its buttons and filterPools.
Categories == {"crypto", "sports", "other"}

\* External: String.toLowerCase.
Lower(category) == IF category = "Crypto" THEN "crypto" ELSE category

PoolStatus(m) ==
  CASE m.status = "settled" -> "resolved" [] m.status = "expired" -> "expired" [] OTHER -> "active"

CountByStatus(ms, status) == Cardinality({i \in DOMAIN ms : PoolStatus(ms[i]) = status})

CountByCategory(ms, category) ==
  Cardinality({i \in DOMAIN ms : category = Valid(Lower(ms[i].category), Categories, "other")})

UniqueTags(ms) == UNION {ms[i].tags : i \in DOMAIN ms}

FilterPools(ms, status, categories, tags, mirrored) ==
  Sorted(ms, [i \in DOMAIN ms |->
               /\ status \in {"all", PoolStatus(ms[i])}
               /\ categories = {} \/ Lower(ms[i].category) \in categories
               /\ tags = {} \/ tags \cap ms[i].tags # {}
               /\ mirrored => ms[i].mirrored], "newest")

----------------------------------------------------------------------------
\* Pages.

Filtered == FilterAndSort(loaded.markets, browse.filters)
PageCount == (Len(Filtered) + PerPage - 1) \div PerPage

\* getPageNumbers: at most seven entries, Null standing for an ellipsis.
PageNumbers(current, total) ==
  IF total <= 7 THEN [i \in 1 .. total |-> i]
  ELSE IF current <= 4 THEN <<1, 2, 3, 4, 5, Null, total>>
  ELSE IF current >= total - 3 THEN <<1, Null>> \o [i \in 1 .. 5 |-> total - 5 + i]
  ELSE <<1, Null, current - 1, current, current + 1, Null, total>>

PageOf(ms, page) == SubSeq(ms, (page - 1) * PerPage + 1, IF page * PerPage < Len(ms) THEN page * PerPage ELSE Len(ms))

\* MarketGrid, once loaded.
GridShows ==
  IF PageOf(Filtered, browse.page) # <<>> THEN "markets"
  ELSE IF browse.filters = DefaultFilter THEN "be the first to create one"
  ELSE "no markets match"

\* The bar is shown beside a page that has markets.
BarShown == PageCount > 1 /\ GridShows = "markets"

GoToPage(p) ==
  /\ BarShown
  /\ \/ p # Null /\ Contains(PageNumbers(browse.page, PageCount), p)
     \/ p = browse.page - 1 /\ browse.page > 1
     \/ p = browse.page + 1 /\ browse.page < PageCount
  /\ browse' = [browse EXCEPT !.page = p]
  /\ UNCHANGED <<onChain, heightCache, loaded>>

ChooseFilters(f) ==
  /\ browse' = [filters |-> Normalize(f), page |-> 1]
  /\ UNCHANGED <<onChain, heightCache, loaded>>

\* A link with filters is opened.
OpenLink(f) ==
  /\ browse' = [filters |-> FromParams(ToParams(f)), page |-> 1]
  /\ UNCHANGED <<onChain, heightCache, loaded>>

MarketListInit ==
  /\ \E pools \in Listings : onChain = [pools |-> pools, height |-> 1]
  /\ heightCache = [value |-> 0, fresh |-> FALSE]
  /\ loaded = [markets |-> <<>>, height |-> 0, warning |-> FALSE]
  /\ browse = [filters |-> DefaultFilter, page |-> 1]

MarketListNext ==
  \/ HeightKnown \/ HeightUnknown \/ HeightStale \/ ChainGoesOn
  \/ \E p \in 1 .. MaxHeight : GoToPage(p)
  \/ \E f \in FilterSets : ChooseFilters(f) \/ OpenLink(f)

MarketListSpec == MarketListInit /\ [][MarketListNext]_listVars

\* However stale the height, a market is listed as expired only if it is past its
\* expiry on the chain, as settled only if it is settled there, and as open only
\* with time left or at its last block.
ListedStatusIsTrue ==
  \A i \in DOMAIN loaded.markets :
    LET m == loaded.markets[i]
        p == onChain.pools[i]
    IN /\ m.status = "expired" => onChain.height > p.expiry
       /\ m.status = "settled" => p.settled
       /\ m.status = "active" /\ m.left = Null => loaded.height = p.expiry

\* The pages are the filtered list: each market on one page, each page reachable with
\* one jump to an end and steps, and a shared link selects what its sender saw.
PagesAreTheList ==
  /\ FlattenSeq([p \in 1 .. PageCount |-> PageOf(Filtered, p)]) = Filtered
  /\ FilterAndSort(loaded.markets, FromParams(ToParams(browse.filters))) = Filtered
  /\ BarShown =>
       LET numbers == PageNumbers(browse.page, PageCount)
       IN /\ Len(numbers) <= 7 /\ Contains(numbers, 1) /\ Contains(numbers, PageCount)
          /\ Contains(numbers, browse.page)
          /\ \A k \in 1 .. Len(numbers) - 1 :
               numbers[k] # Null /\ numbers[k + 1] # Null => numbers[k + 1] = numbers[k] + 1


=============================================================================
