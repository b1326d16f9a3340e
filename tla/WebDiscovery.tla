----------------------------- MODULE WebDiscovery -----------------------------
(***************************************************************************)
(* useMarketDiscovery: the list of markets on the pages that browse them,  *)
(* read through the shared read of market-list-cache, refreshed by polling *)
(* and by the retry button, filtered and cut into pages.                   *)
(*                                                                         *)
(* A list is the number of its markets, with the version of the chain it   *)
(* shows.  Requests carry the number requestIdRef gave them; numbers are   *)
(* reused once answered.  warning is that of a refresh that failed; that   *)
(* of the block height is WebMarketList's.                                 *)
(***************************************************************************)
EXTENDS Integers, FiniteSets

CONSTANTS
  MaxMarkets,  \* markets that may exist
  PageSize,    \* ITEMS_PER_PAGE (12)
  MaxVersion,  \* bound: changes of the list on the chain
  Ids          \* bound: request numbers, 1 .. n

VARIABLES
  listing,   \* external: the markets on the chain, and their version
  cachedList, \* the fresh entry of the list cache, or NoList
  warmRead,  \* inFlightWarmPromise: the list its read saw, or NoList
  asked,     \* requests in flight: number, whether polled, what their wait gave
  lastId,    \* requestIdRef
  view       \* what the hook shows

discoveryVars == <<listing, cachedList, warmRead, asked, lastId, view>>

NoList == [n |-> -1, version |-> 0]
Waiting == [n |-> -2, version |-> 0]
Failed == [n |-> -3, version |-> 0]

NoView == [list |-> NoList, known |-> FALSE, loading |-> TRUE, error |-> FALSE,
           warning |-> FALSE, calm |-> FALSE, filter |-> "all", page |-> 1]

\* Mounted on an empty or a fresh cache; the poll starts at once.
DiscoveryInit ==
  /\ listing \in [n : 0 .. MaxMarkets, version : {1}]
  /\ cachedList \in {NoList, listing}
  /\ warmRead = NoList /\ asked = {} /\ lastId = 1
  /\ view = IF cachedList = NoList THEN NoView
            ELSE [NoView EXCEPT !.list = cachedList, !.known = cachedList.n > 0,
                                !.loading = FALSE, !.calm = TRUE]

\* filterAndSortMarkets keeps all the markets or some (which ones: WebMarketList).
Filtered(n, filter) == IF filter = "all" THEN n ELSE n \div 2
Count(v) == Filtered(IF v.list.n < 0 THEN 0 ELSE v.list.n, v.filter)
TotalPages(v) == (Count(v) + PageSize - 1) \div PageSize

NextId == (lastId % Cardinality(Ids)) + 1

\* fetchMarkets up to its wait: a fresh cache is served, else the one read of the
\* list is joined or started.
FetchMarkets(polled, forceLoading) ==
  /\ \A r \in asked : r.id # NextId
  /\ lastId' = NextId
  /\ view' = [view EXCEPT !.loading = @ \/ forceLoading \/ ~view.calm, !.error = FALSE]
  /\ asked' = asked \cup {[id |-> NextId, polled |-> polled,
                           got |-> IF cachedList # NoList THEN cachedList ELSE Waiting]}
  /\ warmRead' = IF cachedList = NoList /\ warmRead = NoList THEN listing ELSE warmRead
  /\ UNCHANGED <<listing, cachedList>>

\* The polling hook awaits the callback before it schedules the next.
Poll == (\A r \in asked : ~r.polled) /\ FetchMarkets(TRUE, FALSE)

\* The button is shown beside the error.
RetryMarkets == view.error /\ ~view.loading /\ FetchMarkets(FALSE, TRUE)

Settled(got) == {IF r.got = Waiting THEN [r EXCEPT !.got = got] ELSE r : r \in asked}

\* warmMarketListCache ends for all that await it.
WarmDone ==
  /\ warmRead # NoList /\ warmRead' = NoList
  /\ cachedList' = warmRead /\ asked' = Settled(warmRead)
  /\ UNCHANGED <<listing, lastId, view>>

WarmFails ==
  /\ warmRead # NoList /\ warmRead' = NoList
  /\ asked' = Settled(Failed)
  /\ UNCHANGED <<listing, cachedList, lastId, view>>

\* withTimeout(12000): the read itself goes on.
Timeout(r) ==
  /\ r \in asked /\ r.got = Waiting
  /\ asked' = (asked \ {r}) \cup {[r EXCEPT !.got = Failed]}
  /\ UNCHANGED <<listing, cachedList, warmRead, lastId, view>>

\* fetchMarkets after its wait; a request that is no longer the last does nothing.
Shows(got) ==
  IF got # Failed
  THEN [view EXCEPT !.list = got, !.known = got.n > 0, !.warning = FALSE,
                    !.loading = FALSE, !.calm = TRUE]
  ELSE [view EXCEPT !.error = ~view.known, !.warning = @ \/ view.known,
                    !.loading = FALSE, !.calm = TRUE]

Answered(r) ==
  /\ r \in asked /\ r.got # Waiting
  /\ asked' = asked \ {r}
  /\ view' = IF r.id = lastId THEN Shows(r.got) ELSE view
  /\ UNCHANGED <<listing, cachedList, warmRead, lastId>>

\* updateFilters, setFilters, resetFilters and filters from the address bar.
SetFilter(f) ==
  /\ view' = [view EXCEPT !.filter = f, !.page = 1]
  /\ UNCHANGED <<listing, cachedList, warmRead, asked, lastId>>

SetPage(p) ==
  /\ p \in 1 .. TotalPages(view)
  /\ view' = [view EXCEPT !.page = p]
  /\ UNCHANGED <<listing, cachedList, warmRead, asked, lastId>>

\* MarketListPreloader, or another page, warms the cache.
Preload ==
  /\ cachedList = NoList /\ warmRead = NoList
  /\ warmRead' = listing
  /\ UNCHANGED <<listing, cachedList, asked, lastId, view>>

\* The entry expires, or a mutation of the user drops it.
Forget ==
  /\ cachedList # NoList /\ cachedList' = NoList
  /\ UNCHANGED <<listing, warmRead, asked, lastId, view>>

Change ==
  /\ listing.version < MaxVersion
  /\ \E n \in 0 .. MaxMarkets : listing' = [n |-> n, version |-> listing.version + 1]
  /\ UNCHANGED <<cachedList, warmRead, asked, lastId, view>>

DiscoveryNext ==
  \/ Poll \/ RetryMarkets \/ WarmDone \/ WarmFails \/ Preload \/ Forget \/ Change
  \/ \E r \in asked : Timeout(r) \/ Answered(r)
  \/ \E f \in {"all", "some"} : SetFilter(f)
  \/ \E p \in 1 .. MaxMarkets : SetPage(p)

DiscoverySpec == DiscoveryInit /\ [][DiscoveryNext]_discoveryVars

\* Timers fire and answers are handled; the read of the list may hang for ever.
Proceeds(i) == \E r \in asked : r.id = i /\ (Timeout(r) \/ Answered(r))
DiscoveryFairSpec ==
  DiscoverySpec /\ WF_discoveryVars(Poll) /\ \A i \in Ids : WF_discoveryVars(Proceeds(i))

\* Loading ends although the read of the list may hang.
LoadingEnds == view.loading ~> ~view.loading


=============================================================================
