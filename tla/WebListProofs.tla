---------------------------- MODULE WebListProofs ----------------------------
(***************************************************************************)
(* The lists and figures of the web client, proved for every value of      *)
(* their constants: the market lists, the pages read from the contract,    *)
(* the activity timeline, its export, and the rows and cards of the        *)
(* dashboards.  As in WebProofs, each part has its own invariant, which    *)
(* relates what is shown to the chain, whatever the chain did since.       *)
(***************************************************************************)
EXTENDS WebApp, Ranks, SumProofs, SequenceTheorems, TLAPS

-----------------------------------------------------------------------------
(* The lists of markets.  A list was computed from the pools and a height  *)
(* that the chain has passed since: an expiry is not moved, a settlement   *)
(* is not taken back, and the height only grows.                           *)

LEMMA MarketListStep == [AppNext]_appVars => [MarketList!MarketListNext]_listVars
BY DEF AppNext, Step, Still, appVars

ListedPool ==
  [id : Nat, createdAt : Nat, text : SUBSET STRING, asset : STRING, category : STRING,
   tags : SUBSET STRING, mirrored : BOOLEAN, a : Nat, b : Nat, settled : BOOLEAN,
   disputed : BOOLEAN, frozen : BOOLEAN, expiry : Nat]

\* What the card of pool p may say, computed at a height.
TrueCard(m, p, height) ==
  /\ m.status = "settled" => p.settled
  /\ m.status = "expired" => height > p.expiry
  /\ m.status = "active" => ~ (height > p.expiry)
  /\ m.left = MarketList!TimeRemaining(p.expiry, height)

ListedInv ==
  /\ listOnChain.pools \in Seq(ListedPool) /\ listOnChain.height \in Nat \ {0}
  /\ listOnChain = [pools |-> listOnChain.pools, height |-> listOnChain.height]
  /\ listHeightCache.value \in Nat /\ listHeightCache.value <= listOnChain.height
  /\ listHeightCache = [value |-> listHeightCache.value, fresh |-> listHeightCache.fresh]
  /\ listLoaded.height \in Nat /\ listLoaded.height <= listOnChain.height
  /\ listLoaded.markets \in Seq({listLoaded.markets[i] : i \in 1 .. Len(listLoaded.markets)})
  /\ Len(listLoaded.markets) \in {0, Len(listOnChain.pools)}
  /\ \A i \in 1 .. Len(listLoaded.markets) :
       TrueCard(listLoaded.markets[i], listOnChain.pools[i], listLoaded.height)

LEMMA PoolLater ==
  ASSUME NEW pools \in Seq(ListedPool), NEW settled \in BOOLEAN
  PROVE  LET later == [pools EXCEPT ![1].settled = @ \/ settled]
         IN  /\ later \in Seq(ListedPool) /\ Len(later) = Len(pools)
             /\ \A i \in 1 .. Len(pools) : /\ pools[i] \in ListedPool
                                           /\ later[i].expiry = pools[i].expiry
                                           /\ pools[i].settled => later[i].settled
<1> DEFINE later == [pools EXCEPT ![1].settled = @ \/ settled]
<1>1. Len(pools) \in Nat /\ DOMAIN pools = 1 .. Len(pools) OBVIOUS
<1>2. \A i \in 1 .. Len(pools) : pools[i] \in ListedPool OBVIOUS
<1>3. ASSUME NEW i \in 1 .. Len(pools)
      PROVE  /\ later[i] \in ListedPool /\ later[i].expiry = pools[i].expiry
             /\ pools[i].settled => later[i].settled
  <2>1. CASE i = 1
    <3> DEFINE p == pools[1]
               q == [p EXCEPT !.settled = @ \/ settled]
    <3>1. p \in ListedPool BY <1>2, <2>1
    <3>2. p.settled \in BOOLEAN /\ (p.settled \/ settled) \in BOOLEAN BY <3>1, Zenon DEF ListedPool
    <3>3. later[1] = q BY <1>1, <2>1
    <3>4. q = [p EXCEPT !.settled = (p.settled \/ settled)] OBVIOUS
    <3>5. \A b \in BOOLEAN : LET r == [p EXCEPT !.settled = b]
                             IN  r \in ListedPool /\ r.expiry = p.expiry /\ r.settled = b
      <4> HIDE DEF p
      <4>1. QED BY <3>1, Zenon DEF ListedPool
    <3>6. q \in ListedPool /\ q.expiry = p.expiry /\ q.settled = (p.settled \/ settled)
      <4> HIDE DEF p, q
      <4>1. QED BY <3>2, <3>4, <3>5
    <3> HIDE DEF q, later
    <3>7. QED BY <2>1, <3>3, <3>6, Zenon
  <2>2. CASE i # 1
    <3>1. later[i] = pools[i] BY <1>1, <2>2
    <3>2. QED BY <1>2, <3>1, Zenon
  <2>3. QED BY <2>1, <2>2
<1>4. DOMAIN later = 1 .. Len(pools) BY <1>1
<1>5. later = [i \in 1 .. Len(pools) |-> later[i]] BY <1>1, <1>4, Zenon
<1> HIDE DEF later
<1>6. later \in Seq(ListedPool) /\ Len(later) = Len(pools) BY <1>1, <1>3, <1>4, <1>5
<1>7. QED BY <1>2, <1>3, <1>6 DEF later

LEMMA CardsOf ==
  ASSUME ListedInv, NEW height \in Nat, NEW i \in 1 .. Len(listOnChain.pools)
  PROVE  TrueCard(MarketList!ProcessMarket(listOnChain.pools[i], height), listOnChain.pools[i], height)
<1> DEFINE p == listOnChain.pools[i]
<1>1. p \in ListedPool BY DEF ListedInv
<1>2. p.settled \in BOOLEAN /\ p.disputed \in BOOLEAN /\ p.frozen \in BOOLEAN /\ p.expiry \in Nat
  BY <1>1, Zenon DEF ListedPool
<1> HIDE DEF p
<1>3. TrueCard(MarketList!ProcessMarket(p, height), p, height)
  BY <1>2 DEF TrueCard, MarketList!ProcessMarket, MarketList!MarketStatus
<1>4. QED BY <1>3 DEF p

LEMMA LoadedCards ==
  ASSUME ListedInv, NEW height \in Nat, height <= listOnChain.height,
         NEW warning, MarketList!Load(height, warning),
         listHeightCache'.value \in Nat, listHeightCache'.value <= listOnChain.height,
         listHeightCache' = [value |-> listHeightCache'.value, fresh |-> listHeightCache'.fresh]
  PROVE  ListedInv'
<1> DEFINE n == Len(listOnChain.pools)
           card(i) == MarketList!ProcessMarket(listOnChain.pools[i], height)
           ms == [i \in 1 .. n |-> card(i)]
<1>1. n \in Nat /\ DOMAIN listOnChain.pools = 1 .. n BY DEF ListedInv
<1>2. listLoaded' = [markets |-> ms, height |-> height, warning |-> warning]
      /\ UNCHANGED listOnChain
  BY <1>1 DEF MarketList!Load, MarketList!ProcessAll
<1>3. \A i \in 1 .. n : TrueCard(card(i), listOnChain.pools[i], height) BY CardsOf
<1> HIDE DEF card
<1>4. Len(ms) = n /\ \A i \in 1 .. n : ms[i] = card(i) BY <1>1
<1>5. ms \in Seq({ms[i] : i \in 1 .. n}) BY <1>1
<1>6. listLoaded'.markets = ms /\ listLoaded'.height = height BY <1>2
<1> HIDE DEF n, ms
<1>7. listLoaded'.markets \in Seq({listLoaded'.markets[i] : i \in 1 .. Len(listLoaded'.markets)})
  BY <1>4, <1>5, <1>6
<1>8. Len(listLoaded'.markets) = Len(listOnChain'.pools) BY <1>2, <1>4, <1>6 DEF n
<1>9. \A i \in 1 .. Len(listLoaded'.markets) :
        TrueCard(listLoaded'.markets[i], listOnChain'.pools[i], listLoaded'.height)
  BY <1>2, <1>3, <1>4, <1>6
<1>10. QED BY <1>2, <1>6, <1>7, <1>8, <1>9 DEF ListedInv, TrueCard, MarketList!TimeRemaining, MarketList!Null

LEMMA ListedInvKept == ListedInv /\ [MarketList!MarketListNext]_listVars => ListedInv'
<1> SUFFICES ASSUME ListedInv, [MarketList!MarketListNext]_listVars PROVE ListedInv' OBVIOUS
<1>1. CASE MarketList!HeightKnown
  <2>1. /\ listHeightCache' = [value |-> listOnChain.height, fresh |-> TRUE]
        /\ MarketList!Load(listOnChain.height, FALSE)
    BY <1>1, Zenon DEF MarketList!HeightKnown
  <2>2. listOnChain.height \in Nat /\ listOnChain.height <= listOnChain.height BY DEF ListedInv
  <2>3. listHeightCache'.value = listOnChain.height
        /\ listHeightCache' = [value |-> listHeightCache'.value, fresh |-> listHeightCache'.fresh]
    BY <2>1
  <2>4. QED BY <2>1, <2>2, <2>3, LoadedCards, Zenon
<1>2. CASE MarketList!HeightUnknown
  <2>1. PICK aborted \in BOOLEAN : MarketList!Load(MarketList!CachedHeight, ~aborted)
    BY <1>2 DEF MarketList!HeightUnknown
  <2>2. UNCHANGED listHeightCache BY <1>2 DEF MarketList!HeightUnknown
  <2>3. MarketList!CachedHeight \in Nat /\ MarketList!CachedHeight <= listOnChain.height
    BY DEF ListedInv, MarketList!CachedHeight
  <2>4. /\ listHeightCache.value \in Nat /\ listHeightCache.value <= listOnChain.height
        /\ listHeightCache = [value |-> listHeightCache.value, fresh |-> listHeightCache.fresh]
    BY DEF ListedInv
  <2>5. QED BY <2>1, <2>2, <2>3, <2>4, LoadedCards
<1>3. CASE MarketList!HeightStale
  <2>1. /\ listHeightCache' = [value |-> listHeightCache.value, fresh |-> FALSE]
        /\ UNCHANGED <<listOnChain, listLoaded>>
    <3>1. listHeightCache = [value |-> listHeightCache.value, fresh |-> listHeightCache.fresh]
      BY DEF ListedInv
    <3>2. listHeightCache' = [listHeightCache EXCEPT !.fresh = FALSE]
          /\ UNCHANGED <<listOnChain, listLoaded>>
      BY <1>3 DEF MarketList!HeightStale
    <3>3. QED BY <3>1, <3>2, Zenon
  <2>2. listHeightCache'.value = listHeightCache.value
        /\ listHeightCache' = [value |-> listHeightCache'.value, fresh |-> listHeightCache'.fresh]
    BY <2>1
  <2>3. QED BY <2>1, <2>2 DEF ListedInv, TrueCard, MarketList!TimeRemaining, MarketList!Null
<1>4. CASE MarketList!ChainGoesOn
  <2>1. PICK settled \in BOOLEAN :
          listOnChain' = [height |-> listOnChain.height + 1,
                          pools |-> [listOnChain.pools EXCEPT ![1].settled = @ \/ settled]]
    BY <1>4 DEF MarketList!ChainGoesOn
  <2>2. UNCHANGED <<listHeightCache, listLoaded>> BY <1>4 DEF MarketList!ChainGoesOn
  <2>3. listOnChain'.height = listOnChain.height + 1
        /\ listOnChain'.pools = [listOnChain.pools EXCEPT ![1].settled = @ \/ settled]
        /\ listOnChain' = [pools |-> listOnChain'.pools, height |-> listOnChain'.height]
    BY <2>1
  <2>4. /\ listOnChain'.pools \in Seq(ListedPool) /\ Len(listOnChain'.pools) = Len(listOnChain.pools)
        /\ \A i \in 1 .. Len(listOnChain.pools) :
             /\ listOnChain'.pools[i].expiry = listOnChain.pools[i].expiry
             /\ listOnChain.pools[i].settled => listOnChain'.pools[i].settled
    BY <2>3, PoolLater DEF ListedInv
  <2>5. \A i \in 1 .. Len(listLoaded.markets) : i \in 1 .. Len(listOnChain.pools)
    BY DEF ListedInv
  <2>6. \A i \in 1 .. Len(listLoaded.markets) :
          TrueCard(listLoaded.markets[i], listOnChain'.pools[i], listLoaded.height)
    BY <2>4, <2>5 DEF ListedInv, TrueCard, MarketList!TimeRemaining
  <2>7. listOnChain.height \in Nat /\ listOnChain'.height \in Nat \ {0}
        /\ listLoaded.height <= listOnChain'.height
        /\ listHeightCache.value <= listOnChain'.height
    BY <2>3 DEF ListedInv
  <2>8. QED BY <2>2, <2>3, <2>4, <2>6, <2>7 DEF ListedInv, TrueCard, MarketList!TimeRemaining, MarketList!Null
<1>5. ASSUME UNCHANGED <<listOnChain, listHeightCache, listLoaded>> PROVE ListedInv'
  BY <1>5 DEF ListedInv, TrueCard, MarketList!TimeRemaining, MarketList!Null
<1>6. ASSUME NEW p, MarketList!GoToPage(p) PROVE ListedInv'
  BY <1>5, <1>6 DEF MarketList!GoToPage
<1>7. ASSUME NEW f, MarketList!ChooseFilters(f) \/ MarketList!OpenLink(f) PROVE ListedInv'
  BY <1>5, <1>7 DEF MarketList!ChooseFilters, MarketList!OpenLink
<1>8. CASE UNCHANGED listVars BY <1>5, <1>8 DEF listVars
<1>9. QED BY <1>1, <1>2, <1>3, <1>4, <1>6, <1>7, <1>8 DEF MarketList!MarketListNext

LEMMA ListedInvariant == AppSpec => []ListedInv
<1>1. AppInit => ListedInv
  <2> SUFFICES ASSUME MarketList!MarketListInit PROVE ListedInv BY DEF AppInit
  <2>1. PICK pools \in ListListings : listOnChain = [pools |-> pools, height |-> 1]
    BY DEF MarketList!MarketListInit
  <2>2. pools \in Seq(ListedPool) BY ListsAssumption DEF ListedPool
  <2>3. listHeightCache = [value |-> 0, fresh |-> FALSE] /\ listLoaded.markets = << >>
        /\ listLoaded.height = 0
    BY DEF MarketList!MarketListInit
  <2>4. Len(<< >>) = 0 /\ \A S : << >> \in Seq(S) OBVIOUS
  <2>5. QED BY <2>1, <2>2, <2>3, <2>4 DEF ListedInv
<1>2. ListedInv /\ [AppNext]_appVars => ListedInv' BY MarketListStep, ListedInvKept
<1>3. QED BY <1>1, <1>2, PTL DEF AppSpec

LEMMA ListedIsTrue == ListedInv => MarketList!ListedStatusIsTrue
<1> SUFFICES ASSUME ListedInv, NEW i \in DOMAIN listLoaded.markets
             PROVE  LET m == listLoaded.markets[i]
                        p == listOnChain.pools[i]
                    IN  /\ m.status = "expired" => listOnChain.height > p.expiry
                        /\ m.status = "settled" => p.settled
                        /\ m.status = "active" /\ m.left = MarketList!Null
                           => listLoaded.height = p.expiry
  BY DEF MarketList!ListedStatusIsTrue
<1> DEFINE m == listLoaded.markets[i]
           p == listOnChain.pools[i]
<1>1. i \in 1 .. Len(listLoaded.markets) BY DEF ListedInv
<1>2. i \in 1 .. Len(listOnChain.pools) BY <1>1 DEF ListedInv
<1>3. p \in ListedPool /\ p.expiry \in Nat
  <2>1. p \in ListedPool BY <1>2 DEF ListedInv
  <2> HIDE DEF p
  <2>2. QED BY <2>1 DEF ListedPool
<1>4. TrueCard(m, p, listLoaded.height) BY <1>1 DEF ListedInv
<1>5. listLoaded.height \in Nat /\ listOnChain.height \in Nat /\ listLoaded.height <= listOnChain.height
  BY DEF ListedInv
<1> HIDE DEF m, p
<1>6. /\ m.status = "expired" => listOnChain.height > p.expiry
      /\ m.status = "settled" => p.settled
      /\ m.status = "active" /\ m.left = MarketList!Null => listLoaded.height = p.expiry
  BY <1>3, <1>4, <1>5 DEF TrueCard, MarketList!TimeRemaining, MarketList!Null
<1>7. QED BY <1>6 DEF m, p

-----------------------------------------------------------------------------
(* The pages of the list.  Page p ends where page p + 1 begins; a filter   *)
(* that was normalised once is what its own link carries; and a bar is     *)
(* shown only beside a page that has markets, which is one of the pages.   *)

LEMMA PagesFlatten ==
  ASSUME NEW T, NEW ms \in Seq(T), NEW count,
         count = (Len(ms) + ListPerPage - 1) \div ListPerPage
  PROVE  /\ count \in Nat
         /\ MarketList!FlattenSeq([p \in 1 .. count |-> MarketList!PageOf(ms, p)]) = ms
<1> DEFINE pages == [p \in 1 .. count |-> MarketList!PageOf(ms, p)]
<1>1. ListPerPage \in Nat \ {0} BY ListsAssumption
<1>2. pages = PagesOf(ms, ListPerPage, count) BY Zenon DEF MarketList!PageOf, PagesOf, UpTo
<1> HIDE DEF pages
<1>3. count \in Nat /\ (count = 0 => ms = << >>) /\ (count # 0 => Joining(pages, count)[count] = ms)
  BY <1>1, <1>2, PagesJoined
<1>4. Len(pages) = count /\ (count = 0 => pages = << >>) BY <1>3 DEF pages
<1>5. count # 0 => pages # << >> /\ MarketList!FlattenSeq(pages) = Joining(pages, count)[count]
  BY <1>3, <1>4 DEF MarketList!FlattenSeq, Joining
<1>6. count = 0 => MarketList!FlattenSeq(pages) = << >> BY <1>4 DEF MarketList!FlattenSeq
<1>7. QED BY <1>3, <1>5, <1>6 DEF pages

IsFilters(f) ==
  f = [q |-> f.q, status |-> f.status, asset |-> f.asset, min |-> f.min, max |-> f.max,
       time |-> f.time, sort |-> f.sort]

LEMMA NormalFilters ==
  ASSUME NEW f, IsFilters(f)
  PROVE  /\ IsFilters(MarketList!Normalize(f))
         /\ MarketList!Normalize(MarketList!Normalize(f)) = MarketList!Normalize(f)
         /\ MarketList!FromParams(MarketList!ToParams(f)) = MarketList!Normalize(f)
<1> DEFINE N == MarketList!Normalize(f)
           status == MarketList!Valid(f.status, {"all", "open", "settled", "disputed", "frozen"}, "all")
           time == MarketList!Valid(f.time, {"all", "ending-24h", "ending-7d", "created-7d", "created-30d"}, "all")
           sort == MarketList!Valid(f.sort, {"newest", "ending-soon", "volume", "participants"}, "newest")
           D == MarketList!DefaultFilter
           ps == MarketList!ToParams(f)
           keys == {"q", "status", "asset", "min", "max", "time", "sort"}
<1>1. N = [f EXCEPT !.status = status, !.time = time, !.sort = sort]
  BY DEF MarketList!Normalize
<1>2. /\ status \in {"all", "open", "settled", "disputed", "frozen"}
      /\ time \in {"all", "ending-24h", "ending-7d", "created-7d", "created-30d"}
      /\ sort \in {"newest", "ending-soon", "volume", "participants"}
  <2>1. \A v, S, d : d \in S => MarketList!Valid(v, S, d) \in S BY Zenon DEF MarketList!Valid
  <2>2. QED BY <2>1
<1> HIDE DEF status, time, sort
<1>3. IsFilters(N) /\ N.status = status /\ N.time = time /\ N.sort = sort
  BY <1>1, <1>2, Zenon DEF IsFilters
<1>4. DOMAIN f = keys /\ DOMAIN N = keys BY <1>3 DEF IsFilters
<1>5. DOMAIN D = keys BY DEF MarketList!DefaultFilter
<1> HIDE DEF N, D
<1>6. MarketList!Normalize(N) = N
  <2>1. MarketList!Normalize(N) = [N EXCEPT !.status = N.status, !.time = N.time, !.sort = N.sort]
    BY <1>2, <1>3 DEF MarketList!Normalize, MarketList!Valid
  <2>2. QED BY <1>3, <2>1, Zenon DEF IsFilters
<1>7. ps = [k \in {key \in keys : N[key] # D[key]} |-> N[k]] BY <1>4 DEF MarketList!ToParams, N, D
<1> HIDE DEF ps, keys
<1>8. \A k \in keys : (IF k \in DOMAIN ps THEN ps[k] ELSE D[k]) = N[k] BY <1>7
<1>9. N = [k \in keys |-> N[k]] BY <1>3, <1>4 DEF IsFilters
<1>10. [k \in DOMAIN D |-> IF k \in DOMAIN ps THEN ps[k] ELSE D[k]] = N BY <1>5, <1>8, <1>9
<1>11. MarketList!FromParams(ps) = MarketList!Normalize(N) BY <1>10 DEF MarketList!FromParams, D
<1>12. QED BY <1>3, <1>6, <1>11 DEF N, ps

BrowseInv ==
  /\ listBrowse.page \in Nat \ {0}
  /\ listBrowse = [filters |-> listBrowse.filters, page |-> listBrowse.page]
  /\ IsFilters(listBrowse.filters)
  /\ MarketList!Normalize(listBrowse.filters) = listBrowse.filters

LEMMA BrowseInvKept == BrowseInv /\ [MarketList!MarketListNext]_listVars => BrowseInv'
<1> SUFFICES ASSUME BrowseInv, [MarketList!MarketListNext]_listVars PROVE BrowseInv' OBVIOUS
<1>1. ASSUME UNCHANGED listBrowse PROVE BrowseInv'
  <2>1. MarketList!Normalize(listBrowse.filters)' = MarketList!Normalize(listBrowse.filters)
    BY <1>1 DEF MarketList!Normalize, MarketList!Valid
  <2>2. QED BY <1>1, <2>1 DEF BrowseInv, MarketList!Normalize, MarketList!Valid
<1>2. CASE \/ MarketList!HeightKnown \/ MarketList!HeightUnknown \/ MarketList!HeightStale
           \/ MarketList!ChainGoesOn \/ UNCHANGED listVars
  BY <1>1, <1>2 DEF MarketList!HeightKnown, MarketList!HeightUnknown, MarketList!HeightStale,
     MarketList!ChainGoesOn, MarketList!Load, listVars
<1>3. ASSUME NEW p \in 1 .. ListMaxHeight, MarketList!GoToPage(p) PROVE BrowseInv'
  <2>1. listBrowse' = [listBrowse EXCEPT !.page = p] BY <1>3 DEF MarketList!GoToPage
  <2>2. listBrowse' = [filters |-> listBrowse.filters, page |-> p] BY <2>1 DEF BrowseInv
  <2>3. p \in Nat \ {0} OBVIOUS
  <2>4. QED BY <2>2, <2>3 DEF BrowseInv, MarketList!Normalize, MarketList!Valid
<1>4. ASSUME NEW f \in ListFilterSets, MarketList!ChooseFilters(f) \/ MarketList!OpenLink(f)
      PROVE  BrowseInv'
  <2>1. IsFilters(f) BY ListsAssumption DEF IsFilters
  <2>2. listBrowse' = [filters |-> MarketList!Normalize(f), page |-> 1]
    BY <1>4, <2>1, NormalFilters DEF MarketList!ChooseFilters, MarketList!OpenLink
  <2> DEFINE N == MarketList!Normalize(f)
  <2>3. IsFilters(N) /\ MarketList!Normalize(N) = N BY <2>1, NormalFilters
  <2> HIDE DEF N
  <2>4. listBrowse'.filters = N /\ listBrowse'.page = 1
        /\ listBrowse' = [filters |-> listBrowse'.filters, page |-> listBrowse'.page]
    BY <2>2 DEF N
  <2>5. QED BY <2>3, <2>4 DEF BrowseInv, MarketList!Normalize, MarketList!Valid
<1>5. QED BY <1>2, <1>3, <1>4 DEF MarketList!MarketListNext

LEMMA BrowseInvariant == AppSpec => []BrowseInv
<1>1. AppInit => BrowseInv
  <2> SUFFICES ASSUME MarketList!MarketListInit PROVE BrowseInv BY DEF AppInit
  <2> DEFINE D == MarketList!DefaultFilter
  <2>1. IsFilters(D) /\ MarketList!Normalize(D) = D
    <3>1. D = [q |-> "", status |-> "all", asset |-> "all", min |-> -1, max |-> -1,
               time |-> "all", sort |-> "newest"]
      BY DEF MarketList!DefaultFilter, MarketList!Null
    <3>2. MarketList!Valid(D.status, {"all", "open", "settled", "disputed", "frozen"}, "all") = "all"
      BY <3>1, Zenon DEF MarketList!Valid
    <3>3. MarketList!Valid(D.time, {"all", "ending-24h", "ending-7d", "created-7d", "created-30d"}, "all")
            = "all"
      BY <3>1, Zenon DEF MarketList!Valid
    <3>4. MarketList!Valid(D.sort, {"newest", "ending-soon", "volume", "participants"}, "newest")
            = "newest"
      BY <3>1, Zenon DEF MarketList!Valid
    <3>5. MarketList!Normalize(D) = [D EXCEPT !.status = "all", !.time = "all", !.sort = "newest"]
      BY <3>2, <3>3, <3>4, Zenon DEF MarketList!Normalize
    <3> HIDE DEF D
    <3>6. QED BY <3>1, <3>5, Zenon DEF IsFilters
  <2>2. listBrowse = [filters |-> D, page |-> 1] BY DEF MarketList!MarketListInit
  <2> HIDE DEF D
  <2>3. QED BY <2>1, <2>2 DEF BrowseInv
<1>2. BrowseInv /\ [AppNext]_appVars => BrowseInv'
  <2>1. [AppNext]_appVars => [MarketList!MarketListNext]_listVars
    BY DEF AppNext, Step, Still, appVars
  <2>2. QED BY <2>1, BrowseInvKept
<1>3. QED BY <1>1, <1>2, PTL DEF AppSpec

\* The buttons of the bar, for a page among at least two.
LEMMA NumbersOfPages ==
  ASSUME NEW total \in Nat, NEW current \in 1 .. total, total > 1
  PROVE  LET numbers == MarketList!PageNumbers(current, total)
         IN  /\ Len(numbers) <= 7 /\ MarketList!Contains(numbers, 1)
             /\ MarketList!Contains(numbers, total) /\ MarketList!Contains(numbers, current)
             /\ \A k \in 1 .. Len(numbers) - 1 :
                  numbers[k] # MarketList!Null /\ numbers[k + 1] # MarketList!Null
                    => numbers[k + 1] = numbers[k] + 1
<1> DEFINE numbers == MarketList!PageNumbers(current, total)
<1>1. CASE total <= 7
  <2>1. numbers = [i \in 1 .. total |-> i] BY <1>1 DEF MarketList!PageNumbers
  <2>2. Len(numbers) = total /\ \A i \in 1 .. total : numbers[i] = i BY <2>1
  <2> HIDE DEF numbers
  <2>3. 1 \in 1 .. total /\ total \in 1 .. total OBVIOUS
  <2>4. \A k \in 1 .. total - 1 : k \in 1 .. total /\ k + 1 \in 1 .. total OBVIOUS
  <2>5. QED BY <1>1, <2>2, <2>3, <2>4 DEF MarketList!Contains, numbers
<1>2. CASE total > 7 /\ current <= 4
  <2>1. numbers = <<1, 2, 3, 4, 5, -1, total>>
    BY <1>2 DEF MarketList!PageNumbers, MarketList!Null
  <2> HIDE DEF numbers
  <2>2. Len(numbers) = 7 /\ numbers[1] = 1 /\ numbers[2] = 2 /\ numbers[3] = 3 /\ numbers[4] = 4
        /\ numbers[5] = 5 /\ numbers[6] = -1 /\ numbers[7] = total
    BY <2>1
  <2>3. current \in 1 .. 7 /\ numbers[current] = current BY <1>2, <2>2
  <2>4. QED BY <2>2, <2>3 DEF MarketList!Contains, MarketList!Null, numbers
<1>3. CASE total > 7 /\ current > 4 /\ current >= total - 3
  <2>1. numbers = <<1, -1>> \o [i \in 1 .. 5 |-> total - 5 + i]
    BY <1>3 DEF MarketList!PageNumbers, MarketList!Null
  <2>2. Len(numbers) = 7 /\ numbers[1] = 1 /\ numbers[2] = -1
        /\ \A i \in 3 .. 7 : numbers[i] = total - 7 + i
    <3> DEFINE a == <<1, -1>>
               b == [i \in 1 .. 5 |-> total - 5 + i]
    <3>1. a \in Seq(Int) /\ Len(a) = 2 /\ a[1] = 1 /\ a[2] = -1 OBVIOUS
    <3>2. b \in Seq(Int) /\ Len(b) = 5 /\ \A i \in 1 .. 5 : b[i] = total - 5 + i OBVIOUS
    <3> HIDE DEF a, b
    <3>3. /\ Len(a \o b) = Len(a) + Len(b)
          /\ \A i \in 1 .. Len(a) + Len(b) :
               (a \o b)[i] = IF i <= Len(a) THEN a[i] ELSE b[i - Len(a)]
      BY <3>1, <3>2, ConcatProperties, Zenon
    <3>4. \A i \in 3 .. 7 : i - 2 \in 1 .. 5 /\ b[i - 2] = total - 7 + i BY <3>2
    <3>5. numbers = a \o b BY <2>1 DEF a, b
    <3> HIDE DEF numbers
    <3>6. Len(numbers) = 7 BY <3>1, <3>2, <3>3, <3>5
    <3>7. Len(a) + Len(b) = 7 BY <3>1, <3>2
    <3>8. \A i \in 1 .. 7 : numbers[i] = IF i <= 2 THEN a[i] ELSE b[i - 2]
      BY <3>1, <3>3, <3>5, <3>7
    <3>9. QED BY <3>1, <3>4, <3>6, <3>8
  <2> HIDE DEF numbers
  <2>3. numbers[7] = total BY <2>2
  <2>4. PICK i \in 3 .. 7 : i = current - total + 7 BY <1>3
  <2>5. numbers[i] = current BY <2>2, <2>4
  <2>6. QED BY <2>2, <2>3, <2>5 DEF MarketList!Contains, MarketList!Null, numbers
<1>4. CASE total > 7 /\ current > 4 /\ current < total - 3
  <2>1. numbers = <<1, -1, current - 1, current, current + 1, -1, total>>
    BY <1>4 DEF MarketList!PageNumbers, MarketList!Null
  <2> HIDE DEF numbers
  <2>2. Len(numbers) = 7 /\ numbers[1] = 1 /\ numbers[2] = -1 /\ numbers[3] = current - 1
        /\ numbers[4] = current /\ numbers[5] = current + 1 /\ numbers[6] = -1 /\ numbers[7] = total
    BY <2>1
  <2>3. QED BY <2>2 DEF MarketList!Contains, MarketList!Null, numbers
<1>5. QED BY <1>1, <1>2, <1>3, <1>4

LEMMA ListedPages == listLoaded.markets \in Seq({listLoaded.markets[i] : i \in 1 .. Len(listLoaded.markets)})
                       /\ BrowseInv => MarketList!PagesAreTheList
<1> SUFFICES ASSUME listLoaded.markets \in Seq({listLoaded.markets[i] : i \in 1 .. Len(listLoaded.markets)}),
                    BrowseInv
             PROVE  MarketList!PagesAreTheList
  OBVIOUS
<1> DEFINE ms == MarketList!Filtered
           T == {ms[i] : i \in 1 .. Len(ms)}
           all == listLoaded.markets
           f == listBrowse.filters
           page == listBrowse.page
           n == Len(ms)
           P == ListPerPage
           count == MarketList!PageCount
<1>1. ms \in Seq(T)
  <2>1. DOMAIN all = 1 .. Len(all) /\ Len(all) \in Nat OBVIOUS
  <2>2. IsFiniteSet(DOMAIN all) BY <2>1, PositionsFinite
  <2>3. ASSUME NEW chosen, NEW sort
        PROVE  \E m \in Nat : DOMAIN MarketList!Sorted(all, chosen, sort) = 1 .. m
                              /\ MarketList!Sorted(all, chosen, sort)
                                   = [k \in 1 .. m |-> MarketList!Sorted(all, chosen, sort)[k]]
    <3> DEFINE kept == {i \in DOMAIN all : chosen[i]}
    <3>1. IsFiniteSet(kept) BY <2>2, FS_Subset
    <3>2. Cardinality(kept) \in Nat BY <3>1, FS_CardinalityType
    <3>3. MarketList!Cardinality(kept) = Cardinality(kept) BY Zenon DEF MarketList!Cardinality, Cardinality
    <3> DEFINE m == Cardinality(kept)
               place == [i \in kept |-> MarketList!Cardinality({j \in kept :
                          MarketList!Before(all[j], all[i], sort) \/ (~MarketList!Before(all[i], all[j], sort) /\ j <= i)})]
               r == [k \in 1 .. m |-> all[CHOOSE i \in kept : place[i] = k]]
    <3>4. MarketList!Sorted(all, chosen, sort) = r BY <3>3 DEF MarketList!Sorted
    <3> HIDE DEF kept
    <3>5. DOMAIN r = 1 .. m /\ r = [k \in 1 .. m |-> r[k]] OBVIOUS
    <3> HIDE DEF r
    <3>6. QED BY <3>2, <3>4, <3>5
  <2>4. PICK m \in Nat : DOMAIN ms = 1 .. m /\ ms = [k \in 1 .. m |-> ms[k]]
    BY <2>3, Zenon DEF MarketList!Filtered, MarketList!FilterAndSort
  <2> HIDE DEF ms
  <2>5. Len(ms) = m BY <2>4
  <2>6. QED BY <2>4, <2>5
<1> HIDE DEF ms, T
<1>2. count = (n + P - 1) \div P BY DEF MarketList!PageCount, ms
<1>3. count \in Nat /\ MarketList!FlattenSeq([p \in 1 .. count |-> MarketList!PageOf(ms, p)]) = ms
  <2> HIDE DEF count
  <2>1. QED BY <1>1, <1>2, PagesFlatten
<1>4. MarketList!FilterAndSort(all, MarketList!FromParams(MarketList!ToParams(f))) = ms
  <2>1. MarketList!FromParams(MarketList!ToParams(f)) = f BY NormalFilters DEF BrowseInv
  <2> HIDE DEF all, f
  <2>2. QED BY <2>1 DEF MarketList!Filtered, ms, all, f
<1>5. ASSUME MarketList!BarShown PROVE page \in 1 .. count /\ count > 1
  <2>1. count > 1 BY <1>5 DEF MarketList!BarShown
  <2>2. MarketList!PageOf(ms, page) # << >>
    BY <1>5 DEF MarketList!BarShown, MarketList!GridShows, ms
  <2>3. page \in Nat /\ page >= 1 BY DEF BrowseInv
  <2>4. n \in Nat /\ P \in Nat \ {0} BY <1>1, ListsAssumption
  <2>5. P * count <= n + P - 1 /\ n + P - 1 < P * count + P
    <3>1. n + P - 1 \in Nat BY <2>4
    <3> HIDE DEF n, P, count
    <3>2. QED BY <1>2, <2>4, <3>1, DivNat
  <2> HIDE DEF n, P, count, page
  <2>6. (page - 1) * P + 1 <= n
    <3> SUFFICES ASSUME ~ ((page - 1) * P + 1 <= n) PROVE FALSE OBVIOUS
    <3> DEFINE last == IF page * P < n THEN page * P ELSE n
    <3>1. (page - 1) * P + 1 \in Int /\ page * P \in Int BY <2>3, <2>4
    <3>2. last \in Int /\ last < (page - 1) * P + 1 BY <2>4, <3>1
    <3>3. SubSeq(ms, (page - 1) * P + 1, last) = << >> BY <3>1, <3>2, SubSeqEmpty
    <3>4. MarketList!PageOf(ms, page) = SubSeq(ms, (page - 1) * P + 1, last)
      BY DEF MarketList!PageOf, n, P
    <3>5. QED BY <2>2, <3>3, <3>4
  <2>7. page <= count
    <3> SUFFICES ASSUME page >= count + 1 PROVE FALSE BY <1>3, <2>3
    <3>1. (page - 1) * P >= count * P BY <1>3, <2>3, <2>4
    <3>2. count * P = P * count /\ P * count \in Nat /\ (page - 1) * P \in Nat BY <1>3, <2>3, <2>4
    <3>3. QED BY <2>4, <2>5, <2>6, <3>1, <3>2
  <2>8. QED BY <1>3, <2>1, <2>3, <2>7
<1>6. ASSUME MarketList!BarShown
      PROVE  LET numbers == MarketList!PageNumbers(page, count)
             IN  /\ Len(numbers) <= 7 /\ MarketList!Contains(numbers, 1)
                 /\ MarketList!Contains(numbers, count) /\ MarketList!Contains(numbers, page)
                 /\ \A k \in 1 .. Len(numbers) - 1 :
                      numbers[k] # MarketList!Null /\ numbers[k + 1] # MarketList!Null
                        => numbers[k + 1] = numbers[k] + 1
  <2>1. page \in 1 .. count /\ count > 1 /\ count \in Nat BY <1>3, <1>5, <1>6
  <2> HIDE DEF page, count
  <2>2. QED BY <2>1, NumbersOfPages, Zenon
<1>7. QED BY <1>3, <1>4, <1>6 DEF MarketList!PagesAreTheList, ms

-----------------------------------------------------------------------------
(* The pages of pools.  An id of the page is still to be read, in flight,  *)
(* answered or missed, and never two of these, so that no answer comes     *)
(* twice; and the ids of a page are those of one quotient.                 *)

LEMMA ReadsStep == [AppNext]_appVars => [Reads!ReadsNext]_readsVars
BY DEF AppNext, Step, Still, appVars

LEMMA ReadsLists ==
  /\ \A s, P : Reads!Kept(s, P) = Kept(s, P)
  /\ \A s, key : Reads!LargestFirst(s, key) = LargestFirst(s, key)
<1>1. \A s, P : Reads!Kept(s, P) = Kept(s, P)
  BY Zenon DEF Reads!Kept, Reads!Ascending, Reads!Below, Reads!Cardinality,
     Kept, Ascending, Below, Cardinality
<1>2. \A s, key : Reads!LargestFirst(s, key) = LargestFirst(s, key)
  BY Zenon DEF Reads!LargestFirst, Reads!Cardinality, LargestFirst, Cardinality
<1>3. QED BY <1>1, <1>2

(* The ids of a page ascend from its end to its start.                     *)
LEMMA IdsOfPage ==
  ASSUME NEW count \in Nat, NEW p \in Nat
  PROVE  LET ids == Reads!PageIds(count, p)
         IN  /\ ids \in Seq(Nat) /\ Apart(ids)
             /\ \A id \in Nat \ {0} : Among(ids, id) <=>
                  id <= count - p * ReadFetchSize /\ id > count - p * ReadFetchSize - ReadFetchSize
<1> DEFINE F == ReadFetchSize
           start == Reads!Upto(count - p * F)
           end == Reads!Upto(start - F + 1)
           size == start - end + 1
           ids == [i \in 1 .. size |-> end + i - 1]
<1>1. F \in Nat \ {0} /\ p * F \in Nat BY ListsAssumption
<1> DEFINE first == count - p * F
<1>2. first \in Int BY <1>1
<1>3. start = IF first > 0 THEN first ELSE 0 BY DEF Reads!Upto
<1>4. end = IF start - F + 1 > 0 THEN start - F + 1 ELSE 0 BY DEF Reads!Upto
<1>5. Reads!PageIds(count, p) = ids BY DEF Reads!PageIds
<1> HIDE DEF F, first, start, end
<1>6. start \in Nat /\ end \in Nat /\ end <= start BY <1>1, <1>2, <1>3, <1>4
<1>7. size \in Nat /\ size >= 1 BY <1>6
<1>8. ids \in Seq(Nat) /\ Len(ids) = size /\ \A i \in 1 .. size : ids[i] = end + i - 1
  BY <1>6, <1>7
<1> HIDE DEF ids
<1>9. Apart(ids) BY <1>6, <1>7, <1>8 DEF Apart
<1>10. ASSUME NEW id \in Nat \ {0}
       PROVE  Among(ids, id) <=> id <= first /\ id > first - F
  <2>1. Among(ids, id) => end <= id /\ id <= start BY <1>6, <1>7, <1>8 DEF Among
  <2>2. ASSUME end <= id, id <= start PROVE Among(ids, id)
    <3>1. id - end + 1 \in 1 .. size BY <1>6, <2>2
    <3>2. ids[id - end + 1] = id BY <1>6, <1>8, <3>1
    <3>3. QED BY <1>8, <3>1, <3>2 DEF Among
  <2>3. end <= id /\ id <= start <=> id <= first /\ id > first - F
    BY <1>1, <1>2, <1>3, <1>4, <1>6
  <2>4. QED BY <2>1, <2>2, <2>3
<1>11. QED BY <1>5, <1>8, <1>9, <1>10 DEF first, F

(* Some of the entries of a list without repetition, in their order.       *)
LEMMA KeptAmong ==
  ASSUME NEW s \in Seq(Nat), Apart(s), NEW places \in SUBSET (1 .. Len(s))
  PROVE  LET r == Kept(s, places)
         IN  r \in Seq(Nat) /\ Apart(r) /\ (\A id : Among(r, id) => Among(s, id))
             /\ \A k \in places : Among(r, s[k])
<1> DEFINE r == Kept(s, places)
           a(n) == Ascending(places)[n]
<1>1. /\ r \in Seq(Nat) /\ Len(r) = Cardinality(places) /\ Cardinality(places) \in Nat
      /\ \A n \in 1 .. Cardinality(places) : a(n) \in places /\ r[n] = s[a(n)]
      /\ \A i \in places : \E n \in 1 .. Cardinality(places) : a(n) = i
      /\ \A m, n \in 1 .. Cardinality(places) : m < n => a(m) < a(n)
  <2>1. /\ Cardinality(places) \in Nat
        /\ Kept(s, places) \in Seq(Nat) /\ Len(Kept(s, places)) = Cardinality(places)
        /\ Ascending(places) \in [1 .. Cardinality(places) -> places]
        /\ \A n \in 1 .. Cardinality(places) : Kept(s, places)[n] = s[Ascending(places)[n]]
        /\ \A i \in places : \E n \in 1 .. Cardinality(places) : Ascending(places)[n] = i
        /\ \A m, n \in 1 .. Cardinality(places) : m < n => Ascending(places)[m] < Ascending(places)[n]
    BY KeptList
  <2>2. QED BY <2>1, Zenon
<1>2. Len(s) \in Nat /\ places \subseteq 1 .. Len(s) /\ places \subseteq Int OBVIOUS
<1> HIDE DEF r, a
<1>3. Apart(r)
  <2> SUFFICES ASSUME NEW m \in 1 .. Len(r), NEW n \in 1 .. Len(r), r[m] = r[n] PROVE m = n
    BY DEF Apart
  <2>1. m \in 1 .. Cardinality(places) /\ n \in 1 .. Cardinality(places) BY <1>1
  <2>2. a(m) \in places /\ a(n) \in places /\ s[a(m)] = s[a(n)] BY <1>1, <2>1, Zenon
  <2>3. a(m) \in 1 .. Len(s) /\ a(n) \in 1 .. Len(s) BY <1>2, <2>2, Zenon
  <2>4. a(m) = a(n) BY <2>2, <2>3, Zenon DEF Apart
  <2>5. a(m) \in Int BY <1>2, <2>2, Zenon
  <2>6. ~ (m < n) /\ ~ (n < m) BY <1>1, <2>1, <2>4, <2>5
  <2>7. m \in Int /\ n \in Int OBVIOUS
  <2>8. QED BY <2>6, <2>7
<1>4. \A id : Among(r, id) => Among(s, id) BY <1>1, <1>2, Zenon DEF Among
<1>5. \A k \in places : Among(r, s[k]) BY <1>1, Zenon DEF Among
<1>6. QED BY <1>1, <1>3, <1>4, <1>5 DEF r

LEMMA ListSorted ==
  ASSUME NEW s \in Seq(Nat), Apart(s)
  PROVE  LET r == Reads!LargestFirst(s, s)
         IN  /\ r \in Seq(Nat) /\ \A x : Among(r, x) <=> Among(s, x)
             /\ \A i, j \in 1 .. Len(r) : i < j => r[i] > r[j]
<1> DEFINE r == LargestFirst(s, s)
<1>1. \A i \in 1 .. Len(s) : s[i] \in Int OBVIOUS
<1>2. r \in Seq(Nat) /\ \A x : Among(r, x) <=> Among(s, x) BY <1>1, SortedAlike
<1>3. \A i, j \in 1 .. Len(r) : i < j => r[i] > r[j] BY SortedDescends
<1>4. Reads!LargestFirst(s, s) = r BY ReadsLists
<1> HIDE DEF r
<1>5. QED BY <1>2, <1>3, <1>4

ReadsInv ==
  /\ readsTotal \in 0 .. ReadMaxPools
  /\ readsPage = [asked |-> readsPage.asked, ids |-> readsPage.ids]
  /\ readsPage.ids \in Seq(Nat) /\ Apart(readsPage.ids)
  /\ readsFetch = "count" => readsPage.asked \in Nat
  /\ readsListed.ids \in Seq(Nat)
  /\ readsFetch # "done" => readsListed.ids = << >>
  /\ readsListed = [ids |-> readsListed.ids, batch |-> readsListed.batch]
  /\ \A i, j \in 1 .. Len(readsListed.ids) : i < j => readsListed.ids[i] > readsListed.ids[j]
  /\ \A id : Among(readsListed.ids, id) => Among(readsPage.ids, id)
  /\ readsUnstarted \in Seq(Nat) /\ Apart(readsUnstarted)
  /\ readsAnswered \in Seq(Nat) /\ Apart(readsAnswered) /\ readsInFlight \subseteq Nat
  /\ \A id : Among(readsUnstarted, id) \/ id \in readsInFlight \/ Among(readsAnswered, id)
               => Among(readsPage.ids, id)
  /\ \A id : ~ (Among(readsUnstarted, id) /\ id \in readsInFlight)
  /\ \A id : ~ (Among(readsUnstarted, id) /\ Among(readsAnswered, id))
  /\ \A id : ~ (id \in readsInFlight /\ Among(readsAnswered, id))
  /\ readsFetch \in {"idle", "count", "batch"} =>
       readsUnstarted = << >> /\ readsAnswered = << >> /\ readsInFlight = {}

(* An id leaves what is unstarted, in flight or answered for the next.     *)
LEMMA IdsKept ==
  ASSUME ReadsInv, readsFetch \notin {"idle", "count", "batch"}, UNCHANGED <<readsTotal, readsPage, readsListed>>,
         readsFetch' \notin {"idle", "count", "batch"}, readsFetch = "done" => readsFetch' = "done",
         readsFetch # "done" => readsFetch' # "done",
         readsUnstarted' \in Seq(Nat), Apart(readsUnstarted'),
         readsAnswered' \in Seq(Nat), Apart(readsAnswered'), readsInFlight' \subseteq Nat,
         \A id : Among(readsUnstarted', id) \/ id \in readsInFlight' \/ Among(readsAnswered', id)
                  => Among(readsPage.ids, id),
         \A id : ~ (Among(readsUnstarted', id) /\ id \in readsInFlight'),
         \A id : ~ (Among(readsUnstarted', id) /\ Among(readsAnswered', id)),
         \A id : ~ (id \in readsInFlight' /\ Among(readsAnswered', id))
  PROVE  ReadsInv'
BY ZenonT(30) DEF ReadsInv, Among, Apart

LEMMA ListedKept ==
  ASSUME ReadsInv, NEW ids \in Seq(Nat), Apart(ids), NEW batch, Reads!Listed(ids, batch), readsFetch # "done",
         \A id : Among(ids, id) => Among(readsPage.ids, id),
         UNCHANGED <<readsTotal, readsPage, readsUnstarted, readsInFlight, readsAnswered>>
  PROVE  ReadsInv'
<1> DEFINE r == Reads!LargestFirst(ids, ids)
<1>1. readsFetch' = "done" /\ readsListed' = [ids |-> r, batch |-> batch] BY DEF Reads!Listed
<1>2. r \in Seq(Nat) /\ (\A x : Among(r, x) <=> Among(ids, x))
      /\ \A i, j \in 1 .. Len(r) : i < j => r[i] > r[j]
  BY ListSorted
<1> HIDE DEF r
<1>3. readsListed'.ids = r /\ readsListed' = [ids |-> readsListed'.ids, batch |-> readsListed'.batch]
  BY <1>1
<1>5. \A id : Among(r, id) => Among(readsPage.ids, id) BY <1>2
<1>6. QED BY <1>1, <1>2, <1>3, <1>5 DEF ReadsInv, Among, Apart

LEMMA ReadsInvKept == ReadsInv /\ [AppNext]_appVars => ReadsInv'
<1> SUFFICES ASSUME ReadsInv, [AppNext]_appVars PROVE ReadsInv' OBVIOUS
<1>a. ReadMaxPools \in Nat /\ ReadFetchSize \in Nat \ {0} BY ListsAssumption
<1>0. CASE UNCHANGED readsVars BY <1>0 DEF ReadsInv, readsVars, Among, Apart
<1>1. CASE \E p \in 0 .. ReadLastPage : Reads!FetchAllPools(p)
  <2>1. PICK p \in 0 .. ReadLastPage : Reads!FetchAllPools(p) BY <1>1
  <2>2. readsPage' = [asked |-> p, ids |-> <<>>] /\ readsFetch = "idle" /\ readsFetch' = "count"
        /\ UNCHANGED <<readsTotal, readsUnstarted, readsInFlight, readsAnswered, readsListed>>
    BY <2>1 DEF Reads!FetchAllPools
  <2>3. p \in Nat OBVIOUS
  <2>4. \A id : ~ Among(readsListed.ids, id) BY <2>2 DEF ReadsInv, Among
  <2>5. QED BY <2>2, <2>3, <2>4 DEF ReadsInv, Among, Apart
<1>2. CASE \E count \in 0 .. ReadMaxPools : Reads!CountRead(count)
  <2>1. PICK count \in 0 .. ReadMaxPools : Reads!CountRead(count) BY <1>2
  <2>2. /\ readsFetch = "count" /\ count \in {0, readsTotal}
        /\ UNCHANGED <<readsTotal, readsUnstarted, readsInFlight, readsAnswered>>
    BY <2>1 DEF Reads!CountRead
  <2>3. readsListed.ids = <<>> /\ readsPage.asked \in Nat /\ readsUnstarted = << >>
        /\ readsAnswered = << >> /\ readsInFlight = {}
    BY <2>2 DEF ReadsInv
  <2>4. CASE count = 0
    <3>1. readsFetch' = "done" /\ readsListed' = readsListed /\ readsPage' = readsPage
      BY <2>1, <2>4 DEF Reads!CountRead
    <3>2. \A id : ~ Among(<< >>, id) BY DEF Among
    <3>3. /\ readsTotal' = readsTotal /\ readsUnstarted' = readsUnstarted
          /\ readsInFlight' = readsInFlight /\ readsAnswered' = readsAnswered
      BY <2>2
    <3> DEFINE list == readsListed.ids
               ids == readsPage.ids
    <3>4. list = << >> /\ readsListed'.ids = list /\ readsPage'.ids = ids BY <2>3, <3>1
    <3>5. /\ list \in Seq(Nat) /\ ids \in Seq(Nat) /\ Apart(ids) /\ readsTotal \in 0 .. ReadMaxPools
          /\ readsPage = [asked |-> readsPage.asked, ids |-> ids]
          /\ readsListed = [ids |-> list, batch |-> readsListed.batch]
          /\ \A i, j \in 1 .. Len(list) : i < j => list[i] > list[j]
      BY DEF ReadsInv
    <3>6. readsUnstarted \in Seq(Nat) /\ Apart(readsUnstarted) /\ readsAnswered \in Seq(Nat)
          /\ Apart(readsAnswered) /\ readsInFlight \subseteq Nat
      BY DEF ReadsInv
    <3> HIDE DEF list, ids
    <3>7. \A id : /\ ~ Among(list, id) /\ ~ Among(readsUnstarted, id) /\ ~ Among(readsAnswered, id)
                  /\ id \notin readsInFlight
      BY <2>3, <3>2, <3>4
    <3>8. /\ readsTotal' \in 0 .. ReadMaxPools /\ readsFetch' = "done"
          /\ readsPage' = [asked |-> readsPage'.asked, ids |-> readsPage'.ids]
          /\ readsPage'.ids \in Seq(Nat) /\ Apart(readsPage'.ids)
          /\ readsListed'.ids \in Seq(Nat)
          /\ readsListed' = [ids |-> readsListed'.ids, batch |-> readsListed'.batch]
      BY <3>1, <3>3, <3>4, <3>5
    <3>9. \A i, j \in 1 .. Len(readsListed'.ids) : i < j => readsListed'.ids[i] > readsListed'.ids[j]
      BY <3>4, <3>5
    <3>10. \A id : /\ ~ Among(readsListed'.ids, id) /\ ~ Among(readsUnstarted', id)
                   /\ ~ Among(readsAnswered', id) /\ id \notin readsInFlight'
      BY <3>3, <3>4, <3>7
    <3>11. readsUnstarted' \in Seq(Nat) /\ Apart(readsUnstarted') /\ readsAnswered' \in Seq(Nat)
           /\ Apart(readsAnswered') /\ readsInFlight' \subseteq Nat
      BY <3>3, <3>6
    <3>12. QED BY <3>8, <3>9, <3>10, <3>11, Zenon DEF ReadsInv
  <2>5. CASE count # 0
    <3>1. /\ readsFetch' = "batch" /\ UNCHANGED readsListed
          /\ readsPage' = [asked |-> readsPage.asked, ids |-> Reads!PageIds(count, readsPage.asked)]
      BY <2>1, <2>5 DEF Reads!CountRead, ReadsInv
    <3> DEFINE ids == Reads!PageIds(count, readsPage.asked)
    <3>2. ids \in Seq(Nat) /\ Apart(ids)
      <4>1. count \in Nat BY <1>a
      <4>2. QED BY <2>3, <4>1, IdsOfPage
    <3>3. readsPage' = [asked |-> readsPage.asked, ids |-> ids] BY <3>1
    <3> HIDE DEF ids
    <3>4. readsPage' = [asked |-> readsPage'.asked, ids |-> readsPage'.ids] /\ readsPage'.ids = ids BY <3>3
    <3>5. readsFetch' = "batch" /\ UNCHANGED readsListed BY <3>1
    <3>6. \A id : ~ Among(<< >>, id) BY DEF Among
    <3>7. \A id : ~ Among(readsListed'.ids, id) /\ ~ Among(readsUnstarted', id) /\ ~ Among(readsAnswered', id)
                  /\ id \notin readsInFlight'
      BY <2>2, <2>3, <3>5, <3>6
    <3>8. readsPage'.ids \in Seq(Nat) /\ Apart(readsPage'.ids) BY <3>2, <3>4
    <3>9. /\ readsTotal' = readsTotal /\ readsUnstarted' = << >> /\ readsAnswered' = << >>
          /\ readsInFlight' = {} /\ readsListed' = readsListed /\ readsFetch = "count"
      BY <2>2, <2>3, <3>5
    <3>10. QED BY <3>4, <3>5, <3>7, <3>8, <3>9 DEF ReadsInv, Among, Apart
  <2>6. QED BY <2>4, <2>5
<1>3. CASE Reads!BatchRead
  <2> DEFINE places == {i \in DOMAIN readsPage.ids : Reads!Exists(readsPage.ids[i])}
             ids == Kept(readsPage.ids, places)
  <2>1. readsFetch = "batch" /\ Reads!Listed(ids, TRUE)
        /\ UNCHANGED <<readsTotal, readsPage, readsUnstarted, readsInFlight, readsAnswered>>
    BY <1>3, ReadsLists DEF Reads!BatchRead
  <2>a. readsPage.ids \in Seq(Nat) /\ Apart(readsPage.ids) BY DEF ReadsInv
  <2>b. DOMAIN readsPage.ids = 1 .. Len(readsPage.ids) BY <2>a
  <2>2. readsPage.ids \in Seq(Nat) /\ places \in SUBSET (1 .. Len(readsPage.ids)) /\ Apart(readsPage.ids)
    BY <2>a, <2>b
  <2> HIDE DEF places
  <2>3. ids \in Seq(Nat) /\ Apart(ids) /\ \A id : Among(ids, id) => Among(readsPage.ids, id)
    BY <2>2, KeptAmong
  <2> HIDE DEF ids
  <2>4. QED BY <2>1, <2>3, ListedKept
<1>4. CASE Reads!BatchFails
  <2>1. readsFetch = "batch" /\ readsFetch' = "launching" /\ readsUnstarted' = readsPage.ids
        /\ UNCHANGED <<readsTotal, readsPage, readsInFlight, readsAnswered, readsListed>>
    BY <1>4 DEF Reads!BatchFails
  <2>2. QED BY <2>1 DEF ReadsInv, Among, Apart
<1>5. CASE Reads!Launch
  <2>1. /\ readsFetch = "launching" /\ readsUnstarted # <<>> /\ readsUnstarted' = Tail(readsUnstarted)
        /\ readsInFlight' = readsInFlight \cup {Head(readsUnstarted)}
        /\ readsFetch' \in {"launching", "racing"}
        /\ UNCHANGED <<readsTotal, readsPage, readsAnswered, readsListed>>
    BY <1>5 DEF Reads!Launch
  <2>2. readsUnstarted \in Seq(Nat) /\ Apart(readsUnstarted) BY DEF ReadsInv
  <2>3. /\ readsUnstarted' \in Seq(Nat) /\ Apart(readsUnstarted') /\ Head(readsUnstarted) \in Nat
        /\ Among(readsUnstarted, Head(readsUnstarted))
        /\ \A x : Among(readsUnstarted', x) <=> Among(readsUnstarted, x) /\ x # Head(readsUnstarted)
    BY <2>1, <2>2, SequenceTail
  <2> DEFINE h == Head(readsUnstarted)
  <2>4. h \in Nat /\ readsInFlight' = readsInFlight \cup {h} /\ Among(readsUnstarted, h)
        /\ \A x : Among(readsUnstarted', x) <=> Among(readsUnstarted, x) /\ x # h
    BY <2>1, <2>3
  <2> HIDE DEF h
  <2>5. readsAnswered' = readsAnswered /\ readsAnswered \in Seq(Nat) /\ Apart(readsAnswered)
        /\ readsInFlight \subseteq Nat
    BY <2>1 DEF ReadsInv
  <2>6. \A x : Among(readsAnswered', x) <=> Among(readsAnswered, x) BY <2>5
  <2>7. readsAnswered' \in Seq(Nat) /\ Apart(readsAnswered') /\ readsInFlight' \subseteq Nat
    BY <2>4, <2>5
  <2>8. /\ \A id : Among(readsUnstarted, id) \/ id \in readsInFlight \/ Among(readsAnswered, id)
                     => Among(readsPage.ids, id)
        /\ \A id : ~ (Among(readsUnstarted, id) /\ id \in readsInFlight)
        /\ \A id : ~ (Among(readsUnstarted, id) /\ Among(readsAnswered, id))
        /\ \A id : ~ (id \in readsInFlight /\ Among(readsAnswered, id))
    BY DEF ReadsInv
  <2>9. /\ \A id : Among(readsUnstarted', id) \/ id \in readsInFlight' \/ Among(readsAnswered', id)
                     => Among(readsPage.ids, id)
        /\ \A id : ~ (Among(readsUnstarted', id) /\ id \in readsInFlight')
        /\ \A id : ~ (Among(readsUnstarted', id) /\ Among(readsAnswered', id))
        /\ \A id : ~ (id \in readsInFlight' /\ Among(readsAnswered', id))
    BY <2>4, <2>6, <2>8
  <2>10. /\ readsFetch \notin {"idle", "count", "batch"} /\ readsFetch' \notin {"idle", "count", "batch"}
         /\ (readsFetch = "done" => readsFetch' = "done") /\ (readsFetch # "done" => readsFetch' # "done")
         /\ UNCHANGED <<readsTotal, readsPage, readsListed>>
    BY <2>1
  <2>11. QED BY <2>3, <2>7, <2>9, <2>10, IdsKept
<1>6. CASE Reads!Raced
  <2>1. /\ readsFetch = "racing" /\ readsFetch' = "launching"
        /\ UNCHANGED <<readsTotal, readsPage, readsUnstarted, readsInFlight, readsAnswered, readsListed>>
    BY <1>6 DEF Reads!Raced
  <2>2. QED BY <2>1 DEF ReadsInv, Among, Apart
<1>7. CASE \E id \in readsInFlight, ok \in BOOLEAN : Reads!PoolRead(id, ok)
  <2>1. PICK id \in readsInFlight, ok \in BOOLEAN : Reads!PoolRead(id, ok) BY <1>7
  <2>2. /\ readsInFlight' = readsInFlight \ {id}
        /\ readsAnswered' \in {readsAnswered, Append(readsAnswered, id)}
        /\ UNCHANGED <<readsTotal, readsPage, readsFetch, readsUnstarted, readsListed>>
    BY <2>1 DEF Reads!PoolRead
  <2>3. readsFetch \notin {"idle", "count", "batch"} BY <2>1 DEF ReadsInv
  <2>4. readsAnswered \in Seq(Nat) /\ Apart(readsAnswered) /\ id \in Nat /\ ~ Among(readsAnswered, id)
        /\ ~ Among(readsUnstarted, id) /\ readsUnstarted \in Seq(Nat) /\ Apart(readsUnstarted)
        /\ readsInFlight \subseteq Nat
    BY <2>1 DEF ReadsInv
  <2>5. /\ readsAnswered' \in Seq(Nat) /\ Apart(readsAnswered')
        /\ \A x : Among(readsAnswered', x) => Among(readsAnswered, x) \/ x = id
    <3>1. CASE readsAnswered' = readsAnswered BY <2>4, <3>1
    <3>2. CASE readsAnswered' = Append(readsAnswered, id) BY <2>4, <3>2, SequenceAppend
    <3>3. QED BY <2>2, <3>1, <3>2
  <2>6. readsUnstarted' \in Seq(Nat) /\ Apart(readsUnstarted') /\ readsInFlight' \subseteq Nat
        /\ \A x : Among(readsUnstarted', x) <=> Among(readsUnstarted, x)
    BY <2>2, <2>4
  <2>8. /\ \A x : Among(readsUnstarted, x) \/ x \in readsInFlight \/ Among(readsAnswered, x)
                     => Among(readsPage.ids, x)
        /\ \A x : ~ (Among(readsUnstarted, x) /\ x \in readsInFlight)
        /\ \A x : ~ (Among(readsUnstarted, x) /\ Among(readsAnswered, x))
        /\ \A x : ~ (x \in readsInFlight /\ Among(readsAnswered, x))
    BY Zenon DEF ReadsInv
  <2>9. /\ \A x : Among(readsUnstarted', x) \/ x \in readsInFlight' \/ Among(readsAnswered', x)
                     => Among(readsPage.ids, x)
        /\ \A x : ~ (Among(readsUnstarted', x) /\ x \in readsInFlight')
        /\ \A x : ~ (Among(readsUnstarted', x) /\ Among(readsAnswered', x))
        /\ \A x : ~ (x \in readsInFlight' /\ Among(readsAnswered', x))
    BY <2>1, <2>2, <2>4, <2>5, <2>6, <2>8
  <2>10. /\ readsFetch' \notin {"idle", "count", "batch"}
         /\ (readsFetch = "done" => readsFetch' = "done") /\ (readsFetch # "done" => readsFetch' # "done")
         /\ UNCHANGED <<readsTotal, readsPage, readsListed>>
    BY <2>2, <2>3
  <2>11. QED BY <2>3, <2>5, <2>6, <2>9, <2>10, IdsKept
<1>8. CASE Reads!AllRead
  <2>1. /\ readsFetch = "launching" /\ Reads!Listed(readsAnswered, FALSE)
        /\ UNCHANGED <<readsTotal, readsPage, readsUnstarted, readsInFlight, readsAnswered>>
    BY <1>8 DEF Reads!AllRead
  <2>2. /\ readsAnswered \in Seq(Nat) /\ Apart(readsAnswered)
        /\ \A id : Among(readsAnswered, id) => Among(readsPage.ids, id)
    BY DEF ReadsInv
  <2>3. QED BY <2>1, <2>2, ListedKept
<1>9. CASE Reads!PoolCreated
  <2>1. /\ readsTotal < ReadMaxPools /\ readsTotal' = readsTotal + 1
        /\ UNCHANGED <<readsPage, readsFetch, readsUnstarted, readsInFlight, readsAnswered, readsListed>>
    BY <1>9 DEF Reads!PoolCreated
  <2>2. readsTotal' \in 0 .. ReadMaxPools
    <3>1. readsTotal \in 0 .. ReadMaxPools BY DEF ReadsInv
    <3>2. QED BY <1>a, <2>1, <3>1
  <2>3. QED BY <2>1, <2>2 DEF ReadsInv, Among, Apart
<1>10. CASE \E reader \in Reads!Readers, v \in Reads!ContractValues : Reads!simulateContractRead(reader, v)
  <2>1. UNCHANGED <<readsTotal, readsPage, readsFetch, readsUnstarted, readsInFlight, readsAnswered, readsListed>>
    BY <1>10 DEF Reads!simulateContractRead, Reads!fetchVars
  <2>2. QED BY <2>1 DEF ReadsInv, Among, Apart
<1>11. [Reads!ReadsNext]_readsVars BY ReadsStep
<1>12. QED BY <1>0, <1>1, <1>2, <1>3, <1>4, <1>5, <1>6, <1>7, <1>8, <1>9, <1>10, <1>11
         DEF Reads!ReadsNext

LEMMA ReadsInvariant == AppSpec => []ReadsInv
<1>1. AppInit => ReadsInv
  BY ListsAssumption DEF AppInit, Reads!ReadsInit, Reads!FetchInit, Reads!NoPage, Reads!NotListed,
     ReadsInv, Among, Apart
<1>2. QED BY <1>1, ReadsInvKept, PTL DEF AppSpec

(* What a page waits for.  The array of a page read pool by pool keeps its *)
(* first Concurrency - 1 reads, and every read launched is in flight,      *)
(* answered or missed.                                                     *)
Launched == Len(readsPage.ids) - Len(readsUnstarted)

Queued(ids, rest) ==
  /\ Len(rest) <= Len(ids)
  /\ \A i \in 1 .. Len(rest) : rest[i] = ids[Len(ids) - Len(rest) + i]

Awaited(ids, n, array) ==
  \A k \in 1 .. n : k < ReadConcurrency => k <= Len(array) /\ array[k] = ids[k]

Traced(ids, n, flying, answers, missed) ==
  \A k \in 1 .. n : ids[k] = 0 \/ ids[k] \in flying \/ Among(answers, ids[k]) \/ ids[k] \in missed

Complete(ids, list, batch, missed) ==
  \A k \in 1 .. Len(ids) :
    ids[k] # 0 /\ ids[k] \notin missed /\ (batch \/ k < ReadConcurrency) => Among(list, ids[k])

ReadsWhole ==
  /\ \A k \in 1 .. Len(readsPage.ids) : readsPage.ids[k] <= readsTotal
  /\ readsFetch \in {"idle", "count"} => readsPage.ids = << >>
  /\ readsFetch \in {"idle", "count", "batch"} => readsExecuting = << >> /\ readsUnstarted = << >>
  /\ readsFetch \in {"launching", "racing"} =>
       /\ readsExecuting \in Seq(Nat)
       /\ Queued(readsPage.ids, readsUnstarted)
       /\ Awaited(readsPage.ids, Launched, readsExecuting)
       /\ Traced(readsPage.ids, Launched, readsInFlight, readsAnswered, readsMissing)
  /\ readsFetch = "launching" =>
       Len(readsExecuting) = IF Launched < ReadConcurrency THEN Launched ELSE ReadConcurrency - 1
  /\ readsFetch = "racing" =>
       Len(readsExecuting) = ReadConcurrency /\ Launched >= ReadConcurrency
  /\ readsFetch = "done" =>
       Complete(readsPage.ids, readsListed.ids, readsListed.batch, readsMissing)

LEMMA ReadsWholeKept ==
  ASSUME ReadsInv, ReadsWhole, [AppNext]_appVars
  PROVE  ReadsWhole'
<1>a. /\ ReadMaxPools \in Nat /\ ReadFetchSize \in Nat \ {0} /\ ReadConcurrency \in Nat \ {0}
      /\ readsTotal \in Nat /\ readsPage.ids \in Seq(Nat) /\ readsUnstarted \in Seq(Nat)
      /\ readsAnswered \in Seq(Nat)
  BY ListsAssumption DEF ReadsInv
<1>0. CASE UNCHANGED readsVars BY <1>0 DEF ReadsWhole, readsVars, Launched, Among, Queued, Awaited, Traced, Complete
<1>1. CASE \E p \in 0 .. ReadLastPage : Reads!FetchAllPools(p)
  <2>1. PICK p \in 0 .. ReadLastPage : Reads!FetchAllPools(p) BY <1>1
  <2>2. readsPage' = [asked |-> p, ids |-> << >>] /\ readsFetch = "idle" /\ readsFetch' = "count"
        /\ UNCHANGED <<readsTotal, readsUnstarted, readsExecuting>>
    BY <2>1 DEF Reads!FetchAllPools
  <2>3. QED BY <2>2 DEF ReadsWhole
<1>2. CASE \E count \in 0 .. ReadMaxPools : Reads!CountRead(count)
  <2>1. PICK count \in 0 .. ReadMaxPools : Reads!CountRead(count) BY <1>2
  <2>2. /\ readsFetch = "count" /\ count \in {0, readsTotal} /\ readsPage.ids = << >>
        /\ readsExecuting = << >> /\ readsUnstarted = << >> /\ readsPage.asked \in Nat
        /\ UNCHANGED <<readsTotal, readsUnstarted, readsExecuting>>
    BY <2>1 DEF Reads!CountRead, ReadsWhole, ReadsInv
  <2>3. CASE count = 0
    <3>1. readsFetch' = "done" /\ UNCHANGED readsPage BY <2>1, <2>3 DEF Reads!CountRead
    <3>2. QED BY <2>2, <3>1 DEF ReadsWhole, Complete
  <2>4. CASE count # 0
    <3> DEFINE ids == Reads!PageIds(count, readsPage.asked)
    <3>1. readsFetch' = "batch" /\ readsPage' = [readsPage EXCEPT !.ids = ids]
      BY <2>1, <2>4 DEF Reads!CountRead
    <3>2. readsPage'.ids = ids BY <3>1 DEF ReadsInv
    <3>3. ids \in Seq(Nat) /\ \A x \in Nat \ {0} : Among(ids, x) => x <= count - readsPage.asked * ReadFetchSize
      <4>1. count \in Nat BY <1>a
      <4>2. QED BY <2>2, <4>1, IdsOfPage
    <3> HIDE DEF ids
    <3>4. count - readsPage.asked * ReadFetchSize <= readsTotal
      <4>1. readsPage.asked * ReadFetchSize \in Nat BY <1>a, <2>2
      <4>2. QED BY <1>a, <2>2, <4>1
    <3>5. ASSUME NEW k \in 1 .. Len(ids) PROVE ids[k] <= readsTotal
      <4>1. ids[k] \in Nat /\ Among(ids, ids[k]) BY <3>3 DEF Among
      <4>2. readsPage.asked * ReadFetchSize \in Nat BY <1>a, <2>2
      <4> DEFINE x == ids[k]
                 last == count - readsPage.asked * ReadFetchSize
      <4>3. last \in Int /\ last <= readsTotal BY <1>a, <2>2, <3>4, <4>2
      <4>4. x \in Nat /\ (x # 0 => x <= last) BY <3>3, <4>1
      <4> HIDE DEF x, last
      <4>5. x <= readsTotal BY <1>a, <4>3, <4>4
      <4>6. QED BY <4>5 DEF x
    <3>6. QED BY <2>2, <3>1, <3>2, <3>5 DEF ReadsWhole
  <2>5. QED BY <2>3, <2>4
<1>3. CASE Reads!BatchRead
  <2> DEFINE places == {i \in DOMAIN readsPage.ids : Reads!Exists(readsPage.ids[i])}
             ids == Kept(readsPage.ids, places)
             r == LargestFirst(ids, ids)
  <2>1. /\ readsFetch = "batch" /\ readsFetch' = "done" /\ readsListed' = [ids |-> r, batch |-> TRUE]
        /\ UNCHANGED <<readsTotal, readsPage, readsUnstarted, readsExecuting, readsMissing>>
    BY <1>3, ReadsLists DEF Reads!BatchRead, Reads!Listed
  <2>2. \A k \in 1 .. Len(readsPage.ids) : readsPage.ids[k] # 0 => k \in places
    <3>1. DOMAIN readsPage.ids = 1 .. Len(readsPage.ids) /\ \A k \in 1 .. Len(readsPage.ids) : readsPage.ids[k] \in Nat
      BY <1>a
    <3>2. \A k \in 1 .. Len(readsPage.ids) : readsPage.ids[k] <= readsTotal BY DEF ReadsWhole
    <3>3. QED BY <1>a, <3>1, <3>2 DEF Reads!Exists
  <2>3. readsPage.ids \in Seq(Nat) /\ Apart(readsPage.ids) /\ places \in SUBSET (1 .. Len(readsPage.ids))
    <3>1. DOMAIN readsPage.ids = 1 .. Len(readsPage.ids) BY <1>a
    <3>2. QED BY <3>1 DEF ReadsInv
  <2> HIDE DEF places
  <2>4. ids \in Seq(Nat) /\ Apart(ids) /\ \A k \in places : Among(ids, readsPage.ids[k])
    BY <2>3, KeptAmong
  <2> HIDE DEF ids
  <2>5. \A x : Among(r, x) <=> Among(ids, x)
    <3>1. Reads!LargestFirst(ids, ids) = r BY ReadsLists
    <3>2. QED BY <2>4, <3>1, ListSorted
  <2> HIDE DEF r
  <2>6. readsListed'.ids = r BY <2>1
  <2>7. Complete(readsPage.ids, r, readsListed'.batch, readsMissing)
    BY <2>2, <2>4, <2>5 DEF Complete
  <2>8. QED BY <2>1, <2>6, <2>7 DEF ReadsWhole
<1>4. CASE Reads!BatchFails
  <2>1. readsFetch = "batch" /\ readsFetch' = "launching" /\ readsUnstarted' = readsPage.ids
        /\ readsExecuting = << >>
        /\ UNCHANGED <<readsTotal, readsPage, readsExecuting, readsInFlight, readsAnswered, readsMissing>>
    BY <1>4 DEF Reads!BatchFails, ReadsWhole
  <2>2. Launched' = 0 /\ Len(<< >>) = 0 /\ << >> \in Seq(Nat) BY <1>a, <2>1 DEF Launched
  <2>3. Queued(readsPage.ids, readsPage.ids) BY <1>a DEF Queued
  <2>4. Awaited(readsPage.ids, 0, << >>) BY DEF Awaited
  <2>5. Traced(readsPage.ids, 0, readsInFlight, readsAnswered, readsMissing) BY DEF Traced
  <2>6. 0 < ReadConcurrency BY <1>a
  <2>7. QED BY <2>1, <2>2, <2>3, <2>4, <2>5, <2>6 DEF ReadsWhole
<1>5. CASE Reads!Launch
  <2> DEFINE h == Head(readsUnstarted)
             n == Launched
             ids == readsPage.ids
             C == ReadConcurrency
             e == Len(readsExecuting)
  <2>1. /\ readsFetch = "launching" /\ readsUnstarted # << >> /\ readsUnstarted' = Tail(readsUnstarted)
        /\ readsExecuting' = Append(readsExecuting, h)
        /\ readsInFlight' = readsInFlight \cup {h}
        /\ readsFetch' = IF Len(readsExecuting') >= C THEN "racing" ELSE readsFetch
        /\ UNCHANGED <<readsTotal, readsPage, readsAnswered, readsMissing, readsListed>>
    BY <1>5 DEF Reads!Launch
  <2>2. /\ readsExecuting \in Seq(Nat) /\ Queued(ids, readsUnstarted) /\ Awaited(ids, n, readsExecuting)
        /\ Traced(ids, n, readsInFlight, readsAnswered, readsMissing)
        /\ e = IF n < C THEN n ELSE C - 1
    BY <2>1 DEF ReadsWhole
  <2>3. /\ Len(readsUnstarted) \in Nat \ {0} /\ Len(ids) \in Nat /\ Len(readsUnstarted) <= Len(ids)
        /\ n \in Nat /\ n = Len(ids) - Len(readsUnstarted) /\ C \in Nat \ {0} /\ e \in Nat
    <3>1. Len(readsUnstarted) \in Nat \ {0} /\ Len(ids) \in Nat BY <1>a, <2>1
    <3>2. Len(readsUnstarted) <= Len(ids) BY <2>2, Zenon DEF Queued
    <3>3. e \in Nat BY <2>2
    <3>4. n = Len(ids) - Len(readsUnstarted) BY DEF Launched
    <3>5. QED BY <1>a, <3>1, <3>2, <3>3, <3>4
  <2>4. /\ Len(readsUnstarted') = Len(readsUnstarted) - 1
        /\ \A i \in 1 .. Len(readsUnstarted) - 1 : readsUnstarted'[i] = readsUnstarted[i + 1]
        /\ h = readsUnstarted[1] /\ h \in Nat
    BY <1>a, <2>1
  <2>5. h = ids[n + 1] BY <2>2, <2>3, <2>4 DEF Queued
  <2>6. Launched' = n + 1 BY <2>1, <2>3, <2>4 DEF Launched
  <2>7. Queued(ids, readsUnstarted') BY <2>2, <2>3, <2>4 DEF Queued
  <2>8. /\ readsExecuting' \in Seq(Nat) /\ Len(readsExecuting') = e + 1 /\ readsExecuting'[e + 1] = h
        /\ \A k \in 1 .. e : readsExecuting'[k] = readsExecuting[k]
    BY <2>1, <2>2, <2>4
  <2> HIDE DEF h, n, C, e
  <2>9. Awaited(ids, n + 1, readsExecuting')
    <3> SUFFICES ASSUME NEW k \in 1 .. n + 1, k < C
                 PROVE  k <= e + 1 /\ readsExecuting'[k] = ids[k]
      BY <2>8 DEF Awaited, C
    <3>1. CASE k = n + 1
      <4>1. e = n BY <2>2, <2>3, <3>1
      <4>2. QED BY <2>3, <2>5, <2>8, <3>1, <4>1
    <3>2. CASE k # n + 1
      <4>1. k \in 1 .. n BY <2>3, <3>2
      <4>2. k <= e /\ readsExecuting[k] = ids[k] BY <2>2, <4>1 DEF Awaited, C, e
      <4>3. QED BY <2>3, <2>8, <4>1, <4>2
    <3>3. QED BY <3>1, <3>2
  <2>10. Traced(ids, n + 1, readsInFlight', readsAnswered, readsMissing)
    <3> SUFFICES ASSUME NEW k \in 1 .. n + 1
                 PROVE  ids[k] = 0 \/ ids[k] \in readsInFlight' \/ Among(readsAnswered, ids[k])
                        \/ ids[k] \in readsMissing
      BY DEF Traced
    <3>1. k = n + 1 \/ k \in 1 .. n BY <2>3
    <3>2. QED BY <2>1, <2>2, <2>5, <3>1 DEF Traced
  <2>a. (e + 1 >= C => readsFetch' = "racing") /\ (~ (e + 1 >= C) => readsFetch' = "launching")
    BY <2>1, <2>8
  <2>11. readsFetch' = "launching" => e + 1 = IF n + 1 < C THEN n + 1 ELSE C - 1
    BY <2>a, <2>2, <2>3
  <2>12. readsFetch' = "racing" => e + 1 = C /\ n + 1 >= C
    BY <2>a, <2>2, <2>3
  <2>13. readsFetch' \in {"launching", "racing"} BY <2>1
  <2>14. \A k \in 1 .. Len(ids) : ids[k] <= readsTotal BY DEF ReadsWhole
  <2>15. readsPage'.ids = ids /\ readsTotal' = readsTotal /\ readsAnswered' = readsAnswered
         /\ readsMissing' = readsMissing
    BY <2>1
  <2> HIDE DEF ids
  <2>16. QED
    BY <2>6, <2>7, <2>8, <2>9, <2>10, <2>11, <2>12, <2>13, <2>14, <2>15 DEF ReadsWhole, C
<1>6. CASE Reads!Raced
  <2> DEFINE C == ReadConcurrency
             n == Launched
             ids == readsPage.ids
  <2>1. /\ readsFetch = "racing" /\ readsFetch' = "launching"
        /\ readsExecuting' = Reads!Front(readsExecuting)
        /\ UNCHANGED <<readsTotal, readsPage, readsUnstarted, readsInFlight, readsAnswered, readsMissing>>
    BY <1>6 DEF Reads!Raced
  <2>2. /\ readsExecuting \in Seq(Nat) /\ Queued(ids, readsUnstarted) /\ Awaited(ids, n, readsExecuting)
        /\ Traced(ids, n, readsInFlight, readsAnswered, readsMissing)
        /\ Len(readsExecuting) = C /\ n >= C
    BY <2>1 DEF ReadsWhole
  <2>3. /\ readsExecuting' \in Seq(Nat) /\ Len(readsExecuting') = C - 1
        /\ \A k \in 1 .. C - 1 : readsExecuting'[k] = readsExecuting[k]
    BY <1>a, <2>1, <2>2 DEF Reads!Front
  <2>4. Launched' = n /\ n \in Int BY <1>a, <2>1 DEF Launched
  <2> HIDE DEF n
  <2>5. Awaited(ids, n, readsExecuting') BY <1>a, <2>2, <2>3, <2>4 DEF Awaited
  <2>6. Len(readsExecuting') = IF n < C THEN n ELSE C - 1 BY <1>a, <2>2, <2>3, <2>4
  <2>7. \A k \in 1 .. Len(ids) : ids[k] <= readsTotal BY DEF ReadsWhole
  <2>8. QED BY <2>1, <2>2, <2>3, <2>4, <2>5, <2>6, <2>7 DEF ReadsWhole
<1>7. CASE \E id \in readsInFlight, ok \in BOOLEAN : Reads!PoolRead(id, ok)
  <2>1. PICK id \in readsInFlight, ok \in BOOLEAN : Reads!PoolRead(id, ok) BY <1>7
  <2>2. /\ readsInFlight' = readsInFlight \ {id}
        /\ readsAnswered' = IF ok /\ Reads!Exists(id) THEN Append(readsAnswered, id) ELSE readsAnswered
        /\ readsMissing' = IF ok THEN readsMissing ELSE readsMissing \cup {id}
        /\ UNCHANGED <<readsTotal, readsPage, readsFetch, readsUnstarted, readsExecuting, readsListed>>
    BY <2>1 DEF Reads!PoolRead
  <2>3. id \in Nat /\ id <= readsTotal
    <3>1. readsInFlight \subseteq Nat /\ Among(readsPage.ids, id) BY <2>1 DEF ReadsInv
    <3>2. QED BY <3>1 DEF ReadsWhole, Among
  <2>4. id = 0 \/ Among(readsAnswered', id) \/ id \in readsMissing'
    <3>1. CASE ok /\ id # 0
      <4>1. Reads!Exists(id) BY <1>a, <2>3, <3>1 DEF Reads!Exists
      <4>2. readsAnswered' = Append(readsAnswered, id) BY <2>2, <3>1, <4>1
      <4>3. Len(readsAnswered') = Len(readsAnswered) + 1 /\ readsAnswered'[Len(readsAnswered) + 1] = id
            /\ Len(readsAnswered) + 1 \in 1 .. Len(readsAnswered')
        BY <1>a, <2>3, <4>2
      <4>4. QED BY <4>3 DEF Among
    <3>2. QED BY <2>2, <3>1
  <2>5. \A x : Among(readsAnswered, x) => Among(readsAnswered', x)
    <3>1. Len(readsAnswered) <= Len(readsAnswered')
          /\ \A k \in 1 .. Len(readsAnswered) : k \in 1 .. Len(readsAnswered') /\ readsAnswered'[k] = readsAnswered[k]
      BY <1>a, <2>2, <2>3
    <3>2. QED BY <3>1 DEF Among
  <2>6. \A x : x \in readsMissing => x \in readsMissing' BY <2>2
  <2>7. Traced(readsPage.ids, Launched, readsInFlight, readsAnswered, readsMissing)
          => Traced(readsPage.ids, Launched, readsInFlight', readsAnswered', readsMissing')
    BY <2>2, <2>4, <2>5, <2>6 DEF Traced
  <2>8. Complete(readsPage.ids, readsListed.ids, readsListed.batch, readsMissing)
          => Complete(readsPage.ids, readsListed.ids, readsListed.batch, readsMissing')
    BY <2>6 DEF Complete
  <2>9. Launched' = Launched BY <2>2 DEF Launched
  <2>10. QED BY <2>2, <2>7, <2>8, <2>9 DEF ReadsWhole
<1>8. CASE Reads!AllRead
  <2> DEFINE ids == readsPage.ids
             r == LargestFirst(readsAnswered, readsAnswered)
  <2>1. /\ readsFetch = "launching" /\ readsUnstarted = << >> /\ readsFetch' = "done"
        /\ \A i \in DOMAIN readsExecuting : Reads!Settled(readsExecuting[i])
        /\ readsListed' = [ids |-> r, batch |-> FALSE]
        /\ UNCHANGED <<readsTotal, readsPage, readsUnstarted, readsExecuting, readsMissing>>
    BY <1>8, ReadsLists DEF Reads!AllRead, Reads!Listed
  <2>2. /\ readsExecuting \in Seq(Nat) /\ Awaited(ids, Launched, readsExecuting)
        /\ Traced(ids, Launched, readsInFlight, readsAnswered, readsMissing)
    BY <2>1 DEF ReadsWhole
  <2>3. Launched = Len(ids) /\ Len(ids) \in Nat BY <1>a, <2>1 DEF Launched
  <2>4. \A x : Among(r, x) <=> Among(readsAnswered, x)
    <3>1. Reads!LargestFirst(readsAnswered, readsAnswered) = r BY ReadsLists
    <3>2. Apart(readsAnswered) BY DEF ReadsInv
    <3>3. QED BY <1>a, <3>1, <3>2, ListSorted
  <2>5. readsListed'.ids = r /\ readsListed'.batch = FALSE BY <2>1
  <2> HIDE DEF r
  <2>6. ASSUME NEW k \in 1 .. Len(ids), ids[k] # 0, ids[k] \notin readsMissing, k < ReadConcurrency
        PROVE  Among(r, ids[k])
    <3>1. k <= Len(readsExecuting) /\ readsExecuting[k] = ids[k] BY <2>2, <2>3, <2>6 DEF Awaited
    <3>2. k \in DOMAIN readsExecuting BY <2>2, <2>3, <3>1
    <3>3. ids[k] \notin readsInFlight BY <2>1, <3>1, <3>2 DEF Reads!Settled
    <3>4. QED BY <2>2, <2>3, <2>4, <2>6, <3>3 DEF Traced
  <2>7. Complete(ids, r, FALSE, readsMissing) BY <2>6 DEF Complete
  <2>8. QED BY <2>1, <2>5, <2>7 DEF ReadsWhole
<1>9. CASE Reads!PoolCreated
  <2>1. /\ readsTotal' = readsTotal + 1
        /\ UNCHANGED <<readsPage, readsFetch, readsUnstarted, readsExecuting, readsInFlight,
                       readsAnswered, readsMissing, readsListed>>
    BY <1>9 DEF Reads!PoolCreated
  <2>2. \A k \in 1 .. Len(readsPage.ids) : readsPage.ids[k] <= readsTotal'
    <3>1. \A k \in 1 .. Len(readsPage.ids) : readsPage.ids[k] \in Nat BY <1>a
    <3>2. \A k \in 1 .. Len(readsPage.ids) : readsPage.ids[k] <= readsTotal BY DEF ReadsWhole
    <3>3. QED BY <1>a, <2>1, <3>1, <3>2
  <2>3. Launched' = Launched BY <2>1 DEF Launched
  <2>4. QED BY <2>1, <2>2, <2>3 DEF ReadsWhole
<1>10. CASE \E reader \in Reads!Readers, v \in Reads!ContractValues : Reads!simulateContractRead(reader, v)
  <2>1. UNCHANGED <<readsTotal, readsPage, readsFetch, readsUnstarted, readsExecuting, readsInFlight,
                    readsAnswered, readsMissing, readsListed>>
    BY <1>10 DEF Reads!simulateContractRead, Reads!fetchVars
  <2>2. Launched' = Launched BY <2>1 DEF Launched
  <2>3. QED BY <2>1, <2>2 DEF ReadsWhole
<1>11. [Reads!ReadsNext]_readsVars BY ReadsStep
<1>12. QED BY <1>0, <1>1, <1>2, <1>3, <1>4, <1>5, <1>6, <1>7, <1>8, <1>9, <1>10, <1>11
         DEF Reads!ReadsNext

LEMMA ReadsWholeInvariant == AppSpec => []ReadsWhole
<1>1. AppInit => ReadsWhole
  BY DEF AppInit, Reads!ReadsInit, Reads!FetchInit, Reads!NoPage, ReadsWhole
<1>2. ReadsInv /\ ReadsWhole /\ [AppNext]_appVars => ReadsWhole' BY ReadsWholeKept
<1>3. QED BY <1>1, <1>2, ReadsInvariant, PTL DEF AppSpec

(* Whatever the count, a pool of it is on one page.                        *)
LEMMA OnePageEach ==
  ASSUME NEW count \in Nat, count <= ReadMaxPools, NEW id \in 1 .. count
  PROVE  Cardinality({p \in 0 .. ReadMaxPools :
                        \E k \in DOMAIN Reads!PageIds(count, p) : Reads!PageIds(count, p)[k] = id}) = 1
<1> DEFINE F == ReadFetchSize
           q == (count - id) \div F
           S == {p \in 0 .. ReadMaxPools :
                   \E k \in DOMAIN Reads!PageIds(count, p) : Reads!PageIds(count, p)[k] = id}
<1>1. F \in Nat \ {0} /\ count - id \in Nat /\ ReadMaxPools \in Nat BY ListsAssumption
<1>2. q \in Nat /\ q * F <= count - id /\ count - id < (q + 1) * F
  <2> HIDE DEF F
  <2>1. QED BY <1>1
<1>3. q <= ReadMaxPools
  <2> DEFINE d == count - id
  <2>1. d \in Nat /\ d <= ReadMaxPools BY <1>1
  <2>2. q * F >= q
    <3> HIDE DEF q, F
    <3>1. QED BY <1>1, <1>2
  <2> HIDE DEF d
  <2>3. q * F <= d BY <1>2 DEF d
  <2> HIDE DEF q, F
  <2>4. q * F \in Nat BY <1>1, <1>2
  <2>5. QED BY <1>1, <1>2, <2>1, <2>2, <2>3, <2>4
<1>4. ASSUME NEW p \in 0 .. ReadMaxPools
      PROVE  (\E k \in DOMAIN Reads!PageIds(count, p) : Reads!PageIds(count, p)[k] = id) <=> p = q
  <2>1. p \in Nat BY <1>1
  <2>2. /\ Reads!PageIds(count, p) \in Seq(Nat)
        /\ \A x \in Nat \ {0} : Among(Reads!PageIds(count, p), x) <=>
              x <= count - p * F /\ x > count - p * F - F
    BY <2>1, IdsOfPage
  <2>3. (\E k \in DOMAIN Reads!PageIds(count, p) : Reads!PageIds(count, p)[k] = id)
        <=> Among(Reads!PageIds(count, p), id)
    BY <2>2 DEF Among
  <2>4. Among(Reads!PageIds(count, p), id) <=> id <= count - p * F /\ id > count - p * F - F
    BY <2>2
  <2> HIDE DEF F, q
  <2>5. p < q => (p + 1) * F <= q * F BY <1>1, <1>2, <2>1
  <2>6. q < p => (q + 1) * F <= p * F BY <1>1, <1>2, <2>1
  <2>7. (p + 1) * F = p * F + F /\ p * F \in Nat /\ q * F \in Nat /\ (q + 1) * F = q * F + F
    BY <1>1, <1>2, <2>1
  <2>8. id <= count - p * F /\ id > count - p * F - F <=> p = q
    BY <1>1, <1>2, <2>1, <2>5, <2>6, <2>7
  <2>9. QED BY <2>3, <2>4, <2>8
<1>5. S = {q} BY <1>1, <1>2, <1>3, <1>4
<1>6. QED BY <1>5, FS_Singleton, Zenon

(* Lemma: the ranges of one count hold every pool once, and a page returns *)
(* pools of its own range, newest first: all of them in a batch, and those *)
(* it waited for and could read when they are read one by one.             *)
LEMMA ReadsPartition == ReadsInv /\ ReadsWhole => Reads!PagesPartition
<1> SUFFICES ASSUME ReadsInv, ReadsWhole PROVE Reads!PagesPartition OBVIOUS
<1>1. readsListed.ids \in Seq(Nat) /\ readsPage.ids \in Seq(Nat) /\ readsTotal \in 0 .. ReadMaxPools
  BY DEF ReadsInv
<1>2. \A i, j \in DOMAIN readsListed.ids : i < j => readsListed.ids[i] > readsListed.ids[j]
  <2>1. DOMAIN readsListed.ids = 1 .. Len(readsListed.ids) BY <1>1
  <2>2. QED BY <2>1, Zenon DEF ReadsInv
<1>3. \A i \in DOMAIN readsListed.ids :
        \E k \in DOMAIN readsPage.ids : readsPage.ids[k] = readsListed.ids[i]
  <2>1. DOMAIN readsListed.ids = 1 .. Len(readsListed.ids) /\ DOMAIN readsPage.ids = 1 .. Len(readsPage.ids)
    BY <1>1
  <2>2. \A id : Among(readsListed.ids, id) => Among(readsPage.ids, id) BY Zenon DEF ReadsInv
  <2>3. QED BY <2>1, <2>2, Zenon DEF Among
<1>4. readsTotal \in Nat /\ readsTotal <= ReadMaxPools BY <1>1, ListsAssumption
<1>5. \A S : Reads!Cardinality(S) = Cardinality(S) BY Zenon DEF Reads!Cardinality, Cardinality
<1>6. readsFetch = "done" =>
        \A k \in DOMAIN readsPage.ids :
          readsPage.ids[k] # 0 /\ readsPage.ids[k] \notin readsMissing
              /\ (readsListed.batch \/ k < ReadConcurrency)
            => \E i \in DOMAIN readsListed.ids : readsListed.ids[i] = readsPage.ids[k]
  <2>1. DOMAIN readsListed.ids = 1 .. Len(readsListed.ids) /\ DOMAIN readsPage.ids = 1 .. Len(readsPage.ids)
    BY <1>1
  <2>2. readsFetch = "done" => Complete(readsPage.ids, readsListed.ids, readsListed.batch, readsMissing)
    BY DEF ReadsWhole
  <2>3. QED BY <2>1, <2>2, Zenon DEF Complete, Among
<1>7. QED BY <1>2, <1>3, <1>4, <1>5, <1>6, OnePageEach, Zenon DEF Reads!PagesPartition

-----------------------------------------------------------------------------
(* The events of the chain.  A page of them is the first of those after    *)
(* the cursor, in order, so that its last one is the next cursor; and a    *)
(* timeline is what its cursor has passed.                                 *)

LEMMA ActivityStep == [AppNext]_appVars => [Activity!ActivityNext]_actVars
BY DEF AppNext, Step, Still, appVars

LEMMA ActivityLists ==
  /\ \A s, P : Activity!Kept(s, P) = Kept(s, P)
  /\ \A s, key : Activity!LargestFirst(s, key) = LargestFirst(s, key)
  /\ \A S : Activity!Ascending(S) = Ascending(S)
<1>1. \A s, P : Activity!Kept(s, P) = Kept(s, P)
  BY Zenon DEF Activity!Kept, Activity!Ascending, Activity!Below, Activity!Cardinality,
     Kept, Ascending, Below, Cardinality
<1>2. \A s, key : Activity!LargestFirst(s, key) = LargestFirst(s, key)
  BY Zenon DEF Activity!LargestFirst, Activity!Cardinality, LargestFirst, Cardinality
<1>3. \A S : Activity!Ascending(S) = Ascending(S)
  BY Zenon DEF Activity!Ascending, Activity!Below, Activity!Cardinality, Ascending, Below, Cardinality
<1>4. QED BY <1>1, <1>2, <1>3

(* A page of the chain's events: those passed on the way to its cursor.    *)
EventAfter(i, names, cursor) ==
  /\ i \in 1 .. actEmitted /\ i > cursor /\ ActLedger[i].name \in names /\ ActLedger[i].schema = "v1"

LEMMA EventsRead ==
  ASSUME actEmitted \in Nat, NEW names, NEW cursor \in Nat, NEW limit \in Nat
  PROVE  LET raw == Activity!GetEvents(names, cursor, limit)
             next == IF raw = << >> THEN cursor ELSE Activity!Last(raw)
         IN  /\ raw \in Seq(Nat) /\ Len(raw) <= limit /\ Apart(raw)
             /\ next \in Nat /\ next >= cursor
             /\ \A x : Among(raw, x) <=> EventAfter(x, names, cursor) /\ x <= next
<1> DEFINE S == {i \in 1 .. actEmitted :
                   i > cursor /\ ActLedger[i].name \in names /\ ActLedger[i].schema = "v1"}
           asks == Ascending(S)
           raw == SubSeq(asks, 1, IF Len(asks) < limit THEN Len(asks) ELSE limit)
           next == IF raw = << >> THEN cursor ELSE Activity!Last(raw)
<1>1. Activity!GetEvents(names, cursor, limit) = raw BY ActivityLists DEF Activity!GetEvents
<1>2. S \in SUBSET Nat OBVIOUS
<1>3. IsFiniteSet(S) BY PositionsFinite, FS_Subset
<1>4. /\ \A x : x \in S <=> EventAfter(x, names, cursor)
      /\ \A x \in S : x \in Nat /\ x > cursor
  BY DEF EventAfter
<1> HIDE DEF S
<1>5. /\ raw \in Seq(Nat) /\ Len(raw) <= limit /\ Apart(raw)
      /\ \A x : Among(raw, x) => x \in S
      /\ raw # << >> => /\ raw[Len(raw)] \in S
                        /\ \A x \in S : Among(raw, x) <=> x <= raw[Len(raw)]
  BY <1>2, <1>3, FirstOnes
<1> HIDE DEF raw
<1>6. Activity!Last(raw) = raw[Len(raw)] BY DEF Activity!Last
<1>7. next \in Nat /\ next >= cursor BY <1>4, <1>5, <1>6
<1>8. ASSUME NEW x PROVE Among(raw, x) <=> EventAfter(x, names, cursor) /\ x <= next
  <2>1. CASE raw = << >>
    <3>1. ~ Among(raw, x) BY <2>1 DEF Among
    <3>2. EventAfter(x, names, cursor) => ~ (x <= next) BY <1>4, <2>1
    <3>3. QED BY <3>1, <3>2
  <2>2. CASE raw # << >>
    <3>1. next = raw[Len(raw)] BY <1>6, <2>2
    <3>2. QED BY <1>4, <1>5, <2>2, <3>1
  <2>3. QED BY <2>1, <2>2
<1>9. QED BY <1>1, <1>5, <1>7, <1>8

(* The entries of a list that a condition keeps: those of some positions.  *)
LEMMA ActivityKept ==
  ASSUME NEW s \in Seq(Nat), NEW P \in SUBSET (1 .. Len(s))
  PROVE  LET r == Activity!Kept(s, P)
         IN  /\ r \in Seq(Nat) /\ Len(r) <= Len(s)
             /\ \A x : Among(r, x) <=> \E i \in P : s[i] = x
             /\ Apart(s) => Apart(r)
<1>1. Activity!Kept(s, P) = Kept(s, P) BY ActivityLists
<1> HIDE DEF Kept
<1>2. QED BY <1>1, PlacesKept

\* The entries of a feed or a timeline: events of the ledger.
IsEventList(s) == s \in Seq(Nat) /\ \A i \in 1 .. Len(s) : s[i] \in 1 .. Len(ActLedger)

LEMMA EventsSorted ==
  ASSUME NEW s, IsEventList(s)
  PROVE  LET r == Activity!NewestFirst(s)
         IN  /\ r \in Seq(Nat) /\ Len(r) = Len(s) /\ IsEventList(r)
             /\ \A x : Among(r, x) <=> Among(s, x)
             /\ Apart(s) => Apart(r)
<1> DEFINE key == [k \in DOMAIN s |-> ActLedger[s[k]].day]
           r == LargestFirst(s, key)
<1>1. s \in Seq(Nat) /\ DOMAIN s = 1 .. Len(s) /\ Len(s) \in Nat BY DEF IsEventList
<1>2. \A i \in 1 .. Len(s) : key[i] \in Int
  <2>1. \A i \in 1 .. Len(s) : key[i] = ActLedger[s[i]].day BY <1>1
  <2>2. \A i \in 1 .. Len(s) : s[i] \in 1 .. Len(ActLedger) BY DEF IsEventList
  <2>3. \A i \in 1 .. Len(s) : ActLedger[s[i]].day \in 0 .. ActToday /\ ActToday \in Nat
    BY <2>2, ListsAssumption
  <2>4. QED BY <2>1, <2>3
<1>3. Activity!NewestFirst(s) = r BY ActivityLists DEF Activity!NewestFirst
<1> HIDE DEF key
<1>4. /\ r \in Seq(Nat) /\ Len(r) = Len(s)
      /\ \A x : Among(r, x) <=> Among(s, x)
      /\ Apart(s) => Apart(r)
  BY <1>1, <1>2, SortedAlike
<1> HIDE DEF r
<1>5. IsEventList(r)
  <2> SUFFICES ASSUME NEW i \in 1 .. Len(r) PROVE r[i] \in 1 .. Len(ActLedger)
    BY <1>4 DEF IsEventList
  <2>1. Among(s, r[i]) BY <1>4 DEF Among
  <2>2. QED BY <2>1 DEF IsEventList, Among
<1>6. QED BY <1>3, <1>4, <1>5

\* The events of this pool that a cursor has passed.
TimelineEvent(i, cursor) ==
  /\ i \in 1 .. cursor /\ ActLedger[i].pool = ActThisPool
  /\ Activity!Decoded(ActLedger[i]) /\ ActLedger[i].name \in Activity!TimelineNames

LEMMA PoolActivity ==
  ASSUME actEmitted \in 0 .. Len(ActLedger), NEW cursor \in Nat, NEW limit \in Nat
  PROVE  LET res == Activity!FetchPoolActivity(cursor, limit)
         IN  /\ IsEventList(res.list) /\ Apart(res.list) /\ Len(res.list) <= limit
             /\ res.cursor \in Nat /\ res.cursor >= cursor
             /\ \A x : Among(res.list, x) <=> TimelineEvent(x, res.cursor) /\ x > cursor
             /\ res = [list |-> res.list, raw |-> res.raw, cursor |-> res.cursor]
<1> DEFINE raw == Activity!GetEvents(Activity!TimelineNames, cursor, limit)
           Own(e) == Activity!Decoded(e) /\ e.pool = ActThisPool
           P == {k \in DOMAIN raw : Own(ActLedger[raw[k]])}
           mine == Activity!Kept(raw, P)
           list == Activity!NewestFirst(mine)
           next == IF raw = << >> THEN cursor ELSE Activity!Last(raw)
<1>1. Activity!FetchPoolActivity(cursor, limit) = [list |-> list, raw |-> Len(raw), cursor |-> next]
  BY DEF Activity!FetchPoolActivity, Activity!Where
<1>2. Len(ActLedger) \in Nat /\ actEmitted \in Nat /\ actEmitted <= Len(ActLedger) BY ListsAssumption
<1>3. /\ raw \in Seq(Nat) /\ Len(raw) <= limit /\ Apart(raw)
      /\ next \in Nat /\ next >= cursor
      /\ \A x : Among(raw, x) <=> EventAfter(x, Activity!TimelineNames, cursor) /\ x <= next
  BY <1>2, EventsRead
<1>4. DOMAIN raw = 1 .. Len(raw) /\ P \in SUBSET (1 .. Len(raw)) BY <1>3
<1>5. \A k \in 1 .. Len(raw) : k \in P <=> Own(ActLedger[raw[k]]) BY <1>4
<1> HIDE DEF raw, P, next, Own
<1>6. /\ mine \in Seq(Nat) /\ Len(mine) <= Len(raw)
      /\ \A x : Among(mine, x) <=> \E i \in P : raw[i] = x
      /\ Apart(mine)
  BY <1>3, <1>4, ActivityKept
<1> HIDE DEF mine
<1>7. \A x : Among(mine, x) <=> Among(raw, x) /\ Own(ActLedger[x])
  <2>1. ASSUME NEW x, Among(mine, x) PROVE Among(raw, x) /\ Own(ActLedger[x])
    <3>1. PICK i \in P : raw[i] = x BY <1>6, <2>1
    <3>2. i \in 1 .. Len(raw) BY <1>4
    <3>3. QED BY <1>5, <3>1, <3>2 DEF Among
  <2>2. ASSUME NEW x, Among(raw, x), Own(ActLedger[x]) PROVE Among(mine, x)
    <3>1. PICK i \in 1 .. Len(raw) : raw[i] = x BY <2>2 DEF Among
    <3>2. i \in P BY <1>5, <2>2, <3>1
    <3>3. QED BY <1>6, <3>1, <3>2
  <2>3. QED BY <2>1, <2>2
<1>8. IsEventList(mine)
  <2> SUFFICES ASSUME NEW i \in 1 .. Len(mine) PROVE mine[i] \in 1 .. Len(ActLedger)
    BY <1>6 DEF IsEventList
  <2>1. Among(mine, mine[i]) BY DEF Among
  <2>2. mine[i] \in 1 .. actEmitted BY <1>3, <1>7, <2>1 DEF EventAfter
  <2>3. QED BY <1>2, <2>2
<1>9. /\ list \in Seq(Nat) /\ Len(list) = Len(mine) /\ IsEventList(list)
      /\ \A x : Among(list, x) <=> Among(mine, x)
      /\ Apart(list)
  BY <1>6, <1>8, EventsSorted
<1> HIDE DEF list
<1>10. ASSUME NEW x PROVE Among(list, x) <=> TimelineEvent(x, next) /\ x > cursor
  <2>1. Among(list, x) <=> EventAfter(x, Activity!TimelineNames, cursor) /\ x <= next /\ Own(ActLedger[x])
    BY <1>3, <1>7, <1>9
  <2>2. Activity!Decoded(ActLedger[x]) => ActLedger[x].schema = "v1" BY DEF Activity!Decoded
  <2>3. x \in 1 .. actEmitted /\ x > cursor /\ x <= next <=> x \in 1 .. next /\ x > cursor
    <3>1. next = cursor \/ next <= actEmitted
      <4>1. CASE raw = << >> BY <4>1 DEF next
      <4>2. CASE raw # << >>
        <5>1. next = raw[Len(raw)] BY <4>2 DEF next, Activity!Last
        <5>2. Len(raw) \in 1 .. Len(raw) BY <1>3, <4>2
        <5>3. Among(raw, next) BY <5>1, <5>2 DEF Among
        <5>4. QED BY <1>3, <5>3 DEF EventAfter
      <4>3. QED BY <4>1, <4>2
    <3>2. next \in Nat /\ actEmitted \in Nat BY <1>2, <1>3
    <3> HIDE DEF next
    <3>3. QED BY <3>1, <3>2
  <2>4. QED BY <2>1, <2>2, <2>3, Zenon DEF EventAfter, TimelineEvent, Own
<1>11. Len(list) <= limit
  <2>1. Len(mine) \in Nat /\ Len(raw) \in Nat BY <1>3, <1>6
  <2>2. QED BY <1>3, <1>6, <1>9, <2>1
<1>12. QED BY <1>1, <1>3, <1>9, <1>10, <1>11

\* A list tells every transaction that the cursor has passed, and nothing else.
WholeTimeline(list, cursor) ==
  /\ IsEventList(list) /\ Apart(list) /\ Len(list) <= ActMaxEvents
  /\ \A x : Among(list, x) => TimelineEvent(x, cursor)
  /\ \A i : TimelineEvent(i, cursor) => \E x : Among(list, x) /\ ActLedger[x].tx = ActLedger[i].tx

(* Taking the next page without the transactions already there.            *)
LEMMA TimelineGoesOn ==
  ASSUME NEW list, NEW c \in Nat, WholeTimeline(list, c),
         NEW more, IsEventList(more), Apart(more), NEW next \in Nat, next >= c,
         \A x : Among(more, x) <=> TimelineEvent(x, next) /\ x > c,
         NEW limit \in Nat, Len(more) <= limit, limit <= ActMaxEvents - Len(list),
         NEW P, P = {k \in DOMAIN more : \A j \in DOMAIN list : ActLedger[list[j]].tx # ActLedger[more[k]].tx}
  PROVE  LET all == list \o Activity!Kept(more, P)
         IN  WholeTimeline(all, next) /\ Len(all) <= ActMaxEvents /\ all \in Seq(Nat)
<1> DEFINE fresh == Activity!Kept(more, P)
           all == list \o fresh
<1>1. list \in Seq(Nat) /\ more \in Seq(Nat) /\ DOMAIN list = 1 .. Len(list) /\ DOMAIN more = 1 .. Len(more)
      /\ Len(list) \in Nat /\ Len(more) \in Nat
  BY DEF WholeTimeline, IsEventList
<1>2. P \in SUBSET (1 .. Len(more)) BY <1>1
<1>3. \A k \in 1 .. Len(more) : k \in P <=>
        \A j \in 1 .. Len(list) : ActLedger[list[j]].tx # ActLedger[more[k]].tx
  BY <1>1, Zenon
<1>4. /\ fresh \in Seq(Nat) /\ Len(fresh) <= Len(more)
      /\ \A x : Among(fresh, x) <=> \E i \in P : more[i] = x
      /\ Apart(fresh)
  BY <1>1, <1>2, ActivityKept, Zenon
<1> HIDE DEF fresh
<1>5. /\ all \in Seq(Nat) /\ Len(all) = Len(list) + Len(fresh) /\ Len(fresh) \in Nat
      /\ \A x : Among(all, x) <=> Among(list, x) \/ Among(fresh, x)
      /\ Apart(list) /\ Apart(fresh) /\ (\A x : ~ (Among(list, x) /\ Among(fresh, x))) => Apart(all)
  BY <1>1, <1>4, ListsJoined
<1> HIDE DEF all
<1>7. \A x : Among(all, x) <=> Among(list, x) \/ Among(fresh, x) BY <1>5
<1>8. ASSUME NEW x, Among(fresh, x) PROVE TimelineEvent(x, next) /\ x > c /\ x \in 1 .. Len(ActLedger)
  <2>1. PICK i \in P : more[i] = x BY <1>4, <1>8
  <2>2. i \in 1 .. Len(more) BY <1>2
  <2>3. Among(more, x) BY <2>1, <2>2 DEF Among
  <2>4. QED BY <2>1, <2>2, <2>3 DEF IsEventList
<1>9. ASSUME NEW x, Among(list, x)
      PROVE  TimelineEvent(x, next) /\ ~ (x > c) /\ x \in 1 .. Len(ActLedger)
  <2>1. TimelineEvent(x, c) BY <1>9 DEF WholeTimeline
  <2>2. x \in 1 .. c /\ x \in 1 .. next /\ ~ (x > c) BY <2>1 DEF TimelineEvent
  <2>3. x \in 1 .. Len(ActLedger) BY <1>9 DEF WholeTimeline, IsEventList, Among
  <2>4. QED BY <2>1, <2>2, <2>3 DEF TimelineEvent
<1>10. IsEventList(all)
  <2> SUFFICES ASSUME NEW i \in 1 .. Len(all) PROVE all[i] \in 1 .. Len(ActLedger)
    BY <1>5 DEF IsEventList
  <2>1. Among(all, all[i]) BY DEF Among
  <2>2. QED BY <1>7, <1>8, <1>9, <2>1
<1>11. Apart(all)
  <2>1. \A x : ~ (Among(list, x) /\ Among(fresh, x)) BY <1>8, <1>9
  <2>2. Apart(list) BY DEF WholeTimeline
  <2>3. QED BY <1>4, <1>5, <2>1, <2>2
<1>12. Len(all) <= ActMaxEvents
  <2>1. ActMaxEvents \in Nat BY ListsAssumption
  <2>2. QED BY <1>1, <1>4, <1>5, <2>1
<1>13. ASSUME NEW i, TimelineEvent(i, next)
       PROVE  \E x : Among(all, x) /\ ActLedger[x].tx = ActLedger[i].tx
  <2>1. CASE i <= c
    <3>1. TimelineEvent(i, c) BY <1>13, <2>1 DEF TimelineEvent
    <3>2. PICK x : Among(list, x) /\ ActLedger[x].tx = ActLedger[i].tx BY <3>1 DEF WholeTimeline
    <3>3. QED BY <1>7, <3>2
  <2>2. CASE ~ (i <= c)
    <3>1. i > c BY <1>13, <2>2 DEF TimelineEvent
    <3>2. Among(more, i) BY <1>13, <3>1
    <3>3. PICK k \in 1 .. Len(more) : more[k] = i BY <3>2 DEF Among
    <3>4. CASE k \in P
      <4>1. Among(fresh, i) BY <1>4, <3>3, <3>4
      <4>2. QED BY <1>7, <4>1
    <3>5. CASE k \notin P
      <4>1. PICK j \in 1 .. Len(list) : ActLedger[list[j]].tx = ActLedger[more[k]].tx BY <1>3, <3>5
      <4>2. Among(list, list[j]) BY DEF Among
      <4>3. QED BY <1>7, <3>3, <4>1, <4>2
    <3>6. QED BY <3>4, <3>5
  <2>3. QED BY <2>1, <2>2
<1>14. QED BY <1>5, <1>7, <1>8, <1>9, <1>10, <1>11, <1>12, <1>13, Zenon DEF WholeTimeline, all, fresh

TimelineInv ==
  /\ actEmitted \in 0 .. Len(ActLedger)
  /\ actTimeline = [list |-> actTimeline.list, cursor |-> actTimeline.cursor, more |-> actTimeline.more,
                    busy |-> actTimeline.busy, error |-> actTimeline.error, count |-> actTimeline.count]
  /\ actTimeline.cursor \in Nat
  /\ WholeTimeline(actTimeline.list, actTimeline.cursor)
  /\ \A k \in actPoolKept : k.cursor \in Nat /\ WholeTimeline(k.list, k.cursor)
  /\ \A r \in actAsked :
       /\ r = [kind |-> r.kind, limit |-> r.limit, cursor |-> r.cursor, live |-> r.live]
       /\ r.limit \in Nat
       /\ r.kind = "first" => r.limit <= ActMaxEvents
       /\ r.kind = "more" => /\ r.live /\ r.cursor = actTimeline.cursor
                             /\ r.limit <= ActMaxEvents - Len(actTimeline.list)
       /\ r.live => /\ actTimeline.busy /\ actRoute = "market"
                    /\ \A q \in actAsked : q.live => q = r
       /\ r.live /\ r.kind = "first" => actTimeline.list = << >> /\ actTimeline.cursor = 0

LEMMA NoTimeline == WholeTimeline(<< >>, 0)
<1>1. \A x : ~ Among(<< >>, x) BY DEF Among
<1>2. \A i : ~ TimelineEvent(i, 0) BY DEF TimelineEvent
<1>3. IsEventList(<< >>) /\ Apart(<< >>) BY DEF IsEventList, Apart
<1>4. Len(<< >>) <= ActMaxEvents BY ListsAssumption
<1>5. QED BY <1>1, <1>2, <1>3, <1>4 DEF WholeTimeline

LEMMA FirstPage ==
  ASSUME actEmitted \in 0 .. Len(ActLedger), NEW limit \in Nat, limit <= ActMaxEvents
  PROVE  LET res == Activity!FetchPoolActivity(0, limit)
         IN  res.cursor \in Nat /\ WholeTimeline(res.list, res.cursor)
<1> DEFINE res == Activity!FetchPoolActivity(0, limit)
<1>1. /\ IsEventList(res.list) /\ Apart(res.list) /\ Len(res.list) <= limit
      /\ res.cursor \in Nat
      /\ \A x : Among(res.list, x) <=> TimelineEvent(x, res.cursor) /\ x > 0
  BY PoolActivity, Zenon
<1> HIDE DEF res
<1>2. \A x : TimelineEvent(x, res.cursor) => x > 0 BY <1>1 DEF TimelineEvent
<1>3. Len(res.list) <= ActMaxEvents
  <2>1. Len(res.list) \in Nat BY <1>1 DEF IsEventList
  <2>2. ActMaxEvents \in Nat BY ListsAssumption
  <2>3. QED BY <1>1, <2>1, <2>2
<1>4. WholeTimeline(res.list, res.cursor) BY <1>1, <1>2, <1>3, Zenon DEF WholeTimeline
<1>5. QED BY <1>1, <1>4 DEF res

(* Nothing of the timeline changes but what the chain has emitted, the     *)
(* cache's entry, or the route while no request is heard.                  *)
LEMMA TimelineStays ==
  ASSUME TimelineInv, actEmitted' \in 0 .. Len(ActLedger), UNCHANGED <<actTimeline, actAsked>>,
         actRoute = "market" => actRoute' = "market",
         \A k \in actPoolKept' : k.cursor \in Nat /\ WholeTimeline(k.list, k.cursor)
  PROVE  TimelineInv'
<1>1. actTimeline' = actTimeline /\ actAsked' = actAsked OBVIOUS
<1>2. /\ actTimeline = [list |-> actTimeline.list, cursor |-> actTimeline.cursor, more |-> actTimeline.more,
                        busy |-> actTimeline.busy, error |-> actTimeline.error, count |-> actTimeline.count]
      /\ actTimeline.cursor \in Nat /\ WholeTimeline(actTimeline.list, actTimeline.cursor)
  BY Zenon DEF TimelineInv
<1>3. \A r \in actAsked :
       /\ r = [kind |-> r.kind, limit |-> r.limit, cursor |-> r.cursor, live |-> r.live]
       /\ r.limit \in Nat
       /\ r.kind = "first" => r.limit <= ActMaxEvents
       /\ r.kind = "more" => /\ r.live /\ r.cursor = actTimeline.cursor
                             /\ r.limit <= ActMaxEvents - Len(actTimeline.list)
       /\ r.live => /\ actTimeline.busy /\ actRoute = "market"
                    /\ \A q \in actAsked : q.live => q = r
       /\ r.live /\ r.kind = "first" => actTimeline.list = << >> /\ actTimeline.cursor = 0
  BY Zenon DEF TimelineInv
<1>4. \A r \in actAsked : r.live => actRoute' = "market" BY <1>3
<1>5. QED BY <1>1, <1>2, <1>3, <1>4, Zenon DEF TimelineInv

\* The same without touching the cache.
LEMMA TimelineSame ==
  ASSUME TimelineInv, actEmitted' \in 0 .. Len(ActLedger),
         UNCHANGED <<actTimeline, actAsked, actPoolKept>>, actRoute = "market" => actRoute' = "market"
  PROVE  TimelineInv'
<1>1. \A k \in actPoolKept' : k.cursor \in Nat /\ WholeTimeline(k.list, k.cursor) BY DEF TimelineInv
<1>2. QED BY <1>1, TimelineStays

LEMMA TimelineInvKept == TimelineInv /\ [AppNext]_appVars => TimelineInv'
<1> SUFFICES ASSUME TimelineInv, [AppNext]_appVars PROVE TimelineInv' OBVIOUS
<1>a. /\ actEmitted \in 0 .. Len(ActLedger) /\ Len(ActLedger) \in Nat
      /\ ActPageLoad \in Nat /\ ActMaxEvents \in Nat /\ ActPageLoad <= ActMaxEvents
      /\ \A k \in actPoolKept : k.cursor \in Nat /\ WholeTimeline(k.list, k.cursor)
      /\ actTimeline.cursor \in Nat /\ WholeTimeline(actTimeline.list, actTimeline.cursor)
  BY ListsAssumption DEF TimelineInv
<1>b. actTimeline = [list |-> actTimeline.list, cursor |-> actTimeline.cursor, more |-> actTimeline.more,
                     busy |-> actTimeline.busy, error |-> actTimeline.error, count |-> actTimeline.count]
  BY Zenon DEF TimelineInv
<1>c. \A r \in actAsked :
       /\ r = [kind |-> r.kind, limit |-> r.limit, cursor |-> r.cursor, live |-> r.live]
       /\ r.limit \in Nat
       /\ r.kind = "first" => r.limit <= ActMaxEvents
       /\ r.kind = "more" => /\ r.live /\ r.cursor = actTimeline.cursor
                             /\ r.limit <= ActMaxEvents - Len(actTimeline.list)
       /\ r.live => /\ actTimeline.busy /\ actRoute = "market"
                    /\ \A q \in actAsked : q.live => q = r
       /\ r.live /\ r.kind = "first" => actTimeline.list = << >> /\ actTimeline.cursor = 0
  BY Zenon DEF TimelineInv
<1>0. CASE UNCHANGED actVars BY <1>0, <1>a, TimelineSame DEF actVars
<1>1. CASE Activity!Emit
  <2>1. /\ actEmitted < Len(ActLedger) /\ actEmitted' = actEmitted + 1
        /\ UNCHANGED <<actRoute, actTimeline, actAsked, actPoolKept>>
    BY <1>1 DEF Activity!Emit
  <2>2. actEmitted' \in 0 .. Len(ActLedger) BY <1>a, <2>1
  <2>3. QED BY <2>1, <2>2, TimelineSame
<1>2. CASE Activity!OpenMarket
  <2>0. /\ actRoute = "elsewhere" /\ actRoute' = "market"
        /\ UNCHANGED <<actEmitted, actPoolKept>>
    BY <1>2 DEF Activity!OpenMarket
  <2>a. \A r \in actAsked : ~ r.live /\ r.kind # "more" BY <1>c, <2>0
  <2>1. CASE actPoolKept # {}
    <3> DEFINE k == CHOOSE x \in actPoolKept : TRUE
    <3>1. k \in actPoolKept BY <2>1
    <3>2. actTimeline' = Activity!TakeFirstPage(k) /\ UNCHANGED actAsked BY <1>2, <2>1 DEF Activity!OpenMarket
    <3> HIDE DEF k
    <3>3. /\ actTimeline' = [list |-> actTimeline'.list, cursor |-> actTimeline'.cursor, more |-> actTimeline'.more,
                             busy |-> actTimeline'.busy, error |-> actTimeline'.error, count |-> actTimeline'.count]
          /\ actTimeline'.list = k.list /\ actTimeline'.cursor = k.cursor
      BY <1>b, <3>2, Zenon DEF Activity!TakeFirstPage
    <3>4. k.cursor \in Nat /\ WholeTimeline(k.list, k.cursor) BY <1>a, <3>1
    <3>5. QED BY <1>a, <1>c, <2>0, <2>a, <3>2, <3>3, <3>4, Zenon DEF TimelineInv
  <2>2. CASE actPoolKept = {}
    <3> DEFINE new == [kind |-> "first", limit |-> ActPageLoad, cursor |-> 0, live |-> TRUE]
    <3>1. /\ actTimeline' = [Activity!NewTimeline EXCEPT !.busy = TRUE]
          /\ actAsked' = actAsked \cup {new}
      BY <1>2, <2>2 DEF Activity!OpenMarket
    <3>2. new.kind = "first" /\ new.limit = ActPageLoad /\ new.live
          /\ new = [kind |-> new.kind, limit |-> new.limit, cursor |-> new.cursor, live |-> new.live]
      OBVIOUS
    <3> HIDE DEF new
    <3>3. /\ actTimeline' = [list |-> actTimeline'.list, cursor |-> actTimeline'.cursor, more |-> actTimeline'.more,
                             busy |-> actTimeline'.busy, error |-> actTimeline'.error, count |-> actTimeline'.count]
          /\ actTimeline'.list = << >> /\ actTimeline'.cursor = 0 /\ actTimeline'.busy
      BY <3>1, Zenon DEF Activity!NewTimeline
    <3>4. WholeTimeline(actTimeline'.list, actTimeline'.cursor) /\ 0 \in Nat BY <3>3, NoTimeline
    <3>5. ASSUME NEW r \in actAsked'
          PROVE  /\ r = [kind |-> r.kind, limit |-> r.limit, cursor |-> r.cursor, live |-> r.live]
                 /\ r.limit \in Nat /\ r.kind # "more"
                 /\ r.kind = "first" => r.limit <= ActMaxEvents
                 /\ r.live => r = new
      <4>1. CASE r \in actAsked BY <1>c, <2>a, <4>1
      <4>2. CASE r = new
        <5>1. r.kind # "more" BY <3>2, <4>2
        <5>2. QED BY <1>a, <3>2, <4>2, <5>1
      <4>3. QED BY <3>1, <4>1, <4>2
    <3>6. QED BY <1>a, <2>0, <3>3, <3>4, <3>5, Zenon DEF TimelineInv
  <2>3. QED BY <2>1, <2>2
<1>3. CASE Activity!FirstPageAnswered
  <2>1. PICK r \in actAsked :
          LET res == Activity!FetchPoolActivity(0, r.limit) IN
          /\ r.kind = "first" /\ actAsked' = actAsked \ {r}
          /\ actPoolKept' = {res}
          /\ actTimeline' = IF r.live THEN Activity!TakeFirstPage(res) ELSE actTimeline
    BY <1>3 DEF Activity!FirstPageAnswered
  <2>2. UNCHANGED <<actEmitted, actRoute>> BY <1>3 DEF Activity!FirstPageAnswered
  <2> DEFINE res == Activity!FetchPoolActivity(0, r.limit)
  <2>3. r.limit \in Nat /\ r.limit <= ActMaxEvents BY <1>c, <2>1
  <2>4. res.cursor \in Nat /\ WholeTimeline(res.list, res.cursor) BY <1>a, <2>3, FirstPage
  <2>5. actPoolKept' = {res} /\ actTimeline' = IF r.live THEN Activity!TakeFirstPage(res) ELSE actTimeline
    BY <2>1
  <2> HIDE DEF res
  <2>6. \A k \in actPoolKept' : k.cursor \in Nat /\ WholeTimeline(k.list, k.cursor) BY <2>4, <2>5
  <2>7. CASE r.live
    <3>1. /\ actTimeline' = [list |-> actTimeline'.list, cursor |-> actTimeline'.cursor, more |-> actTimeline'.more,
                             busy |-> actTimeline'.busy, error |-> actTimeline'.error, count |-> actTimeline'.count]
          /\ actTimeline'.list = res.list /\ actTimeline'.cursor = res.cursor
      BY <1>b, <2>5, <2>7, Zenon DEF Activity!TakeFirstPage
    <3>2. \A q \in actAsked' : q \in actAsked /\ ~ q.live /\ q.kind # "more" BY <1>c, <2>1, <2>7
    <3>3. QED BY <1>a, <1>c, <2>2, <2>4, <2>6, <3>1, <3>2, Zenon DEF TimelineInv
  <2>8. CASE ~ r.live
    <3>1. actTimeline' = actTimeline /\ \A q \in actAsked' : q \in actAsked BY <2>1, <2>5, <2>8
    <3>2. QED BY <1>a, <1>b, <1>c, <2>2, <2>6, <3>1, Zenon DEF TimelineInv
  <2>9. QED BY <2>7, <2>8
<1>4. CASE Activity!FirstPageFailed
  <2>1. PICK r \in actAsked :
          /\ r.kind = "first" /\ actAsked' = actAsked \ {r}
          /\ actTimeline' = IF r.live
                            THEN [actTimeline EXCEPT !.list = <<>>, !.more = FALSE, !.busy = FALSE, !.error = TRUE]
                            ELSE actTimeline
    BY <1>4 DEF Activity!FirstPageFailed
  <2>2. UNCHANGED <<actEmitted, actRoute, actPoolKept>> BY <1>4 DEF Activity!FirstPageFailed
  <2>7. CASE r.live
    <3>1. /\ actTimeline' = [list |-> actTimeline'.list, cursor |-> actTimeline'.cursor, more |-> actTimeline'.more,
                             busy |-> actTimeline'.busy, error |-> actTimeline'.error, count |-> actTimeline'.count]
          /\ actTimeline'.list = << >> /\ actTimeline'.cursor = actTimeline.cursor
      BY <1>b, <2>1, <2>7, Zenon
    <3>a. actTimeline.cursor = 0 BY <1>c, <2>1, <2>7
    <3>b. WholeTimeline(actTimeline'.list, actTimeline'.cursor) /\ actTimeline'.cursor \in Nat
      BY <3>1, <3>a, NoTimeline
    <3>2. \A q \in actAsked' : q \in actAsked /\ ~ q.live /\ q.kind # "more" BY <1>c, <2>1, <2>7
    <3>3. QED BY <1>a, <1>c, <2>2, <3>1, <3>b, <3>2, Zenon DEF TimelineInv
  <2>8. CASE ~ r.live
    <3>1. actTimeline' = actTimeline /\ \A q \in actAsked' : q \in actAsked BY <2>1, <2>8
    <3>2. QED BY <1>a, <1>b, <1>c, <2>2, <3>1, Zenon DEF TimelineInv
  <2>9. QED BY <2>7, <2>8
<1>5. CASE Activity!ShowMore
  <2>1. actRoute = "market" /\ ~ actTimeline.busy /\ UNCHANGED <<actEmitted, actRoute, actPoolKept>>
    BY <1>5 DEF Activity!ShowMore
  <2>2. \A q \in actAsked : ~ q.live /\ q.kind # "more" BY <1>c, <2>1
  <2>3. CASE /\ actAsked' = actAsked
             /\ actTimeline' \in {[actTimeline EXCEPT !.count = Activity!Counted],
                                  [actTimeline EXCEPT !.more = FALSE, !.count = Activity!Counted]}
    <3>1. /\ actTimeline' = [list |-> actTimeline'.list, cursor |-> actTimeline'.cursor, more |-> actTimeline'.more,
                             busy |-> actTimeline'.busy, error |-> actTimeline'.error, count |-> actTimeline'.count]
          /\ actTimeline'.list = actTimeline.list /\ actTimeline'.cursor = actTimeline.cursor
      BY <1>b, <2>3, Zenon
    <3>2. QED BY <1>a, <1>c, <2>1, <2>2, <2>3, <3>1, Zenon DEF TimelineInv
  <2> DEFINE new == [kind |-> "more", cursor |-> actTimeline.cursor, live |-> TRUE,
                     limit |-> Activity!Minimum(ActPageLoad, ActMaxEvents - Len(actTimeline.list))]
  <2>4. CASE /\ ~ (Len(actTimeline.list) >= ActMaxEvents)
             /\ actTimeline' = [actTimeline EXCEPT !.busy = TRUE, !.count = Activity!Counted]
             /\ actAsked' = actAsked \cup {new}
    <3>1. /\ actTimeline' = [list |-> actTimeline'.list, cursor |-> actTimeline'.cursor, more |-> actTimeline'.more,
                             busy |-> actTimeline'.busy, error |-> actTimeline'.error, count |-> actTimeline'.count]
          /\ actTimeline'.list = actTimeline.list /\ actTimeline'.cursor = actTimeline.cursor /\ actTimeline'.busy
      BY <1>b, <2>4, Zenon
    <3>2. Len(actTimeline.list) \in Nat BY <1>a DEF WholeTimeline, IsEventList
    <3>3. /\ new.kind = "more" /\ new.live /\ new.cursor = actTimeline.cursor
          /\ new = [kind |-> new.kind, limit |-> new.limit, cursor |-> new.cursor, live |-> new.live]
      OBVIOUS
    <3>4. new.limit = Activity!Minimum(ActPageLoad, ActMaxEvents - Len(actTimeline.list)) OBVIOUS
    <3>5. new.limit \in Nat /\ new.limit <= ActMaxEvents - Len(actTimeline.list)
      BY <1>a, <2>4, <3>2, <3>4 DEF Activity!Minimum
    <3>6. new.kind # "first" BY <3>3
    <3>7. actAsked' = actAsked \cup {new} BY <2>4
    <3> HIDE DEF new
    <3>8. ASSUME NEW r \in actAsked'
          PROVE  /\ r = [kind |-> r.kind, limit |-> r.limit, cursor |-> r.cursor, live |-> r.live]
                 /\ r.limit \in Nat
                 /\ r.kind = "first" => r.limit <= ActMaxEvents
                 /\ r.kind = "more" => /\ r.live /\ r.cursor = actTimeline.cursor
                                       /\ r.limit <= ActMaxEvents - Len(actTimeline.list)
                 /\ r.live => r = new
                 /\ ~ (r.live /\ r.kind = "first")
      <4>1. CASE r \in actAsked BY <1>c, <2>2, <4>1
      <4>2. CASE r = new BY <3>3, <3>5, <3>6, <4>2
      <4>3. QED BY <3>7, <4>1, <4>2
    <3>9. QED BY <1>a, <2>1, <3>1, <3>8, Zenon DEF TimelineInv
  <2>5. QED BY <1>5, <2>3, <2>4 DEF Activity!ShowMore
<1>6. CASE Activity!MoreAnswered
  <2>0. PICK r \in actAsked :
          LET res == Activity!FetchPoolActivity(r.cursor, r.limit)
              all == actTimeline.list \o Activity!Fresh(res)
          IN  /\ r.kind = "more" /\ actAsked' = actAsked \ {r}
              /\ actTimeline' = [actTimeline EXCEPT
                   !.cursor = res.cursor, !.busy = FALSE,
                   !.list = SubSeq(all, 1, Activity!Minimum(Len(all), ActMaxEvents)),
                   !.more = res.raw >= r.limit /\ Len(all) < ActMaxEvents /\ Activity!Fresh(res) # <<>>]
    BY <1>6, Zenon DEF Activity!MoreAnswered
  <2> DEFINE res == Activity!FetchPoolActivity(r.cursor, r.limit)
             all == actTimeline.list \o Activity!Fresh(res)
  <2>1. r.kind = "more" /\ actAsked' = actAsked \ {r} BY <2>0
  <2>2. UNCHANGED <<actEmitted, actRoute, actPoolKept>> BY <1>6 DEF Activity!MoreAnswered
  <2>3. /\ r.live /\ r.cursor = actTimeline.cursor /\ r.limit \in Nat
        /\ r.limit <= ActMaxEvents - Len(actTimeline.list)
    BY <1>c, <2>1
  <2>4. /\ IsEventList(res.list) /\ Apart(res.list) /\ Len(res.list) <= r.limit
        /\ res.cursor \in Nat /\ res.cursor >= actTimeline.cursor
        /\ \A x : Among(res.list, x) <=> TimelineEvent(x, res.cursor) /\ x > actTimeline.cursor
    BY <1>a, <2>3, PoolActivity, Zenon
  <2> DEFINE P == {k \in DOMAIN res.list :
                     \A j \in DOMAIN actTimeline.list : ActLedger[actTimeline.list[j]].tx # ActLedger[res.list[k]].tx}
  <2>5. Activity!Fresh(res) = Activity!Kept(res.list, P) BY DEF Activity!Fresh, Activity!Where
  <2>6. /\ actTimeline' = [list |-> actTimeline'.list, cursor |-> actTimeline'.cursor, more |-> actTimeline'.more,
                           busy |-> actTimeline'.busy, error |-> actTimeline'.error, count |-> actTimeline'.count]
        /\ actTimeline'.list = SubSeq(all, 1, Activity!Minimum(Len(all), ActMaxEvents))
        /\ actTimeline'.cursor = res.cursor
    BY <1>b, <2>0, Zenon
  <2> HIDE DEF res
  <2>7. WholeTimeline(all, res.cursor) /\ Len(all) <= ActMaxEvents /\ all \in Seq(Nat)
    <3> DEFINE list == actTimeline.list
               more == res.list
               c == actTimeline.cursor
               next == res.cursor
               limit == r.limit
    <3>1. /\ c \in Nat /\ WholeTimeline(list, c) /\ IsEventList(more) /\ Apart(more) /\ next \in Nat
          /\ next >= c /\ (\A x : Among(more, x) <=> TimelineEvent(x, next) /\ x > c)
          /\ limit \in Nat /\ Len(more) <= limit /\ limit <= ActMaxEvents - Len(list)
          /\ P = {k \in DOMAIN more : \A j \in DOMAIN list : ActLedger[list[j]].tx # ActLedger[more[k]].tx}
          /\ all = list \o Activity!Kept(more, P)
      BY <1>a, <2>3, <2>4, <2>5
    <3> HIDE DEF list, more, c, next, limit, P, all
    <3>2. LET whole == list \o Activity!Kept(more, P)
          IN  WholeTimeline(whole, next) /\ Len(whole) <= ActMaxEvents /\ whole \in Seq(Nat)
      BY <3>1, TimelineGoesOn
    <3>3. WholeTimeline(all, next) /\ Len(all) <= ActMaxEvents /\ all \in Seq(Nat) BY <3>1, <3>2
    <3>4. QED BY <3>3 DEF next
  <2> HIDE DEF all, P
  <2>8. actTimeline'.list = all
    <3>1. Len(all) \in Nat /\ Activity!Minimum(Len(all), ActMaxEvents) = Len(all)
      BY <1>a, <2>7 DEF Activity!Minimum
    <3>2. SubSeq(all, 1, Len(all)) = all BY <2>7
    <3>3. QED BY <2>6, <3>1, <3>2
  <2>9. \A q \in actAsked' : q \in actAsked /\ ~ q.live /\ q.kind # "more" BY <1>c, <2>1, <2>3
  <2>10. actTimeline'.cursor \in Nat /\ WholeTimeline(actTimeline'.list, actTimeline'.cursor)
    BY <2>4, <2>6, <2>7, <2>8, Zenon
  <2>11. QED BY <1>a, <1>c, <2>2, <2>6, <2>9, <2>10, Zenon DEF TimelineInv
<1>7. CASE Activity!MoreFailed
  <2>1. PICK r \in actAsked : /\ r.kind = "more" /\ actAsked' = actAsked \ {r}
                             /\ actTimeline' = [actTimeline EXCEPT !.busy = FALSE, !.error = TRUE]
    BY <1>7 DEF Activity!MoreFailed
  <2>2. UNCHANGED <<actEmitted, actRoute, actPoolKept>> BY <1>7 DEF Activity!MoreFailed
  <2>3. /\ actTimeline' = [list |-> actTimeline'.list, cursor |-> actTimeline'.cursor, more |-> actTimeline'.more,
                           busy |-> actTimeline'.busy, error |-> actTimeline'.error, count |-> actTimeline'.count]
        /\ actTimeline'.list = actTimeline.list /\ actTimeline'.cursor = actTimeline.cursor
    BY <1>b, <2>1, Zenon
  <2>4. \A q \in actAsked' : q \in actAsked /\ ~ q.live /\ q.kind # "more" BY <1>c, <2>1
  <2>5. QED BY <1>a, <1>c, <2>2, <2>3, <2>4, Zenon DEF TimelineInv
<1>8. CASE Activity!PoolKeptExpires
  <2>1. actPoolKept' = {} /\ UNCHANGED <<actEmitted, actRoute, actTimeline, actAsked>>
    BY <1>8 DEF Activity!PoolKeptExpires
  <2>2. actEmitted' \in 0 .. Len(ActLedger) BY <1>a, <2>1
  <2>3. QED BY <2>1, <2>2, TimelineStays
<1>9. CASE Activity!Leave
  <2>1. /\ actRoute' = "elsewhere" /\ actTimeline' = Activity!NewTimeline
        /\ actAsked' = {[r EXCEPT !.live = FALSE] : r \in {q \in actAsked : q.kind = "first"}}
        /\ UNCHANGED <<actEmitted, actPoolKept>>
    BY <1>9 DEF Activity!Leave
  <2>2. /\ actTimeline' = [list |-> actTimeline'.list, cursor |-> actTimeline'.cursor, more |-> actTimeline'.more,
                           busy |-> actTimeline'.busy, error |-> actTimeline'.error, count |-> actTimeline'.count]
        /\ actTimeline'.list = << >> /\ actTimeline'.cursor = 0
    BY <2>1 DEF Activity!NewTimeline
  <2>3. WholeTimeline(actTimeline'.list, actTimeline'.cursor) /\ actTimeline'.cursor \in Nat
    BY <2>2, NoTimeline
  <2>4. ASSUME NEW r \in actAsked'
        PROVE  /\ r = [kind |-> r.kind, limit |-> r.limit, cursor |-> r.cursor, live |-> r.live]
               /\ r.limit \in Nat /\ r.limit <= ActMaxEvents /\ ~ r.live /\ r.kind # "more"
    <3>1. PICK q \in actAsked : q.kind = "first" /\ r = [q EXCEPT !.live = FALSE] BY <2>1
    <3>2. q = [kind |-> q.kind, limit |-> q.limit, cursor |-> q.cursor, live |-> q.live]
          /\ q.limit \in Nat /\ q.limit <= ActMaxEvents
      BY <1>c, <3>1
    <3>3. QED BY <3>1, <3>2, Zenon
  <2>5. QED BY <1>a, <2>1, <2>2, <2>3, <2>4, Zenon DEF TimelineInv
<1>10. ASSUME UNCHANGED <<actEmitted, actTimeline, actAsked, actPoolKept>>,
              actRoute = "market" => actRoute' = "market"
       PROVE  TimelineInv'
  <2>1. actEmitted' \in 0 .. Len(ActLedger) BY <1>a, <1>10
  <2>2. QED BY <1>10, <2>1, TimelineSame
<1>11. CASE Activity!OpenActivity
  <2>1. UNCHANGED <<actEmitted, actTimeline, actAsked, actPoolKept>> /\ actRoute # "market"
    BY <1>11 DEF Activity!OpenActivity
  <2>2. QED BY <1>10, <2>1
<1>12. CASE Activity!ReadFeed BY <1>10, <1>12 DEF Activity!ReadFeed
<1>13. CASE Activity!TurnPage BY <1>10, <1>13 DEF Activity!TurnPage, Activity!Browse
<1>14. CASE Activity!HandleExport BY <1>10, <1>14 DEF Activity!HandleExport
<1>15. CASE \E t \in {"all", "bet-placed", "winnings-claimed", "pool-created", "contract-call"} :
              Activity!SetFilter(t)
  BY <1>10, <1>15 DEF Activity!SetFilter, Activity!Browse
<1>16. CASE \E from, to \in ActDates : Activity!SetDates(from, to)
  BY <1>10, <1>16 DEF Activity!SetDates, Activity!Browse
<1>17. CASE \E a \in ActAccounts : Activity!SwitchAccount(a)
  BY <1>10, <1>17 DEF Activity!SwitchAccount
<1>18. [Activity!ActivityNext]_actVars BY ActivityStep
<1>19. QED BY <1>0, <1>1, <1>2, <1>3, <1>4, <1>5, <1>6, <1>7, <1>8, <1>9, <1>11, <1>12, <1>13, <1>14, <1>15,
          <1>16, <1>17, <1>18
         DEF Activity!ActivityNext

LEMMA TimelineInvariant == AppSpec => []TimelineInv
<1>1. AppInit => TimelineInv
  <2> SUFFICES ASSUME AppInit PROVE TimelineInv OBVIOUS
  <2>1. /\ actEmitted \in 0 .. Len(ActLedger) /\ actTimeline = Activity!NewTimeline
        /\ actAsked = {} /\ actPoolKept = {}
    BY DEF AppInit, Activity!ActivityInit
  <2>2. /\ actTimeline = [list |-> actTimeline.list, cursor |-> actTimeline.cursor, more |-> actTimeline.more,
                           busy |-> actTimeline.busy, error |-> actTimeline.error, count |-> actTimeline.count]
        /\ actTimeline.list = << >> /\ actTimeline.cursor = 0
    BY <2>1 DEF Activity!NewTimeline
  <2>3. WholeTimeline(actTimeline.list, actTimeline.cursor) /\ actTimeline.cursor \in Nat
    BY <2>2, NoTimeline
  <2>4. (\A k \in actPoolKept : FALSE) /\ (\A r \in actAsked : FALSE) BY <2>1
  <2>5. QED BY <2>1, <2>2, <2>3, <2>4, Zenon DEF TimelineInv
<1>2. QED BY <1>1, TimelineInvKept, PTL DEF AppSpec

(* Lemma: a whole timeline skips and repeats nothing (usePoolActivity).    *)
LEMMA TimelineWhole == TimelineInv => Activity!TimelineSkipsNothing
<1> SUFFICES ASSUME TimelineInv PROVE Activity!TimelineSkipsNothing OBVIOUS
<1> DEFINE list == actTimeline.list
           c == actTimeline.cursor
           mine == {i \in 1 .. c : /\ ActLedger[i].pool = ActThisPool /\ Activity!Decoded(ActLedger[i])
                                   /\ ActLedger[i].name \in Activity!TimelineNames}
           shown == Activity!ToSet(list)
<1>1. WholeTimeline(list, c) BY Zenon DEF TimelineInv
<1>2. DOMAIN list = 1 .. Len(list) BY <1>1 DEF WholeTimeline, IsEventList
<1> HIDE DEF list, c
<1>3. \A i : i \in mine <=> TimelineEvent(i, c) BY DEF TimelineEvent
<1>4. \A x : x \in shown <=> Among(list, x) BY <1>2 DEF Activity!ToSet, Among
<1> HIDE DEF mine, shown
<1>5. shown \subseteq mine /\ \A i \in mine : \E x \in shown : ActLedger[x].tx = ActLedger[i].tx
  BY <1>1, <1>3, <1>4, Zenon DEF WholeTimeline
<1>6. {ActLedger[i].tx : i \in shown} = {ActLedger[i].tx : i \in mine}
  <2>1. {ActLedger[i].tx : i \in shown} \subseteq {ActLedger[i].tx : i \in mine} BY <1>5
  <2>2. \A i \in mine : ActLedger[i].tx \in {ActLedger[x].tx : x \in shown} BY <1>5
  <2>3. QED BY <2>1, <2>2, Zenon
<1>7. Len(list) <= ActMaxEvents /\ Activity!IsInjective(list)
  BY <1>1, <1>2, Zenon DEF WholeTimeline, Apart, Activity!IsInjective
<1>8. QED BY <1>5, <1>6, <1>7 DEF Activity!TimelineSkipsNothing, list, c, mine, shown

-----------------------------------------------------------------------------
(* The export.  Its window starts on the day the page was asked from or    *)
(* earlier, unless it is cut and says so, and ends where the page does.    *)

ExportInv ==
  /\ actEmitted \in 0 .. Len(ActLedger)
  /\ IsEventList(actFeed)
  /\ actBrowse = [filter |-> actBrowse.filter, from |-> actBrowse.from, to |-> actBrowse.to,
                  page |-> actBrowse.page]
  /\ actBrowse.from \in Nat /\ actBrowse.to \in Nat
  /\ Activity!ExportIsTheList

LEMMA FeedIsEvents ==
  ASSUME actEmitted \in 0 .. Len(ActLedger)
  PROVE  IsEventList(Activity!FeedRead)
<1> DEFINE raw == Activity!GetEvents(Activity!FeedNames, 0, ActFeedLimit)
           Wanted(i) == Activity!Decoded(ActLedger[i]) /\ Activity!IsUserEvent(ActLedger[i])
           P == {k \in DOMAIN raw : Wanted(raw[k])}
           mine == Activity!Kept(raw, P)
<1>1. Activity!FeedRead = Activity!NewestFirst(mine) BY DEF Activity!FeedRead, Activity!Where
<1>2. actEmitted \in Nat /\ actEmitted <= Len(ActLedger) /\ Len(ActLedger) \in Nat /\ ActFeedLimit \in Nat
  BY ListsAssumption
<1>3. raw \in Seq(Nat) /\ \A x : Among(raw, x) => EventAfter(x, Activity!FeedNames, 0)
  BY <1>2, EventsRead, Zenon
<1>4. P \in SUBSET (1 .. Len(raw)) BY <1>3
<1> HIDE DEF raw, P
<1>5. mine \in Seq(Nat) /\ \A x : Among(mine, x) <=> \E i \in P : raw[i] = x
  BY <1>3, <1>4, ActivityKept
<1> HIDE DEF mine
<1>6. IsEventList(mine)
  <2> SUFFICES ASSUME NEW i \in 1 .. Len(mine) PROVE mine[i] \in 1 .. Len(ActLedger)
    BY <1>5 DEF IsEventList
  <2>1. Among(mine, mine[i]) BY DEF Among
  <2>2. PICK k \in P : raw[k] = mine[i] BY <1>5, <2>1
  <2>3. Among(raw, mine[i]) BY <1>4, <2>2 DEF Among
  <2>4. mine[i] \in 1 .. actEmitted BY <1>3, <2>3 DEF EventAfter
  <2>5. QED BY <1>2, <2>4
<1>7. QED BY <1>1, <1>6, EventsSorted

LEMMA MatchingEvents ==
  ASSUME IsEventList(actFeed)
  PROVE  LET m == Activity!Matching
         IN  /\ m \in Seq(Nat)
             /\ \A k \in 1 .. Len(m) :
                  /\ m[k] \in 1 .. Len(ActLedger)
                  /\ actBrowse.from = 0 \/ ActLedger[m[k]].day >= actBrowse.from
                  /\ actBrowse.to = 0 \/ ActLedger[m[k]].day <= actBrowse.to
<1> DEFINE Fits(i) == /\ actBrowse.filter \in {"all", Activity!ActivityType(ActLedger[i])}
                      /\ actBrowse.from = 0 \/ ActLedger[i].day >= actBrowse.from
                      /\ actBrowse.to = 0 \/ ActLedger[i].day <= actBrowse.to
           P == {k \in DOMAIN actFeed : Fits(actFeed[k])}
           m == Activity!Kept(actFeed, P)
<1>1. Activity!Matching = m BY DEF Activity!Matching, Activity!Where
<1>2. actFeed \in Seq(Nat) /\ P \in SUBSET (1 .. Len(actFeed)) BY DEF IsEventList
<1>3. \A k \in P : Fits(actFeed[k]) OBVIOUS
<1> HIDE DEF P
<1>4. m \in Seq(Nat) /\ \A x : Among(m, x) <=> \E i \in P : actFeed[i] = x BY <1>2, ActivityKept
<1> HIDE DEF m
<1>5. ASSUME NEW k \in 1 .. Len(m) PROVE m[k] \in 1 .. Len(ActLedger) /\ Fits(m[k])
  <2>1. Among(m, m[k]) BY DEF Among
  <2>2. PICK i \in P : actFeed[i] = m[k] BY <1>4, <2>1
  <2>3. actFeed[i] \in 1 .. Len(ActLedger) BY <1>2, <2>2 DEF IsEventList
  <2>4. Fits(actFeed[i]) BY <1>3
  <2> HIDE DEF Fits
  <2>5. QED BY <2>2, <2>3, <2>4
<1>6. QED BY <1>1, <1>4, <1>5

(* What matches and is in a window that was not cut is all that matches.   *)
LEMMA ScopeIsAll ==
  ASSUME IsEventList(actFeed), actBrowse.from \in Nat, actBrowse.to \in Nat, actBrowse.from # 0,
         ~ Activity!ExportWindow.clamped
  PROVE  Activity!FilterActivitiesForExport(Activity!Matching, Activity!ExportWindow) = Activity!Matching
<1> DEFINE m == Activity!Matching
           w == Activity!ExportWindow
           to == IF actBrowse.to = 0 THEN ActToday ELSE actBrowse.to
           from == Activity!Minimum(actBrowse.from, to)
<1>1. /\ m \in Seq(Nat)
      /\ \A k \in 1 .. Len(m) :
           /\ m[k] \in 1 .. Len(ActLedger)
           /\ actBrowse.from = 0 \/ ActLedger[m[k]].day >= actBrowse.from
           /\ actBrowse.to = 0 \/ ActLedger[m[k]].day <= actBrowse.to
  BY MatchingEvents
<1> HIDE DEF m
<1>2. w = [from |-> IF to - from > ActMaxWindow THEN to - ActMaxWindow ELSE from, to |-> to,
           clamped |-> to - from > ActMaxWindow]
  BY DEF Activity!ExportWindow
<1> HIDE DEF w
<1>3. w.from = from /\ w.to = to BY <1>2, Zenon DEF w
<1>4. to \in Nat /\ from \in Int /\ from <= actBrowse.from BY ListsAssumption DEF Activity!Minimum
<1> HIDE DEF from
<1>5. ASSUME NEW k \in 1 .. Len(m) PROVE w.from <= ActLedger[m[k]].day /\ ActLedger[m[k]].day <= w.to
  <2>1. ActLedger[m[k]].day \in 0 .. ActToday /\ ActToday \in Nat BY <1>1, ListsAssumption, Zenon
  <2>2. ActLedger[m[k]].day >= actBrowse.from BY <1>1
  <2>3. ActLedger[m[k]].day <= to BY <1>1, <2>1
  <2>4. QED BY <1>3, <1>4, <2>1, <2>2, <2>3
<1>6. Activity!FilterActivitiesForExport(m, w)
        = Activity!Kept(m, {k \in DOMAIN m : w.from <= ActLedger[m[k]].day /\ ActLedger[m[k]].day <= w.to})
  BY DEF Activity!FilterActivitiesForExport, Activity!Where
<1>7. DOMAIN m = 1 .. Len(m) BY <1>1
<1>8. {k \in DOMAIN m : w.from <= ActLedger[m[k]].day /\ ActLedger[m[k]].day <= w.to} = 1 .. Len(m)
  BY <1>5, <1>7
<1>9. Kept(m, 1 .. Len(m)) = m BY <1>1, KeptAll
<1>10. Activity!FilterActivitiesForExport(m, w) = m BY <1>6, <1>8, <1>9, ActivityLists, Zenon
<1>11. QED BY <1>10 DEF m, w

LEMMA ExportInvKept == ExportInv /\ [AppNext]_appVars => ExportInv'
<1> SUFFICES ASSUME ExportInv, [AppNext]_appVars PROVE ExportInv' OBVIOUS
<1>a. /\ actEmitted \in 0 .. Len(ActLedger) /\ Len(ActLedger) \in Nat
      /\ IsEventList(actFeed) /\ actBrowse.from \in Nat /\ actBrowse.to \in Nat
      /\ actBrowse = [filter |-> actBrowse.filter, from |-> actBrowse.from, to |-> actBrowse.to,
                      page |-> actBrowse.page]
      /\ Activity!ExportIsTheList
  BY ListsAssumption DEF ExportInv
<1>b. UNCHANGED actExport => Activity!ExportIsTheList'
  BY <1>a DEF Activity!ExportIsTheList
<1>c. ASSUME actEmitted' = actEmitted, UNCHANGED actExport, IsEventList(actFeed'), UNCHANGED actBrowse
      PROVE  ExportInv'
  BY <1>a, <1>b, <1>c, Zenon DEF ExportInv
<1>d. ASSUME UNCHANGED <<actEmitted, actFeed, actBrowse, actExport>> PROVE ExportInv'
  BY <1>a, <1>c, <1>d
<1>e. ASSUME UNCHANGED <<actEmitted, actFeed, actExport>>,
             actBrowse' = [filter |-> actBrowse'.filter, from |-> actBrowse'.from, to |-> actBrowse'.to,
                           page |-> actBrowse'.page],
             actBrowse'.from \in Nat, actBrowse'.to \in Nat
      PROVE  ExportInv'
  <2>1. IsEventList(actFeed') BY <1>a, <1>e
  <2>2. QED BY <1>a, <1>b, <1>e, <2>1, Zenon DEF ExportInv
<1>f. IsEventList(<< >>) BY DEF IsEventList
<1>0. CASE UNCHANGED actVars BY <1>0, <1>d DEF actVars
<1>1. CASE Activity!Emit
  <2>1. /\ actEmitted < Len(ActLedger) /\ actEmitted' = actEmitted + 1
        /\ actFeed' = actFeed /\ actBrowse' = actBrowse /\ UNCHANGED actExport
    BY <1>1 DEF Activity!Emit
  <2>2. actEmitted' \in 0 .. Len(ActLedger) BY <1>a, <2>1
  <2>3. IsEventList(actFeed') BY <1>a, <2>1
  <2>4. QED BY <1>a, <1>b, <2>1, <2>2, <2>3, Zenon DEF ExportInv
<1>2. CASE \/ Activity!OpenMarket \/ Activity!FirstPageAnswered \/ Activity!FirstPageFailed
           \/ Activity!ShowMore \/ Activity!MoreAnswered \/ Activity!MoreFailed
           \/ Activity!PoolKeptExpires \/ Activity!OpenActivity
  BY <1>2, <1>d, Zenon DEF Activity!OpenMarket, Activity!FirstPageAnswered, Activity!FirstPageFailed,
     Activity!ShowMore, Activity!MoreAnswered, Activity!MoreFailed, Activity!PoolKeptExpires,
     Activity!OpenActivity
<1>3. CASE Activity!ReadFeed
  <2>1. actFeed' \in {Activity!FeedRead, << >>} /\ UNCHANGED <<actEmitted, actBrowse, actExport>>
    BY <1>3 DEF Activity!ReadFeed
  <2>2. IsEventList(actFeed') BY <1>a, <1>f, <2>1, FeedIsEvents
  <2>3. QED BY <1>c, <2>1, <2>2
<1>4. CASE Activity!TurnPage
  <2>1. PICK p : actBrowse' = [actBrowse EXCEPT !.page = p] /\ UNCHANGED <<actEmitted, actFeed, actExport>>
    BY <1>4 DEF Activity!TurnPage, Activity!Browse
  <2>2. QED BY <1>a, <1>e, <2>1
<1>5. CASE \E t \in {"all", "bet-placed", "winnings-claimed", "pool-created", "contract-call"} :
             Activity!SetFilter(t)
  <2>1. PICK t : actBrowse' = [actBrowse EXCEPT !.filter = t, !.page = 1]
                 /\ UNCHANGED <<actEmitted, actFeed, actExport>>
    BY <1>5, Zenon DEF Activity!SetFilter, Activity!Browse
  <2>2. QED BY <1>a, <1>e, <2>1, Zenon
<1>6. CASE \E from, to \in ActDates : Activity!SetDates(from, to)
  <2>1. PICK from \in ActDates, to \in ActDates : Activity!SetDates(from, to) BY <1>6
  <2>2. actBrowse' = [actBrowse EXCEPT !.from = from, !.to = to, !.page = 1]
        /\ UNCHANGED <<actEmitted, actFeed, actExport>>
    BY <2>1 DEF Activity!SetDates, Activity!Browse
  <2>3. from \in Nat /\ to \in Nat BY ListsAssumption
  <2>4. QED BY <1>a, <1>e, <2>2, <2>3, Zenon
<1>7. CASE Activity!HandleExport
  <2> DEFINE m == Activity!Matching
             w == Activity!ExportWindow
             scoped == Activity!FilterActivitiesForExport(m, w)
  <2>1. /\ actExport' = [records |-> Activity!ToExportRecords(scoped), asked |-> m, from |-> actBrowse.from,
                        warned |-> w.clamped]
        /\ actEmitted' = actEmitted /\ actFeed' = actFeed /\ actBrowse' = actBrowse
    BY <1>7 DEF Activity!HandleExport
  <2>2. actExport'.from # 0 /\ ~ actExport'.warned => scoped = m
    <3>1. actExport'.from = actBrowse.from /\ actExport'.warned = w.clamped BY <2>1
    <3>2. ASSUME actBrowse.from # 0, ~ w.clamped PROVE scoped = m BY <1>a, <3>2, ScopeIsAll
    <3> HIDE DEF w, scoped, m
    <3>3. QED BY <3>1, <3>2
  <2>3. m \in Seq(Nat) BY <1>a, MatchingEvents
  <2>a. actExport'.records = Activity!ToExportRecords(scoped) /\ actExport'.asked = m BY <2>1
  <2> HIDE DEF scoped, w, m
  <2>4. scoped = m => [k \in DOMAIN actExport'.records |-> actExport'.records[k].event] = actExport'.asked
    <3> SUFFICES ASSUME scoped = m
                 PROVE  [k \in DOMAIN actExport'.records |-> actExport'.records[k].event] = actExport'.asked
      OBVIOUS
    <3>1. actExport'.records = [k \in DOMAIN m |-> [event |-> m[k], type |-> Activity!ActivityType(ActLedger[m[k]])]]
      BY <2>a DEF Activity!ToExportRecords
    <3>2. DOMAIN actExport'.records = DOMAIN m /\ \A k \in DOMAIN m : actExport'.records[k].event = m[k]
      BY <3>1
    <3>3. m = [k \in DOMAIN m |-> m[k]] BY <2>3
    <3>4. QED BY <2>a, <3>2, <3>3
  <2>5. Activity!ExportIsTheList' BY <2>2, <2>4 DEF Activity!ExportIsTheList
  <2>6. IsEventList(actFeed') BY <1>a, <2>1
  <2>7. QED BY <1>a, <2>1, <2>5, <2>6, Zenon DEF ExportInv
<1>8. CASE Activity!Leave
  <2>1. /\ actEmitted' = actEmitted /\ actFeed' = << >> /\ actBrowse' = Activity!NoBrowse
        /\ actExport' = Activity!NoExport
    BY <1>8 DEF Activity!Leave
  <2>2. /\ actBrowse' = [filter |-> actBrowse'.filter, from |-> actBrowse'.from, to |-> actBrowse'.to,
                        page |-> actBrowse'.page]
        /\ actBrowse'.from \in Nat /\ actBrowse'.to \in Nat
    BY <2>1 DEF Activity!NoBrowse
  <2>3. Activity!ExportIsTheList' BY <2>1 DEF Activity!ExportIsTheList, Activity!NoExport
  <2>4. IsEventList(actFeed') BY <1>f, <2>1
  <2>5. QED BY <1>a, <2>1, <2>2, <2>3, <2>4, Zenon DEF ExportInv
<1>9. CASE \E a \in ActAccounts : Activity!SwitchAccount(a)
  <2>1. actFeed' = << >> /\ UNCHANGED <<actEmitted, actBrowse, actExport>>
    BY <1>9 DEF Activity!SwitchAccount
  <2>2. QED BY <1>c, <1>f, <2>1
<1>10. [Activity!ActivityNext]_actVars BY ActivityStep
<1>11. QED BY <1>0, <1>1, <1>2, <1>3, <1>4, <1>5, <1>6, <1>7, <1>8, <1>9, <1>10 DEF Activity!ActivityNext

LEMMA ExportInvariant == AppSpec => []ExportInv
<1>1. AppInit => ExportInv
  <2> SUFFICES ASSUME AppInit PROVE ExportInv OBVIOUS
  <2>1. /\ actEmitted \in 0 .. Len(ActLedger) /\ actFeed = << >> /\ actBrowse = Activity!NoBrowse
        /\ actExport = Activity!NoExport
    BY DEF AppInit, Activity!ActivityInit
  <2>2. /\ actBrowse = [filter |-> actBrowse.filter, from |-> actBrowse.from, to |-> actBrowse.to,
                        page |-> actBrowse.page]
        /\ actBrowse.from \in Nat /\ actBrowse.to \in Nat
    BY <2>1 DEF Activity!NoBrowse
  <2>3. Activity!ExportIsTheList BY <2>1 DEF Activity!ExportIsTheList, Activity!NoExport
  <2>4. IsEventList(actFeed) BY <2>1 DEF IsEventList
  <2>5. QED BY <2>1, <2>2, <2>3, <2>4, Zenon DEF ExportInv
<1>2. QED BY <1>1, ExportInvKept, PTL DEF AppSpec

(* The pages of the chain's pools, those of the filtered markets, the      *)
(* timeline of a pool and the exported activity repeat nothing and skip    *)
(* nothing, whatever is created, placed or loaded while they are read and  *)
(* shown, but for the pools that nothing waits for when a page is read     *)
(* pool by pool.                                                           *)
THEOREM ListsStayWhole == AppSpec => []ListsAreWhole
<1>1. ReadsInv /\ ReadsWhole => Reads!PagesPartition BY ReadsPartition
<1>2. ListedInv /\ BrowseInv => MarketList!PagesAreTheList BY ListedPages DEF ListedInv
<1>3. TimelineInv => Activity!TimelineSkipsNothing BY TimelineWhole
<1>4. ExportInv => Activity!ExportIsTheList BY DEF ExportInv
<1>5. ReadsInv /\ ReadsWhole /\ ListedInv /\ BrowseInv /\ TimelineInv /\ ExportInv => ListsAreWhole
  BY <1>1, <1>2, <1>3, <1>4 DEF ListsAreWhole
<1>6. QED
  BY <1>5, ReadsInvariant, ReadsWholeInvariant, ListedInvariant, BrowseInvariant,
     TimelineInvariant, ExportInvariant, PTL

-----------------------------------------------------------------------------
(* The dashboards.  A row that says won is of a pool that the chain had    *)
(* settled for its side before the row was made, and such a pool keeps its *)
(* book; every figure is a count or a sum over parts of one list.          *)

LEMMA DashboardStep == [AppNext]_appVars => [Dashboard!DashNext]_dashVars
BY DEF AppNext, Step, Still, appVars

LEMMA DashboardLists ==
  /\ \A s, P : Dashboard!Kept(s, P) = Kept(s, P)
  /\ \A s, key : Dashboard!LargestFirst(s, key) = LargestFirst(s, key)
  /\ \A S : Dashboard!Cardinality(S) = Cardinality(S)
  /\ \A f, n : Dashboard!SumBelow(f, n) = SumBelow(f, n)
<1>1. \A s, P : Dashboard!Kept(s, P) = Kept(s, P)
  BY Zenon DEF Dashboard!Kept, Dashboard!Ascending, Dashboard!Below, Dashboard!Cardinality,
     Kept, Ascending, Below, Cardinality
<1>2. \A s, key : Dashboard!LargestFirst(s, key) = LargestFirst(s, key)
  BY Zenon DEF Dashboard!LargestFirst, Dashboard!Cardinality, LargestFirst, Cardinality
<1>3. \A S : Dashboard!Cardinality(S) = Cardinality(S) BY Zenon DEF Dashboard!Cardinality, Cardinality
<1>4. \A f, n : Dashboard!SumBelow(f, n) = SumBelow(f, n) BY Zenon DEF Dashboard!SumBelow, SumBelow
<1>5. QED BY <1>1, <1>2, <1>3, <1>4

\* A pool's book, a row of the bets of dashboard-api and one of the hook's.
PoolBook == [A : Nat, B : Nat, mine : [A : Nat, B : Nat], state : {"open", "A", "B"}, expiry : Nat]

BetRow == [pool : 1 .. DashLastPool, side : {"A", "B"}, amount : Nat,
           status : {"won", "lost", "expired", "active"}, winnings : {0},
           claim : {"not_eligible", "claimed", "unclaimed"}, claimable : Nat, potential : Nat]

BoardRow == [pool : 1 .. DashLastPool, side : {"A", "B"}, amount : Nat,
             status : {"active", "won", "lost"}, winnings : Nat]

\* A row that says won is one the chain pays, or has paid.
RowDue(bet, pools) ==
  /\ bet.claim = "unclaimed" => bet.status = "won"
  /\ bet.status = "won" =>
       /\ pools[bet.pool].state = bet.side
       /\ pools[bet.pool].mine[bet.side] \in {0, bet.amount}
       /\ bet.claimable = Dashboard!ActualWinnings(bet.amount, pools[bet.pool], bet.side, bet.side)

\* Whatever is settled keeps its book, and the account's stakes are only taken out.
BooksKept(old, new) ==
  \A p \in 1 .. DashLastPool :
    old[p].state # "open" =>
      /\ new[p].state = old[p].state /\ new[p].A = old[p].A /\ new[p].B = old[p].B
      /\ \A side \in {"A", "B"} : new[p].mine[side] \in {0, old[p].mine[side]}

ChainOk(pools) ==
  /\ pools \in [1 .. DashLastPool -> PoolBook]
  /\ \A p \in 1 .. DashLastPool : \A side \in {"A", "B"} : pools[p].mine[side] <= pools[p][side]

HistoryRows(d) == [k \in DOMAIN d.history |-> d.history[k].bet]

\* The figures of the last result are those of its rows and of its pools.
DashOk(d) ==
  LET rows == HistoryRows(d)
      n == d.metrics.total
  IN  /\ rows \in Seq(BetRow) /\ d.history = [k \in 1 .. Len(rows) |-> d.history[k]]
      /\ d.active = Kept(rows, {k \in 1 .. Len(rows) : rows[k].status = "active"})
      /\ d.portfolio = Dashboard!Portfolio(rows)
      /\ n \in Nat /\ DOMAIN d.markets = 1 .. n
      /\ \A p \in 1 .. n : /\ d.markets[p].status \in {"active", "settled", "expired"}
                           /\ d.markets[p].volume \in Int
      /\ d.metrics.active = Cardinality({p \in 1 .. n : d.markets[p].status = "active"})
      /\ d.metrics.settled = Cardinality({p \in 1 .. n : d.markets[p].status = "settled"})
      /\ d.metrics.expired = Cardinality({p \in 1 .. n : d.markets[p].status = "expired"})

ReadOk(r, pools) ==
  /\ r = [kind |-> r.kind, pool |-> r.pool, snapshot |-> r.snapshot, bets |-> r.bets]
  /\ r.kind \in {"none", "api", "board"}
  /\ r.kind # "none" => r.pool \in Nat \ {0}
  /\ r.kind = "api" => /\ r.snapshot \in [1 .. DashLastPool -> PoolBook]
                       /\ BooksKept(r.snapshot, pools)
                       /\ r.bets \in Seq(BetRow)
                       /\ \A k \in 1 .. Len(r.bets) : RowDue(r.bets[k], pools)
  /\ r.kind = "board" => r.bets \in Seq(BoardRow)

DashInv ==
  /\ ChainOk(dashChain) /\ dashHeight \in Nat
  /\ ReadOk(dashRead, dashChain)
  /\ dashBoard \in Seq(BoardRow)
  /\ DashOk(dashDash)
  /\ \A k \in 1 .. Len(HistoryRows(dashDash)) : RowDue(HistoryRows(dashDash)[k], dashChain)

LEMMA BooksSame == \A pools : BooksKept(pools, pools)
BY DEF BooksKept

LEMMA RowStays ==
  ASSUME NEW old, ChainOk(old), NEW new, BooksKept(old, new),
         NEW bet \in BetRow, RowDue(bet, old)
  PROVE  RowDue(bet, new)
<1> SUFFICES ASSUME bet.status = "won"
             PROVE  /\ new[bet.pool].state = bet.side
                    /\ new[bet.pool].mine[bet.side] \in {0, bet.amount}
                    /\ bet.claimable = Dashboard!ActualWinnings(bet.amount, new[bet.pool], bet.side, bet.side)
  BY DEF RowDue
<1>1. bet.pool \in 1 .. DashLastPool /\ bet.side \in {"A", "B"} BY DEF BetRow
<1>2. /\ old[bet.pool].state = bet.side
      /\ old[bet.pool].mine[bet.side] \in {0, bet.amount}
      /\ bet.claimable = Dashboard!ActualWinnings(bet.amount, old[bet.pool], bet.side, bet.side)
  BY DEF RowDue
<1>3. old[bet.pool].state # "open" BY <1>1, <1>2
<1>4. /\ new[bet.pool].state = old[bet.pool].state
      /\ new[bet.pool].A = old[bet.pool].A /\ new[bet.pool].B = old[bet.pool].B
      /\ new[bet.pool].mine[bet.side] \in {0, old[bet.pool].mine[bet.side]}
  BY <1>1, <1>3 DEF BooksKept
<1>5. Dashboard!ActualWinnings(bet.amount, new[bet.pool], bet.side, bet.side)
        = Dashboard!ActualWinnings(bet.amount, old[bet.pool], bet.side, bet.side)
  BY <1>1, <1>4 DEF Dashboard!ActualWinnings, Dashboard!Total
<1>6. QED BY <1>2, <1>4, <1>5

LEMMA BooksLead ==
  ASSUME NEW old, NEW mid, NEW new, BooksKept(old, mid), BooksKept(mid, new)
  PROVE  BooksKept(old, new)
<1> SUFFICES ASSUME NEW p \in 1 .. DashLastPool, old[p].state # "open"
             PROVE  /\ new[p].state = old[p].state /\ new[p].A = old[p].A /\ new[p].B = old[p].B
                    /\ \A side \in {"A", "B"} : new[p].mine[side] \in {0, old[p].mine[side]}
  BY DEF BooksKept
<1>1. /\ mid[p].state = old[p].state /\ mid[p].A = old[p].A /\ mid[p].B = old[p].B
      /\ \A side \in {"A", "B"} : mid[p].mine[side] \in {0, old[p].mine[side]}
  BY DEF BooksKept
<1>2. mid[p].state # "open" BY <1>1
<1>3. /\ new[p].state = mid[p].state /\ new[p].A = mid[p].A /\ new[p].B = mid[p].B
      /\ \A side \in {"A", "B"} : new[p].mine[side] \in {0, mid[p].mine[side]}
  BY <1>2 DEF BooksKept
<1>4. QED BY <1>1, <1>3

(* What was read stays true when the chain goes on.                        *)
LEMMA ChainGoesOn ==
  ASSUME DashInv, ChainOk(dashChain'), BooksKept(dashChain, dashChain'), dashHeight' \in Nat,
         UNCHANGED <<dashRead, dashDash, dashBoard>>
  PROVE  DashInv'
<1> DEFINE new == dashChain'
           rows == HistoryRows(dashDash)
<1>1. /\ ChainOk(dashChain) /\ ReadOk(dashRead, dashChain) /\ dashBoard \in Seq(BoardRow)
      /\ DashOk(dashDash) /\ \A k \in 1 .. Len(rows) : RowDue(rows[k], dashChain)
  BY DEF DashInv
<1>2. ChainOk(new) /\ BooksKept(dashChain, new) OBVIOUS
<1>3. rows \in Seq(BetRow) BY <1>1 DEF DashOk
<1> HIDE DEF new, rows
<1>4. ASSUME NEW k \in 1 .. Len(rows) PROVE RowDue(rows[k], new)
  <2>1. rows[k] \in BetRow BY <1>3
  <2>2. QED BY <1>1, <1>2, <2>1, RowStays
<1>5. ReadOk(dashRead, new)
  <2>1. ASSUME dashRead.kind = "api"
        PROVE  BooksKept(dashRead.snapshot, new) /\ \A k \in 1 .. Len(dashRead.bets) : RowDue(dashRead.bets[k], new)
    <3>1. /\ dashRead.snapshot \in [1 .. DashLastPool -> PoolBook]
          /\ BooksKept(dashRead.snapshot, dashChain) /\ dashRead.bets \in Seq(BetRow)
          /\ \A k \in 1 .. Len(dashRead.bets) : RowDue(dashRead.bets[k], dashChain)
      BY <1>1, <2>1 DEF ReadOk
    <3>2. BooksKept(dashRead.snapshot, new)
      <4> DEFINE old == dashRead.snapshot
      <4>1. BooksKept(old, dashChain) BY <3>1
      <4> HIDE DEF old
      <4>2. BooksKept(old, new) BY <1>2, <4>1, BooksLead
      <4>3. QED BY <4>2 DEF old
    <3>3. ASSUME NEW k \in 1 .. Len(dashRead.bets) PROVE RowDue(dashRead.bets[k], new)
      <4>1. dashRead.bets[k] \in BetRow BY <3>1
      <4>2. QED BY <1>1, <1>2, <3>1, <4>1, RowStays
    <3>4. QED BY <3>2, <3>3
  <2>2. QED BY <1>1, <2>1, Zenon DEF ReadOk
<1>6. rows = HistoryRows(dashDash') /\ dashDash' = dashDash /\ dashBoard' = dashBoard /\ dashRead' = dashRead
  BY DEF rows
<1>7. QED BY <1>1, <1>2, <1>4, <1>5, <1>6 DEF DashInv, new, rows

LEMMA ReadGoesOn ==
  ASSUME DashInv, UNCHANGED <<dashChain, dashHeight, dashDash, dashBoard>>, ReadOk(dashRead', dashChain)
  PROVE  DashInv'
<1>1. /\ ChainOk(dashChain) /\ dashHeight \in Nat /\ dashBoard \in Seq(BoardRow) /\ DashOk(dashDash)
      /\ \A k \in 1 .. Len(HistoryRows(dashDash)) : RowDue(HistoryRows(dashDash)[k], dashChain)
  BY DEF DashInv
<1>2. dashChain' = dashChain /\ dashHeight' = dashHeight /\ dashDash' = dashDash /\ dashBoard' = dashBoard
  OBVIOUS
<1>3. QED BY <1>1, <1>2, Zenon DEF DashInv

LEMMA StakedList ==
  ASSUME ChainOk(dashChain), NEW p \in 1 .. DashLastPool
  PROVE  /\ Dashboard!StakedSides(p) \in Seq({"A", "B"})
         /\ \A k \in 1 .. Len(Dashboard!StakedSides(p)) :
              dashChain[p].mine[Dashboard!StakedSides(p)[k]] > 0
<1> DEFINE both == <<"A", "B">>
           P == {k \in DOMAIN both : dashChain[p].mine[both[k]] > 0}
           sides == Kept(both, P)
<1>1. Dashboard!StakedSides(p) = sides BY DashboardLists DEF Dashboard!StakedSides, Dashboard!Where
<1>2. both \in Seq({"A", "B"}) /\ DOMAIN both = 1 .. 2 /\ Len(both) = 2 OBVIOUS
<1> HIDE DEF both
<1>3. P \in SUBSET (1 .. Len(both)) /\ \A k \in P : dashChain[p].mine[both[k]] > 0 BY <1>2
<1> HIDE DEF P
<1>4. /\ sides \in Seq({"A", "B"}) /\ Len(sides) = Cardinality(P)
      /\ Ascending(P) \in [1 .. Cardinality(P) -> P]
      /\ \A n \in 1 .. Cardinality(P) : sides[n] = both[Ascending(P)[n]]
  BY <1>2, <1>3, KeptList
<1> HIDE DEF sides
<1>5. ASSUME NEW k \in 1 .. Len(sides) PROVE dashChain[p].mine[sides[k]] > 0
  <2>1. Ascending(P)[k] \in P /\ sides[k] = both[Ascending(P)[k]] BY <1>4
  <2>2. QED BY <1>3, <2>1
<1>6. QED BY <1>1, <1>4, <1>5

LEMMA BookSides ==
  ASSUME NEW pool \in PoolBook, NEW side \in {"A", "B"}
  PROVE  /\ pool[side] \in Nat /\ pool[Dashboard!Other(side)] \in Nat /\ pool.mine[side] \in Nat
         /\ Dashboard!Total(pool) \in Nat /\ pool.A \in Nat /\ pool.B \in Nat /\ pool.expiry \in Nat
         /\ pool.state \in {"open", "A", "B"} /\ Dashboard!Total(pool) = pool.A + pool.B
BY DEF PoolBook, Dashboard!Other, Dashboard!Total

LEMMA WinningsNat ==
  ASSUME NEW pool \in PoolBook, NEW side \in {"A", "B"}, NEW amount \in Nat
  PROVE  Dashboard!ActualWinnings(amount, pool, side, side) \in Nat
<1>1. pool[side] \in Nat /\ Dashboard!Total(pool) \in Nat BY BookSides
<1>2. CASE pool[side] = 0 BY <1>2 DEF Dashboard!ActualWinnings
<1>3. CASE pool[side] # 0
  <2>1. Dashboard!Total(pool) * amount \in Nat BY <1>1
  <2>2. (Dashboard!Total(pool) * amount) \div pool[side] \in Nat BY <1>1, <1>3, <2>1, DivNat
  <2>3. QED BY <1>3, <2>2 DEF Dashboard!ActualWinnings
<1>4. QED BY <1>2, <1>3

LEMMA BetCreated ==
  ASSUME ChainOk(dashChain), dashHeight \in Nat, NEW p \in 1 .. DashLastPool, NEW pool \in PoolBook,
         pool.state # "open" => /\ dashChain[p].state = pool.state
                                /\ dashChain[p].A = pool.A /\ dashChain[p].B = pool.B,
         NEW side \in {"A", "B"}, NEW amount, amount = dashChain[p].mine[side], amount > 0
  PROVE  LET bet == Dashboard!CreateUserBet(p, pool, side, amount)
         IN  bet \in BetRow /\ RowDue(bet, dashChain)
<1> DEFINE bet == Dashboard!CreateUserBet(p, pool, side, amount)
<1>1. dashChain[p] \in PoolBook BY DEF ChainOk
<1>2. amount \in Nat BY <1>1, BookSides
<1>3. /\ pool[side] \in Nat /\ pool[Dashboard!Other(side)] \in Nat /\ Dashboard!Total(pool) \in Nat
      /\ pool.state \in {"open", "A", "B"} /\ pool.expiry \in Nat
  BY BookSides
<1>4. Dashboard!PotentialWinnings(amount, pool, side) \in Nat
  <2>1. pool[side] + amount \in Nat \ {0} /\ pool[Dashboard!Other(side)] * amount \in Nat BY <1>2, <1>3
  <2>2. (pool[Dashboard!Other(side)] * amount) \div (pool[side] + amount) \in Nat BY <2>1, DivNat
  <2>3. QED BY <1>2, <1>3, <2>2 DEF Dashboard!PotentialWinnings
<1>5. Dashboard!ActualWinnings(amount, pool, side, side) \in Nat BY <1>2, WinningsNat
<1>6. Dashboard!Settled(pool) <=> pool.state # "open"
  BY <1>3 DEF Dashboard!Settled, Dashboard!Sides
<1> DEFINE status == IF Dashboard!Settled(pool) THEN IF Dashboard!Winner(pool) = side THEN "won" ELSE "lost"
                     ELSE IF dashHeight > pool.expiry THEN "expired" ELSE "active"
           claimed == dashChain[p].mine["A"] = 0 /\ dashChain[p].mine["B"] = 0
<1>7. bet = [pool |-> p, side |-> side, amount |-> amount, status |-> status, winnings |-> 0,
             claim |-> IF status # "won" THEN "not_eligible" ELSE IF claimed THEN "claimed" ELSE "unclaimed",
             claimable |-> IF status = "won" THEN Dashboard!ActualWinnings(amount, pool, side, side) ELSE 0,
             potential |-> IF status = "active" THEN Dashboard!PotentialWinnings(amount, pool, side) ELSE 0]
  BY DEF Dashboard!CreateUserBet
<1>8. status \in {"won", "lost", "expired", "active"} OBVIOUS
<1>9. status = "won" => pool.state # "open" /\ pool.state = side BY <1>6 DEF Dashboard!Winner
<1> HIDE DEF status, claimed, bet
<1>10. bet \in BetRow BY <1>2, <1>4, <1>5, <1>7, <1>8 DEF BetRow
<1>11. bet.pool = p /\ bet.side = side /\ bet.amount = amount /\ bet.status = status
       /\ (bet.claim = "unclaimed" => status = "won")
       /\ (status = "won" => bet.claimable = Dashboard!ActualWinnings(amount, pool, side, side))
  BY <1>7
<1>12. ASSUME status = "won"
       PROVE  /\ dashChain[p].state = side /\ dashChain[p].mine[side] = amount
              /\ Dashboard!ActualWinnings(amount, dashChain[p], side, side)
                   = Dashboard!ActualWinnings(amount, pool, side, side)
  <2>1. dashChain[p].state = pool.state /\ dashChain[p].A = pool.A /\ dashChain[p].B = pool.B
    BY <1>9, <1>12
  <2>2. dashChain[p][side] = pool[side] /\ Dashboard!Total(dashChain[p]) = Dashboard!Total(pool)
    BY <2>1 DEF Dashboard!Total
  <2>3. QED BY <1>9, <1>12, <2>1, <2>2 DEF Dashboard!ActualWinnings
<1>13. RowDue(bet, dashChain) BY <1>11, <1>12 DEF RowDue
<1>14. QED BY <1>10, <1>13 DEF bet

LEMMA BoardBetTyped ==
  ASSUME ChainOk(dashChain), NEW p \in 1 .. DashLastPool, NEW side \in {"A", "B"},
         dashChain[p].mine[side] > 0
  PROVE  Dashboard!BoardBet(p, side, dashChain[p].mine[side]) \in BoardRow
<1> DEFINE pool == dashChain[p]
           amount == pool.mine[side]
           won == Dashboard!Settled(pool) /\ Dashboard!Winner(pool) = side
           paid == (amount * Dashboard!Total(pool)) \div pool[side]
<1>1. pool \in PoolBook /\ amount <= pool[side] BY DEF ChainOk
<1> HIDE DEF pool
<1>2. pool[side] \in Nat /\ amount \in Nat /\ Dashboard!Total(pool) \in Nat BY <1>1, BookSides
<1>3. amount > 0 BY DEF pool
<1> HIDE DEF amount
<1>4. paid \in Nat
  <2>1. pool[side] \in Nat \ {0} /\ amount * Dashboard!Total(pool) \in Nat BY <1>1, <1>2, <1>3
  <2>2. QED BY <2>1, DivNat
<1> HIDE DEF paid
<1>5. Dashboard!BoardBet(p, side, amount)
        = [pool |-> p, side |-> side, amount |-> amount,
           status |-> IF ~ Dashboard!Settled(pool) THEN "active" ELSE IF won THEN "won" ELSE "lost",
           winnings |-> IF won THEN paid ELSE 0]
  BY DEF Dashboard!BoardBet, pool, paid, amount
<1>6. Dashboard!BoardBet(p, side, amount) \in BoardRow
  <2> HIDE DEF won
  <2>1. QED BY <1>2, <1>4, <1>5 DEF BoardRow
<1>7. QED BY <1>6 DEF pool, amount

(* The chain's own steps.                                                  *)
LEMMA BookChanged ==
  ASSUME DashInv, NEW p \in 1 .. DashLastPool, NEW book \in PoolBook,
         \A side \in {"A", "B"} : book.mine[side] <= book[side],
         dashChain[p].state # "open" =>
           /\ book.state = dashChain[p].state /\ book.A = dashChain[p].A /\ book.B = dashChain[p].B
           /\ \A side \in {"A", "B"} : book.mine[side] \in {0, dashChain[p].mine[side]},
         dashChain' = [dashChain EXCEPT ![p] = book],
         UNCHANGED <<dashHeight, dashRead, dashDash, dashBoard>>
  PROVE  DashInv'
<1>1. ChainOk(dashChain) /\ dashHeight' \in Nat BY DEF DashInv
<1>2. dashChain \in [1 .. DashLastPool -> PoolBook] BY <1>1 DEF ChainOk
<1> DEFINE new == [dashChain EXCEPT ![p] = book]
<1>3. /\ new \in [1 .. DashLastPool -> PoolBook]
      /\ \A q \in 1 .. DashLastPool : new[q] = IF q = p THEN book ELSE dashChain[q]
  BY <1>2
<1>4. dashChain' = new OBVIOUS
<1> HIDE DEF new
<1>5. ChainOk(new)
  <2>1. ASSUME NEW q \in 1 .. DashLastPool, NEW side \in {"A", "B"} PROVE new[q].mine[side] <= new[q][side]
    <3>1. CASE q = p BY <1>3, <3>1
    <3>2. CASE q # p
      <4>1. new[q] = dashChain[q] BY <1>3, <3>2
      <4>2. dashChain[q].mine[side] <= dashChain[q][side] BY <1>1 DEF ChainOk
      <4>3. QED BY <4>1, <4>2
    <3>3. QED BY <3>1, <3>2
  <2>2. QED BY <1>3, <2>1 DEF ChainOk
<1>6. BooksKept(dashChain, new)
  <2> SUFFICES ASSUME NEW q \in 1 .. DashLastPool, dashChain[q].state # "open"
               PROVE  /\ new[q].state = dashChain[q].state /\ new[q].A = dashChain[q].A
                      /\ new[q].B = dashChain[q].B
                      /\ \A side \in {"A", "B"} : new[q].mine[side] \in {0, dashChain[q].mine[side]}
    BY DEF BooksKept
  <2>1. CASE q = p BY <1>3, <2>1
  <2>2. CASE q # p
    <3>1. new[q] = dashChain[q] BY <1>3, <2>2
    <3>2. QED BY <3>1
  <2>3. QED BY <2>1, <2>2
<1>7. QED BY <1>1, <1>4, <1>5, <1>6, ChainGoesOn, Zenon

LEMMA ChainSame ==
  ASSUME DashInv, dashHeight' \in Nat, UNCHANGED <<dashChain, dashRead, dashDash, dashBoard>>
  PROVE  DashInv'
<1>1. ChainOk(dashChain) BY DEF DashInv
<1>2. dashChain' = dashChain OBVIOUS
<1>3. ChainOk(dashChain') /\ BooksKept(dashChain, dashChain') BY <1>1, <1>2, BooksSame
<1>4. QED BY <1>3, ChainGoesOn

LEMMA ClaimPaid ==
  ASSUME DashInv, NEW p \in 1 .. DashLastPool, Dashboard!ClaimEnds(p)
  PROVE  DashInv'
<1>1. UNCHANGED <<dashHeight, dashRead, dashDash, dashBoard>> BY DEF Dashboard!ClaimEnds
<1>2. CASE UNCHANGED dashChain
  <2>1. dashHeight' \in Nat BY <1>1 DEF DashInv
  <2>2. QED BY <1>1, <1>2, <2>1, ChainSame
<1>3. CASE dashChain' = [dashChain EXCEPT ![p].mine = Dashboard!NoStake]
  <2> DEFINE book == [dashChain[p] EXCEPT !.mine = Dashboard!NoStake]
  <2>1. dashChain[p] \in PoolBook BY DEF DashInv, ChainOk
  <2>2. /\ book \in PoolBook /\ book.mine["A"] = 0 /\ book.mine["B"] = 0
        /\ book.A = dashChain[p].A /\ book.B = dashChain[p].B /\ book.state = dashChain[p].state
    BY <2>1 DEF PoolBook, Dashboard!NoStake
  <2>3. dashChain' = [dashChain EXCEPT ![p] = book] BY <1>3
  <2>4. book["A"] \in Nat /\ book["B"] \in Nat BY <2>2, BookSides, Zenon
  <2> HIDE DEF book
  <2>5. \A side \in {"A", "B"} : book.mine[side] <= book[side] BY <2>2, <2>4
  <2>6. \A side \in {"A", "B"} : book.mine[side] \in {0, dashChain[p].mine[side]} BY <2>2
  <2>7. QED BY <1>1, <2>2, <2>3, <2>5, <2>6, BookChanged, Zenon
<1>4. QED BY <1>2, <1>3 DEF Dashboard!ClaimEnds

LEMMA BetPlaced ==
  ASSUME DashInv, NEW p \in 1 .. DashLastPool, NEW side \in {"A", "B"}, Dashboard!Bet(p, side)
  PROVE  DashInv'
<1>1. /\ UNCHANGED <<dashHeight, dashRead, dashDash, dashBoard>>
      /\ ~ Dashboard!Settled(dashChain[p])
      /\ dashChain' = [dashChain EXCEPT ![p].mine[side] = 1, ![p][side] = @ + 1]
  BY DEF Dashboard!Bet
<1>2. dashChain[p] \in PoolBook /\ \A s \in {"A", "B"} : dashChain[p].mine[s] <= dashChain[p][s]
  BY DEF DashInv, ChainOk
<1>3. dashChain[p].state = "open"
  BY <1>1, <1>2, BookSides DEF Dashboard!Settled, Dashboard!Sides
<1> DEFINE book == [[dashChain[p] EXCEPT !.mine[side] = 1] EXCEPT ![side] = @ + 1]
<1>4. dashChain' = [dashChain EXCEPT ![p] = book]
  <2>1. p \in DOMAIN dashChain BY DEF DashInv, ChainOk
  <2>2. QED BY <1>1, <2>1, Zenon
<1>5. book \in PoolBook /\ \A s \in {"A", "B"} : book.mine[s] <= book[s]
  <2> DEFINE pool == dashChain[p]
  <2>a. /\ pool = [A |-> pool.A, B |-> pool.B, mine |-> pool.mine, state |-> pool.state, expiry |-> pool.expiry]
        /\ pool.mine = [A |-> pool.mine.A, B |-> pool.mine.B]
        /\ pool.A \in Nat /\ pool.B \in Nat /\ pool.mine.A \in Nat /\ pool.mine.B \in Nat
        /\ pool.state \in {"open", "A", "B"} /\ pool.expiry \in Nat
    BY <1>2 DEF PoolBook
  <2>b. pool.mine.A <= pool.A /\ pool.mine.B <= pool.B BY <1>2
  <2>c. book = [[pool EXCEPT !.mine[side] = 1] EXCEPT ![side] = @ + 1] OBVIOUS
  <2> HIDE DEF pool, book
  <2>1. CASE side = "A"
    <3>1. book = [A |-> pool.A + 1, B |-> pool.B, mine |-> [A |-> 1, B |-> pool.mine.B],
                  state |-> pool.state, expiry |-> pool.expiry]
      BY <2>1, <2>a, <2>c, Zenon
    <3>2. /\ book.mine["A"] = 1 /\ book.mine["B"] = pool.mine.B /\ book["A"] = pool.A + 1 /\ book["B"] = pool.B
      BY <3>1
    <3>3. book \in PoolBook BY <2>a, <3>1 DEF PoolBook
    <3>4. QED BY <2>a, <2>b, <3>2, <3>3
  <2>2. CASE side = "B"
    <3>1. book = [A |-> pool.A, B |-> pool.B + 1, mine |-> [A |-> pool.mine.A, B |-> 1],
                  state |-> pool.state, expiry |-> pool.expiry]
      BY <2>2, <2>a, <2>c, Zenon
    <3>2. /\ book.mine["A"] = pool.mine.A /\ book.mine["B"] = 1 /\ book["A"] = pool.A /\ book["B"] = pool.B + 1
      BY <3>1
    <3>3. book \in PoolBook BY <2>a, <3>1 DEF PoolBook
    <3>4. QED BY <2>a, <2>b, <3>2, <3>3
  <2>3. QED BY <2>1, <2>2
<1> HIDE DEF book
<1>6. QED BY <1>1, <1>3, <1>4, <1>5, BookChanged, Zenon

LEMMA PoolSettled ==
  ASSUME DashInv, NEW p \in 1 .. DashLastPool, NEW side \in {"A", "B"}, Dashboard!Settle(p, side)
  PROVE  DashInv'
<1>1. /\ UNCHANGED <<dashHeight, dashRead, dashDash, dashBoard>>
      /\ ~ Dashboard!Settled(dashChain[p])
      /\ dashChain' = [dashChain EXCEPT ![p].state = side]
  BY DEF Dashboard!Settle
<1>2. dashChain[p] \in PoolBook /\ \A s \in {"A", "B"} : dashChain[p].mine[s] <= dashChain[p][s]
  BY DEF DashInv, ChainOk
<1>3. dashChain[p].state = "open"
  BY <1>1, <1>2, BookSides DEF Dashboard!Settled, Dashboard!Sides
<1> DEFINE book == [dashChain[p] EXCEPT !.state = side]
<1>4. dashChain' = [dashChain EXCEPT ![p] = book] BY <1>1
<1>5. book \in PoolBook /\ \A s \in {"A", "B"} : book.mine[s] <= book[s] BY <1>2 DEF PoolBook
<1> HIDE DEF book
<1>6. QED BY <1>1, <1>3, <1>4, <1>5, BookChanged, Zenon

(* The walk over the pools.                                                *)
LEMMA BetRead ==
  ASSUME DashInv, Dashboard!ReadUserBet
  PROVE  DashInv'
<1> DEFINE p == dashRead.pool
           sides == Dashboard!StakedSides(p)
           more == [k \in DOMAIN sides |->
                     Dashboard!CreateUserBet(p, dashRead.snapshot[p], sides[k], dashChain[p].mine[sides[k]])]
           old == dashRead.bets
<1>1. /\ dashRead.kind = "api" /\ dashRead.pool <= DashLastPool
      /\ UNCHANGED <<dashChain, dashHeight, dashDash, dashBoard>>
      /\ \E rows \in {<<>>, more} :
           dashRead' = [dashRead EXCEPT !.pool = @ + 1, !.bets = @ \o rows]
  BY Zenon DEF Dashboard!ReadUserBet
<1>2. /\ ChainOk(dashChain) /\ dashHeight \in Nat /\ ReadOk(dashRead, dashChain)
  BY DEF DashInv
<1>3. /\ dashRead = [kind |-> dashRead.kind, pool |-> dashRead.pool, snapshot |-> dashRead.snapshot,
                     bets |-> dashRead.bets]
      /\ dashRead.pool \in Nat \ {0} /\ dashRead.snapshot \in [1 .. DashLastPool -> PoolBook]
      /\ BooksKept(dashRead.snapshot, dashChain)
      /\ old \in Seq(BetRow) /\ \A k \in 1 .. Len(old) : RowDue(old[k], dashChain)
  BY <1>1, <1>2 DEF ReadOk
<1>4. p \in 1 .. DashLastPool BY <1>1, <1>3, ListsAssumption
<1>5. dashRead.snapshot[p] \in PoolBook BY <1>3, <1>4, Zenon
<1>6. dashRead.snapshot[p].state # "open" =>
        /\ dashChain[p].state = dashRead.snapshot[p].state
        /\ dashChain[p].A = dashRead.snapshot[p].A /\ dashChain[p].B = dashRead.snapshot[p].B
  BY <1>3, <1>4 DEF BooksKept
<1>7. sides \in Seq({"A", "B"}) /\ \A k \in 1 .. Len(sides) : dashChain[p].mine[sides[k]] > 0
  BY <1>2, <1>4, StakedList
<1>8. DOMAIN sides = 1 .. Len(sides) BY <1>7
<1> HIDE DEF sides, old
<1>9. ASSUME NEW k \in 1 .. Len(sides) PROVE more[k] \in BetRow /\ RowDue(more[k], dashChain)
  <2> DEFINE side == sides[k]
             amount == dashChain[p].mine[side]
             pool == dashRead.snapshot[p]
  <2>1. side \in {"A", "B"} /\ amount > 0 BY <1>7
  <2>2. more[k] = Dashboard!CreateUserBet(p, pool, side, amount) BY <1>8
  <2> HIDE DEF side, amount, pool, p, more
  <2>3. pool \in PoolBook /\ (pool.state # "open" => /\ dashChain[p].state = pool.state
                                                      /\ dashChain[p].A = pool.A /\ dashChain[p].B = pool.B)
    BY <1>5, <1>6 DEF pool
  <2>4. amount = dashChain[p].mine[side] BY DEF amount
  <2>5. LET bet == Dashboard!CreateUserBet(p, pool, side, amount) IN bet \in BetRow /\ RowDue(bet, dashChain)
    BY <1>2, <1>4, <2>1, <2>3, <2>4, BetCreated
  <2>6. QED BY <2>2, <2>5
<1>10. more = [k \in DOMAIN sides |-> more[k]] OBVIOUS
<1> HIDE DEF more
<1>11. /\ old \o more \in Seq(BetRow)
       /\ \A k \in 1 .. Len(old \o more) :
            \/ k \in 1 .. Len(old) /\ (old \o more)[k] = old[k]
            \/ \E i \in 1 .. Len(sides) : (old \o more)[k] = more[i]
  <2>1. \A k \in 1 .. Len(sides) : more[k] \in BetRow BY <1>9
  <2> HIDE DEF p
  <2>2. old \in Seq(BetRow) BY <1>3
  <2>3. sides \in Seq({"A", "B"}) BY <1>7
  <2>4. old \o more \in Seq(BetRow) BY <1>10, <2>1, <2>2, <2>3, RowsAppended, Zenon
  <2>5. Appended(old \o more, old, more, Len(sides)) BY <1>10, <2>1, <2>2, <2>3, RowsAppended, Zenon
  <2>6. QED BY <2>4, <2>5 DEF Appended
<1>12. \A k \in 1 .. Len(old \o more) : RowDue((old \o more)[k], dashChain)
  BY <1>3, <1>9, <1>11
<1>13. old \o << >> = old BY <1>3, ConcatEmptySeq
<1>14. PICK rows \in {<<>>, more} : dashRead' = [dashRead EXCEPT !.pool = @ + 1, !.bets = @ \o rows]
  BY <1>1, Zenon
<1>15. old \o rows \in Seq(BetRow) /\ \A k \in 1 .. Len(old \o rows) : RowDue((old \o rows)[k], dashChain)
  BY <1>3, <1>11, <1>12, <1>13, <1>14, Zenon
<1> DEFINE whole == old \o rows
<1>16. dashRead' = [kind |-> "api", pool |-> p + 1, snapshot |-> dashRead.snapshot, bets |-> whole]
  BY <1>1, <1>3, <1>14, Zenon DEF old
<1> HIDE DEF whole
<1>17. whole \in Seq(BetRow) /\ \A k \in 1 .. Len(whole) : RowDue(whole[k], dashChain)
  BY <1>15 DEF whole
<1>18. p + 1 \in Nat \ {0} BY <1>3
<1>19. ReadOk(dashRead', dashChain) BY <1>3, <1>16, <1>17, <1>18 DEF ReadOk
<1>20. QED BY <1>1, <1>19, ReadGoesOn

LEMMA BoardBetRead ==
  ASSUME DashInv, Dashboard!ReadBoardBet
  PROVE  DashInv'
<1> DEFINE p == dashRead.pool
           sides == Dashboard!StakedSides(p)
           more == [k \in DOMAIN sides |-> Dashboard!BoardBet(p, sides[k], dashChain[p].mine[sides[k]])]
           old == dashRead.bets
<1>1. /\ dashRead.kind = "board" /\ dashRead.pool < DashLastPool
      /\ UNCHANGED <<dashChain, dashHeight, dashDash, dashBoard>>
      /\ \E rows \in {<<>>, more} :
           dashRead' = [dashRead EXCEPT !.pool = @ + 1, !.bets = @ \o rows]
  BY Zenon DEF Dashboard!ReadBoardBet
<1>2. ChainOk(dashChain) /\ ReadOk(dashRead, dashChain) BY DEF DashInv
<1>3. /\ dashRead = [kind |-> dashRead.kind, pool |-> dashRead.pool, snapshot |-> dashRead.snapshot,
                     bets |-> dashRead.bets]
      /\ dashRead.pool \in Nat \ {0} /\ old \in Seq(BoardRow)
  BY <1>1, <1>2 DEF ReadOk
<1>4. p \in 1 .. DashLastPool BY <1>1, <1>3, ListsAssumption
<1>5. sides \in Seq({"A", "B"}) /\ \A k \in 1 .. Len(sides) : dashChain[p].mine[sides[k]] > 0
  BY <1>2, <1>4, StakedList
<1>6. DOMAIN sides = 1 .. Len(sides) BY <1>5
<1> HIDE DEF sides, old
<1>7. ASSUME NEW k \in 1 .. Len(sides) PROVE more[k] \in BoardRow
  <2>1. sides[k] \in {"A", "B"} /\ dashChain[p].mine[sides[k]] > 0 BY <1>5
  <2>2. more[k] = Dashboard!BoardBet(p, sides[k], dashChain[p].mine[sides[k]]) BY <1>6
  <2>3. QED BY <1>2, <1>4, <2>1, <2>2, BoardBetTyped
<1>8. more = [k \in DOMAIN sides |-> more[k]] OBVIOUS
<1> HIDE DEF more
<1>9. old \o more \in Seq(BoardRow) BY <1>3, <1>5, <1>7, <1>8, RowsAppended, Zenon
<1>10. old \o << >> = old BY <1>3, ConcatEmptySeq
<1>11. PICK rows \in {<<>>, more} : dashRead' = [dashRead EXCEPT !.pool = @ + 1, !.bets = @ \o rows]
  BY <1>1, Zenon
<1>12. old \o rows \in Seq(BoardRow) BY <1>3, <1>9, <1>10, <1>11, Zenon
<1> DEFINE whole == old \o rows
<1>13. dashRead' = [kind |-> "board", pool |-> p + 1, snapshot |-> dashRead.snapshot, bets |-> whole]
  BY <1>1, <1>3, <1>11, Zenon DEF old
<1> HIDE DEF whole
<1>14. whole \in Seq(BoardRow) /\ p + 1 \in Nat \ {0} BY <1>3, <1>12 DEF whole
<1>15. ReadOk(dashRead', dashChain) BY <1>13, <1>14 DEF ReadOk
<1>16. QED BY <1>1, <1>15, ReadGoesOn

(* What fetchDashboardData puts together.                                  *)
LEMMA DashboardFetched ==
  ASSUME DashInv, Dashboard!FetchDashboardData
  PROVE  DashInv'
<1> DEFINE bets == dashRead.bets
           markets == Dashboard!ProcessMarketStatistics(dashChain)
           metrics == Dashboard!PlatformMetrics(dashChain, bets)
           active == {k \in DOMAIN bets : bets[k].status = "active"}
           new == [active |-> Dashboard!Kept(bets, active), history |-> Dashboard!BetHistory(bets),
                   portfolio |-> Dashboard!Portfolio(bets), markets |-> markets, metrics |-> metrics]
           n == DashLastPool
<1>1. /\ dashRead.kind = "api" /\ dashDash' = new /\ dashRead' = Dashboard!NoRead
      /\ UNCHANGED <<dashChain, dashHeight, dashBoard>>
  BY DEF Dashboard!FetchDashboardData, Dashboard!Where
<1>2. /\ ChainOk(dashChain) /\ dashHeight \in Nat /\ ReadOk(dashRead, dashChain) /\ dashBoard \in Seq(BoardRow)
  BY DEF DashInv
<1>3. bets \in Seq(BetRow) /\ \A k \in 1 .. Len(bets) : RowDue(bets[k], dashChain)
  BY <1>1, <1>2 DEF ReadOk
<1>4. Len(bets) \in Nat /\ DOMAIN bets = 1 .. Len(bets) /\ bets = [k \in 1 .. Len(bets) |-> bets[k]]
  BY <1>3, SequenceIs
<1>5. n \in Nat /\ dashChain \in [1 .. n -> PoolBook] BY <1>2, ListsAssumption DEF ChainOk
<1> HIDE DEF bets
<1>6. /\ DOMAIN Dashboard!BetHistory(bets) = 1 .. Len(bets)
      /\ \A k \in 1 .. Len(bets) : Dashboard!BetHistory(bets)[k].bet = bets[k]
      /\ Dashboard!BetHistory(bets) = [k \in 1 .. Len(bets) |-> Dashboard!BetHistory(bets)[k]]
  BY <1>4 DEF Dashboard!BetHistory
<1>7. HistoryRows(new) = bets
  <2>1. new.history = Dashboard!BetHistory(bets) OBVIOUS
  <2> HIDE DEF new
  <2>2. HistoryRows(new) = [k \in 1 .. Len(bets) |-> bets[k]] BY <1>6, <2>1 DEF HistoryRows
  <2>3. QED BY <1>4, <2>2
<1>8. DOMAIN markets = 1 .. n BY <1>5 DEF Dashboard!ProcessMarketStatistics
<1>9. ASSUME NEW p \in 1 .. n
      PROVE  /\ markets[p].status = Dashboard!MarketStatus(dashChain[p]) /\ markets[p].volume \in Int
             /\ markets[p].status \in {"active", "settled", "expired"}
             /\ (markets[p].status = "settled" <=> Dashboard!Settled(dashChain[p]))
             /\ (markets[p].status = "active" <=>
                   ~ Dashboard!Settled(dashChain[p]) /\ dashHeight <= dashChain[p].expiry)
             /\ (markets[p].status = "expired" <=>
                   ~ Dashboard!Settled(dashChain[p]) /\ dashHeight > dashChain[p].expiry)
  <2>1. markets[p].status = Dashboard!MarketStatus(dashChain[p])
        /\ markets[p].volume = Dashboard!Total(dashChain[p])
    BY <1>5 DEF Dashboard!ProcessMarketStatistics
  <2>2. dashChain[p] \in PoolBook BY <1>5
  <2>3. Dashboard!Total(dashChain[p]) \in Nat /\ dashChain[p].expiry \in Nat BY <2>2, BookSides
  <2>4. dashHeight > dashChain[p].expiry <=> ~ (dashHeight <= dashChain[p].expiry) BY <1>2, <2>3
  <2>5. Dashboard!MarketStatus(dashChain[p])
          = IF Dashboard!Settled(dashChain[p]) THEN "settled"
            ELSE IF dashHeight > dashChain[p].expiry THEN "expired" ELSE "active"
    BY DEF Dashboard!MarketStatus
  <2>6. QED BY <2>1, <2>3, <2>4, <2>5
<1>10. metrics.total = n BY DEF Dashboard!PlatformMetrics
<1>11. /\ metrics.active = Cardinality({p \in 1 .. n : ~ Dashboard!Settled(dashChain[p]) /\ dashHeight <= dashChain[p].expiry})
       /\ metrics.settled = Cardinality({p \in 1 .. n : Dashboard!Settled(dashChain[p])})
       /\ metrics.expired = Cardinality({p \in 1 .. n : ~ Dashboard!Settled(dashChain[p]) /\ dashHeight > dashChain[p].expiry})
  BY DashboardLists DEF Dashboard!PlatformMetrics, Dashboard!Pools
<1> HIDE DEF markets, metrics
<1>12. /\ {p \in 1 .. n : ~ Dashboard!Settled(dashChain[p]) /\ dashHeight <= dashChain[p].expiry}
            = {p \in 1 .. n : markets[p].status = "active"}
       /\ {p \in 1 .. n : Dashboard!Settled(dashChain[p])} = {p \in 1 .. n : markets[p].status = "settled"}
       /\ {p \in 1 .. n : ~ Dashboard!Settled(dashChain[p]) /\ dashHeight > dashChain[p].expiry}
            = {p \in 1 .. n : markets[p].status = "expired"}
  BY <1>9
<1>13. Dashboard!Kept(bets, active) = Kept(bets, {k \in 1 .. Len(bets) : bets[k].status = "active"})
  BY <1>4, DashboardLists
<1>14. /\ new.active = Dashboard!Kept(bets, active) /\ new.history = Dashboard!BetHistory(bets)
       /\ new.portfolio = Dashboard!Portfolio(bets) /\ new.markets = markets /\ new.metrics = metrics
  OBVIOUS
<1> HIDE DEF new, active
<1>15. DashOk(new)
  <2>1. /\ bets \in Seq(BetRow) /\ new.history = [k \in 1 .. Len(bets) |-> new.history[k]]
        /\ new.active = Kept(bets, {k \in 1 .. Len(bets) : bets[k].status = "active"})
        /\ new.portfolio = Dashboard!Portfolio(bets)
    BY <1>3, <1>6, <1>13, <1>14
  <2>2. /\ new.metrics.total = n /\ n \in Nat /\ DOMAIN new.markets = 1 .. n
        /\ \A p \in 1 .. n : /\ new.markets[p].status \in {"active", "settled", "expired"}
                             /\ new.markets[p].volume \in Int
    BY <1>5, <1>8, <1>9, <1>10, <1>14
  <2>3. /\ new.metrics.active = Cardinality({p \in 1 .. n : new.markets[p].status = "active"})
        /\ new.metrics.settled = Cardinality({p \in 1 .. n : new.markets[p].status = "settled"})
        /\ new.metrics.expired = Cardinality({p \in 1 .. n : new.markets[p].status = "expired"})
    BY <1>11, <1>12, <1>14, Zenon
  <2>4. QED BY <1>7, <2>1, <2>2, <2>3, Zenon DEF DashOk
<1>16. ReadOk(dashRead', dashChain) BY <1>1 DEF ReadOk, Dashboard!NoRead
<1>17. \A k \in 1 .. Len(HistoryRows(new)) : RowDue(HistoryRows(new)[k], dashChain) BY <1>3, <1>7
<1>18. dashChain' = dashChain /\ dashHeight' = dashHeight /\ dashBoard' = dashBoard BY <1>1
<1>19. QED BY <1>1, <1>2, <1>15, <1>16, <1>17, <1>18, Zenon DEF DashInv

LEMMA DashInvKept == DashInv /\ [AppNext]_appVars => DashInv'
<1> SUFFICES ASSUME DashInv, [AppNext]_appVars PROVE DashInv' OBVIOUS
<1>a. ChainOk(dashChain) /\ dashHeight \in Nat /\ ReadOk(dashRead, dashChain) /\ dashBoard \in Seq(BoardRow)
  BY DEF DashInv
<1>b. ASSUME UNCHANGED <<dashChain, dashHeight, dashRead, dashDash, dashBoard>> PROVE DashInv'
  <2>1. dashHeight' \in Nat BY <1>a, <1>b
  <2>2. QED BY <1>b, <2>1, ChainSame
<1>0. CASE UNCHANGED dashVars BY <1>0, <1>b DEF dashVars
<1>1. CASE Dashboard!StartDashboard
  <2>1. /\ dashRead' = [kind |-> "api", pool |-> 1, snapshot |-> dashChain, bets |-> << >>]
        /\ UNCHANGED <<dashChain, dashHeight, dashDash, dashBoard>>
    BY <1>1 DEF Dashboard!StartDashboard
  <2>2. dashChain \in [1 .. DashLastPool -> PoolBook] BY <1>a DEF ChainOk
  <2>3. BooksKept(dashChain, dashChain) BY BooksSame
  <2>4. << >> \in Seq(BetRow) /\ \A k \in 1 .. Len(<< >>) : FALSE OBVIOUS
  <2>5. ReadOk(dashRead', dashChain) BY <2>1, <2>2, <2>3, <2>4 DEF ReadOk
  <2>6. QED BY <2>1, <2>5, ReadGoesOn
<1>2. CASE Dashboard!StartBoard
  <2>1. /\ dashRead' = [kind |-> "board", pool |-> 1, snapshot |-> << >>, bets |-> << >>]
        /\ UNCHANGED <<dashChain, dashHeight, dashDash, dashBoard>>
    BY <1>2, Zenon DEF Dashboard!StartBoard, Dashboard!NoRead
  <2>2. << >> \in Seq(BoardRow) OBVIOUS
  <2>3. ReadOk(dashRead', dashChain) BY <2>1, <2>2 DEF ReadOk
  <2>4. QED BY <2>1, <2>3, ReadGoesOn
<1>3. CASE Dashboard!ReadUserBet BY <1>3, BetRead
<1>4. CASE Dashboard!ReadBoardBet BY <1>4, BoardBetRead
<1>5. CASE Dashboard!FetchDashboardData BY <1>5, DashboardFetched
<1>6. CASE Dashboard!BoardRead
  <2>1. /\ dashRead.kind = "board" /\ dashBoard' = dashRead.bets /\ dashRead' = Dashboard!NoRead
        /\ dashChain' = dashChain /\ dashHeight' = dashHeight /\ dashDash' = dashDash
    BY <1>6 DEF Dashboard!BoardRead
  <2>2. dashBoard' \in Seq(BoardRow) BY <1>a, <2>1 DEF ReadOk
  <2>3. ReadOk(dashRead', dashChain) BY <2>1 DEF ReadOk, Dashboard!NoRead
  <2>4. DashOk(dashDash) /\ \A k \in 1 .. Len(HistoryRows(dashDash)) : RowDue(HistoryRows(dashDash)[k], dashChain)
    BY DEF DashInv
  <2>5. QED BY <1>a, <2>1, <2>2, <2>3, <2>4, Zenon DEF DashInv
<1>7. CASE Dashboard!SelectAll BY <1>7, <1>b DEF Dashboard!SelectAll
<1>8. CASE Dashboard!BatchClaim BY <1>8, <1>b DEF Dashboard!BatchClaim
<1>9. CASE Dashboard!Block
  <2>1. dashHeight' = dashHeight + 1 /\ UNCHANGED <<dashChain, dashRead, dashDash, dashBoard>>
    BY <1>9 DEF Dashboard!Block
  <2>2. dashHeight' \in Nat BY <1>a, <2>1
  <2>3. QED BY <2>1, <2>2, ChainSame
<1>10. CASE \E p \in Dashboard!Pools : Dashboard!Claim(p) \/ Dashboard!SelectBet(p) \/ Dashboard!ClaimEnds(p)
  <2>1. PICK p \in 1 .. DashLastPool : Dashboard!Claim(p) \/ Dashboard!SelectBet(p) \/ Dashboard!ClaimEnds(p)
    BY <1>10 DEF Dashboard!Pools
  <2>2. CASE Dashboard!Claim(p) \/ Dashboard!SelectBet(p)
    BY <1>b, <2>2 DEF Dashboard!Claim, Dashboard!SelectBet
  <2>3. CASE Dashboard!ClaimEnds(p) BY <2>3, ClaimPaid
  <2>4. QED BY <2>1, <2>2, <2>3
<1>11. CASE \E p \in Dashboard!Pools, side \in Dashboard!Sides :
              (p \in DashBetPools /\ Dashboard!Bet(p, side)) \/ Dashboard!Settle(p, side)
  <2>1. PICK p \in 1 .. DashLastPool, side \in {"A", "B"} : Dashboard!Bet(p, side) \/ Dashboard!Settle(p, side)
    BY <1>11 DEF Dashboard!Pools, Dashboard!Sides
  <2>2. QED BY <2>1, BetPlaced, PoolSettled
<1>12. [Dashboard!DashNext]_dashVars BY DashboardStep
<1>13. QED BY <1>0, <1>1, <1>2, <1>3, <1>4, <1>5, <1>6, <1>7, <1>8, <1>9, <1>10, <1>11, <1>12
         DEF Dashboard!DashNext

LEMMA DashInvariant == AppSpec => []DashInv
<1>1. AppInit => DashInv
  <2> SUFFICES ASSUME AppInit PROVE DashInv OBVIOUS
  <2>1. Dashboard!DashInit BY DEF AppInit
  <2>2. PICK book \in [1 .. DashLastPool -> DashOthers], expiry \in [1 .. DashLastPool -> DashExpiries] :
          dashChain = [p \in 1 .. DashLastPool |->
                        [A |-> book[p].A, B |-> book[p].B, mine |-> Dashboard!NoStake,
                         state |-> "open", expiry |-> expiry[p]]]
    BY <2>1, Zenon DEF Dashboard!DashInit, Dashboard!Pools
  <2>3. /\ dashHeight = 0 /\ dashRead = Dashboard!NoRead /\ dashDash = Dashboard!NoDash /\ dashBoard = << >>
    BY <2>1 DEF Dashboard!DashInit
  <2>4. ASSUME NEW p \in 1 .. DashLastPool
        PROVE  /\ dashChain[p] \in PoolBook /\ dashChain[p].mine["A"] = 0 /\ dashChain[p].mine["B"] = 0
    <3>1. book[p] \in [A : Nat, B : Nat] /\ expiry[p] \in Nat BY ListsAssumption, Zenon
    <3>2. dashChain[p] = [A |-> book[p].A, B |-> book[p].B, mine |-> [A |-> 0, B |-> 0],
                         state |-> "open", expiry |-> expiry[p]]
      BY <2>2 DEF Dashboard!NoStake
    <3>3. QED BY <3>1, <3>2 DEF PoolBook
  <2>5. ChainOk(dashChain)
    <3>1. dashChain \in [1 .. DashLastPool -> PoolBook] BY <2>2, <2>4
    <3>2. ASSUME NEW p \in 1 .. DashLastPool, NEW side \in {"A", "B"}
          PROVE  dashChain[p].mine[side] <= dashChain[p][side]
      <4>1. dashChain[p][side] \in Nat BY <2>4, BookSides
      <4>2. QED BY <2>4, <4>1
    <3>3. QED BY <3>1, <3>2 DEF ChainOk
  <2>6. ReadOk(dashRead, dashChain) BY <2>3 DEF ReadOk, Dashboard!NoRead
  <2>7. /\ dashDash.history = << >> /\ dashDash.active = << >> /\ dashDash.markets = << >>
        /\ dashDash.portfolio = Dashboard!Portfolio(<< >>)
        /\ dashDash.metrics.total = 0 /\ dashDash.metrics.active = 0 /\ dashDash.metrics.settled = 0
        /\ dashDash.metrics.expired = 0
    BY <2>3 DEF Dashboard!NoDash
  <2>8. HistoryRows(dashDash) = << >> BY <2>7 DEF HistoryRows
  <2>9. Kept(<< >>, {k \in 1 .. Len(<< >>) : << >>[k].status = "active"}) = << >>
    <3> DEFINE none == {k \in 1 .. Len(<< >>) : << >>[k].status = "active"}
    <3>1. none = {} OBVIOUS
    <3> HIDE DEF none
    <3>2. Cardinality(none) = 0 BY <3>1, FS_EmptySet
    <3>3. << >> \in Seq(Nat) /\ none \in SUBSET (1 .. Len(<< >>)) BY <3>1
    <3>4. Kept(<< >>, none) \in Seq(Nat) /\ Len(Kept(<< >>, none)) = 0 BY <3>2, <3>3, KeptList, Zenon
    <3>5. Kept(<< >>, none) = << >> BY <3>4
    <3>6. QED BY <3>5 DEF none
  <2>10. DashOk(dashDash)
    <3>1. DOMAIN dashDash.markets = 1 .. 0 BY <2>7
    <3>2. Cardinality({}) = 0 BY FS_EmptySet
    <3>3. \A p \in 1 .. 0 : FALSE OBVIOUS
    <3>4. \A st : {p \in 1 .. 0 : dashDash.markets[p].status = st} = {} BY <3>3
    <3>5. << >> \in Seq(BetRow) /\ << >> = [k \in 1 .. Len(<< >>) |-> dashDash.history[k]]
          /\ << >> = [k \in 1 .. Len(<< >>) |-> << >>[k]]
      OBVIOUS
    <3>6. dashDash.history = [k \in 1 .. Len(HistoryRows(dashDash)) |-> dashDash.history[k]]
          /\ HistoryRows(dashDash) \in Seq(BetRow)
      BY <2>7, <2>8, <3>5
    <3>7. dashDash.active = Kept(HistoryRows(dashDash),
                              {k \in 1 .. Len(HistoryRows(dashDash)) : HistoryRows(dashDash)[k].status = "active"})
      BY <2>7, <2>8, <2>9
    <3>8. 0 \in Nat OBVIOUS
    <3>9. QED BY <2>7, <2>8, <3>1, <3>2, <3>3, <3>4, <3>6, <3>7, <3>8, Zenon DEF DashOk
  <2>11. \A k \in 1 .. Len(HistoryRows(dashDash)) : RowDue(HistoryRows(dashDash)[k], dashChain) BY <2>8
  <2>12. dashHeight \in Nat /\ dashBoard \in Seq(BoardRow) BY <2>3
  <2>13. QED BY <2>5, <2>6, <2>10, <2>11, <2>12 DEF DashInv
<1>2. QED BY <1>1, DashInvKept, PTL DEF AppSpec

\* What the claimable rows of a list come to, as the cards add it up.
ClaimableSum(list) == SumBelow([k \in 0 .. Len(list) - 1 |-> list[k + 1].claimable], Len(list))

LEMMA ClaimableOf ==
  ASSUME NEW rows \in Seq(BetRow), NEW P \in SUBSET (1 .. Len(rows))
  PROVE  ClaimableSum(Kept(rows, P)) = PartSum([i \in 1 .. Len(rows) |-> rows[i].claimable], P, Len(rows))
<1> DEFINE part == Kept(rows, P)
           f == [k \in 0 .. Len(part) - 1 |-> part[k + 1].claimable]
           w == [i \in 1 .. Len(rows) |-> rows[i].claimable]
<1>1. ASSUME NEW i \in 1 .. Len(rows) PROVE w[i] \in Int
  <2>1. rows[i] \in BetRow OBVIOUS
  <2>2. QED BY <2>1 DEF BetRow
<1>2. \A k \in 0 .. Len(part) - 1 : \A i \in 1 .. Len(rows) :
        part[k + 1] = rows[i] /\ i = Ascending(P)[k + 1] => f[k] = w[i]
  OBVIOUS
<1> HIDE DEF f, w
<1>3. SumBelow(f, Len(Kept(rows, P))) = PartSum(w, P, Len(rows)) BY <1>1, <1>2, PartOfList
<1>4. QED BY <1>3 DEF ClaimableSum, f, w

LEMMA CardsCountRows ==
  ASSUME DashInv
  PROVE  /\ Dashboard!PortfolioCards.bets = Len(dashDash.history)
         /\ Dashboard!PortfolioCards.active = Len(dashDash.active)
         /\ Dashboard!PortfolioCards.claimable = Dashboard!AddUp(Dashboard!Claimable, LAMBDA bet : bet.claimable)
<1> DEFINE rows == HistoryRows(dashDash)
           N == 1 .. Len(rows)
           Open == {k \in N : rows[k].claim = "unclaimed"}
           Due == {k \in N : rows[k].status = "won" /\ rows[k].claim = "unclaimed" /\ rows[k].claimable > 0}
           Act == {k \in N : rows[k].status = "active"}
           w == [i \in N |-> rows[i].claimable]
<1>1. /\ rows \in Seq(BetRow) /\ dashDash.history = [k \in 1 .. Len(rows) |-> dashDash.history[k]]
      /\ dashDash.active = Kept(rows, Act) /\ dashDash.portfolio = Dashboard!Portfolio(rows)
      /\ \A k \in N : RowDue(rows[k], dashChain)
  BY DEF DashInv, DashOk
<1>2. rows = Dashboard!Bets BY DEF HistoryRows, Dashboard!Bets
<1> HIDE DEF rows
<1>3. DOMAIN rows = N /\ Len(rows) \in Nat BY <1>1
<1>4. Len(dashDash.history) = Len(rows)
  <2>1. DOMAIN dashDash.history = 1 .. Len(rows) /\ Len(rows) \in Nat BY <1>1, <1>3
  <2>2. QED BY <2>1, LenProperties, <1>1
<1>5. /\ Dashboard!PortfolioCards.bets = Len(rows)
      /\ Dashboard!PortfolioCards.active = Len(Kept(rows, Act))
  BY <1>1, <1>3, DashboardLists DEF Dashboard!PortfolioCards, Dashboard!Portfolio, Dashboard!Where
<1>6. Dashboard!PortfolioCards.claimable = ClaimableSum(Kept(rows, Open))
  <2>1. Dashboard!Where(rows, LAMBDA bet : bet.claim = "unclaimed") = Kept(rows, Open)
    BY <1>3, DashboardLists, Zenon DEF Dashboard!Where
  <2>2. Dashboard!PortfolioCards.claimable = Dashboard!Portfolio(rows).claimable
    BY <1>1 DEF Dashboard!PortfolioCards
  <2>3. Dashboard!Portfolio(rows).claimable
          = ClaimableSum(Dashboard!Where(rows, LAMBDA bet : bet.claim = "unclaimed"))
    BY DashboardLists DEF Dashboard!Portfolio, Dashboard!AddUp, ClaimableSum
  <2>4. QED BY <2>1, <2>2, <2>3
<1>7. Dashboard!AddUp(Dashboard!Claimable, LAMBDA bet : bet.claimable) = ClaimableSum(Kept(rows, Due))
  <2>1. Dashboard!Claimable = Kept(rows, Due)
    BY <1>2, <1>3, DashboardLists DEF Dashboard!Claimable, Dashboard!Where, Dashboard!IsClaimEligible
  <2>2. QED BY <2>1, DashboardLists DEF Dashboard!AddUp, ClaimableSum
<1>8. PartSum(w, Open, Len(rows)) = PartSum(w, Due, Len(rows))
  <2>1. ASSUME NEW i \in N PROVE (IF i \in Open THEN w[i] ELSE 0) = (IF i \in Due THEN w[i] ELSE 0)
    <3>1. rows[i] \in BetRow /\ RowDue(rows[i], dashChain) BY <1>1
    <3>2. rows[i].claimable \in Nat BY <3>1 DEF BetRow
    <3>3. rows[i].claim = "unclaimed" => rows[i].status = "won" BY <3>1 DEF RowDue
    <3>4. w[i] = rows[i].claimable OBVIOUS
    <3>5. QED BY <3>2, <3>3, <3>4
  <2> HIDE DEF w, Open, Due
  <2>2. QED BY <1>3, <2>1, PartSame
<1>9. /\ ClaimableSum(Kept(rows, Open)) = PartSum(w, Open, Len(rows))
      /\ ClaimableSum(Kept(rows, Due)) = PartSum(w, Due, Len(rows))
  <2>1. Open \in SUBSET N /\ Due \in SUBSET N OBVIOUS
  <2> HIDE DEF Open, Due
  <2>2. QED BY <1>1, <2>1, ClaimableOf
<1>10. QED BY <1>1, <1>4, <1>5, <1>6, <1>7, <1>8, <1>9

LEMMA MarketsCounted ==
  ASSUME DashInv
  PROVE  /\ Dashboard!PlatformOverview.distribution =
              <<Dashboard!MarketCount("active"), Dashboard!MarketCount("settled"), Dashboard!MarketCount("expired")>>
         /\ Dashboard!AddUp(Dashboard!PlatformOverview.distribution, LAMBDA count : count)
              = Dashboard!PlatformOverview.markets
<1> DEFINE n == dashDash.metrics.total
           markets == dashDash.markets
           Of(st) == {p \in 1 .. n : markets[p].status = st}
           s == [p \in 1 .. n |-> p]
           key == [p \in 1 .. n |-> markets[p].volume]
<1>1. /\ n \in Nat /\ DOMAIN markets = 1 .. n
      /\ \A p \in 1 .. n : /\ markets[p].status \in {"active", "settled", "expired"}
                           /\ markets[p].volume \in Int
      /\ dashDash.metrics.active = Cardinality(Of("active"))
      /\ dashDash.metrics.settled = Cardinality(Of("settled"))
      /\ dashDash.metrics.expired = Cardinality(Of("expired"))
  BY DEF DashInv, DashOk
<1>2. Dashboard!TopMarkets = LargestFirst(s, key)
  BY <1>1, DashboardLists DEF Dashboard!TopMarkets
<1> HIDE DEF n, markets
<1>3. s \in Seq(1 .. n) /\ Len(s) = n BY <1>1
<1>4. \A i \in 1 .. Len(s) : key[i] \in Int BY <1>1, <1>3
<1> DEFINE top == LargestFirst(s, key)
<1>5. PICK place : Permutes(place, n) /\ top = [k \in 1 .. n |-> s[place[k]]]
  <2> HIDE DEF s, key
  <2>1. PICK place \in [1 .. Len(s) -> 1 .. Len(s)] :
           /\ LargestFirst(s, key) = [k \in 1 .. Len(s) |-> s[place[k]]]
           /\ \A i \in 1 .. Len(s) : \E k \in 1 .. Len(s) : place[k] = i
           /\ \A m, k \in 1 .. Len(s) : place[m] = place[k] => m = k
           /\ \A m, k \in 1 .. Len(s) :
                m < k => \/ key[place[m]] > key[place[k]]
                         \/ key[place[m]] = key[place[k]] /\ place[m] < place[k]
    BY <1>3, <1>4, LargestFirstList, Zenon
  <2>2. Permutes(place, Len(s)) BY <2>1, Zenon DEF Permutes
  <2>3. LargestFirst(s, key) = [k \in 1 .. Len(s) |-> s[place[k]]] BY <2>1
  <2>4. QED BY <1>3, <2>2, <2>3, Zenon
<1>6. DOMAIN top = 1 .. n /\ \A k \in 1 .. n : top[k] = place[k]
  <2> HIDE DEF top
  <2>1. ASSUME NEW k \in 1 .. n PROVE top[k] = place[k]
    <3>1. place[k] \in 1 .. n /\ top[k] = s[place[k]] BY <1>5 DEF Permutes
    <3>2. QED BY <3>1
  <2>2. QED BY <1>5, <2>1
<1> HIDE DEF top, s, key
<1>7. ASSUME NEW st PROVE Dashboard!MarketCount(st) = Cardinality(Of(st))
  <2> DEFINE A == Of(st)
  <2>1. Dashboard!MarketCount(st) = Cardinality({k \in 1 .. n : markets[top[k]].status = st})
    BY <1>2, <1>6, DashboardLists, Zenon DEF Dashboard!MarketCount, top, markets
  <2>2. {k \in 1 .. n : markets[top[k]].status = st} = PlacesOf(A, place, n)
    BY <1>5, <1>6 DEF Permutes, PlacesOf
  <2>3. A \subseteq 1 .. n OBVIOUS
  <2> HIDE DEF A
  <2>4. n \in Nat /\ Permutes(place, n) BY <1>1, <1>5
  <2>5. Cardinality(PlacesOf(A, place, n)) = Cardinality(A) BY <2>3, <2>4, CountPlaces, Zenon
  <2>6. QED BY <2>1, <2>2, <2>5, Zenon DEF A
<1> DEFINE a == Cardinality(Of("active"))
           b == Cardinality(Of("settled"))
           c == Cardinality(Of("expired"))
<1>8. a \in Nat /\ b \in Nat /\ c \in Nat /\ a + b + c = n
  <2> DEFINE P == Of("active")
             Q == Of("settled")
             R == Of("expired")
  <2>1. Splits(n, P, Q, R) BY <1>1 DEF Splits
  <2> HIDE DEF P, Q, R
  <2>2. /\ Cardinality(P) \in Nat /\ Cardinality(Q) \in Nat /\ Cardinality(R) \in Nat
        /\ Cardinality(P) + Cardinality(Q) + Cardinality(R) = n
    BY <1>1, <2>1, CountThree
  <2>3. QED BY <2>2 DEF P, Q, R
<1>9. Dashboard!PlatformOverview.distribution = <<a, b, c>> /\ Dashboard!PlatformOverview.markets = n
  BY <1>1, Zenon DEF Dashboard!PlatformOverview, Dashboard!MarketDistribution, n
<1>10. Dashboard!AddUp(<<a, b, c>>, LAMBDA count : count) = n
  <2> HIDE DEF a, b, c
  <2> DEFINE f == [k \in 0 .. Len(<<a, b, c>>) - 1 |-> <<a, b, c>>[k + 1]]
  <2>1. Dashboard!AddUp(<<a, b, c>>, LAMBDA count : count) = SumBelow(f, 3)
    BY DashboardLists DEF Dashboard!AddUp
  <2>2. f[0] = a /\ f[1] = b /\ f[2] = c OBVIOUS
  <2> HIDE DEF f
  <2>3. SumBelow(f, 0) = 0 BY SumEmpty
  <2>4. SumBelow(f, 0 + 1) = SumBelow(f, 0) + f[0] BY SumStep
  <2>5. SumBelow(f, 1 + 1) = SumBelow(f, 1) + f[1] BY SumStep
  <2>6. SumBelow(f, 2 + 1) = SumBelow(f, 2) + f[2] BY SumStep
  <2>7. SumBelow(f, 3) = a + b + c BY <1>8, <2>2, <2>3, <2>4, <2>5, <2>6
  <2>8. QED BY <1>8, <2>1, <2>7
<1> HIDE DEF Of
<1>11. QED BY <1>7, <1>9, <1>10

LEMMA PanelsCounted ==
  ASSUME DashInv
  PROVE  /\ Dashboard!StatsSections.bets = Len(Dashboard!ActivePanel) + Len(Dashboard!HistoryPanel)
         /\ Dashboard!StatsSections.active = Len(Dashboard!ActivePanel)
         /\ Dashboard!StatsSections.settled = Len(Dashboard!HistoryPanel)
<1> DEFINE n == Len(dashBoard)
           Act == {k \in 1 .. n : dashBoard[k].status = "active"}
           Rest == {k \in 1 .. n : dashBoard[k].status # "active"}
<1>1. dashBoard \in Seq(BoardRow) BY DEF DashInv
<1>2. n \in Nat /\ DOMAIN dashBoard = 1 .. n BY <1>1
<1>3. Dashboard!ActivePanel = Kept(dashBoard, Act) /\ Dashboard!HistoryPanel = Kept(dashBoard, Rest)
  BY <1>2, DashboardLists, Zenon DEF Dashboard!ActivePanel, Dashboard!HistoryPanel, Dashboard!Where
<1>4. {k \in 1 .. n : dashBoard[k].status \in {"active"}} = Act OBVIOUS
<1>5. /\ Dashboard!StatsSections.bets = n
      /\ Dashboard!StatsSections.active = Len(Kept(dashBoard, Act))
      /\ Dashboard!StatsSections.settled = Len(Kept(dashBoard, Rest))
  BY <1>2, <1>4, DashboardLists
     DEF Dashboard!StatsSections, Dashboard!DashboardStats, Dashboard!Whose, Dashboard!Where
<1>6. Act \in SUBSET (1 .. n) /\ Rest = (1 .. n) \ Act OBVIOUS
<1>7. Rest \in SUBSET (1 .. Len(dashBoard)) /\ Act \in SUBSET (1 .. Len(dashBoard)) OBVIOUS
<1> HIDE DEF Act, Rest
<1>8. Len(Kept(dashBoard, Act)) = Cardinality(Act) /\ Len(Kept(dashBoard, Rest)) = Cardinality(Rest)
  BY <1>1, <1>7, KeptList
<1> HIDE DEF n
<1>9. Cardinality(Act) + Cardinality(Rest) = n BY <1>2, <1>6, CountRest
<1>10. QED BY <1>3, <1>5, <1>8, <1>9

\* The rows that a filter of the history leaves.
OutcomeRows(rows, outcome) ==
  {k \in 1 .. Len(rows) :
    \/ outcome = "all"
    \/ outcome = "lost" /\ rows[k].status \in {"lost", "expired"}
    \/ rows[k].status = outcome}

LEMMA WageredOf ==
  ASSUME DashInv, NEW outcome
  PROVE  LET rows == HistoryRows(dashDash)
         IN  Dashboard!HistorySummary([outcome |-> outcome, market |-> "all"]).wagered
               = PartSum([i \in 1 .. Len(rows) |-> rows[i].amount], OutcomeRows(rows, outcome), Len(rows))
<1> DEFINE rows == HistoryRows(dashDash)
           history == dashDash.history
           n == Len(rows)
           T == {history[k] : k \in 1 .. n}
           P == OutcomeRows(rows, outcome)
           part == Kept(history, P)
           f == [k \in 0 .. Len(part) - 1 |-> part[k + 1].bet.amount]
           w == [i \in 1 .. n |-> rows[i].amount]
           filters == [outcome |-> outcome, market |-> "all"]
<1>1. rows \in Seq(BetRow) /\ history = [k \in 1 .. n |-> history[k]]
  BY DEF DashInv, DashOk
<1>2. n \in Nat /\ DOMAIN history = 1 .. n BY <1>1
<1>3. ASSUME NEW k \in 1 .. n PROVE rows[k] = history[k].bet /\ rows[k] \in BetRow
  <2>1. rows[k] \in BetRow BY <1>1
  <2>2. rows[k] = history[k].bet BY <1>2 DEF HistoryRows
  <2>3. QED BY <2>1, <2>2
<1> HIDE DEF rows, history
<1>4. history \in Seq(T) /\ Len(history) = n
  <2>1. \A k \in 1 .. n : history[k] \in T OBVIOUS
  <2> HIDE DEF T
  <2>2. [k \in 1 .. n |-> history[k]] \in Seq(T) /\ Len([k \in 1 .. n |-> history[k]]) = n
    BY <1>2, <2>1
  <2>3. QED BY <1>1, <2>2
<1>5. Dashboard!FilteredHistory(filters) = part
  <2>1. {k \in 1 .. n : /\ \/ filters.outcome = "all"
                           \/ filters.outcome = "lost" /\ history[k].bet.status \in {"lost", "expired"}
                           \/ history[k].bet.status = filters.outcome
                        /\ filters.market \in {"all", history[k].market}} = P
    BY <1>3 DEF OutcomeRows
  <2> HIDE DEF filters, P
  <2>2. QED BY <1>2, <2>1, DashboardLists, Zenon DEF Dashboard!FilteredHistory, Dashboard!Where, history
<1>6. Dashboard!HistorySummary(filters).wagered = SumBelow(f, Len(part))
  BY <1>5, DashboardLists DEF Dashboard!HistorySummary, Dashboard!AddUp
<1>7. P \in SUBSET (1 .. Len(history)) BY <1>4 DEF OutcomeRows
<1>8. \A i \in 1 .. Len(history) : w[i] \in Int
  <2>1. ASSUME NEW i \in 1 .. n PROVE w[i] \in Int BY <1>3 DEF BetRow
  <2>2. QED BY <1>4, <2>1
<1>9. \A k \in 0 .. Len(part) - 1 : \A i \in 1 .. Len(history) :
        part[k + 1] = history[i] /\ i = Ascending(P)[k + 1] => f[k] = w[i]
  <2>1. ASSUME NEW k \in 0 .. Len(part) - 1, NEW i \in 1 .. n, part[k + 1] = history[i] PROVE f[k] = w[i]
    <3>1. f[k] = part[k + 1].bet.amount OBVIOUS
    <3>2. w[i] = rows[i].amount OBVIOUS
    <3>3. QED BY <1>3, <2>1, <3>1, <3>2
  <2>2. QED BY <1>4, <2>1
<1> HIDE DEF P, f, w, T
<1>10. SumBelow(f, Len(Kept(history, P))) = PartSum(w, P, Len(history))
  BY <1>4, <1>7, <1>8, <1>9, PartOfList
<1>11. QED BY <1>4, <1>6, <1>10 DEF rows, w, P, filters

LEMMA WageredSplits ==
  ASSUME DashInv
  PROVE  LET wagered(outcome) == Dashboard!HistorySummary([outcome |-> outcome, market |-> "all"]).wagered
         IN  /\ wagered("all") = Dashboard!PortfolioCards.wagered
             /\ wagered("all") = wagered("won") + wagered("lost") + wagered("active")
<1> DEFINE rows == HistoryRows(dashDash)
           n == Len(rows)
           w == [i \in 1 .. n |-> rows[i].amount]
           f == [k \in 0 .. n - 1 |-> rows[k + 1].amount]
           g == [k \in 0 .. n - 1 |-> IF k + 1 \in 1 .. n THEN w[k + 1] ELSE 0]
           All == OutcomeRows(rows, "all")
           Won == OutcomeRows(rows, "won")
           Lost == OutcomeRows(rows, "lost")
           Act == OutcomeRows(rows, "active")
           wagered(outcome) == Dashboard!HistorySummary([outcome |-> outcome, market |-> "all"]).wagered
<1>1. rows \in Seq(BetRow) /\ dashDash.portfolio = Dashboard!Portfolio(rows) BY DEF DashInv, DashOk
<1>2. /\ wagered("all") = PartSum(w, All, n) /\ wagered("won") = PartSum(w, Won, n)
      /\ wagered("lost") = PartSum(w, Lost, n) /\ wagered("active") = PartSum(w, Act, n)
  BY WageredOf
<1>3. Dashboard!PortfolioCards.wagered = SumBelow(f, n)
  BY <1>1, DashboardLists DEF Dashboard!PortfolioCards, Dashboard!Portfolio, Dashboard!AddUp
<1> HIDE DEF rows, wagered
<1>4. n \in Nat BY <1>1
<1>5. ASSUME NEW i \in 1 .. n
      PROVE  w[i] \in Int /\ rows[i].status \in {"won", "lost", "expired", "active"}
  <2>1. rows[i] \in BetRow BY <1>1
  <2>2. QED BY <2>1 DEF BetRow
<1>6. All = 1 .. n BY DEF OutcomeRows
<1>7. Splits(n, Won, Lost, Act) BY <1>5 DEF Splits, OutcomeRows
<1>8. \A k \in 0 .. n - 1 : f[k] = g[k]
  <2>1. ASSUME NEW k \in 0 .. n - 1 PROVE f[k] = g[k]
    <3>1. k + 1 \in 1 .. n BY <1>4
    <3>2. QED BY <3>1
  <2>2. QED BY <2>1
<1>9. PartSum(w, 1 .. n, n) = SumBelow(g, n) BY DEF PartSum
<1> HIDE DEF n, w, f, g, All, Won, Lost, Act
<1>10. SumBelow(f, n) = SumBelow(g, n) BY <1>4, <1>8, SumAgree
<1>11. PartSum(w, 1 .. n, n) = PartSum(w, Won, n) + PartSum(w, Lost, n) + PartSum(w, Act, n)
  BY <1>4, <1>5, <1>7, PartsAddUp
<1>12. /\ wagered("all") = Dashboard!PortfolioCards.wagered
       /\ wagered("all") = wagered("won") + wagered("lost") + wagered("active")
  BY <1>2, <1>3, <1>6, <1>9, <1>10, <1>11
<1>13. QED BY <1>12 DEF wagered

LEMMA FiguresCount == DashInv => Dashboard!FiguresCountRows
<1> SUFFICES ASSUME DashInv PROVE Dashboard!FiguresCountRows OBVIOUS
<1>1. QED BY CardsCountRows, MarketsCounted, PanelsCounted, WageredSplits, Zenon
          DEF Dashboard!FiguresCountRows

(* What is offered is due: the division is that of the settled book.       *)
LEMMA OffersDue == DashInv => Dashboard!OffersAreDue
<1> SUFFICES ASSUME DashInv, NEW k \in DOMAIN Dashboard!Claimable
             PROVE  LET bet == Dashboard!Claimable[k]
                        pool == dashChain[bet.pool]
                    IN  /\ pool.state = bet.side
                        /\ pool.mine[bet.side] \in {0, bet.amount}
                        /\ bet.claimable * pool[bet.side] <= bet.amount * (pool.A + pool.B)
                        /\ (bet.claimable + 1) * pool[bet.side] > bet.amount * (pool.A + pool.B)
  BY Zenon DEF Dashboard!OffersAreDue
<1> DEFINE rows == HistoryRows(dashDash)
           P == {i \in DOMAIN rows : Dashboard!IsClaimEligible(rows[i])}
           list == Dashboard!Claimable
<1>1. rows \in Seq(BetRow) /\ ChainOk(dashChain) /\ \A i \in 1 .. Len(rows) : RowDue(rows[i], dashChain)
  BY DEF DashInv, DashOk
<1>2. rows = Dashboard!Bets BY DEF HistoryRows, Dashboard!Bets
<1> HIDE DEF rows
<1>3. list = Kept(rows, P) BY <1>2, DashboardLists DEF Dashboard!Claimable, Dashboard!Where
<1>4. P \in SUBSET (1 .. Len(rows)) /\ \A i \in P : Dashboard!IsClaimEligible(rows[i]) BY <1>1
<1> HIDE DEF P
<1>5. /\ Kept(rows, P) \in Seq(BetRow) /\ Len(Kept(rows, P)) = Cardinality(P)
      /\ Ascending(P) \in [1 .. Cardinality(P) -> P]
      /\ \A m \in 1 .. Cardinality(P) : Kept(rows, P)[m] = rows[Ascending(P)[m]]
  BY <1>1, <1>4, KeptList
<1>6. k \in 1 .. Cardinality(P) BY <1>3, <1>5
<1>7. PICK i \in P : list[k] = rows[i] BY <1>3, <1>5, <1>6
<1> DEFINE bet == list[k]
           pool == dashChain[bet.pool]
           stake == bet.amount
           side == bet.side
           share == bet.claimable
           whole == pool.A + pool.B
           mine == pool[side]
<1>8. bet \in BetRow /\ RowDue(bet, dashChain) /\ Dashboard!IsClaimEligible(bet) BY <1>1, <1>4, <1>7
<1> HIDE DEF bet
<1>9. /\ pool \in PoolBook /\ stake \in Nat /\ side \in {"A", "B"}
  BY <1>1, <1>8 DEF BetRow, ChainOk
<1>10. /\ pool.state = side /\ pool.mine[side] \in {0, stake}
       /\ share = Dashboard!ActualWinnings(stake, pool, side, side) /\ share > 0
  BY <1>8 DEF RowDue, Dashboard!IsClaimEligible
<1> HIDE DEF pool, stake, side, share
<1>11. mine \in Nat /\ Dashboard!Total(pool) = whole /\ whole \in Nat BY <1>9, BookSides
<1>12. mine # 0 BY <1>10 DEF Dashboard!ActualWinnings
<1>13. share = (whole * stake) \div mine BY <1>10, <1>11, <1>12 DEF Dashboard!ActualWinnings
<1> HIDE DEF whole, mine
<1>14. whole * stake \in Nat /\ mine \in Nat \ {0} BY <1>9, <1>11, <1>12
<1>15. share \in Nat /\ mine * share <= whole * stake /\ whole * stake < mine * share + mine
  BY <1>13, <1>14, DivNat
<1>16. mine * share = share * mine /\ whole * stake = stake * whole BY <1>9, <1>11, <1>15
<1>17. (share + 1) * mine = share * mine + mine BY <1>11, <1>15
<1>18. share * mine \in Nat /\ stake * whole \in Nat BY <1>9, <1>11, <1>15
<1>19. share * mine <= stake * whole /\ (share + 1) * mine > stake * whole
  BY <1>11, <1>15, <1>16, <1>17, <1>18
<1>20. QED BY <1>10, <1>19 DEF bet, pool, stake, side, share, whole, mine

(* What the list says of a market's status, what the dashboards offer to  *)
(* claim and the figures of their cards are true of the chain and of the   *)
(* rows beside them, while pools settle and claims are paid meanwhile.     *)
THEOREM ShownIsTrue == AppSpec => []ShownOfMarketsIsTrue
<1>1. ListedInv /\ DashInv => ShownOfMarketsIsTrue
  BY ListedIsTrue, OffersDue, FiguresCount DEF ShownOfMarketsIsTrue
<1>2. QED BY <1>1, ListedInvariant, DashInvariant, PTL

=============================================================================
