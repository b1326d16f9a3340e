----------------------------- MODULE WebDashboard -----------------------------
(***************************************************************************)
(* What the dashboards read of the account's bets and compute from them:   *)
(* dashboard-api, dashboard-utils and dashboard-selectors, the hook        *)
(* useUserDashboard, and the cards that show the results.                  *)
(*                                                                         *)
(* A read walks the pools one await at a time while the chain moves on.  A *)
(* pool is [A, B: the totals, mine: the account's stake per side, state]; *)
(* amounts are small integers, quotients are taken down.                   *)
(***************************************************************************)
EXTENDS Integers, Sequences, FiniteSets, Ranks, Sums

CONSTANTS
  LastPool,   \* pools have the identifiers 1..LastPool
  Others,     \* books of the others' stakes a pool may start with: [A, B]
  Expiries,   \* possible expiries, in blocks
  BetPools,   \* bound: pools the account bets in
  MaxHeight   \* bound of the chain's height

VARIABLES
  chain,      \* the pools
  height,     \* getCurrentBlockHeight()
  read,       \* the walk under way: kind, pool, snapshot, bets; or NoRead
  dash,       \* fetchDashboardData's last result, and the block it was computed at
  board,      \* useUserDashboard's bets
  picked,     \* ClaimWinnings' selection
  claims,     \* claim transaction of each pool: "none", "pending", "success", "failed"
  screen      \* the dashboard that is open: "api" or "board"

dashVars == <<chain, height, read, dash, board, picked, claims, screen>>

Pools == 1..LastPool
Sides == {"A", "B"}
Other(side) == IF side = "A" THEN "B" ELSE "A"
NoRead == [kind |-> "none", pool |-> 0, snapshot |-> <<>>, bets |-> <<>>]

AddUp(list, F(_)) == SumBelow([k \in 0 .. Len(list) - 1 |-> F(list[k + 1])], Len(list))
Where(list, P(_)) == Kept(list, {k \in DOMAIN list : P(list[k])})
Total(pool) == pool.A + pool.B

----------------------------------------------------------------------------
(* dashboard-utils. *)

PotentialWinnings(amount, pool, side) ==
  IF Total(pool) = 0 THEN amount
  ELSE IF pool[side] = 0 THEN Total(pool)
  ELSE (pool[Other(side)] * amount) \div (pool[side] + amount)

\* mutant: the stake itself is not paid back
ActualProfit(amount, pool, side, winner) ==
  IF side # winner \/ pool[winner] = 0 THEN 0 ELSE (pool[Other(winner)] * amount) \div pool[winner]

ActualWinnings(amount, pool, side, winner) ==
  IF side # winner \/ pool[winner] = 0 THEN 0 ELSE (Total(pool) * amount) \div pool[winner]

IsClaimEligible(bet) == bet.status = "won" /\ bet.claim = "unclaimed" /\ bet.claimable > 0

BetProfitLoss(bet) ==
  CASE bet.status = "active" -> 0
    [] bet.status = "won" -> bet.winnings - bet.amount
    [] OTHER -> -bet.amount

Settled(pool) == pool.state \in Sides
Winner(pool) == pool.state

MarketStatus(pool) ==
  IF Settled(pool) THEN "settled" ELSE IF height > pool.expiry THEN "expired" ELSE "active"

Odds(pool, side) == IF Total(pool) = 0 THEN 50 ELSE (100 * pool[side]) \div Total(pool)

ProcessMarketStatistics(pools) ==
  [p \in DOMAIN pools |-> [status |-> MarketStatus(pools[p]), volume |-> Total(pools[p]),
                           odds |-> [side \in Sides |-> Odds(pools[p], side)]]]

PlatformMetrics(pools, bets) ==
  [total |-> LastPool,
   active |-> Cardinality({p \in Pools : ~Settled(pools[p]) /\ height <= pools[p].expiry}),
   settled |-> Cardinality({p \in Pools : Settled(pools[p])}),
   expired |-> Cardinality({p \in Pools : ~Settled(pools[p]) /\ height > pools[p].expiry}),
   volume |-> AddUp([p \in Pools |-> pools[p]], Total),
   bets |-> Len(bets)]

\* calculatePortfolio: actualWinnings are those of the bets it is given, which have none.
Portfolio(bets) ==
  LET wagered == AddUp(bets, LAMBDA bet : bet.amount)
      won == Where(bets, LAMBDA bet : bet.status = "won")
      open == Where(bets, LAMBDA bet : bet.claim = "unclaimed")
  IN  [bets |-> Len(bets), wagered |-> wagered, winnings |-> AddUp(won, LAMBDA bet : bet.winnings),
       active |-> Len(Where(bets, LAMBDA bet : bet.status = "active")),
       claimable |-> AddUp(open, LAMBDA bet : bet.claimable),
       profit |-> AddUp(won, LAMBDA bet : bet.winnings) - wagered]

----------------------------------------------------------------------------
(* dashboard-api. *)

\* createUserBet: the pool is the snapshot's; whether it was claimed is read anew, and a
\* claimed bet is one the chain no longer has.
CreateUserBet(p, pool, side, amount) ==
  LET status == IF Settled(pool) THEN IF Winner(pool) = side THEN "won" ELSE "lost"
                ELSE IF height > pool.expiry THEN "expired" ELSE "active"
      claimed == chain[p].mine["A"] = 0 /\ chain[p].mine["B"] = 0
  IN  [pool |-> p, side |-> side, amount |-> amount, status |-> status, winnings |-> 0,
       claim |-> IF status # "won" THEN "not_eligible" ELSE IF claimed THEN "claimed" ELSE "unclaimed",
       claimable |-> IF status = "won" THEN ActualWinnings(amount, pool, side, side) ELSE 0,
       potential |-> IF status = "active" THEN PotentialWinnings(amount, pool, side) ELSE 0]

\* The rows of a pool: a side with a stake is a bet of its own.
StakedSides(p) == Where(<<"A", "B">>, LAMBDA side : chain[p].mine[side] > 0)

StartDashboard ==
  /\ screen = "api" /\ read = NoRead
  /\ read' = [kind |-> "api", pool |-> 1, snapshot |-> chain, bets |-> <<>>]
  /\ UNCHANGED <<chain, height, dash, board, picked, claims, screen>>

\* The loop of getUserBets; a pool whose reading fails is skipped.
ReadUserBet ==
  /\ read.kind = "api" /\ read.pool <= LastPool
  /\ LET p == read.pool
         sides == StakedSides(p)
         bets == [k \in DOMAIN sides |->
                   CreateUserBet(p, read.snapshot[p], sides[k], chain[p].mine[sides[k]])]
     IN  \E more \in {<<>>, bets} : read' = [read EXCEPT !.pool = @ + 1, !.bets = @ \o more]
  /\ UNCHANGED <<chain, height, dash, board, picked, claims, screen>>

\* A won bet's winnings are added to the history after its profit was computed.
BetHistory(bets) ==
  [k \in DOMAIN bets |->
    [bet |-> bets[k], market |-> IF bets[k].status = "active" THEN "active" ELSE "settled",
     profit |-> BetProfitLoss(bets[k])]]

\* The rest of fetchDashboardData; the pools are fetched a second time.
FetchDashboardData ==
  /\ read.kind = "api" /\ read.pool > LastPool
  /\ dash' = [active |-> Where(read.bets, LAMBDA bet : bet.status = "active"),
              history |-> BetHistory(read.bets), portfolio |-> Portfolio(read.bets),
              markets |-> ProcessMarketStatistics(chain),
              metrics |-> PlatformMetrics(chain, read.bets)]
  /\ read' = NoRead
  /\ UNCHANGED <<chain, height, board, picked, claims, screen>>

NoDash == [active |-> <<>>, history |-> <<>>, portfolio |-> Portfolio(<<>>),
           markets |-> <<>>, metrics |-> [total |-> 0, active |-> 0, settled |-> 0, expired |-> 0,
                                          volume |-> 0, bets |-> 0]]

Bets == [k \in DOMAIN dash.history |-> dash.history[k].bet]

\* getClaimableWinnings.
Claimable == Where(Bets, IsClaimEligible)
ClaimablePools == {Claimable[k].pool : k \in DOMAIN Claimable}

----------------------------------------------------------------------------
(* useUserDashboard: pool and bet of one pool are read together. *)

StartBoard ==
  /\ screen = "board" /\ read = NoRead
  /\ read' = [NoRead EXCEPT !.kind = "board", !.pool = 1]
  /\ UNCHANGED <<chain, height, dash, board, picked, claims, screen>>

BoardBet(p, side, amount) ==
  LET pool == chain[p]
      won == Settled(pool) /\ Winner(pool) = side
  IN  [pool |-> p, side |-> side, amount |-> amount,
       status |-> IF ~Settled(pool) THEN "active" ELSE IF won THEN "won" ELSE "lost",
       winnings |-> IF won THEN (amount * Total(pool)) \div pool[side] ELSE 0]

\* The loop of fetchUserBetsFromContract ends before the pool counter.
ReadBoardBet ==
  /\ read.kind = "board" /\ read.pool < LastPool
  /\ LET p == read.pool
         sides == StakedSides(p)
         bets == [k \in DOMAIN sides |-> BoardBet(p, sides[k], chain[p].mine[sides[k]])]
     IN  \E more \in {<<>>, bets} : read' = [read EXCEPT !.pool = @ + 1, !.bets = @ \o more]
  /\ UNCHANGED <<chain, height, dash, board, picked, claims, screen>>

BoardRead ==
  /\ read.kind = "board" /\ read.pool = LastPool
  /\ board' = read.bets /\ read' = NoRead
  /\ UNCHANGED <<chain, height, dash, picked, claims, screen>>

Whose(bets, status) == Where(bets, LAMBDA bet : bet.status \in status)

DashboardStats(bets) ==
  [bets |-> Len(bets), wagered |-> AddUp(bets, LAMBDA bet : bet.amount),
   winnings |-> AddUp(Whose(bets, {"won"}), LAMBDA bet : bet.winnings),
   active |-> Len(Whose(bets, {"active"})),
   settled |-> Len(Where(bets, LAMBDA bet : bet.status # "active"))]

\* The panels of the active bets and of the others.
ActivePanel == Where(board, LAMBDA bet : bet.status = "active")
HistoryPanel == Where(board, LAMBDA bet : bet.status # "active")

\* DashboardStatsSections prints the figures of the stats.
StatsSections == DashboardStats(board)

----------------------------------------------------------------------------
(* The cards. *)

\* selectPortfolioMetricCards, and the summary under them.
PortfolioCards ==
  [value |-> dash.portfolio.wagered + dash.portfolio.profit, bets |-> dash.portfolio.bets,
   active |-> dash.portfolio.active, wagered |-> dash.portfolio.wagered,
   winnings |-> dash.portfolio.winnings, claimable |-> dash.portfolio.claimable,
   profit |-> dash.portfolio.profit]

\* selectMarketDistribution.
MarketDistribution ==
  <<dash.metrics.active, dash.metrics.settled, dash.metrics.expired>>

\* The three parts of PlatformMetrics' page that are computed there.
PlatformOverview ==
  [markets |-> dash.metrics.total, distribution |-> MarketDistribution,
   health |-> IF dash.metrics.active > 0 THEN "Active" ELSE "Quiet"]

\* The markets by volume, and their count by status below.
TopMarkets == LargestFirst([p \in DOMAIN dash.markets |-> p],
                           [p \in DOMAIN dash.markets |-> dash.markets[p].volume])
MarketCount(status) == Cardinality({k \in DOMAIN TopMarkets : dash.markets[TopMarkets[k]].status = status})

\* BetHistoryTable: its filters, and the summary of what they leave.
FilteredHistory(filters) ==
  Where(dash.history, LAMBDA row :
    /\ \/ filters.outcome = "all"
       \/ filters.outcome = "lost" /\ row.bet.status \in {"lost", "expired"}
       \/ row.bet.status = filters.outcome
    /\ filters.market \in {"all", row.market})

HistorySummary(filters) ==
  LET rows == FilteredHistory(filters)
  IN  [bets |-> Len(rows), profit |-> AddUp(rows, LAMBDA row : row.profit),
       wagered |-> AddUp(rows, LAMBDA row : row.bet.amount)]

\* ClaimWinnings: a claim of one bet, the boxes, and the confirmed batch.
Claim(p) ==
  /\ p \in ClaimablePools /\ claims[p] \notin {"pending", "success"}
  /\ claims' = [claims EXCEPT ![p] = "pending"]
  /\ UNCHANGED <<chain, height, read, dash, board, picked, screen>>

SelectBet(p) ==
  /\ p \in ClaimablePools /\ Len(Claimable) > 1
  /\ picked' = (picked \ {p}) \cup ({p} \ picked)
  /\ UNCHANGED <<chain, height, read, dash, board, claims, screen>>

SelectAll ==
  /\ Len(Claimable) > 1
  /\ picked' = IF Cardinality(picked) = Len(Claimable) THEN {} ELSE ClaimablePools
  /\ UNCHANGED <<chain, height, read, dash, board, claims, screen>>

BatchClaim ==
  /\ Len(Claimable) > 1 /\ Cardinality(picked) > 1
  /\ claims' = [p \in Pools |-> IF p \in picked THEN "pending" ELSE claims[p]]
  /\ picked' = {}
  /\ UNCHANGED <<chain, height, read, dash, board, screen>>

----------------------------------------------------------------------------
(* The chain; a claim takes the account's stake out of the pool's book. *)

NoStake == [A |-> 0, B |-> 0]

ClaimEnds(p) ==
  /\ claims[p] = "pending"
  /\ \/ /\ Settled(chain[p]) /\ chain[p].mine[Winner(chain[p])] > 0
        /\ chain' = [chain EXCEPT ![p].mine = NoStake]
        /\ claims' = [claims EXCEPT ![p] = "success"]
     \/ claims' = [claims EXCEPT ![p] = "failed"] /\ UNCHANGED chain
  /\ UNCHANGED <<height, read, dash, board, picked, screen>>

Bet(p, side) ==
  /\ ~Settled(chain[p]) /\ height < chain[p].expiry /\ chain[p].mine[side] = 0
  /\ chain' = [chain EXCEPT ![p].mine[side] = 1, ![p][side] = @ + 1]
  /\ UNCHANGED <<height, read, dash, board, picked, claims, screen>>

Settle(p, side) ==
  /\ ~Settled(chain[p]) /\ height >= chain[p].expiry
  /\ chain' = [chain EXCEPT ![p].state = side]
  /\ UNCHANGED <<height, read, dash, board, picked, claims, screen>>

Block ==
  /\ height < MaxHeight /\ height' = height + 1
  /\ UNCHANGED <<chain, read, dash, board, picked, claims, screen>>

DashInit ==
  /\ \E book \in [Pools -> Others], expiry \in [Pools -> Expiries] :
       chain = [p \in Pools |-> [A |-> book[p].A, B |-> book[p].B, mine |-> NoStake,
                                 state |-> "open", expiry |-> expiry[p]]]
  /\ height = 0 /\ read = NoRead /\ dash = NoDash /\ board = <<>>
  /\ picked = {} /\ claims = [p \in Pools |-> "none"]
  /\ screen \in {"api", "board"}

DashNext ==
  \/ StartDashboard \/ ReadUserBet \/ FetchDashboardData \/ StartBoard \/ ReadBoardBet \/ BoardRead
  \/ SelectAll \/ BatchClaim \/ Block
  \/ \E p \in Pools : Claim(p) \/ SelectBet(p) \/ ClaimEnds(p)
  \/ \E p \in Pools, side \in Sides : (p \in BetPools /\ Bet(p, side)) \/ Settle(p, side)

DashSpec == DashInit /\ [][DashNext]_dashVars

----------------------------------------------------------------------------

\* Every figure is the count of the rows another card lists: of the account's bets, the
\* active ones and what they may claim; of the platform's pools, each status.
FiguresCountRows ==
  /\ PortfolioCards.bets = Len(dash.history) /\ PortfolioCards.active = Len(dash.active)
  /\ PortfolioCards.claimable = AddUp(Claimable, LAMBDA bet : bet.claimable)
  /\ PlatformOverview.distribution =
       <<MarketCount("active"), MarketCount("settled"), MarketCount("expired")>>
  /\ AddUp(PlatformOverview.distribution, LAMBDA count : count) = PlatformOverview.markets
  /\ StatsSections.bets = Len(ActivePanel) + Len(HistoryPanel)
  /\ StatsSections.active = Len(ActivePanel) /\ StatsSections.settled = Len(HistoryPanel)
  /\ LET wagered(outcome) == HistorySummary([outcome |-> outcome, market |-> "all"]).wagered
     IN  /\ wagered("all") = PortfolioCards.wagered
         /\ wagered("all") = wagered("won") + wagered("lost") + wagered("active")

\* What the cards offer to claim, the chain pays while it is unclaimed: the pool was
\* settled for that side and the amount is the stake's part of the whole pool.
OffersAreDue ==
  \A k \in DOMAIN Claimable :
    LET bet == Claimable[k]
        pool == chain[bet.pool]
    IN  /\ pool.state = bet.side
        /\ pool.mine[bet.side] \in {0, bet.amount}
        /\ bet.claimable * pool[bet.side] <= bet.amount * (pool.A + pool.B)
        /\ (bet.claimable + 1) * pool[bet.side] > bet.amount * (pool.A + pool.B)


=============================================================================
