--------------------------- MODULE MCMarketBatches ---------------------------
(***************************************************************************)
(* MarketBatches for TLC.  The run starts from two open pools in which     *)
(* accounts 1 and 2 (pool 1) and account 2 alone (pool 2) have each placed *)
(* one bet of Amount on outcome 0 and which have just expired.  Init       *)
(* reaches this state by two calls of create_pool, three of place_bet      *)
(* (PlaceFeeBps is 0) and a tick of the clock.                             *)
(***************************************************************************)
EXTENDS MarketBatches

NoTiers == <<>>
NoTierCalls == {}
Unset == -1
TwiceAndOther == {<<1, 1, 2>>, <<2>>}

Amount == 3
Bettors(p) == IF p = 1 THEN {1, 2} ELSE {2}
Total(p) == Amount * Cardinality(Bettors(p))
Placed(p, u, o) == IF u \in Bettors(p) /\ o = 0 THEN Amount ELSE 0

BettingDone ==
  /\ now = 1 /\ paused = FALSE
  /\ protocolFee \in FeeChoices /\ feeTiers = InitialTiers
  /\ minParticipants \in MinParticipantChoices
  /\ pool = [p \in Pools |-> [creator |-> 0, created |-> 0, expiry |-> 1, deadline |-> 1,
                              settler |-> NoAccount]]
  /\ status = [p \in Pools |-> "Open"]
  /\ winner = [p \in Pools |-> NoOutcome]
  /\ coolingUntil = [p \in Pools |-> Never]
  /\ totals = [p \in Pools |-> [o \in Outcomes |-> IF o = 0 THEN Total(p) ELSE 0]]
  /\ sides = [p \in Pools |-> [a |-> Total(p), b |-> 0]]
  /\ volume = [p \in Pools |-> Total(p)]
  /\ stake = [p \in Pools |-> [u \in Accounts |-> [o \in Outcomes |-> Placed(p, u, o)]]]
  /\ totalBet = [p \in Pools |-> [u \in Accounts |-> IF u \in Bettors(p) THEN Amount ELSE 0]]
  /\ hasBet = [p \in Pools |-> Bettors(p)] /\ bettors = hasBet
  /\ participants = [p \in Pools |-> Cardinality(Bettors(p))]
  /\ lockedFee = [p \in Pools |-> NoFee] /\ settleFee = [p \in Pools |-> NoFee]
  /\ settledAt = [p \in Pools |-> Never] /\ fresh = [p \in Pools |-> FALSE]
  /\ payout = [p \in Pools |-> NoPayout] /\ credited = [p \in Pools |-> 0]
  /\ treasury = 0 /\ withdrawn = NoWindow
  /\ balance = Total(1) + Total(2) /\ escrow = volume
  /\ betRate = [u \in Accounts |-> NoWindow]
  /\ exposure = totalBet
  /\ dailyLoss = [u \in Accounts |-> NoWindow] /\ weeklyLoss = [u \in Accounts |-> NoWindow]
  /\ lastLargeBet = [p \in Pools |-> [u \in Accounts |-> Never]]
  /\ claims = <<>>
  /\ claimOf = [p \in Pools |-> [u \in Accounts |-> NoClaim]]

StartedSpec == BettingDone /\ [][BatchNext]_batchSpecVars /\ BatchFairness

=============================================================================
