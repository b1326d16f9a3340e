------------------------------ MODULE MultiAsset ------------------------------
(***************************************************************************)
(* Pools that accept bets in several tokens, next to the single-asset      *)
(* pools of PredinexMarket and on the same storage.  Stakes are recorded   *)
(* in base units at the exchange rate of the moment of the bet; what came  *)
(* in is counted per token, and a winner gets a share of every token.      *)
(* Deposits are kept per pool, but each token has one balance that all     *)
(* pools share; token 0 is the contract's own token, whose balance is      *)
(* PredinexMarket's.                                                       *)
(***************************************************************************)
EXTENDS PredinexMarket

CONSTANTS
  NumTokens,        \* tokens other than the contract's own
  RateChoices,      \* values set_token_exchange_rate is called with, in bps
  RatedTokens,      \* tokens it is called for
  TokenLists,       \* allowed_tokens creators ask for
  TokenBets,        \* amounts bettors send, in the token's units
  TokenLimitChoices,    \* pairs [min, max] of set_pool_token_bet_limits
  RescueAmounts,    \* amounts rescue_tokens is called with
  DepositBound      \* bound: deposit recorded per pool and token

BaseToken == 0
Tokens == 0 .. NumTokens
AltTokens == 1 .. NumTokens

ASSUME MultiAssetAssumption ==
  /\ NumTokens \in Nat /\ DepositBound \in Nat
  /\ RateChoices \subseteq Nat \ {0} /\ RatedTokens \subseteq Tokens
  /\ TokenLists \subseteq SUBSET Tokens
  /\ TokenBets \subseteq Nat \ {0} /\ RescueAmounts \subseteq Nat \ {0}
  /\ TokenLimitChoices \subseteq [min : Nat, max : Nat]

VARIABLES
  rate,          \* TokenExchangeRate, 0 when absent
  allowed,       \* PoolAllowedTokens, {} for a single-asset pool
  tokenLimits,   \* PoolTokenMinBet and PoolTokenMaxBet, 0 when absent
  deposit,       \* PoolTokenDeposit
  feePending,    \* PoolTokenFeePending
  tokenBalance,  \* balance of the contract's address in the other tokens
  spent,         \* history: what left the contract in a pool's name, by token
  swept,         \* history: the part of it the last claim swept
  interfered     \* history: pools whose tokens another call may have taken

assetVars == <<rate, allowed, tokenLimits, deposit, feePending, tokenBalance,
               spent, swept, interfered>>
assetSpecVars == <<vars, assetVars>>

(* PoolIsMultiAsset.                                                       *)
IsMultiAsset(p) == allowed[p] # {}

BalanceOf(t) == IF t = BaseToken THEN balance ELSE tokenBalance[t]

(* Transfers of one call, by token: out of the contract or into it.        *)
Funded(out) == \A t \in Tokens : out[t] <= BalanceOf(t)
TransferOut(out) ==
  /\ balance' = balance - out[BaseToken]
  /\ tokenBalance' = [t \in AltTokens |-> tokenBalance[t] - out[t]]

Only(t, amount) == [s \in Tokens |-> IF s = t THEN amount ELSE 0]
OverTokens(f) == SumBelow(f, NumTokens + 1)

(* The other pools that a wrong payment in the tokens of ts would hit.     *)
Sharing(ts) == {q \in Pools : \E t \in ts : deposit[q][t] > 0}

-----------------------------------------------------------------------------
(* Settings and creation.                                                  *)

(* Rates may change while pools are open, and the setter keeps no history. *)
SetTokenExchangeRate(caller, t, bps) ==
  /\ caller = TreasuryRecipient
  /\ rate' = [rate EXCEPT ![t] = bps]
  /\ UNCHANGED <<vars, allowed, tokenLimits, deposit, feePending, tokenBalance,
                 spent, swept, interfered>>

CreateMultiAssetPool(creator, duration, customDeadline, list) ==
  /\ list # {}
  /\ \A t \in list : rate[t] > 0
  /\ CreatePool(creator, duration, customDeadline)
  /\ allowed' = [allowed EXCEPT ![Cardinality(Created) + 1] = list]
  /\ UNCHANGED <<rate, tokenLimits, deposit, feePending, tokenBalance, spent, swept,
                 interfered>>

(* 0 leaves the stored limit as it is: a limit can be changed, not lifted. *)
SetPoolTokenBetLimits(caller, p, t, limits) ==
  /\ caller = TreasuryRecipient
  /\ IsMultiAsset(p)
  /\ tokenLimits' = [tokenLimits EXCEPT ![p][t] =
                       [min |-> IF limits.min > 0 THEN limits.min ELSE @.min,
                        max |-> IF limits.max > 0 THEN limits.max ELSE @.max]]
  /\ UNCHANGED <<vars, rate, allowed, deposit, feePending, tokenBalance, spent, swept,
                 interfered>>

-----------------------------------------------------------------------------
(* Bets.                                                                   *)

Normalized(t, amount) == Bps(amount, rate[t])

(* Per-token limits apply to the amount sent, pool limits to its value.    *)
WithinTokenLimits(p, t, amount) ==
  /\ tokenLimits[p][t].min > 0 => amount >= tokenLimits[p][t].min
  /\ tokenLimits[p][t].max > 0 => amount <= tokenLimits[p][t].max
  /\ WithinPoolLimits(Normalized(t, amount))

(* Outcomes past the second are in no legacy field of the pool.            *)
MoveTokenStake(u, p, o, units) ==
  /\ totals' = [totals EXCEPT ![p][o] = @ + units]
  /\ sides' = [sides EXCEPT ![p] = [a |-> @.a + (IF o = 0 THEN units ELSE 0),
                                    b |-> @.b + (IF o = 1 THEN units ELSE 0)]]
  /\ stake' = [stake EXCEPT ![p][u][o] = @ + units]
  /\ totalBet' = [totalBet EXCEPT ![p][u] = @ + units]

(* The checks of place_multi_asset_bet before the transfer; the exposure   *)
(* limits are checked here and the bet is not recorded in them.            *)
TakesTokenBet(u, p, amount, t) ==
  LET units == Normalized(t, amount)
  IN  /\ ~paused
      /\ amount >= MinBetAmount
      /\ t \in allowed[p]
      /\ units > 0
      /\ WithinTokenLimits(p, t, amount)
      /\ ExposureOk(u, p, units, sides[p].a + sides[p].b, now)
      /\ AcceptsBets(p)
      /\ u # pool[p].creator
      /\ RateLimitOk(u, now)
      /\ MaxPoolSize > 0 => PoolTotal(p) + units <= MaxPoolSize
      /\ FirstBet(u, p) => participants[p] < MaxParticipants
      /\ deposit[p][t] + amount <= DepositBound

PlaceMultiAssetBet(u, p, o, amount, t) ==
  LET units == Normalized(t, amount)
      first == FirstBet(u, p)
      cools == /\ LargePoolThreshold > 0 /\ CoolingPeriod > 0
               /\ PoolTotal(p) < LargePoolThreshold
               /\ PoolTotal(p) + units >= LargePoolThreshold
  IN  /\ TakesTokenBet(u, p, amount, t)
      /\ TransferOut(Only(t, -amount))
      /\ deposit' = [deposit EXCEPT ![p][t] = @ + amount]
      /\ MoveTokenStake(u, p, o, units)
      /\ volume' = [volume EXCEPT ![p] = @ + units]
      /\ hasBet' = [hasBet EXCEPT ![p] = @ \cup {u}]
      /\ bettors' = [bettors EXCEPT ![p] = IF first THEN @ \cup {u} ELSE @]
      /\ participants' = [participants EXCEPT ![p] = IF first THEN @ + 1 ELSE @]
      /\ betRate' = IF RateLimited
                    THEN [betRate EXCEPT ![u] = Add(Window(@, now, RateWindow), 1)]
                    ELSE betRate
      /\ status' = [status EXCEPT ![p] = IF cools THEN "Frozen" ELSE "Open"]
      /\ coolingUntil' = [coolingUntil EXCEPT ![p] =
                            IF cools THEN now + CoolingPeriod
                            ELSE IF Thawed(p) THEN Never ELSE @]
      /\ UNCHANGED <<now, configVars, pool, winner, settledAt, settleFee, lockedFee, fresh,
                     payout, credited, treasury, withdrawn, escrow, exposure, dailyLoss,
                     weeklyLoss, lastLargeBet, rate, allowed, tokenLimits, feePending,
                     spent, swept, interfered>>

-----------------------------------------------------------------------------
(* Claims, fees and rescue.                                                *)

(* mutant: the fee of every claim's own time *)
LiveTokenFee(p, t) == IF t \in allowed[p] THEN Bps(deposit[p][t], EffectiveFee(p)) ELSE 0

(* The first claim fixes the fee of each token; the later ones read it.    *)
TokenFee(p, t) ==
  IF ~payout[p].feeCredited /\ t \in allowed[p] /\ Bps(deposit[p][t], EffectiveFee(p)) > 0
  THEN Bps(deposit[p][t], EffectiveFee(p)) ELSE feePending[p][t]

(* mutant: shares of the gross deposit *)
TokenGross(p, t) == IF t \in allowed[p] THEN deposit[p][t] ELSE 0

TokenNet(p, t) ==
  IF t \in allowed[p] /\ deposit[p][t] > TokenFee(p, t)
  THEN deposit[p][t] - TokenFee(p, t) ELSE 0

TokenShare(p, u, t) == (TokenNet(p, t) * WinningStake(p, u)) \div WinningTotal(p)

(* mutant: the claim being made is not counted *)
LastBefore(u, p) == payout[p].claimed = WinningTotal(p)
LastTokenClaim(u, p) == payout[p].claimed + WinningStake(p, u) = WinningTotal(p)

(***************************************************************************)
(* What the last claim sends to the treasury recipient as dust: all that   *)
(* the contract holds of a token but this pool's fee.                      *)
(***************************************************************************)
Sweep(u, p, t) ==
  LET left == BalanceOf(t) - TokenShare(p, u, t) - TokenFee(p, t)
  IN  IF LastTokenClaim(u, p) /\ TokenNet(p, t) > 0 /\ left > 0 THEN left ELSE 0

ClaimMultiAssetWinnings(u, p) ==
  LET share == [t \in Tokens |-> TokenShare(p, u, t)]
      sweep == [t \in Tokens |-> Sweep(u, p, t)]
      out == [t \in Tokens |-> share[t] + sweep[t]]
  IN  /\ Claimable(u, p) /\ IsMultiAsset(p)
      /\ Funded(share)
      /\ feePending' = [feePending EXCEPT ![p] = [t \in Tokens |-> TokenFee(p, t)]]
      /\ TransferOut(out)
      /\ payout' = [payout EXCEPT ![p] =
                      [feeCredited |-> TRUE, claimed |-> @.claimed + WinningStake(p, u),
                       paidOut |-> @.paidOut + OverTokens(share)]]
      /\ credited' = [credited EXCEPT ![p] = @ + OverTokens(sweep)]
      /\ RemoveBets(p, {u})
      /\ spent' = [spent EXCEPT ![p] = [t \in Tokens |-> @[t] + out[t]]]
      /\ swept' = [swept EXCEPT ![p] = [t \in Tokens |-> @[t] + sweep[t]]]
      /\ interfered' = IF p \in interfered \/ LastTokenClaim(u, p)
                       THEN interfered \cup (Sharing(allowed[p]) \ {p}) ELSE interfered
      /\ UNCHANGED <<now, configVars, lifeVars, treasury, withdrawn, escrow, limitVars,
                     rate, allowed, tokenLimits, deposit>>

(* Any amount of any token; the administrator is trusted with it.          *)
RescueTokens(caller, t, amount) ==
  /\ caller = TreasuryRecipient
  /\ amount > 0 /\ Funded(Only(t, amount))
  /\ TransferOut(Only(t, amount))
  /\ interfered' = interfered \cup Sharing({t})
  /\ UNCHANGED <<now, configVars, lifeVars, bookVars, payout, credited, treasury, withdrawn,
                 escrow, limitVars, rate, allowed, tokenLimits, deposit, feePending, spent,
                 swept>>

FeeValue(p) == OverTokens([t \in Tokens |-> Normalized(t, feePending[p][t])])

(***************************************************************************)
(* collect_multi_asset_fees: the pending fees leave the contract and their *)
(* value is added to Treasury all the same.  Collected before the last     *)
(* claim, a fee is no longer held back from the claims after it.           *)
(***************************************************************************)
CollectMultiAssetFees(caller, p) ==
  /\ caller = TreasuryRecipient
  /\ status[p] = "Settled"
  /\ IsMultiAsset(p)
  /\ Funded(feePending[p])
  /\ TransferOut(feePending[p])
  /\ treasury' = treasury + FeeValue(p)
  /\ credited' = [credited EXCEPT ![p] = @ + FeeValue(p)]
  /\ feePending' = [feePending EXCEPT ![p] = [t \in Tokens |-> 0]]
  /\ spent' = [spent EXCEPT ![p] = [t \in Tokens |-> @[t] + feePending[p][t]]]
  /\ interfered' = interfered
       \cup (IF p \in interfered THEN Sharing(allowed[p]) ELSE {})
       \cup (IF payout[p].claimed < WinningTotal(p) THEN {p} ELSE {})
  /\ UNCHANGED <<now, configVars, lifeVars, bookVars, payout, withdrawn, escrow, limitVars,
                 rate, allowed, tokenLimits, deposit, swept>>

-----------------------------------------------------------------------------
AssetInit ==
  /\ Init
  /\ rate = [t \in Tokens |-> 0]
  /\ allowed = [p \in Pools |-> {}]
  /\ tokenLimits = [p \in Pools |-> [t \in Tokens |-> [min |-> 0, max |-> 0]]]
  /\ deposit = [p \in Pools |-> [t \in Tokens |-> 0]]
  /\ feePending = deposit /\ spent = deposit /\ swept = deposit
  /\ tokenBalance = [t \in AltTokens |-> 0]
  /\ interfered = {}

AssetStep(c) ==
  \/ \E t \in RatedTokens, bps \in RateChoices : SetTokenExchangeRate(c, t, bps)
  \/ \E d \in Durations, dd \in DepositDeadlines \cup {NoDeadline}, list \in TokenLists :
       c \in Creators /\ CreateMultiAssetPool(c, d, dd, list)
  \/ \E p \in Pools, t \in RatedTokens, limits \in TokenLimitChoices :
       SetPoolTokenBetLimits(c, p, t, limits)
  \/ \E p \in Pools, o \in Outcomes, amount \in TokenBets, t \in Tokens :
       PlaceMultiAssetBet(c, p, o, amount, t)
  \/ \E p \in Pools : ClaimMultiAssetWinnings(c, p) \/ CollectMultiAssetFees(c, p)
  \/ \E t \in Tokens, amount \in RescueAmounts : RescueTokens(c, t, amount)

(* The calls of PredinexMarket: claims, refunds, cancel_bet and            *)
(* cancel_pool refuse a multi-asset pool, the others do not look.          *)
MarketStep ==
  \/ Bet \/ Tick
  \/ \E c \in Creators : CreatorStep(c)
  \/ \E c \in Accounts : ConfigStep(c)
  \/ \E c \in Accounts, p \in Pools : ~IsMultiAsset(p) /\ BettorStep(c, p)
  \/ \E c \in Accounts, p \in Pools :
       OperatorStep(c, p) /\ (IsMultiAsset(p) => status'[p] # "Cancelled")
  \/ \E p \in Pools : ~IsMultiAsset(p) /\ KeeperStep(p)

(* A settlement lifted after its first claim leaves its payouts half made. *)
Reopened == {p \in Pools : IsMultiAsset(p) /\ payout[p].feeCredited /\ status'[p] # status[p]}

AssetNext ==
  \/ \E c \in Accounts : AssetStep(c)
  \/ /\ MarketStep
     /\ interfered' = interfered \cup Reopened
     /\ UNCHANGED <<rate, allowed, tokenLimits, deposit, feePending, tokenBalance, spent,
                    swept>>

AssetSpec == AssetInit /\ [][AssetNext]_assetSpecVars

-----------------------------------------------------------------------------
(***************************************************************************)
(* What a pool still has to pay in a token: all of its deposit before the  *)
(* first claim, then the shares of the winners still to come and the fee.  *)
(***************************************************************************)
TokenLiability(p, t) ==
  IF payout[p].feeCredited /\ IsMultiAsset(p)
  THEN feePending[p][t] + SumBelow([u \in Accounts |-> TokenShare(p, u, t)], NumAccounts)
  ELSE deposit[p][t]

(***************************************************************************)
(* Pools that share a token and whose tokens no last claim of another      *)
(* pool, rescue, early fee collection or reopening has touched can all be  *)
(* paid in full from the one balance, in any order and whatever becomes of *)
(* the exchange rates and of the fee setting.                              *)
(***************************************************************************)
TokensCoverClaims ==
  \A t \in AltTokens :
    BalanceOf(t) >=
      SumBelow([i \in 0 .. NumPools - 1 |->
                  IF i + 1 \in interfered THEN 0 ELSE TokenLiability(i + 1, t)], NumPools)

(***************************************************************************)
(* The last claim of a pool that has its tokens to itself accounts for the *)
(* whole deposit of every token: what left is the deposit less the fee     *)
(* still to collect, and the sweep was rounding, less than one unit per    *)
(* winner.                                                                 *)
(***************************************************************************)
Alone(p, t) == t \in allowed[p] /\ \A q \in Pools \ {p} : deposit[q][t] = 0

TokenPayoutsReconcile ==
  \A p \in Pools \ interfered, t \in AltTokens :
    status[p] = "Settled" /\ FullyClaimed(p) /\ Alone(p, t) =>
      /\ spent[p][t] + feePending[p][t] = deposit[p][t]
      /\ swept[p][t] \in 0 .. Cardinality(bettors[p]) - 1

(***************************************************************************)
(* From the first claim on, a winner's share of every token is fixed:      *)
(* neither a claim, a change of rate or fee, nor a bet elsewhere moves it, *)
(* except the interferences named above.                                   *)
(***************************************************************************)
TokenSharesFixed ==
  [][\A p \in Pools, u \in Accounts :
       IsMultiAsset(p) /\ payout[p].feeCredited /\ p \notin interfered' /\ u \in hasBet'[p]
         => \A t \in Tokens : TokenShare(p, u, t)' = TokenShare(p, u, t)]_assetSpecVars

(***************************************************************************)
(* Said of place_multi_asset_bet: "The actual bet_token tokens are held in *)
(* escrow".  While no winner of a pool has claimed, its deposits are there.*)
(***************************************************************************)
DepositsInEscrow ==
  \A t \in AltTokens :
    BalanceOf(t) >=
      SumBelow([i \in 0 .. NumPools - 1 |->
                  IF payout[i + 1].feeCredited THEN 0 ELSE deposit[i + 1][t]], NumPools)

=============================================================================
