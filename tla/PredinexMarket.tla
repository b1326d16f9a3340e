--------------------------- MODULE PredinexMarket ---------------------------
(***************************************************************************)
(* The single-asset prediction market of contracts/predinex/src/lib.rs:    *)
(* creation and scheduling of pools, bets and their cancellation,          *)
(* settlement, claims and refunds, the protocol treasury, and the          *)
(* administrative freeze, dispute, cooling and pause switches.             *)
(*                                                                         *)
(* Every action is one contract call that succeeds.  A call that returns   *)
(* an error or panics (a failed check, an overflow, a token transfer the   *)
(* contract cannot fund) is rolled back by the ledger and changes nothing, *)
(* so it is not a step.  The token ledger outside the contract is          *)
(* external: balance is what the contract's own address holds.             *)
(***************************************************************************)
EXTENDS BettingLimits, Sums, FiniteSets, Sequences

CONSTANTS
  NumOutcomes,          \* outcomes are 0 .. NumOutcomes - 1
  Admin, TreasuryRecipient, FreezeAdmin,   \* accounts, NoAccount when not set
  BetAmounts,           \* gross amounts a bettor may send
  CancelAmounts,        \* amounts cancel_bet is called with
  Creators,             \* accounts that create pools
  MinBetAmount,         \* MIN_BET_AMOUNT
  PoolMinBet, PoolMaxBet,   \* per-pool limits, 0 when not set
  MaxPoolSize,          \* MaxPoolSize, 0 when not set
  PlaceFeeBps,          \* fee_rate of set_fee_config
  FeeChoices,           \* values set_protocol_fee is called with
  TierChoices,          \* tier tables set_volume_fee_tiers is called with
  InitialTiers,         \* the table configured when the model starts
  LargePoolThreshold, CoolingPeriod,
  MinParticipantChoices,
  MinDuration, MaxDuration, MaxExtension, MaxHorizon,
  GracePeriod, DisputeWindow,
  MaxWithdrawal, WithdrawalWindow,   \* treasury withdrawal rate limit
  PauseChoices,         \* flags set_paused is called with
  Settlers,             \* accounts a creator delegates settlement to
  Durations, Extensions,    \* what creators ask for
  DepositDeadlines,     \* custom deposit deadlines creators ask for
  OpenTimes,            \* open_at values of schedule_pool
  MaxTime,              \* bound: the clock stops here
  MaxExpiry,            \* bound: no pool expires later
  MaxParticipants,      \* bound: first bets recorded per pool
  ExposureBound         \* bound: net volume recorded per wallet and pool

NoAccount == -1
NoOutcome == -1
NoFee == -1
NoDeadline == -1
Outcomes == 0 .. NumOutcomes - 1

(* A tier table ascends by the volume at which a tier begins.              *)
Tiers == [threshold : Nat, fee : 0 .. BpsDenom]
ValidTiers(ts) ==
  /\ ts \in Seq(Tiers)
  /\ \A i, j \in DOMAIN ts : i < j => ts[i].threshold < ts[j].threshold

ASSUME MarketAssumption ==
  /\ NumOutcomes \in Nat \ {0, 1}
  /\ {Admin, TreasuryRecipient, FreezeAdmin} \subseteq Accounts \cup {NoAccount}
  /\ BetAmounts \subseteq Nat \ {0} /\ CancelAmounts \subseteq Nat
  /\ Creators \subseteq Accounts
  /\ {MinBetAmount, PoolMinBet, PoolMaxBet, MaxPoolSize, LargePoolThreshold,
      CoolingPeriod, MinDuration, MaxDuration, MaxExtension, MaxHorizon,
      GracePeriod, DisputeWindow, MaxWithdrawal, WithdrawalWindow, MaxTime,
      MaxExpiry, MaxParticipants, ExposureBound} \subseteq Nat
  /\ PlaceFeeBps \in 0 .. BpsDenom
  /\ FeeChoices # {} /\ FeeChoices \subseteq 0 .. BpsDenom
  /\ MinParticipantChoices # {} /\ MinParticipantChoices \subseteq Nat
  /\ PauseChoices \subseteq BOOLEAN /\ Settlers \subseteq Accounts
  /\ UNION {Durations, Extensions, DepositDeadlines, OpenTimes} \subseteq Nat
  /\ \A ts \in TierChoices \cup {InitialTiers} : ValidTiers(ts)

VARIABLES
  now,             \* ledger timestamp
  paused,
  protocolFee,     \* ProtocolFee, in bps
  feeTiers,        \* VolumeFeeTiers, <<>> when none are configured
  minParticipants, \* MinSettlementParticipants
  pool,            \* creator, created_at, expiry, deposit_deadline, settler
  status,          \* Pool.status without its payload
  winner,          \* Pool.winning_outcome; the payload of Settled
  coolingUntil,    \* PoolCoolingUntil, Never when absent
  totals,          \* PoolOutcomeTotals
  sides,           \* Pool.total_a and Pool.total_b
  volume,          \* Pool.cumulative_volume
  stake,           \* UserOutcomeBets
  totalBet,        \* UserBet.total_bet
  hasBet,          \* the accounts with a stored UserBet
  bettors,         \* PoolBettors
  participants,    \* Pool.participant_count
  lockedFee,       \* PoolFeeBps, NoFee when absent
  settledAt,       \* PoolSettlementTime, Never when absent
  settleFee,       \* PoolSettlementProtocolFee, NoFee when absent
  payout,          \* PoolPayoutState
  credited,        \* PoolTreasuryCredited
  treasury,        \* Treasury
  withdrawn,       \* TreasuryWithdrawalState
  balance,         \* token balance of the contract's address
  escrow,          \* history: net tokens paid into a pool minus those out
  fresh            \* history: the pool's last settlement found it unspent

configVars == <<paused, protocolFee, feeTiers, minParticipants>>
lifeVars   == <<pool, status, winner, coolingUntil, settledAt, settleFee, lockedFee, fresh>>
bookVars   == <<totals, sides, volume, stake, totalBet, hasBet, bettors, participants>>
moneyVars  == <<payout, credited, treasury, withdrawn, balance, escrow>>
vars == <<now, configVars, lifeVars, bookVars, moneyVars, limitVars>>

Statuses == {"None", "Scheduled", "Open", "Settled", "Voided", "Frozen",
             "Disputed", "Cancelled"}

-----------------------------------------------------------------------------
(* Arithmetic of the pool.                                                 *)

Bps(amount, bps) == (amount * bps) \div BpsDenom

PoolTotal(p) == SumBelow(totals[p], NumOutcomes)

(* The highest tier the volume reaches; the flat fee below the first one.  *)
FeeForVolume(v) ==
  LET reached == {i \in DOMAIN feeTiers : feeTiers[i].threshold <= v}
  IN  IF reached = {} THEN protocolFee
      ELSE feeTiers[CHOOSE i \in reached : \A j \in reached : j <= i].fee

(* mutants: the lock of the fee is not read *)
EffectiveFeeFlat(p) == protocolFee
EffectiveFeeLive(p) == FeeForVolume(PoolTotal(p))

EffectiveFee(p) == IF lockedFee[p] = NoFee THEN protocolFee ELSE lockedFee[p]

Fee(p) == Bps(PoolTotal(p), EffectiveFee(p))

NetPool(p) == PoolTotal(p) - Fee(p)
WinningTotal(p) == totals[p][winner[p]]
WinningStake(p, u) == stake[p][u][winner[p]]

Winnings(p, u) == (WinningStake(p, u) * NetPool(p)) \div WinningTotal(p)

Exists(p) == status[p] # "None"
Created == {p \in Pools : Exists(p)}

-----------------------------------------------------------------------------
(* Ledger clock and deployment-wide settings.                              *)

Tick ==
  /\ now < MaxTime
  /\ now' = now + 1
  /\ UNCHANGED <<configVars, lifeVars, bookVars, moneyVars, limitVars>>

SetPaused(caller, flag) ==
  /\ caller = TreasuryRecipient
  /\ paused' = flag
  /\ UNCHANGED <<now, protocolFee, feeTiers, minParticipants, lifeVars, bookVars,
                 moneyVars, limitVars>>

SetProtocolFee(caller, fee) ==
  /\ caller = TreasuryRecipient
  /\ protocolFee' = fee
  /\ UNCHANGED <<now, paused, feeTiers, minParticipants, lifeVars, bookVars,
                 moneyVars, limitVars>>

SetVolumeFeeTiers(caller, tiers) ==
  /\ caller = TreasuryRecipient
  /\ ValidTiers(tiers)
  /\ feeTiers' = tiers
  /\ UNCHANGED <<now, paused, protocolFee, minParticipants, lifeVars, bookVars,
                 moneyVars, limitVars>>

SetMinSettlementParticipants(caller, n) ==
  /\ caller = TreasuryRecipient
  /\ minParticipants' = n
  /\ UNCHANGED <<now, paused, protocolFee, feeTiers, lifeVars, bookVars,
                 moneyVars, limitVars>>

-----------------------------------------------------------------------------
(* Creation and scheduling.                                                *)

(***************************************************************************)
(* create_pool_internal: the next pool id, empty books.  A custom deposit  *)
(* deadline lies strictly between now and the expiry; without one the      *)
(* deadline is the expiry.  MaxExpiry is a bound of the model.             *)
(***************************************************************************)
CreatePoolInternal(creator, created, duration, customDeadline, initial) ==
  LET expiry == created + duration
      p == Cardinality(Created) + 1
  IN  /\ p \in Pools
      /\ duration >= MinDuration /\ duration <= MaxDuration
      /\ expiry > now /\ expiry <= MaxExpiry
      /\ customDeadline # NoDeadline => now < customDeadline /\ customDeadline < expiry
      /\ pool' = [pool EXCEPT ![p] =
                    [creator |-> creator, created |-> created, expiry |-> expiry,
                     deadline |-> IF customDeadline = NoDeadline THEN expiry
                                  ELSE customDeadline,
                     settler |-> NoAccount]]
      /\ status' = [status EXCEPT ![p] = initial]
      /\ UNCHANGED <<now, configVars, winner, coolingUntil, settledAt, settleFee,
                     lockedFee, fresh, bookVars, moneyVars, limitVars>>

CreatePool(creator, duration, customDeadline) ==
  CreatePoolInternal(creator, now, duration, customDeadline, "Open")

SchedulePool(creator, duration, openAt) ==
  /\ now < openAt /\ openAt <= now + MaxHorizon
  /\ CreatePoolInternal(creator, openAt, duration, NoDeadline, "Scheduled")

ChangeStatus(p, new) ==
  /\ status' = [status EXCEPT ![p] = new]
  /\ UNCHANGED <<now, configVars, pool, winner, settledAt, settleFee, lockedFee,
                 fresh, bookVars, moneyVars, limitVars>>

(* Anyone may call it; created_at of a scheduled pool is its open_at.      *)
ActivateScheduledPool(p) ==
  /\ status[p] = "Scheduled"
  /\ now >= pool[p].created
  /\ ChangeStatus(p, "Open") /\ UNCHANGED coolingUntil

CancelScheduledPool(caller, p) ==
  /\ status[p] = "Scheduled"
  /\ caller = pool[p].creator
  /\ ChangeStatus(p, "Cancelled") /\ UNCHANGED coolingUntil

ExtendPoolDuration(caller, p, seconds) ==
  /\ ~paused
  /\ status[p] = "Open"
  /\ caller = pool[p].creator
  /\ now < pool[p].expiry
  /\ seconds > 0 /\ seconds <= MaxExtension
  /\ pool[p].expiry + seconds <= pool[p].created + MaxDuration
  /\ pool[p].expiry + seconds <= MaxExpiry
  /\ pool' = [pool EXCEPT ![p].expiry = @ + seconds]
  /\ UNCHANGED <<now, configVars, status, winner, coolingUntil, settledAt, settleFee,
                 lockedFee, fresh, bookVars, moneyVars, limitVars>>

AssignSettler(caller, p, settler) ==
  /\ Exists(p)
  /\ caller = pool[p].creator
  /\ pool' = [pool EXCEPT ![p].settler = settler]
  /\ UNCHANGED <<now, configVars, status, winner, coolingUntil, settledAt, settleFee,
                 lockedFee, fresh, bookVars, moneyVars, limitVars>>

-----------------------------------------------------------------------------
(* Bets.                                                                   *)

(* A pool frozen by its own size thaws in the first bet after the period.  *)
Thawed(p) == status[p] = "Frozen" /\ coolingUntil[p] # Never /\ now >= coolingUntil[p]

(* mutant: the last second still takes bets *)
AcceptsLateBets(p) ==
  /\ status[p] = "Open" \/ Thawed(p)
  /\ now <= pool[p].expiry
  /\ pool[p].deadline < pool[p].expiry => now < pool[p].deadline

AcceptsBets(p) ==
  /\ status[p] = "Open" \/ Thawed(p)
  /\ now < pool[p].expiry
  /\ pool[p].deadline < pool[p].expiry => now < pool[p].deadline

WithinPoolLimits(amount) ==
  /\ PoolMinBet > 0 => amount >= PoolMinBet
  /\ PoolMaxBet > 0 => amount <= PoolMaxBet

Side(o) == IF o = 0 THEN "a" ELSE "b"

(* The pool's and the bettor's books move together.                        *)
MoveStake(u, p, o, delta) ==
  /\ totals' = [totals EXCEPT ![p][o] = @ + delta]
  /\ sides' = [sides EXCEPT ![p][Side(o)] = @ + delta]
  /\ stake' = [stake EXCEPT ![p][u][o] = @ + delta]
  /\ totalBet' = [totalBet EXCEPT ![p][u] = @ + delta]

(* mutant: the first bet of the pool, not of the bettor *)
FirstInPool(u, p) == participants[p] = 0
FirstBet(u, p) == totalBet[p][u] = 0

(***************************************************************************)
(* place_bet: all checks, then the transfer in, the fee out, the books,    *)
(* the limits, and the cooling lock when the bet crosses the threshold.    *)
(* The last two guards are bounds of the model.                            *)
(***************************************************************************)
PlaceBet(u, p, o, amount) ==
  LET net == amount - Bps(amount, PlaceFeeBps)
      before == PoolTotal(p)
      after == before + amount
      first == FirstBet(u, p)
      cools == /\ LargePoolThreshold > 0 /\ CoolingPeriod > 0
               /\ before < LargePoolThreshold /\ after >= LargePoolThreshold
  IN  /\ ~paused
      /\ amount >= MinBetAmount
      /\ AcceptsBets(p)
      /\ u # pool[p].creator
      /\ RateLimitOk(u, now)
      /\ WithinPoolLimits(amount)
      /\ ExposureOk(u, p, amount, sides[p].a + sides[p].b, now)
      /\ MaxPoolSize > 0 => after <= MaxPoolSize
      /\ first => participants[p] < MaxParticipants
      /\ exposure[p][u] + net <= ExposureBound
      /\ balance' = balance + net
      /\ escrow' = [escrow EXCEPT ![p] = @ + net]
      /\ MoveStake(u, p, o, net)
      /\ volume' = [volume EXCEPT ![p] = @ + net]
      /\ hasBet' = [hasBet EXCEPT ![p] = @ \cup {u}]
      /\ bettors' = [bettors EXCEPT ![p] = IF first THEN @ \cup {u} ELSE @]
      /\ participants' = [participants EXCEPT ![p] = IF first THEN @ + 1 ELSE @]
      /\ RecordBet(u, p, amount, net, now)
      /\ status' = [status EXCEPT ![p] = IF cools THEN "Frozen" ELSE "Open"]
      /\ coolingUntil' = [coolingUntil EXCEPT ![p] =
                            IF cools THEN now + CoolingPeriod
                            ELSE IF Thawed(p) THEN Never ELSE @]
      /\ UNCHANGED <<now, configVars, pool, winner, settledAt, settleFee, lockedFee,
                     fresh, payout, credited, treasury, withdrawn>>

(* mutant: the amount is checked against the bettor's whole stake *)
MayCancelAny(u, p, o, amount) == amount > 0 /\ amount <= totalBet[p][u]

(* What remains on the outcome is nothing or a bet the pool would take.    *)
MayCancel(u, p, o, amount) ==
  /\ amount > 0 /\ amount <= stake[p][u][o]
  /\ stake[p][u][o] > amount => WithinPoolLimits(stake[p][u][o] - amount)

(***************************************************************************)
(* cancel_bet takes stake back out of the books; the participant count,    *)
(* the list of bettors, the volume and the exposure stay.                  *)
(***************************************************************************)
CancelBet(u, p, o, amount) ==
  /\ ~paused
  /\ status[p] = "Open"
  /\ now < pool[p].expiry
  /\ u \in hasBet[p]
  /\ MayCancel(u, p, o, amount)
  /\ amount <= balance
  /\ balance' = balance - amount
  /\ escrow' = [escrow EXCEPT ![p] = @ - amount]
  /\ MoveStake(u, p, o, -amount)
  /\ UNCHANGED <<now, configVars, lifeVars, volume, hasBet, bettors, participants,
                 payout, credited, treasury, withdrawn,
                 limitVars>>

-----------------------------------------------------------------------------
(* Settlement and the ways a pool ends without one.                        *)

MaySettle(caller, p) ==
  caller \in {Admin, pool[p].creator, pool[p].settler}

Settleable(caller, p) ==
  /\ ~paused
  /\ status[p] = "Open"
  /\ MaySettle(caller, p)
  /\ now >= pool[p].expiry
  /\ participants[p] >= minParticipants

(***************************************************************************)
(* settle_single_pool.  The fee is locked for the pool only while a tier   *)
(* table is configured; otherwise claims use the fee of their own time.    *)
(***************************************************************************)
SettlePool(caller, p, o) ==
  LET fee == FeeForVolume(PoolTotal(p))
  IN  /\ Settleable(caller, p)
      /\ status' = [status EXCEPT ![p] = "Settled"]
      /\ winner' = [winner EXCEPT ![p] = o]
      /\ settledAt' = [settledAt EXCEPT ![p] = now]
      /\ settleFee' = [settleFee EXCEPT ![p] = Bps(PoolTotal(p), fee)]
      /\ lockedFee' = [lockedFee EXCEPT ![p] = IF feeTiers = <<>> THEN @ ELSE fee]
      /\ fresh' = [fresh EXCEPT ![p] = (escrow[p] = PoolTotal(p))]
      /\ UNCHANGED <<now, configVars, pool, coolingUntil, bookVars, moneyVars, limitVars>>

VoidPool(caller, p) ==
  /\ ~paused
  /\ status[p] = "Open"
  /\ caller = pool[p].creator
  /\ ChangeStatus(p, "Voided") /\ UNCHANGED coolingUntil

(* mutant: the record of the whole stake survives *)
RemoveOutcomeBets(p, who) ==
  /\ stake' = [stake EXCEPT ![p] =
                 [u \in Accounts |-> IF u \in who THEN [o \in Outcomes |-> 0] ELSE @[u]]]
  /\ UNCHANGED <<totals, sides, volume, bettors, participants, totalBet, hasBet>>

(* Deleting the stored bets of the accounts in who.                        *)
RemoveBets(p, who) ==
  /\ stake' = [stake EXCEPT ![p] =
                 [u \in Accounts |-> IF u \in who THEN [o \in Outcomes |-> 0] ELSE @[u]]]
  /\ totalBet' = [totalBet EXCEPT ![p] =
                    [u \in Accounts |-> IF u \in who THEN 0 ELSE @[u]]]
  /\ hasBet' = [hasBet EXCEPT ![p] = @ \ who]
  /\ UNCHANGED <<totals, sides, volume, bettors, participants>>

PayOut(p, amount) ==
  /\ amount <= balance
  /\ balance' = balance - amount
  /\ escrow' = [escrow EXCEPT ![p] = @ - amount]
  /\ UNCHANGED <<payout, credited, treasury, withdrawn>>

(* The loop over PoolBettors: everyone with a stored bet is paid back.     *)
Refunded(p) == bettors[p] \cap hasBet[p]

RefundCut(p) == [u \in Accounts |-> IF u \in Refunded(p) THEN totalBet[p][u] ELSE 0]
RefundAll(p) ==
  /\ PayOut(p, SumBelow(RefundCut(p), NumAccounts))
  /\ RemoveBets(p, Refunded(p))

(* mutant: a settled pool can be cancelled too *)
NotRefunded == Statuses \ {"None", "Voided", "Cancelled"}
Cancellable == Statuses \ {"None", "Settled", "Voided", "Cancelled"}

CancelPool(caller, p) ==
  /\ ~paused
  /\ status[p] \in Cancellable
  /\ \/ caller = Admin
     \/ status[p] = "Open" /\ (caller = pool[p].creator \/ now > pool[p].expiry)
  /\ RefundAll(p)
  /\ status' = [status EXCEPT ![p] = "Cancelled"]
  /\ UNCHANGED <<now, configVars, pool, winner, coolingUntil, settledAt, settleFee,
                 lockedFee, fresh, limitVars>>

(* refund_expired_pool also takes the refunds out of the exposure.         *)
RefundExpiredPool(p) ==
  /\ ~paused
  /\ status[p] = "Open"
  /\ now >= pool[p].expiry + GracePeriod
  /\ RefundAll(p)
  /\ ReduceExposure(p, RefundCut(p))
  /\ status' = [status EXCEPT ![p] = "Cancelled"]
  /\ UNCHANGED <<now, configVars, pool, winner, coolingUntil, settledAt, settleFee,
                 lockedFee, fresh>>

-----------------------------------------------------------------------------
(* Claims.                                                                 *)

Cut(u, amount) == [v \in Accounts |-> IF v = u THEN amount ELSE 0]

RefundOne(p, u) ==
  /\ u \in hasBet[p]
  /\ totalBet[p][u] > 0
  /\ PayOut(p, totalBet[p][u])
  /\ RemoveBets(p, {u})
  /\ ReduceExposure(p, Cut(u, totalBet[p][u]))
  /\ UNCHANGED <<now, configVars, lifeVars>>

(* mutant: only cancelled pools refund *)
ClaimCancelled(u, p) ==
  /\ ~paused
  /\ status[p] = "Cancelled"
  /\ RefundOne(p, u)

ClaimRefund(u, p) ==
  /\ ~paused
  /\ status[p] \in {"Voided", "Cancelled"}
  /\ RefundOne(p, u)

(* claim_expired leaves the outcome totals and the status as they are.     *)
ClaimExpired(u, p) ==
  /\ ~paused
  /\ status[p] = "Open"
  /\ now > pool[p].expiry
  /\ RefundOne(p, u)

(* mutant: the claim being made is not counted *)
DustAfterLast(p, u) ==
  IF payout[p].claimed = WinningTotal(p)
  THEN NetPool(p) - (payout[p].paidOut + Winnings(p, u))
  ELSE 0

(***************************************************************************)
(* claim_winnings_internal: the first claim credits the fee, the claim     *)
(* that completes the winning side credits what rounding left over.  The   *)
(* treasury moves only when the sum of both is positive.                   *)
(***************************************************************************)
Dust(p, u) ==
  IF payout[p].claimed + WinningStake(p, u) = WinningTotal(p)
  THEN NetPool(p) - (payout[p].paidOut + Winnings(p, u))
  ELSE 0

(* mutant: every claim credits the fee *)
FeePerClaim(p, u) == Fee(p) + Dust(p, u)

TreasuryDelta(p, u) ==
  LET delta == (IF payout[p].feeCredited THEN 0 ELSE Fee(p)) + Dust(p, u)
  IN  IF delta > 0 THEN delta ELSE 0

Claimable(u, p) ==
  /\ ~paused
  /\ status[p] = "Settled"
  /\ u \in hasBet[p]
  /\ WinningStake(p, u) > 0

ClaimWinnings(u, p) ==
  /\ Claimable(u, p)
  /\ Winnings(p, u) <= balance
  /\ payout' = [payout EXCEPT ![p] =
                  [feeCredited |-> TRUE, claimed |-> @.claimed + WinningStake(p, u),
                   paidOut |-> @.paidOut + Winnings(p, u)]]
  /\ credited' = [credited EXCEPT ![p] = @ + TreasuryDelta(p, u)]
  /\ treasury' = treasury + TreasuryDelta(p, u)
  /\ balance' = balance - Winnings(p, u)
  /\ escrow' = [escrow EXCEPT ![p] = @ - Winnings(p, u) - TreasuryDelta(p, u)]
  /\ RemoveBets(p, {u})
  /\ ReduceExposure(p, Cut(u, WinningStake(p, u)))
  /\ UNCHANGED <<now, configVars, lifeVars, withdrawn>>

(* record_treasury_withdrawal_rate_limit, off when either setting is 0.    *)
WithdrawalLimited == MaxWithdrawal > 0 /\ WithdrawalWindow > 0

(* mutant: whatever the contract holds *)
HeldByContract(amount) == amount > 0 /\ amount <= balance
Withdrawable(amount) == amount > 0 /\ amount <= treasury /\ amount <= balance

WithdrawTreasury(caller, amount) ==
  /\ caller = TreasuryRecipient
  /\ Withdrawable(amount)
  /\ IF WithdrawalLimited
     THEN /\ withdrawn' = Add(Window(withdrawn, now, WithdrawalWindow), amount)
          /\ withdrawn'.used <= MaxWithdrawal
     ELSE UNCHANGED withdrawn
  /\ treasury' = treasury - amount
  /\ balance' = balance - amount
  /\ UNCHANGED <<now, configVars, lifeVars, bookVars, payout, credited, escrow, limitVars>>

-----------------------------------------------------------------------------
(* Freeze, dispute and cooling.                                            *)

FreezePool(caller, p) ==
  /\ caller = FreezeAdmin
  /\ Exists(p) /\ status[p] # "Frozen"
  /\ ChangeStatus(p, "Frozen") /\ UNCHANGED coolingUntil

DisputePool(caller, p) ==
  /\ caller = FreezeAdmin
  /\ status[p] = "Settled"
  /\ settledAt[p] > 0 => now <= settledAt[p] + DisputeWindow
  /\ ChangeStatus(p, "Disputed") /\ UNCHANGED coolingUntil

ForgetCooling(p) == coolingUntil' = [coolingUntil EXCEPT ![p] = Never]

UnfreezePool(caller, p) ==
  /\ caller = FreezeAdmin
  /\ status[p] \in {"Frozen", "Disputed"}
  /\ ChangeStatus(p, "Open") /\ ForgetCooling(p)

OverridePoolCooling(caller, p) ==
  /\ caller = TreasuryRecipient
  /\ Exists(p)
  /\ ChangeStatus(p, IF status[p] = "Frozen" THEN "Open" ELSE status[p])
  /\ ForgetCooling(p)

-----------------------------------------------------------------------------
NewPool == [creator |-> NoAccount, created |-> 0, expiry |-> 0, deadline |-> 0,
            settler |-> NoAccount]
NoPayout == [feeCredited |-> FALSE, claimed |-> 0, paidOut |-> 0]

(* initialize: no pools, the default fee, nothing paused.                  *)
Init ==
  /\ now = 0
  /\ paused = FALSE
  /\ protocolFee \in FeeChoices
  /\ feeTiers = InitialTiers
  /\ minParticipants \in MinParticipantChoices
  /\ pool = [p \in Pools |-> NewPool]
  /\ status = [p \in Pools |-> "None"]
  /\ winner = [p \in Pools |-> NoOutcome]
  /\ coolingUntil = [p \in Pools |-> Never]
  /\ totals = [p \in Pools |-> [o \in Outcomes |-> 0]]
  /\ sides = [p \in Pools |-> [s \in {"a", "b"} |-> 0]]
  /\ volume = [p \in Pools |-> 0]
  /\ stake = [p \in Pools |-> [u \in Accounts |-> [o \in Outcomes |-> 0]]]
  /\ totalBet = [p \in Pools |-> [u \in Accounts |-> 0]]
  /\ hasBet = [p \in Pools |-> {}]
  /\ bettors = [p \in Pools |-> {}]
  /\ participants = [p \in Pools |-> 0]
  /\ lockedFee = [p \in Pools |-> NoFee]
  /\ settledAt = [p \in Pools |-> Never]
  /\ settleFee = [p \in Pools |-> NoFee]
  /\ payout = [p \in Pools |-> NoPayout]
  /\ credited = [p \in Pools |-> 0]
  /\ treasury = 0
  /\ withdrawn = NoWindow
  /\ balance = 0
  /\ escrow = [p \in Pools |-> 0]
  /\ fresh = [p \in Pools |-> FALSE]
  /\ LimitsInit

BettorStep(u, p) ==
  \/ \E o \in Outcomes, amount \in CancelAmounts : CancelBet(u, p, o, amount)
  \/ ClaimRefund(u, p)
  \/ ClaimExpired(u, p)
  \/ ClaimWinnings(u, p)

OperatorStep(caller, p) ==
  \/ \E seconds \in Extensions : ExtendPoolDuration(caller, p, seconds)
  \/ \E settler \in Settlers : AssignSettler(caller, p, settler)
  \/ \E o \in Outcomes : SettlePool(caller, p, o)
  \/ VoidPool(caller, p)
  \/ CancelPool(caller, p)
  \/ CancelScheduledPool(caller, p)
  \/ FreezePool(caller, p)
  \/ DisputePool(caller, p)
  \/ UnfreezePool(caller, p)
  \/ OverridePoolCooling(caller, p)

KeeperStep(p) == ActivateScheduledPool(p) \/ RefundExpiredPool(p)

CreatorStep(c) ==
  \/ \E d \in Durations, dd \in DepositDeadlines \cup {NoDeadline} : CreatePool(c, d, dd)
  \/ \E d \in Durations, t \in OpenTimes : SchedulePool(c, d, t)

ConfigStep(caller) ==
  \/ \E flag \in PauseChoices : SetPaused(caller, flag)
  \/ \E fee \in FeeChoices : SetProtocolFee(caller, fee)
  \/ \E ts \in TierChoices : SetVolumeFeeTiers(caller, ts)
  \/ \E n \in MinParticipantChoices : SetMinSettlementParticipants(caller, n)
  \/ \E amount \in 1 .. balance : WithdrawTreasury(caller, amount)

Bet ==
  \E u \in Accounts, p \in Pools, o \in Outcomes, amount \in BetAmounts :
    PlaceBet(u, p, o, amount)

OtherStep ==
  \/ Tick
  \/ \E c \in Creators : CreatorStep(c)
  \/ \E c \in Accounts : ConfigStep(c)
  \/ \E c \in Accounts, p \in Pools : BettorStep(c, p) \/ OperatorStep(c, p)
  \/ \E p \in Pools : KeeperStep(p)

Next == Bet \/ OtherStep

Spec == Init /\ [][Next]_vars

(***************************************************************************)
(* Time passes, and every bettor keeps asking for what the contract owes:  *)
(* winnings of a settled pool, the stake of an expired one.  Nothing is    *)
(* assumed of the creator, the settlers or the administrators.             *)
(***************************************************************************)
Fairness ==
  /\ WF_vars(Tick)
  /\ \A u \in Accounts, p \in Pools : /\ WF_vars(ClaimWinnings(u, p))
                                      /\ WF_vars(ClaimExpired(u, p))
                                      /\ WF_vars(ClaimRefund(u, p))

FairSpec == Spec /\ Fairness

-----------------------------------------------------------------------------
(* Type correctness.                                                       *)

PoolRecords == [creator : Int, created : Nat, expiry : Nat, deadline : Nat, settler : Int]
PayoutRecords == [feeCredited : BOOLEAN, claimed : Nat, paidOut : Int]

ConfigTypeOK ==
  /\ paused \in BOOLEAN /\ protocolFee \in 0 .. BpsDenom
  /\ ValidTiers(feeTiers) /\ minParticipants \in Nat

LifeTypeOK ==
  /\ pool \in [Pools -> PoolRecords]
  /\ status \in [Pools -> Statuses]
  /\ winner \in [Pools -> Outcomes \cup {NoOutcome}]
  /\ coolingUntil \in [Pools -> Int] /\ settledAt \in [Pools -> Int]
  /\ lockedFee \in [Pools -> Int] /\ settleFee \in [Pools -> Int]
  /\ fresh \in [Pools -> BOOLEAN]

BookTypeOK ==
  /\ totals \in [Pools -> [Outcomes -> Nat]]
  /\ sides \in [Pools -> [{"a", "b"} -> Nat]]
  /\ volume \in [Pools -> Nat]
  /\ stake \in [Pools -> [Accounts -> [Outcomes -> Nat]]]
  /\ totalBet \in [Pools -> [Accounts -> Nat]]
  /\ hasBet \in [Pools -> SUBSET Accounts]
  /\ bettors \in [Pools -> SUBSET Accounts]
  /\ participants \in [Pools -> Nat]

MoneyTypeOK ==
  /\ payout \in [Pools -> PayoutRecords]
  /\ credited \in [Pools -> Nat] /\ treasury \in Nat /\ withdrawn \in Windows
  /\ balance \in Nat /\ escrow \in [Pools -> Int]

TypeOK ==
  /\ now \in Nat
  /\ ConfigTypeOK /\ LifeTypeOK /\ BookTypeOK /\ MoneyTypeOK /\ LimitsTypeOK

-----------------------------------------------------------------------------
(* Safety that holds whatever the administrators do.                       *)

StakedOn(p, o) == SumBelow([u \in Accounts |-> stake[p][u][o]], NumAccounts)

(***************************************************************************)
(* The live stakes on an outcome never exceed its stored total, whatever   *)
(* mix of bets, cancellations, claims and refunds led here: cancel_bet's   *)
(* subtractions cannot fail and no winner's share exceeds the whole.       *)
(***************************************************************************)
StakesWithinTotals ==
  \A p \in Pools, o \in Outcomes : StakedOn(p, o) <= totals[p][o]

(***************************************************************************)
(* The two sets of books agree: total_bet is the sum of the per-outcome    *)
(* bets, total_a is outcome 0, total_b is every other outcome, and a stake *)
(* without a stored bet record does not exist.                             *)
(***************************************************************************)
BooksAgree ==
  \A p \in Pools :
    /\ sides[p].a = totals[p][0]
    /\ sides[p].a + sides[p].b = PoolTotal(p)
    /\ \A u \in Accounts : /\ totalBet[p][u] = SumBelow(stake[p][u], NumOutcomes)
                           /\ totalBet[p][u] > 0 => u \in hasBet[p]

(***************************************************************************)
(* Everyone with money in a pool is on PoolBettors, so the refund loops of *)
(* cancel_pool and refund_expired_pool miss nobody.                        *)
(***************************************************************************)
RefundListComplete ==
  \A p \in Pools, u \in Accounts : totalBet[p][u] > 0 => u \in bettors[p]

(***************************************************************************)
(* The recorded exposure of a wallet is never below its live stake, so the *)
(* exposure limit is never applied to too small a figure.                  *)
(***************************************************************************)
ExposureCoversStake ==
  \A p \in Pools, u \in Accounts : totalBet[p][u] <= exposure[p][u]

(***************************************************************************)
(* The four above: the several records the contract keeps of one bet stay  *)
(* consistent through every mix of calls.                                  *)
(***************************************************************************)
BooksConsistent ==
  StakesWithinTotals /\ BooksAgree /\ RefundListComplete /\ ExposureCoversStake

(***************************************************************************)
(* Once a pool's betting period is over no call changes an outcome total:  *)
(* the shares of the winners are fixed from then on.                       *)
(***************************************************************************)
TotalsFixedAfterExpiry ==
  [][\A p \in Pools : Exists(p) /\ now >= pool[p].expiry => totals'[p] = totals[p]]_vars

(***************************************************************************)
(* Without a freeze administrator settled, voided and cancelled pools are  *)
(* final, and the winning outcome is declared once: no order of expiries,  *)
(* keeper calls and refunds reopens a pool.                                *)
(***************************************************************************)
TerminalStatesFinal ==
  [][FreezeAdmin = NoAccount =>
       \A p \in Pools : status[p] \in {"Settled", "Voided", "Cancelled"}
                          => status'[p] = status[p] /\ winner'[p] = winner[p]]_vars

-----------------------------------------------------------------------------
(* Safety of the money, for pools whose payouts nothing has interfered     *)
(* with: the pool held exactly its totals when it was settled (fresh), and *)
(* its fee cannot move between two claims (FeeFixed).                      *)

FeeFixed(p) == lockedFee[p] # NoFee \/ Cardinality(FeeChoices) = 1

Regular(p) == status[p] = "Settled" /\ fresh[p] /\ FeeFixed(p)

Owed(p) ==
  SumBelow([u \in Accounts |-> IF WinningTotal(p) > 0 THEN Winnings(p, u) ELSE 0],
           NumAccounts)

(***************************************************************************)
(* The pool's own money covers the fee not yet credited and every winner   *)
(* still to claim, in whatever order they come: no claim of a regular pool *)
(* is paid out of another pool or fails for lack of funds.                 *)
(***************************************************************************)
SettledPoolFunded ==
  \A p \in Pools : Regular(p) =>
    Owed(p) + (IF payout[p].feeCredited THEN 0 ELSE Fee(p)) <= escrow[p]

FullyClaimed(p) == WinningTotal(p) > 0 /\ payout[p].claimed = WinningTotal(p)

(***************************************************************************)
(* After the last winner the pool has split its total exactly into payouts *)
(* and treasury credit, nothing of it is left, and the credit beyond the   *)
(* fee is rounding: less than one unit per winner.                         *)
(***************************************************************************)
PayoutsReconcile ==
  \A p \in Pools : Regular(p) /\ FullyClaimed(p) =>
    /\ credited[p] + payout[p].paidOut = PoolTotal(p)
    /\ escrow[p] = 0
    /\ credited[p] - Fee(p) \in 0 .. Cardinality(bettors[p]) - 1

(***************************************************************************)
(* Until the first winner is paid a pool's money is exactly its live       *)
(* stakes, through any order of bets, cancellations, single refunds,       *)
(* refund loops, settlements, disputes and re-settlements: no stake is     *)
(* paid twice and none is stranded.                                        *)
(***************************************************************************)
Refundable(p) == SumBelow(totalBet[p], NumAccounts)

UnclaimedPoolFunded ==
  \A p \in Pools : ~payout[p].feeCredited => escrow[p] = Refundable(p)

(***************************************************************************)
(* Both: before the first claim a pool's money is its stakes, after it the *)
(* money covers every winner of a regular pool still to claim.             *)
(***************************************************************************)
PoolsFunded == UnclaimedPoolFunded /\ SettledPoolFunded

(***************************************************************************)
(* When every settled pool is regular and no other pool has paid winners,  *)
(* the contract's one token balance covers the treasury and what all its   *)
(* pools owe at the same time: the treasury can be withdrawn to the last   *)
(* unit without touching a stake.                                          *)
(***************************************************************************)
Liability(p) ==
  IF Regular(p) THEN Owed(p) + (IF payout[p].feeCredited THEN 0 ELSE Fee(p))
  ELSE Refundable(p)

Solvent ==
  (\A p \in Pools : Regular(p) \/ (status[p] # "Settled" /\ ~payout[p].feeCredited)) =>
    balance >= treasury + SumBelow([i \in 0 .. NumPools - 1 |-> Liability(i + 1)], NumPools)

(***************************************************************************)
(* While the fee cannot move, a first settlement records the fee that the  *)
(* claims are computed with, and no later call makes the two differ,       *)
(* whichever tier table is in force when the winners come.  (A pool that   *)
(* is settled again after a dispute keeps the fee of its first settlement.)*)
(***************************************************************************)
FeeRecorded(p) == Fee(p) = settleFee[p]

ChargedFeeIsRecorded ==
  [][\A p \in Pools :
       /\ status'[p] = "Settled" /\ FeeFixed(p)'
       /\ IF status[p] = "Settled" THEN FeeRecorded(p) ELSE lockedFee[p] = NoFee
       => FeeRecorded(p)']_vars

-----------------------------------------------------------------------------
(* The market as the keeper of its bettors' money.                         *)

(* A pool is outside of the promise while it is settled without being      *)
(* regular, or not settled any more after winners were paid.               *)
Phase(p) ==
  CASE status[p] = "Settled" /\ ~Regular(p) -> "outside"
    [] status[p] = "Settled" /\ Regular(p) ->
         IF payout[p].feeCredited THEN "sharing" ELSE "settled"
    [] status[p] # "Settled" -> IF payout[p].feeCredited THEN "outside" ELSE "open"

Promised(p) ==
  CASE Phase(p) = "outside" -> [u \in Accounts |-> 0]
    [] Phase(p) = "open" -> totalBet[p]
    [] Phase(p) \in {"settled", "sharing"} ->
         [u \in Accounts |-> IF WinningTotal(p) > 0 THEN Winnings(p, u) ELSE 0]

Phases == [p \in Pools |-> Phase(p)]
Promises == [p \in Pools |-> Promised(p)]

Funds == INSTANCE PoolFunds WITH
  fund <- escrow, due <- Promises, phase <- Phases, revenue <- treasury, held <- balance

(***************************************************************************)
(* The market keeps that promise: its fees, tiers, clocks and switches are *)
(* invisible to a bettor, who is due a stake, then a share that no other   *)
(* claim changes, and is paid exactly that; and whatever operators do to   *)
(* one pool, no other pool's money or dues move.                           *)
(***************************************************************************)
KeepsFunds == Funds!Spec

-----------------------------------------------------------------------------
(* Progress.                                                               *)

AllRegular == \A p \in Pools : status[p] = "Settled" => Regular(p)

(***************************************************************************)
(* While every settled pool is regular, every winner who keeps claiming is *)
(* paid: no order of claims, bets in other pools and treasury withdrawals  *)
(* leaves the balance short of it.                                         *)
(***************************************************************************)
WinnersPaid ==
  []AllRegular =>
    \A p \in Pools, u \in Accounts :
      (status[p] = "Settled" /\ u \in hasBet[p] /\ WinningStake(p, u) > 0)
        ~> u \notin hasBet[p]

(***************************************************************************)
(* No stake outlives its pool: whatever the creator does or fails to do, a *)
(* bettor who keeps asking has the stake back or the pool was settled.     *)
(***************************************************************************)
StakesReturned ==
  []AllRegular =>
    \A p \in Pools, u \in Accounts :
      (totalBet[p][u] > 0) ~> (totalBet[p][u] = 0 \/ status[p] = "Settled")

=============================================================================
