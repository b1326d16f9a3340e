---------------------------- MODULE LiquidityPool ----------------------------
(***************************************************************************)
(* The liquidity providers of one pool (contracts/predinex/src/lib.rs,     *)
(* from deposit_liquidity on): shares, the reward accumulator with its     *)
(* rounding remainder, and time-locked stakes.  The state of a pool's      *)
(* providers is keyed by the pool id and read by no other call, so one     *)
(* pool stands for all.  A failed call changes nothing and is no step.     *)
(***************************************************************************)
EXTENDS Sums

CONSTANTS
  NumProviders,
  Precision,        \* LP_PRECISION
  BpsDenom,         \* 10_000
  MinLock,          \* MIN_POOL_DURATION_SECS
  DepositAmounts, RewardAmounts, LockPeriods,
  BoostChoices,     \* values set_lp_stake_boost is called with
  PauseChoices,     \* flags set_paused is called with
  MaxTime,          \* bound: the clock stops here
  MaxLiquidity,     \* bound: no deposit beyond this total
  MaxDistributed    \* bound: rewards ever distributed

Providers == 0 .. NumProviders - 1

ASSUME LiquidityAssumption ==
  /\ NumProviders \in Nat \ {0} /\ Precision \in Nat \ {0} /\ BpsDenom \in Nat \ {0}
  /\ {MinLock, MaxTime, MaxLiquidity, MaxDistributed} \subseteq Nat
  /\ DepositAmounts \subseteq Nat \ {0} /\ RewardAmounts \subseteq Nat \ {0}
  /\ LockPeriods \subseteq Nat /\ PauseChoices \subseteq BOOLEAN
  /\ BoostChoices \subseteq {b \in Nat : BpsDenom <= b /\ b <= 5 * BpsDenom}

VARIABLES
  now, paused,
  shares, debt,     \* LpPosition; no shares when it is absent
  staked, lockUntil,  \* LpStakeInfo; nothing staked when it is absent
  totalShares, totalLiquidity,
  feePerShare,      \* LpFeePerShare, scaled by Precision
  rewardPool,
  remainder,        \* LpRewardDust, scaled by Precision
  boost,            \* LpStakeBoostBps
  principal,        \* history: deposits of a provider minus withdrawals
  distributed,      \* history: rewards ever distributed
  accrued,          \* history: scaled rewards distributed on a provider's shares
  unsettled         \* history: the part of accrued since debt was last set

positionVars == <<shares, debt, totalShares, totalLiquidity>>
stakeVars == <<staked, lockUntil>>
rewardVars == <<feePerShare, rewardPool, remainder, distributed, accrued>>
vars == <<now, paused, boost, positionVars, stakeVars, rewardVars, principal, unsettled>>

-----------------------------------------------------------------------------
MinOf(a, b) == IF a < b THEN a ELSE b
MaxOf(a, b) == IF a < b THEN b ELSE a

Earned(s) == (s * feePerShare) \div Precision

PendingReward(u) == Earned(shares[u]) - debt[u]

(* mutant: shares are minted for the deposit before it is counted in       *)
MintedAfter(amount) ==
  IF totalShares = 0 \/ totalLiquidity = 0 THEN amount
  ELSE (amount * totalShares) \div (totalLiquidity + amount)

Minted(amount) ==
  IF totalShares = 0 \/ totalLiquidity = 0 THEN amount
  ELSE (amount * totalShares) \div totalLiquidity

(* mutant: the debt is that of the position before the change              *)
SetSharesOnly(u, s) ==
  /\ shares' = [shares EXCEPT ![u] = s]
  /\ debt' = [debt EXCEPT ![u] = Earned(shares[u])]
  /\ unsettled' = [unsettled EXCEPT ![u] = 0]

(* A changed position starts with nothing pending.                         *)
SetPosition(u, s) ==
  /\ shares' = [shares EXCEPT ![u] = s]
  /\ debt' = [debt EXCEPT ![u] = Earned(s)]
  /\ unsettled' = [unsettled EXCEPT ![u] = 0]

(***************************************************************************)
(* deposit_liquidity sets the reward debt for the whole position: rewards  *)
(* pending before the deposit are given up.                                *)
(***************************************************************************)
DepositLiquidity(u, amount) ==
  /\ ~paused
  /\ totalLiquidity + amount <= MaxLiquidity
  /\ Minted(amount) > 0
  /\ SetPosition(u, shares[u] + Minted(amount))
  /\ totalShares' = totalShares + Minted(amount)
  /\ totalLiquidity' = totalLiquidity + amount
  /\ principal' = [principal EXCEPT ![u] = @ + amount]
  /\ UNCHANGED <<now, paused, boost, stakeVars, rewardVars>>

Free(u) == shares[u] - staked[u]

Redeemed(s) == (s * totalLiquidity) \div totalShares

(* mutant: paid in full, whatever the reward pool holds                    *)
PaidInFull(pending) == IF pending > 0 THEN pending ELSE 0

(* What is pending is paid out of the reward pool as far as it goes.       *)
Paid(pending) == IF pending > 0 THEN MinOf(pending, rewardPool) ELSE 0

WithdrawLiquidity(u, s) ==
  /\ ~paused
  /\ s > 0 /\ s <= shares[u] /\ s <= Free(u)
  /\ Redeemed(s) > 0
  /\ SetPosition(u, shares[u] - s)
  /\ rewardPool' = rewardPool - Paid(PendingReward(u))
  /\ totalShares' = totalShares - s
  /\ totalLiquidity' = totalLiquidity - Redeemed(s)
  /\ principal' = [principal EXCEPT ![u] = @ - Redeemed(s)]
  /\ UNCHANGED <<now, paused, boost, stakeVars, feePerShare, remainder, distributed, accrued>>

(* The share of the pending rewards that falls on locked shares, boosted.  *)
Boosted(u) ==
  LET pending == PendingReward(u)
      fraction == (staked[u] * BpsDenom) \div shares[u]
      portion == (pending * fraction) \div BpsDenom
  IN  IF staked[u] > 0 /\ now < lockUntil[u]
      THEN pending - portion + (portion * boost) \div BpsDenom
      ELSE pending

ClaimLpRewards(u) ==
  /\ ~paused
  /\ shares[u] > 0
  /\ Paid(Boosted(u)) > 0
  /\ rewardPool' = rewardPool - Paid(Boosted(u))
  /\ SetPosition(u, shares[u])
  /\ UNCHANGED <<now, paused, boost, totalShares, totalLiquidity, stakeVars, feePerShare,
                 remainder, distributed, accrued, principal>>

(* mutant: a new stake sets the lock anew                                  *)
RelockedUntil(u, period) == now + period
LockedUntil(u, period) == MaxOf(now + period, lockUntil[u])

StakeLp(u, s, period) ==
  /\ ~paused
  /\ s > 0 /\ s <= Free(u)
  /\ period >= MinLock
  /\ staked' = [staked EXCEPT ![u] = @ + s]
  /\ lockUntil' = [lockUntil EXCEPT ![u] = LockedUntil(u, period)]
  /\ UNCHANGED <<now, paused, boost, positionVars, rewardVars, principal, unsettled>>

UnstakeLp(u) ==
  /\ staked[u] > 0
  /\ now >= lockUntil[u]
  /\ staked' = [staked EXCEPT ![u] = 0]
  /\ lockUntil' = [lockUntil EXCEPT ![u] = 0]
  /\ UNCHANGED <<now, paused, boost, positionVars, rewardVars, principal, unsettled>>

(* mutant: the remainder of the last distribution is left out              *)
ScaledWithoutRemainder(amount) == amount * Precision
Scaled(amount) == amount * Precision + remainder

(* distribute_lp_rewards: only the treasury recipient, who pays them in.   *)
DistributeLpRewards(amount) ==
  LET delta == Scaled(amount) \div totalShares
  IN  /\ totalShares > 0
      /\ distributed + amount <= MaxDistributed
      /\ feePerShare' = feePerShare + delta
      /\ remainder' = Scaled(amount) % totalShares
      /\ rewardPool' = rewardPool + amount
      /\ distributed' = distributed + amount
      /\ accrued' = [u \in Providers |-> accrued[u] + shares[u] * delta]
      /\ unsettled' = [u \in Providers |-> unsettled[u] + shares[u] * delta]
      /\ UNCHANGED <<now, paused, boost, positionVars, stakeVars, principal>>

SetLpStakeBoost(b) ==
  /\ boost' = b
  /\ UNCHANGED <<now, paused, positionVars, stakeVars, rewardVars, principal, unsettled>>

SetPaused(flag) ==
  /\ paused' = flag
  /\ UNCHANGED <<now, boost, positionVars, stakeVars, rewardVars, principal, unsettled>>

Tick ==
  /\ now < MaxTime
  /\ now' = now + 1
  /\ UNCHANGED <<paused, boost, positionVars, stakeVars, rewardVars, principal, unsettled>>

-----------------------------------------------------------------------------
NoneEach == [u \in Providers |-> 0]

Init ==
  /\ now = 0 /\ paused = FALSE /\ boost = BpsDenom
  /\ shares = NoneEach /\ debt = NoneEach
  /\ staked = NoneEach /\ lockUntil = NoneEach
  /\ totalShares = 0 /\ totalLiquidity = 0
  /\ feePerShare = 0 /\ rewardPool = 0 /\ remainder = 0
  /\ principal = NoneEach /\ distributed = 0
  /\ accrued = NoneEach /\ unsettled = NoneEach

ProviderStep(u) ==
  \/ \E amount \in DepositAmounts : DepositLiquidity(u, amount)
  \/ \E s \in 1 .. shares[u] : WithdrawLiquidity(u, s)
  \/ ClaimLpRewards(u)
  \/ \E s \in 1 .. shares[u], period \in LockPeriods : StakeLp(u, s, period)
  \/ UnstakeLp(u)

Next ==
  \/ Tick
  \/ \E u \in Providers : ProviderStep(u)
  \/ \E amount \in RewardAmounts : DistributeLpRewards(amount)
  \/ \E b \in BoostChoices : SetLpStakeBoost(b)
  \/ \E flag \in PauseChoices : SetPaused(flag)

Spec == Init /\ [][Next]_vars

-----------------------------------------------------------------------------
TypeOK ==
  /\ now \in Nat /\ paused \in BOOLEAN /\ boost \in Nat
  /\ shares \in [Providers -> Nat] /\ debt \in [Providers -> Nat]
  /\ staked \in [Providers -> Nat] /\ lockUntil \in [Providers -> Nat]
  /\ totalShares \in Nat /\ totalLiquidity \in Nat
  /\ feePerShare \in Nat /\ rewardPool \in Nat /\ remainder \in Nat
  /\ principal \in [Providers -> Nat] /\ distributed \in Nat
  /\ accrued \in [Providers -> Nat] /\ unsettled \in [Providers -> Nat]

SumOf(f) == SumBelow(f, NumProviders)

(***************************************************************************)
(* A share is worth one token for ever: no sequence of deposits and        *)
(* withdrawals moves the price, so the two floor divisions never round,    *)
(* and the positions add up to the stored totals.                          *)
(***************************************************************************)
SharePriceIsOne == totalShares = totalLiquidity /\ SumOf(shares) = totalShares

(***************************************************************************)
(* Every provider can redeem the position for exactly what was paid in and *)
(* not yet taken out, whatever the others did in between.                  *)
(***************************************************************************)
PrincipalKept ==
  \A u \in Providers : shares[u] > 0 => Redeemed(shares[u]) = principal[u]

\* The two above: nobody is diluted, by whatever sequence of calls.
NobodyDiluted == SharePriceIsOne /\ PrincipalKept

(***************************************************************************)
(* Not a fraction of a reward is lost or made by the accumulator: what was *)
(* distributed is what accrued on the shares held at the time plus the     *)
(* remainder carried to the next distribution, over any joins and leaves.  *)
(***************************************************************************)
RewardsAccounted == SumOf(accrued) + remainder = Precision * distributed

(***************************************************************************)
(* What a provider may claim is what accrued since the position was last   *)
(* settled, to within one unit of rounding either way: nobody earns from   *)
(* distributions made before joining.                                      *)
(***************************************************************************)
PendingIsAccrued ==
  \A u \in Providers :
    /\ PendingReward(u) * Precision < unsettled[u] + Precision
    /\ unsettled[u] < (PendingReward(u) + 1) * Precision

(***************************************************************************)
(* A stake stays whole until its lock ends, however it was topped up: it   *)
(* does not shrink, its lock is not moved forward, and the position never  *)
(* falls below it.                                                         *)
(***************************************************************************)
LockedStakeHeld ==
  [][\A u \in Providers :
       /\ shares'[u] >= staked'[u]
       /\ staked[u] > 0 /\ now < lockUntil[u]
            => staked'[u] >= staked[u] /\ lockUntil'[u] >= lockUntil[u]]_vars

=============================================================================
