--------------------------- MODULE LiquidityProofs ---------------------------
(***************************************************************************)
(* What holds of the liquidity providers for every number of them, every   *)
(* precision and every amount: the price of a share, the principals, and   *)
(* the account of the rewards.                                             *)
(***************************************************************************)
EXTENDS LiquidityPool, SumProofs

(***************************************************************************)
(* SharePriceIsOne keeps the divisions of Minted and Redeemed exact, which *)
(* keeps principal equal to shares and the positions equal to the totals:  *)
(* neither part is inductive without the other.  Staked shares stay within *)
(* the position, so what is free to leave is never negative.               *)
(***************************************************************************)
LiquidityInv ==
  /\ TypeOK
  /\ SharePriceIsOne
  /\ \A u \in Providers : principal[u] = shares[u] /\ staked[u] <= shares[u]
  /\ RewardsAccounted

LEMMA LpSizes ==
  /\ NumProviders \in Nat /\ Precision \in Nat \ {0} /\ BpsDenom \in Nat \ {0}
  /\ DepositAmounts \subseteq Nat \ {0} /\ RewardAmounts \subseteq Nat \ {0}
  /\ LockPeriods \subseteq Nat /\ BoostChoices \subseteq Nat /\ PauseChoices \subseteq BOOLEAN
BY LiquidityAssumption

(* One changed entry changes a sum over the providers by as much.          *)
LEMMA ProviderSumMove ==
  ASSUME NEW u \in Providers, NEW delta \in Int, NEW f, NEW g,
         f \in [Providers -> Nat], g \in [Providers -> Nat],
         g[u] = f[u] + delta, \A v \in Providers : v # u => g[v] = f[v]
  PROVE  SumOf(g) = SumOf(f) + delta
<1>1. NumProviders \in Nat BY LpSizes
<1>2. SumBelow(g, NumProviders) = SumBelow(f, NumProviders) + delta
  BY <1>1, SumMove DEF Providers
<1>3. QED BY <1>2 DEF SumOf

(* In particular, moving a position moves the sum of the positions.        *)
LEMMA SharesMove ==
  ASSUME TypeOK, NEW u \in Providers, NEW delta \in Int, NEW s \in Nat,
         s = shares[u] + delta, shares' = [shares EXCEPT ![u] = s]
  PROVE  SumOf(shares)' = SumOf(shares) + delta
<1> DEFINE f == shares
           g == shares'
<1>1. f \in [Providers -> Nat] /\ g \in [Providers -> Nat] BY DEF TypeOK
<1>2. g[u] = f[u] + delta /\ \A v \in Providers : v # u => g[v] = f[v] BY DEF TypeOK
<1> HIDE DEF f, g
<1>3. SumOf(g) = SumOf(f) + delta BY <1>1, <1>2, ProviderSumMove
<1>4. QED BY <1>3 DEF SumOf, f, g

LEMMA EarnedNat == ASSUME TypeOK, NEW s \in Nat PROVE Earned(s) \in Nat
<1>1. s * feePerShare \in Nat BY DEF TypeOK
<1>2. QED BY <1>1, LpSizes, DivNat DEF Earned

(* While the price is one, both divisions are exact.                       *)
LEMMA MintedExact ==
  ASSUME LiquidityInv, NEW amount \in Nat PROVE Minted(amount) = amount
<1>1. totalShares \in Nat /\ totalLiquidity = totalShares
  BY DEF LiquidityInv, TypeOK, SharePriceIsOne
<1>2. totalShares # 0 => (amount * totalShares) \div totalShares = amount
  BY <1>1, DivExact
<1>3. QED BY <1>1, <1>2 DEF Minted

LEMMA RedeemedExact ==
  ASSUME LiquidityInv, NEW u \in Providers, NEW s \in Nat, s > 0, s <= shares[u]
  PROVE  Redeemed(s) = s /\ s <= totalShares
<1>1. totalShares \in Nat /\ totalLiquidity = totalShares /\ SumOf(shares) = totalShares
      /\ shares \in [Providers -> Nat]
  BY DEF LiquidityInv, TypeOK, SharePriceIsOne
<1>2. \A i \in 0 .. NumProviders - 1 : shares[i] \in Nat BY <1>1 DEF Providers
<1>3. shares[u] <= SumOf(shares) BY <1>2, LpSizes, SumTerm DEF SumOf, Providers
<1>4. s <= totalShares
  <2>1. shares[u] \in Nat BY <1>1
  <2>2. QED BY <1>1, <1>3, <2>1
<1>5. (s * totalShares) \div totalShares = s BY <1>1, <1>4, DivExact
<1>6. QED BY <1>1, <1>4, <1>5 DEF Redeemed

(* What is paid comes out of the reward pool.                              *)
LEMMA PaidWithin ==
  ASSUME TypeOK, NEW pending \in Int
  PROVE  Paid(pending) \in Nat /\ rewardPool - Paid(pending) \in Nat
BY DEF TypeOK, Paid, MinOf

LEMMA PendingInt ==
  ASSUME TypeOK, NEW u \in Providers PROVE PendingReward(u) \in Int
<1>1. shares[u] \in Nat /\ debt[u] \in Nat BY DEF TypeOK
<1>2. QED BY <1>1, EarnedNat DEF PendingReward

(* A changed position keeps the types of its parts.                        *)
LEMMA PositionType ==
  ASSUME TypeOK, NEW u \in Providers, NEW s \in Nat, SetPosition(u, s)
  PROVE  /\ shares' \in [Providers -> Nat] /\ debt' \in [Providers -> Nat]
         /\ unsettled' \in [Providers -> Nat]
<1>1. Earned(s) \in Nat BY EarnedNat
<1>2. QED BY <1>1 DEF SetPosition, TypeOK

-----------------------------------------------------------------------------
(* One lemma per call.                                                     *)

LEMMA DepositKeeps ==
  ASSUME LiquidityInv, NEW u \in Providers, NEW amount \in DepositAmounts,
         DepositLiquidity(u, amount)
  PROVE  LiquidityInv'
<1>1. amount \in Nat /\ amount > 0 BY LpSizes
<1>2. Minted(amount) = amount BY <1>1, MintedExact
<1>3. TypeOK BY DEF LiquidityInv
<1>4. shares[u] \in Nat BY <1>3 DEF TypeOK
<1> DEFINE s == shares[u] + amount
<1>5. s \in Nat BY <1>1, <1>4
<1>6. /\ SetPosition(u, s)
      /\ totalShares' = totalShares + amount /\ totalLiquidity' = totalLiquidity + amount
      /\ principal' = [principal EXCEPT ![u] = @ + amount]
      /\ UNCHANGED <<now, paused, boost, stakeVars, rewardVars>>
  BY <1>2 DEF DepositLiquidity
<1> HIDE DEF s
<1>7. TypeOK'
  <2>1. /\ shares' \in [Providers -> Nat] /\ debt' \in [Providers -> Nat]
        /\ unsettled' \in [Providers -> Nat]
    BY <1>3, <1>5, <1>6, PositionType
  <2>2. principal' \in [Providers -> Nat] /\ totalShares' \in Nat /\ totalLiquidity' \in Nat
    BY <1>1, <1>3, <1>6 DEF TypeOK
  <2>3. QED BY <1>3, <1>6, <2>1, <2>2 DEF TypeOK, stakeVars, rewardVars
<1>8. shares' = [shares EXCEPT ![u] = s] BY <1>6 DEF SetPosition
<1>9. SharePriceIsOne'
  <2>1. s = shares[u] + amount /\ amount \in Int BY <1>1 DEF s
  <2>2. SumOf(shares)' = SumOf(shares) + amount BY <1>3, <1>5, <1>8, <2>1, SharesMove
  <2>3. QED BY <1>6, <2>2 DEF LiquidityInv, SharePriceIsOne, SumOf
<1>10. \A v \in Providers : principal'[v] = shares'[v] /\ staked'[v] <= shares'[v]
  <2>1. s = shares[u] + amount BY DEF s
  <2>2. staked' = staked BY <1>6 DEF stakeVars
  <2>3. \A v \in Providers : /\ shares[v] \in Nat /\ staked[v] \in Nat
                             /\ principal[v] = shares[v] /\ staked[v] <= shares[v]
    BY <1>3 DEF LiquidityInv, TypeOK
  <2>4. \A v \in Providers : /\ shares'[v] = (IF v = u THEN shares[u] + amount ELSE shares[v])
                             /\ principal'[v] = (IF v = u THEN principal[u] + amount
                                                 ELSE principal[v])
    BY <1>3, <1>6, <1>8, <2>1 DEF TypeOK
  <2>5. QED BY <1>1, <2>2, <2>3, <2>4
<1>11. RewardsAccounted'
  BY <1>6 DEF LiquidityInv, RewardsAccounted, rewardVars, SumOf
<1>12. QED BY <1>7, <1>9, <1>10, <1>11 DEF LiquidityInv

LEMMA WithdrawKeeps ==
  ASSUME LiquidityInv, NEW u \in Providers, NEW s \in 1 .. shares[u], WithdrawLiquidity(u, s)
  PROVE  LiquidityInv'
<1>1. TypeOK BY DEF LiquidityInv
<1>2. shares[u] \in Nat /\ staked[u] \in Nat BY <1>1 DEF TypeOK
<1>3. s \in Nat /\ s > 0 /\ s <= shares[u] BY <1>2
<1>4. Redeemed(s) = s /\ s <= totalShares BY <1>3, RedeemedExact
<1> DEFINE left == shares[u] - s
           kept == rewardPool - Paid(PendingReward(u))
<1>5. left \in Nat BY <1>2, <1>3
<1>6. kept \in Nat BY <1>1, PendingInt, PaidWithin
<1>7. /\ SetPosition(u, left) /\ rewardPool' = kept
      /\ totalShares' = totalShares - s /\ totalLiquidity' = totalLiquidity - s
      /\ principal' = [principal EXCEPT ![u] = @ - s]
      /\ s <= shares[u] - staked[u]
      /\ UNCHANGED <<now, paused, boost, stakeVars, feePerShare, remainder, distributed, accrued>>
  BY <1>4 DEF WithdrawLiquidity, Free
<1> HIDE DEF left, kept
<1>8. left = shares[u] - s BY DEF left
<1>9. \A v \in Providers : /\ shares[v] \in Nat /\ staked[v] \in Nat /\ principal[v] \in Nat
                           /\ principal[v] = shares[v] /\ staked[v] <= shares[v]
  BY <1>1 DEF LiquidityInv, TypeOK
<1>10. /\ shares' = [shares EXCEPT ![u] = left]
       /\ \A v \in Providers : /\ shares'[v] = (IF v = u THEN left ELSE shares[v])
                               /\ principal'[v] = (IF v = u THEN principal[u] - s
                                                   ELSE principal[v])
  BY <1>1, <1>7 DEF TypeOK, SetPosition
<1>11. TypeOK'
  <2>1. /\ shares' \in [Providers -> Nat] /\ debt' \in [Providers -> Nat]
        /\ unsettled' \in [Providers -> Nat]
    BY <1>1, <1>5, <1>7, PositionType
  <2>2. principal[u] - s \in Nat BY <1>3, <1>9
  <2>3. principal' \in [Providers -> Nat] BY <1>1, <1>7, <2>2 DEF TypeOK
  <2>4. totalShares' \in Nat /\ totalLiquidity' \in Nat
    BY <1>1, <1>3, <1>4, <1>7 DEF TypeOK, LiquidityInv, SharePriceIsOne
  <2>5. QED BY <1>1, <1>6, <1>7, <2>1, <2>3, <2>4 DEF TypeOK, stakeVars
<1>12. SharePriceIsOne'
  <2>1. PICK delta : delta = 0 - s OBVIOUS
  <2>2. left = shares[u] + delta /\ delta \in Int BY <1>2, <1>3, <1>8, <2>1
  <2>3. SumOf(shares)' = SumOf(shares) + delta BY <1>1, <1>5, <1>10, <2>2, SharesMove
  <2>4. totalShares \in Nat BY <1>1 DEF TypeOK
  <2>5. QED BY <1>3, <1>7, <2>1, <2>3, <2>4 DEF LiquidityInv, SharePriceIsOne, SumOf
<1>13. \A v \in Providers : principal'[v] = shares'[v] /\ staked'[v] <= shares'[v]
  <2>1. staked' = staked BY <1>7 DEF stakeVars
  <2>2. QED BY <1>3, <1>7, <1>8, <1>9, <1>10, <2>1
<1>14. RewardsAccounted'
  BY <1>7 DEF LiquidityInv, RewardsAccounted, SumOf
<1>15. QED BY <1>11, <1>12, <1>13, <1>14 DEF LiquidityInv

(* A claim moves rewards only; the position is settled, not changed.       *)
LEMMA ClaimKeeps ==
  ASSUME LiquidityInv, NEW u \in Providers, ClaimLpRewards(u)
  PROVE  LiquidityInv'
<1>1. TypeOK BY DEF LiquidityInv
<1>2. shares[u] \in Nat /\ staked[u] \in Nat /\ shares[u] > 0 BY <1>1 DEF TypeOK, ClaimLpRewards
<1> DEFINE paid == Paid(Boosted(u))
<1>3. Boosted(u) \in Int
  <2> DEFINE fraction == (staked[u] * BpsDenom) \div shares[u]
             pending == PendingReward(u)
             portion == (pending * fraction) \div BpsDenom
             extra == (portion * boost) \div BpsDenom
  <2>1. pending \in Int BY <1>1, PendingInt
  <2>2. BpsDenom \in Nat \ {0} /\ boost \in Nat BY <1>1, LpSizes DEF TypeOK
  <2>3. staked[u] * BpsDenom \in Nat /\ shares[u] \in Nat \ {0} BY <1>2, <2>2
  <2>4. fraction \in Nat BY <2>3, DivNat
  <2> HIDE DEF fraction, pending
  <2>5. pending * fraction \in Int BY <2>1, <2>4
  <2>6. portion \in Int BY <2>2, <2>5
  <2> HIDE DEF portion
  <2>7. portion * boost \in Int BY <2>2, <2>6
  <2>8. extra \in Int BY <2>2, <2>7
  <2> HIDE DEF extra
  <2>9. Boosted(u) = IF staked[u] > 0 /\ now < lockUntil[u]
                     THEN pending - portion + extra ELSE pending
    BY DEF Boosted, fraction, pending, portion, extra
  <2>10. QED BY <2>1, <2>6, <2>8, <2>9
<1>4. rewardPool - paid \in Nat BY <1>1, <1>3, PaidWithin
<1>5. /\ SetPosition(u, shares[u]) /\ rewardPool' = rewardPool - paid
      /\ UNCHANGED <<now, paused, boost, totalShares, totalLiquidity, stakeVars, feePerShare,
                     remainder, distributed, accrued, principal>>
  BY DEF ClaimLpRewards
<1> HIDE DEF paid
<1>6. shares' = shares BY <1>1, <1>5 DEF SetPosition, TypeOK
<1>7. TypeOK'
  <2>1. /\ shares' \in [Providers -> Nat] /\ debt' \in [Providers -> Nat]
        /\ unsettled' \in [Providers -> Nat]
    BY <1>1, <1>2, <1>5, PositionType
  <2>2. QED BY <1>1, <1>4, <1>5, <2>1 DEF TypeOK, stakeVars
<1>8. SharePriceIsOne' BY <1>5, <1>6 DEF LiquidityInv, SharePriceIsOne, SumOf
<1>9. RewardsAccounted' BY <1>5 DEF LiquidityInv, RewardsAccounted, SumOf
<1>10. QED BY <1>5, <1>6, <1>7, <1>8, <1>9 DEF LiquidityInv, stakeVars

(* No more is staked than the position holds.                              *)
LEMMA StakeKeeps ==
  ASSUME LiquidityInv, NEW u \in Providers, NEW s \in 1 .. shares[u],
         NEW period \in LockPeriods, StakeLp(u, s, period)
  PROVE  LiquidityInv'
<1>1. TypeOK BY DEF LiquidityInv
<1>2. period \in Nat BY LpSizes
<1>3. \A v \in Providers : shares[v] \in Nat /\ staked[v] \in Nat /\ lockUntil[v] \in Nat
  BY <1>1 DEF TypeOK
<1>4. s \in Nat /\ s <= shares[u] - staked[u] BY <1>3 DEF StakeLp, Free
<1>5. /\ staked' = [staked EXCEPT ![u] = @ + s]
      /\ lockUntil' = [lockUntil EXCEPT ![u] = LockedUntil(u, period)]
      /\ UNCHANGED <<now, paused, boost, positionVars, rewardVars, principal, unsettled>>
  BY DEF StakeLp
<1>6. LockedUntil(u, period) \in Nat BY <1>1, <1>2, <1>3 DEF TypeOK, LockedUntil, MaxOf
<1>7. staked' \in [Providers -> Nat] /\ lockUntil' \in [Providers -> Nat]
  BY <1>1, <1>3, <1>4, <1>5, <1>6 DEF TypeOK
<1>8. TypeOK' BY <1>1, <1>5, <1>7 DEF TypeOK, positionVars, rewardVars
<1>9. SharePriceIsOne' /\ RewardsAccounted'
  BY <1>5 DEF LiquidityInv, SharePriceIsOne, RewardsAccounted, SumOf, positionVars, rewardVars
<1>10. \A v \in Providers : principal'[v] = shares'[v] /\ staked'[v] <= shares'[v]
  <2>1. \A v \in Providers : staked'[v] = (IF v = u THEN staked[u] + s ELSE staked[v])
    BY <1>1, <1>5 DEF TypeOK
  <2>2. QED BY <1>3, <1>4, <1>5, <2>1 DEF LiquidityInv, positionVars
<1>11. QED BY <1>8, <1>9, <1>10 DEF LiquidityInv

LEMMA UnstakeKeeps ==
  ASSUME LiquidityInv, NEW u \in Providers, UnstakeLp(u)
  PROVE  LiquidityInv'
<1>1. TypeOK BY DEF LiquidityInv
<1>2. /\ staked' = [staked EXCEPT ![u] = 0] /\ lockUntil' = [lockUntil EXCEPT ![u] = 0]
      /\ UNCHANGED <<now, paused, boost, positionVars, rewardVars, principal, unsettled>>
  BY DEF UnstakeLp
<1>3. TypeOK' BY <1>1, <1>2 DEF TypeOK, positionVars, rewardVars
<1>4. SharePriceIsOne' /\ RewardsAccounted'
  BY <1>2 DEF LiquidityInv, SharePriceIsOne, RewardsAccounted, SumOf, positionVars, rewardVars
<1>5. \A v \in Providers : principal'[v] = shares'[v] /\ staked'[v] <= shares'[v]
  <2>1. \A v \in Providers : shares[v] \in Nat /\ staked[v] \in Nat BY <1>1 DEF TypeOK
  <2>2. \A v \in Providers : staked'[v] = (IF v = u THEN 0 ELSE staked[v])
    BY <1>1, <1>2 DEF TypeOK
  <2>3. QED BY <1>2, <2>1, <2>2 DEF LiquidityInv, positionVars
<1>6. QED BY <1>3, <1>4, <1>5 DEF LiquidityInv

(***************************************************************************)
(* What a distribution adds to the accounts of the providers is the        *)
(* quotient times the shares they hold, and those are all the shares, so   *)
(* only the remainder is left to carry.                                    *)
(***************************************************************************)
LEMMA DistributeKeeps ==
  ASSUME LiquidityInv, NEW amount \in RewardAmounts, DistributeLpRewards(amount)
  PROVE  LiquidityInv'
<1>1. TypeOK BY DEF LiquidityInv
<1>2. amount \in Nat /\ Precision \in Nat BY LpSizes
<1>3. /\ totalShares \in Nat \ {0} /\ remainder \in Nat /\ distributed \in Nat
      /\ feePerShare \in Nat /\ rewardPool \in Nat
  BY <1>1 DEF TypeOK, DistributeLpRewards
<1> DEFINE scaled == Scaled(amount)
           delta == scaled \div totalShares
           rest == scaled % totalShares
<1>4. scaled \in Nat /\ scaled = amount * Precision + remainder
  <2>1. amount * Precision \in Nat BY <1>2
  <2>2. QED BY <1>3, <2>1 DEF Scaled
<1>5. /\ feePerShare' = feePerShare + delta /\ remainder' = rest
      /\ rewardPool' = rewardPool + amount /\ distributed' = distributed + amount
      /\ accrued' = [v \in Providers |-> accrued[v] + shares[v] * delta]
      /\ unsettled' = [v \in Providers |-> unsettled[v] + shares[v] * delta]
      /\ UNCHANGED <<now, paused, boost, positionVars, stakeVars, principal>>
  BY DEF DistributeLpRewards
<1> HIDE DEF scaled
<1>6. /\ delta \in Nat /\ rest \in Nat
      /\ totalShares * delta + rest = amount * Precision + remainder
  BY <1>3, <1>4, DivNat, ModRest
<1> HIDE DEF delta, rest
<1>7. \A v \in Providers : accrued[v] \in Nat /\ unsettled[v] \in Nat /\ shares[v] \in Nat
  BY <1>1 DEF TypeOK
<1>8. \A v \in Providers : shares[v] * delta \in Nat BY <1>6, <1>7
<1>9. TypeOK'
  <2>1. accrued' \in [Providers -> Nat] /\ unsettled' \in [Providers -> Nat]
    BY <1>5, <1>7, <1>8
  <2>2. feePerShare' \in Nat /\ remainder' \in Nat /\ rewardPool' \in Nat /\ distributed' \in Nat
    BY <1>2, <1>3, <1>5, <1>6
  <2>3. QED BY <1>1, <1>5, <2>1, <2>2 DEF TypeOK, positionVars, stakeVars
<1>10. SharePriceIsOne' BY <1>5 DEF LiquidityInv, SharePriceIsOne, SumOf, positionVars
<1>11. RewardsAccounted'
  <2>1. SumOf(accrued') = SumOf(accrued) + SumOf(shares) * delta
    <3>1. \A i \in 0 .. NumProviders - 1 :
             /\ accrued[i] \in Int /\ shares[i] \in Int
             /\ accrued'[i] = accrued[i] + shares[i] * delta
      BY <1>5, <1>7 DEF Providers
    <3>2. NumProviders \in Nat /\ delta \in Int BY <1>6, LpSizes
    <3>3. QED BY <3>1, <3>2, SumScaled DEF SumOf
  <2>2. SumOf(accrued)' = SumOf(accrued) + totalShares * delta
    BY <2>1 DEF LiquidityInv, SharePriceIsOne, SumOf
  <2>3. SumOf(accrued) \in Int
    <3>1. \A i \in 0 .. NumProviders - 1 : accrued[i] \in Int BY <1>7 DEF Providers
    <3>2. QED BY <3>1, LpSizes, SumInt DEF SumOf
  <2>4. SumOf(accrued) + remainder = Precision * distributed
    BY DEF LiquidityInv, RewardsAccounted
  <2>5. /\ Precision * distributed \in Nat /\ amount * Precision \in Nat
        /\ totalShares * delta \in Nat
    BY <1>2, <1>3, <1>6
  <2>6. Precision * (distributed + amount) = Precision * distributed + amount * Precision
    BY <1>2, <1>3
  <2>7. SumOf(accrued)' + remainder' = Precision * distributed'
    BY <1>3, <1>5, <1>6, <2>2, <2>3, <2>4, <2>5, <2>6
  <2>8. QED BY <2>7 DEF RewardsAccounted
<1>12. QED BY <1>5, <1>9, <1>10, <1>11 DEF LiquidityInv, positionVars, stakeVars

-----------------------------------------------------------------------------
LEMMA LiquidityInit == Init => LiquidityInv
<1>1. SUFFICES ASSUME Init PROVE LiquidityInv OBVIOUS
<1>2. TypeOK BY <1>1, LpSizes DEF Init, TypeOK, NoneEach
<1>3. SumOf(NoneEach) = 0
  <2>1. \A i \in 0 .. NumProviders - 1 : NoneEach[i] = 0 BY DEF NoneEach, Providers
  <2>2. QED BY <2>1, LpSizes, SumZero DEF SumOf
<1>4. SharePriceIsOne BY <1>1, <1>3 DEF Init, SharePriceIsOne
<1>5. RewardsAccounted BY <1>1, <1>3, LpSizes DEF Init, RewardsAccounted
<1>6. \A u \in Providers : principal[u] = shares[u] /\ staked[u] <= shares[u]
  BY <1>1 DEF Init, NoneEach
<1>7. QED BY <1>2, <1>4, <1>5, <1>6 DEF LiquidityInv

LEMMA LiquidityStep == LiquidityInv /\ [Next]_vars => LiquidityInv'
<1>1. SUFFICES ASSUME LiquidityInv, [Next]_vars PROVE LiquidityInv' OBVIOUS
<1>2. CASE \E u \in Providers : ProviderStep(u)
  <2>1. PICK u \in Providers : ProviderStep(u) BY <1>2
  <2>2. CASE \E amount \in DepositAmounts : DepositLiquidity(u, amount)
    BY <1>1, <2>2, DepositKeeps
  <2>3. CASE \E s \in 1 .. shares[u] : WithdrawLiquidity(u, s) BY <1>1, <2>3, WithdrawKeeps
  <2>4. CASE ClaimLpRewards(u) BY <1>1, <2>4, ClaimKeeps
  <2>5. CASE \E s \in 1 .. shares[u], period \in LockPeriods : StakeLp(u, s, period)
    BY <1>1, <2>5, StakeKeeps
  <2>6. CASE UnstakeLp(u) BY <1>1, <2>6, UnstakeKeeps
  <2>7. QED BY <2>1, <2>2, <2>3, <2>4, <2>5, <2>6 DEF ProviderStep
<1>3. CASE \E amount \in RewardAmounts : DistributeLpRewards(amount)
  BY <1>1, <1>3, DistributeKeeps
<1>4. CASE \/ Tick
           \/ \E b \in BoostChoices : SetLpStakeBoost(b)
           \/ \E flag \in PauseChoices : SetPaused(flag)
           \/ UNCHANGED vars
  <2>1. UNCHANGED <<positionVars, stakeVars, rewardVars, principal, unsettled>>
    BY <1>4 DEF Tick, SetLpStakeBoost, SetPaused, vars
  <2>2. now' \in Nat /\ paused' \in BOOLEAN /\ boost' \in Nat
    BY <1>1, <1>4, LpSizes DEF LiquidityInv, TypeOK, Tick, SetLpStakeBoost, SetPaused, vars
  <2>3. TypeOK'
    BY <1>1, <2>1, <2>2 DEF LiquidityInv, TypeOK, positionVars, stakeVars, rewardVars
  <2>4. SharePriceIsOne' /\ RewardsAccounted'
    BY <1>1, <2>1 DEF LiquidityInv, SharePriceIsOne, RewardsAccounted, SumOf,
                      positionVars, rewardVars
  <2>5. QED BY <1>1, <2>1, <2>3, <2>4 DEF LiquidityInv, positionVars, stakeVars
<1>5. QED BY <1>1, <1>2, <1>3, <1>4 DEF Next

(* The invariant holds of every behaviour.                                 *)
THEOREM LiquidityInvariant == Spec => []LiquidityInv
<1>1. QED BY LiquidityInit, LiquidityStep, PTL DEF Spec

(* Every amount of the liquidity pool stays a natural number: no call      *)
(* underflows a total, a reward pool or a position.                        *)
THEOREM LiquidityTypes == Spec => []TypeOK
<1>1. LiquidityInv => TypeOK BY DEF LiquidityInv
<1>2. QED BY <1>1, LiquidityInvariant, PTL

(* The price of a share never moves, so no division of a deposit or a      *)
(* withdrawal rounds.                                                      *)
THEOREM SharePriceNeverMoves == Spec => []SharePriceIsOne
<1>1. LiquidityInv => SharePriceIsOne BY DEF LiquidityInv
<1>2. QED BY <1>1, LiquidityInvariant, PTL

(* A provider redeems exactly what was deposited and not yet withdrawn.    *)
THEOREM PrincipalIsKept == Spec => []PrincipalKept
<1>1. LiquidityInv => PrincipalKept
  <2>1. SUFFICES ASSUME LiquidityInv, NEW u \in Providers, shares[u] > 0
                 PROVE  Redeemed(shares[u]) = principal[u]
    BY DEF PrincipalKept
  <2>2. shares[u] \in Nat /\ principal[u] = shares[u] BY <2>1 DEF LiquidityInv, TypeOK
  <2>3. shares[u] <= shares[u] BY <2>2
  <2>4. Redeemed(shares[u]) = shares[u] BY <2>1, <2>2, <2>3, RedeemedExact
  <2>5. QED BY <2>2, <2>4
<1>2. QED BY <1>1, LiquidityInvariant, PTL

(* Neither the price of a share nor a provider's principal ever moves.     *)
THEOREM NobodyIsDiluted == Spec => []NobodyDiluted
<1>1. SharePriceIsOne /\ PrincipalKept => NobodyDiluted BY DEF NobodyDiluted
<1>2. QED BY <1>1, SharePriceNeverMoves, PrincipalIsKept, PTL

(* No fraction of a reward is lost or made by the accumulator.             *)
THEOREM RewardsAreAccounted == Spec => []RewardsAccounted
<1>1. LiquidityInv => RewardsAccounted BY DEF LiquidityInv
<1>2. QED BY <1>1, LiquidityInvariant, PTL

(***************************************************************************)
(* A stake is whole until its lock ends: a top-up only lengthens the lock, *)
(* a withdrawal stops at the stake, and leaving before the end fails.      *)
(***************************************************************************)
THEOREM LockedStakesAreHeld == Spec => LockedStakeHeld
<1> DEFINE Held == \A u \in Providers :
                     /\ shares'[u] >= staked'[u]
                     /\ staked[u] > 0 /\ now < lockUntil[u]
                          => staked'[u] >= staked[u] /\ lockUntil'[u] >= lockUntil[u]
<1>1. LiquidityInv /\ LiquidityInv' /\ [Next]_vars => [Held]_vars
  <2>1. SUFFICES ASSUME LiquidityInv, LiquidityInv', [Next]_vars, NEW u \in Providers
                 PROVE  /\ shares'[u] >= staked'[u]
                        /\ staked[u] > 0 /\ now < lockUntil[u]
                             => staked'[u] >= staked[u] /\ lockUntil'[u] >= lockUntil[u]
    OBVIOUS
  <2>2. shares'[u] \in Nat /\ staked'[u] \in Nat /\ staked'[u] <= shares'[u]
    BY <2>1 DEF LiquidityInv, TypeOK
  <2>3. now \in Nat /\ staked \in [Providers -> Nat] /\ lockUntil \in [Providers -> Nat]
    BY <2>1 DEF LiquidityInv, TypeOK
  <2>4. staked[u] > 0 /\ now < lockUntil[u]
          => staked'[u] >= staked[u] /\ lockUntil'[u] >= lockUntil[u]
    <3>1. CASE UNCHANGED stakeVars BY <2>3, <3>1 DEF stakeVars
    <3>2. CASE \E v \in Providers : \E s \in 1 .. shares[v], period \in LockPeriods :
                  StakeLp(v, s, period)
      <4>0. PICK v \in Providers :
               \E s \in 1 .. shares[v], period \in LockPeriods : StakeLp(v, s, period)
        BY <3>2
      <4>1. PICK s \in 1 .. shares[v], period \in LockPeriods : StakeLp(v, s, period)
        BY <4>0
      <4>2. period \in Nat BY LpSizes
      <4>3. /\ s > 0 /\ staked' = [staked EXCEPT ![v] = @ + s]
            /\ lockUntil' = [lockUntil EXCEPT ![v] = LockedUntil(v, period)]
        BY <4>1 DEF StakeLp
      <4>4. shares[v] \in Nat BY <2>1 DEF LiquidityInv, TypeOK
      <4>5. LockedUntil(v, period) >= lockUntil[v]
        BY <2>3, <4>2 DEF LockedUntil, MaxOf
      <4>6. QED BY <2>3, <4>3, <4>4, <4>5
    <3>3. CASE \E v \in Providers : UnstakeLp(v)
      <4>1. PICK v \in Providers : UnstakeLp(v) BY <3>3
      <4>2. /\ now >= lockUntil[v] /\ staked' = [staked EXCEPT ![v] = 0]
            /\ lockUntil' = [lockUntil EXCEPT ![v] = 0]
        BY <4>1 DEF UnstakeLp
      <4>3. QED BY <2>3, <4>2
    <3>4. QED
      BY <2>1, <3>1, <3>2, <3>3
      DEF Next, ProviderStep, DepositLiquidity, WithdrawLiquidity, ClaimLpRewards,
          DistributeLpRewards, SetLpStakeBoost, SetPaused, Tick, vars
  <2>5. QED BY <2>2, <2>4
<1>2. QED BY <1>1, LiquidityInvariant, PTL DEF Spec, LockedStakeHeld

-----------------------------------------------------------------------------
(***************************************************************************)
(* What the debt of a position means: scaled by Precision it is, to within *)
(* one unit, what the shares would have earned from the beginning less     *)
(* what accrued since the debt was set.  A distribution raises both sides  *)
(* alike, and every other change of a position sets the debt anew.         *)
(***************************************************************************)
Settled(u) == shares[u] * feePerShare - unsettled[u]
DebtInv ==
  \A u \in Providers :
    /\ Precision * debt[u] <= Settled(u)
    /\ Settled(u) < Precision * debt[u] + Precision

(* Rounding down to Precision loses less than one unit of it.              *)
LEMMA EarnedFloor ==
  ASSUME TypeOK, NEW s \in Nat
  PROVE  /\ s * feePerShare \in Nat /\ Earned(s) \in Nat
         /\ Precision * Earned(s) <= s * feePerShare
         /\ s * feePerShare < Precision * Earned(s) + Precision
<1>1. s * feePerShare \in Nat BY DEF TypeOK
<1>2. QED BY <1>1, LpSizes, DivNat DEF Earned

(* A position whose debt is set owes exactly what it would have earned.    *)
LEMMA DebtSet ==
  ASSUME TypeOK, DebtInv, NEW u \in Providers, NEW s \in Nat, SetPosition(u, s),
         feePerShare' = feePerShare
  PROVE  DebtInv'
<1>1. /\ shares' = [shares EXCEPT ![u] = s]
      /\ debt' = [debt EXCEPT ![u] = Earned(s)]
      /\ unsettled' = [unsettled EXCEPT ![u] = 0]
  BY DEF SetPosition
<1>2. SUFFICES ASSUME NEW v \in Providers
               PROVE  /\ Precision * debt'[v] <= Settled(v)'
                      /\ Settled(v)' < Precision * debt'[v] + Precision
  BY DEF DebtInv
<1>3. CASE v = u
  <2>1. debt'[v] = Earned(s) /\ shares'[v] = s /\ unsettled'[v] = 0 BY <1>1, <1>3 DEF TypeOK
  <2>2. s * feePerShare \in Nat BY EarnedFloor
  <2>3. Settled(v)' = s * feePerShare BY <2>1, <2>2 DEF Settled
  <2>4. QED BY <2>1, <2>3, EarnedFloor
<1>4. CASE v # u
  <2>1. debt'[v] = debt[v] /\ shares'[v] = shares[v] /\ unsettled'[v] = unsettled[v]
    BY <1>1, <1>4 DEF TypeOK
  <2>2. Settled(v)' = Settled(v) BY <2>1 DEF Settled
  <2>3. QED BY <2>1, <2>2 DEF DebtInv
<1>5. QED BY <1>3, <1>4

(* A distribution raises what the shares earned and what is unsettled alike.*)
LEMMA DistributeKeepsDebt ==
  ASSUME TypeOK, DebtInv, NEW amount \in RewardAmounts, DistributeLpRewards(amount)
  PROVE  DebtInv'
<1> DEFINE delta == Scaled(amount) \div totalShares
<1>1. totalShares \in Nat \ {0} /\ feePerShare \in Nat /\ remainder \in Nat
  BY DEF TypeOK, DistributeLpRewards
<1>2. Scaled(amount) \in Nat
  <2>1. amount \in Nat /\ Precision \in Nat BY LpSizes
  <2>2. amount * Precision \in Nat BY <2>1
  <2>3. QED BY <1>1, <2>2 DEF Scaled
<1>3. delta \in Nat BY <1>1, <1>2, DivNat
<1>4. /\ feePerShare' = feePerShare + delta /\ shares' = shares /\ debt' = debt
      /\ unsettled' = [v \in Providers |-> unsettled[v] + shares[v] * delta]
  BY DEF DistributeLpRewards, positionVars
<1> HIDE DEF delta
<1>5. ASSUME NEW v \in Providers PROVE Settled(v)' = Settled(v)
  <2>1. shares[v] \in Nat /\ unsettled[v] \in Nat BY DEF TypeOK
  <2>2. shares[v] * (feePerShare + delta) = shares[v] * feePerShare + shares[v] * delta
    BY <1>1, <1>3, <2>1
  <2>3. shares[v] * feePerShare \in Nat /\ shares[v] * delta \in Nat BY <1>1, <1>3, <2>1
  <2>4. QED BY <1>4, <2>1, <2>2, <2>3 DEF Settled
<1>6. QED BY <1>4, <1>5 DEF DebtInv

LEMMA DebtStep == LiquidityInv /\ DebtInv /\ [Next]_vars => DebtInv'
<1>1. SUFFICES ASSUME LiquidityInv, DebtInv, [Next]_vars PROVE DebtInv' OBVIOUS
<1>2. TypeOK BY <1>1 DEF LiquidityInv
<1>3. CASE \E u \in Providers : ProviderStep(u)
  <2>1. PICK u \in Providers : ProviderStep(u) BY <1>3
  <2>2. shares[u] \in Nat BY <1>2 DEF TypeOK
  <2>3. CASE \E amount \in DepositAmounts : DepositLiquidity(u, amount)
    <3>1. PICK amount \in DepositAmounts : DepositLiquidity(u, amount) BY <2>3
    <3>2. Minted(amount) \in Nat BY <1>1, LpSizes, MintedExact
    <3>3. /\ shares[u] + Minted(amount) \in Nat /\ feePerShare' = feePerShare
          /\ SetPosition(u, shares[u] + Minted(amount))
      BY <2>2, <3>1, <3>2 DEF DepositLiquidity, rewardVars
    <3>4. QED BY <1>1, <1>2, <3>3, DebtSet
  <2>4. CASE \E s \in 1 .. shares[u] : WithdrawLiquidity(u, s)
    <3>1. PICK s \in 1 .. shares[u] : WithdrawLiquidity(u, s) BY <2>4
    <3>2. /\ shares[u] - s \in Nat /\ feePerShare' = feePerShare
          /\ SetPosition(u, shares[u] - s)
      BY <2>2, <3>1 DEF WithdrawLiquidity
    <3>3. QED BY <1>1, <1>2, <3>2, DebtSet
  <2>5. CASE ClaimLpRewards(u)
    <3>1. SetPosition(u, shares[u]) /\ feePerShare' = feePerShare
      BY <2>5 DEF ClaimLpRewards
    <3>2. QED BY <1>1, <1>2, <2>2, <3>1, DebtSet
  <2>6. CASE \/ \E s \in 1 .. shares[u], period \in LockPeriods : StakeLp(u, s, period)
             \/ UnstakeLp(u)
    BY <1>1, <2>6 DEF StakeLp, UnstakeLp, positionVars, rewardVars, DebtInv, Settled
  <2>7. QED BY <2>1, <2>3, <2>4, <2>5, <2>6 DEF ProviderStep
<1>4. CASE \E amount \in RewardAmounts : DistributeLpRewards(amount)
  BY <1>1, <1>2, <1>4, DistributeKeepsDebt
<1>5. CASE \/ Tick
           \/ \E b \in BoostChoices : SetLpStakeBoost(b)
           \/ \E flag \in PauseChoices : SetPaused(flag)
           \/ UNCHANGED vars
  BY <1>1, <1>5 DEF Tick, SetLpStakeBoost, SetPaused, vars, positionVars, rewardVars,
                    DebtInv, Settled
<1>6. QED BY <1>1, <1>3, <1>4, <1>5 DEF Next

(***************************************************************************)
(* What a provider may claim is, to within one unit of rounding either way,*)
(* what accrued on the position since it was last settled: PendingReward   *)
(* is a difference of two roundings of the same accumulator.               *)
(***************************************************************************)
THEOREM PendingWithinOneUnit == Spec => []PendingIsAccrued
<1>1. Init => DebtInv
  <2>1. SUFFICES ASSUME Init, NEW u \in Providers
                 PROVE  /\ Precision * debt[u] <= Settled(u)
                        /\ Settled(u) < Precision * debt[u] + Precision
    BY DEF DebtInv
  <2>2. debt[u] = 0 /\ Settled(u) = 0 BY <2>1 DEF Init, NoneEach, Settled
  <2>3. QED BY <2>2, LpSizes
<1>2. LiquidityInv /\ DebtInv => PendingIsAccrued
  <2>1. SUFFICES ASSUME LiquidityInv, DebtInv, NEW u \in Providers
                 PROVE  /\ PendingReward(u) * Precision < unsettled[u] + Precision
                        /\ unsettled[u] < (PendingReward(u) + 1) * Precision
    BY DEF PendingIsAccrued
  <2> DEFINE e == Earned(shares[u])
             d == debt[u]
             sf == shares[u] * feePerShare
  <2>2. TypeOK BY <2>1 DEF LiquidityInv
  <2>3. shares[u] \in Nat /\ d \in Nat /\ unsettled[u] \in Nat BY <2>2 DEF TypeOK
  <2>4. sf \in Nat /\ e \in Nat /\ Precision * e <= sf /\ sf < Precision * e + Precision
    BY <2>2, <2>3, EarnedFloor
  <2>5. /\ Precision * d <= sf - unsettled[u]
        /\ sf - unsettled[u] < Precision * d + Precision
    BY <2>1 DEF DebtInv, Settled
  <2>6. PendingReward(u) = e - d BY DEF PendingReward
  <2> HIDE DEF e, d, sf
  <2>7. Precision \in Nat /\ Precision * e \in Int /\ Precision * d \in Int
    BY <2>3, <2>4, LpSizes
  <2>8. /\ (e - d) * Precision = Precision * e - Precision * d
        /\ (e - d + 1) * Precision = Precision * e - Precision * d + Precision
    BY <2>3, <2>4, <2>7
  <2>9. QED BY <2>3, <2>4, <2>5, <2>6, <2>7, <2>8
<1>3. QED BY <1>1, <1>2, DebtStep, LiquidityInvariant, PTL DEF Spec

=============================================================================
