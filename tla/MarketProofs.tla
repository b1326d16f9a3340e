---------------------------- MODULE MarketProofs ----------------------------
(***************************************************************************)
(* The safety theorems of the market, for all values of the constants.     *)
(* First the inductive invariant of PredinexMarket, and what the building  *)
(* blocks of its actions do to the parts of it: which parts a step leaves  *)
(* alone, what moving a stake and deleting bets do to the books, and how   *)
(* the pool's money and the recorded exposure follow.  Then one lemma per  *)
(* action, which preserves MarketInv, and the theorems.  The second part   *)
(* proves what is paid out of the pools, along the same lines; the last    *)
(* one that the market, step by step, keeps the promise of PoolFunds.      *)
(***************************************************************************)
EXTENDS PredinexMarket, SumProofs

-----------------------------------------------------------------------------
(* Constants and arithmetic.                                               *)

(* The parts of the assumptions that most steps need.                      *)
LEMMA Sizes ==
  /\ NumAccounts \in Nat /\ NumAccounts > 0 /\ NumPools \in Nat /\ NumPools > 0
  /\ NumOutcomes \in Nat /\ NumOutcomes > 1
  /\ BpsDenom \in Nat \ {0} /\ PlaceFeeBps \in 0 .. BpsDenom
BY LimitsAssumption, MarketAssumption

(* One changed entry, in a sum over the accounts and over the outcomes.    *)
LEMMA AccountSumMove ==
  ASSUME NEW u \in Accounts, NEW delta \in Int, NEW f, NEW g,
         f \in [Accounts -> Nat], g \in [Accounts -> Nat],
         g[u] = f[u] + delta, \A v \in Accounts : v # u => g[v] = f[v]
  PROVE  /\ SumBelow(f, NumAccounts) \in Nat
         /\ SumBelow(g, NumAccounts) = SumBelow(f, NumAccounts) + delta
<1>1. NumAccounts \in Nat BY Sizes
<1>2. QED BY <1>1, SumMove DEF Accounts

LEMMA OutcomeSumMove ==
  ASSUME NEW o \in Outcomes, NEW delta \in Int, NEW f, NEW g,
         f \in [Outcomes -> Nat], g \in [Outcomes -> Nat],
         g[o] = f[o] + delta, \A w \in Outcomes : w # o => g[w] = f[w]
  PROVE  /\ SumBelow(f, NumOutcomes) \in Nat
         /\ SumBelow(g, NumOutcomes) = SumBelow(f, NumOutcomes) + delta
<1>1. NumOutcomes \in Nat BY Sizes
<1>2. QED BY <1>1, SumMove DEF Outcomes

(* A fee is never more than the amount it is taken from.                   *)
LEMMA BpsRange ==
  ASSUME NEW amount \in Nat, NEW bps \in 0 .. BpsDenom
  PROVE  Bps(amount, bps) \in Nat /\ Bps(amount, bps) <= amount
<1>1. BpsDenom \in Nat \ {0} /\ bps \in Nat /\ bps <= BpsDenom BY Sizes
<1>2. amount * bps \in Nat /\ amount * bps <= amount * BpsDenom BY <1>1
<1>3. (amount * bps) \div BpsDenom <= amount BY <1>1, <1>2, DivBound
<1>4. (amount * bps) \div BpsDenom \in Nat BY <1>1, <1>2, DivNat
<1>5. QED BY <1>3, <1>4 DEF Bps

(***************************************************************************)
(* The fee of a volume is a fee: the set of reached tiers, when it is not  *)
(* empty, has a highest member.                                            *)
(***************************************************************************)
LEMMA FeeForVolumeType ==
  ASSUME ConfigTypeOK, NEW v \in Nat
  PROVE  FeeForVolume(v) \in 0 .. BpsDenom
<1> DEFINE reached == {i \in DOMAIN feeTiers : feeTiers[i].threshold <= v}
           last == CHOOSE i \in reached : \A j \in reached : j <= i
<1>1. feeTiers \in Seq(Tiers) /\ protocolFee \in 0 .. BpsDenom
  BY DEF ConfigTypeOK, ValidTiers
<1>2. CASE reached = {}
  BY <1>1, <1>2 DEF FeeForVolume
<1>3. CASE reached # {}
  <2> DEFINE n == Len(feeTiers)
             T == {n - i : i \in reached}
  <2>1. n \in Nat /\ DOMAIN feeTiers = 1 .. n BY <1>1
  <2>2. T \subseteq Nat /\ T # {} BY <1>3, <2>1
  <2>3. PICK x \in T : \A y \in T : x <= y BY <2>2, LeastNatural
  <2>4. PICK i \in reached : x = n - i BY <2>3
  <2>5. ASSUME NEW j \in reached PROVE j <= i
    <3>1. n - j \in T OBVIOUS
    <3>2. n - i <= n - j BY <2>3, <2>4, <3>1
    <3>3. i \in Nat /\ j \in Nat BY <2>1
    <3>4. QED BY <2>1, <3>2, <3>3
  <2>6. last \in reached BY <2>4, <2>5
  <2>7. feeTiers[last] \in Tiers BY <1>1, <2>1, <2>6
  <2>8. QED BY <1>3, <2>7 DEF FeeForVolume, Tiers
<1>4. QED BY <1>2, <1>3

-----------------------------------------------------------------------------
(* The inductive invariant.                                                *)

(* A settled pool has a winning outcome.                                   *)
WinnerDeclared == \A p \in Pools : status[p] = "Settled" => winner[p] \in Outcomes

(* What bettors are owed is within the totals, and their two records of it *)
(* agree.                                                                  *)
StakeBooks ==
  /\ totals \in [Pools -> [Outcomes -> Nat]]
  /\ stake \in [Pools -> [Accounts -> [Outcomes -> Nat]]]
  /\ totalBet \in [Pools -> [Accounts -> Nat]]
  /\ StakesWithinTotals
  /\ \A p \in Pools, u \in Accounts : totalBet[p][u] = SumBelow(stake[p][u], NumOutcomes)

LifeInv == LifeTypeOK /\ WinnerDeclared
BookInv == BookTypeOK /\ StakesWithinTotals /\ BooksAgree /\ RefundListComplete
MoneyInv == MoneyTypeOK /\ UnclaimedPoolFunded
LimitInv == LimitsTypeOK /\ ExposureCoversStake

(***************************************************************************)
(* No part is inductive alone: the books stay natural because stakes lie   *)
(* within the totals and the two sets of books agree, the payouts stay     *)
(* integers because a winning stake makes the winning total positive, and  *)
(* the pool's money follows its stakes because the list of bettors is      *)
(* complete.                                                               *)
(***************************************************************************)
MarketInv == now \in Nat /\ ConfigTypeOK /\ LifeInv /\ BookInv /\ MoneyInv /\ LimitInv

-----------------------------------------------------------------------------
(* Steps that leave a part of the state alone.                             *)

LEMMA BooksKept == BookInv /\ UNCHANGED bookVars => BookInv'
BY DEF BookInv, BookTypeOK, StakesWithinTotals, StakedOn, BooksAgree, PoolTotal,
       RefundListComplete, bookVars

LEMMA MoneyKept == MoneyInv /\ UNCHANGED <<bookVars, moneyVars>> => MoneyInv'
BY DEF MoneyInv, MoneyTypeOK, UnclaimedPoolFunded, Refundable, bookVars, moneyVars

LEMMA LimitsKept == LimitInv /\ UNCHANGED <<bookVars, limitVars>> => LimitInv'
BY DEF LimitInv, LimitsTypeOK, ExposureCoversStake, bookVars, limitVars

LEMMA LifeKept == LifeInv /\ UNCHANGED lifeVars => LifeInv'
BY DEF LifeInv, LifeTypeOK, WinnerDeclared, lifeVars

LEMMA ConfigKept == ConfigTypeOK /\ UNCHANGED configVars => ConfigTypeOK'
BY DEF ConfigTypeOK, configVars

LEMMA FundsKept ==
  ASSUME MarketInv, UNCHANGED <<bookVars, moneyVars, limitVars>>
  PROVE  BookInv' /\ MoneyInv' /\ LimitInv'
BY BooksKept, MoneyKept, LimitsKept DEF MarketInv

-----------------------------------------------------------------------------
(* The two ways the books change.                                          *)

(* The total of one outcome is at most what is left on its side.           *)
LEMMA SideCoversOutcome ==
  ASSUME BookInv, NEW p \in Pools, NEW o \in Outcomes
  PROVE  totals[p][o] <= sides[p][Side(o)]
<1> DEFINE f == totals[p]
           g == [i \in Outcomes |-> IF i = 0 THEN 0 ELSE f[i]]
<1>1. /\ f \in [Outcomes -> Nat] /\ sides[p] \in [{"a", "b"} -> Nat]
      /\ sides[p].a = f[0] /\ sides[p].a + sides[p].b = SumBelow(f, NumOutcomes)
  BY DEF BookInv, BookTypeOK, BooksAgree, PoolTotal
<1>2. NumOutcomes \in Nat /\ 0 \in 0 .. NumOutcomes - 1 BY Sizes
<1>3. SumBelow(g, NumOutcomes) = SumBelow(f, NumOutcomes) + (g[0] - f[0])
  <2> HIDE DEF f
  <2>1. /\ \A i \in 0 .. NumOutcomes - 1 : f[i] \in Int /\ g[i] \in Int
        /\ \A i \in 0 .. NumOutcomes - 1 : i # 0 => g[i] = f[i]
    BY <1>1, <1>2 DEF Outcomes
  <2> HIDE DEF g
  <2>2. QED BY <1>2, <2>1, SumUpdate
<1>4. g[o] <= SumBelow(g, NumOutcomes)
  <2> HIDE DEF f
  <2>1. \A i \in 0 .. NumOutcomes - 1 : g[i] \in Nat BY <1>1 DEF Outcomes
  <2> HIDE DEF g
  <2>2. QED BY <1>2, <2>1, SumTerm DEF Outcomes
<1>5. sides[p].b = SumBelow(g, NumOutcomes) 
  <2>1. g[0] = 0 BY <1>2 DEF Outcomes
  <2>2. SumBelow(f, NumOutcomes) \in Int BY <1>1
  <2> HIDE DEF f, g
  <2>3. QED BY <1>1, <1>2, <1>3, <2>1, <2>2 DEF Outcomes
<1>6. QED BY <1>1, <1>4, <1>5 DEF Side

(* What a bettor has on an outcome is part of the bettor's total and of    *)
(* the outcome's.                                                          *)
LEMMA StakeIsCovered ==
  ASSUME StakeBooks, NEW u \in Accounts, NEW p \in Pools, NEW o \in Outcomes
  PROVE  /\ stake[p][u][o] \in Nat
         /\ stake[p][u][o] <= totalBet[p][u]
         /\ stake[p][u][o] <= totals[p][o]
<1> DEFINE f == stake[p][u]
           g == [v \in Accounts |-> stake[p][v][o]]
<1>1. f[o] \in Nat /\ f[o] <= totalBet[p][u]
  <2>1. f \in [Outcomes -> Nat] /\ totalBet[p][u] = SumBelow(f, NumOutcomes)
    BY DEF StakeBooks
  <2> HIDE DEF f
  <2>2. QED BY <2>1, Sizes, SumTerm DEF Outcomes
<1>2. g[u] <= totals[p][o]
  <2>1. SumBelow(g, NumAccounts) <= totals[p][o] /\ totals[p][o] \in Nat
    BY DEF StakeBooks, StakesWithinTotals, StakedOn
  <2>2. g \in [Accounts -> Nat] BY DEF StakeBooks
  <2> HIDE DEF g
  <2>3. g[u] <= SumBelow(g, NumAccounts) BY <2>2, Sizes, SumTerm DEF Accounts
  <2>4. SumBelow(g, NumAccounts) \in Nat BY <2>2, Sizes, SumNat DEF Accounts
  <2>5. g[u] \in Nat BY <2>2
  <2>6. QED BY <2>1, <2>3, <2>4, <2>5
<1>3. QED BY <1>1, <1>2

LEMMA BooksOfStakes == BookInv => StakeBooks
BY DEF BookInv, BookTypeOK, BooksAgree, StakeBooks

(* A stake and the totals that contain it move by the same amount, which   *)
(* may be negative down to the stake.                                      *)
LEMMA MovedStakes ==
  ASSUME StakeBooks, NEW u \in Accounts, NEW p \in Pools, NEW o \in Outcomes,
         NEW delta \in Int, stake[p][u][o] + delta >= 0,
         totals' = [totals EXCEPT ![p][o] = @ + delta],
         stake' = [stake EXCEPT ![p][u][o] = @ + delta],
         totalBet' = [totalBet EXCEPT ![p][u] = @ + delta]
  PROVE  StakeBooks'
<1>1. StakesWithinTotals BY DEF StakeBooks
<1>2. /\ totals \in [Pools -> [Outcomes -> Nat]]
      /\ stake \in [Pools -> [Accounts -> [Outcomes -> Nat]]]
      /\ totalBet \in [Pools -> [Accounts -> Nat]]
  BY DEF StakeBooks
<1>3. /\ totals' = [totals EXCEPT ![p][o] = @ + delta]
      /\ stake' = [stake EXCEPT ![p][u][o] = @ + delta]
      /\ totalBet' = [totalBet EXCEPT ![p][u] = @ + delta]
  OBVIOUS
<1>4. /\ totals[p][o] + delta \in Nat
      /\ stake[p][u][o] + delta \in Nat /\ totalBet[p][u] + delta \in Nat
  <2>1. totals[p][o] \in Nat /\ totalBet[p][u] \in Nat BY <1>2
  <2>2. QED BY <2>1, StakeIsCovered
<1>5. /\ totals' \in [Pools -> [Outcomes -> Nat]]
      /\ stake' \in [Pools -> [Accounts -> [Outcomes -> Nat]]]
      /\ totalBet' \in [Pools -> [Accounts -> Nat]]
  <2>1. totals' \in [Pools -> [Outcomes -> Nat]] BY <1>2, <1>3, <1>4
  <2>2. stake' \in [Pools -> [Accounts -> [Outcomes -> Nat]]] BY <1>2, <1>3, <1>4
  <2>3. totalBet' \in [Pools -> [Accounts -> Nat]] BY <1>2, <1>3, <1>4
  <2>4. QED BY <2>1, <2>2, <2>3
<1>6. StakesWithinTotals'
  <2>1. SUFFICES ASSUME NEW q \in Pools, NEW w \in Outcomes
                 PROVE  StakedOn(q, w)' <= totals'[q][w]
    BY DEF StakesWithinTotals
  <2> DEFINE f == [v \in Accounts |-> stake[q][v][w]]
             g == [v \in Accounts |-> stake'[q][v][w]]
  <2>2. SumBelow(f, NumAccounts) <= totals[q][w]
    BY <1>1 DEF StakesWithinTotals, StakedOn
  <2>3. f \in [Accounts -> Nat] /\ g \in [Accounts -> Nat] BY <1>2, <1>5
  <2>4. CASE q = p /\ w = o
    <3>1. g[u] = f[u] + delta /\ \A v \in Accounts : v # u => g[v] = f[v]
      BY <1>2, <1>3, <2>4
    <3>2. totals'[q][w] = totals[q][w] + delta BY <1>2, <1>3, <2>4
    <3> HIDE DEF f, g
    <3>3. /\ SumBelow(f, NumAccounts) \in Nat
          /\ SumBelow(g, NumAccounts) = SumBelow(f, NumAccounts) + delta
      BY <2>3, <3>1, AccountSumMove
    <3>4. totals[q][w] \in Int BY <1>2
    <3>5. SumBelow(g, NumAccounts) <= totals'[q][w] BY <2>2, <3>2, <3>3, <3>4
    <3>6. QED BY <3>5 DEF StakedOn, g
  <2>5. CASE ~(q = p /\ w = o)
    <3>1. g = f /\ totals'[q][w] = totals[q][w] BY <1>2, <1>3, <2>5
    <3>2. QED BY <2>2, <3>1 DEF StakedOn
  <2>6. QED BY <2>4, <2>5
<1>7. ASSUME NEW q \in Pools, NEW v \in Accounts
      PROVE  totalBet'[q][v] = SumBelow(stake'[q][v], NumOutcomes)
  <2> DEFINE f == stake[q][v]
             g == stake'[q][v]
  <2>1. totalBet[q][v] = SumBelow(f, NumOutcomes) BY DEF StakeBooks
  <2>2. CASE q = p /\ v = u
    <3>1. g[o] = f[o] + delta /\ \A w \in Outcomes : w # o => g[w] = f[w]
      BY <1>2, <1>3, <2>2
    <3>2. f \in [Outcomes -> Nat] /\ g \in [Outcomes -> Nat] BY <1>2, <1>5
    <3>3. totalBet'[q][v] = totalBet[q][v] + delta BY <1>2, <1>3, <2>2
    <3> HIDE DEF f, g
    <3>4. SumBelow(g, NumOutcomes) = SumBelow(f, NumOutcomes) + delta
      BY <3>1, <3>2, OutcomeSumMove
    <3>5. totalBet'[q][v] = SumBelow(g, NumOutcomes) BY <2>1, <3>3, <3>4
    <3>6. QED BY <3>5 DEF g
  <2>3. CASE ~(q = p /\ v = u)
    <3>1. totalBet'[q][v] = totalBet[q][v] /\ g = f BY <1>2, <1>3, <2>3
    <3>2. QED BY <2>1, <3>1
  <2>4. QED BY <2>2, <2>3
<1>8. QED BY <1>5, <1>6, <1>7 DEF StakeBooks

(***************************************************************************)
(* place_bet and cancel_bet move the pool's and the bettor's books by the  *)
(* same amount, which may be negative down to the stake on the outcome.    *)
(***************************************************************************)
LEMMA MovedBooks ==
  ASSUME BookInv, NEW u \in Accounts, NEW p \in Pools, NEW o \in Outcomes,
         NEW delta \in Int, stake[p][u][o] + delta >= 0, MoveStake(u, p, o, delta)
  PROVE  /\ totals' \in [Pools -> [Outcomes -> Nat]]
         /\ sides' \in [Pools -> [{"a", "b"} -> Nat]]
         /\ stake' \in [Pools -> [Accounts -> [Outcomes -> Nat]]]
         /\ totalBet' \in [Pools -> [Accounts -> Nat]]
         /\ StakesWithinTotals'
         /\ \A q \in Pools : /\ sides'[q].a = totals'[q][0]
                             /\ sides'[q].a + sides'[q].b = SumBelow(totals'[q], NumOutcomes)
                             /\ \A v \in Accounts :
                                  totalBet'[q][v] = SumBelow(stake'[q][v], NumOutcomes)
         /\ \A q \in Pools : SumBelow(totalBet'[q], NumAccounts)
                               = SumBelow(totalBet[q], NumAccounts) + (IF q = p THEN delta ELSE 0)
<1>1. BookTypeOK /\ StakesWithinTotals /\ BooksAgree BY DEF BookInv
<1>2. /\ totals \in [Pools -> [Outcomes -> Nat]]
      /\ sides \in [Pools -> [{"a", "b"} -> Nat]]
      /\ stake \in [Pools -> [Accounts -> [Outcomes -> Nat]]]
      /\ totalBet \in [Pools -> [Accounts -> Nat]]
  BY <1>1 DEF BookTypeOK
<1>3. /\ totals' = [totals EXCEPT ![p][o] = @ + delta]
      /\ sides' = [sides EXCEPT ![p][Side(o)] = @ + delta]
      /\ stake' = [stake EXCEPT ![p][u][o] = @ + delta]
      /\ totalBet' = [totalBet EXCEPT ![p][u] = @ + delta]
  BY DEF MoveStake
<1>4. /\ totals[p][o] + delta \in Nat /\ sides[p][Side(o)] + delta \in Nat
      /\ stake[p][u][o] + delta \in Nat /\ totalBet[p][u] + delta \in Nat
  <2>1. Side(o) \in {"a", "b"} BY DEF Side
  <2>2. totals[p][o] \in Nat /\ sides[p][Side(o)] \in Nat /\ totalBet[p][u] \in Nat
    BY <1>2, <2>1
  <2>3. QED BY <2>2, SideCoversOutcome, BooksOfStakes, StakeIsCovered
<1>5. /\ totals' \in [Pools -> [Outcomes -> Nat]]
      /\ sides' \in [Pools -> [{"a", "b"} -> Nat]]
      /\ stake' \in [Pools -> [Accounts -> [Outcomes -> Nat]]]
      /\ totalBet' \in [Pools -> [Accounts -> Nat]]
  <2>1. Side(o) \in {"a", "b"} BY DEF Side
  <2>2. totals' \in [Pools -> [Outcomes -> Nat]] BY <1>2, <1>3, <1>4
  <2>3. sides' \in [Pools -> [{"a", "b"} -> Nat]] BY <1>2, <1>3, <1>4, <2>1
  <2>4. stake' \in [Pools -> [Accounts -> [Outcomes -> Nat]]] BY <1>2, <1>3, <1>4
  <2>5. totalBet' \in [Pools -> [Accounts -> Nat]] BY <1>2, <1>3, <1>4
  <2>6. QED BY <2>2, <2>3, <2>4, <2>5
<1>6. StakeBooks' BY <1>3, BooksOfStakes, MovedStakes
<1>7. ASSUME NEW q \in Pools
      PROVE  /\ sides'[q].a = totals'[q][0]
             /\ sides'[q].a + sides'[q].b = SumBelow(totals'[q], NumOutcomes)
  <2> DEFINE f == totals[q]
             g == totals'[q]
  <2>1. sides[q].a = f[0] /\ sides[q].a + sides[q].b = SumBelow(f, NumOutcomes)
    BY <1>1 DEF BooksAgree, PoolTotal
  <2>2. CASE q = p
    <3>1. g[o] = f[o] + delta /\ \A w \in Outcomes : w # o => g[w] = f[w]
      BY <1>2, <1>3, <2>2
    <3>2. f \in [Outcomes -> Nat] /\ g \in [Outcomes -> Nat] BY <1>2, <1>5
    <3>3. 0 \in Outcomes BY Sizes DEF Outcomes
    <3>4. /\ sides'[q].a = sides[q].a + (IF o = 0 THEN delta ELSE 0)
          /\ sides'[q].b = sides[q].b + (IF o = 0 THEN 0 ELSE delta)
      BY <1>2, <1>3, <2>2 DEF Side
    <3>5. sides[q].a \in Nat /\ sides[q].b \in Nat BY <1>2
    <3> HIDE DEF f, g
    <3>6. SumBelow(g, NumOutcomes) = SumBelow(f, NumOutcomes) + delta
      BY <3>1, <3>2, OutcomeSumMove
    <3>7. sides'[q].a = g[0] BY <2>1, <3>1, <3>2, <3>3, <3>4
    <3>8. sides'[q].a + sides'[q].b = SumBelow(g, NumOutcomes)
      BY <2>1, <3>4, <3>5, <3>6
    <3>9. QED BY <3>7, <3>8 DEF g
  <2>3. CASE q # p
    <3>1. sides'[q] = sides[q] /\ g = f BY <1>2, <1>3, <2>3
    <3>2. QED BY <2>1, <3>1
  <2>4. QED BY <2>2, <2>3
<1>8. ASSUME NEW q \in Pools
      PROVE  SumBelow(totalBet'[q], NumAccounts)
               = SumBelow(totalBet[q], NumAccounts) + (IF q = p THEN delta ELSE 0)
  <2> DEFINE f == totalBet[q]
             g == totalBet'[q]
  <2>1. f \in [Accounts -> Nat] /\ g \in [Accounts -> Nat] BY <1>2, <1>5
  <2>2. CASE q = p
    <3>1. g[u] = f[u] + delta /\ \A v \in Accounts : v # u => g[v] = f[v]
      BY <1>2, <1>3, <2>2
    <3> HIDE DEF f, g
    <3>2. SumBelow(g, NumAccounts) = SumBelow(f, NumAccounts) + delta
      BY <2>1, <3>1, AccountSumMove
    <3>3. QED BY <2>2, <3>2 DEF f, g
  <2>3. CASE q # p
    <3>1. g = f BY <1>2, <1>3, <2>3
    <3> HIDE DEF g, f
    <3>2. SumBelow(f, NumAccounts) \in Int BY <2>1, Sizes, SumInt DEF Accounts
    <3>3. QED BY <2>3, <3>1, <3>2 DEF f, g
  <2>4. QED BY <2>2, <2>3
<1>9. QED BY <1>5, <1>6, <1>7, <1>8 DEF StakeBooks

(***************************************************************************)
(* The bets that the accounts who[q] have in each pool q are deleted.      *)
(***************************************************************************)
StakesDeleted(who) ==
  /\ stake' = [q \in Pools |-> [u \in Accounts |->
                 IF u \in who[q] THEN [o \in Outcomes |-> 0] ELSE stake[q][u]]]
  /\ totalBet' = [q \in Pools |-> [u \in Accounts |->
                    IF u \in who[q] THEN 0 ELSE totalBet[q][u]]]
  /\ totals' = totals

BetsDeleted(who) ==
  /\ StakesDeleted(who)
  /\ hasBet' = [q \in Pools |-> hasBet[q] \ who[q]]
  /\ UNCHANGED <<sides, volume, bettors, participants>>

(* Deleting bets keeps the stakes within the totals.                       *)
LEMMA DeletedStakes ==
  ASSUME StakeBooks, NEW who, StakesDeleted(who)
  PROVE  StakeBooks'
<1>1. StakesWithinTotals BY DEF StakeBooks
<1>2. totals' = totals BY DEF StakesDeleted
<1>3. /\ stake \in [Pools -> [Accounts -> [Outcomes -> Nat]]]
      /\ totalBet \in [Pools -> [Accounts -> Nat]]
      /\ totals \in [Pools -> [Outcomes -> Nat]]
  BY DEF StakeBooks
<1>4. \A q \in Pools, u \in Accounts :
        /\ totalBet'[q][u] = IF u \in who[q] THEN 0 ELSE totalBet[q][u]
        /\ stake'[q][u] = IF u \in who[q] THEN [o \in Outcomes |-> 0] ELSE stake[q][u]
  BY DEF StakesDeleted
<1>5. /\ stake' \in [Pools -> [Accounts -> [Outcomes -> Nat]]]
      /\ totalBet' \in [Pools -> [Accounts -> Nat]]
  <2>1. \A q \in Pools, u \in Accounts :
          (IF u \in who[q] THEN [o \in Outcomes |-> 0] ELSE stake[q][u]) \in [Outcomes -> Nat]
    BY <1>3
  <2>2. \A q \in Pools, u \in Accounts : (IF u \in who[q] THEN 0 ELSE totalBet[q][u]) \in Nat
    BY <1>3
  <2>3. QED BY <1>3, <2>1, <2>2 DEF StakesDeleted
<1>6. StakesWithinTotals'
  <2>1. SUFFICES ASSUME NEW q \in Pools, NEW o \in Outcomes
                 PROVE  StakedOn(q, o)' <= totals'[q][o]
    BY DEF StakesWithinTotals
  <2> DEFINE f == [v \in Accounts |-> stake[q][v][o]]
             g == [v \in Accounts |-> stake'[q][v][o]]
  <2>2. SumBelow(f, NumAccounts) <= totals[q][o] /\ totals[q][o] \in Nat
    BY <1>1, <1>3 DEF StakesWithinTotals, StakedOn
  <2>3. f \in [Accounts -> Nat] /\ g \in [Accounts -> Nat] BY <1>3, <1>5
  <2>4. \A v \in Accounts : g[v] <= f[v]
    <3>1. TAKE v \in Accounts
    <3>2. stake'[q][v] = stake[q][v] \/ stake'[q][v] = [w \in Outcomes |-> 0]
      BY <1>4
    <3>3. stake'[q][v][o] = stake[q][v][o] \/ stake'[q][v][o] = 0 BY <3>2
    <3>4. stake[q][v][o] \in Nat BY <1>3
    <3>5. QED BY <3>3, <3>4
  <2> HIDE DEF f, g
  <2>5. \A v \in 0 .. NumAccounts - 1 : g[v] \in Int /\ f[v] \in Int /\ g[v] <= f[v]
    BY <2>3, <2>4 DEF Accounts
  <2>6. NumAccounts \in Nat BY Sizes
  <2>7. SumBelow(g, NumAccounts) <= SumBelow(f, NumAccounts) BY <2>5, <2>6, SumOrder
  <2>8. SumBelow(f, NumAccounts) \in Int /\ SumBelow(g, NumAccounts) \in Int
    BY <2>5, <2>6, SumInt
  <2>9. SumBelow(g, NumAccounts) <= totals'[q][o] BY <1>2, <2>2, <2>7, <2>8
  <2>10. QED BY <2>9 DEF StakedOn, g
<1>7. ASSUME NEW q \in Pools, NEW v \in Accounts
      PROVE  totalBet'[q][v] = SumBelow(stake'[q][v], NumOutcomes)
  <2>1. totalBet[q][v] = SumBelow(stake[q][v], NumOutcomes) BY DEF StakeBooks
  <2>2. CASE v \in who[q]
    <3> DEFINE g == [o \in Outcomes |-> 0]
    <3>1. stake'[q][v] = g /\ totalBet'[q][v] = 0 BY <1>4, <2>2
    <3>2. \A i \in 0 .. NumOutcomes - 1 : g[i] = 0 BY DEF Outcomes
    <3>3. NumOutcomes \in Nat BY Sizes
    <3> HIDE DEF g
    <3>4. SumBelow(g, NumOutcomes) = 0 BY <3>2, <3>3, SumZero
    <3>5. QED BY <3>1, <3>4
  <2>3. CASE v \notin who[q]
    <3>1. stake'[q][v] = stake[q][v] /\ totalBet'[q][v] = totalBet[q][v]
      BY <1>4, <2>3
    <3>2. QED BY <2>1, <3>1
  <2>4. QED BY <2>2, <2>3
<1>8. QED BY <1>2, <1>3, <1>5, <1>6, <1>7 DEF StakeBooks

(***************************************************************************)
(* Deleting bets keeps the books: the stakes and the totals of a bettor go *)
(* to zero together, and the outcome totals stay.                          *)
(***************************************************************************)
LEMMA DeletedBooks ==
  ASSUME BookInv, NEW who, BetsDeleted(who)
  PROVE  BookInv'
<1>1. BookTypeOK /\ StakesWithinTotals /\ BooksAgree /\ RefundListComplete BY DEF BookInv
<1>2. /\ StakesDeleted(who)
      /\ hasBet' = [q \in Pools |-> hasBet[q] \ who[q]]
      /\ UNCHANGED <<totals, sides, volume, bettors, participants>>
  BY DEF BetsDeleted, StakesDeleted
<1>3. StakeBooks' BY <1>2, BooksOfStakes, DeletedStakes
<1>4. hasBet \in [Pools -> SUBSET Accounts] BY <1>1 DEF BookTypeOK
<1>5. \A q \in Pools, u \in Accounts :
        totalBet'[q][u] = IF u \in who[q] THEN 0 ELSE totalBet[q][u]
  BY <1>2 DEF StakesDeleted
<1>6. hasBet' \in [Pools -> SUBSET Accounts] BY <1>2, <1>4
<1>7. BookTypeOK'
  BY <1>1, <1>2, <1>3, <1>6 DEF BookTypeOK, StakeBooks
<1>8. BooksAgree'
  <2>1. ASSUME NEW q \in Pools, NEW v \in Accounts, totalBet'[q][v] > 0
        PROVE  v \in hasBet'[q]
    <3>1. totalBet[q][v] > 0 => v \in hasBet[q] BY <1>1 DEF BooksAgree
    <3>2. v \notin who[q] BY <1>5, <2>1
    <3>3. QED BY <1>2, <1>5, <2>1, <3>1, <3>2
  <2>2. ASSUME NEW q \in Pools
        PROVE  sides'[q].a = totals'[q][0] /\ sides'[q].a + sides'[q].b = PoolTotal(q)'
    BY <1>1, <1>2 DEF BooksAgree, PoolTotal
  <2>3. QED BY <1>3, <2>1, <2>2 DEF BooksAgree, StakeBooks
<1>9. RefundListComplete'
  <2>1. SUFFICES ASSUME NEW q \in Pools, NEW v \in Accounts, totalBet'[q][v] > 0
                 PROVE  v \in bettors'[q]
    BY DEF RefundListComplete
  <2>2. totalBet[q][v] > 0
    BY <1>5, <2>1
  <2>3. QED BY <1>1, <1>2, <2>2 DEF RefundListComplete
<1>10. QED BY <1>3, <1>7, <1>8, <1>9 DEF BookInv, StakeBooks

(* The bets of one pool are such a set.                                    *)
OfPool(p, who) == [q \in Pools |-> IF q = p THEN who ELSE {}]

LEMMA RemovedStakes ==
  ASSUME StakeBooks, NEW p \in Pools, NEW who \in SUBSET Accounts, RemoveBets(p, who)
  PROVE  /\ StakeBooks' /\ StakesDeleted(OfPool(p, who))
         /\ \A q \in Pools : q # p => totalBet'[q] = totalBet[q] /\ stake'[q] = stake[q]
         /\ \A u \in Accounts :
              /\ totalBet'[p][u] = IF u \in who THEN 0 ELSE totalBet[p][u]
              /\ stake'[p][u] = IF u \in who THEN [o \in Outcomes |-> 0] ELSE stake[p][u]
<1>1. /\ stake' = [stake EXCEPT ![p] =
                     [u \in Accounts |-> IF u \in who THEN [o \in Outcomes |-> 0] ELSE @[u]]]
      /\ totalBet' = [totalBet EXCEPT ![p] =
                        [u \in Accounts |-> IF u \in who THEN 0 ELSE @[u]]]
      /\ totals' = totals
  BY DEF RemoveBets
<1>2. /\ stake \in [Pools -> [Accounts -> [Outcomes -> Nat]]]
      /\ totalBet \in [Pools -> [Accounts -> Nat]]
  BY DEF StakeBooks
<1>3. \A q \in Pools : q # p => totalBet'[q] = totalBet[q] /\ stake'[q] = stake[q]
  BY <1>1, <1>2
<1>4. \A u \in Accounts :
        /\ totalBet'[p][u] = IF u \in who THEN 0 ELSE totalBet[p][u]
        /\ stake'[p][u] = IF u \in who THEN [o \in Outcomes |-> 0] ELSE stake[p][u]
  BY <1>1, <1>2
<1>5. stake' = [q \in Pools |-> [u \in Accounts |->
                  IF u \in OfPool(p, who)[q] THEN [o \in Outcomes |-> 0] ELSE stake[q][u]]]
  BY <1>1, <1>2 DEF OfPool
<1>6. totalBet' = [q \in Pools |-> [u \in Accounts |->
                     IF u \in OfPool(p, who)[q] THEN 0 ELSE totalBet[q][u]]]
  BY <1>1, <1>2 DEF OfPool
<1>7. StakesDeleted(OfPool(p, who)) BY <1>1, <1>5, <1>6 DEF StakesDeleted
<1>8. StakeBooks' BY <1>7, DeletedStakes
<1>9. QED BY <1>3, <1>4, <1>7, <1>8

LEMMA RemovedBooks ==
  ASSUME BookInv, NEW p \in Pools, NEW who \in SUBSET Accounts, RemoveBets(p, who)
  PROVE  /\ BookInv'
         /\ \A q \in Pools : q # p => totalBet'[q] = totalBet[q]
         /\ \A u \in Accounts : totalBet'[p][u] = IF u \in who THEN 0 ELSE totalBet[p][u]
<1>1. StakeBooks BY BooksOfStakes
<1>2. hasBet \in [Pools -> SUBSET Accounts] BY DEF BookInv, BookTypeOK
<1>3. hasBet' = [hasBet EXCEPT ![p] = @ \ who] /\ UNCHANGED <<sides, volume, bettors, participants>>
  BY DEF RemoveBets
<1>4. hasBet' = [q \in Pools |-> hasBet[q] \ OfPool(p, who)[q]] BY <1>2, <1>3 DEF OfPool
<1>5. BetsDeleted(OfPool(p, who)) BY <1>1, <1>3, <1>4, RemovedStakes DEF BetsDeleted
<1>6. BookInv' BY <1>5, DeletedBooks
<1>7. QED BY <1>1, <1>6, RemovedStakes

-----------------------------------------------------------------------------
(* The money and the limits of a change to the books.                      *)

(***************************************************************************)
(* A pool whose escrow follows its stakes stays funded: the money conjunct *)
(* of every step that moves stake without paying a winner.                 *)
(***************************************************************************)
LEMMA EscrowFollows ==
  ASSUME UnclaimedPoolFunded, MoneyTypeOK, NEW p \in Pools, NEW delta \in Int,
         \A q \in Pools : SumBelow(totalBet[q], NumAccounts) \in Int,
         \A q \in Pools : SumBelow(totalBet'[q], NumAccounts)
                            = SumBelow(totalBet[q], NumAccounts) + (IF q = p THEN delta ELSE 0),
         escrow' = [escrow EXCEPT ![p] = @ + delta], payout' = payout
  PROVE  UnclaimedPoolFunded'
<1>1. SUFFICES ASSUME NEW q \in Pools, ~payout[q].feeCredited
               PROVE  escrow'[q] = SumBelow(totalBet'[q], NumAccounts)
  BY DEF UnclaimedPoolFunded, Refundable
<1>2. escrow[q] = SumBelow(totalBet[q], NumAccounts)
  BY <1>1 DEF UnclaimedPoolFunded, Refundable
<1>3. escrow'[q] = escrow[q] + (IF q = p THEN delta ELSE 0)
  BY DEF MoneyTypeOK
<1>4. QED BY <1>2, <1>3

LEMMA RefundableType ==
  ASSUME BookTypeOK, NEW p \in Pools
  PROVE  SumBelow(totalBet[p], NumAccounts) \in Nat
<1>1. totalBet[p] \in [Accounts -> Nat] BY DEF BookTypeOK
<1>2. \A i \in 0 .. NumAccounts - 1 : totalBet[p][i] \in Nat BY <1>1 DEF Accounts
<1>3. NumAccounts \in Nat BY Sizes
<1>4. QED BY <1>2, <1>3, SumNat

LEMMA WindowType ==
  ASSUME NEW w \in Windows, NEW t \in Int, NEW length \in Nat, NEW amount \in Nat
  PROVE  /\ Add(Window(w, t, length), amount) \in Windows
         /\ Add(LossWindow(w, t, length), amount) \in Windows
<1>1. Window(w, t, length) \in Windows BY DEF Window, Windows
<1>2. LossWindow(w, t, length) \in Windows BY <1>1 DEF LossWindow
<1>3. \A x \in Windows : Add(x, amount) \in Windows BY DEF Add, Windows
<1>4. QED BY <1>1, <1>2, <1>3

(* Recording a bet raises the exposure with the stake.                     *)
LEMMA RecordedLimits ==
  ASSUME LimitInv, BookTypeOK, NEW u \in Accounts, NEW p \in Pools,
         NEW gross \in Nat, NEW net \in Nat, NEW t \in Nat,
         RecordBet(u, p, gross, net, t),
         totalBet' = [totalBet EXCEPT ![p][u] = @ + net]
  PROVE  LimitInv'
<1>1. LimitsTypeOK /\ ExposureCoversStake BY DEF LimitInv
<1>2. RateWindow \in Nat /\ DailyWindow \in Nat /\ WeeklyWindow \in Nat
  BY LimitsAssumption
<1>3. betRate' \in [Accounts -> Windows]
  <2>1. betRate \in [Accounts -> Windows] BY <1>1 DEF LimitsTypeOK
  <2>2. Add(Window(betRate[u], t, RateWindow), 1) \in Windows
    <3>1. betRate[u] \in Windows /\ t \in Int /\ 1 \in Nat BY <2>1
    <3>2. QED BY <1>2, <3>1, WindowType, Zenon
  <2>3. betRate' = [betRate EXCEPT ![u] = Add(Window(betRate[u], t, RateWindow), 1)]
        \/ betRate' = betRate
    BY DEF RecordBet
  <2>4. QED BY <2>1, <2>2, <2>3
<1>4. dailyLoss' \in [Accounts -> Windows]
  <2>1. dailyLoss \in [Accounts -> Windows] BY <1>1 DEF LimitsTypeOK
  <2>2. Add(LossWindow(dailyLoss[u], t, DailyWindow), gross) \in Windows
    BY <1>2, <2>1, WindowType
  <2>3. dailyLoss' = [dailyLoss EXCEPT ![u] = Add(LossWindow(dailyLoss[u], t, DailyWindow), gross)]
        \/ dailyLoss' = dailyLoss
    BY DEF RecordBet
  <2>4. QED BY <2>1, <2>2, <2>3
<1>5. weeklyLoss' \in [Accounts -> Windows]
  <2>1. weeklyLoss \in [Accounts -> Windows] BY <1>1 DEF LimitsTypeOK
  <2>2. Add(LossWindow(weeklyLoss[u], t, WeeklyWindow), gross) \in Windows
    BY <1>2, <2>1, WindowType
  <2>3. weeklyLoss' = [weeklyLoss EXCEPT ![u] = Add(LossWindow(weeklyLoss[u], t, WeeklyWindow), gross)]
        \/ weeklyLoss' = weeklyLoss
    BY DEF RecordBet
  <2>4. QED BY <2>1, <2>2, <2>3
<1>6. lastLargeBet' \in [Pools -> [Accounts -> Int]]
  BY <1>1 DEF LimitsTypeOK, RecordBet
<1>7. /\ exposure' = [exposure EXCEPT ![p][u] = @ + net]
      /\ exposure \in [Pools -> [Accounts -> Nat]]
      /\ totalBet \in [Pools -> [Accounts -> Nat]]
  BY <1>1 DEF LimitsTypeOK, BookTypeOK, RecordBet, Raised
<1>8. exposure' \in [Pools -> [Accounts -> Nat]] BY <1>7
<1>9. ExposureCoversStake'
  <2>1. SUFFICES ASSUME NEW q \in Pools, NEW v \in Accounts
                 PROVE  totalBet'[q][v] <= exposure'[q][v]
    BY DEF ExposureCoversStake
  <2>2. totalBet[q][v] <= exposure[q][v] BY <1>1 DEF ExposureCoversStake
  <2>3. totalBet[q][v] \in Nat /\ exposure[q][v] \in Nat BY <1>7
  <2>4. QED BY <1>7, <2>2, <2>3
<1>10. QED BY <1>3, <1>4, <1>5, <1>6, <1>8, <1>9 DEF LimitInv, LimitsTypeOK

(* Paying back no more than the stake keeps the exposure above it.         *)
LEMMA ReducedLimits ==
  ASSUME LimitInv, NEW p \in Pools, NEW cut \in [Accounts -> Nat],
         ReduceExposure(p, cut),
         BookTypeOK, BookTypeOK',
         \A q \in Pools : q # p => totalBet'[q] = totalBet[q],
         \A v \in Accounts : totalBet'[p][v] = 0 \/ (cut[v] = 0 /\ totalBet'[p][v] = totalBet[p][v])
  PROVE  LimitInv'
<1>1. LimitsTypeOK /\ ExposureCoversStake BY DEF LimitInv
<1>2. /\ exposure \in [Pools -> [Accounts -> Nat]]
      /\ exposure' = [exposure EXCEPT ![p] = [u \in Accounts |-> Reduced(@[u], cut[u])]]
      /\ UNCHANGED <<betRate, dailyLoss, weeklyLoss, lastLargeBet>>
  BY <1>1 DEF LimitsTypeOK, ReduceExposure
<1>3. \A v \in Accounts : Reduced(exposure[p][v], cut[v]) \in Nat
  BY <1>2 DEF Reduced
<1>4. exposure' \in [Pools -> [Accounts -> Nat]]
  BY <1>2, <1>3
<1>5. ExposureCoversStake'
  <2>1. SUFFICES ASSUME NEW q \in Pools, NEW v \in Accounts
                 PROVE  totalBet'[q][v] <= exposure'[q][v]
    BY DEF ExposureCoversStake
  <2>2. totalBet[q][v] <= exposure[q][v] BY <1>1 DEF ExposureCoversStake
  <2>3. totalBet[q][v] \in Nat /\ exposure[q][v] \in Nat /\ exposure'[q][v] \in Nat
    BY <1>2, <1>4 DEF BookTypeOK
  <2>4. CASE q # p
    BY <1>2, <2>2, <2>4
  <2>5. CASE q = p
    <3>1. exposure'[p][v] = Reduced(exposure[p][v], cut[v]) BY <1>2
    <3>2. CASE totalBet'[p][v] = 0 BY <2>3, <2>5, <3>2
    <3>3. CASE cut[v] = 0 /\ totalBet'[p][v] = totalBet[p][v]
      BY <2>2, <2>3, <2>5, <3>1, <3>3 DEF Reduced
    <3>4. QED BY <3>2, <3>3
  <2>6. QED BY <2>4, <2>5
<1>6. QED BY <1>1, <1>2, <1>4, <1>5 DEF LimitInv, LimitsTypeOK

-----------------------------------------------------------------------------
(* Every action preserves the invariant.                                   *)

LEMMA PlaceBetKeeps ==
  ASSUME MarketInv, NEW u \in Accounts, NEW p \in Pools, NEW o \in Outcomes,
         NEW amount \in BetAmounts, PlaceBet(u, p, o, amount)
  PROVE  MarketInv'
<1> DEFINE net == amount - Bps(amount, PlaceFeeBps)
           first == FirstBet(u, p)
<1>1. now \in Nat /\ ConfigTypeOK /\ LifeInv /\ BookInv /\ MoneyInv /\ LimitInv
  BY DEF MarketInv
<1>2. amount \in Nat /\ net \in Nat
  <2>1. amount \in Nat BY MarketAssumption
  <2>2. QED BY <2>1, Sizes, BpsRange
<1>3. BookTypeOK /\ BooksAgree /\ RefundListComplete BY <1>1 DEF BookInv
<1>4. /\ balance' = balance + net
      /\ escrow' = [escrow EXCEPT ![p] = @ + net]
      /\ MoveStake(u, p, o, net)
      /\ volume' = [volume EXCEPT ![p] = @ + net]
      /\ hasBet' = [hasBet EXCEPT ![p] = @ \cup {u}]
      /\ bettors' = [bettors EXCEPT ![p] = IF first THEN @ \cup {u} ELSE @]
      /\ participants' = [participants EXCEPT ![p] = IF first THEN @ + 1 ELSE @]
      /\ RecordBet(u, p, amount, net, now)
      /\ UNCHANGED <<now, configVars, pool, winner, settledAt, settleFee, lockedFee,
                     fresh, payout, credited, treasury, withdrawn>>
  BY DEF PlaceBet
<1> HIDE DEF net
<1>5. stake[p][u][o] + net >= 0
  BY <1>1, <1>2, BooksOfStakes, StakeIsCovered
<1>6. BookInv'
  <2>1. /\ volume' \in [Pools -> Nat] /\ participants' \in [Pools -> Nat]
        /\ hasBet' \in [Pools -> SUBSET Accounts] /\ bettors' \in [Pools -> SUBSET Accounts]
    BY <1>2, <1>3, <1>4 DEF BookTypeOK
  <2>2. BookTypeOK' BY <1>1, <1>2, <1>4, <1>5, <2>1, MovedBooks DEF BookTypeOK
  <2>3. totalBet' = [totalBet EXCEPT ![p][u] = @ + net] BY <1>4 DEF MoveStake
  <2>4. \A q \in Pools, v \in Accounts :
          ~(q = p /\ v = u) => totalBet'[q][v] = totalBet[q][v]
    BY <1>3, <2>3 DEF BookTypeOK
  <2>5. ASSUME NEW q \in Pools, NEW v \in Accounts, totalBet'[q][v] > 0
        PROVE  v \in hasBet'[q]
    <3>1. totalBet[q][v] > 0 => v \in hasBet[q] BY <1>3 DEF BooksAgree
    <3>2. QED BY <1>3, <1>4, <2>4, <2>5, <3>1 DEF BookTypeOK
  <2>6. BooksAgree'
    <3>1. \A q \in Pools : /\ sides'[q].a = totals'[q][0]
                           /\ sides'[q].a + sides'[q].b = SumBelow(totals'[q], NumOutcomes)
                           /\ \A v \in Accounts :
                                totalBet'[q][v] = SumBelow(stake'[q][v], NumOutcomes)
      BY <1>1, <1>2, <1>4, <1>5, MovedBooks
    <3>2. QED BY <2>5, <3>1 DEF BooksAgree, PoolTotal
  <2>7. RefundListComplete'
    <3>1. SUFFICES ASSUME NEW q \in Pools, NEW v \in Accounts, totalBet'[q][v] > 0
                   PROVE  v \in bettors'[q]
      BY DEF RefundListComplete
    <3>2. bettors[q] \subseteq bettors'[q] BY <1>3, <1>4 DEF BookTypeOK
    <3>3. CASE totalBet[q][v] > 0 BY <1>3, <3>2, <3>3 DEF RefundListComplete
    <3>4. CASE ~(totalBet[q][v] > 0)
      <4>1. totalBet[q][v] \in Nat BY <1>3 DEF BookTypeOK
      <4>2. q = p /\ v = u BY <2>4, <3>1, <3>4
      <4>3. totalBet[q][v] = 0 BY <3>4, <4>1
      <4>4. first BY <4>2, <4>3 DEF FirstBet
      <4>5. QED BY <1>3, <1>4, <4>2, <4>4 DEF BookTypeOK
    <3>5. QED BY <3>3, <3>4
  <2>8. StakesWithinTotals' BY <1>1, <1>2, <1>4, <1>5, MovedBooks
  <2>9. QED BY <2>2, <2>6, <2>7, <2>8 DEF BookInv
<1>7. MoneyInv'
  <2>1. MoneyTypeOK'
    BY <1>1, <1>2, <1>4 DEF MoneyInv, MoneyTypeOK
  <2>2. \A q \in Pools : SumBelow(totalBet'[q], NumAccounts)
          = SumBelow(totalBet[q], NumAccounts) + (IF q = p THEN net ELSE 0)
    BY <1>1, <1>2, <1>4, <1>5, MovedBooks
  <2>3. \A q \in Pools : SumBelow(totalBet[q], NumAccounts) \in Int
    BY <1>3, RefundableType
  <2>4. UnclaimedPoolFunded'
    <3>1. UnclaimedPoolFunded /\ MoneyTypeOK BY <1>1 DEF MoneyInv
    <3>2. net \in Int /\ payout' = payout /\ escrow' = [escrow EXCEPT ![p] = @ + net]
      BY <1>2, <1>4
    <3>3. QED BY <2>2, <2>3, <3>1, <3>2, EscrowFollows
  <2>5. QED BY <2>1, <2>4 DEF MoneyInv
<1>8. LimitInv'
  BY <1>1, <1>2, <1>3, <1>4, RecordedLimits DEF MoveStake
<1>9. LifeInv'
  <2>1. /\ \E s \in {"Frozen", "Open"} : status' = [status EXCEPT ![p] = s]
        /\ \E t \in Int : coolingUntil' = [coolingUntil EXCEPT ![p] = t]
    <3>1. coolingUntil[p] \in Int /\ now + CoolingPeriod \in Int /\ Never \in Int
      BY <1>1, MarketAssumption DEF LifeInv, LifeTypeOK, Never
    <3>2. QED BY <3>1 DEF PlaceBet
  <2>2. LifeTypeOK'
    BY <1>1, <1>4, <2>1 DEF LifeInv, LifeTypeOK, Statuses
  <2>3. WinnerDeclared'
    BY <1>1, <1>4, <2>1 DEF LifeInv, LifeTypeOK, WinnerDeclared
  <2>4. QED BY <2>2, <2>3 DEF LifeInv
<1>10. now' \in Nat /\ ConfigTypeOK' BY <1>1, <1>4, ConfigKept
<1>11. QED BY <1>6, <1>7, <1>8, <1>9, <1>10 DEF MarketInv

LEMMA CancelBetKeeps ==
  ASSUME MarketInv, NEW u \in Accounts, NEW p \in Pools, NEW o \in Outcomes,
         NEW amount \in CancelAmounts, CancelBet(u, p, o, amount)
  PROVE  MarketInv'
<1>1. now \in Nat /\ ConfigTypeOK /\ LifeInv /\ BookInv /\ MoneyInv /\ LimitInv
  BY DEF MarketInv
<1>2. amount \in Nat /\ amount > 0 /\ -amount \in Int
  BY MarketAssumption DEF CancelBet, MayCancel
<1>3. BookTypeOK /\ BooksAgree /\ RefundListComplete BY <1>1 DEF BookInv
<1>4. /\ amount <= stake[p][u][o] /\ amount <= balance
      /\ balance' = balance - amount
      /\ escrow' = [escrow EXCEPT ![p] = @ - amount]
      /\ MoveStake(u, p, o, -amount)
      /\ UNCHANGED <<now, configVars, lifeVars, volume, hasBet, bettors, participants,
                     payout, credited, treasury, withdrawn, limitVars>>
  BY DEF CancelBet, MayCancel
<1>5. stake[p][u][o] + (-amount) >= 0
  BY <1>1, <1>2, <1>4, BooksOfStakes, StakeIsCovered
<1>6. /\ totalBet' = [totalBet EXCEPT ![p][u] = @ + (-amount)]
      /\ totalBet \in [Pools -> [Accounts -> Nat]]
  BY <1>3, <1>4 DEF MoveStake, BookTypeOK
<1>7. \A q \in Pools, v \in Accounts : totalBet'[q][v] <= totalBet[q][v]
  BY <1>2, <1>6
<1>8. BookInv'
  <2>1. BookTypeOK' BY <1>1, <1>2, <1>3, <1>4, <1>5, MovedBooks DEF BookTypeOK
  <2>2. totalBet' \in [Pools -> [Accounts -> Nat]] BY <2>1 DEF BookTypeOK
  <2>3. \A q \in Pools, v \in Accounts : totalBet'[q][v] > 0 => totalBet[q][v] > 0
    <3>1. TAKE q \in Pools, v \in Accounts
    <3>2. totalBet'[q][v] \in Nat /\ totalBet[q][v] \in Nat BY <1>6, <2>2
    <3>3. totalBet'[q][v] <= totalBet[q][v] BY <1>7
    <3>4. QED BY <3>2, <3>3
  <2>4. BooksAgree'
    <3>1. \A q \in Pools : /\ sides'[q].a = totals'[q][0]
                           /\ sides'[q].a + sides'[q].b = SumBelow(totals'[q], NumOutcomes)
                           /\ \A v \in Accounts :
                                totalBet'[q][v] = SumBelow(stake'[q][v], NumOutcomes)
      BY <1>1, <1>2, <1>4, <1>5, MovedBooks
    <3>2. \A q \in Pools, v \in Accounts : totalBet'[q][v] > 0 => v \in hasBet'[q]
      BY <1>3, <1>4, <2>3 DEF BooksAgree
    <3>3. QED BY <3>1, <3>2 DEF BooksAgree, PoolTotal
  <2>5. RefundListComplete' BY <1>3, <1>4, <2>3 DEF RefundListComplete
  <2>6. StakesWithinTotals' BY <1>1, <1>2, <1>4, <1>5, MovedBooks
  <2>7. QED BY <2>1, <2>4, <2>5, <2>6 DEF BookInv
<1>9. MoneyInv'
  <2>1. MoneyTypeOK' BY <1>1, <1>2, <1>4 DEF MoneyInv, MoneyTypeOK
  <2>2. \A q \in Pools : SumBelow(totalBet'[q], NumAccounts)
          = SumBelow(totalBet[q], NumAccounts) + (IF q = p THEN -amount ELSE 0)
    BY <1>1, <1>2, <1>4, <1>5, MovedBooks
  <2>3. \A q \in Pools : SumBelow(totalBet[q], NumAccounts) \in Int
    BY <1>3, RefundableType
  <2>4. escrow' = [escrow EXCEPT ![p] = @ + (-amount)]
    BY <1>1, <1>2, <1>4 DEF MoneyInv, MoneyTypeOK
  <2>5. UnclaimedPoolFunded'
    BY <1>1, <1>2, <1>4, <2>2, <2>3, <2>4, EscrowFollows DEF MoneyInv
  <2>6. QED BY <2>1, <2>5 DEF MoneyInv
<1>10. LimitInv'
  <2>1. LimitsTypeOK /\ ExposureCoversStake BY <1>1 DEF LimitInv
  <2>2. LimitsTypeOK' BY <1>4, <2>1 DEF LimitsTypeOK, limitVars
  <2>3. ExposureCoversStake'
    <3>1. SUFFICES ASSUME NEW q \in Pools, NEW v \in Accounts
                   PROVE  totalBet'[q][v] <= exposure'[q][v]
      BY DEF ExposureCoversStake
    <3>2. totalBet[q][v] <= exposure[q][v] /\ exposure'[q][v] = exposure[q][v]
      BY <1>4, <2>1 DEF ExposureCoversStake, limitVars
    <3>3. totalBet'[q][v] <= totalBet[q][v] BY <1>7
    <3>4. totalBet[q][v] \in Nat /\ totalBet'[q][v] \in Nat /\ exposure[q][v] \in Nat
      <4>1. totalBet' \in [Pools -> [Accounts -> Nat]] BY <1>8 DEF BookInv, BookTypeOK
      <4>2. exposure \in [Pools -> [Accounts -> Nat]] BY <2>1 DEF LimitsTypeOK
      <4>3. QED BY <1>6, <4>1, <4>2
    <3>5. QED BY <3>2, <3>3, <3>4
  <2>4. QED BY <2>2, <2>3 DEF LimitInv
<1>11. now' \in Nat /\ ConfigTypeOK' /\ LifeInv' BY <1>1, <1>4, ConfigKept, LifeKept
<1>12. QED BY <1>8, <1>9, <1>10, <1>11 DEF MarketInv

(* A payment out of a pool that may be made leaves the money well typed.   *)
LEMMA PayOutType ==
  ASSUME MoneyTypeOK, NEW p \in Pools, NEW amount \in Nat, PayOut(p, amount)
  PROVE  /\ MoneyTypeOK'
         /\ escrow' = [escrow EXCEPT ![p] = @ + (-amount)] /\ payout' = payout
<1>1. /\ balance \in Nat /\ escrow \in [Pools -> Int] /\ amount <= balance
      /\ balance' = balance - amount
      /\ escrow' = [escrow EXCEPT ![p] = @ - amount]
      /\ UNCHANGED <<payout, credited, treasury, withdrawn>>
  BY DEF MoneyTypeOK, PayOut
<1>2. balance' \in Nat BY <1>1
<1>3. escrow[p] \in Int /\ escrow[p] - amount = escrow[p] + (-amount) BY <1>1
<1>4. escrow' = [escrow EXCEPT ![p] = @ + (-amount)] BY <1>1, <1>3
<1>5. escrow' \in [Pools -> Int] BY <1>1, <1>3
<1>6. QED BY <1>1, <1>2, <1>4, <1>5 DEF MoneyTypeOK

LEMMA RefundOneKeeps ==
  ASSUME MarketInv, NEW u \in Accounts, NEW p \in Pools, RefundOne(p, u)
  PROVE  MarketInv'
<1> DEFINE amount == totalBet[p][u]
<1>1. now \in Nat /\ ConfigTypeOK /\ LifeInv /\ BookInv /\ MoneyInv /\ LimitInv
  BY DEF MarketInv
<1>2. BookTypeOK BY <1>1 DEF BookInv
<1>3. totalBet \in [Pools -> [Accounts -> Nat]] /\ amount \in Nat /\ -amount \in Int
  BY <1>2 DEF BookTypeOK
<1>4. /\ PayOut(p, amount) /\ RemoveBets(p, {u}) /\ ReduceExposure(p, Cut(u, amount))
      /\ UNCHANGED <<now, configVars, lifeVars>>
  BY DEF RefundOne
<1>5. /\ BookInv'
      /\ \A q \in Pools : q # p => totalBet'[q] = totalBet[q]
      /\ \A v \in Accounts : totalBet'[p][v] = IF v \in {u} THEN 0 ELSE totalBet[p][v]
  BY <1>1, <1>4, RemovedBooks
<1>6. BookTypeOK' BY <1>5 DEF BookInv
<1>7. ASSUME NEW q \in Pools
      PROVE  SumBelow(totalBet'[q], NumAccounts)
               = SumBelow(totalBet[q], NumAccounts) + (IF q = p THEN -amount ELSE 0)
  <2>1. SumBelow(totalBet[q], NumAccounts) \in Nat BY <1>2, RefundableType
  <2>2. CASE q # p BY <1>5, <2>1, <2>2
  <2>3. CASE q = p
    <3>1. totalBet[p] \in [Accounts -> Nat] /\ totalBet'[p] \in [Accounts -> Nat]
      BY <1>2, <1>6 DEF BookTypeOK
    <3>2. /\ totalBet'[p][u] = totalBet[p][u] + (-amount)
          /\ \A v \in Accounts : v # u => totalBet'[p][v] = totalBet[p][v]
      BY <1>3, <1>5
    <3>3. SumBelow(totalBet'[p], NumAccounts) = SumBelow(totalBet[p], NumAccounts) + (-amount)
      BY <1>3, <3>1, <3>2, AccountSumMove
    <3>4. QED BY <2>3, <3>3
  <2>4. QED BY <2>2, <2>3
<1>8. MoneyInv'
  <2>1. MoneyTypeOK /\ UnclaimedPoolFunded BY <1>1 DEF MoneyInv
  <2>2. /\ MoneyTypeOK'
        /\ escrow' = [escrow EXCEPT ![p] = @ + (-amount)] /\ payout' = payout
    BY <1>3, <1>4, <2>1, PayOutType
  <2>3. \A q \in Pools : SumBelow(totalBet[q], NumAccounts) \in Int
    BY <1>2, RefundableType
  <2>4. UnclaimedPoolFunded' BY <1>3, <1>7, <2>1, <2>2, <2>3, EscrowFollows
  <2>5. QED BY <2>2, <2>4 DEF MoneyInv
<1>9. LimitInv'
  <2>1. Cut(u, amount) \in [Accounts -> Nat] BY <1>3 DEF Cut
  <2>2. \A v \in Accounts : \/ totalBet'[p][v] = 0
                            \/ Cut(u, amount)[v] = 0 /\ totalBet'[p][v] = totalBet[p][v]
    BY <1>5 DEF Cut
  <2>3. QED BY <1>1, <1>2, <1>4, <1>5, <1>6, <2>1, <2>2, ReducedLimits
<1>10. now' \in Nat /\ ConfigTypeOK' /\ LifeInv' BY <1>1, <1>4, ConfigKept, LifeKept
<1>11. QED BY <1>5, <1>8, <1>9, <1>10 DEF MarketInv

(***************************************************************************)
(* The refund loop pays everyone: with the list of bettors complete, what  *)
(* it pays is the sum of the stakes and nothing refundable remains.        *)
(***************************************************************************)
LEMMA RefundAllBooks ==
  ASSUME BookInv, MoneyInv, NEW p \in Pools, RefundAll(p)
  PROVE  /\ BookInv' /\ MoneyInv'
         /\ RefundCut(p) \in [Accounts -> Nat]
         /\ \A q \in Pools : q # p => totalBet'[q] = totalBet[q]
         /\ \A v \in Accounts : totalBet'[p][v] = 0
<1> DEFINE amount == SumBelow(RefundCut(p), NumAccounts)
<1>1. BookTypeOK /\ BooksAgree /\ RefundListComplete /\ MoneyTypeOK /\ UnclaimedPoolFunded
  BY DEF BookInv, MoneyInv
<1>2. totalBet[p] \in [Accounts -> Nat] /\ Refunded(p) \in SUBSET Accounts
  BY <1>1 DEF BookTypeOK, Refunded
<1>3. PayOut(p, amount) /\ RemoveBets(p, Refunded(p)) BY DEF RefundAll
<1>4. /\ BookInv'
      /\ \A q \in Pools : q # p => totalBet'[q] = totalBet[q]
      /\ \A v \in Accounts : totalBet'[p][v] = IF v \in Refunded(p) THEN 0 ELSE totalBet[p][v]
  BY <1>2, <1>3, RemovedBooks
<1>5. \A v \in Accounts : v \notin Refunded(p) => totalBet[p][v] = 0
  <2>1. SUFFICES ASSUME NEW v \in Accounts, totalBet[p][v] # 0 PROVE v \in Refunded(p)
    OBVIOUS
  <2>2. totalBet[p][v] > 0 BY <1>2, <2>1
  <2>3. v \in bettors[p] BY <1>1, <2>2 DEF RefundListComplete
  <2>4. v \in hasBet[p] BY <1>1, <2>2 DEF BooksAgree
  <2>5. QED BY <2>3, <2>4 DEF Refunded
<1>6. \A v \in Accounts : RefundCut(p)[v] = totalBet[p][v]
  BY <1>5 DEF RefundCut
<1>7. RefundCut(p) \in [Accounts -> Nat] BY <1>2 DEF RefundCut
<1>8. \A v \in Accounts : totalBet'[p][v] = 0 BY <1>4, <1>5
<1>9. amount = SumBelow(totalBet[p], NumAccounts) /\ amount \in Nat
  <2>1. \A i \in 0 .. NumAccounts - 1 : RefundCut(p)[i] = totalBet[p][i] BY <1>6 DEF Accounts
  <2>2. NumAccounts \in Nat BY Sizes
  <2>3. amount = SumBelow(totalBet[p], NumAccounts) BY <2>1, <2>2, SumAgree
  <2>4. QED BY <1>1, <2>3, RefundableType
<1>10. SumBelow(totalBet'[p], NumAccounts) = 0
  <2>1. \A i \in 0 .. NumAccounts - 1 : totalBet'[p][i] = 0 BY <1>8 DEF Accounts
  <2>2. NumAccounts \in Nat BY Sizes
  <2>3. QED BY <2>1, <2>2, SumZero
<1>11. MoneyInv'
  <2>1. /\ MoneyTypeOK'
        /\ escrow' = [escrow EXCEPT ![p] = @ + (-amount)] /\ payout' = payout
    BY <1>1, <1>3, <1>9, PayOutType
  <2>2. \A q \in Pools : SumBelow(totalBet[q], NumAccounts) \in Int
    BY <1>1, RefundableType
  <2> HIDE DEF amount
  <2>3. -amount \in Int BY <1>9
  <2>4. \A q \in Pools : SumBelow(totalBet'[q], NumAccounts)
          = SumBelow(totalBet[q], NumAccounts) + (IF q = p THEN -amount ELSE 0)
    BY <1>4, <1>9, <1>10, <2>2
  <2>5. UnclaimedPoolFunded' BY <1>1, <2>1, <2>2, <2>3, <2>4, EscrowFollows
  <2>6. QED BY <2>1, <2>5 DEF MoneyInv
<1>12. QED BY <1>4, <1>7, <1>8, <1>11

LEMMA CancelPoolKeeps ==
  ASSUME MarketInv, NEW caller \in Accounts, NEW p \in Pools, CancelPool(caller, p)
  PROVE  MarketInv'
<1>1. now \in Nat /\ ConfigTypeOK /\ LifeInv /\ BookInv /\ MoneyInv /\ LimitInv
  BY DEF MarketInv
<1>2. /\ RefundAll(p) /\ status' = [status EXCEPT ![p] = "Cancelled"]
      /\ UNCHANGED <<now, configVars, pool, winner, coolingUntil, settledAt, settleFee,
                     lockedFee, fresh, limitVars>>
  BY DEF CancelPool
<1>3. /\ BookInv' /\ MoneyInv'
      /\ \A q \in Pools : q # p => totalBet'[q] = totalBet[q]
      /\ \A v \in Accounts : totalBet'[p][v] = 0
  BY <1>1, <1>2, RefundAllBooks
<1>4. LimitInv'
  <2>1. LimitsTypeOK /\ ExposureCoversStake BY <1>1 DEF LimitInv
  <2>2. LimitsTypeOK' BY <1>2, <2>1 DEF LimitsTypeOK, limitVars
  <2>3. exposure \in [Pools -> [Accounts -> Nat]] /\ exposure' = exposure
    BY <1>2, <2>1 DEF LimitsTypeOK, limitVars
  <2>4. ExposureCoversStake'
    BY <1>3, <2>1, <2>3 DEF ExposureCoversStake
  <2>5. QED BY <2>2, <2>4 DEF LimitInv
<1>5. LifeInv' BY <1>1, <1>2 DEF LifeInv, LifeTypeOK, WinnerDeclared, Statuses
<1>6. now' \in Nat /\ ConfigTypeOK' BY <1>1, <1>2, ConfigKept
<1>7. QED BY <1>3, <1>4, <1>5, <1>6 DEF MarketInv

LEMMA RefundExpiredPoolKeeps ==
  ASSUME MarketInv, NEW p \in Pools, RefundExpiredPool(p)
  PROVE  MarketInv'
<1>1. now \in Nat /\ ConfigTypeOK /\ LifeInv /\ BookInv /\ MoneyInv /\ LimitInv
  BY DEF MarketInv
<1>2. /\ RefundAll(p) /\ ReduceExposure(p, RefundCut(p))
      /\ status' = [status EXCEPT ![p] = "Cancelled"]
      /\ UNCHANGED <<now, configVars, pool, winner, coolingUntil, settledAt, settleFee,
                     lockedFee, fresh>>
  BY DEF RefundExpiredPool
<1>3. /\ BookInv' /\ MoneyInv' /\ RefundCut(p) \in [Accounts -> Nat]
      /\ \A q \in Pools : q # p => totalBet'[q] = totalBet[q]
      /\ \A v \in Accounts : totalBet'[p][v] = 0
  BY <1>1, <1>2, RefundAllBooks
<1>4. BookTypeOK /\ BookTypeOK' BY <1>1, <1>3 DEF BookInv
<1>5. LimitInv' BY <1>1, <1>2, <1>3, <1>4, ReducedLimits
<1>6. LifeInv' BY <1>1, <1>2 DEF LifeInv, LifeTypeOK, WinnerDeclared, Statuses
<1>7. now' \in Nat /\ ConfigTypeOK' BY <1>1, <1>2, ConfigKept
<1>8. QED BY <1>3, <1>5, <1>6, <1>7 DEF MarketInv

(***************************************************************************)
(* What a claim pays and credits are integers: a winning stake is part of  *)
(* the winning total, so the division is by a positive number.             *)
(***************************************************************************)
LEMMA ClaimType ==
  ASSUME MarketInv, NEW u \in Accounts, NEW p \in Pools, Claimable(u, p)
  PROVE  /\ Winnings(p, u) \in Int
         /\ WinningStake(p, u) \in Nat /\ WinningStake(p, u) <= totalBet[p][u]
         /\ TreasuryDelta(p, u) \in Nat
<1>1. ConfigTypeOK /\ LifeTypeOK /\ WinnerDeclared /\ BookInv /\ BookTypeOK /\ MoneyTypeOK
  BY DEF MarketInv, LifeInv, BookInv, MoneyInv
<1>2. winner[p] \in Outcomes BY <1>1 DEF WinnerDeclared, Claimable
<1>3. /\ WinningStake(p, u) \in Nat /\ WinningStake(p, u) > 0
      /\ WinningStake(p, u) <= totalBet[p][u]
      /\ WinningStake(p, u) <= WinningTotal(p)
  BY <1>1, <1>2, BooksOfStakes, StakeIsCovered DEF Claimable, WinningStake, WinningTotal
<1>4. WinningTotal(p) \in Nat \ {0}
  <2>1. WinningTotal(p) \in Nat BY <1>1, <1>2 DEF BookTypeOK, WinningTotal
  <2>2. QED BY <1>3, <2>1
<1>5. PoolTotal(p) \in Nat
  <2>1. totals[p] \in [Outcomes -> Nat] BY <1>1 DEF BookTypeOK
  <2>2. \A i \in 0 .. NumOutcomes - 1 : totals[p][i] \in Nat BY <2>1 DEF Outcomes
  <2>3. NumOutcomes \in Nat BY Sizes
  <2>4. QED BY <2>2, <2>3, SumNat DEF PoolTotal
<1>6. Fee(p) \in Int
  <2>1. EffectiveFee(p) \in Int
    BY <1>1, Sizes DEF EffectiveFee, LifeTypeOK, ConfigTypeOK
  <2>2. BpsDenom \in Nat \ {0} BY Sizes
  <2>3. QED BY <1>5, <2>1, <2>2 DEF Fee, Bps
<1>7. NetPool(p) \in Int BY <1>5, <1>6 DEF NetPool
<1>8. Winnings(p, u) \in Int BY <1>3, <1>4, <1>7 DEF Winnings
<1>9. payout[p].claimed \in Nat /\ payout[p].paidOut \in Int /\ payout[p].feeCredited \in BOOLEAN
  BY <1>1 DEF MoneyTypeOK, PayoutRecords
<1>10. Dust(p, u) \in Int BY <1>7, <1>8, <1>9 DEF Dust
<1>11. TreasuryDelta(p, u) \in Nat BY <1>6, <1>10 DEF TreasuryDelta
<1>12. QED BY <1>3, <1>8, <1>11

LEMMA ClaimWinningsKeeps ==
  ASSUME MarketInv, NEW u \in Accounts, NEW p \in Pools, ClaimWinnings(u, p)
  PROVE  MarketInv'
<1>1. now \in Nat /\ ConfigTypeOK /\ LifeInv /\ BookInv /\ MoneyInv /\ LimitInv
  BY DEF MarketInv
<1>2. BookTypeOK /\ MoneyTypeOK /\ UnclaimedPoolFunded BY <1>1 DEF BookInv, MoneyInv
<1>3. /\ Winnings(p, u) \in Int
      /\ WinningStake(p, u) \in Nat /\ WinningStake(p, u) <= totalBet[p][u]
      /\ TreasuryDelta(p, u) \in Nat
  BY ClaimType DEF ClaimWinnings
<1>4. /\ Winnings(p, u) <= balance
      /\ payout' = [payout EXCEPT ![p] =
                      [feeCredited |-> TRUE, claimed |-> @.claimed + WinningStake(p, u),
                       paidOut |-> @.paidOut + Winnings(p, u)]]
      /\ credited' = [credited EXCEPT ![p] = @ + TreasuryDelta(p, u)]
      /\ treasury' = treasury + TreasuryDelta(p, u)
      /\ balance' = balance - Winnings(p, u)
      /\ escrow' = [escrow EXCEPT ![p] = @ - Winnings(p, u) - TreasuryDelta(p, u)]
      /\ RemoveBets(p, {u})
      /\ ReduceExposure(p, Cut(u, WinningStake(p, u)))
      /\ UNCHANGED <<now, configVars, lifeVars, withdrawn>>
  BY DEF ClaimWinnings
<1>5. /\ BookInv'
      /\ \A q \in Pools : q # p => totalBet'[q] = totalBet[q]
      /\ \A v \in Accounts : totalBet'[p][v] = IF v \in {u} THEN 0 ELSE totalBet[p][v]
  BY <1>1, <1>4, RemovedBooks
<1>6. BookTypeOK' BY <1>5 DEF BookInv
<1>7. MoneyTypeOK'
  <2>1. /\ payout[p].claimed + WinningStake(p, u) \in Nat
        /\ payout[p].paidOut + Winnings(p, u) \in Int
    BY <1>2, <1>3 DEF MoneyTypeOK, PayoutRecords
  <2>2. payout' \in [Pools -> PayoutRecords]
    BY <1>2, <1>4, <2>1 DEF MoneyTypeOK, PayoutRecords
  <2>3. credited' \in [Pools -> Nat] /\ treasury' \in Nat
    BY <1>2, <1>3, <1>4 DEF MoneyTypeOK
  <2>4. balance' \in Nat BY <1>2, <1>3, <1>4 DEF MoneyTypeOK
  <2>5. escrow' \in [Pools -> Int]
    <3>1. escrow \in [Pools -> Int] BY <1>2 DEF MoneyTypeOK
    <3>2. escrow[p] - Winnings(p, u) - TreasuryDelta(p, u) \in Int BY <1>3, <3>1
    <3>3. QED BY <1>4, <3>1, <3>2
  <2>6. withdrawn' \in Windows BY <1>2, <1>4 DEF MoneyTypeOK
  <2>7. QED BY <2>2, <2>3, <2>4, <2>5, <2>6 DEF MoneyTypeOK
<1>8. UnclaimedPoolFunded'
  <2>1. SUFFICES ASSUME NEW q \in Pools, ~payout'[q].feeCredited
                 PROVE  escrow'[q] = SumBelow(totalBet'[q], NumAccounts)
    BY DEF UnclaimedPoolFunded, Refundable
  <2>2. payout \in [Pools -> PayoutRecords] /\ escrow \in [Pools -> Int]
    BY <1>2 DEF MoneyTypeOK
  <2>3. q # p BY <1>4, <2>1, <2>2
  <2>4. payout'[q] = payout[q] /\ escrow'[q] = escrow[q] BY <1>4, <2>2, <2>3
  <2>5. escrow[q] = SumBelow(totalBet[q], NumAccounts)
    BY <1>2, <2>1, <2>4 DEF UnclaimedPoolFunded, Refundable
  <2>6. QED BY <1>5, <2>3, <2>4, <2>5
<1>9. LimitInv'
  <2>1. Cut(u, WinningStake(p, u)) \in [Accounts -> Nat] BY <1>3 DEF Cut
  <2>2. \A v \in Accounts : \/ totalBet'[p][v] = 0
                            \/ /\ Cut(u, WinningStake(p, u))[v] = 0
                               /\ totalBet'[p][v] = totalBet[p][v]
    BY <1>5 DEF Cut
  <2>3. QED BY <1>1, <1>2, <1>4, <1>5, <1>6, <2>1, <2>2, ReducedLimits
<1>10. now' \in Nat /\ ConfigTypeOK' /\ LifeInv' BY <1>1, <1>4, ConfigKept, LifeKept
<1>11. QED BY <1>5, <1>7, <1>8, <1>9, <1>10 DEF MarketInv, MoneyInv

LEMMA WithdrawTreasuryKeeps ==
  ASSUME MarketInv, NEW caller \in Accounts, NEW amount \in 1 .. balance,
         WithdrawTreasury(caller, amount)
  PROVE  MarketInv'
<1>1. now \in Nat /\ ConfigTypeOK /\ LifeInv /\ BookInv /\ MoneyInv /\ LimitInv
  BY DEF MarketInv
<1>2. MoneyTypeOK /\ UnclaimedPoolFunded BY <1>1 DEF MoneyInv
<1>3. amount \in Nat /\ amount <= treasury /\ amount <= balance
  BY <1>2 DEF MoneyTypeOK, WithdrawTreasury, Withdrawable
<1>4. /\ treasury' = treasury - amount /\ balance' = balance - amount
      /\ UNCHANGED <<now, configVars, lifeVars, bookVars, payout, credited, escrow, limitVars>>
  BY DEF WithdrawTreasury
<1>5. withdrawn' \in Windows
  <2>1. withdrawn \in Windows BY <1>2 DEF MoneyTypeOK
  <2>2. Add(Window(withdrawn, now, WithdrawalWindow), amount) \in Windows
    <3>1. WithdrawalWindow \in Nat /\ now \in Int BY <1>1, MarketAssumption
    <3>2. QED BY <1>3, <2>1, <3>1, WindowType
  <2>3. QED BY <2>1, <2>2 DEF WithdrawTreasury
<1>6. MoneyTypeOK' BY <1>2, <1>3, <1>4, <1>5 DEF MoneyTypeOK
<1>7. UnclaimedPoolFunded'
  BY <1>2, <1>4 DEF UnclaimedPoolFunded, Refundable, bookVars
<1>8. BookInv' /\ LimitInv' BY <1>1, <1>4, BooksKept, LimitsKept
<1>9. now' \in Nat /\ ConfigTypeOK' /\ LifeInv' BY <1>1, <1>4, ConfigKept, LifeKept
<1>10. QED BY <1>6, <1>7, <1>8, <1>9 DEF MarketInv, MoneyInv

(***************************************************************************)
(* A change of status keeps the types, and a status other than Settled     *)
(* needs no winner.                                                        *)
(***************************************************************************)
LEMMA ChangeStatusKeeps ==
  ASSUME MarketInv, NEW p \in Pools, NEW new \in Statuses,
         new = "Settled" => status[p] = "Settled",
         ChangeStatus(p, new), UNCHANGED coolingUntil \/ ForgetCooling(p)
  PROVE  MarketInv'
<1>1. now \in Nat /\ ConfigTypeOK /\ LifeTypeOK /\ WinnerDeclared BY DEF MarketInv, LifeInv
<1>2. /\ status' = [status EXCEPT ![p] = new]
      /\ UNCHANGED <<now, configVars, pool, winner, settledAt, settleFee, lockedFee,
                     fresh, bookVars, moneyVars, limitVars>>
  BY DEF ChangeStatus
<1>3. coolingUntil' \in [Pools -> Int] BY <1>1 DEF LifeTypeOK, ForgetCooling, Never
<1>4. LifeTypeOK' BY <1>1, <1>2, <1>3 DEF LifeTypeOK
<1>5. WinnerDeclared' BY <1>1, <1>2 DEF LifeTypeOK, WinnerDeclared
<1>6. now' \in Nat /\ ConfigTypeOK' BY <1>1, <1>2, ConfigKept
<1>7. QED BY <1>2, <1>4, <1>5, <1>6, FundsKept DEF MarketInv, LifeInv

LEMMA CreatePoolInternalKeeps ==
  ASSUME MarketInv, NEW creator \in Creators, NEW created \in Nat, NEW duration \in Nat,
         NEW customDeadline \in Nat \cup {NoDeadline}, NEW initial \in {"Open", "Scheduled"},
         CreatePoolInternal(creator, created, duration, customDeadline, initial)
  PROVE  MarketInv'
<1>1. now \in Nat /\ ConfigTypeOK /\ LifeTypeOK /\ WinnerDeclared BY DEF MarketInv, LifeInv
<1> DEFINE p == Cardinality(Created) + 1
           record == [creator |-> creator, created |-> created, expiry |-> created + duration,
                      deadline |-> IF customDeadline = NoDeadline THEN created + duration
                                   ELSE customDeadline,
                      settler |-> NoAccount]
<1>2. /\ p \in Pools
      /\ pool' = [pool EXCEPT ![p] = record]
      /\ status' = [status EXCEPT ![p] = initial]
      /\ UNCHANGED <<now, configVars, winner, coolingUntil, settledAt, settleFee,
                     lockedFee, fresh, bookVars, moneyVars, limitVars>>
  BY DEF CreatePoolInternal
<1>3. record \in PoolRecords
  <2>1. creator \in Int BY MarketAssumption, Sizes DEF Accounts
  <2>2. NoAccount \in Int BY DEF NoAccount
  <2>3. (IF customDeadline = NoDeadline THEN created + duration ELSE customDeadline) \in Nat
    OBVIOUS
  <2>4. created + duration \in Nat OBVIOUS
  <2>5. QED BY <2>1, <2>2, <2>3, <2>4 DEF PoolRecords
<1> HIDE DEF p, record
<1>4. LifeTypeOK'
  <2>1. pool' \in [Pools -> PoolRecords] BY <1>1, <1>2, <1>3 DEF LifeTypeOK
  <2>2. status' \in [Pools -> Statuses] BY <1>1, <1>2 DEF LifeTypeOK, Statuses
  <2>3. QED BY <1>1, <1>2, <2>1, <2>2 DEF LifeTypeOK
<1>5. WinnerDeclared' BY <1>1, <1>2 DEF LifeTypeOK, WinnerDeclared
<1>6. now' \in Nat /\ ConfigTypeOK' BY <1>1, <1>2, ConfigKept
<1>7. QED BY <1>2, <1>4, <1>5, <1>6, FundsKept DEF MarketInv, LifeInv

LEMMA ExtendPoolDurationKeeps ==
  ASSUME MarketInv, NEW caller \in Accounts, NEW p \in Pools, NEW seconds \in Extensions,
         ExtendPoolDuration(caller, p, seconds)
  PROVE  MarketInv'
<1>1. now \in Nat /\ ConfigTypeOK /\ LifeTypeOK /\ WinnerDeclared BY DEF MarketInv, LifeInv
<1>2. /\ pool' = [pool EXCEPT ![p].expiry = @ + seconds]
      /\ UNCHANGED <<now, configVars, status, winner, coolingUntil, settledAt, settleFee,
                     lockedFee, fresh, bookVars, moneyVars, limitVars>>
  BY DEF ExtendPoolDuration
<1>3. seconds \in Nat BY MarketAssumption
<1>4. pool' \in [Pools -> PoolRecords] BY <1>1, <1>2, <1>3 DEF LifeTypeOK, PoolRecords
<1>5. LifeTypeOK' BY <1>1, <1>2, <1>4 DEF LifeTypeOK
<1>6. WinnerDeclared' BY <1>1, <1>2 DEF WinnerDeclared
<1>7. now' \in Nat /\ ConfigTypeOK' BY <1>1, <1>2, ConfigKept
<1>8. QED BY <1>2, <1>5, <1>6, <1>7, FundsKept DEF MarketInv, LifeInv

LEMMA AssignSettlerKeeps ==
  ASSUME MarketInv, NEW caller \in Accounts, NEW p \in Pools, NEW settler \in Settlers,
         AssignSettler(caller, p, settler)
  PROVE  MarketInv'
<1>1. now \in Nat /\ ConfigTypeOK /\ LifeTypeOK /\ WinnerDeclared BY DEF MarketInv, LifeInv
<1>2. /\ pool' = [pool EXCEPT ![p].settler = settler]
      /\ UNCHANGED <<now, configVars, status, winner, coolingUntil, settledAt, settleFee,
                     lockedFee, fresh, bookVars, moneyVars, limitVars>>
  BY DEF AssignSettler
<1>3. settler \in Int BY MarketAssumption, Sizes DEF Accounts
<1>4. pool' \in [Pools -> PoolRecords] BY <1>1, <1>2, <1>3 DEF LifeTypeOK, PoolRecords
<1>5. LifeTypeOK' BY <1>1, <1>2, <1>4 DEF LifeTypeOK
<1>6. WinnerDeclared' BY <1>1, <1>2 DEF WinnerDeclared
<1>7. now' \in Nat /\ ConfigTypeOK' BY <1>1, <1>2, ConfigKept
<1>8. QED BY <1>2, <1>5, <1>6, <1>7, FundsKept DEF MarketInv, LifeInv

LEMMA SettlePoolKeeps ==
  ASSUME MarketInv, NEW caller \in Accounts, NEW p \in Pools, NEW o \in Outcomes,
         SettlePool(caller, p, o)
  PROVE  MarketInv'
<1>1. now \in Nat /\ ConfigTypeOK /\ LifeTypeOK /\ WinnerDeclared /\ BookTypeOK
  BY DEF MarketInv, LifeInv, BookInv
<1> DEFINE fee == FeeForVolume(PoolTotal(p))
<1>2. PoolTotal(p) \in Nat
  <2>1. totals[p] \in [Outcomes -> Nat] BY <1>1 DEF BookTypeOK
  <2>2. \A i \in 0 .. NumOutcomes - 1 : totals[p][i] \in Nat BY <2>1 DEF Outcomes
  <2>3. NumOutcomes \in Nat BY Sizes
  <2>4. QED BY <2>2, <2>3, SumNat DEF PoolTotal
<1>3. fee \in 0 .. BpsDenom BY <1>1, <1>2, FeeForVolumeType
<1>4. /\ status' = [status EXCEPT ![p] = "Settled"]
      /\ winner' = [winner EXCEPT ![p] = o]
      /\ settledAt' = [settledAt EXCEPT ![p] = now]
      /\ settleFee' = [settleFee EXCEPT ![p] = Bps(PoolTotal(p), fee)]
      /\ lockedFee' = [lockedFee EXCEPT ![p] = IF feeTiers = <<>> THEN @ ELSE fee]
      /\ fresh' = [fresh EXCEPT ![p] = (escrow[p] = PoolTotal(p))]
      /\ UNCHANGED <<now, configVars, pool, coolingUntil, bookVars, moneyVars, limitVars>>
  BY DEF SettlePool
<1> HIDE DEF fee
<1>5. Bps(PoolTotal(p), fee) \in Int BY <1>2, <1>3, BpsRange
<1>6. fee \in Int BY <1>3, Sizes
<1>7. LifeTypeOK'
  <2>1. status' \in [Pools -> Statuses] BY <1>1, <1>4 DEF LifeTypeOK, Statuses
  <2>2. winner' \in [Pools -> Outcomes \cup {NoOutcome}] BY <1>1, <1>4 DEF LifeTypeOK
  <2>3. settledAt' \in [Pools -> Int] /\ settleFee' \in [Pools -> Int]
    BY <1>1, <1>4, <1>5 DEF LifeTypeOK
  <2>4. lockedFee' \in [Pools -> Int] BY <1>1, <1>4, <1>6 DEF LifeTypeOK
  <2>5. fresh' \in [Pools -> BOOLEAN] BY <1>1, <1>4 DEF LifeTypeOK
  <2>6. QED BY <1>1, <1>4, <2>1, <2>2, <2>3, <2>4, <2>5 DEF LifeTypeOK
<1>8. WinnerDeclared' BY <1>1, <1>4 DEF LifeTypeOK, WinnerDeclared
<1>9. now' \in Nat /\ ConfigTypeOK' BY <1>1, <1>4, ConfigKept
<1>10. QED BY <1>4, <1>7, <1>8, <1>9, FundsKept DEF MarketInv, LifeInv

LEMMA ConfigKeeps ==
  ASSUME MarketInv, NEW caller \in Accounts, ConfigStep(caller)
  PROVE  MarketInv'
<1>1. now \in Nat /\ ConfigTypeOK /\ LifeInv BY DEF MarketInv
<1>2. ASSUME NEW flag \in PauseChoices, SetPaused(caller, flag) PROVE MarketInv'
  <2>1. flag \in BOOLEAN BY MarketAssumption
  <2>2. ConfigTypeOK' BY <1>1, <1>2, <2>1 DEF SetPaused, ConfigTypeOK
  <2>3. QED BY <1>1, <1>2, <2>2, FundsKept, LifeKept DEF SetPaused, MarketInv
<1>3. ASSUME NEW fee \in FeeChoices, SetProtocolFee(caller, fee) PROVE MarketInv'
  <2>1. fee \in 0 .. BpsDenom BY MarketAssumption
  <2>2. ConfigTypeOK' BY <1>1, <1>3, <2>1 DEF SetProtocolFee, ConfigTypeOK
  <2>3. QED BY <1>1, <1>3, <2>2, FundsKept, LifeKept DEF SetProtocolFee, MarketInv
<1>4. ASSUME NEW ts \in TierChoices, SetVolumeFeeTiers(caller, ts) PROVE MarketInv'
  <2>1. ConfigTypeOK' BY <1>1, <1>4 DEF SetVolumeFeeTiers, ConfigTypeOK
  <2>2. QED BY <1>1, <1>4, <2>1, FundsKept, LifeKept DEF SetVolumeFeeTiers, MarketInv
<1>5. ASSUME NEW n \in MinParticipantChoices, SetMinSettlementParticipants(caller, n)
      PROVE  MarketInv'
  <2>1. n \in Nat BY MarketAssumption
  <2>2. ConfigTypeOK' BY <1>1, <1>5, <2>1 DEF SetMinSettlementParticipants, ConfigTypeOK
  <2>3. QED BY <1>1, <1>5, <2>2, FundsKept, LifeKept
           DEF SetMinSettlementParticipants, MarketInv
<1>6. QED BY <1>2, <1>3, <1>4, <1>5, WithdrawTreasuryKeeps DEF ConfigStep

LEMMA CreatorKeeps ==
  ASSUME MarketInv, NEW c \in Creators, CreatorStep(c)
  PROVE  MarketInv'
<1>1. now \in Nat BY DEF MarketInv
<1>2. Durations \subseteq Nat /\ DepositDeadlines \subseteq Nat /\ OpenTimes \subseteq Nat
  BY MarketAssumption
<1>3. ASSUME NEW d \in Durations, NEW dd \in DepositDeadlines \cup {NoDeadline},
             CreatePool(c, d, dd)
      PROVE  MarketInv'
  BY <1>1, <1>2, <1>3, CreatePoolInternalKeeps DEF CreatePool
<1>4. ASSUME NEW d \in Durations, NEW t \in OpenTimes, SchedulePool(c, d, t)
      PROVE  MarketInv'
  BY <1>1, <1>2, <1>4, CreatePoolInternalKeeps DEF SchedulePool
<1>5. QED BY <1>3, <1>4 DEF CreatorStep

LEMMA BettorKeeps ==
  ASSUME MarketInv, NEW u \in Accounts, NEW p \in Pools, BettorStep(u, p)
  PROVE  MarketInv'
BY CancelBetKeeps, RefundOneKeeps, ClaimWinningsKeeps
   DEF BettorStep, ClaimRefund, ClaimExpired

LEMMA OperatorKeeps ==
  ASSUME MarketInv, NEW caller \in Accounts, NEW p \in Pools, OperatorStep(caller, p)
  PROVE  MarketInv'
<1>1. /\ "Voided" \in Statuses /\ "Cancelled" \in Statuses /\ "Frozen" \in Statuses
      /\ "Disputed" \in Statuses /\ "Open" \in Statuses /\ status[p] \in Statuses
  BY DEF MarketInv, LifeInv, LifeTypeOK, Statuses
<1>2. CASE VoidPool(caller, p)
  BY <1>1, <1>2, ChangeStatusKeeps DEF VoidPool
<1>3. CASE CancelScheduledPool(caller, p)
  BY <1>1, <1>3, ChangeStatusKeeps DEF CancelScheduledPool
<1>4. CASE FreezePool(caller, p)
  BY <1>1, <1>4, ChangeStatusKeeps DEF FreezePool
<1>5. CASE DisputePool(caller, p)
  BY <1>1, <1>5, ChangeStatusKeeps DEF DisputePool
<1>6. CASE UnfreezePool(caller, p)
  BY <1>1, <1>6, ChangeStatusKeeps DEF UnfreezePool
<1>7. CASE OverridePoolCooling(caller, p)
  <2>1. PICK new \in Statuses : /\ new = "Settled" => status[p] = "Settled"
                                /\ ChangeStatus(p, new) /\ ForgetCooling(p)
    BY <1>1, <1>7 DEF OverridePoolCooling
  <2>2. QED BY <2>1, ChangeStatusKeeps
<1>8. CASE CancelPool(caller, p) BY <1>8, CancelPoolKeeps
<1>9. CASE \E o \in Outcomes : SettlePool(caller, p, o) BY <1>9, SettlePoolKeeps
<1>10. CASE \E s \in Settlers : AssignSettler(caller, p, s) BY <1>10, AssignSettlerKeeps
<1>11. CASE \E seconds \in Extensions : ExtendPoolDuration(caller, p, seconds)
  BY <1>11, ExtendPoolDurationKeeps
<1>12. QED
  BY <1>2, <1>3, <1>4, <1>5, <1>6, <1>7, <1>8, <1>9, <1>10, <1>11 DEF OperatorStep

LEMMA KeeperKeeps ==
  ASSUME MarketInv, NEW p \in Pools, KeeperStep(p)
  PROVE  MarketInv'
<1>1. CASE ActivateScheduledPool(p)
  <2>1. "Open" \in Statuses BY DEF Statuses
  <2>2. QED BY <1>1, <2>1, ChangeStatusKeeps DEF ActivateScheduledPool
<1>2. CASE RefundExpiredPool(p) BY <1>2, RefundExpiredPoolKeeps
<1>3. QED BY <1>1, <1>2 DEF KeeperStep

LEMMA TickKeeps == MarketInv /\ Tick => MarketInv'
<1> SUFFICES ASSUME MarketInv, Tick PROVE MarketInv' OBVIOUS
<1>1. now \in Nat /\ ConfigTypeOK /\ LifeInv BY DEF MarketInv
<1>2. /\ now' = now + 1
      /\ UNCHANGED <<configVars, lifeVars, bookVars, moneyVars, limitVars>>
  BY DEF Tick
<1>3. QED BY <1>1, <1>2, FundsKept, LifeKept, ConfigKept DEF MarketInv

LEMMA StutterKeeps == MarketInv /\ UNCHANGED vars => MarketInv'
<1> SUFFICES ASSUME MarketInv, UNCHANGED vars PROVE MarketInv' OBVIOUS
<1>1. now \in Nat /\ ConfigTypeOK /\ LifeInv BY DEF MarketInv
<1>2. UNCHANGED <<now, configVars, lifeVars, bookVars, moneyVars, limitVars>> BY DEF vars
<1>3. QED BY <1>1, <1>2, FundsKept, LifeKept, ConfigKept DEF MarketInv

LEMMA NextKeeps == MarketInv /\ [Next]_vars => MarketInv'
<1> SUFFICES ASSUME MarketInv, [Next]_vars PROVE MarketInv' OBVIOUS
<1>1. CASE Bet BY <1>1, PlaceBetKeeps DEF Bet
<1>2. CASE OtherStep
  BY <1>2, TickKeeps, CreatorKeeps, ConfigKeeps, BettorKeeps, OperatorKeeps, KeeperKeeps
     DEF OtherStep
<1>3. CASE UNCHANGED vars BY <1>3, StutterKeeps
<1>4. QED BY <1>1, <1>2, <1>3 DEF Next

LEMMA InitHolds == Init => MarketInv
<1> SUFFICES ASSUME Init PROVE MarketInv OBVIOUS
<1>1. now \in Nat BY DEF Init
<1>2. ConfigTypeOK
  <2>1. protocolFee \in 0 .. BpsDenom /\ minParticipants \in Nat /\ ValidTiers(feeTiers)
    BY MarketAssumption DEF Init
  <2>2. QED BY <2>1 DEF ConfigTypeOK, Init
<1>3. LifeInv
  BY DEF Init, LifeInv, LifeTypeOK, WinnerDeclared, PoolRecords, NewPool, NoAccount,
         Statuses, Never, NoFee
<1>4. BookTypeOK BY DEF Init, BookTypeOK
<1>5. NumAccounts \in Nat /\ NumOutcomes \in Nat /\ 0 \in Outcomes
  BY Sizes DEF Outcomes
<1>6. StakesWithinTotals
  <2>1. SUFFICES ASSUME NEW p \in Pools, NEW o \in Outcomes
                 PROVE  StakedOn(p, o) <= totals[p][o]
    BY DEF StakesWithinTotals
  <2> DEFINE f == [u \in Accounts |-> stake[p][u][o]]
  <2>2. \A i \in 0 .. NumAccounts - 1 : f[i] = 0 BY DEF Init, Accounts
  <2>3. totals[p][o] = 0 BY DEF Init
  <2> HIDE DEF f
  <2>4. SumBelow(f, NumAccounts) = 0 BY <1>5, <2>2, SumZero
  <2>5. QED BY <2>3, <2>4 DEF StakedOn, f
<1>7. BooksAgree
  <2>1. ASSUME NEW p \in Pools PROVE PoolTotal(p) = 0
    <3>1. \A i \in 0 .. NumOutcomes - 1 : totals[p][i] = 0 BY DEF Init, Outcomes
    <3>2. QED BY <1>5, <3>1, SumZero DEF PoolTotal
  <2>2. ASSUME NEW p \in Pools, NEW u \in Accounts
        PROVE  SumBelow(stake[p][u], NumOutcomes) = 0
    <3>1. \A i \in 0 .. NumOutcomes - 1 : stake[p][u][i] = 0 BY DEF Init, Outcomes
    <3>2. QED BY <1>5, <3>1, SumZero
  <2>3. \A p \in Pools : /\ sides[p].a = 0 /\ sides[p].b = 0 /\ totals[p][0] = 0
                         /\ \A u \in Accounts : totalBet[p][u] = 0
    BY <1>5 DEF Init
  <2>4. QED BY <2>1, <2>2, <2>3 DEF BooksAgree
<1>8. RefundListComplete BY DEF Init, RefundListComplete
<1>9. MoneyTypeOK
  BY DEF Init, MoneyTypeOK, PayoutRecords, NoPayout, Windows, NoWindow, Never
<1>10. UnclaimedPoolFunded
  <2>1. SUFFICES ASSUME NEW p \in Pools PROVE escrow[p] = SumBelow(totalBet[p], NumAccounts)
    BY DEF UnclaimedPoolFunded, Refundable
  <2>2. \A i \in 0 .. NumAccounts - 1 : totalBet[p][i] = 0 BY DEF Init, Accounts
  <2>3. escrow[p] = 0 BY DEF Init
  <2>4. QED BY <1>5, <2>2, <2>3, SumZero
<1>11. LimitInv
  BY DEF Init, LimitsInit, LimitInv, LimitsTypeOK, ExposureCoversStake, Windows, NoWindow, Never
<1>12. QED
  BY <1>1, <1>2, <1>3, <1>4, <1>6, <1>7, <1>8, <1>9, <1>10, <1>11
     DEF MarketInv, BookInv, MoneyInv

-----------------------------------------------------------------------------
(* Theorems.                                                               *)

(***************************************************************************)
(* The conjunction of the books, the money and the limits is an invariant  *)
(* of every deployment: any number of accounts, pools and outcomes, any    *)
(* fees and limits.                                                        *)
(***************************************************************************)
THEOREM MarketInvariant == Spec => []MarketInv
<1>1. Init => MarketInv BY InitHolds
<1>2. MarketInv /\ [Next]_vars => MarketInv' BY NextKeeps
<1>3. QED BY <1>1, <1>2, PTL DEF Spec

(* Every variable keeps its type: no stored amount of the contract goes    *)
(* negative, in any sequence of successful calls.                          *)
THEOREM TypeCorrect == Spec => []TypeOK
<1>1. MarketInv => TypeOK
  BY DEF MarketInv, TypeOK, LifeInv, BookInv, MoneyInv, LimitInv
<1>2. QED BY <1>1, MarketInvariant, PTL

(* The live stakes on an outcome never exceed the stored outcome total.    *)
THEOREM StakesBounded == Spec => []StakesWithinTotals
<1>1. MarketInv => StakesWithinTotals BY DEF MarketInv, BookInv
<1>2. QED BY <1>1, MarketInvariant, PTL

(* total_bet, the per-outcome bets, PoolOutcomeTotals and total_a/total_b  *)
(* are four views of the same money.                                       *)
THEOREM BooksAlwaysAgree == Spec => []BooksAgree
<1>1. MarketInv => BooksAgree BY DEF MarketInv, BookInv
<1>2. QED BY <1>1, MarketInvariant, PTL

(* Nobody with a stake is missing from PoolBettors, which the refund loops *)
(* of cancel_pool and refund_expired_pool walk.                            *)
THEOREM NobodyMissed == Spec => []RefundListComplete
<1>1. MarketInv => RefundListComplete BY DEF MarketInv, BookInv
<1>2. QED BY <1>1, MarketInvariant, PTL

(* The exposure that the limits read never falls below the live stake.     *)
THEOREM ExposureNeverShort == Spec => []ExposureCoversStake
<1>1. MarketInv => ExposureCoversStake BY DEF MarketInv, LimitInv
<1>2. QED BY <1>1, MarketInvariant, PTL

(* The four records the contract keeps of a bet never disagree.            *)
THEOREM BooksStayConsistent == Spec => []BooksConsistent
<1>1. StakesWithinTotals /\ BooksAgree /\ RefundListComplete /\ ExposureCoversStake
        => BooksConsistent
  BY DEF BooksConsistent
<1>2. QED
  BY <1>1, StakesBounded, BooksAlwaysAgree, NobodyMissed, ExposureNeverShort, PTL

(***************************************************************************)
(* Until its first winner is paid a pool holds exactly its live stakes,    *)
(* through every order of bets, cancellations, refunds, refund loops,      *)
(* settlements, disputes and re-settlements.                               *)
(***************************************************************************)
THEOREM UnclaimedPoolsFunded == Spec => []UnclaimedPoolFunded
<1>1. MarketInv => UnclaimedPoolFunded BY DEF MarketInv, MoneyInv
<1>2. QED BY <1>1, MarketInvariant, PTL

-----------------------------------------------------------------------------
(* What no step does.                                                      *)

(***************************************************************************)
(* Betting and cancelling stop at the expiry, and no other call touches    *)
(* the outcome totals.                                                     *)
(***************************************************************************)
THEOREM TotalsFixed == Spec => TotalsFixedAfterExpiry
<1>1. ASSUME MarketInv, [Next]_vars, NEW p \in Pools, Exists(p), now >= pool[p].expiry
      PROVE  totals'[p] = totals[p]
  <2>1. /\ totals \in [Pools -> [Outcomes -> Nat]] /\ now \in Nat /\ pool[p].expiry \in Nat
    BY <1>1 DEF MarketInv, BookInv, BookTypeOK, LifeInv, LifeTypeOK, PoolRecords
  <2>2. ASSUME NEW u \in Accounts, NEW q \in Pools, NEW o \in Outcomes, NEW amount \in BetAmounts,
               PlaceBet(u, q, o, amount)
        PROVE  totals'[p] = totals[p]
    <3>1. q # p BY <1>1, <2>1, <2>2 DEF PlaceBet, AcceptsBets
    <3>2. \E delta : totals' = [totals EXCEPT ![q][o] = @ + delta]
      BY <2>2 DEF PlaceBet, MoveStake
    <3>3. QED BY <2>1, <3>1, <3>2
  <2>3. ASSUME NEW u \in Accounts, NEW q \in Pools, NEW o \in Outcomes, NEW amount \in CancelAmounts,
               CancelBet(u, q, o, amount)
        PROVE  totals'[p] = totals[p]
    <3>1. q # p BY <1>1, <2>1, <2>3 DEF CancelBet
    <3>2. \E delta : totals' = [totals EXCEPT ![q][o] = @ + delta]
      BY <2>3 DEF CancelBet, MoveStake
    <3>3. QED BY <2>1, <3>1, <3>2
  <2>4. ASSUME NEW u \in Accounts, NEW q \in Pools,
               ClaimRefund(u, q) \/ ClaimExpired(u, q) \/ ClaimWinnings(u, q)
        PROVE  totals'[p] = totals[p]
    BY <2>4 DEF ClaimRefund, ClaimExpired, ClaimWinnings, RefundOne, RemoveBets
  <2>5. ASSUME NEW c \in Accounts, NEW q \in Pools, OperatorStep(c, q)
        PROVE  totals'[p] = totals[p]
    BY <2>5 DEF OperatorStep, ExtendPoolDuration, AssignSettler, SettlePool,
                VoidPool, CancelPool, CancelScheduledPool, FreezePool, DisputePool,
                UnfreezePool, OverridePoolCooling, ChangeStatus, RefundAll, RemoveBets,
                bookVars
  <2>6. ASSUME NEW c \in Accounts, ConfigStep(c) PROVE totals'[p] = totals[p]
    BY <2>6 DEF ConfigStep, SetPaused, SetProtocolFee, SetVolumeFeeTiers,
                SetMinSettlementParticipants, WithdrawTreasury, bookVars
  <2>7. ASSUME NEW c \in Creators, CreatorStep(c) PROVE totals'[p] = totals[p]
    BY <2>7 DEF CreatorStep, CreatePool, SchedulePool, CreatePoolInternal, bookVars
  <2>8. ASSUME Tick PROVE totals'[p] = totals[p] BY <2>8 DEF Tick, bookVars
  <2>9. CASE UNCHANGED vars BY <2>9 DEF vars, bookVars
  <2>10. ASSUME NEW c \in Accounts, NEW q \in Pools, BettorStep(c, q)
         PROVE  totals'[p] = totals[p]
    BY <2>3, <2>4, <2>10 DEF BettorStep
  <2>11. ASSUME NEW q \in Pools, KeeperStep(q) PROVE totals'[p] = totals[p]
    BY <2>11 DEF KeeperStep, ActivateScheduledPool, ChangeStatus, RefundExpiredPool,
                 RefundAll, RemoveBets, bookVars
  <2>12. CASE Bet BY <2>2, <2>12 DEF Bet
  <2>13. CASE OtherStep BY <2>5, <2>6, <2>7, <2>8, <2>10, <2>11, <2>13 DEF OtherStep
  <2>14. QED BY <1>1, <2>9, <2>12, <2>13 DEF Next
<1>2. MarketInv /\ [Next]_vars
        => [\A p \in Pools : Exists(p) /\ now >= pool[p].expiry => totals'[p] = totals[p]]_vars
  BY <1>1
<1>3. QED BY <1>2, MarketInvariant, PTL DEF Spec, TotalsFixedAfterExpiry

-----------------------------------------------------------------------------
(***************************************************************************)
(* The payouts: settled pools are funded, their payouts reconcile, the     *)
(* contract is solvent, and terminal states are final.  First the          *)
(* inductive invariant: what a pool's money is made of before, during and  *)
(* after its claims, how the one token balance of the contract is divided, *)
(* the arithmetic of the shares, and the steps that leave a pool's money   *)
(* alone.  Then one lemma per action, and the theorems.                    *)
(***************************************************************************)

(* The invariant of the payouts.                                           *)

(* Pool ids are handed out in order, so a new one names no existing pool.  *)
IdsInOrder == \E k \in 0 .. NumPools : Created = 1 .. k

(* The bettors whose bets are gone: after the settlement of a pool that    *)
(* was whole, those who have claimed.                                      *)
Claims(p) == Cardinality(bettors[p] \ hasBet[p])

Conserved(p) == escrow[p] + credited[p] + payout[p].paidOut = PoolTotal(p)

ClaimsWithinSide(p) == payout[p].claimed + StakedOn(p, winner[p]) <= WinningTotal(p)

(* What was paid is the claimed part of the net pool, less at most one     *)
(* unit of rounding, short of it, for every claim.                         *)
FloorsOnly(p) ==
  LET due == NetPool(p) * payout[p].claimed
      paid == WinningTotal(p) * payout[p].paidOut
  IN  /\ paid <= due
      /\ WinningTotal(p) > 0 => due <= paid + Claims(p) * (WinningTotal(p) - 1)

CreditedInTime(p) ==
  /\ payout[p].feeCredited <=> payout[p].claimed > 0
  /\ payout[p].feeCredited => Claims(p) > 0
  /\ IF FullyClaimed(p) THEN escrow[p] = 0
     ELSE credited[p] = IF payout[p].feeCredited THEN Fee(p) ELSE 0

Shares(p) == Conserved(p) /\ ClaimsWithinSide(p) /\ FloorsOnly(p) /\ CreditedInTime(p)

(***************************************************************************)
(* A pool pays winners only after its expiry, and from its first payment   *)
(* on it holds less than its totals, so that a later settlement of what is *)
(* left is not taken for one of a whole pool (fresh).                      *)
(***************************************************************************)
PoolInv(p) ==
  /\ lockedFee[p] \in 0 .. BpsDenom \cup {NoFee}
  /\ payout[p].feeCredited => Exists(p)
  /\ status[p] = "Settled" \/ payout[p].feeCredited => now >= pool[p].expiry
  /\ escrow[p] <= PoolTotal(p)
  /\ payout[p].feeCredited => escrow[p] < PoolTotal(p)
  /\ ~payout[p].feeCredited => payout[p] = NoPayout /\ credited[p] = 0
  /\ Regular(p) => Shares(p)

PayoutInv == protocolFee \in FeeChoices /\ IdsInOrder /\ \A p \in Pools : PoolInv(p)

(* The tokens of the contract are the treasury and the pools' money.       *)
EscrowTotal == SumBelow([i \in 0 .. NumPools - 1 |-> escrow[i + 1]], NumPools)
BalanceDivided == balance = treasury + EscrowTotal


-----------------------------------------------------------------------------
(* Arithmetic.                                                             *)

LEMMA Cancelled ==
  ASSUME NEW a \in Int, NEW b \in Int, NEW d \in Nat \ {0}, d * a <= d * b
  PROVE  a <= b
<1>1. SUFFICES ASSUME b + 1 <= a PROVE FALSE OBVIOUS
<1>2. d * (b + 1) <= d * a BY <1>1
<1>3. d * (b + 1) = d * b + d OBVIOUS
<1>4. d * a \in Int /\ d * b \in Int OBVIOUS
<1>5. QED BY <1>2, <1>3, <1>4

LEMMA Products ==
  ASSUME NEW a \in Int, NEW b \in Int, NEW c \in Int
  PROVE  /\ a * b \in Int /\ a * b = b * a
         /\ a * (b + c) = a * b + a * c /\ (a + b) * c = a * c + b * c
         /\ a * (b - c) = a * b - a * c
OBVIOUS

LEMMA ProductOrder ==
  ASSUME NEW a \in Nat, NEW b \in Int, NEW c \in Int, b <= c
  PROVE  a * b <= a * c
OBVIOUS

(***************************************************************************)
(* One claim: of a net pool n shared by a side w, of which the live stakes *)
(* are live and c was claimed for paid, s is paid as a floor.              *)
(***************************************************************************)
LEMMA OneShare ==
  ASSUME NEW n \in Nat, NEW w \in Nat \ {0}, NEW s \in Nat, NEW c \in Nat, NEW paid \in Int,
         NEW k \in Nat, c + s <= w,
         w * paid <= n * c, n * c <= w * paid + k * (w - 1)
  PROVE  LET x == (s * n) \div w
         IN  /\ x \in Nat
             /\ w * (paid + x) <= n * (c + s)
             /\ n * (c + s) <= w * (paid + x) + (k + 1) * (w - 1)
             /\ paid + x <= n
<1> DEFINE x == (s * n) \div w
<1>1. s * n \in Nat /\ n * s = s * n OBVIOUS
<1>2. x \in Nat /\ w * x <= s * n /\ s * n < w * x + w BY <1>1, DivNat
<1> HIDE DEF x
<1>3. /\ w * (paid + x) = w * paid + w * x
      /\ n * (c + s) = n * c + n * s
      /\ (k + 1) * (w - 1) = k * (w - 1) + (w - 1)
  BY <1>2, Products
<1>4. /\ w * paid \in Int /\ w * x \in Int /\ n * c \in Int /\ n * s \in Int
      /\ k * (w - 1) \in Int
  BY <1>2, Products
<1>5. w * (paid + x) <= n * (c + s) BY <1>1, <1>2, <1>3, <1>4
<1>6. n * (c + s) <= w * (paid + x) + (k + 1) * (w - 1)
  BY <1>1, <1>2, <1>3, <1>4
<1>7. paid + x <= n
  <2>1. n * (c + s) <= n * w BY ProductOrder
  <2>2. n * w = w * n BY Products
  <2>3. w * (paid + x) \in Int /\ n * (c + s) \in Int /\ w * n \in Int BY <1>2, Products
  <2>4. w * (paid + x) <= w * n BY <1>5, <2>1, <2>2, <2>3
  <2>5. QED BY <1>2, <2>4, Cancelled
<1>8. QED BY <1>2, <1>5, <1>6, <1>7 DEF x

(* After the last claim the rounding kept back is less than one per claim. *)
LEMMA AllClaimed ==
  ASSUME NEW n \in Nat, NEW w \in Nat \ {0}, NEW paid \in Int, NEW k \in Nat, k > 0,
         w * paid <= n * w, n * w <= w * paid + k * (w - 1)
  PROVE  paid <= n /\ n - paid <= k - 1
<1>1. n * w = w * n /\ w * n \in Int /\ w * paid \in Int /\ k * (w - 1) \in Int
  BY Products
<1>2. paid <= n
  <2>1. w * paid <= w * n BY <1>1
  <2>2. QED BY <2>1, Cancelled
<1>3. n - paid <= k - 1
  <2>1. SUFFICES ASSUME paid + k <= n PROVE FALSE OBVIOUS
  <2>2. w * (paid + k) <= w * n BY <2>1, ProductOrder
  <2>3. w * (paid + k) = w * paid + w * k /\ w * k \in Int BY Products
  <2>4. k * (w - 1) = k * w - k * 1 /\ k * w = w * k BY Products
  <2>5. k * 1 = k OBVIOUS
  <2>6. QED BY <1>1, <2>2, <2>3, <2>4, <2>5
<1>4. QED BY <1>2, <1>3

(* Floors of shares add up to at most the share of the sum.                *)
LEMMA SharesWithin ==
  ASSUME NEW f, NEW g, NEW m \in Nat, NEW n \in Nat, NEW w \in Nat \ {0},
         \A i \in 0 .. m - 1 : g[i] \in Nat /\ f[i] = (g[i] * n) \div w
  PROVE  /\ SumBelow(f, m) \in Nat /\ SumBelow(g, m) \in Nat
         /\ w * SumBelow(f, m) <= n * SumBelow(g, m)
<1> DEFINE none == [i \in 0 .. m - 1 |-> 0]
           high == [i \in 0 .. m - 1 |-> g[i] * n]
           low == [i \in 0 .. m - 1 |-> f[i] * w]
<1>1. ASSUME NEW i \in 0 .. m - 1
      PROVE  f[i] \in Nat /\ g[i] \in Nat /\ f[i] * w <= g[i] * n /\ g[i] * n \in Int /\ f[i] * w \in Int
  <2>1. g[i] \in Nat /\ g[i] * n \in Nat OBVIOUS
  <2>2. f[i] \in Nat /\ w * f[i] <= g[i] * n BY <2>1, DivNat
  <2>3. w * f[i] = f[i] * w /\ f[i] * w \in Int BY <2>2, Products
  <2>4. QED BY <2>1, <2>2, <2>3
<1>2. SumBelow(f, m) \in Nat /\ SumBelow(g, m) \in Nat BY <1>1, SumNat
<1>3. \A i \in 0 .. m - 1 : /\ none[i] \in Int /\ f[i] \in Int /\ g[i] \in Int
                            /\ low[i] = none[i] + f[i] * w /\ high[i] = none[i] + g[i] * n
                            /\ low[i] \in Int /\ high[i] \in Int /\ low[i] <= high[i]
                            /\ none[i] = 0
  BY <1>1
<1> HIDE DEF none, high, low
<1>4. SumBelow(none, m) = 0 BY <1>3, SumZero
<1>5. SumBelow(low, m) = SumBelow(none, m) + SumBelow(f, m) * w BY <1>3, SumScaled
<1>6. SumBelow(high, m) = SumBelow(none, m) + SumBelow(g, m) * n BY <1>3, SumScaled
<1>7. SumBelow(low, m) <= SumBelow(high, m) BY <1>3, SumOrder
<1>8. /\ SumBelow(f, m) * w = w * SumBelow(f, m) /\ SumBelow(g, m) * n = n * SumBelow(g, m)
      /\ w * SumBelow(f, m) \in Int /\ n * SumBelow(g, m) \in Int
  BY <1>2, Products
<1>9. QED BY <1>2, <1>4, <1>5, <1>6, <1>7, <1>8

-----------------------------------------------------------------------------
(* Types.                                                                  *)

LEMMA PoolTypes ==
  ASSUME MarketInv, NEW p \in Pools
  PROVE  /\ PoolTotal(p) \in Nat
         /\ totals[p] \in [Outcomes -> Nat]
         /\ \A o \in Outcomes : totals[p][o] <= PoolTotal(p)
         /\ escrow[p] \in Int /\ credited[p] \in Nat
         /\ payout[p].feeCredited \in BOOLEAN
         /\ payout[p].claimed \in Nat /\ payout[p].paidOut \in Int
         /\ now \in Nat /\ pool[p].expiry \in Nat /\ status[p] \in Statuses
<1>1. BookTypeOK /\ MoneyTypeOK /\ LifeTypeOK /\ now \in Nat
  BY DEF MarketInv, BookInv, MoneyInv, LifeInv
<1>2. totals[p] \in [Outcomes -> Nat] BY <1>1 DEF BookTypeOK
<1>3. \A i \in 0 .. NumOutcomes - 1 : totals[p][i] \in Nat BY <1>2 DEF Outcomes
<1>4. NumOutcomes \in Nat BY Sizes
<1>5. PoolTotal(p) \in Nat BY <1>3, <1>4, SumNat DEF PoolTotal
<1>6. \A o \in Outcomes : totals[p][o] <= PoolTotal(p)
  BY <1>3, <1>4, SumTerm DEF PoolTotal, Outcomes
<1>7. escrow[p] \in Int /\ credited[p] \in Nat /\ payout[p] \in PayoutRecords
  BY <1>1 DEF MoneyTypeOK
<1>8. pool[p] \in PoolRecords /\ status[p] \in Statuses BY <1>1 DEF LifeTypeOK
<1>9. QED BY <1>1, <1>2, <1>5, <1>6, <1>7, <1>8 DEF PayoutRecords, PoolRecords

(* The fee is a part of the pool, and what it leaves is another.           *)
LEMMA FeeTypes ==
  ASSUME MarketInv, NEW p \in Pools, PoolInv(p)
  PROVE  /\ Fee(p) \in Nat /\ Fee(p) <= PoolTotal(p)
         /\ NetPool(p) \in Nat /\ NetPool(p) = PoolTotal(p) - Fee(p)
<1>1. PoolTotal(p) \in Nat BY PoolTypes
<1>2. protocolFee \in 0 .. BpsDenom /\ lockedFee[p] \in 0 .. BpsDenom \cup {NoFee}
  BY DEF MarketInv, ConfigTypeOK, PoolInv
<1>3. EffectiveFee(p) \in 0 .. BpsDenom BY <1>2 DEF EffectiveFee
<1>4. Fee(p) \in Nat /\ Fee(p) <= PoolTotal(p) BY <1>1, <1>3, BpsRange DEF Fee
<1>5. QED BY <1>1, <1>4 DEF NetPool

(* The live stakes on an outcome cover each bettor's.                      *)
LEMMA StakedTypes ==
  ASSUME MarketInv, NEW p \in Pools, NEW o \in Outcomes
  PROVE  /\ StakedOn(p, o) \in Nat /\ StakedOn(p, o) <= totals[p][o]
         /\ \A u \in Accounts : stake[p][u][o] \in Nat /\ stake[p][u][o] <= StakedOn(p, o)
<1> DEFINE f == [u \in Accounts |-> stake[p][u][o]]
<1>1. StakesWithinTotals /\ stake \in [Pools -> [Accounts -> [Outcomes -> Nat]]]
  BY DEF MarketInv, BookInv, BookTypeOK
<1>2. f \in [Accounts -> Nat] BY <1>1
<1>3. \A i \in 0 .. NumAccounts - 1 : f[i] \in Nat BY <1>2 DEF Accounts
<1>4. NumAccounts \in Nat BY Sizes
<1>5. \A u \in Accounts : f[u] = stake[p][u][o] OBVIOUS
<1>6. StakedOn(p, o) = SumBelow(f, NumAccounts) BY DEF StakedOn
<1> HIDE DEF f
<1>7. SumBelow(f, NumAccounts) \in Nat BY <1>3, <1>4, SumNat
<1>8. \A u \in Accounts : f[u] <= SumBelow(f, NumAccounts) BY <1>3, <1>4, SumTerm DEF Accounts
<1>9. QED BY <1>1, <1>2, <1>5, <1>6, <1>7, <1>8 DEF StakesWithinTotals

(* The bettors of a pool can be counted.                                   *)
LEMMA ClaimsType ==
  ASSUME MarketInv, NEW p \in Pools
  PROVE  IsFiniteSet(bettors[p] \ hasBet[p]) /\ Claims(p) \in Nat
<1>1. bettors[p] \ hasBet[p] \subseteq Accounts BY DEF MarketInv, BookInv, BookTypeOK
<1>2. IsFiniteSet(Accounts) BY Sizes, FS_Interval DEF Accounts
<1>3. IsFiniteSet(bettors[p] \ hasBet[p]) BY <1>1, <1>2, FS_Subset
<1>4. QED BY <1>3, FS_CardinalityType DEF Claims

(* A fee that cannot be set to another value stays.                        *)
LEMMA OnlyFee ==
  ASSUME NEW a \in FeeChoices, NEW b \in FeeChoices, Cardinality(FeeChoices) = 1
  PROVE  a = b
<1>1. BpsDenom \in Nat /\ FeeChoices \subseteq 0 .. BpsDenom BY MarketAssumption, Sizes
<1>2. IsFiniteSet(0 .. BpsDenom) BY <1>1, FS_Interval
<1>3. IsFiniteSet(FeeChoices) BY <1>1, <1>2, FS_Subset
<1>4. PICK x : FeeChoices = {x} BY <1>3, FS_Singleton
<1>5. QED BY <1>4

-----------------------------------------------------------------------------
(* The steps that leave a pool's money alone.                              *)

(***************************************************************************)
(* Nothing the invariant says of pool q is touched: the settings, other    *)
(* pools, the clock and the pool's own status may still change, short of   *)
(* becoming Settled, and the expiry of a pool that has not expired.        *)
(***************************************************************************)
Untouched(q) ==
  /\ totals'[q] = totals[q] /\ stake'[q] = stake[q]
  /\ bettors'[q] = bettors[q] /\ hasBet'[q] = hasBet[q]
  /\ winner'[q] = winner[q] /\ lockedFee'[q] = lockedFee[q] /\ fresh'[q] = fresh[q]
  /\ payout'[q] = payout[q] /\ credited'[q] = credited[q] /\ escrow'[q] = escrow[q]
  /\ status'[q] = "Settled" => status[q] = "Settled"
  /\ Exists(q) => status'[q] # "None"
  /\ now' >= now
  /\ pool'[q].expiry = pool[q].expiry \/ status[q] = "None" \/ now < pool[q].expiry

LEMMA UntouchedKept ==
  ASSUME MarketInv, MarketInv', NEW q \in Pools, PoolInv(q), Untouched(q),
         protocolFee \in FeeChoices, protocolFee' \in FeeChoices
  PROVE  PoolInv(q)'
<1>1. /\ totals'[q] = totals[q] /\ stake'[q] = stake[q]
      /\ bettors'[q] = bettors[q] /\ hasBet'[q] = hasBet[q]
      /\ winner'[q] = winner[q] /\ lockedFee'[q] = lockedFee[q] /\ fresh'[q] = fresh[q]
      /\ payout'[q] = payout[q] /\ credited'[q] = credited[q] /\ escrow'[q] = escrow[q]
  BY DEF Untouched
<1>2. PoolTotal(q)' = PoolTotal(q) BY <1>1 DEF PoolTotal
<1>3. lockedFee'[q] \in 0 .. BpsDenom \cup {NoFee} BY <1>1 DEF PoolInv
<1>4. payout'[q].feeCredited => Exists(q)' BY <1>1 DEF PoolInv, Untouched, Exists
<1>5. status'[q] = "Settled" \/ payout'[q].feeCredited => now' >= pool'[q].expiry
  <2>1. SUFFICES ASSUME status'[q] = "Settled" \/ payout'[q].feeCredited
                 PROVE  now' >= pool'[q].expiry
    OBVIOUS
  <2>2. status[q] = "Settled" \/ payout[q].feeCredited BY <1>1, <2>1 DEF Untouched
  <2>3. now >= pool[q].expiry /\ status[q] # "None" BY <2>2 DEF PoolInv, Exists
  <2>4. now \in Nat /\ now' \in Nat /\ pool[q].expiry \in Nat /\ now' >= now
    BY PoolTypes DEF MarketInv, Untouched
  <2>5. pool'[q].expiry = pool[q].expiry BY <2>3, <2>4 DEF Untouched
  <2>6. QED BY <2>3, <2>4, <2>5
<1>6. /\ escrow'[q] <= PoolTotal(q)'
      /\ payout'[q].feeCredited => escrow'[q] < PoolTotal(q)'
      /\ ~payout'[q].feeCredited => payout'[q] = NoPayout /\ credited'[q] = 0
  BY <1>1, <1>2 DEF PoolInv
<1>7. ASSUME Regular(q)' PROVE Shares(q)'
  <2>1. FeeFixed(q) /\ (lockedFee[q] = NoFee => protocolFee' = protocolFee)
    BY <1>1, <1>7, OnlyFee DEF Regular, FeeFixed
  <2>2. Regular(q) BY <1>1, <1>7, <2>1 DEF Regular, Untouched
  <2>3. Conserved(q) /\ ClaimsWithinSide(q) /\ FloorsOnly(q) /\ CreditedInTime(q)
    BY <2>2 DEF PoolInv, Shares
  <2>4. EffectiveFee(q)' = EffectiveFee(q) BY <1>1, <2>1 DEF EffectiveFee
  <2>5. Fee(q)' = Fee(q) BY <1>2, <2>4 DEF Fee
  <2>6. NetPool(q)' = NetPool(q) /\ WinningTotal(q)' = WinningTotal(q)
    BY <1>1, <1>2, <2>5 DEF NetPool, WinningTotal
  <2>7. Claims(q)' = Claims(q) BY <1>1 DEF Claims
  <2>8. StakedOn(q, winner[q])' = StakedOn(q, winner[q]) BY <1>1 DEF StakedOn
  <2>9. Conserved(q)' BY <1>1, <1>2, <2>3 DEF Conserved
  <2>10. ClaimsWithinSide(q)' BY <1>1, <2>3, <2>6, <2>8 DEF ClaimsWithinSide
  <2>11. FloorsOnly(q)' BY <1>1, <2>3, <2>6, <2>7 DEF FloorsOnly
  <2>12. CreditedInTime(q)' BY <1>1, <2>3, <2>5, <2>6, <2>7 DEF CreditedInTime, FullyClaimed
  <2>13. QED BY <2>9, <2>10, <2>11, <2>12 DEF Shares
<1>8. QED BY <1>3, <1>4, <1>5, <1>6, <1>7 DEF PoolInv

(***************************************************************************)
(* A step that adds no pool keeps what it says of every pool it leaves     *)
(* untouched: it is enough to look at the others.                          *)
(***************************************************************************)
LEMMA PoolsStep ==
  ASSUME MarketInv, MarketInv', PayoutInv, protocolFee' \in FeeChoices,
         \A q \in Pools : Untouched(q) \/ PoolInv(q)',
         \A q \in Pools : Exists(q)' <=> Exists(q)
  PROVE  PayoutInv'
<1>1. protocolFee \in FeeChoices /\ IdsInOrder /\ \A q \in Pools : PoolInv(q)
  BY DEF PayoutInv
<1>2. \A q \in Pools : PoolInv(q)' BY <1>1, UntouchedKept
<1>3. Created' = Created BY DEF Created
<1>4. IdsInOrder' BY <1>1, <1>3 DEF IdsInOrder
<1>5. QED BY <1>2, <1>4 DEF PayoutInv

LEMMA OnePoolStep ==
  ASSUME MarketInv, MarketInv', PayoutInv, NEW p \in Pools, PoolInv(p)',
         \A q \in Pools : q # p => Untouched(q),
         \A q \in Pools : Exists(q)' <=> Exists(q),
         protocolFee' = protocolFee
  PROVE  PayoutInv'
<1>1. protocolFee' \in FeeChoices BY DEF PayoutInv
<1>2. \A q \in Pools : Untouched(q) \/ PoolInv(q)' OBVIOUS
<1>3. QED BY <1>1, <1>2, PoolsStep

LEMMA NoPoolStep ==
  ASSUME MarketInv, MarketInv', PayoutInv, protocolFee' \in FeeChoices,
         \A q \in Pools : Untouched(q),
         \A q \in Pools : Exists(q)' <=> Exists(q)
  PROVE  PayoutInv'
BY PoolsStep

-----------------------------------------------------------------------------
(* The division of the balance.                                            *)

(* What the pools hold together moves with what one of them holds.         *)
LEMMA EscrowMoves ==
  ASSUME MoneyTypeOK, MoneyTypeOK', NEW p \in Pools, NEW delta \in Int, BalanceDivided,
         escrow'[p] = escrow[p] + delta,
         \A q \in Pools : q # p => escrow'[q] = escrow[q],
         balance' - treasury' = balance - treasury + delta
  PROVE  BalanceDivided'
<1> DEFINE f == [i \in 0 .. NumPools - 1 |-> escrow[i + 1]]
           g == [i \in 0 .. NumPools - 1 |-> escrow'[i + 1]]
<1>1. NumPools \in Nat /\ p - 1 \in 0 .. NumPools - 1 /\ p - 1 + 1 = p BY Sizes DEF Pools
<1>2. escrow \in [Pools -> Int] /\ escrow' \in [Pools -> Int] BY DEF MoneyTypeOK
<1>3. \A i \in 0 .. NumPools - 1 : i + 1 \in Pools BY <1>1 DEF Pools
<1>4. \A i \in 0 .. NumPools - 1 : f[i] \in Int /\ g[i] \in Int BY <1>2, <1>3
<1>5. \A i \in 0 .. NumPools - 1 : i # p - 1 => g[i] = f[i] BY <1>1, <1>3
<1>6. f[p - 1] = escrow[p] /\ g[p - 1] = escrow[p] + delta BY <1>1
<1>7. escrow[p] \in Int BY <1>2
<1>8. balance = treasury + SumBelow(f, NumPools) BY DEF BalanceDivided, EscrowTotal
<1>9. balance \in Int /\ treasury \in Int /\ balance' \in Int /\ treasury' \in Int
  BY DEF MoneyTypeOK
<1> HIDE DEF f, g
<1>10. SumBelow(g, NumPools) = SumBelow(f, NumPools) + (g[p - 1] - f[p - 1])
  BY <1>1, <1>4, <1>5, SumUpdate
<1>11. SumBelow(f, NumPools) \in Int BY <1>1, <1>4, SumInt
<1>12. balance' = treasury' + SumBelow(g, NumPools)
  BY <1>6, <1>7, <1>8, <1>9, <1>10, <1>11
<1>13. QED BY <1>12 DEF BalanceDivided, EscrowTotal, g

LEMMA EscrowKept ==
  ASSUME MoneyTypeOK, MoneyTypeOK', BalanceDivided, escrow' = escrow,
         balance' - treasury' = balance - treasury
  PROVE  BalanceDivided'
<1>1. 1 \in Pools /\ escrow[1] \in Int BY Sizes DEF Pools, MoneyTypeOK
<1>2. balance \in Int /\ treasury \in Int BY DEF MoneyTypeOK
<1>3. escrow'[1] = escrow[1] + 0 /\ balance' - treasury' = balance - treasury + 0
  BY <1>1, <1>2
<1>4. 0 \in Int /\ \A q \in Pools : q # 1 => escrow'[q] = escrow[q] OBVIOUS
<1>5. QED BY <1>1, <1>3, <1>4, EscrowMoves

MoneyState == MarketInv /\ PayoutInv /\ BalanceDivided

-----------------------------------------------------------------------------
(* Bets.                                                                   *)

(* A bet moves the pool's total and touches no other pool.                 *)
LEMMA TotalMoved ==
  ASSUME BookTypeOK, BookTypeOK', NEW u \in Accounts, NEW p \in Pools, NEW o \in Outcomes,
         NEW delta \in Int, MoveStake(u, p, o, delta)
  PROVE  /\ PoolTotal(p)' = PoolTotal(p) + delta
         /\ \A q \in Pools : q # p => totals'[q] = totals[q] /\ stake'[q] = stake[q]
<1> DEFINE f == totals[p]
           g == totals'[p]
<1>1. /\ totals' = [totals EXCEPT ![p][o] = @ + delta]
      /\ stake' = [stake EXCEPT ![p][u][o] = @ + delta]
  BY DEF MoveStake
<1>2. /\ totals \in [Pools -> [Outcomes -> Nat]] /\ totals' \in [Pools -> [Outcomes -> Nat]]
      /\ stake \in [Pools -> [Accounts -> [Outcomes -> Nat]]]
  BY DEF BookTypeOK
<1>3. \A q \in Pools : q # p => totals'[q] = totals[q] /\ stake'[q] = stake[q]
  BY <1>1, <1>2
<1>4. /\ f \in [Outcomes -> Nat] /\ g \in [Outcomes -> Nat]
      /\ g[o] = f[o] + delta /\ \A w \in Outcomes : w # o => g[w] = f[w]
  BY <1>1, <1>2
<1> HIDE DEF f, g
<1>5. SumBelow(g, NumOutcomes) = SumBelow(f, NumOutcomes) + delta
  BY <1>4, OutcomeSumMove
<1>6. QED BY <1>3, <1>5 DEF PoolTotal, f, g

(***************************************************************************)
(* While a pool takes bets its money moves with its total.                 *)
(***************************************************************************)
LEMMA BetPays ==
  ASSUME MarketInv, MarketInv', PayoutInv, BalanceDivided,
         NEW p \in Pools, NEW delta \in Int,
         PoolTotal(p)' = PoolTotal(p) + delta,
         \A q \in Pools : q # p => totals'[q] = totals[q] /\ stake'[q] = stake[q],
         Exists(p), now < pool[p].expiry,
         status'[p] \notin {"Settled", "None"},
         escrow'[p] = escrow[p] + delta, balance' = balance + delta,
         \A q \in Pools : q # p => /\ escrow'[q] = escrow[q] /\ status'[q] = status[q]
                                   /\ hasBet'[q] = hasBet[q] /\ bettors'[q] = bettors[q],
         UNCHANGED <<now, configVars, pool, winner, lockedFee, fresh, payout, credited, treasury>>
  PROVE  PayoutInv' /\ BalanceDivided'
<1>1. PoolInv(p) BY DEF PayoutInv
<1>2. /\ now \in Nat /\ pool[p].expiry \in Nat /\ escrow[p] \in Int /\ PoolTotal(p) \in Nat
  BY PoolTypes
<1>3. ~payout[p].feeCredited BY <1>1, <1>2 DEF PoolInv
<1>4. PoolInv(p)'
  <2>1. lockedFee'[p] \in 0 .. BpsDenom \cup {NoFee} BY <1>1 DEF PoolInv
  <2>2. ~payout'[p].feeCredited /\ payout'[p] = NoPayout /\ credited'[p] = 0
    BY <1>1, <1>3 DEF PoolInv
  <2>3. escrow'[p] <= PoolTotal(p)' BY <1>1, <1>2 DEF PoolInv
  <2>4. ~Regular(p)' BY DEF Regular
  <2>5. QED BY <2>1, <2>2, <2>3, <2>4 DEF PoolInv
<1>5. \A q \in Pools : q # p => Untouched(q) BY DEF Untouched, Exists, MarketInv
<1>6. \A q \in Pools : Exists(q)' <=> Exists(q) BY DEF Exists
<1>7. protocolFee' = protocolFee BY DEF configVars
<1>8. PayoutInv' BY <1>4, <1>5, <1>6, <1>7, OnePoolStep
<1>9. BalanceDivided'
  <2>1. MoneyTypeOK /\ MoneyTypeOK' BY DEF MarketInv, MoneyInv
  <2>2. balance' - treasury' = balance - treasury + delta BY <2>1 DEF MoneyTypeOK
  <2>3. QED BY <2>1, <2>2, EscrowMoves
<1>10. QED BY <1>8, <1>9

LEMMA PlaceBetPays ==
  ASSUME MarketInv, MarketInv', PayoutInv, BalanceDivided,
         NEW u \in Accounts, NEW p \in Pools, NEW o \in Outcomes, NEW amount \in BetAmounts,
         PlaceBet(u, p, o, amount)
  PROVE  PayoutInv' /\ BalanceDivided'
<1> DEFINE net == amount - Bps(amount, PlaceFeeBps)
<1>1. BookTypeOK /\ BookTypeOK' /\ MoneyTypeOK /\ LifeTypeOK
  BY DEF MarketInv, BookInv, MoneyInv, LifeInv
<1>2. net \in Int
  <2>1. amount \in Nat BY MarketAssumption
  <2>2. QED BY <2>1, Sizes, BpsRange
<1>3. /\ AcceptsBets(p)
      /\ balance' = balance + net
      /\ escrow' = [escrow EXCEPT ![p] = @ + net]
      /\ MoveStake(u, p, o, net)
      /\ \E s : hasBet' = [hasBet EXCEPT ![p] = s]
      /\ \E s : bettors' = [bettors EXCEPT ![p] = s]
      /\ \E s \in {"Frozen", "Open"} : status' = [status EXCEPT ![p] = s]
      /\ UNCHANGED <<now, configVars, pool, winner, lockedFee, fresh, payout, credited, treasury>>
  BY DEF PlaceBet
<1> HIDE DEF net
<1>4. /\ PoolTotal(p)' = PoolTotal(p) + net
      /\ \A q \in Pools : q # p => totals'[q] = totals[q] /\ stake'[q] = stake[q]
  BY <1>1, <1>2, <1>3, TotalMoved
<1>5. Exists(p) /\ now < pool[p].expiry BY <1>3 DEF AcceptsBets, Thawed, Exists
<1>6. status'[p] \notin {"Settled", "None"} BY <1>1, <1>3 DEF LifeTypeOK
<1>7. escrow'[p] = escrow[p] + net BY <1>1, <1>3 DEF MoneyTypeOK
<1>8. \A q \in Pools : q # p => /\ escrow'[q] = escrow[q] /\ status'[q] = status[q]
                                /\ hasBet'[q] = hasBet[q] /\ bettors'[q] = bettors[q]
  BY <1>1, <1>3 DEF MoneyTypeOK, LifeTypeOK, BookTypeOK
<1>9. QED BY <1>2, <1>3, <1>4, <1>5, <1>6, <1>7, <1>8, BetPays

LEMMA CancelBetPays ==
  ASSUME MarketInv, MarketInv', PayoutInv, BalanceDivided,
         NEW u \in Accounts, NEW p \in Pools, NEW o \in Outcomes, NEW amount \in CancelAmounts,
         CancelBet(u, p, o, amount)
  PROVE  PayoutInv' /\ BalanceDivided'
<1>1. BookTypeOK /\ BookTypeOK' /\ MoneyTypeOK
  BY DEF MarketInv, BookInv, MoneyInv
<1>2. amount \in Nat /\ -amount \in Int BY MarketAssumption
<1>3. /\ status[p] = "Open" /\ now < pool[p].expiry
      /\ balance' = balance - amount
      /\ escrow' = [escrow EXCEPT ![p] = @ - amount]
      /\ MoveStake(u, p, o, -amount)
      /\ UNCHANGED <<now, configVars, pool, status, winner, lockedFee, fresh, hasBet, bettors,
                     payout, credited, treasury>>
  BY DEF CancelBet, lifeVars
<1>4. /\ PoolTotal(p)' = PoolTotal(p) + (-amount)
      /\ \A q \in Pools : q # p => totals'[q] = totals[q] /\ stake'[q] = stake[q]
  BY <1>1, <1>2, <1>3, TotalMoved
<1>5. Exists(p) /\ status'[p] \notin {"Settled", "None"} BY <1>3 DEF Exists
<1>6. escrow'[p] = escrow[p] + (-amount) /\ balance' = balance + (-amount)
  BY <1>1, <1>2, <1>3 DEF MoneyTypeOK
<1>7. \A q \in Pools : q # p => /\ escrow'[q] = escrow[q] /\ status'[q] = status[q]
                                /\ hasBet'[q] = hasBet[q] /\ bettors'[q] = bettors[q]
  BY <1>1, <1>3 DEF MoneyTypeOK
<1>8. QED BY <1>2, <1>3, <1>4, <1>5, <1>6, <1>7, BetPays

-----------------------------------------------------------------------------
(* Refunds.                                                                *)

(***************************************************************************)
(* Deleting bets and paying for them: the pool's total stays, its money    *)
(* shrinks, and it is not a settled pool before or after.                  *)
(***************************************************************************)
LEMMA RefundPays ==
  ASSUME MarketInv, MarketInv', PayoutInv, BalanceDivided,
         NEW p \in Pools, NEW who \in SUBSET Accounts, NEW amount \in Nat,
         PayOut(p, amount), RemoveBets(p, who),
         Exists(p), status'[p] \notin {"Settled", "None"},
         \A q \in Pools : q # p => status'[q] = status[q],
         UNCHANGED <<now, configVars, pool, winner, lockedFee, fresh>>
  PROVE  PayoutInv' /\ BalanceDivided'
<1>1. BookTypeOK /\ MoneyTypeOK /\ MoneyTypeOK' BY DEF MarketInv, BookInv, MoneyInv
<1>2. PoolInv(p) BY DEF PayoutInv
<1>3. /\ balance' = balance - amount
      /\ escrow'[p] = escrow[p] + (-amount)
      /\ \A q \in Pools : q # p => escrow'[q] = escrow[q]
      /\ UNCHANGED <<payout, credited, treasury>>
  BY <1>1 DEF PayOut, MoneyTypeOK
<1>4. /\ totals' = totals /\ bettors' = bettors
      /\ \A q \in Pools : q # p => stake'[q] = stake[q] /\ hasBet'[q] = hasBet[q]
  BY <1>1 DEF RemoveBets, BookTypeOK
<1>5. PoolInv(p)'
  <2>1. PoolTotal(p)' = PoolTotal(p) BY <1>4 DEF PoolTotal
  <2>2. PoolTotal(p) \in Nat /\ escrow[p] \in Int BY PoolTypes
  <2>3. escrow'[p] <= escrow[p] /\ escrow'[p] \in Int BY <1>3, <2>2
  <2>4. /\ escrow'[p] <= PoolTotal(p)'
        /\ payout'[p].feeCredited => escrow'[p] < PoolTotal(p)'
    BY <1>2, <1>3, <2>1, <2>2, <2>3 DEF PoolInv
  <2>5. ~Regular(p)' BY DEF Regular
  <2>6. /\ lockedFee'[p] \in 0 .. BpsDenom \cup {NoFee}
        /\ payout'[p].feeCredited => Exists(p)' /\ now' >= pool'[p].expiry
        /\ ~payout'[p].feeCredited => payout'[p] = NoPayout /\ credited'[p] = 0
    BY <1>2, <1>3 DEF PoolInv, Exists
  <2>7. QED BY <2>4, <2>5, <2>6 DEF PoolInv
<1>6. \A q \in Pools : q # p => Untouched(q)
  BY <1>3, <1>4 DEF Untouched, Exists, MarketInv
<1>7. \A q \in Pools : Exists(q)' <=> Exists(q) BY DEF Exists
<1>8. protocolFee' = protocolFee BY DEF configVars
<1>9. PayoutInv' BY <1>5, <1>6, <1>7, <1>8, OnePoolStep
<1>10. BalanceDivided'
  <2>1. -amount \in Int /\ balance' - treasury' = balance - treasury + (-amount)
    BY <1>1, <1>3 DEF MoneyTypeOK
  <2>2. QED BY <1>1, <1>3, <2>1, EscrowMoves
<1>11. QED BY <1>9, <1>10

LEMMA RefundOnePays ==
  ASSUME MarketInv, MarketInv', PayoutInv, BalanceDivided,
         NEW u \in Accounts, NEW p \in Pools,
         status[p] \in {"Open", "Voided", "Cancelled"}, RefundOne(p, u)
  PROVE  PayoutInv' /\ BalanceDivided'
<1>1. totalBet[p][u] \in Nat BY DEF MarketInv, BookInv, BookTypeOK
<1>2. /\ PayOut(p, totalBet[p][u]) /\ RemoveBets(p, {u})
      /\ UNCHANGED <<now, configVars, pool, status, winner, lockedFee, fresh>>
  BY DEF RefundOne, lifeVars
<1>3. Exists(p) /\ status'[p] \notin {"Settled", "None"} BY <1>2 DEF Exists
<1>4. {u} \in SUBSET Accounts /\ \A q \in Pools : q # p => status'[q] = status[q] BY <1>2
<1>5. QED BY <1>1, <1>2, <1>3, <1>4, RefundPays

LEMMA RefundAllPays ==
  ASSUME MarketInv, MarketInv', PayoutInv, BalanceDivided, NEW p \in Pools,
         Exists(p), RefundAll(p), status' = [status EXCEPT ![p] = "Cancelled"],
         UNCHANGED <<now, configVars, pool, winner, lockedFee, fresh>>
  PROVE  PayoutInv' /\ BalanceDivided'
<1>1. BookInv /\ MoneyInv /\ BookTypeOK /\ LifeTypeOK
  BY DEF MarketInv, BookInv, LifeInv
<1>2. RefundCut(p) \in [Accounts -> Nat] BY <1>1, RefundAllBooks
<1>3. SumBelow(RefundCut(p), NumAccounts) \in Nat
  <2>1. \A i \in 0 .. NumAccounts - 1 : RefundCut(p)[i] \in Nat BY <1>2 DEF Accounts
  <2>2. NumAccounts \in Nat BY Sizes
  <2>3. QED BY <2>1, <2>2, SumNat
<1>4. PayOut(p, SumBelow(RefundCut(p), NumAccounts)) /\ RemoveBets(p, Refunded(p))
  BY DEF RefundAll
<1>5. Refunded(p) \in SUBSET Accounts BY <1>1 DEF Refunded, BookTypeOK
<1>6. /\ status'[p] \notin {"Settled", "None"}
      /\ \A q \in Pools : q # p => status'[q] = status[q]
  BY <1>1 DEF LifeTypeOK
<1>7. QED BY <1>3, <1>4, <1>5, <1>6, RefundPays

-----------------------------------------------------------------------------
(* Settlement.                                                             *)

(***************************************************************************)
(* A pool settled whole has paid nobody: its shares start from zero.       *)
(***************************************************************************)
LEMMA SettledPool ==
  ASSUME MarketInv, NEW p \in Pools, NEW o \in Outcomes, PoolInv(p), now >= pool[p].expiry,
         status'[p] = "Settled", winner'[p] = o,
         lockedFee'[p] \in {lockedFee[p], FeeForVolume(PoolTotal(p))},
         fresh'[p] = (escrow[p] = PoolTotal(p)),
         UNCHANGED <<now, configVars, pool, bookVars, moneyVars>>
  PROVE  PoolInv(p)'
<1> DEFINE fee == FeeForVolume(PoolTotal(p))
<1>1. /\ ConfigTypeOK /\ LifeTypeOK /\ BookTypeOK /\ MoneyTypeOK /\ StakesWithinTotals
  BY DEF MarketInv, LifeInv, BookInv, MoneyInv
<1>2. PoolInv(p) OBVIOUS
<1>3. /\ PoolTotal(p) \in Nat /\ escrow[p] \in Int /\ now \in Nat /\ pool[p].expiry \in Nat
  BY PoolTypes
<1>4. fee \in 0 .. BpsDenom BY <1>1, <1>3, FeeForVolumeType
<1>5. UNCHANGED <<now, configVars, pool, bookVars, moneyVars>> OBVIOUS
<1>6. /\ status'[p] = "Settled" /\ winner'[p] = o
      /\ lockedFee'[p] \in {lockedFee[p], fee}
      /\ fresh'[p] = (escrow[p] = PoolTotal(p))
  OBVIOUS
<1> HIDE DEF fee
<1>7. PoolTotal(p)' = PoolTotal(p) BY <1>5 DEF PoolTotal, bookVars
<1>8. UNCHANGED <<escrow, credited, payout, stake, totals, bettors, hasBet, balance, treasury>>
  BY <1>5 DEF moneyVars, bookVars
<1>9. lockedFee'[p] \in 0 .. BpsDenom \cup {NoFee} BY <1>2, <1>4, <1>6 DEF PoolInv
<1>10. ASSUME Regular(p)' PROVE Shares(p)'
  <2>1. escrow[p] = PoolTotal(p) BY <1>6, <1>10 DEF Regular
  <2>2. payout[p] = NoPayout /\ credited[p] = 0 BY <1>2, <1>3, <2>1 DEF PoolInv
  <2>3. /\ ~payout'[p].feeCredited /\ payout'[p].claimed = 0 /\ payout'[p].paidOut = 0
        /\ credited'[p] = 0 /\ escrow'[p] = PoolTotal(p)
    BY <1>8, <2>1, <2>2 DEF NoPayout
  <2>4. Conserved(p)' BY <1>3, <1>7, <2>3 DEF Conserved
  <2>5. WinningTotal(p)' \in Nat BY <1>1, <1>6, <1>8 DEF WinningTotal, BookTypeOK
  <2>6. StakedOn(p, o)' = StakedOn(p, o) /\ totals'[p][o] = totals[p][o]
    BY <1>8 DEF StakedOn
  <2>7. StakedOn(p, o) <= totals[p][o] /\ StakedOn(p, o) \in Nat
    BY StakedTypes
  <2>8. ClaimsWithinSide(p)'
    BY <1>6, <2>3, <2>6, <2>7 DEF ClaimsWithinSide, WinningTotal
  <2>9. FloorsOnly(p)'
    <3>1. NetPool(p)' \in Int
      <4>1. protocolFee' \in Int
        BY <1>1, <1>5, Sizes DEF ConfigTypeOK, configVars
      <4>2. lockedFee'[p] \in Int BY <1>9, Sizes DEF NoFee
      <4>3. EffectiveFee(p)' \in Int BY <4>1, <4>2 DEF EffectiveFee
      <4>4. PoolTotal(p)' * EffectiveFee(p)' \in Int /\ BpsDenom \in Nat \ {0}
        BY <1>3, <1>7, <4>3, Sizes
      <4>5. Fee(p)' \in Int BY <4>4 DEF Fee, Bps
      <4>6. QED BY <1>3, <1>7, <4>5 DEF NetPool
    <3>2. Claims(p)' \in Nat
      BY <1>8, ClaimsType DEF Claims
    <3>3. /\ NetPool(p)' * 0 = 0 /\ WinningTotal(p)' * 0 = 0
          /\ WinningTotal(p)' > 0 => Claims(p)' * (WinningTotal(p)' - 1) >= 0
      BY <2>5, <3>1, <3>2
    <3>4. WinningTotal(p)' > 0 => Claims(p)' * (WinningTotal(p)' - 1) \in Int
      BY <2>5, <3>2
    <3>5. QED BY <2>3, <3>3, <3>4 DEF FloorsOnly
  <2>10. CreditedInTime(p)' BY <2>3, <2>5 DEF CreditedInTime, FullyClaimed
  <2>11. QED BY <2>4, <2>8, <2>9, <2>10 DEF Shares
<1>11. payout'[p].feeCredited => Exists(p)' BY <1>6 DEF Exists
<1>12. now' >= pool'[p].expiry BY <1>5
<1>13. /\ escrow'[p] <= PoolTotal(p)'
       /\ payout'[p].feeCredited => escrow'[p] < PoolTotal(p)'
       /\ ~payout'[p].feeCredited => payout'[p] = NoPayout /\ credited'[p] = 0
  BY <1>2, <1>7, <1>8 DEF PoolInv
<1>14. QED BY <1>9, <1>10, <1>11, <1>12, <1>13 DEF PoolInv

LEMMA SettlePays ==
  ASSUME MarketInv, MarketInv', PayoutInv, BalanceDivided,
         NEW caller \in Accounts, NEW p \in Pools, NEW o \in Outcomes, SettlePool(caller, p, o)
  PROVE  PayoutInv' /\ BalanceDivided'
<1> DEFINE fee == FeeForVolume(PoolTotal(p))
<1>1. LifeTypeOK /\ MoneyTypeOK /\ MoneyTypeOK' /\ now \in Nat /\ PoolInv(p)
  BY DEF MarketInv, LifeInv, MoneyInv, PayoutInv
<1>2. /\ status[p] = "Open" /\ now >= pool[p].expiry
      /\ status' = [status EXCEPT ![p] = "Settled"]
      /\ winner' = [winner EXCEPT ![p] = o]
      /\ lockedFee' = [lockedFee EXCEPT ![p] = IF feeTiers = <<>> THEN @ ELSE fee]
      /\ fresh' = [fresh EXCEPT ![p] = (escrow[p] = PoolTotal(p))]
      /\ UNCHANGED <<now, configVars, pool, bookVars, moneyVars>>
  BY DEF SettlePool, Settleable
<1> HIDE DEF fee
<1>3. /\ status'[p] = "Settled" /\ winner'[p] = o
      /\ lockedFee'[p] \in {lockedFee[p], fee}
      /\ fresh'[p] = (escrow[p] = PoolTotal(p))
      /\ \A q \in Pools : q # p => /\ status'[q] = status[q] /\ winner'[q] = winner[q]
                                   /\ lockedFee'[q] = lockedFee[q] /\ fresh'[q] = fresh[q]
  BY <1>1, <1>2 DEF LifeTypeOK
<1>4. PoolInv(p)' BY <1>1, <1>2, <1>3, SettledPool DEF fee
<1>5. \A q \in Pools : q # p => Untouched(q)
  BY <1>1, <1>2, <1>3 DEF Untouched, Exists, moneyVars, bookVars
<1>6. \A q \in Pools : Exists(q)' <=> Exists(q) BY <1>2, <1>3 DEF Exists
<1>7. protocolFee' = protocolFee BY <1>2 DEF configVars
<1>8. PayoutInv' BY <1>4, <1>5, <1>6, <1>7, OnePoolStep
<1>9. BalanceDivided' BY <1>1, <1>2, EscrowKept DEF moneyVars
<1>10. QED BY <1>8, <1>9

-----------------------------------------------------------------------------
(* Claims.                                                                 *)

(* A share of a whole that is no smaller than the side is no smaller than  *)
(* the stake.                                                              *)
LEMMA ShareOfWhole ==
  ASSUME NEW s \in Nat, NEW n \in Nat, NEW w \in Nat \ {0}, w <= n
  PROVE  s <= (s * n) \div w
<1> DEFINE x == (s * n) \div w
<1>1. s * n \in Nat OBVIOUS
<1>2. x \in Nat /\ s * n < w * x + w BY <1>1, DivNat
<1> HIDE DEF x
<1>3. SUFFICES ASSUME x + 1 <= s PROVE FALSE BY <1>2 DEF x
<1>4. w * (x + 1) <= w * s BY <1>2, <1>3, ProductOrder
<1>5. s * w <= s * n BY ProductOrder
<1>6. w * (x + 1) = w * x + w /\ w * s = s * w /\ w * x \in Int BY <1>2, Products
<1>7. s * w \in Int BY Products
<1>8. QED BY <1>1, <1>2, <1>4, <1>5, <1>6, <1>7

(* The quantities of a claim.                                              *)
LEMMA ClaimAmounts ==
  ASSUME MarketInv, NEW u \in Accounts, NEW p \in Pools, PoolInv(p), Claimable(u, p)
  PROVE  /\ winner[p] \in Outcomes
         /\ WinningTotal(p) \in Nat \ {0} /\ WinningTotal(p) <= PoolTotal(p)
         /\ WinningStake(p, u) \in Nat \ {0}
         /\ WinningStake(p, u) <= StakedOn(p, winner[p])
         /\ StakedOn(p, winner[p]) \in Nat /\ StakedOn(p, winner[p]) <= WinningTotal(p)
         /\ Winnings(p, u) = (WinningStake(p, u) * NetPool(p)) \div WinningTotal(p)
         /\ Winnings(p, u) \in Nat
         /\ TreasuryDelta(p, u) \in Nat
         /\ Dust(p, u) \in Int
<1>1. winner[p] \in Outcomes
  BY DEF MarketInv, LifeInv, WinnerDeclared, Claimable
<1>2. /\ WinningStake(p, u) \in Nat /\ WinningStake(p, u) <= StakedOn(p, winner[p])
      /\ StakedOn(p, winner[p]) \in Nat /\ StakedOn(p, winner[p]) <= WinningTotal(p)
  BY <1>1, StakedTypes DEF WinningStake, WinningTotal
<1>3. WinningTotal(p) \in Nat /\ WinningTotal(p) <= PoolTotal(p)
  BY <1>1, PoolTypes DEF WinningTotal
<1>4. WinningStake(p, u) > 0 BY DEF Claimable
<1>5. WinningTotal(p) > 0 BY <1>2, <1>3, <1>4
<1>6. NetPool(p) \in Nat /\ Fee(p) \in Nat BY FeeTypes
<1>7. Winnings(p, u) = (WinningStake(p, u) * NetPool(p)) \div WinningTotal(p)
  BY DEF Winnings
<1>8. WinningStake(p, u) * NetPool(p) \in Nat BY <1>2, <1>6
<1>9. Winnings(p, u) \in Nat BY <1>3, <1>5, <1>7, <1>8, DivNat
<1>10. payout[p].paidOut \in Int BY PoolTypes
<1>11. Dust(p, u) \in Int BY <1>6, <1>9, <1>10 DEF Dust
<1>12. TreasuryDelta(p, u) \in Nat BY ClaimType
<1>13. QED BY <1>1, <1>2, <1>3, <1>4, <1>5, <1>7, <1>9, <1>11, <1>12

(* Something leaves the pool with its first claim.                         *)
LEMMA FirstClaimPays ==
  ASSUME MarketInv, NEW u \in Accounts, NEW p \in Pools, PoolInv(p), Claimable(u, p),
         ~payout[p].feeCredited
  PROVE  Winnings(p, u) + TreasuryDelta(p, u) > 0
<1> DEFINE n == NetPool(p)
           w == WinningTotal(p)
           s == WinningStake(p, u)
           x == Winnings(p, u)
<1>1. /\ n \in Nat /\ n = PoolTotal(p) - Fee(p) /\ Fee(p) \in Nat /\ PoolTotal(p) \in Nat
  BY FeeTypes, PoolTypes
<1>2. /\ w \in Nat \ {0} /\ w <= PoolTotal(p) /\ s \in Nat \ {0} /\ s <= w
      /\ x = (s * n) \div w /\ x \in Nat /\ TreasuryDelta(p, u) \in Nat
      /\ Dust(p, u) \in Int
  BY ClaimAmounts
<1>3. payout[p].claimed = 0 /\ payout[p].paidOut = 0 BY DEF PoolInv, NoPayout
<1>4. Dust(p, u) = IF s = w THEN n - x ELSE 0 BY <1>1, <1>2, <1>3 DEF Dust
<1>5. TreasuryDelta(p, u) = IF Fee(p) + Dust(p, u) > 0 THEN Fee(p) + Dust(p, u) ELSE 0
  BY DEF TreasuryDelta
<1> HIDE DEF n, w, s, x
<1>6. x <= n
  <2>1. 0 + s <= w /\ w * 0 <= n * 0 /\ n * 0 <= w * 0 + 0 * (w - 1) BY <1>1, <1>2
  <2>2. 0 + ((s * n) \div w) <= n BY <1>1, <1>2, <2>1, OneShare
  <2>3. QED BY <1>2, <2>2
<1>7. Dust(p, u) >= 0 BY <1>1, <1>2, <1>4, <1>6
<1>8. CASE Fee(p) > 0
  BY <1>1, <1>2, <1>5, <1>7, <1>8 DEF x
<1>9. CASE ~(Fee(p) > 0)
  <2>1. w <= n BY <1>1, <1>2, <1>9
  <2>2. s <= x BY <1>1, <1>2, <2>1, ShareOfWhole
  <2>3. x > 0 BY <1>2, <2>2
  <2>4. QED BY <1>2, <2>3 DEF x
<1>10. QED BY <1>8, <1>9

(* What a claim changes, pool by pool.                                     *)
LEMMA ClaimEffect ==
  ASSUME MarketInv, NEW u \in Accounts, NEW p \in Pools, PoolInv(p), ClaimWinnings(u, p)
  PROVE  /\ payout'[p].feeCredited = TRUE
         /\ payout'[p].claimed = payout[p].claimed + WinningStake(p, u)
         /\ payout'[p].paidOut = payout[p].paidOut + Winnings(p, u)
         /\ credited'[p] = credited[p] + TreasuryDelta(p, u)
         /\ escrow'[p] = escrow[p] - Winnings(p, u) - TreasuryDelta(p, u)
         /\ hasBet'[p] = hasBet[p] \ {u}
         /\ StakedOn(p, winner[p])' = StakedOn(p, winner[p]) - WinningStake(p, u)
         /\ Claims(p)' = Claims(p) + 1
         /\ \A q \in Pools : q # p =>
              /\ payout'[q] = payout[q] /\ credited'[q] = credited[q]
              /\ escrow'[q] = escrow[q] /\ stake'[q] = stake[q] /\ hasBet'[q] = hasBet[q]
         /\ UNCHANGED <<now, configVars, lifeVars, totals, bettors>>
<1>1. BookTypeOK /\ MoneyTypeOK /\ RefundListComplete
  BY DEF MarketInv, BookInv, MoneyInv
<1>2. /\ payout' = [payout EXCEPT ![p] =
                      [feeCredited |-> TRUE, claimed |-> @.claimed + WinningStake(p, u),
                       paidOut |-> @.paidOut + Winnings(p, u)]]
      /\ credited' = [credited EXCEPT ![p] = @ + TreasuryDelta(p, u)]
      /\ escrow' = [escrow EXCEPT ![p] = @ - Winnings(p, u) - TreasuryDelta(p, u)]
      /\ stake' = [stake EXCEPT ![p] =
                     [v \in Accounts |-> IF v \in {u} THEN [o \in Outcomes |-> 0] ELSE @[v]]]
      /\ hasBet' = [hasBet EXCEPT ![p] = @ \ {u}]
      /\ UNCHANGED <<now, configVars, lifeVars, totals, bettors>>
  BY DEF ClaimWinnings, RemoveBets
<1>3. /\ payout'[p].feeCredited = TRUE
      /\ payout'[p].claimed = payout[p].claimed + WinningStake(p, u)
      /\ payout'[p].paidOut = payout[p].paidOut + Winnings(p, u)
      /\ credited'[p] = credited[p] + TreasuryDelta(p, u)
      /\ escrow'[p] = escrow[p] - Winnings(p, u) - TreasuryDelta(p, u)
      /\ hasBet'[p] = hasBet[p] \ {u}
  BY <1>1, <1>2 DEF MoneyTypeOK, BookTypeOK
<1>4. \A q \in Pools : q # p =>
        /\ payout'[q] = payout[q] /\ credited'[q] = credited[q]
        /\ escrow'[q] = escrow[q] /\ stake'[q] = stake[q] /\ hasBet'[q] = hasBet[q]
  BY <1>1, <1>2 DEF MoneyTypeOK, BookTypeOK
<1>5. winner[p] \in Outcomes /\ WinningStake(p, u) \in Nat \ {0} /\ u \in hasBet[p]
  BY ClaimAmounts DEF ClaimWinnings, Claimable
<1>6. StakedOn(p, winner[p])' = StakedOn(p, winner[p]) - WinningStake(p, u)
  <2> DEFINE o == winner[p]
             f == [v \in Accounts |-> stake[p][v][o]]
             g == [v \in Accounts |-> stake'[p][v][o]]
  <2>1. stake \in [Pools -> [Accounts -> [Outcomes -> Nat]]] BY <1>1 DEF BookTypeOK
  <2>2. \A v \in Accounts : stake'[p][v] = IF v \in {u} THEN [w \in Outcomes |-> 0]
                                           ELSE stake[p][v]
    BY <1>2, <2>1
  <2>3. f \in [Accounts -> Nat] BY <1>5, <2>1
  <2>4. \A v \in Accounts : g[v] = IF v = u THEN 0 ELSE f[v] BY <1>5, <2>1, <2>2
  <2>5. f[u] = WinningStake(p, u) /\ -WinningStake(p, u) \in Int BY <1>5 DEF WinningStake
  <2>6. StakedOn(p, winner[p]) = SumBelow(f, NumAccounts) BY DEF StakedOn
  <2>7. StakedOn(p, winner[p])' = SumBelow(g, NumAccounts) BY <1>2 DEF StakedOn, lifeVars
  <2>8. g \in [Accounts -> Nat]
    <3>1. \A v \in Accounts : g[v] \in Nat BY <2>3, <2>4
    <3>2. QED BY <3>1
  <2> HIDE DEF f, g, o
  <2>9. g[u] = f[u] + (-WinningStake(p, u)) BY <1>5, <2>4, <2>5
  <2>10. SumBelow(g, NumAccounts) = SumBelow(f, NumAccounts) + (-WinningStake(p, u))
    BY <2>3, <2>4, <2>5, <2>8, <2>9, AccountSumMove
  <2>11. SumBelow(f, NumAccounts) \in Int BY <1>5, <2>6, StakedTypes
  <2>12. QED BY <1>5, <2>6, <2>7, <2>10, <2>11
<1>7. Claims(p)' = Claims(p) + 1
  <2>1. u \in bettors[p]
    <3>1. totalBet[p][u] > 0
      <4>1. WinningStake(p, u) <= totalBet[p][u] /\ totalBet[p][u] \in Nat
        BY <1>1, ClaimType DEF ClaimWinnings, BookTypeOK
      <4>2. QED BY <1>5, <4>1
    <3>2. QED BY <1>1, <3>1 DEF RefundListComplete
  <2>2. bettors'[p] \ hasBet'[p] = (bettors[p] \ hasBet[p]) \cup {u}
    BY <1>2, <1>3, <1>5, <2>1
  <2>3. u \notin bettors[p] \ hasBet[p] BY <1>5
  <2>4. IsFiniteSet(bettors[p] \ hasBet[p]) BY ClaimsType
  <2>5. QED BY <2>2, <2>3, <2>4, FS_AddElement DEF Claims
<1>8. QED BY <1>2, <1>3, <1>4, <1>6, <1>7

(***************************************************************************)
(* One claim keeps what is said of the shares of a regular pool.           *)
(***************************************************************************)
LEMMA ClaimKeepsShares ==
  ASSUME MarketInv, MarketInv', NEW u \in Accounts, NEW p \in Pools, PoolInv(p),
         ClaimWinnings(u, p), Regular(p)
  PROVE  Shares(p)'
<1> DEFINE n == NetPool(p)
           w == WinningTotal(p)
           s == WinningStake(p, u)
           x == Winnings(p, u)
           c == payout[p].claimed
           paid == payout[p].paidOut
           d == TreasuryDelta(p, u)
           k == Claims(p)
           live == StakedOn(p, winner[p])
<1>1. /\ payout'[p].feeCredited = TRUE
      /\ payout'[p].claimed = c + s
      /\ payout'[p].paidOut = paid + x
      /\ credited'[p] = credited[p] + d
      /\ escrow'[p] = escrow[p] - x - d
      /\ StakedOn(p, winner[p])' = live - s
      /\ Claims(p)' = k + 1
      /\ UNCHANGED <<now, configVars, lifeVars, totals, bettors>>
  BY ClaimEffect
<1>2. /\ w \in Nat \ {0} /\ s \in Nat \ {0} /\ s <= live /\ live \in Nat
      /\ x = (s * n) \div w /\ x \in Nat /\ d \in Nat /\ Dust(p, u) \in Int
  BY ClaimAmounts DEF ClaimWinnings
<1>3. /\ n \in Nat /\ n = PoolTotal(p) - Fee(p) /\ Fee(p) \in Nat /\ PoolTotal(p) \in Nat
      /\ c \in Nat /\ paid \in Int /\ escrow[p] \in Int /\ credited[p] \in Nat
      /\ payout[p].feeCredited \in BOOLEAN /\ k \in Nat
  BY FeeTypes, PoolTypes, ClaimsType
<1>4. /\ escrow[p] + credited[p] + paid = PoolTotal(p)
      /\ c + live <= w
      /\ w * paid <= n * c
      /\ n * c <= w * paid + k * (w - 1)
      /\ payout[p].feeCredited <=> c > 0
      /\ c # w => credited[p] = IF payout[p].feeCredited THEN Fee(p) ELSE 0
  BY <1>2 DEF PoolInv, Shares, Conserved, ClaimsWithinSide, FloorsOnly, CreditedInTime,
              FullyClaimed
<1>5. /\ PoolTotal(p)' = PoolTotal(p) /\ Fee(p)' = Fee(p) /\ NetPool(p)' = n
      /\ WinningTotal(p)' = w /\ StakedOn(p, winner[p])' = live - s
  BY <1>1 DEF PoolTotal, Fee, NetPool, WinningTotal, EffectiveFee, configVars, lifeVars
<1>6. Dust(p, u) = IF c + s = w THEN n - (paid + x) ELSE 0 BY DEF Dust
<1>7. d = LET delta == (IF payout[p].feeCredited THEN 0 ELSE Fee(p)) + Dust(p, u)
          IN  IF delta > 0 THEN delta ELSE 0
  BY DEF TreasuryDelta
<1> HIDE DEF n, w, s, x, c, paid, d, k, live
<1>8. c + s <= w BY <1>2, <1>3, <1>4
<1>9. /\ w * (paid + x) <= n * (c + s)
      /\ n * (c + s) <= w * (paid + x) + (k + 1) * (w - 1)
      /\ paid + x <= n
  BY <1>2, <1>3, <1>4, <1>8, OneShare
<1>10. Dust(p, u) >= 0 BY <1>2, <1>3, <1>6, <1>9
<1>11. d = (IF payout[p].feeCredited THEN 0 ELSE Fee(p)) + Dust(p, u)
  BY <1>2, <1>3, <1>7, <1>10
<1>12. Conserved(p)'
  <2>1. /\ x \in Int /\ d \in Int /\ escrow[p] \in Int /\ credited[p] \in Int /\ paid \in Int
        /\ escrow[p] + credited[p] + paid = PoolTotal(p)
    BY <1>2, <1>3, <1>4
  <2>2. (escrow[p] - x - d) + (credited[p] + d) + (paid + x) = PoolTotal(p) BY <2>1
  <2>3. escrow'[p] + credited'[p] + payout'[p].paidOut = PoolTotal(p)' BY <1>1, <1>5, <2>2
  <2>4. QED BY <2>3 DEF Conserved
<1>13. ClaimsWithinSide(p)'
  <2>1. (c + s) + (live - s) <= w BY <1>2, <1>3, <1>4
  <2>2. QED BY <1>1, <1>5, <2>1 DEF ClaimsWithinSide
<1>14. FloorsOnly(p)' BY <1>1, <1>5, <1>9 DEF FloorsOnly
<1>15. CreditedInTime(p)'
  <2>1. payout'[p].claimed > 0 /\ Claims(p)' > 0
    <3>1. c + s > 0 /\ k + 1 > 0 BY <1>2, <1>3
    <3>2. QED BY <1>1, <3>1
  <2>2. c # w BY <1>2, <1>3, <1>8
  <2>3. CASE c + s = w
    <3>1. escrow'[p] = 0
      BY <1>1, <1>2, <1>3, <1>4, <1>6, <1>11, <2>2, <2>3
    <3>2. FullyClaimed(p)' BY <1>1, <1>2, <1>5, <2>3 DEF FullyClaimed
    <3>3. QED BY <1>1, <2>1, <3>1, <3>2 DEF CreditedInTime
  <2>4. CASE c + s # w
    <3>1. credited'[p] = Fee(p)'
      BY <1>1, <1>2, <1>3, <1>4, <1>5, <1>6, <1>11, <2>2, <2>4
    <3>2. ~FullyClaimed(p)' BY <1>1, <1>5, <2>4 DEF FullyClaimed
    <3>3. QED BY <1>1, <2>1, <3>1, <3>2 DEF CreditedInTime
  <2>5. QED BY <2>3, <2>4
<1>16. QED BY <1>12, <1>13, <1>14, <1>15 DEF Shares

LEMMA ClaimPays ==
  ASSUME MarketInv, MarketInv', PayoutInv, BalanceDivided,
         NEW u \in Accounts, NEW p \in Pools, ClaimWinnings(u, p)
  PROVE  PayoutInv' /\ BalanceDivided'
<1>1. PoolInv(p) BY DEF PayoutInv
<1>2. Claimable(u, p) /\ status[p] = "Settled" BY DEF ClaimWinnings, Claimable
<1>3. /\ payout'[p].feeCredited = TRUE
      /\ escrow'[p] = escrow[p] - Winnings(p, u) - TreasuryDelta(p, u)
      /\ \A q \in Pools : q # p =>
           /\ payout'[q] = payout[q] /\ credited'[q] = credited[q]
           /\ escrow'[q] = escrow[q] /\ stake'[q] = stake[q] /\ hasBet'[q] = hasBet[q]
      /\ UNCHANGED <<now, configVars, lifeVars, totals, bettors>>
  BY <1>1, ClaimEffect
<1>4. UNCHANGED <<pool, status, winner, lockedFee, fresh, protocolFee>>
  BY <1>3 DEF lifeVars, configVars
<1>5. Winnings(p, u) \in Nat /\ TreasuryDelta(p, u) \in Nat BY <1>1, <1>2, ClaimAmounts
<1>6. escrow[p] \in Int /\ PoolTotal(p) \in Nat BY PoolTypes
<1>7. PoolTotal(p)' = PoolTotal(p) BY <1>3 DEF PoolTotal
<1>8. escrow'[p] < PoolTotal(p)
  <2>1. CASE payout[p].feeCredited BY <1>1, <1>3, <1>5, <1>6, <2>1 DEF PoolInv
  <2>2. CASE ~payout[p].feeCredited
    <3>1. Winnings(p, u) + TreasuryDelta(p, u) > 0 BY <1>1, <1>2, <2>2, FirstClaimPays
    <3>2. QED BY <1>1, <1>3, <1>5, <1>6, <3>1 DEF PoolInv
  <2>3. QED BY <2>1, <2>2
<1>9. PoolInv(p)'
  <2>1. escrow'[p] \in Int BY <1>3, <1>5, <1>6
  <2>2. Regular(p)' => Regular(p) BY <1>4 DEF Regular, FeeFixed
  <2>3. Regular(p)' => Shares(p)' BY <1>1, <2>2, ClaimKeepsShares
  <2>4. /\ lockedFee'[p] \in 0 .. BpsDenom \cup {NoFee}
        /\ Exists(p)' /\ now' >= pool'[p].expiry
    BY <1>1, <1>2, <1>3, <1>4 DEF PoolInv, Exists
  <2>5. QED BY <1>3, <1>6, <1>7, <1>8, <2>1, <2>3, <2>4 DEF PoolInv
<1>10. \A q \in Pools : q # p => Untouched(q)
  BY <1>3, <1>4 DEF Untouched, Exists, MarketInv
<1>11. \A q \in Pools : Exists(q)' <=> Exists(q) BY <1>4 DEF Exists
<1>12. PayoutInv' BY <1>4, <1>9, <1>10, <1>11, OnePoolStep
<1>13. BalanceDivided'
  <2> DEFINE delta == -(Winnings(p, u) + TreasuryDelta(p, u))
  <2>1. MoneyTypeOK /\ MoneyTypeOK' BY DEF MarketInv, MoneyInv
  <2>2. balance' = balance - Winnings(p, u) /\ treasury' = treasury + TreasuryDelta(p, u)
    BY DEF ClaimWinnings
  <2>3. delta \in Int /\ escrow'[p] = escrow[p] + delta BY <1>3, <1>5, <1>6
  <2>4. balance' - treasury' = balance - treasury + delta
    BY <1>5, <2>1, <2>2 DEF MoneyTypeOK
  <2> HIDE DEF delta
  <2>5. QED BY <1>3, <2>1, <2>3, <2>4, EscrowMoves
<1>14. QED BY <1>12, <1>13

-----------------------------------------------------------------------------
(* The steps that move no money of a pool.                                 *)

(* A change of status that settles nothing.                                *)
LEMMA StatusPays ==
  ASSUME MarketInv, MarketInv', PayoutInv, BalanceDivided,
         NEW p \in Pools, NEW new \in Statuses \ {"None"}, Exists(p),
         new = "Settled" => status[p] = "Settled", ChangeStatus(p, new)
  PROVE  PayoutInv' /\ BalanceDivided'
<1>1. LifeTypeOK /\ MoneyTypeOK /\ MoneyTypeOK' /\ now \in Nat
  BY DEF MarketInv, LifeInv, MoneyInv
<1>2. /\ status' = [status EXCEPT ![p] = new]
      /\ UNCHANGED <<now, configVars, pool, winner, lockedFee, fresh, bookVars, moneyVars>>
  BY DEF ChangeStatus
<1>3. \A q \in Pools : status'[q] = IF q = p THEN new ELSE status[q]
  BY <1>1, <1>2 DEF LifeTypeOK
<1>4. \A q \in Pools : Untouched(q)
  BY <1>1, <1>2, <1>3 DEF Untouched, Exists, bookVars, moneyVars
<1>5. \A q \in Pools : Exists(q)' <=> Exists(q) BY <1>3 DEF Exists
<1>6. protocolFee' \in FeeChoices BY <1>2 DEF PayoutInv, configVars
<1>7. PayoutInv' BY <1>4, <1>5, <1>6, NoPoolStep
<1>8. escrow' = escrow /\ balance' - treasury' = balance - treasury
  BY <1>2 DEF moneyVars
<1>9. QED BY <1>1, <1>7, <1>8, EscrowKept

(* A step that changes neither a pool nor its money.                       *)
LEMMA SettingsPay ==
  ASSUME MarketInv, MarketInv', PayoutInv, BalanceDivided,
         protocolFee' \in FeeChoices, now' >= now,
         balance' - treasury' = balance - treasury,
         UNCHANGED <<lifeVars, bookVars, payout, credited, escrow>>
  PROVE  PayoutInv' /\ BalanceDivided'
<1>1. \A q \in Pools : Untouched(q)
  BY DEF Untouched, Exists, lifeVars, bookVars
<1>2. \A q \in Pools : Exists(q)' <=> Exists(q) BY DEF Exists, lifeVars
<1>3. PayoutInv' BY <1>1, <1>2, NoPoolStep
<1>4. MoneyTypeOK /\ MoneyTypeOK' BY DEF MarketInv, MoneyInv
<1>5. QED BY <1>3, <1>4, EscrowKept

LEMMA ConfigPays ==
  ASSUME MarketInv, MarketInv', PayoutInv, BalanceDivided,
         NEW caller \in Accounts, ConfigStep(caller)
  PROVE  PayoutInv' /\ BalanceDivided'
<1>1. protocolFee \in FeeChoices BY DEF PayoutInv
<1>2. now \in Nat /\ balance \in Nat /\ treasury \in Nat
  BY DEF MarketInv, MoneyInv, MoneyTypeOK
<1>3. ASSUME NEW flag \in PauseChoices, SetPaused(caller, flag)
      PROVE  PayoutInv' /\ BalanceDivided'
  BY <1>1, <1>2, <1>3, SettingsPay DEF SetPaused, moneyVars
<1>4. ASSUME NEW fee \in FeeChoices, SetProtocolFee(caller, fee)
      PROVE  PayoutInv' /\ BalanceDivided'
  BY <1>1, <1>2, <1>4, SettingsPay DEF SetProtocolFee, moneyVars
<1>5. ASSUME NEW ts \in TierChoices, SetVolumeFeeTiers(caller, ts)
      PROVE  PayoutInv' /\ BalanceDivided'
  BY <1>1, <1>2, <1>5, SettingsPay DEF SetVolumeFeeTiers, moneyVars
<1>6. ASSUME NEW n \in MinParticipantChoices, SetMinSettlementParticipants(caller, n)
      PROVE  PayoutInv' /\ BalanceDivided'
  BY <1>1, <1>2, <1>6, SettingsPay DEF SetMinSettlementParticipants, moneyVars
<1>7. ASSUME NEW amount \in 1 .. balance, WithdrawTreasury(caller, amount)
      PROVE  PayoutInv' /\ BalanceDivided'
  <2>1. /\ treasury' = treasury - amount /\ balance' = balance - amount
        /\ UNCHANGED <<now, configVars, lifeVars, bookVars, payout, credited, escrow>>
    BY <1>7 DEF WithdrawTreasury
  <2>2. balance' - treasury' = balance - treasury BY <1>2, <2>1
  <2>3. QED BY <1>1, <1>2, <2>1, <2>2, SettingsPay DEF configVars
<1>8. QED BY <1>3, <1>4, <1>5, <1>6, <1>7 DEF ConfigStep

(* The new pool takes the next id, which names no pool yet.                *)
LEMMA NextId ==
  ASSUME IdsInOrder, Cardinality(Created) + 1 \in Pools
  PROVE  /\ status[Cardinality(Created) + 1] = "None"
         /\ \E k \in 0 .. NumPools : /\ Created \cup {Cardinality(Created) + 1} = 1 .. k
<1>1. PICK k \in 0 .. NumPools : Created = 1 .. k BY DEF IdsInOrder
<1>2. NumPools \in Nat /\ k \in Nat BY Sizes
<1>3. Cardinality(Created) = k BY <1>1, <1>2, FS_Interval
<1>4. k + 1 \in Pools /\ k + 1 \notin Created BY <1>1, <1>2, <1>3
<1>5. status[k + 1] = "None" BY <1>4 DEF Created, Exists
<1>6. Created \cup {k + 1} = 1 .. k + 1 BY <1>1, <1>2
<1>7. k + 1 \in 0 .. NumPools BY <1>2, <1>4 DEF Pools
<1>8. QED BY <1>3, <1>5, <1>6, <1>7

LEMMA CreatePays ==
  ASSUME MarketInv, MarketInv', PayoutInv, BalanceDivided,
         NEW creator, NEW created, NEW duration, NEW customDeadline,
         NEW initial \in {"Open", "Scheduled"},
         CreatePoolInternal(creator, created, duration, customDeadline, initial)
  PROVE  PayoutInv' /\ BalanceDivided'
<1> DEFINE p == Cardinality(Created) + 1
<1>1. LifeTypeOK /\ MoneyTypeOK /\ MoneyTypeOK' /\ now \in Nat
  BY DEF MarketInv, LifeInv, MoneyInv
<1>2. /\ p \in Pools
      /\ \E record : pool' = [pool EXCEPT ![p] = record]
      /\ status' = [status EXCEPT ![p] = initial]
      /\ UNCHANGED <<now, configVars, winner, lockedFee, fresh, bookVars, moneyVars>>
  BY DEF CreatePoolInternal
<1>3. status[p] = "None" /\ \E k \in 0 .. NumPools : Created \cup {p} = 1 .. k
  BY <1>2, NextId DEF PayoutInv
<1> HIDE DEF p
<1>4. \A q \in Pools : /\ status'[q] = IF q = p THEN initial ELSE status[q]
                       /\ q # p => pool'[q] = pool[q]
  BY <1>1, <1>2 DEF LifeTypeOK
<1>5. \A q \in Pools : Untouched(q)
  BY <1>1, <1>2, <1>3, <1>4 DEF Untouched, Exists, bookVars, moneyVars
<1>6. protocolFee \in FeeChoices /\ protocolFee' = protocolFee
  BY <1>2 DEF PayoutInv, configVars
<1>7. \A q \in Pools : PoolInv(q)' BY <1>5, <1>6, UntouchedKept DEF PayoutInv
<1>8. Created' = Created \cup {p} BY <1>2, <1>4 DEF Created, Exists
<1>9. IdsInOrder' BY <1>3, <1>8 DEF IdsInOrder
<1>10. escrow' = escrow /\ balance' - treasury' = balance - treasury
  BY <1>2 DEF moneyVars
<1>11. QED BY <1>1, <1>6, <1>7, <1>9, <1>10, EscrowKept DEF PayoutInv

(* A new expiry, of a pool that has not expired, or a new settler.         *)
LEMMA RecordPays ==
  ASSUME MarketInv, MarketInv', PayoutInv, BalanceDivided, NEW p \in Pools,
         now < pool[p].expiry \/ pool'[p].expiry = pool[p].expiry,
         \A q \in Pools : q # p => pool'[q] = pool[q],
         UNCHANGED <<now, configVars, status, winner, lockedFee, fresh, bookVars, moneyVars>>
  PROVE  PayoutInv' /\ BalanceDivided'
<1>1. MoneyTypeOK /\ MoneyTypeOK' /\ now \in Nat BY DEF MarketInv, MoneyInv
<1>2. \A q \in Pools : Untouched(q)
  BY <1>1 DEF Untouched, Exists, bookVars, moneyVars
<1>3. \A q \in Pools : Exists(q)' <=> Exists(q) BY DEF Exists
<1>4. protocolFee' \in FeeChoices BY DEF PayoutInv, configVars
<1>5. PayoutInv' BY <1>2, <1>3, <1>4, NoPoolStep
<1>6. escrow' = escrow /\ balance' - treasury' = balance - treasury BY DEF moneyVars
<1>7. QED BY <1>1, <1>5, <1>6, EscrowKept

LEMMA OperatorPays ==
  ASSUME MarketInv, MarketInv', PayoutInv, BalanceDivided,
         NEW caller \in Accounts, NEW p \in Pools, OperatorStep(caller, p)
  PROVE  PayoutInv' /\ BalanceDivided'
<1>1. LifeTypeOK BY DEF MarketInv, LifeInv
<1>2. /\ "Voided" \in Statuses \ {"None"} /\ "Cancelled" \in Statuses \ {"None"}
      /\ "Frozen" \in Statuses \ {"None"} /\ "Disputed" \in Statuses \ {"None"}
      /\ "Open" \in Statuses \ {"None"}
  BY DEF Statuses
<1>3. CASE VoidPool(caller, p)
  BY <1>2, <1>3, StatusPays DEF VoidPool, Exists
<1>4. CASE CancelScheduledPool(caller, p)
  BY <1>2, <1>4, StatusPays DEF CancelScheduledPool, Exists
<1>5. CASE FreezePool(caller, p)
  BY <1>2, <1>5, StatusPays DEF FreezePool, Exists
<1>6. CASE DisputePool(caller, p)
  BY <1>2, <1>6, StatusPays DEF DisputePool, Exists
<1>7. CASE UnfreezePool(caller, p)
  BY <1>2, <1>7, StatusPays DEF UnfreezePool, Exists
<1>8. CASE OverridePoolCooling(caller, p)
  <2>1. Exists(p) /\ status[p] \in Statuses BY <1>1, <1>8 DEF OverridePoolCooling, LifeTypeOK
  <2>2. PICK new \in Statuses \ {"None"} :
          (new = "Settled" => status[p] = "Settled") /\ ChangeStatus(p, new)
    BY <1>2, <1>8, <2>1 DEF OverridePoolCooling, Exists
  <2>3. QED BY <2>1, <2>2, StatusPays
<1>9. CASE CancelPool(caller, p)
  <2>1. Exists(p) BY <1>9 DEF CancelPool, Cancellable, Exists
  <2>2. QED BY <1>9, <2>1, RefundAllPays DEF CancelPool
<1>10. ASSUME NEW o \in Outcomes, SettlePool(caller, p, o)
       PROVE  PayoutInv' /\ BalanceDivided'
  BY <1>10, SettlePays
<1>11. ASSUME NEW settler \in Settlers, AssignSettler(caller, p, settler)
       PROVE  PayoutInv' /\ BalanceDivided'
  <2>1. /\ pool' = [pool EXCEPT ![p].settler = settler]
        /\ UNCHANGED <<now, configVars, status, winner, lockedFee, fresh, bookVars, moneyVars>>
    BY <1>11 DEF AssignSettler
  <2>2. /\ \A q \in Pools : q # p => pool'[q] = pool[q]
        /\ pool'[p].expiry = pool[p].expiry
    BY <1>1, <2>1 DEF LifeTypeOK, PoolRecords
  <2>3. QED BY <2>1, <2>2, RecordPays
<1>12. ASSUME NEW seconds \in Extensions, ExtendPoolDuration(caller, p, seconds)
       PROVE  PayoutInv' /\ BalanceDivided'
  <2>1. /\ now < pool[p].expiry
        /\ pool' = [pool EXCEPT ![p].expiry = @ + seconds]
        /\ UNCHANGED <<now, configVars, status, winner, lockedFee, fresh, bookVars, moneyVars>>
    BY <1>12 DEF ExtendPoolDuration
  <2>2. \A q \in Pools : q # p => pool'[q] = pool[q] BY <1>1, <2>1 DEF LifeTypeOK
  <2>3. QED BY <2>1, <2>2, RecordPays
<1>13. QED
  BY <1>3, <1>4, <1>5, <1>6, <1>7, <1>8, <1>9, <1>10, <1>11, <1>12 DEF OperatorStep

LEMMA OtherPays ==
  ASSUME MarketInv, MarketInv', PayoutInv, BalanceDivided, OtherStep \/ UNCHANGED vars
  PROVE  PayoutInv' /\ BalanceDivided'
<1>1. now \in Nat /\ protocolFee \in FeeChoices BY DEF MarketInv, PayoutInv
<1>2. CASE Tick
  <2>1. /\ now' = now + 1
        /\ UNCHANGED <<configVars, lifeVars, bookVars, moneyVars>>
    BY <1>2 DEF Tick
  <2>2. QED BY <1>1, <2>1, SettingsPay DEF configVars, moneyVars
<1>3. CASE UNCHANGED vars
  <2>1. UNCHANGED <<now, configVars, lifeVars, bookVars, moneyVars>> BY <1>3 DEF vars
  <2>2. QED BY <1>1, <2>1, SettingsPay DEF configVars, moneyVars
<1>4. ASSUME NEW c \in Creators, CreatorStep(c) PROVE PayoutInv' /\ BalanceDivided'
  BY <1>4, CreatePays DEF CreatorStep, CreatePool, SchedulePool
<1>5. ASSUME NEW u \in Accounts, NEW p \in Pools, BettorStep(u, p)
      PROVE  PayoutInv' /\ BalanceDivided'
  <2>1. ASSUME NEW o \in Outcomes, NEW amount \in CancelAmounts, CancelBet(u, p, o, amount)
        PROVE  PayoutInv' /\ BalanceDivided'
    BY <2>1, CancelBetPays
  <2>2. CASE ClaimRefund(u, p) BY <2>2, RefundOnePays DEF ClaimRefund
  <2>3. CASE ClaimExpired(u, p) BY <2>3, RefundOnePays DEF ClaimExpired
  <2>4. CASE ClaimWinnings(u, p) BY <2>4, ClaimPays
  <2>5. QED BY <1>5, <2>1, <2>2, <2>3, <2>4 DEF BettorStep
<1>6. ASSUME NEW p \in Pools, KeeperStep(p) PROVE PayoutInv' /\ BalanceDivided'
  <2>1. CASE ActivateScheduledPool(p)
    <3>1. "Open" \in Statuses \ {"None"} BY DEF Statuses
    <3>2. QED BY <2>1, <3>1, StatusPays DEF ActivateScheduledPool, Exists
  <2>2. CASE RefundExpiredPool(p)
    BY <2>2, RefundAllPays DEF RefundExpiredPool, Exists
  <2>3. QED BY <1>6, <2>1, <2>2 DEF KeeperStep
<1>7. QED
  BY <1>2, <1>3, <1>4, <1>5, <1>6, ConfigPays, OperatorPays DEF OtherStep

LEMMA NextPays == MoneyState /\ [Next]_vars => MoneyState'
<1> SUFFICES ASSUME MoneyState, [Next]_vars PROVE MoneyState' OBVIOUS
<1>1. MarketInv /\ PayoutInv /\ BalanceDivided BY DEF MoneyState
<1>2. MarketInv' BY <1>1, NextKeeps
<1>3. CASE Bet
  <2>1. PICK u \in Accounts, p \in Pools, o \in Outcomes, amount \in BetAmounts :
          PlaceBet(u, p, o, amount)
    BY <1>3 DEF Bet
  <2>2. QED BY <1>1, <1>2, <2>1, PlaceBetPays DEF MoneyState
<1>4. CASE OtherStep \/ UNCHANGED vars BY <1>1, <1>2, <1>4, OtherPays DEF MoneyState
<1>5. QED BY <1>3, <1>4 DEF Next

LEMMA InitPays == Init => PayoutInv /\ BalanceDivided
<1> SUFFICES ASSUME Init PROVE PayoutInv /\ BalanceDivided OBVIOUS
<1>1. NumPools \in Nat /\ NumOutcomes \in Nat BY Sizes
<1>2. IdsInOrder
  <2>1. Created = 1 .. 0 BY DEF Created, Exists, Init
  <2>2. QED BY <1>1, <2>1 DEF IdsInOrder
<1>3. ASSUME NEW p \in Pools PROVE PoolInv(p)
  <2>1. /\ status[p] = "None" /\ lockedFee[p] = NoFee /\ payout[p] = NoPayout
        /\ credited[p] = 0 /\ escrow[p] = 0
    BY DEF Init
  <2>2. PoolTotal(p) = 0
    <3>1. \A i \in 0 .. NumOutcomes - 1 : totals[p][i] = 0 BY DEF Init, Outcomes
    <3>2. QED BY <1>1, <3>1, SumZero DEF PoolTotal
  <2>3. QED BY <2>1, <2>2 DEF PoolInv, Regular, NoPayout
<1>4. BalanceDivided
  <2> DEFINE f == [i \in 0 .. NumPools - 1 |-> escrow[i + 1]]
  <2>1. \A i \in 0 .. NumPools - 1 : f[i] = 0 BY <1>1 DEF Init, Pools
  <2> HIDE DEF f
  <2>2. SumBelow(f, NumPools) = 0 BY <1>1, <2>1, SumZero
  <2>3. balance = 0 /\ treasury = 0 BY DEF Init
  <2>4. QED BY <2>2, <2>3 DEF BalanceDivided, EscrowTotal, f
<1>5. protocolFee \in FeeChoices BY DEF Init
<1>6. QED BY <1>2, <1>3, <1>4, <1>5 DEF PayoutInv

-----------------------------------------------------------------------------
(* Theorems.                                                               *)

(* What the contract holds, pool by pool, for every deployment.            *)
THEOREM MoneyInvariant == Spec => []MoneyState
<1>1. Init => MoneyState BY InitHolds, InitPays DEF MoneyState
<1>2. MoneyState /\ [Next]_vars => MoneyState' BY NextPays
<1>3. QED BY <1>1, <1>2, PTL DEF Spec

(***************************************************************************)
(* What a regular pool still owes its winners is a number, and together    *)
(* with the fee not yet credited no more than the pool holds.              *)
(***************************************************************************)
LEMMA RegularFunded ==
  ASSUME MarketInv, NEW p \in Pools, PoolInv(p), Regular(p)
  PROVE  /\ Owed(p) \in Nat
         /\ Owed(p) + (IF payout[p].feeCredited THEN 0 ELSE Fee(p)) <= escrow[p]
<1> DEFINE n == NetPool(p)
           w == WinningTotal(p)
           c == payout[p].claimed
           paid == payout[p].paidOut
           live == StakedOn(p, winner[p])
           f == [u \in Accounts |-> IF w > 0 THEN Winnings(p, u) ELSE 0]
           g == [u \in Accounts |-> stake[p][u][winner[p]]]
<1>1. winner[p] \in Outcomes BY DEF MarketInv, LifeInv, WinnerDeclared, Regular
<1>2. /\ n \in Nat /\ n = PoolTotal(p) - Fee(p) /\ Fee(p) \in Nat /\ PoolTotal(p) \in Nat
      /\ c \in Nat /\ paid \in Int /\ escrow[p] \in Int /\ credited[p] \in Nat
      /\ payout[p].feeCredited \in BOOLEAN
      /\ live \in Nat /\ live <= w /\ w \in Nat
  BY <1>1, FeeTypes, PoolTypes, StakedTypes DEF WinningTotal
<1>3. /\ escrow[p] + credited[p] + paid = PoolTotal(p)
      /\ c + live <= w
      /\ w * paid <= n * c
      /\ payout[p].feeCredited <=> c > 0
      /\ IF w > 0 /\ c = w THEN escrow[p] = 0
         ELSE credited[p] = IF payout[p].feeCredited THEN Fee(p) ELSE 0
      /\ ~payout[p].feeCredited => paid = 0
  BY DEF PoolInv, Shares, Conserved, ClaimsWithinSide, FloorsOnly, CreditedInTime, FullyClaimed,
         NoPayout
<1>4. Owed(p) = SumBelow(f, NumAccounts) BY DEF Owed
<1>5. live = SumBelow(g, NumAccounts) BY DEF StakedOn
<1>6. NumAccounts \in Nat BY Sizes
<1>7. \A u \in Accounts : g[u] \in Nat /\ f[u] = IF w > 0 THEN (g[u] * n) \div w ELSE 0
  <2>1. \A u \in Accounts : stake[p][u][winner[p]] \in Nat BY <1>1, StakedTypes
  <2>2. QED BY <2>1 DEF Winnings, WinningStake
<1> HIDE DEF n, w, c, paid, live, f, g
<1>8. CASE w = 0
  <2>1. \A i \in 0 .. NumAccounts - 1 : f[i] = 0 BY <1>7, <1>8 DEF Accounts
  <2>2. Owed(p) = 0 BY <1>4, <1>6, <2>1, SumZero
  <2>3. c = 0 BY <1>2, <1>3, <1>8
  <2>4. ~payout[p].feeCredited /\ paid = 0 /\ credited[p] = 0 BY <1>2, <1>3, <1>8, <2>3
  <2>5. escrow[p] = PoolTotal(p) BY <1>2, <1>3, <2>4
  <2>6. Owed(p) + Fee(p) <= escrow[p] BY <1>2, <2>2, <2>5
  <2>7. QED BY <2>2, <2>4, <2>6
<1>9. CASE w # 0
  <2>1. w \in Nat \ {0} BY <1>2, <1>9
  <2>2. \A i \in 0 .. NumAccounts - 1 : g[i] \in Nat /\ f[i] = (g[i] * n) \div w
    BY <1>7, <2>1 DEF Accounts
  <2>3. Owed(p) \in Nat /\ w * Owed(p) <= n * live
    <3>1. /\ SumBelow(f, NumAccounts) \in Nat
          /\ w * SumBelow(f, NumAccounts) <= n * SumBelow(g, NumAccounts)
      BY <1>2, <1>6, <2>1, <2>2, SharesWithin
    <3>2. QED BY <1>4, <1>5, <3>1
  <2>4. Owed(p) + paid <= n
    <3>1. w * (Owed(p) + paid) = w * Owed(p) + w * paid /\ n * (live + c) = n * live + n * c
      BY <1>2, <2>3, Products
    <3>2. n * (live + c) <= n * w
      <4>1. live + c <= w /\ live + c \in Int /\ w \in Int BY <1>2, <1>3
      <4>2. QED BY <1>2, <4>1, ProductOrder
    <3>3. n * w = w * n BY <1>2, Products
    <3>4. /\ w * Owed(p) \in Int /\ w * paid \in Int /\ n * live \in Int /\ n * c \in Int
          /\ w * n \in Int
      BY <1>2, <2>3, Products
    <3>5. w * (Owed(p) + paid) <= w * n BY <1>3, <2>3, <3>1, <3>2, <3>3, <3>4
    <3>6. QED BY <1>2, <2>1, <2>3, <3>5, Cancelled
  <2>5. CASE c = w
    <3>1. live = 0 /\ escrow[p] = 0 /\ payout[p].feeCredited BY <1>2, <1>3, <2>1, <2>5
    <3>2. n * live = 0 BY <1>2, <3>1
    <3>3. Owed(p) = 0
      <4>1. w * Owed(p) <= w * 0 BY <1>2, <2>3, <3>2
      <4>2. Owed(p) <= 0 BY <2>1, <2>3, <4>1, Cancelled
      <4>3. QED BY <2>3, <4>2
    <3>4. QED BY <3>1, <3>3
  <2>6. CASE c # w
    <3>1. credited[p] = IF payout[p].feeCredited THEN Fee(p) ELSE 0 BY <1>3, <2>6
    <3>2. QED BY <1>2, <1>3, <2>3, <2>4, <3>1
  <2>7. QED BY <2>5, <2>6
<1>10. QED BY <1>8, <1>9

LEMMA StateFunded == MoneyState => SettledPoolFunded
BY RegularFunded DEF MoneyState, PayoutInv, SettledPoolFunded

(***************************************************************************)
(* Every claim of a regular pool is covered by the pool's own money, in    *)
(* whatever order the winners come.                                        *)
(***************************************************************************)
THEOREM SettledPoolsFunded == Spec => []SettledPoolFunded
BY StateFunded, MoneyInvariant, PTL

(* Both halves of what a pool's money is made of.                          *)
THEOREM PoolsStayFunded == Spec => []PoolsFunded
<1>1. UnclaimedPoolFunded /\ SettledPoolFunded => PoolsFunded BY DEF PoolsFunded
<1>2. QED BY <1>1, UnclaimedPoolsFunded, SettledPoolsFunded, PTL

(* What the money of the pools says of a pool everybody has claimed.       *)
LEMMA StateReconciles == MoneyState => PayoutsReconcile
<1>1. ASSUME MoneyState, NEW p \in Pools, Regular(p), FullyClaimed(p)
      PROVE  /\ credited[p] + payout[p].paidOut = PoolTotal(p)
             /\ escrow[p] = 0
             /\ credited[p] - Fee(p) \in 0 .. Cardinality(bettors[p]) - 1
  <2> DEFINE n == NetPool(p)
             w == WinningTotal(p)
             paid == payout[p].paidOut
             k == Claims(p)
             m == Cardinality(bettors[p])
  <2>1. MarketInv /\ PoolInv(p) BY <1>1 DEF MoneyState, PayoutInv
  <2>2. winner[p] \in Outcomes BY <1>1, <2>1 DEF MarketInv, LifeInv, WinnerDeclared, Regular
  <2>3. /\ n \in Nat /\ n = PoolTotal(p) - Fee(p) /\ Fee(p) \in Nat /\ PoolTotal(p) \in Nat
        /\ paid \in Int /\ escrow[p] \in Int /\ credited[p] \in Nat /\ k \in Nat
    BY <2>1, FeeTypes, PoolTypes, ClaimsType
  <2>4. w \in Nat \ {0}
    <3>1. w \in Nat BY <2>1, <2>2, PoolTypes DEF WinningTotal
    <3>2. QED BY <1>1, <3>1 DEF FullyClaimed
  <2>5. /\ escrow[p] + credited[p] + paid = PoolTotal(p) /\ escrow[p] = 0
        /\ w * paid <= n * w /\ n * w <= w * paid + k * (w - 1)
        /\ payout[p].feeCredited <=> w > 0
        /\ payout[p].feeCredited => k > 0
    BY <1>1, <2>1 DEF PoolInv, Shares, Conserved, FloorsOnly, CreditedInTime, FullyClaimed
  <2>6. k <= m /\ m \in Nat
    <3>1. bettors[p] \subseteq Accounts BY <2>1 DEF MarketInv, BookInv, BookTypeOK
    <3>2. IsFiniteSet(Accounts) BY Sizes, FS_Interval DEF Accounts
    <3>3. IsFiniteSet(bettors[p]) BY <3>1, <3>2, FS_Subset
    <3>4. bettors[p] \ hasBet[p] \subseteq bettors[p] OBVIOUS
    <3>5. QED BY <3>3, <3>4, FS_Subset, FS_CardinalityType DEF Claims
  <2>7. credited[p] + paid = PoolTotal(p) /\ credited[p] - Fee(p) = n - paid
    BY <2>3, <2>5
  <2> HIDE DEF n, w, paid, k, m
  <2>8. k > 0 BY <2>4, <2>5
  <2>9. paid <= n /\ n - paid <= k - 1 BY <2>3, <2>4, <2>5, <2>8, AllClaimed
  <2>10. n - paid \in 0 .. m - 1 BY <2>3, <2>6, <2>9
  <2>11. QED BY <2>5, <2>7, <2>10 DEF paid, m
<1>2. QED BY <1>1 DEF PayoutsReconcile

(***************************************************************************)
(* A regular pool whose winners have all claimed has split its total into  *)
(* payouts and treasury credit; the rounding is less than a unit each.     *)
(***************************************************************************)
THEOREM PayoutsReconciled == Spec => []PayoutsReconcile
BY StateReconciles, MoneyInvariant, PTL

(* The contract's balance is the treasury and the pools' money.            *)
THEOREM BalanceIsDivided == Spec => []BalanceDivided
<1>1. MoneyState => BalanceDivided BY DEF MoneyState
<1>2. QED BY <1>1, MoneyInvariant, PTL

(* What the money of the pools says of the contract's one balance.         *)
LEMMA StateSolvent == MoneyState => Solvent
<1>1. ASSUME MoneyState,
             \A p \in Pools : Regular(p) \/ (status[p] # "Settled" /\ ~payout[p].feeCredited)
      PROVE  balance >= treasury + SumBelow([i \in 0 .. NumPools - 1 |-> Liability(i + 1)], NumPools)
  <2> DEFINE f == [i \in 0 .. NumPools - 1 |-> Liability(i + 1)]
             g == [i \in 0 .. NumPools - 1 |-> escrow[i + 1]]
  <2>1. MarketInv /\ PayoutInv /\ BalanceDivided BY <1>1 DEF MoneyState
  <2>2. /\ BookTypeOK /\ UnclaimedPoolFunded /\ NumPools \in Nat
        /\ balance \in Nat /\ treasury \in Nat
    BY <2>1, Sizes DEF MarketInv, BookInv, MoneyInv, MoneyTypeOK
  <2>3. ASSUME NEW p \in Pools PROVE Liability(p) \in Int /\ escrow[p] \in Int /\ Liability(p) <= escrow[p]
    <3>1. escrow[p] \in Int /\ PoolInv(p) /\ payout[p].feeCredited \in BOOLEAN
      BY <2>1, PoolTypes DEF PayoutInv
    <3>2. CASE Regular(p)
      <4>1. /\ Owed(p) \in Nat
            /\ Owed(p) + (IF payout[p].feeCredited THEN 0 ELSE Fee(p)) <= escrow[p]
        BY <2>1, <3>1, <3>2, RegularFunded
      <4>2. Fee(p) \in Nat BY <2>1, <3>1, FeeTypes
      <4>3. QED BY <3>1, <3>2, <4>1, <4>2 DEF Liability
    <3>3. CASE ~Regular(p)
      <4>1. escrow[p] = Refundable(p) BY <1>1, <2>2, <3>3 DEF UnclaimedPoolFunded
      <4>2. QED BY <3>1, <3>3, <4>1 DEF Liability
    <3>4. QED BY <3>2, <3>3
  <2>4. \A i \in 0 .. NumPools - 1 : f[i] \in Int /\ g[i] \in Int /\ f[i] <= g[i]
    BY <2>2, <2>3 DEF Pools
  <2>5. balance = treasury + SumBelow(g, NumPools) BY <2>1 DEF BalanceDivided, EscrowTotal
  <2> HIDE DEF f, g
  <2>6. SumBelow(f, NumPools) <= SumBelow(g, NumPools) BY <2>2, <2>4, SumOrder
  <2>7. SumBelow(f, NumPools) \in Int /\ SumBelow(g, NumPools) \in Int BY <2>2, <2>4, SumInt
  <2>8. balance >= treasury + SumBelow(f, NumPools) BY <2>2, <2>5, <2>6, <2>7
  <2>9. QED BY <2>8 DEF f
<1>2. QED BY <1>1 DEF Solvent

(***************************************************************************)
(* The treasury and the debts of all pools are covered at the same time.   *)
(***************************************************************************)
THEOREM AlwaysSolvent == Spec => []Solvent
BY StateSolvent, MoneyInvariant, PTL

-----------------------------------------------------------------------------
(* What no step does.                                                      *)

Terminal == {"Settled", "Voided", "Cancelled"}
Final(q) == status[q] \in Terminal => status'[q] = status[q] /\ winner'[q] = winner[q]

(* A step that changes the status of one pool, which is not terminal.      *)
LEMMA FinalBut ==
  ASSUME LifeTypeOK, NEW p \in Pools, NEW new, status[p] \notin Terminal \/ new = status[p],
         status' = [status EXCEPT ![p] = new], winner' = winner
  PROVE  \A q \in Pools : Final(q)
BY DEF LifeTypeOK, Final

LEMMA OperatorFinal ==
  ASSUME MarketInv, FreezeAdmin = NoAccount,
         NEW caller \in Accounts, NEW p \in Pools, OperatorStep(caller, p)
  PROVE  \A q \in Pools : Final(q)
<1>1. LifeTypeOK BY DEF MarketInv, LifeInv
<1>2. caller # FreezeAdmin BY Sizes DEF Accounts, NoAccount
<1>3. CASE VoidPool(caller, p)
  BY <1>1, <1>3, FinalBut DEF VoidPool, ChangeStatus, Terminal
<1>4. CASE CancelScheduledPool(caller, p)
  BY <1>1, <1>4, FinalBut DEF CancelScheduledPool, ChangeStatus, Terminal
<1>5. CASE FreezePool(caller, p) \/ DisputePool(caller, p) \/ UnfreezePool(caller, p)
  BY <1>2, <1>5 DEF FreezePool, DisputePool, UnfreezePool
<1>6. CASE OverridePoolCooling(caller, p)
  <2>1. PICK new : /\ status[p] = "Frozen" \/ new = status[p]
                   /\ status' = [status EXCEPT ![p] = new] /\ winner' = winner
    BY <1>6 DEF OverridePoolCooling, ChangeStatus
  <2>2. status[p] \notin Terminal \/ new = status[p] BY <2>1 DEF Terminal
  <2>3. QED BY <1>1, <2>1, <2>2, FinalBut
<1>7. CASE CancelPool(caller, p)
  <2>1. status[p] \notin Terminal BY <1>7 DEF CancelPool, Cancellable, Terminal
  <2>2. status' = [status EXCEPT ![p] = "Cancelled"] /\ winner' = winner
    BY <1>7 DEF CancelPool
  <2>3. QED BY <1>1, <2>1, <2>2, FinalBut
<1>8. ASSUME NEW o \in Outcomes, SettlePool(caller, p, o) PROVE \A q \in Pools : Final(q)
  <2>1. /\ status[p] = "Open" /\ status' = [status EXCEPT ![p] = "Settled"]
        /\ winner' = [winner EXCEPT ![p] = o]
    BY <1>8 DEF SettlePool, Settleable
  <2>2. QED BY <1>1, <2>1 DEF LifeTypeOK, Final, Terminal
<1>9. ASSUME NEW settler \in Settlers, AssignSettler(caller, p, settler)
      PROVE  \A q \in Pools : Final(q)
  BY <1>9 DEF AssignSettler, Final
<1>10. ASSUME NEW seconds \in Extensions, ExtendPoolDuration(caller, p, seconds)
       PROVE  \A q \in Pools : Final(q)
  BY <1>10 DEF ExtendPoolDuration, Final
<1>11. QED BY <1>3, <1>4, <1>5, <1>6, <1>7, <1>8, <1>9, <1>10 DEF OperatorStep

LEMMA OtherFinal ==
  ASSUME MoneyState, FreezeAdmin = NoAccount, OtherStep
  PROVE  \A q \in Pools : Final(q)
<1>1. MarketInv /\ PayoutInv /\ LifeTypeOK BY DEF MoneyState, MarketInv, LifeInv
<1>2. CASE Tick BY <1>2 DEF Tick, lifeVars, Final
<1>3. ASSUME NEW creator, NEW created, NEW duration, NEW deadline, NEW initial,
             CreatePoolInternal(creator, created, duration, deadline, initial)
      PROVE  \A q \in Pools : Final(q)
  <2> DEFINE p == Cardinality(Created) + 1
  <2>1. /\ p \in Pools /\ status' = [status EXCEPT ![p] = initial] /\ winner' = winner
    BY <1>3 DEF CreatePoolInternal
  <2>2. status[p] = "None" BY <1>1, <2>1, NextId DEF PayoutInv, MoneyState
  <2> HIDE DEF p
  <2>3. status[p] \notin Terminal BY <2>2 DEF Terminal
  <2>4. QED BY <1>1, <2>1, <2>3, FinalBut
<1>4. ASSUME NEW c \in Creators, CreatorStep(c) PROVE \A q \in Pools : Final(q)
  BY <1>3, <1>4 DEF CreatorStep, CreatePool, SchedulePool
<1>5. ASSUME NEW c \in Accounts, ConfigStep(c) PROVE \A q \in Pools : Final(q)
  BY <1>5 DEF ConfigStep, SetPaused, SetProtocolFee, SetVolumeFeeTiers,
              SetMinSettlementParticipants, WithdrawTreasury, lifeVars, Final
<1>6. ASSUME NEW u \in Accounts, NEW p \in Pools, BettorStep(u, p)
      PROVE  \A q \in Pools : Final(q)
  BY <1>6 DEF BettorStep, CancelBet, ClaimRefund, ClaimExpired, RefundOne, ClaimWinnings,
              lifeVars, Final
<1>7. ASSUME NEW p \in Pools, KeeperStep(p) PROVE \A q \in Pools : Final(q)
  <2>1. PICK new : /\ status[p] \in {"Scheduled", "Open"}
                   /\ status' = [status EXCEPT ![p] = new] /\ winner' = winner
    BY <1>7 DEF KeeperStep, ActivateScheduledPool, ChangeStatus, RefundExpiredPool
  <2>2. status[p] \notin Terminal BY <2>1 DEF Terminal
  <2>3. QED BY <1>1, <2>1, <2>2, FinalBut
<1>8. QED BY <1>1, <1>2, <1>4, <1>5, <1>6, <1>7, OperatorFinal DEF OtherStep

(***************************************************************************)
(* Without a freeze administrator settled, voided and cancelled pools stay *)
(* what they are, with the winner declared once.                           *)
(***************************************************************************)
THEOREM TerminalFinal == Spec => TerminalStatesFinal
<1>1. ASSUME MoneyState, [Next]_vars, FreezeAdmin = NoAccount, NEW q \in Pools
      PROVE  Final(q)
  <2>1. LifeTypeOK BY <1>1 DEF MoneyState, MarketInv, LifeInv
  <2>2. CASE Bet
    <3>1. PICK u \in Accounts, p \in Pools, o \in Outcomes, amount \in BetAmounts :
            PlaceBet(u, p, o, amount)
      BY <2>2 DEF Bet
    <3>2. PICK new : /\ status[p] \in {"Open", "Frozen"}
                     /\ status' = [status EXCEPT ![p] = new] /\ winner' = winner
      BY <3>1 DEF PlaceBet, AcceptsBets, Thawed
    <3>3. status[p] \notin Terminal BY <3>2 DEF Terminal
    <3>4. QED BY <2>1, <3>2, <3>3, FinalBut
  <2>3. CASE OtherStep BY <1>1, <2>3, OtherFinal
  <2>4. CASE UNCHANGED vars BY <2>4 DEF vars, lifeVars, Final
  <2>5. QED BY <1>1, <2>2, <2>3, <2>4 DEF Next
<1>2. MoneyState /\ [Next]_vars =>
        [FreezeAdmin = NoAccount =>
           \A p \in Pools : status[p] \in {"Settled", "Voided", "Cancelled"}
                              => status'[p] = status[p] /\ winner'[p] = winner[p]]_vars
  BY <1>1 DEF Final, Terminal
<1>3. QED BY <1>2, MoneyInvariant, PTL DEF Spec, TerminalStatesFinal

-----------------------------------------------------------------------------
(* The fee of a settlement.                                                *)

(* Only a settlement makes a pool settled, and no other step changes what  *)
(* the fee of a settled pool is computed from, save the protocol's fee.    *)
Undisturbed(q) ==
  status'[q] = "Settled" =>
    /\ status[q] = "Settled" /\ totals'[q] = totals[q]
    /\ lockedFee'[q] = lockedFee[q] /\ settleFee'[q] = settleFee[q]

(* A step that gives one pool a status other than Settled.                 *)
LEMMA UndisturbedBy ==
  ASSUME LifeTypeOK, NEW p \in Pools, NEW new, new # "Settled",
         status' = [status EXCEPT ![p] = new], UNCHANGED <<lockedFee, settleFee>>,
         \A q \in Pools : q # p => totals'[q] = totals[q]
  PROVE  \A q \in Pools : Undisturbed(q)
BY DEF LifeTypeOK, Undisturbed

LEMMA OperatorUndisturbed ==
  ASSUME LifeTypeOK, NEW caller \in Accounts, NEW p \in Pools, OperatorStep(caller, p),
         \A o \in Outcomes : ~SettlePool(caller, p, o)
  PROVE  \A q \in Pools : Undisturbed(q)
<1>1. CASE \/ VoidPool(caller, p) \/ CancelScheduledPool(caller, p)
           \/ FreezePool(caller, p) \/ DisputePool(caller, p) \/ UnfreezePool(caller, p)
  <2>1. PICK new : /\ new \in {"Voided", "Cancelled", "Frozen", "Disputed", "Open"}
                   /\ ChangeStatus(p, new)
    BY <1>1 DEF VoidPool, CancelScheduledPool, FreezePool, DisputePool, UnfreezePool
  <2>2. QED BY <2>1, UndisturbedBy DEF ChangeStatus, bookVars
<1>2. CASE OverridePoolCooling(caller, p)
  <2>1. status' = [status EXCEPT ![p] = IF status[p] = "Frozen" THEN "Open" ELSE status[p]]
    BY <1>2 DEF OverridePoolCooling, ChangeStatus
  <2>2. \A q \in Pools : status'[q] = "Settled" => status[q] = "Settled"
    BY <2>1 DEF LifeTypeOK
  <2>3. UNCHANGED <<totals, lockedFee, settleFee>>
    BY <1>2 DEF OverridePoolCooling, ChangeStatus, bookVars
  <2>4. QED BY <2>2, <2>3 DEF Undisturbed
<1>3. CASE CancelPool(caller, p)
  BY <1>3, UndisturbedBy DEF CancelPool, RefundAll, RemoveBets
<1>4. ASSUME NEW settler \in Settlers, AssignSettler(caller, p, settler)
      PROVE  \A q \in Pools : Undisturbed(q)
  BY <1>4 DEF AssignSettler, bookVars, Undisturbed
<1>5. ASSUME NEW seconds \in Extensions, ExtendPoolDuration(caller, p, seconds)
      PROVE  \A q \in Pools : Undisturbed(q)
  BY <1>5 DEF ExtendPoolDuration, bookVars, Undisturbed
<1>6. QED BY <1>1, <1>2, <1>3, <1>4, <1>5 DEF OperatorStep

LEMMA OtherUndisturbed ==
  ASSUME LifeTypeOK, OtherStep,
         \A c \in Accounts, p \in Pools, o \in Outcomes : ~SettlePool(c, p, o)
  PROVE  \A q \in Pools : Undisturbed(q)
<1>1. CASE Tick BY <1>1 DEF Tick, lifeVars, bookVars, Undisturbed
<1>2. ASSUME NEW c \in Creators, CreatorStep(c) PROVE \A q \in Pools : Undisturbed(q)
  <2>1. PICK created, duration, deadline, initial :
          /\ initial \in {"Open", "Scheduled"}
          /\ CreatePoolInternal(c, created, duration, deadline, initial)
    BY <1>2 DEF CreatorStep, CreatePool, SchedulePool
  <2> DEFINE p == Cardinality(Created) + 1
  <2>2. /\ p \in Pools /\ status' = [status EXCEPT ![p] = initial]
        /\ UNCHANGED <<lockedFee, settleFee, totals>>
    BY <2>1 DEF CreatePoolInternal, bookVars
  <2> HIDE DEF p
  <2>3. QED BY <2>1, <2>2, UndisturbedBy
<1>3. ASSUME NEW c \in Accounts, ConfigStep(c) PROVE \A q \in Pools : Undisturbed(q)
  BY <1>3 DEF ConfigStep, SetPaused, SetProtocolFee, SetVolumeFeeTiers,
              SetMinSettlementParticipants, WithdrawTreasury, lifeVars, bookVars, Undisturbed
<1>4. ASSUME NEW u \in Accounts, NEW p \in Pools, BettorStep(u, p)
      PROVE  \A q \in Pools : Undisturbed(q)
  <2>1. ASSUME NEW o \in Outcomes, NEW amount \in CancelAmounts, CancelBet(u, p, o, amount)
        PROVE  \A q \in Pools : Undisturbed(q)
    <3>1. /\ status[p] = "Open" /\ UNCHANGED lifeVars
          /\ totals' = [totals EXCEPT ![p][o] = @ + (-amount)]
      BY <2>1 DEF CancelBet, MoveStake
    <3>2. \A q \in Pools : q # p => totals'[q] = totals[q] BY <3>1
    <3>3. QED BY <3>1, <3>2 DEF lifeVars, Undisturbed
  <2>2. CASE ClaimRefund(u, p) \/ ClaimExpired(u, p) \/ ClaimWinnings(u, p)
    BY <2>2 DEF ClaimRefund, ClaimExpired, RefundOne, RemoveBets, ClaimWinnings, lifeVars,
                Undisturbed
  <2>3. QED BY <1>4, <2>1, <2>2 DEF BettorStep
<1>5. ASSUME NEW p \in Pools, KeeperStep(p) PROVE \A q \in Pools : Undisturbed(q)
  <2>1. PICK new : /\ new \in {"Open", "Cancelled"}
                   /\ status' = [status EXCEPT ![p] = new]
                   /\ UNCHANGED <<lockedFee, settleFee, totals>>
    BY <1>5 DEF KeeperStep, ActivateScheduledPool, ChangeStatus, RefundExpiredPool, RefundAll,
                RemoveBets, bookVars
  <2>2. QED BY <2>1, UndisturbedBy
<1>6. QED BY <1>1, <1>2, <1>3, <1>4, <1>5, OperatorUndisturbed DEF OtherStep

LEMMA BetUndisturbed ==
  ASSUME LifeTypeOK, NEW u \in Accounts, NEW p \in Pools, NEW o \in Outcomes,
         NEW amount \in BetAmounts, PlaceBet(u, p, o, amount)
  PROVE  \A q \in Pools : Undisturbed(q)
<1>1. /\ \E new \in {"Frozen", "Open"} : status' = [status EXCEPT ![p] = new]
      /\ \E net : totals' = [totals EXCEPT ![p][o] = @ + net]
      /\ UNCHANGED <<lockedFee, settleFee>>
  BY DEF PlaceBet, MoveStake
<1>2. \A q \in Pools : q # p => totals'[q] = totals[q] BY <1>1
<1>3. QED BY <1>1, <1>2, UndisturbedBy

(* A settlement records the fee of the claims to come.                     *)
LEMMA SettlementRecords ==
  ASSUME MarketInv, NEW caller, NEW p \in Pools, NEW o, SettlePool(caller, p, o),
         lockedFee[p] = NoFee
  PROVE  FeeRecorded(p)'
<1> DEFINE fee == FeeForVolume(PoolTotal(p))
<1>1. ConfigTypeOK /\ LifeTypeOK BY DEF MarketInv, LifeInv
<1>2. fee \in 0 .. BpsDenom BY <1>1, PoolTypes, FeeForVolumeType
<1>3. /\ settleFee'[p] = Bps(PoolTotal(p), fee)
      /\ lockedFee'[p] = IF feeTiers = <<>> THEN NoFee ELSE fee
      /\ protocolFee' = protocolFee /\ PoolTotal(p)' = PoolTotal(p)
  BY <1>1 DEF SettlePool, LifeTypeOK, configVars, bookVars, PoolTotal
<1>4. feeTiers = <<>> => fee = protocolFee BY DEF FeeForVolume
<1> HIDE DEF fee
<1>5. fee # NoFee BY <1>2, Sizes DEF NoFee
<1>6. EffectiveFee(p)' = fee BY <1>3, <1>4, <1>5 DEF EffectiveFee
<1>7. QED BY <1>3, <1>6 DEF FeeRecorded, Fee, Bps

(* A record stays true while the fee cannot move.                          *)
LEMMA RecordStays ==
  ASSUME protocolFee \in FeeChoices, protocolFee' \in FeeChoices,
         NEW q \in Pools, Undisturbed(q), status'[q] = "Settled", FeeFixed(q)', FeeRecorded(q)
  PROVE  FeeRecorded(q)'
<1>1. /\ totals'[q] = totals[q] /\ lockedFee'[q] = lockedFee[q] /\ settleFee'[q] = settleFee[q]
  BY DEF Undisturbed
<1>2. lockedFee[q] # NoFee \/ protocolFee' = protocolFee BY <1>1, OnlyFee DEF FeeFixed
<1>3. EffectiveFee(q)' = EffectiveFee(q) BY <1>1, <1>2 DEF EffectiveFee
<1>4. QED BY <1>1, <1>3 DEF FeeRecorded, Fee, Bps, PoolTotal

(***************************************************************************)
(* Whatever the administrators do to the fee and to the tier table, the    *)
(* fee recorded by a first settlement is the one the claims are computed   *)
(* with, as long as the fee cannot move between the two.                   *)
(***************************************************************************)
THEOREM FeeChargedAsRecorded == Spec => ChargedFeeIsRecorded
<1> DEFINE Recorded(q) ==
             /\ status'[q] = "Settled" /\ FeeFixed(q)'
             /\ IF status[q] = "Settled" THEN FeeRecorded(q) ELSE lockedFee[q] = NoFee
             => FeeRecorded(q)'
<1>1. ASSUME MoneyState, MoneyState', [Next]_vars, NEW q \in Pools
      PROVE  Recorded(q)
  <2>1. MarketInv /\ LifeTypeOK /\ protocolFee \in FeeChoices /\ protocolFee' \in FeeChoices
    BY <1>1 DEF MoneyState, MarketInv, LifeInv, PayoutInv
  <2>2. CASE Undisturbed(q)
    <3>1. status'[q] = "Settled" => status[q] = "Settled" BY <2>2 DEF Undisturbed
    <3>2. QED BY <2>1, <2>2, <3>1, RecordStays
  <2>3. CASE UNCHANGED vars BY <2>2, <2>3 DEF vars, lifeVars, bookVars, Undisturbed
  <2>4. CASE Bet BY <2>1, <2>2, <2>4, BetUndisturbed DEF Bet
  <2>5. ASSUME NEW c \in Accounts, NEW p \in Pools, NEW o \in Outcomes, SettlePool(c, p, o)
        PROVE  Recorded(q)
    <3>1. CASE q = p
      <4>1. status[p] # "Settled" BY <2>5 DEF SettlePool, Settleable
      <4>2. QED BY <2>1, <2>5, <3>1, <4>1, SettlementRecords
    <3>2. CASE q # p
      <4>1. Undisturbed(q)
        BY <2>1, <2>5, <3>2 DEF SettlePool, bookVars, LifeTypeOK, Undisturbed
      <4>2. QED BY <2>2, <4>1
    <3>3. QED BY <3>1, <3>2
  <2>6. CASE OtherStep BY <2>1, <2>2, <2>5, <2>6, OtherUndisturbed
  <2>7. QED BY <1>1, <2>3, <2>4, <2>6 DEF Next
<1>2. MoneyState /\ MoneyState' /\ [Next]_vars =>
        [\A p \in Pools :
           /\ status'[p] = "Settled" /\ FeeFixed(p)'
           /\ IF status[p] = "Settled" THEN FeeRecorded(p) ELSE lockedFee[p] = NoFee
           => FeeRecorded(p)']_vars
  BY <1>1
<1>3. QED BY <1>2, MoneyInvariant, PTL DEF Spec, ChargedFeeIsRecorded

-----------------------------------------------------------------------------
(***************************************************************************)
(* The market keeps the promise of PoolFunds.  First what the promise says *)
(* of one state, then what leaves a pool's dues alone, then the steps: one *)
(* lemma for each way the market moves or divides money.                   *)
(***************************************************************************)

LEMMA FundNames == Funds!Pools = Pools /\ Funds!Accounts = Accounts
BY DEF Funds!Pools, Funds!Accounts, Pools, Accounts

LEMMA FundSums == \A d : Funds!Owing(d) = SumBelow(d, NumAccounts)
BY DEF Funds!Owing, Funds!SumBelow, SumBelow

(* The phases, one by one.                                                 *)
LEMMA PhaseIs ==
  ASSUME NEW p \in Pools
  PROVE  /\ status[p] # "Settled" /\ ~payout[p].feeCredited => Phase(p) = "open"
         /\ status[p] # "Settled" /\ payout[p].feeCredited => Phase(p) = "outside"
         /\ status[p] = "Settled" /\ ~Regular(p) => Phase(p) = "outside"
         /\ Regular(p) /\ payout[p].feeCredited => Phase(p) = "sharing"
         /\ Regular(p) /\ ~payout[p].feeCredited => Phase(p) = "settled"
         /\ Phase(p) \in {"open", "settled", "sharing", "outside"}
BY DEF Phase, Regular

LEMMA PromisedIs ==
  ASSUME NEW p \in Pools
  PROVE  /\ Phase(p) = "outside" => Promised(p) = [u \in Accounts |-> 0]
         /\ Phase(p) = "open" => Promised(p) = totalBet[p]
         /\ Phase(p) \in {"settled", "sharing"} =>
              Promised(p) = [u \in Accounts |-> IF WinningTotal(p) > 0 THEN Winnings(p, u) ELSE 0]
BY DEF Promised

(* A promise is a number for every account, and the pool's money is the    *)
(* stakes of an open pool and covers the shares of a settled one.          *)
DuesMet(p) ==
  /\ Promised(p) \in [Accounts -> Nat]
  /\ Phase(p) = "open" => SumBelow(Promised(p), NumAccounts) = escrow[p]
  /\ Phase(p) \in {"settled", "sharing"} => SumBelow(Promised(p), NumAccounts) <= escrow[p]

AllDuesMet == \A p \in Pools : DuesMet(p)

LEMMA SharesType ==
  ASSUME MarketInv, NEW p \in Pools, PoolInv(p), Regular(p), WinningTotal(p) > 0,
         NEW u \in Accounts
  PROVE  Winnings(p, u) \in Nat
<1>1. winner[p] \in Outcomes BY DEF MarketInv, LifeInv, WinnerDeclared, Regular
<1>2. WinningTotal(p) \in Nat \ {0} BY <1>1, PoolTypes DEF WinningTotal
<1>3. WinningStake(p, u) \in Nat BY <1>1, StakedTypes DEF WinningStake
<1>4. NetPool(p) \in Nat BY FeeTypes
<1>5. WinningStake(p, u) * NetPool(p) \in Nat BY <1>3, <1>4
<1>6. QED BY <1>2, <1>5, DivNat DEF Winnings

LEMMA StateMet == MoneyState => AllDuesMet
<1> SUFFICES ASSUME MoneyState, NEW p \in Pools PROVE DuesMet(p) BY DEF AllDuesMet
<1>1. MarketInv /\ PoolInv(p) /\ UnclaimedPoolFunded /\ BookTypeOK
  BY DEF MoneyState, PayoutInv, MarketInv, MoneyInv, BookInv
<1>2. CASE Phase(p) = "outside"
  <2>1. Promised(p) = [u \in Accounts |-> 0] BY <1>2, PromisedIs
  <2>2. QED BY <1>2, <2>1 DEF DuesMet
<1>3. CASE Phase(p) = "open"
  <2>1. ~payout[p].feeCredited BY <1>3 DEF Phase
  <2>2. Promised(p) = totalBet[p] BY <1>3, PromisedIs
  <2>3. SumBelow(totalBet[p], NumAccounts) = escrow[p]
    BY <1>1, <2>1 DEF UnclaimedPoolFunded, Refundable
  <2>4. QED BY <1>1, <1>3, <2>2, <2>3 DEF DuesMet, BookTypeOK
<1>4. CASE Phase(p) \in {"settled", "sharing"}
  <2>1. Regular(p) BY <1>4 DEF Phase
  <2>2. Promised(p) = [u \in Accounts |-> IF WinningTotal(p) > 0 THEN Winnings(p, u) ELSE 0]
    BY <1>4, PromisedIs
  <2>3. Promised(p) \in [Accounts -> Nat]
    <3>1. \A u \in Accounts : WinningTotal(p) > 0 => Winnings(p, u) \in Nat
      BY <1>1, <2>1, SharesType
    <3>2. QED BY <2>2, <3>1
  <2>4. Owed(p) = SumBelow(Promised(p), NumAccounts) BY <2>2 DEF Owed
  <2>5. /\ Owed(p) \in Nat
        /\ Owed(p) + (IF payout[p].feeCredited THEN 0 ELSE Fee(p)) <= escrow[p]
    BY <1>1, <2>1, RegularFunded
  <2>6. Fee(p) \in Nat /\ escrow[p] \in Int BY <1>1, FeeTypes, PoolTypes
  <2>7. Owed(p) <= escrow[p] BY <2>5, <2>6
  <2>8. QED BY <1>4, <2>3, <2>4, <2>7 DEF DuesMet
<1>5. QED BY <1>2, <1>3, <1>4, PhaseIs

(* What a step may leave of a pool, for its dues to stay as they are.      *)
Same(q) ==
  /\ totals'[q] = totals[q] /\ stake'[q] = stake[q] /\ totalBet'[q] = totalBet[q]
  /\ winner'[q] = winner[q] /\ lockedFee'[q] = lockedFee[q] /\ fresh'[q] = fresh[q]
  /\ payout'[q] = payout[q] /\ escrow'[q] = escrow[q]
  /\ status'[q] = "Settled" <=> status[q] = "Settled"

FeeChosen == protocolFee \in FeeChoices /\ protocolFee' \in FeeChoices

LEMMA SameShares ==
  ASSUME NEW q \in Pools, totals'[q] = totals[q], winner'[q] = winner[q],
         lockedFee'[q] = lockedFee[q], FeeFixed(q), FeeChosen
  PROVE  /\ WinningTotal(q)' = WinningTotal(q)
         /\ NetPool(q)' = NetPool(q)
<1>1. lockedFee[q] # NoFee \/ protocolFee' = protocolFee BY OnlyFee DEF FeeFixed, FeeChosen
<1>2. EffectiveFee(q)' = EffectiveFee(q) BY <1>1 DEF EffectiveFee
<1>3. PoolTotal(q)' = PoolTotal(q) BY DEF PoolTotal
<1>4. QED BY <1>2, <1>3 DEF WinningTotal, NetPool, Fee, Bps

LEMMA SameDues ==
  ASSUME NEW q \in Pools, Same(q), FeeChosen
  PROVE  Phase(q)' = Phase(q) /\ Promised(q)' = Promised(q)
<1>1. /\ totals'[q] = totals[q] /\ stake'[q] = stake[q] /\ totalBet'[q] = totalBet[q]
      /\ winner'[q] = winner[q] /\ lockedFee'[q] = lockedFee[q] /\ fresh'[q] = fresh[q]
      /\ payout'[q] = payout[q] /\ (status'[q] = "Settled" <=> status[q] = "Settled")
  BY DEF Same
<1>2. FeeFixed(q)' <=> FeeFixed(q) BY <1>1 DEF FeeFixed
<1>3. Regular(q)' <=> Regular(q) BY <1>1, <1>2 DEF Regular
<1>4. Phase(q)' = Phase(q) BY <1>1, <1>3 DEF Phase
<1>5. CASE Phase(q) \in {"settled", "sharing"}
  <2>1. FeeFixed(q) BY <1>5 DEF Phase, Regular
  <2>2. WinningTotal(q)' = WinningTotal(q) /\ NetPool(q)' = NetPool(q)
    BY <1>1, <2>1, SameShares
  <2>3. \A u \in Accounts : Winnings(q, u)' = Winnings(q, u)
    BY <1>1, <2>2 DEF Winnings, WinningStake
  <2>4. QED BY <1>4, <1>5, <2>2, <2>3 DEF Promised
<1>6. CASE Phase(q) \in {"open", "outside"}
  BY <1>1, <1>4, <1>6 DEF Promised
<1>7. QED BY <1>4, <1>5, <1>6, PhaseIs

(* A step that is about one pool.                                          *)
LEMMA OnlyThere ==
  ASSUME NEW p \in Pools, MoneyTypeOK', \A q \in Pools : q # p => Same(q), FeeChosen
  PROVE  Funds!Only(p)
<1>1. \A q \in Pools : q # p => /\ Phase(q)' = Phase(q) /\ Promised(q)' = Promised(q)
                                /\ escrow'[q] = escrow[q]
  BY SameDues DEF Same
<1>2. \A q \in Pools : /\ Phases[q] = Phase(q) /\ Phases'[q] = Phase(q)'
                       /\ Promises[q] = Promised(q) /\ Promises'[q] = Promised(q)'
  BY DEF Phases, Promises
<1>3. escrow'[p] \in Int BY DEF MoneyTypeOK
<1>4. QED BY <1>1, <1>2, <1>3, FundNames DEF Funds!Only

(* A state function of PoolFunds, at one pool.                             *)
LEMMA At ==
  ASSUME NEW p \in Pools
  PROVE  /\ Phases[p] = Phase(p) /\ Phases'[p] = Phase(p)'
         /\ Promises[p] = Promised(p) /\ Promises'[p] = Promised(p)'
BY DEF Phases, Promises

(***************************************************************************)
(* What the steps below are about: the promise is kept before and after    *)
(* the step, and no pool but p is touched.                                 *)
(***************************************************************************)
Before == AllDuesMet /\ MoneyTypeOK /\ LifeTypeOK
About(p) ==
  /\ Before /\ Before' /\ FeeChosen
  /\ \A q \in Pools : q # p => Same(q)

(* An interfered pool, before or after.                                    *)
LEMMA OutsideMaps ==
  ASSUME NEW p \in Pools, About(p),
         "outside" \in {Phase(p), Phase(p)'}, Phase(p)' \in {"open", "outside"},
         treasury' >= treasury,
         balance' = balance + (escrow'[p] - escrow[p]) + (treasury' - treasury)
  PROVE  Funds!Next
<1>1. Funds!Only(p) BY OnlyThere DEF About, Before
<1>2. DuesMet(p)' BY DEF About, Before, AllDuesMet
<1>3. Promises'[p] \in Funds!Dues BY <1>2, At, FundNames DEF Funds!Dues, DuesMet
<1>4. Phases'[p] = "open" => Funds!Owing(Promises'[p]) = escrow'[p]
  BY <1>2, At, FundSums DEF DuesMet
<1>5. "outside" \in {Phases[p], Phases'[p]} /\ Phases'[p] \in {"open", "outside"} BY At
<1>6. Funds!Earns BY DEF Funds!Earns, About, Before, MoneyTypeOK
<1>7. Funds!Outside(p)
  BY <1>1, <1>3, <1>4, <1>5, <1>6 DEF Funds!Outside, Funds!Inflow
<1>8. QED BY <1>7, FundNames DEF Funds!Next

(* A stake grows or shrinks, and the pool's money with it.                 *)
LEMMA StakeMaps ==
  ASSUME NEW p \in Pools, About(p), NEW u \in Accounts, NEW delta \in Int,
         status[p] # "Settled", status'[p] # "Settled", payout'[p] = payout[p],
         totalBet[p] \in [Accounts -> Nat], totalBet'[p] \in [Accounts -> Nat],
         totalBet'[p] = [totalBet[p] EXCEPT ![u] = @ + delta],
         escrow'[p] = escrow[p] + delta, treasury' = treasury, balance' = balance + delta
  PROVE  Funds!Next
<1>1. Funds!Only(p) BY OnlyThere DEF About, Before
<1>2. payout[p].feeCredited \in BOOLEAN /\ escrow[p] \in Int /\ balance \in Int /\ treasury \in Int
  BY DEF About, Before, MoneyTypeOK, PayoutRecords
<1>3. escrow'[p] - escrow[p] = delta BY <1>2
<1>4. CASE payout[p].feeCredited
  <2>1. Phase(p) = "outside" /\ Phase(p)' = "outside" BY <1>4 DEF Phase
  <2>2. balance' = balance + (escrow'[p] - escrow[p]) + (treasury' - treasury) /\ treasury' >= treasury
    BY <1>2, <1>3
  <2>3. QED BY <2>1, <2>2, OutsideMaps
<1>5. CASE ~payout[p].feeCredited
  <2>1. Phase(p) = "open" /\ Phase(p)' = "open" BY <1>5 DEF Phase
  <2>2. Promised(p) = totalBet[p] /\ Promised(p)' = totalBet'[p] BY <2>1 DEF Promised
  <2>3. totalBet'[p][u] >= 0 OBVIOUS
  <2>4. Funds!MoveStake(p, u)
    BY <1>1, <1>3, <2>1, <2>2, <2>3, At DEF Funds!MoveStake, Funds!Stays, Funds!Inflow
  <2>5. QED BY <2>4, FundNames DEF Funds!Next
<1>6. QED BY <1>2, <1>4, <1>5

(* Some stakes are paid back in full.                                      *)
LEMMA ReturnMaps ==
  ASSUME NEW p \in Pools, About(p), NEW who \in SUBSET Accounts,
         status[p] # "Settled", status'[p] # "Settled", payout'[p] = payout[p],
         totalBet'[p] = [u \in Accounts |-> IF u \in who THEN 0 ELSE totalBet[p][u]],
         treasury' = treasury, balance' - balance = escrow'[p] - escrow[p]
  PROVE  Funds!Next
<1>1. Funds!Only(p) BY OnlyThere DEF About, Before
<1>2. /\ payout[p].feeCredited \in BOOLEAN /\ escrow[p] \in Int /\ escrow'[p] \in Int
      /\ balance \in Int /\ balance' \in Int /\ treasury \in Int
  BY DEF About, Before, MoneyTypeOK, PayoutRecords
<1>3. balance' = balance + (escrow'[p] - escrow[p]) BY <1>2
<1>4. CASE payout[p].feeCredited
  <2>1. Phase(p) = "outside" /\ Phase(p)' = "outside" BY <1>4 DEF Phase
  <2>2. balance' = balance + (escrow'[p] - escrow[p]) + (treasury' - treasury) /\ treasury' >= treasury
    BY <1>2, <1>3
  <2>3. QED BY <2>1, <2>2, OutsideMaps
<1>5. CASE ~payout[p].feeCredited
  <2>1. Phase(p) = "open" /\ Phase(p)' = "open" BY <1>5 DEF Phase
  <2>2. Promised(p) = totalBet[p] /\ Promised(p)' = totalBet'[p] BY <2>1 DEF Promised
  <2>3. DuesMet(p) /\ DuesMet(p)' BY DEF About, Before, AllDuesMet
  <2>4. escrow'[p] - escrow[p]
          = SumBelow(Promised(p)', NumAccounts) - SumBelow(Promised(p), NumAccounts)
    BY <2>1, <2>3 DEF DuesMet
  <2>5. Promises'[p] = [u \in Accounts |-> IF u \in who THEN 0 ELSE Promises[p][u]]
    BY <2>2, At
  <2>6. escrow'[p] - escrow[p] = Funds!Owing(Promises'[p]) - Funds!Owing(Promises[p])
    BY <2>4, At, FundSums
  <2>7. Phases[p] = "open" /\ Phases'[p] = "open" BY <2>1, At
  <2>8. \E w \in SUBSET Funds!Accounts :
          Promises'[p] = [u \in Funds!Accounts |-> IF u \in w THEN 0 ELSE Promises[p][u]]
    BY <2>5, FundNames
  <2>9. Funds!Return(p)
    BY <1>1, <1>3, <2>6, <2>7, <2>8 DEF Funds!Return, Funds!Stays, Funds!Inflow
  <2>10. QED BY <2>9, FundNames DEF Funds!Next
<1>6. QED BY <1>2, <1>4, <1>5

(***************************************************************************)
(* A step of one pool that moves no money: it settles the pool, takes a    *)
(* settlement back, or leaves its dues alone.  A pool that has paid        *)
(* winners does not become regular again by such a step.                   *)
(***************************************************************************)
LEMMA StatusMaps ==
  ASSUME NEW p \in Pools, About(p),
         totals'[p] = totals[p], stake'[p] = stake[p], totalBet'[p] = totalBet[p],
         payout'[p] = payout[p], escrow'[p] = escrow[p],
         treasury' = treasury, balance' = balance,
         Same(p) \/ status[p] # "Settled" \/ status'[p] # "Settled",
         payout[p].feeCredited => Same(p) \/ ~Regular(p)'
  PROVE  Funds!Next \/ UNCHANGED Funds!vars
<1>1. Funds!Only(p) BY OnlyThere DEF About, Before
<1>2. /\ payout[p].feeCredited \in BOOLEAN /\ escrow[p] \in Int
      /\ balance \in Int /\ treasury \in Int
  BY DEF About, Before, MoneyTypeOK, PayoutRecords
<1>3. balance' = balance + (escrow'[p] - escrow[p]) + (treasury' - treasury) /\ treasury' >= treasury
  BY <1>2
<1>4. CASE Phase(p)' = Phase(p) /\ Promised(p)' = Promised(p)
  <2>1. \A q \in Pools : Phase(q)' = Phase(q) /\ Promised(q)' = Promised(q) /\ escrow'[q] = escrow[q]
    BY <1>4, SameDues DEF About, Same
  <2>2. Phases' = Phases /\ Promises' = Promises BY <2>1 DEF Phases, Promises
  <2>3. escrow' = escrow BY <2>1 DEF About, Before, MoneyTypeOK
  <2>4. QED BY <2>2, <2>3 DEF Funds!vars
<1>5. CASE Same(p) BY <1>4, <1>5, SameDues DEF About
<1>6. CASE ~Same(p) /\ payout[p].feeCredited
  <2>1. ~Regular(p)' BY <1>6
  <2>2. Phase(p)' = "outside" BY <1>6, <2>1 DEF Phase
  <2>3. QED BY <1>3, <2>2, OutsideMaps
<1>7. CASE ~Same(p) /\ ~payout[p].feeCredited
  <2>1. status[p] # "Settled" => Phase(p) = "open" /\ Promised(p) = totalBet[p]
    BY <1>7 DEF Phase, Promised
  <2>2. status'[p] # "Settled" => Phase(p)' = "open" /\ Promised(p)' = totalBet'[p]
    BY <1>7 DEF Phase, Promised
  <2>3. CASE status[p] # "Settled" /\ status'[p] # "Settled"
    BY <1>4, <2>1, <2>2, <2>3
  <2>4. CASE status[p] # "Settled" /\ status'[p] = "Settled"
    <3>1. CASE Regular(p)'
      <4>1. Phase(p)' = "settled" BY <1>7, <2>4, <3>1 DEF Phase
      <4>2. DuesMet(p)' BY DEF About, Before, AllDuesMet
      <4>3. Funds!Settle(p)
        <5>1. Phases[p] = "open" /\ Phases'[p] = "settled" BY <2>1, <2>4, <4>1, At
        <5>2. Promises'[p] \in Funds!Dues BY <4>2, At, FundNames DEF Funds!Dues, DuesMet
        <5>3. SumBelow(Promised(p)', NumAccounts) <= escrow[p]
          BY <2>1, <2>4, <4>1, <4>2 DEF DuesMet
        <5>4. Funds!Owing(Promises'[p]) <= escrow[p] BY <5>3, At, FundSums
        <5>5. QED BY <5>1, <5>2, <5>4 DEF Funds!Settle
      <4>4. Funds!Redivide(p)
        BY <1>1, <1>2, <4>3 DEF Funds!Redivide, Funds!Inflow
      <4>5. QED BY <4>4, FundNames DEF Funds!Next
    <3>2. CASE ~Regular(p)'
      <4>1. Phase(p)' = "outside" BY <2>4, <3>2 DEF Phase
      <4>2. QED BY <1>3, <4>1, OutsideMaps
    <3>3. QED BY <3>1, <3>2
  <2>5. CASE status[p] = "Settled" /\ status'[p] # "Settled"
    <3>1. CASE Regular(p)
      <4>1. Phase(p) = "settled" BY <1>7, <2>5, <3>1 DEF Phase
      <4>2. DuesMet(p)' BY DEF About, Before, AllDuesMet
      <4>3. Funds!Reopen(p)
        <5>1. Phases[p] = "settled" /\ Phases'[p] = "open" BY <2>2, <2>5, <4>1, At
        <5>2. Promises'[p] \in Funds!Dues BY <4>2, At, FundNames DEF Funds!Dues, DuesMet
        <5>3. SumBelow(Promised(p)', NumAccounts) = escrow[p]
          BY <2>2, <2>5, <4>1, <4>2 DEF DuesMet
        <5>4. Funds!Owing(Promises'[p]) = escrow[p] BY <5>3, At, FundSums
        <5>5. QED BY <5>1, <5>2, <5>4 DEF Funds!Reopen
      <4>4. Funds!Redivide(p)
        BY <1>1, <1>2, <4>3 DEF Funds!Redivide, Funds!Inflow
      <4>5. QED BY <4>4, FundNames DEF Funds!Next
    <3>2. CASE ~Regular(p)
      <4>1. Phase(p) = "outside" BY <2>5, <3>2 DEF Phase
      <4>2. QED BY <1>3, <2>2, <2>5, <4>1, OutsideMaps
    <3>3. QED BY <3>1, <3>2
  <2>6. QED BY <1>7, <2>3, <2>4, <2>5
<1>8. QED BY <1>2, <1>5, <1>6, <1>7

(* A claim pays what was due, and nobody else's share moves.               *)
LEMMA ClaimMaps ==
  ASSUME MarketInv, NEW u \in Accounts, NEW p \in Pools, PoolInv(p), About(p),
         ClaimWinnings(u, p)
  PROVE  Funds!Next
<1>1. Funds!Only(p) BY OnlyThere DEF About, Before
<1>2. /\ escrow'[p] = escrow[p] - Winnings(p, u) - TreasuryDelta(p, u)
      /\ payout'[p].feeCredited = TRUE
      /\ UNCHANGED <<lifeVars, totals>>
  BY ClaimEffect
<1>3. /\ treasury' = treasury + TreasuryDelta(p, u) /\ balance' = balance - Winnings(p, u)
      /\ status[p] = "Settled" /\ WinningStake(p, u) > 0
      /\ stake' = [stake EXCEPT ![p] =
                     [v \in Accounts |-> IF v \in {u} THEN [o \in Outcomes |-> 0] ELSE @[v]]]
  BY DEF ClaimWinnings, Claimable, RemoveBets
<1>4. Winnings(p, u) \in Int /\ TreasuryDelta(p, u) \in Nat BY ClaimType DEF ClaimWinnings
<1>5. escrow[p] \in Int /\ balance \in Int /\ treasury \in Int
  BY DEF About, Before, MoneyTypeOK
<1>6. treasury' >= treasury /\ treasury' - treasury = TreasuryDelta(p, u) BY <1>3, <1>4, <1>5
<1>7. escrow'[p] - escrow[p] = -(Winnings(p, u) + (treasury' - treasury))
  BY <1>2, <1>4, <1>5, <1>6
<1>8. UNCHANGED <<status, winner, lockedFee, fresh>> BY <1>2 DEF lifeVars
<1>9. Regular(p)' <=> Regular(p) BY <1>8 DEF Regular, FeeFixed
<1>10. CASE ~Regular(p)
  <2>1. Phase(p) = "outside" /\ Phase(p)' = "outside" BY <1>3, <1>8, <1>9, <1>10 DEF Phase
  <2>2. balance' = balance + (escrow'[p] - escrow[p]) + (treasury' - treasury)
    BY <1>3, <1>4, <1>5, <1>6, <1>7
  <2>3. QED BY <1>6, <2>1, <2>2, OutsideMaps
<1>11. CASE Regular(p)
  <2>1. Phase(p) \in {"settled", "sharing"} /\ Phase(p)' = "sharing"
    BY <1>2, <1>3, <1>8, <1>9, <1>11 DEF Phase
  <2>2. WinningTotal(p)' = WinningTotal(p) /\ NetPool(p)' = NetPool(p)
    BY <1>2, <1>8, <1>11, SameShares DEF About, Regular
  <2>3. winner[p] \in Outcomes BY <1>3 DEF MarketInv, LifeInv, WinnerDeclared
  <2>4. WinningTotal(p) \in Nat /\ WinningTotal(p) > 0
    <3>1. WinningTotal(p) \in Nat BY <2>3, PoolTypes DEF WinningTotal
    <3>2. WinningStake(p, u) \in Nat /\ WinningStake(p, u) <= StakedOn(p, winner[p])
      BY <2>3, StakedTypes DEF WinningStake
    <3>3. StakedOn(p, winner[p]) \in Nat /\ StakedOn(p, winner[p]) <= WinningTotal(p)
      BY <2>3, StakedTypes DEF WinningTotal
    <3>4. QED BY <1>3, <3>1, <3>2, <3>3
  <2>5. stake \in [Pools -> [Accounts -> [Outcomes -> Nat]]]
    BY DEF MarketInv, BookInv, BookTypeOK
  <2>6. ASSUME NEW v \in Accounts
        PROVE  Winnings(p, v)' = IF v = u THEN 0 ELSE Winnings(p, v)
    <3>1. CASE v = u
      <4>1. WinningStake(p, v)' = 0 BY <1>3, <1>8, <2>3, <2>5, <3>1 DEF WinningStake
      <4>2. NetPool(p) \in Nat BY FeeTypes
      <4>3. Winnings(p, v)' = (0 * NetPool(p)) \div WinningTotal(p)
        BY <2>2, <4>1 DEF Winnings
      <4>4. QED BY <2>4, <3>1, <4>2, <4>3
    <3>2. CASE v # u
      <4>1. stake'[p][v] = stake[p][v] BY <1>3, <2>5, <3>2
      <4>2. WinningStake(p, v)' = WinningStake(p, v) BY <1>8, <4>1 DEF WinningStake
      <4>3. QED BY <2>2, <3>2, <4>2 DEF Winnings
    <3>3. QED BY <3>1, <3>2
  <2>7. /\ Promised(p) = [v \in Accounts |-> Winnings(p, v)]
        /\ Promised(p)' = [v \in Accounts |-> Winnings(p, v)']
    BY <2>1, <2>2, <2>4 DEF Promised
  <2>8. Promised(p)' = [Promised(p) EXCEPT ![u] = 0] /\ Promised(p)[u] = Winnings(p, u)
    BY <2>6, <2>7
  <2>9. DuesMet(p)' BY DEF About, Before, AllDuesMet
  <2>10. SumBelow(Promised(p)', NumAccounts) <= escrow'[p] BY <2>1, <2>9 DEF DuesMet
  <2>11. /\ Promises'[p] = [Promises[p] EXCEPT ![u] = 0] /\ Promises[p][u] = Winnings(p, u)
         /\ Phases[p] \in {"settled", "sharing"} /\ Phases'[p] = "sharing"
    BY <2>1, <2>8, At
  <2>12. Funds!Owing(Promises'[p]) <= escrow'[p] BY <2>10, At, FundSums
  <2>13. Funds!Earns BY <1>6 DEF Funds!Earns, About, Before, MoneyTypeOK
  <2>14. Funds!Claim(p, u)
    BY <1>1, <1>3, <1>7, <2>11, <2>12, <2>13 DEF Funds!Claim, Funds!Inflow
  <2>15. QED BY <2>14, FundNames DEF Funds!Next
<1>12. QED BY <1>10, <1>11

(* A step of the settings, the clock or the treasury.                      *)
LEMMA SettingsMap ==
  ASSUME MarketInv, FeeChosen, UNCHANGED <<lifeVars, bookVars, payout, escrow>>
  PROVE  Phases' = Phases /\ Promises' = Promises
<1>1. \A q \in Pools : Same(q) BY DEF Same, lifeVars, bookVars
<1>2. QED BY <1>1, SameDues DEF Phases, Promises

LEMMA ConfigMaps ==
  ASSUME MarketInv, FeeChosen, NEW caller \in Accounts, ConfigStep(caller)
  PROVE  Funds!Next \/ UNCHANGED Funds!vars
<1>1. UNCHANGED <<lifeVars, bookVars, payout, escrow>>
  BY DEF ConfigStep, SetPaused, SetProtocolFee, SetVolumeFeeTiers,
         SetMinSettlementParticipants, WithdrawTreasury, moneyVars
<1>2. Phases' = Phases /\ Promises' = Promises BY <1>1, SettingsMap
<1>3. CASE UNCHANGED <<treasury, balance>> BY <1>1, <1>2, <1>3 DEF Funds!vars
<1>4. CASE \E amount \in 1 .. balance : WithdrawTreasury(caller, amount)
  <2>1. PICK amount \in 1 .. balance : WithdrawTreasury(caller, amount) BY <1>4
  <2>2. /\ amount <= treasury /\ treasury' = treasury - amount /\ balance' = balance - amount
    BY <2>1 DEF WithdrawTreasury, Withdrawable
  <2>3. treasury \in Nat /\ balance \in Nat BY DEF MarketInv, MoneyInv, MoneyTypeOK
  <2>4. treasury' \in 0 .. treasury - 1 /\ balance' = balance - (treasury - treasury')
    BY <2>2, <2>3
  <2>5. Funds!Sweep BY <1>1, <1>2, <2>4 DEF Funds!Sweep
  <2>6. QED BY <2>5 DEF Funds!Next
<1>5. QED
  BY <1>3, <1>4 DEF ConfigStep, SetPaused, SetProtocolFee, SetVolumeFeeTiers,
                    SetMinSettlementParticipants, moneyVars

(* What the steps have in common.                                          *)
Around == MoneyState /\ MoneyState' /\ AllDuesMet /\ AllDuesMet'

LEMMA AroundTypes ==
  ASSUME Around
  PROVE  Before /\ Before' /\ FeeChosen /\ MarketInv /\ PayoutInv
BY DEF Around, MoneyState, PayoutInv, MarketInv, MoneyInv, LifeInv, Before, FeeChosen

(* A bet, or a part of one taken back.                                     *)
LEMMA MovedMaps ==
  ASSUME Around, NEW u \in Accounts, NEW p \in Pools, NEW o \in Outcomes, NEW delta \in Int,
         NEW new, status[p] # "Settled", new # "Settled", status' = [status EXCEPT ![p] = new],
         MoveStake(u, p, o, delta), escrow' = [escrow EXCEPT ![p] = @ + delta],
         balance' = balance + delta,
         UNCHANGED <<winner, lockedFee, fresh, payout, treasury>>
  PROVE  Funds!Next
<1>1. Before /\ Before' /\ FeeChosen /\ BookTypeOK /\ BookTypeOK'
  BY AroundTypes DEF Around, MoneyState, MarketInv, BookInv
<1>2. /\ totals' = [totals EXCEPT ![p][o] = @ + delta]
      /\ stake' = [stake EXCEPT ![p][u][o] = @ + delta]
      /\ totalBet' = [totalBet EXCEPT ![p][u] = @ + delta]
  BY DEF MoveStake
<1>3. \A q \in Pools : /\ totalBet[q] \in [Accounts -> Nat] /\ totalBet'[q] \in [Accounts -> Nat]
                       /\ escrow[q] \in Int
  BY <1>1 DEF Before, BookTypeOK, MoneyTypeOK
<1>4. \A q \in Pools : q # p => Same(q)
  BY <1>1, <1>2 DEF Same, Before, LifeTypeOK, MoneyTypeOK, BookTypeOK
<1>5. totalBet'[p] = [totalBet[p] EXCEPT ![u] = @ + delta] BY <1>1, <1>2 DEF BookTypeOK
<1>6. escrow'[p] = escrow[p] + delta /\ status'[p] # "Settled"
  BY <1>1 DEF Before, MoneyTypeOK, LifeTypeOK
<1>7. About(p) BY <1>1, <1>4 DEF About
<1>8. QED BY <1>3, <1>5, <1>6, <1>7, StakeMaps

LEMMA PlaceBetMaps ==
  ASSUME Around, NEW u \in Accounts, NEW p \in Pools, NEW o \in Outcomes,
         NEW amount \in BetAmounts, PlaceBet(u, p, o, amount)
  PROVE  Funds!Next
<1> DEFINE net == amount - Bps(amount, PlaceFeeBps)
<1>1. amount \in Nat BY MarketAssumption
<1>2. net \in Int BY <1>1, Sizes, BpsRange
<1>3. /\ status[p] \in {"Open", "Frozen"}
      /\ balance' = balance + net /\ escrow' = [escrow EXCEPT ![p] = @ + net]
      /\ MoveStake(u, p, o, net)
      /\ \E new \in {"Open", "Frozen"} : status' = [status EXCEPT ![p] = new]
      /\ UNCHANGED <<winner, lockedFee, fresh, payout, treasury>>
  BY DEF PlaceBet, AcceptsBets, Thawed
<1> HIDE DEF net
<1>4. PICK new \in {"Open", "Frozen"} : status' = [status EXCEPT ![p] = new] BY <1>3
<1>5. QED BY <1>2, <1>3, <1>4, MovedMaps

LEMMA CancelBetMaps ==
  ASSUME Around, NEW u \in Accounts, NEW p \in Pools, NEW o \in Outcomes,
         NEW amount \in CancelAmounts, CancelBet(u, p, o, amount)
  PROVE  Funds!Next
<1>1. amount \in Nat /\ -amount \in Int BY MarketAssumption
<1>2. /\ status[p] = "Open"
      /\ balance' = balance - amount /\ escrow' = [escrow EXCEPT ![p] = @ - amount]
      /\ MoveStake(u, p, o, -amount)
      /\ UNCHANGED <<lifeVars, payout, treasury>>
  BY DEF CancelBet
<1>3. LifeTypeOK /\ MoneyTypeOK BY AroundTypes DEF Before
<1>4. status' = [status EXCEPT ![p] = "Open"] /\ UNCHANGED <<winner, lockedFee, fresh>>
  BY <1>2, <1>3 DEF lifeVars, LifeTypeOK
<1>5. balance' = balance + (-amount) /\ escrow' = [escrow EXCEPT ![p] = @ + (-amount)]
  BY <1>1, <1>2, <1>3 DEF MoneyTypeOK
<1>6. QED BY <1>1, <1>2, <1>4, <1>5, MovedMaps

(* The refunds, of one bettor and of all.                                  *)
LEMMA RefundMaps ==
  ASSUME Around, NEW p \in Pools, NEW who \in SUBSET Accounts, NEW amount \in Nat, NEW new,
         status[p] # "Settled", new # "Settled", status' = [status EXCEPT ![p] = new],
         PayOut(p, amount), RemoveBets(p, who),
         UNCHANGED <<winner, lockedFee, fresh>>
  PROVE  Funds!Next
<1>1. Before /\ Before' /\ FeeChosen /\ BookTypeOK
  BY AroundTypes DEF Around, MoneyState, MarketInv, BookInv
<1>2. /\ balance' = balance - amount /\ escrow' = [escrow EXCEPT ![p] = @ - amount]
      /\ UNCHANGED <<payout, treasury, totals>>
      /\ stake' = [stake EXCEPT ![p] =
                     [u \in Accounts |-> IF u \in who THEN [o \in Outcomes |-> 0] ELSE @[u]]]
      /\ totalBet' = [totalBet EXCEPT ![p] =
                        [u \in Accounts |-> IF u \in who THEN 0 ELSE @[u]]]
  BY DEF PayOut, RemoveBets
<1>3. \A q \in Pools : q # p => Same(q)
  BY <1>1, <1>2 DEF Same, Before, LifeTypeOK, MoneyTypeOK, BookTypeOK
<1>4. totalBet'[p] = [u \in Accounts |-> IF u \in who THEN 0 ELSE totalBet[p][u]]
  BY <1>1, <1>2 DEF BookTypeOK
<1>5. escrow'[p] = escrow[p] - amount /\ status'[p] # "Settled"
  BY <1>1, <1>2 DEF Before, MoneyTypeOK, LifeTypeOK
<1>6. balance' - balance = escrow'[p] - escrow[p]
  BY <1>1, <1>2, <1>5 DEF Before, MoneyTypeOK
<1>7. About(p) BY <1>1, <1>3 DEF About
<1>8. QED BY <1>2, <1>4, <1>5, <1>6, <1>7, ReturnMaps

LEMMA RefundOneMaps ==
  ASSUME Around, NEW u \in Accounts, NEW p \in Pools, status[p] # "Settled", RefundOne(p, u)
  PROVE  Funds!Next
<1>1. /\ PayOut(p, totalBet[p][u]) /\ RemoveBets(p, {u}) /\ UNCHANGED lifeVars
  BY DEF RefundOne
<1>2. LifeTypeOK /\ BookTypeOK
  BY AroundTypes DEF Before, Around, MoneyState, MarketInv, BookInv
<1>3. totalBet[p][u] \in Nat BY <1>2 DEF BookTypeOK
<1>4. status' = [status EXCEPT ![p] = status[p]] /\ UNCHANGED <<winner, lockedFee, fresh>>
  BY <1>1, <1>2 DEF lifeVars, LifeTypeOK
<1>5. QED BY <1>1, <1>3, <1>4, RefundMaps

LEMMA RefundAllMaps ==
  ASSUME Around, NEW p \in Pools, status[p] # "Settled", RefundAll(p),
         status' = [status EXCEPT ![p] = "Cancelled"],
         UNCHANGED <<winner, lockedFee, fresh>>
  PROVE  Funds!Next
<1> DEFINE amount == SumBelow(RefundCut(p), NumAccounts)
<1>1. BookInv /\ MoneyInv /\ BookTypeOK
  BY DEF Around, MoneyState, MarketInv, BookInv
<1>2. PayOut(p, amount) /\ RemoveBets(p, Refunded(p)) BY DEF RefundAll
<1>3. Refunded(p) \in SUBSET Accounts BY <1>1 DEF BookTypeOK, Refunded
<1>4. RefundCut(p) \in [Accounts -> Nat] BY <1>1, RefundAllBooks
<1>5. amount \in Nat BY <1>4, Sizes, SumNat DEF Accounts
<1> HIDE DEF amount
<1>6. QED BY <1>2, <1>3, <1>5, RefundMaps

(* A change of status that settles nothing.                                *)
LEMMA ChangeMaps ==
  ASSUME Around, NEW p \in Pools, NEW new, new = "Settled" => status[p] = "Settled",
         ChangeStatus(p, new)
  PROVE  Funds!Next \/ UNCHANGED Funds!vars
<1>1. Before /\ Before' /\ FeeChosen BY AroundTypes
<1>2. /\ status' = [status EXCEPT ![p] = new]
      /\ UNCHANGED <<totals, stake, totalBet, winner, lockedFee, fresh, payout, escrow,
                     treasury, balance>>
  BY DEF ChangeStatus, bookVars, moneyVars
<1>3. \A q \in Pools : status'[q] = IF q = p THEN new ELSE status[q]
  BY <1>1, <1>2 DEF Before, LifeTypeOK
<1>4. \A q \in Pools : q # p => Same(q) BY <1>2, <1>3 DEF Same
<1>5. About(p) BY <1>1, <1>4 DEF About
<1>6. CASE new = "Settled" \/ status[p] # "Settled"
  <2>1. CASE (status[p] = "Settled") <=> (new = "Settled")
    <3>1. Same(p) BY <1>2, <1>3, <2>1 DEF Same
    <3>2. QED BY <1>2, <1>5, <3>1, StatusMaps
  <2>2. QED BY <1>6, <2>1
<1>7. CASE new # "Settled" /\ status[p] = "Settled"
  <2>1. ~Regular(p)' /\ status'[p] # "Settled" BY <1>3, <1>7 DEF Regular
  <2>2. QED BY <1>2, <1>5, <2>1, StatusMaps
<1>8. QED BY <1>6, <1>7

(* A settlement; what has paid winners is not whole, so not fresh.         *)
LEMMA SettleMaps ==
  ASSUME Around, NEW caller \in Accounts, NEW p \in Pools, NEW o \in Outcomes,
         SettlePool(caller, p, o)
  PROVE  Funds!Next \/ UNCHANGED Funds!vars
<1>1. Before /\ Before' /\ FeeChosen /\ MarketInv /\ PayoutInv BY AroundTypes
<1>2. /\ status[p] = "Open" /\ status' = [status EXCEPT ![p] = "Settled"]
      /\ \E w : winner' = [winner EXCEPT ![p] = w]
      /\ \E f : lockedFee' = [lockedFee EXCEPT ![p] = f]
      /\ fresh' = [fresh EXCEPT ![p] = (escrow[p] = PoolTotal(p))]
      /\ UNCHANGED <<totals, stake, totalBet, payout, escrow, treasury, balance>>
  BY DEF SettlePool, Settleable, bookVars, moneyVars
<1>3. \A q \in Pools : q # p => Same(q) BY <1>2 DEF Same
<1>4. About(p) BY <1>1, <1>3 DEF About
<1>5. ASSUME payout[p].feeCredited PROVE ~Regular(p)'
  <2>1. escrow[p] < PoolTotal(p) BY <1>1, <1>5 DEF PayoutInv, PoolInv
  <2>2. escrow[p] \in Int /\ PoolTotal(p) \in Nat BY <1>1, PoolTypes
  <2>3. escrow[p] # PoolTotal(p) BY <2>1, <2>2
  <2>4. fresh'[p] = (escrow[p] = PoolTotal(p)) BY <1>1, <1>2 DEF Before, LifeTypeOK
  <2>5. QED BY <2>3, <2>4 DEF Regular
<1>6. QED BY <1>2, <1>4, <1>5, StatusMaps

(* A step that touches no money and settles no pool.                       *)
LEMMA RestMaps ==
  ASSUME FeeChosen, \A q \in Pools : Same(q), UNCHANGED <<treasury, balance>>,
         MoneyTypeOK, MoneyTypeOK'
  PROVE  UNCHANGED Funds!vars
<1>1. Phases' = Phases /\ Promises' = Promises BY SameDues DEF Phases, Promises
<1>2. escrow' = escrow BY DEF Same, MoneyTypeOK
<1>3. QED BY <1>1, <1>2 DEF Funds!vars

LEMMA CreateMaps ==
  ASSUME Around, NEW creator, NEW created, NEW duration, NEW deadline,
         NEW initial \in {"Open", "Scheduled"},
         CreatePoolInternal(creator, created, duration, deadline, initial)
  PROVE  UNCHANGED Funds!vars
<1> DEFINE p == Cardinality(Created) + 1
<1>1. Before /\ Before' /\ FeeChosen /\ PayoutInv BY AroundTypes
<1>2. /\ p \in Pools /\ status' = [status EXCEPT ![p] = initial]
      /\ UNCHANGED <<totals, stake, totalBet, winner, lockedFee, fresh, payout, escrow,
                     treasury, balance>>
  BY DEF CreatePoolInternal, bookVars, moneyVars
<1>3. status[p] = "None" BY <1>1, <1>2, NextId DEF PayoutInv
<1> HIDE DEF p
<1>4. \A q \in Pools : Same(q) BY <1>1, <1>2, <1>3 DEF Same, Before, LifeTypeOK
<1>5. QED BY <1>1, <1>2, <1>4, RestMaps DEF Before

LEMMA OperatorMaps ==
  ASSUME Around, NEW caller \in Accounts, NEW p \in Pools, OperatorStep(caller, p)
  PROVE  Funds!Next \/ UNCHANGED Funds!vars
<1>1. CASE \/ VoidPool(caller, p) \/ CancelScheduledPool(caller, p) \/ FreezePool(caller, p)
           \/ DisputePool(caller, p) \/ UnfreezePool(caller, p)
  <2>1. PICK new \in {"Voided", "Cancelled", "Frozen", "Disputed", "Open"} : ChangeStatus(p, new)
    BY <1>1 DEF VoidPool, CancelScheduledPool, FreezePool, DisputePool, UnfreezePool
  <2>2. QED BY <2>1, ChangeMaps
<1>2. CASE OverridePoolCooling(caller, p)
  <2>1. ChangeStatus(p, IF status[p] = "Frozen" THEN "Open" ELSE status[p])
    BY <1>2 DEF OverridePoolCooling
  <2>2. PICK new : ChangeStatus(p, new) /\ (new = "Settled" => status[p] = "Settled") BY <2>1
  <2>3. QED BY <2>2, ChangeMaps
<1>3. CASE CancelPool(caller, p)
  <2>1. status[p] # "Settled" BY <1>3 DEF CancelPool, Cancellable
  <2>2. /\ RefundAll(p) /\ status' = [status EXCEPT ![p] = "Cancelled"]
        /\ UNCHANGED <<winner, lockedFee, fresh>>
    BY <1>3 DEF CancelPool
  <2>3. QED BY <2>1, <2>2, RefundAllMaps
<1>4. ASSUME NEW o \in Outcomes, SettlePool(caller, p, o)
      PROVE  Funds!Next \/ UNCHANGED Funds!vars
  BY <1>4, SettleMaps
<1>5. CASE \/ \E settler \in Settlers : AssignSettler(caller, p, settler)
           \/ \E seconds \in Extensions : ExtendPoolDuration(caller, p, seconds)
  <2>1. UNCHANGED <<status, winner, lockedFee, fresh, bookVars, moneyVars>>
    BY <1>5 DEF AssignSettler, ExtendPoolDuration
  <2>2. \A q \in Pools : Same(q) BY <2>1 DEF Same, bookVars, moneyVars
  <2>3. QED BY <2>1, <2>2, AroundTypes, RestMaps DEF Before, moneyVars
<1>6. QED BY <1>1, <1>2, <1>3, <1>4, <1>5 DEF OperatorStep

LEMMA FundsMap == Around /\ [Next]_vars => [Funds!Next]_(Funds!vars)
<1> SUFFICES ASSUME Around, [Next]_vars PROVE Funds!Next \/ UNCHANGED Funds!vars OBVIOUS
<1>1. Before /\ Before' /\ FeeChosen /\ MarketInv /\ PayoutInv BY AroundTypes
<1>2. CASE Bet BY <1>2, PlaceBetMaps DEF Bet
<1>3. ASSUME NEW u \in Accounts, NEW p \in Pools, BettorStep(u, p) PROVE Funds!Next
  <2>1. ASSUME NEW o \in Outcomes, NEW amount \in CancelAmounts, CancelBet(u, p, o, amount)
        PROVE  Funds!Next
    BY <2>1, CancelBetMaps
  <2>2. CASE ClaimRefund(u, p) BY <2>2, RefundOneMaps DEF ClaimRefund
  <2>3. CASE ClaimExpired(u, p) BY <2>3, RefundOneMaps DEF ClaimExpired
  <2>4. CASE ClaimWinnings(u, p)
    <3>1. \A q \in Pools : q # p => Same(q)
      BY <1>1, <2>4 DEF ClaimWinnings, RemoveBets, Same, lifeVars, Before, MoneyTypeOK, LifeTypeOK
    <3>2. About(p) /\ PoolInv(p) BY <1>1, <3>1 DEF About, PayoutInv
    <3>3. QED BY <1>1, <2>4, <3>2, ClaimMaps
  <2>5. QED BY <1>3, <2>1, <2>2, <2>3, <2>4 DEF BettorStep
<1>4. ASSUME NEW p \in Pools, KeeperStep(p) PROVE Funds!Next \/ UNCHANGED Funds!vars
  <2>1. CASE ActivateScheduledPool(p)
    <3>1. ChangeStatus(p, "Open") BY <2>1 DEF ActivateScheduledPool
    <3>2. QED BY <3>1, ChangeMaps
  <2>2. CASE RefundExpiredPool(p)
    <3>1. /\ status[p] # "Settled" /\ RefundAll(p) /\ status' = [status EXCEPT ![p] = "Cancelled"]
          /\ UNCHANGED <<winner, lockedFee, fresh>>
      BY <2>2 DEF RefundExpiredPool
    <3>2. QED BY <3>1, RefundAllMaps
  <2>3. QED BY <1>4, <2>1, <2>2 DEF KeeperStep
<1>5. ASSUME NEW c \in Creators, CreatorStep(c) PROVE UNCHANGED Funds!vars
  <2>1. PICK created, duration, deadline, initial :
          /\ initial \in {"Open", "Scheduled"}
          /\ CreatePoolInternal(c, created, duration, deadline, initial)
    BY <1>5 DEF CreatorStep, CreatePool, SchedulePool
  <2>2. QED BY <2>1, CreateMaps
<1>6. CASE Tick \/ UNCHANGED vars
  <2>1. UNCHANGED <<lifeVars, bookVars, moneyVars>> BY <1>6 DEF Tick, vars
  <2>2. \A q \in Pools : Same(q) BY <2>1 DEF Same, lifeVars, bookVars, moneyVars
  <2>3. QED BY <1>1, <2>1, <2>2, RestMaps DEF Before, moneyVars
<1>7. QED BY <1>1, <1>2, <1>3, <1>4, <1>5, <1>6, ConfigMaps, OperatorMaps DEF Next, OtherStep

(* No pool, no bet and no token: nobody is due anything.                   *)
LEMMA InitMaps == Init => Funds!Init
<1> SUFFICES ASSUME Init PROVE Funds!Init OBVIOUS
<1>1. /\ escrow = [p \in Pools |-> 0] /\ treasury = 0 /\ balance = 0
      /\ \A p \in Pools : /\ status[p] = "None" /\ ~payout[p].feeCredited
                          /\ totalBet[p] = [u \in Accounts |-> 0]
  BY DEF Init, NoPayout
<1>2. \A p \in Pools : Phase(p) = "open" BY <1>1 DEF Phase
<1>3. \A p \in Pools : Promised(p) = [u \in Accounts |-> 0] BY <1>1, <1>2 DEF Promised
<1>4. /\ Phases = [p \in Pools |-> "open"]
      /\ Promises = [p \in Pools |-> [u \in Accounts |-> 0]]
  BY <1>2, <1>3 DEF Phases, Promises
<1>5. QED BY <1>1, <1>4, FundNames DEF Funds!Init

(***************************************************************************)
(* Every behaviour of the market, for every choice of its limits, fees and *)
(* accounts, is one of PoolFunds.                                          *)
(***************************************************************************)
THEOREM MarketKeepsFunds == Spec => KeepsFunds
<1>1. Init => Funds!Init BY InitMaps
<1>2. Around /\ [Next]_vars => [Funds!Next]_(Funds!vars) BY FundsMap
<1>3. MoneyState /\ AllDuesMet /\ MoneyState' /\ AllDuesMet' => Around BY DEF Around
<1>4. QED
  BY <1>1, <1>2, <1>3, StateMet, MoneyInvariant, PTL DEF Spec, KeepsFunds, Funds!Spec

(***************************************************************************)
(* What the promise amounts to, for whoever keeps it: no step of PoolFunds *)
(* leaves a pool with less than its bettors are due, or the balance with   *)
(* less or more than the treasury and the funds.                           *)
(***************************************************************************)
FundsTyped ==
  /\ \A p \in Pools : escrow[p] \in Int /\ Promises[p] \in [Accounts -> Nat]
  /\ treasury \in Nat /\ balance \in Int

FundsInv == FundsTyped /\ Funds!Covered

(* The funds together move with the one that moves.                        *)
LEMMA FundMoves ==
  ASSUME FundsInv, NEW p \in Pools, Funds!Only(p), NEW delta \in Int,
         escrow'[p] = escrow[p] + delta, treasury' \in Nat,
         balance' = balance + delta + (treasury' - treasury),
         Promises'[p] \in [Accounts -> Nat],
         Phases'[p] = "open" => SumBelow(Promises'[p], NumAccounts) = escrow'[p],
         Phases'[p] \in {"settled", "sharing"} =>
           SumBelow(Promises'[p], NumAccounts) <= escrow'[p]
  PROVE  FundsInv'
<1> DEFINE f == [i \in 0 .. NumPools - 1 |-> escrow[i + 1]]
           g == [i \in 0 .. NumPools - 1 |-> escrow'[i + 1]]
<1>1. NumPools \in Nat /\ p - 1 \in 0 .. NumPools - 1 /\ p - 1 + 1 = p BY Sizes DEF Pools
<1>2. /\ \A q \in Pools : escrow[q] \in Int /\ Promises[q] \in [Accounts -> Nat]
      /\ treasury \in Nat /\ balance \in Int
  BY DEF FundsInv, FundsTyped
<1>3. \A q \in Pools : q # p => /\ escrow'[q] = escrow[q] /\ Promises'[q] = Promises[q]
                                /\ Phases'[q] = Phases[q]
  BY FundNames DEF Funds!Only
<1>4. FundsTyped' BY <1>2, <1>3 DEF FundsTyped
<1>5. \A i \in 0 .. NumPools - 1 : i + 1 \in Pools BY <1>1 DEF Pools
<1>6. \A i \in 0 .. NumPools - 1 : f[i] \in Int /\ g[i] \in Int BY <1>2, <1>4, <1>5 DEF FundsTyped
<1>7. \A i \in 0 .. NumPools - 1 : i # p - 1 => g[i] = f[i] BY <1>1, <1>3, <1>5
<1>8. f[p - 1] = escrow[p] /\ g[p - 1] = escrow[p] + delta BY <1>1
<1>9. \A h : Funds!SumBelow(h, NumPools) = SumBelow(h, NumPools)
  BY DEF Funds!SumBelow, SumBelow
<1>10. balance = treasury + SumBelow(f, NumPools) BY <1>9 DEF FundsInv, Funds!Covered
<1> HIDE DEF f, g
<1>11. SumBelow(g, NumPools) = SumBelow(f, NumPools) + (g[p - 1] - f[p - 1])
  BY <1>1, <1>6, <1>7, SumUpdate
<1>12. SumBelow(f, NumPools) \in Int BY <1>1, <1>6, SumInt
<1>13. balance' = treasury' + SumBelow(g, NumPools)
  BY <1>2, <1>8, <1>10, <1>11, <1>12
<1>14. \A q \in Pools :
         /\ Phases'[q] = "open" => SumBelow(Promises'[q], NumAccounts) = escrow'[q]
         /\ Phases'[q] \in {"settled", "sharing"} =>
              SumBelow(Promises'[q], NumAccounts) <= escrow'[q]
  BY <1>3, FundNames, FundSums DEF FundsInv, Funds!Covered
<1>15. Funds!Covered' BY <1>9, <1>13, <1>14, FundNames, FundSums DEF Funds!Covered, g
<1>16. QED BY <1>4, <1>15 DEF FundsInv

LEMMA FundsStepCovers ==
  ASSUME FundsInv, Funds!Next \/ UNCHANGED Funds!vars
  PROVE  FundsInv'
<1>1. /\ \A q \in Pools : escrow[q] \in Int /\ Promises[q] \in [Accounts -> Nat]
      /\ treasury \in Nat /\ balance \in Int
  BY DEF FundsInv, FundsTyped
<1>2. \A q \in Pools :
        /\ Phases[q] = "open" => SumBelow(Promises[q], NumAccounts) = escrow[q]
        /\ Phases[q] \in {"settled", "sharing"} => SumBelow(Promises[q], NumAccounts) <= escrow[q]
  BY FundNames, FundSums DEF FundsInv, Funds!Covered
<1>3. NumAccounts \in Nat BY Sizes
<1>4. \A d : d \in [Accounts -> Nat] => SumBelow(d, NumAccounts) \in Nat
  <2>1. SUFFICES ASSUME NEW d \in [Accounts -> Nat] PROVE SumBelow(d, NumAccounts) \in Nat OBVIOUS
  <2>2. \A i \in 0 .. NumAccounts - 1 : d[i] \in Nat BY DEF Accounts
  <2>3. QED BY <1>3, <2>2, SumNat
<1>5. ASSUME NEW p \in Pools, NEW u \in Accounts, Funds!MoveStake(p, u)
      PROVE  FundsInv'
  <2> DEFINE delta == escrow'[p] - escrow[p]
  <2>1. /\ Phases[p] = "open" /\ Phases'[p] = "open" /\ treasury' = treasury
        /\ Promises'[p] = [Promises[p] EXCEPT ![u] = @ + delta] /\ Promises'[p][u] >= 0
        /\ balance' = balance + delta /\ Funds!Only(p)
    BY <1>5 DEF Funds!MoveStake, Funds!Stays, Funds!Inflow
  <2>2. delta \in Int /\ escrow'[p] = escrow[p] + delta BY <1>1, <2>1 DEF Funds!Only
  <2> HIDE DEF delta
  <2>3. Promises[p] \in [Accounts -> Nat] /\ Promises'[p] \in [Accounts -> Nat]
    BY <1>1, <2>1, <2>2
  <2>4. /\ Promises'[p][u] = Promises[p][u] + delta
        /\ \A v \in Accounts : v # u => Promises'[p][v] = Promises[p][v]
    BY <2>1, <2>3
  <2>5. SumBelow(Promises'[p], NumAccounts) = SumBelow(Promises[p], NumAccounts) + delta
    BY <2>2, <2>3, <2>4, AccountSumMove
  <2>6. SumBelow(Promises'[p], NumAccounts) = escrow'[p] BY <1>2, <2>1, <2>2, <2>5
  <2>7. treasury' \in Nat /\ balance' = balance + delta + (treasury' - treasury)
    BY <1>1, <2>1, <2>2
  <2>8. QED BY <2>1, <2>2, <2>3, <2>6, <2>7, FundMoves
<1>6. ASSUME NEW p \in Pools, NEW u \in Accounts, Funds!Claim(p, u)
      PROVE  FundsInv'
  <2> DEFINE delta == escrow'[p] - escrow[p]
  <2>1. /\ Phases'[p] = "sharing"
        /\ Promises'[p] = [Promises[p] EXCEPT ![u] = 0]
        /\ delta = -(Promises[p][u] + (treasury' - treasury))
        /\ balance' = balance - Promises[p][u] /\ Funds!Only(p) /\ treasury' \in Nat
        /\ SumBelow(Promises'[p], NumAccounts) <= escrow'[p]
    BY <1>6, FundSums DEF Funds!Claim, Funds!Inflow, Funds!Earns
  <2>2. delta \in Int /\ escrow'[p] = escrow[p] + delta BY <1>1, <2>1 DEF Funds!Only
  <2> HIDE DEF delta
  <2>3. Promises[p][u] \in Nat /\ Promises'[p] \in [Accounts -> Nat] BY <1>1, <2>1
  <2>4. balance' = balance + delta + (treasury' - treasury) BY <1>1, <2>1, <2>2, <2>3
  <2>5. QED BY <2>1, <2>2, <2>3, <2>4, FundMoves
<1>7. ASSUME NEW p \in Pools, Funds!Return(p)
      PROVE  FundsInv'
  <2> DEFINE delta == escrow'[p] - escrow[p]
  <2>1. PICK who \in SUBSET Accounts :
          Promises'[p] = [u \in Accounts |-> IF u \in who THEN 0 ELSE Promises[p][u]]
    BY <1>7, FundNames DEF Funds!Return
  <2>2. /\ Phases[p] = "open" /\ Phases'[p] = "open" /\ treasury' = treasury
        /\ delta = SumBelow(Promises'[p], NumAccounts) - SumBelow(Promises[p], NumAccounts)
        /\ balance' = balance + delta /\ Funds!Only(p)
    BY <1>7, FundSums DEF Funds!Return, Funds!Stays, Funds!Inflow
  <2>3. delta \in Int /\ escrow'[p] = escrow[p] + delta BY <1>1, <2>2 DEF Funds!Only
  <2> HIDE DEF delta
  <2>4. Promises'[p] \in [Accounts -> Nat] BY <1>1, <2>1
  <2>5. SumBelow(Promises'[p], NumAccounts) = escrow'[p]
    BY <1>1, <1>2, <1>4, <2>2, <2>3, <2>4
  <2>6. treasury' \in Nat /\ balance' = balance + delta + (treasury' - treasury)
    BY <1>1, <2>2, <2>3
  <2>7. QED BY <2>2, <2>3, <2>4, <2>5, <2>6, FundMoves
<1>8. ASSUME NEW p \in Pools, Funds!Redivide(p)
      PROVE  FundsInv'
  <2>1. /\ escrow'[p] - escrow[p] = 0 /\ treasury' = treasury /\ balance' = balance
        /\ Funds!Only(p) /\ Promises'[p] \in [Accounts -> Nat]
        /\ \/ Phases'[p] = "settled" /\ SumBelow(Promises'[p], NumAccounts) <= escrow[p]
           \/ Phases'[p] = "open" /\ SumBelow(Promises'[p], NumAccounts) = escrow[p]
    BY <1>8, FundSums, FundNames
    DEF Funds!Redivide, Funds!Inflow, Funds!Settle, Funds!Reopen, Funds!Dues
  <2>2. escrow'[p] = escrow[p] + 0 /\ escrow'[p] = escrow[p] BY <1>1, <2>1 DEF Funds!Only
  <2>3. treasury' \in Nat /\ balance' = balance + 0 + (treasury' - treasury) /\ 0 \in Int
    BY <1>1, <2>1
  <2>4. /\ Phases'[p] = "open" => SumBelow(Promises'[p], NumAccounts) = escrow'[p]
        /\ Phases'[p] \in {"settled", "sharing"} =>
             SumBelow(Promises'[p], NumAccounts) <= escrow'[p]
    BY <2>1, <2>2
  <2>5. QED BY <2>1, <2>2, <2>3, <2>4, FundMoves
<1>9. ASSUME NEW p \in Pools, Funds!Outside(p)
      PROVE  FundsInv'
  <2> DEFINE delta == escrow'[p] - escrow[p]
  <2>1. /\ Phases'[p] \in {"open", "outside"} /\ treasury' \in Nat
        /\ Promises'[p] \in [Accounts -> Nat]
        /\ Phases'[p] = "open" => SumBelow(Promises'[p], NumAccounts) = escrow'[p]
        /\ balance' = balance + delta + (treasury' - treasury) /\ Funds!Only(p)
    BY <1>9, FundSums, FundNames DEF Funds!Outside, Funds!Inflow, Funds!Earns, Funds!Dues
  <2>2. delta \in Int /\ escrow'[p] = escrow[p] + delta BY <1>1, <2>1 DEF Funds!Only
  <2> HIDE DEF delta
  <2>3. QED BY <2>1, <2>2, FundMoves
<1>10. CASE Funds!Sweep \/ UNCHANGED Funds!vars
  <2>1. /\ escrow' = escrow /\ Promises' = Promises /\ Phases' = Phases
        /\ treasury' \in Nat /\ balance' = balance - (treasury - treasury')
    BY <1>1, <1>10 DEF Funds!Sweep, Funds!vars
  <2>2. 1 \in Pools /\ Funds!Only(1) /\ escrow'[1] = escrow[1] + 0 /\ 0 \in Int
    BY <1>1, <2>1, Sizes DEF Pools, Funds!Only
  <2>3. balance' = balance + 0 + (treasury' - treasury) BY <1>1, <2>1
  <2>4. QED BY <1>1, <1>2, <2>1, <2>2, <2>3, FundMoves
<1>11. QED BY <1>5, <1>6, <1>7, <1>8, <1>9, <1>10, FundNames DEF Funds!Next

(* Whoever keeps the promise can pay.                                      *)
THEOREM PromiseCovers == Funds!Spec => []Funds!Covered
<1>1. Funds!Init => FundsInv
  <2> SUFFICES ASSUME Funds!Init PROVE FundsInv OBVIOUS
  <2>1. /\ escrow = [p \in Pools |-> 0] /\ treasury = 0 /\ balance = 0
        /\ Promises = [p \in Pools |-> [u \in Accounts |-> 0]]
        /\ Phases = [p \in Pools |-> "open"]
    BY FundNames DEF Funds!Init
  <2>2. \A p \in Pools : SumBelow(Promises[p], NumAccounts) = 0
    <3>1. NumAccounts \in Nat /\ \A p \in Pools, i \in 0 .. NumAccounts - 1 : Promises[p][i] = 0
      BY <2>1, Sizes DEF Accounts
    <3>2. QED BY <3>1, SumZero
  <2>3. Funds!SumBelow([i \in 0 .. NumPools - 1 |-> escrow[i + 1]], NumPools) = 0
    <3> DEFINE f == [i \in 0 .. NumPools - 1 |-> escrow[i + 1]]
    <3>1. NumPools \in Nat /\ \A i \in 0 .. NumPools - 1 : f[i] = 0
      BY <2>1, Sizes DEF Pools
    <3> HIDE DEF f
    <3>2. SumBelow(f, NumPools) = 0 BY <3>1, SumZero
    <3>3. \A h : Funds!SumBelow(h, NumPools) = SumBelow(h, NumPools)
      BY DEF Funds!SumBelow, SumBelow
    <3>4. QED BY <3>2, <3>3 DEF f
  <2>4. FundsTyped BY <2>1 DEF FundsTyped
  <2>5. Funds!Covered
    BY <2>1, <2>2, <2>3, FundNames, FundSums DEF Funds!Covered
  <2>6. QED BY <2>4, <2>5 DEF FundsInv
<1>2. FundsInv /\ [Funds!Next]_(Funds!vars) => FundsInv' BY FundsStepCovers
<1>3. FundsInv => Funds!Covered BY DEF FundsInv
<1>4. QED BY <1>1, <1>2, <1>3, PTL DEF Funds!Spec

=============================================================================
