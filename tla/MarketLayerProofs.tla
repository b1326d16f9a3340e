-------------------------- MODULE MarketLayerProofs --------------------------
(***************************************************************************)
(* The theorems of the specifications built on the market: what the limits *)
(* of one stored window promise over any interval (MarketLimits), what the *)
(* calls that put several claims or settlements in one transaction keep    *)
(* (MarketBatches), and what pools with several tokens owe (MultiAsset).   *)
(* All rest on MarketProofs.                                               *)
(*                                                                         *)
(* The limits: the arithmetic of one window against the tally of an        *)
(* interval, then what a bet adds to the tallies, the inductive invariant, *)
(* and the theorem, for all limits, windows and mixes of calls.            *)
(*                                                                         *)
(* The batches: the payout states a batch passes through, one claim after  *)
(* the other; what all of them know of a pool (Standing); what the last of *)
(* them leaves of the books and the money; that the batches of the calls   *)
(* name every bet once; then one lemma per call, and the theorems.         *)
(*                                                                         *)
(* The tokens: what the one balance of a token owes all pools is covered,  *)
(* the last claim accounts for the whole deposit, and a winner's share of  *)
(* a token stays what it was at the first claim.  First the inductive      *)
(* invariant and the arithmetic of the shares, then what the calls of the  *)
(* single-asset market do to it, one lemma per call of MultiAsset, and the *)
(* theorems.                                                               *)
(***************************************************************************)
EXTENDS MarketLimits, MarketBatches, MultiAsset, MarketProofs

-----------------------------------------------------------------------------
(* One window against a tally f: f[t] is what was used in the length       *)
(* seconds that start at t.                                                *)

(***************************************************************************)
(* An interval that begins after the window did misses its first use; one  *)
(* that overlaps the window saw less than the limit of the window before.  *)
(***************************************************************************)
Bounded(f, w, length, max) ==
  /\ w.used <= max
  /\ w.start = Never => \A t \in Nat : f[t] = 0
  /\ w.start # Never =>
       /\ w.start \in Nat
       /\ \A t \in Nat : /\ t + length > w.start => f[t] <= max - 1 + w.used
                         /\ t > w.start => f[t] <= w.used - 1
  /\ \A t \in Nat : f[t] <= 2 * max - 1

(* What a use of x at time s adds to the interval that starts at t.        *)
Share(x, s, t, length) == IF t <= s /\ s < t + length THEN x ELSE 0

(***************************************************************************)
(* Using x more at time s keeps every interval below twice the limit,      *)
(* whether the window runs on or starts again: the old window began at     *)
(* least its length before the new one, so whoever overlaps the new one    *)
(* has missed the first use of the old.                                    *)
(***************************************************************************)
LEMMA WindowUsed ==
  ASSUME NEW length \in Nat \ {0}, NEW max \in Nat \ {0}, NEW x \in Nat \ {0}, NEW s \in Nat,
         NEW w \in Windows, NEW f \in [Nat -> Nat], NEW g \in [Nat -> Nat],
         Bounded(f, w, length, max), w.start <= s,
         \A t \in Nat : t > s => f[t] = 0,
         \A t \in Nat : g[t] = f[t] + Share(x, s, t, length),
         Window(w, s, length).used + x <= max
  PROVE  /\ Bounded(g, Add(Window(w, s, length), x), length, max)
         /\ Add(Window(w, s, length), x).start <= s
<1> DEFINE v == Window(w, s, length)
<1>0. w.start \in Int /\ w.used \in Nat BY DEF Windows
<1>1. CASE w.start = Never \/ s - w.start >= length
  <2>1. v = [start |-> s, used |-> 0] BY <1>1 DEF Window
  <2>2. /\ Add(v, x) = [start |-> s, used |-> x] /\ x <= max
    BY <2>1 DEF Add
  <2>3. ASSUME NEW t \in Nat
        PROVE  /\ t + length > s => g[t] <= max - 1 + x
               /\ t > s => g[t] <= x - 1
               /\ g[t] <= 2 * max - 1
    <3>1. f[t] \in Nat /\ g[t] = f[t] + (IF t <= s /\ s < t + length THEN x ELSE 0)
      BY DEF Share
    <3>2. t > s => f[t] = 0 OBVIOUS
    <3>3. f[t] <= 2 * max - 1 BY DEF Bounded
    <3>4. t + length > s => f[t] <= max - 1
      <4>1. CASE w.start = Never BY <4>1 DEF Bounded
      <4>2. CASE w.start # Never /\ s - w.start >= length
        <5>1. t + length > s => t > w.start BY <1>0, <4>2
        <5>2. t > w.start => f[t] <= w.used - 1 BY <4>2 DEF Bounded
        <5>3. w.used <= max BY DEF Bounded
        <5>4. QED BY <1>0, <3>1, <5>1, <5>2, <5>3
      <4>3. QED BY <1>1, <4>1, <4>2
    <3>5. QED BY <2>2, <3>1, <3>2, <3>3, <3>4
  <2>4. QED BY <2>2, <2>3 DEF Bounded, Never
<1>2. CASE w.start # Never /\ s - w.start < length
  <2>1. v = w BY <1>0, <1>2 DEF Window
  <2>2. /\ Add(v, x).start = w.start /\ Add(v, x).used = w.used + x /\ w.used + x <= max
    BY <2>1 DEF Add, Windows
  <2>3. ASSUME NEW t \in Nat
        PROVE  /\ t + length > w.start => g[t] <= max - 1 + (w.used + x)
               /\ t > w.start => g[t] <= w.used + x - 1
               /\ g[t] <= 2 * max - 1
    <3>1. f[t] \in Nat /\ g[t] = f[t] + (IF t <= s /\ s < t + length THEN x ELSE 0)
      BY DEF Share
    <3>2. /\ t + length > w.start => f[t] <= max - 1 + w.used
          /\ t > w.start => f[t] <= w.used - 1
          /\ f[t] <= 2 * max - 1
      BY <1>2 DEF Bounded
    <3>3. QED BY <1>0, <1>2, <2>2, <3>1, <3>2
  <2>4. w.start \in Nat BY <1>2 DEF Bounded
  <2> DEFINE c == Add(v, x)
  <2>5. c.start = w.start /\ c.used = w.used + x /\ c.used <= max BY <2>2
  <2> HIDE DEF c
  <2>6. Bounded(g, c, length, max) BY <1>0, <1>2, <2>3, <2>4, <2>5 DEF Bounded
  <2>7. c.start <= s BY <2>5
  <2>8. QED BY <2>6, <2>7 DEF c
<1>3. QED BY <1>0, <1>1, <1>2

-----------------------------------------------------------------------------
(* The tallies of the history.                                             *)

Bets == [user : Accounts, pool : Pools, time : Nat, gross : Nat \ {0}]

(* Nothing is recorded ahead of the clock.                                 *)
HistoryTypeOK ==
  /\ history \in Seq(Bets)
  /\ \A i \in DOMAIN history : history[i].time <= now

LEMMA SumAppended ==
  ASSUME NEW n \in Nat, NEW f, NEW g, \A i \in 0 .. n - 1 : g[i] = f[i]
  PROVE  SumBelow(g, n + 1) = SumBelow(f, n) + g[n]
<1>1. SumBelow(g, n + 1) = SumBelow(g, n) + g[n] BY SumStep
<1>2. SumBelow(g, n) = SumBelow(f, n) BY SumAgree
<1>3. QED BY <1>1, <1>2

LEMMA TalliesTyped ==
  ASSUME HistoryTypeOK, NEW u \in Accounts, NEW t \in Nat, NEW length \in Nat
  PROVE  /\ BetsIn(u, t, length) \in Nat /\ GrossIn(u, t, length) \in Nat
         /\ now \in Nat /\ t > now => BetsIn(u, t, length) = 0 /\ GrossIn(u, t, length) = 0
<1> DEFINE n == Len(history)
           f == [i \in 0 .. n - 1 |->
                   IF PlacedIn(history[i + 1], u, t, length) THEN 1 ELSE 0]
           g == [i \in 0 .. n - 1 |->
                   IF PlacedIn(history[i + 1], u, t, length)
                   THEN history[i + 1].gross ELSE 0]
<1>1. n \in Nat /\ \A i \in 0 .. n - 1 : i + 1 \in DOMAIN history /\ history[i + 1] \in Bets
  BY DEF HistoryTypeOK
<1>2. \A i \in 0 .. n - 1 : f[i] \in Nat /\ g[i] \in Nat BY <1>1 DEF Bets
<1>3. ASSUME now \in Nat, t > now PROVE \A i \in 0 .. n - 1 : f[i] = 0 /\ g[i] = 0
  <2>1. ASSUME NEW i \in 0 .. n - 1 PROVE ~PlacedIn(history[i + 1], u, t, length)
    <3>1. history[i + 1].time \in Nat /\ history[i + 1].time <= now
      BY <1>1 DEF HistoryTypeOK, Bets
    <3>2. QED BY <1>3, <3>1 DEF PlacedIn
  <2>2. QED BY <2>1
<1>4. BetsIn(u, t, length) = SumBelow(f, n) /\ GrossIn(u, t, length) = SumBelow(g, n)
  BY DEF BetsIn, GrossIn, OverHistory
<1> HIDE DEF f, g, n
<1>5. SumBelow(f, n) \in Nat /\ SumBelow(g, n) \in Nat BY <1>1, <1>2, SumNat
<1>6. now \in Nat /\ t > now => SumBelow(f, n) = 0 /\ SumBelow(g, n) = 0
  BY <1>1, <1>3, SumZero
<1>7. QED BY <1>4, <1>5, <1>6

(* An accepted bet counts in exactly the intervals that contain its time.  *)
LEMMA TalliesAppended ==
  ASSUME history \in Seq(Bets), NEW b \in Bets, history' = Append(history, b),
         NEW u \in Accounts, NEW t \in Nat, NEW length \in Nat
  PROVE  /\ BetsIn(u, t, length)'
              = BetsIn(u, t, length) + (IF PlacedIn(b, u, t, length) THEN 1 ELSE 0)
         /\ GrossIn(u, t, length)'
              = GrossIn(u, t, length) + (IF PlacedIn(b, u, t, length) THEN b.gross ELSE 0)
<1> DEFINE Count(h) == [i \in 0 .. Len(h) - 1 |->
                          IF PlacedIn(h[i + 1], u, t, length) THEN 1 ELSE 0]
           Stake(h) == [i \in 0 .. Len(h) - 1 |->
                          IF PlacedIn(h[i + 1], u, t, length) THEN h[i + 1].gross ELSE 0]
<1>1. PICK k : k = Append(history, b) OBVIOUS
<1>2. PICK n : n = Len(history) OBVIOUS
<1>3. /\ n \in Nat /\ Len(k) = n + 1 /\ k[n + 1] = b
      /\ \A i \in 1 .. n : k[i] = history[i]
  BY <1>1, <1>2
<1>4. /\ \A i \in 0 .. n - 1 : /\ Count(k)[i] = Count(history)[i]
                               /\ Stake(k)[i] = Stake(history)[i]
      /\ Count(k)[n] = IF PlacedIn(b, u, t, length) THEN 1 ELSE 0
      /\ Stake(k)[n] = IF PlacedIn(b, u, t, length) THEN b.gross ELSE 0
  BY <1>2, <1>3
<1>5. /\ BetsIn(u, t, length) = SumBelow(Count(history), n)
      /\ GrossIn(u, t, length) = SumBelow(Stake(history), n)
  BY <1>2 DEF BetsIn, GrossIn, OverHistory
<1>6. /\ BetsIn(u, t, length)' = SumBelow(Count(k), n + 1)
      /\ GrossIn(u, t, length)' = SumBelow(Stake(k), n + 1)
  BY <1>1, <1>3 DEF BetsIn, GrossIn, OverHistory
<1> HIDE DEF Count, Stake
<1>7. /\ SumBelow(Count(k), n + 1) = SumBelow(Count(history), n) + Count(k)[n]
      /\ SumBelow(Stake(k), n + 1) = SumBelow(Stake(history), n) + Stake(k)[n]
  <2>1. SumBelow(Count(k), n + 1) = SumBelow(Count(history), n) + Count(k)[n]
    BY <1>3, <1>4, SumAppended
  <2>2. SumBelow(Stake(k), n + 1) = SumBelow(Stake(history), n) + Stake(k)[n]
    BY <1>3, <1>4, SumAppended
  <2>3. QED BY <2>1, <2>2
<1>8. QED BY <1>4, <1>5, <1>6, <1>7

-----------------------------------------------------------------------------
(* The inductive invariant.                                                *)

BetsTally(u, length) == [t \in Nat |-> BetsIn(u, t, length)]
GrossTally(u, length) == [t \in Nat |-> GrossIn(u, t, length)]

(* Each enabled window stands for the tallies it has seen.                 *)
RateBooked ==
  RateLimited =>
    \A u \in Accounts :
      /\ Bounded(BetsTally(u, RateWindow), betRate[u], RateWindow, MaxBetsPerWindow)
      /\ betRate[u].start <= now

DailyBooked ==
  DailyLossLimit > 0 /\ DailyWindow > 0 =>
    \A u \in Accounts :
      /\ Bounded(GrossTally(u, DailyWindow), dailyLoss[u], DailyWindow, DailyLossLimit)
      /\ dailyLoss[u].start <= now

WeeklyBooked ==
  WeeklyLossLimit > 0 /\ WeeklyWindow > 0 =>
    \A u \in Accounts :
      /\ Bounded(GrossTally(u, WeeklyWindow), weeklyLoss[u], WeeklyWindow, WeeklyLossLimit)
      /\ weeklyLoss[u].start <= now

(* The stored time of a large bet is that of the last one.                 *)
LargeBetsBooked ==
  \A i \in DOMAIN history :
    LargeBet(history[i].gross) =>
      LET last == lastLargeBet[history[i].pool][history[i].user]
      IN  last # Never /\ history[i].time <= last

(***************************************************************************)
(* The limits over any interval follow from the windows only as long as    *)
(* every window agrees with the history it has thrown away.                *)
(***************************************************************************)
HistoryInv ==
  /\ MarketInv /\ HistoryTypeOK
  /\ RateBooked /\ DailyBooked /\ WeeklyBooked
  /\ LargeBetsBooked /\ LargeBetsSpaced

-----------------------------------------------------------------------------
(* What an accepted bet does to a wallet's windows.                        *)

Entry(u, p, amount) == [user |-> u, pool |-> p, time |-> now, gross |-> amount]

(* Every account's tallies are of naturals, nothing beyond the clock.      *)
LEMMA TalliesInClock ==
  ASSUME HistoryTypeOK, now \in Nat, NEW u \in Accounts, NEW length \in Nat
  PROVE  /\ BetsTally(u, length) \in [Nat -> Nat]
         /\ GrossTally(u, length) \in [Nat -> Nat]
         /\ \A t \in Nat : t > now => /\ BetsTally(u, length)[t] = 0
                                      /\ GrossTally(u, length)[t] = 0
BY TalliesTyped DEF BetsTally, GrossTally

LEMMA TalliesOfEntry ==
  ASSUME HistoryTypeOK, NEW u \in Accounts, NEW p \in Pools, now \in Nat,
         NEW amount \in Nat \ {0}, history' = Append(history, Entry(u, p, amount)),
         NEW v \in Accounts, NEW t \in Nat, NEW length \in Nat
  PROVE  /\ BetsIn(v, t, length)'
              = BetsIn(v, t, length) + (IF v = u THEN Share(1, now, t, length) ELSE 0)
         /\ GrossIn(v, t, length)'
              = GrossIn(v, t, length) + (IF v = u THEN Share(amount, now, t, length) ELSE 0)
         /\ BetsIn(v, t, length)' \in Nat /\ GrossIn(v, t, length)' \in Nat
         /\ BetsIn(v, t, length) \in Nat /\ GrossIn(v, t, length) \in Nat
<1>1. PICK b : b = Entry(u, p, amount) OBVIOUS
<1>2. b \in Bets /\ b.user = u /\ b.time = now /\ b.gross = amount
  BY <1>1 DEF Entry, Bets
<1>3. history \in Seq(Bets) /\ history' = Append(history, b) BY <1>1 DEF HistoryTypeOK
<1>4. BetsIn(v, t, length) \in Nat /\ GrossIn(v, t, length) \in Nat BY TalliesTyped
<1>5. /\ BetsIn(v, t, length)'
           = BetsIn(v, t, length) + (IF PlacedIn(b, v, t, length) THEN 1 ELSE 0)
      /\ GrossIn(v, t, length)'
           = GrossIn(v, t, length) + (IF PlacedIn(b, v, t, length) THEN amount ELSE 0)
  BY <1>2, <1>3, TalliesAppended
<1>6. PlacedIn(b, v, t, length) <=> v = u /\ t <= now /\ now < t + length
  BY <1>2 DEF PlacedIn
<1>7. QED BY <1>4, <1>5, <1>6 DEF Share

(* The bettor's tallies, and everybody else's.                             *)
LEMMA TalliesMoved ==
  ASSUME HistoryTypeOK, NEW u \in Accounts, NEW p \in Pools, now \in Nat,
         NEW amount \in Nat \ {0}, history' = Append(history, Entry(u, p, amount)),
         NEW length \in Nat
  PROVE  /\ BetsTally(u, length)' \in [Nat -> Nat] /\ GrossTally(u, length)' \in [Nat -> Nat]
         /\ \A t \in Nat : BetsTally(u, length)'[t]
                             = BetsTally(u, length)[t] + Share(1, now, t, length)
         /\ \A t \in Nat : GrossTally(u, length)'[t]
                             = GrossTally(u, length)[t] + Share(amount, now, t, length)
<1>1. ASSUME NEW t \in Nat
      PROVE  /\ BetsIn(u, t, length)' \in Nat /\ GrossIn(u, t, length)' \in Nat
             /\ BetsIn(u, t, length)' = BetsIn(u, t, length) + Share(1, now, t, length)
             /\ GrossIn(u, t, length)' = GrossIn(u, t, length) + Share(amount, now, t, length)
  <2>1. BetsIn(u, t, length)' \in Nat /\ GrossIn(u, t, length)' \in Nat
    BY TalliesOfEntry
  <2>2. BetsIn(u, t, length)' = BetsIn(u, t, length) + Share(1, now, t, length)
    BY TalliesOfEntry
  <2>3. GrossIn(u, t, length)' = GrossIn(u, t, length) + Share(amount, now, t, length)
    BY TalliesOfEntry
  <2>4. QED BY <2>1, <2>2, <2>3
<1>2. QED BY <1>1 DEF BetsTally, GrossTally

LEMMA TalliesKept ==
  ASSUME HistoryTypeOK, NEW u \in Accounts, NEW p \in Pools, now \in Nat,
         NEW amount \in Nat \ {0}, history' = Append(history, Entry(u, p, amount)),
         NEW v \in Accounts, v # u, NEW length \in Nat
  PROVE  /\ BetsTally(v, length)' = BetsTally(v, length)
         /\ GrossTally(v, length)' = GrossTally(v, length)
<1>1. ASSUME NEW t \in Nat
      PROVE  /\ BetsIn(v, t, length)' = BetsIn(v, t, length)
             /\ GrossIn(v, t, length)' = GrossIn(v, t, length)
  <2>1. BetsIn(v, t, length) \in Nat /\ GrossIn(v, t, length) \in Nat BY TalliesTyped
  <2>2. BetsIn(v, t, length)' = BetsIn(v, t, length) + 0
    BY TalliesOfEntry
  <2>3. GrossIn(v, t, length)' = GrossIn(v, t, length) + 0
    BY TalliesOfEntry
  <2>4. QED BY <2>1, <2>2, <2>3
<1>2. QED BY <1>1 DEF BetsTally, GrossTally

(* What the windows see of an accepted bet.                                *)
LEMMA BetTaken ==
  ASSUME HistoryInv, NEW u \in Accounts, NEW p \in Pools, NEW o \in Outcomes,
         NEW amount \in BetAmounts, RecordedBet(u, p, o, amount)
  PROVE  /\ amount \in Nat \ {0} /\ now' = now /\ now \in Nat
         /\ history' = Append(history, Entry(u, p, amount))
         /\ RateLimitOk(u, now) /\ LimitsTypeOK
         /\ \E volumes \in Int : ExposureOk(u, p, amount, volumes, now)
         /\ \E net \in Int : RecordBet(u, p, amount, net, now)
<1>1. /\ amount \in Nat \ {0} BY MarketAssumption
<1>2. /\ now \in Nat /\ LimitsTypeOK /\ sides \in [Pools -> [{"a", "b"} -> Nat]]
  BY DEF HistoryInv, MarketInv, LimitInv, BookInv, BookTypeOK
<1>3. amount - Bps(amount, PlaceFeeBps) \in Int BY <1>1, BpsRange, Sizes
<1>4. sides[p].a + sides[p].b \in Int BY <1>2
<1>5. /\ now' = now /\ history' = Append(history, Entry(u, p, amount))
      /\ RateLimitOk(u, now)
  BY DEF RecordedBet, PlaceBet, Entry
<1>6. ExposureOk(u, p, amount, sides[p].a + sides[p].b, now)
  BY DEF RecordedBet, PlaceBet
<1>7. RecordBet(u, p, amount, amount - Bps(amount, PlaceFeeBps), now)
  BY DEF RecordedBet, PlaceBet
<1>8. QED BY <1>1, <1>2, <1>3, <1>4, <1>5, <1>6, <1>7

LEMMA HistoryGrows ==
  ASSUME HistoryInv, NEW u \in Accounts, NEW p \in Pools, NEW o \in Outcomes,
         NEW amount \in BetAmounts, RecordedBet(u, p, o, amount)
  PROVE  HistoryTypeOK'
<1>1. /\ amount \in Nat \ {0} /\ now' = now /\ now \in Nat
      /\ history' = Append(history, Entry(u, p, amount))
  BY BetTaken
<1>2. PICK b : b = Entry(u, p, amount) OBVIOUS
<1>3. b \in Bets /\ b.time = now BY <1>1, <1>2 DEF Entry, Bets
<1>4. history \in Seq(Bets) /\ \A i \in DOMAIN history : history[i].time <= now
  BY DEF HistoryInv, HistoryTypeOK
<1>5. history' \in Seq(Bets) BY <1>1, <1>2, <1>3, <1>4
<1>6. ASSUME NEW i \in DOMAIN history' PROVE history'[i].time <= now
  <2>1. /\ i \in 1 .. Len(history) + 1
        /\ i <= Len(history) => history'[i] = history[i]
        /\ i = Len(history) + 1 => history'[i] = b
    BY <1>1, <1>2, <1>4
  <2>2. CASE i <= Len(history) BY <1>4, <2>1, <2>2
  <2>3. CASE i = Len(history) + 1 BY <1>1, <1>3, <2>1, <2>3
  <2>4. Len(history) \in Nat BY <1>4
  <2>5. QED BY <2>1, <2>2, <2>3, <2>4
<1>7. QED BY <1>1, <1>5, <1>6 DEF HistoryTypeOK

(* The rate window counts the bet.                                         *)
LEMMA RateRecorded ==
  ASSUME HistoryInv, NEW u \in Accounts, NEW p \in Pools, NEW o \in Outcomes,
         NEW amount \in BetAmounts, RecordedBet(u, p, o, amount)
  PROVE  RateBooked'
<1>1. /\ amount \in Nat \ {0} /\ now' = now /\ now \in Nat
      /\ history' = Append(history, Entry(u, p, amount)) /\ HistoryTypeOK
      /\ RateLimitOk(u, now) /\ betRate \in [Accounts -> Windows]
  BY BetTaken DEF HistoryInv, LimitsTypeOK
<1>2. SUFFICES ASSUME RateLimited, NEW v \in Accounts
               PROVE  /\ Bounded(BetsTally(v, RateWindow)', betRate'[v], RateWindow,
                                 MaxBetsPerWindow)
                      /\ betRate'[v].start <= now
  BY <1>1 DEF RateBooked, RateLimited
<1>3. RateWindow \in Nat /\ RateWindow \in Nat \ {0} /\ MaxBetsPerWindow \in Nat \ {0}
  BY <1>2, LimitsAssumption DEF RateLimited
<1>4. /\ Bounded(BetsTally(v, RateWindow), betRate[v], RateWindow, MaxBetsPerWindow)
      /\ betRate[v].start <= now /\ betRate[v] \in Windows
  BY <1>1, <1>2 DEF HistoryInv, RateBooked
<1>5. betRate' = [betRate EXCEPT ![u] = Add(Window(betRate[u], now, RateWindow), 1)]
  BY <1>2, BetTaken DEF RecordBet
<1>6. PICK f, g : f = BetsTally(v, RateWindow) /\ g = BetsTally(v, RateWindow)' OBVIOUS
<1>7. f \in [Nat -> Nat] /\ \A t \in Nat : t > now => f[t] = 0
  <2>1. HistoryTypeOK /\ now \in Nat /\ RateWindow \in Nat BY <1>1, <1>3
  <2>2. BetsTally(v, RateWindow) \in [Nat -> Nat] BY <2>1, TalliesInClock
  <2>3. \A t \in Nat : t > now => BetsTally(v, RateWindow)[t] = 0 BY <2>1, TalliesInClock
  <2>4. QED BY <1>6, <2>2, <2>3
<1>8. CASE v = u
  <2>1. /\ g \in [Nat -> Nat]
        /\ \A t \in Nat : g[t] = f[t] + Share(1, now, t, RateWindow)
    <3>1. BetsTally(v, RateWindow)' \in [Nat -> Nat] BY <1>1, <1>3, <1>8, TalliesMoved
    <3>2. \A t \in Nat : BetsTally(v, RateWindow)'[t]
                            = BetsTally(v, RateWindow)[t] + Share(1, now, t, RateWindow)
      BY <1>1, <1>3, <1>8, TalliesMoved
    <3>3. QED BY <1>6, <3>1, <3>2
  <2>2. PICK w : w = betRate[u] OBVIOUS
  <2>3. Window(w, now, RateWindow).used + 1 <= MaxBetsPerWindow
    <3>1. Window(w, now, RateWindow).used < MaxBetsPerWindow
      BY <1>1, <1>2, <2>2 DEF RateLimitOk
    <3>2. Window(w, now, RateWindow).used \in Int
      BY <1>4, <1>8, <2>2 DEF Window, Windows
    <3>3. QED BY <1>3, <3>1, <3>2
  <2>4. w \in Windows /\ Bounded(f, w, RateWindow, MaxBetsPerWindow) /\ w.start <= now
    BY <1>4, <1>6, <1>8, <2>2
  <2>5. 1 \in Nat \ {0} OBVIOUS
  <2>6. /\ Bounded(g, Add(Window(w, now, RateWindow), 1), RateWindow, MaxBetsPerWindow)
        /\ Add(Window(w, now, RateWindow), 1).start <= now
    BY <1>1, <1>3, <1>7, <2>1, <2>3, <2>4, <2>5, WindowUsed, ZenonT(60)
  <2>7. betRate'[v] = Add(Window(w, now, RateWindow), 1) BY <1>1, <1>5, <1>8, <2>2
  <2>8. QED BY <1>6, <2>6, <2>7
<1>9. CASE v # u
  <2>1. g = f BY <1>1, <1>3, <1>6, <1>9, TalliesKept
  <2>2. betRate'[v] = betRate[v] BY <1>1, <1>5, <1>9
  <2>3. QED BY <1>4, <1>6, <2>1, <2>2
<1>10. QED BY <1>8, <1>9

(* A loss window adds the gross amount; the daily and the weekly one are   *)
(* the same code.                                                          *)
LEMMA LossRecorded ==
  ASSUME HistoryTypeOK, NEW u \in Accounts, NEW p \in Pools, now \in Nat,
         NEW amount \in Nat \ {0}, history' = Append(history, Entry(u, p, amount)),
         NEW length \in Nat \ {0}, NEW max \in Nat \ {0}, NEW w \in Windows,
         Bounded(GrossTally(u, length), w, length, max), w.start <= now,
         LossWindow(w, now, length).used + amount <= max
  PROVE  /\ Bounded(GrossTally(u, length)', Add(LossWindow(w, now, length), amount), length, max)
         /\ Add(LossWindow(w, now, length), amount).start <= now
<1>1. length \in Nat /\ length # 0 OBVIOUS
<1>2. LossWindow(w, now, length) = Window(w, now, length) BY <1>1 DEF LossWindow
<1>3. PICK f, g : f = GrossTally(u, length) /\ g = GrossTally(u, length)' OBVIOUS
<1>4. f \in [Nat -> Nat] /\ \A t \in Nat : t > now => f[t] = 0
  <2>1. GrossTally(u, length) \in [Nat -> Nat] BY <1>1, TalliesInClock
  <2>2. \A t \in Nat : t > now => GrossTally(u, length)[t] = 0 BY <1>1, TalliesInClock
  <2>3. QED BY <1>3, <2>1, <2>2
<1>5. g \in [Nat -> Nat] /\ \A t \in Nat : g[t] = f[t] + Share(amount, now, t, length)
  <2>1. GrossTally(u, length)' \in [Nat -> Nat] BY <1>1, TalliesMoved
  <2>2. \A t \in Nat : GrossTally(u, length)'[t]
                        = GrossTally(u, length)[t] + Share(amount, now, t, length)
    BY <1>1, TalliesMoved
  <2>3. QED BY <1>3, <2>1, <2>2
<1>6. Bounded(f, w, length, max) /\ Window(w, now, length).used + amount <= max
  BY <1>2, <1>3
<1>7. /\ Bounded(g, Add(Window(w, now, length), amount), length, max)
      /\ Add(Window(w, now, length), amount).start <= now
  BY <1>4, <1>5, <1>6, WindowUsed, ZenonT(60)
<1>8. QED BY <1>2, <1>3, <1>7

LEMMA DailyRecorded ==
  ASSUME HistoryInv, NEW u \in Accounts, NEW p \in Pools, NEW o \in Outcomes,
         NEW amount \in BetAmounts, RecordedBet(u, p, o, amount)
  PROVE  DailyBooked'
<1>1. /\ amount \in Nat \ {0} /\ now' = now /\ now \in Nat
      /\ history' = Append(history, Entry(u, p, amount)) /\ HistoryTypeOK
      /\ dailyLoss \in [Accounts -> Windows]
  BY BetTaken DEF HistoryInv, LimitsTypeOK
<1>2. SUFFICES ASSUME DailyLossLimit > 0, DailyWindow > 0, NEW v \in Accounts
               PROVE  /\ Bounded(GrossTally(v, DailyWindow)', dailyLoss'[v], DailyWindow,
                                 DailyLossLimit)
                      /\ dailyLoss'[v].start <= now
  BY <1>1 DEF DailyBooked
<1>3. DailyWindow \in Nat /\ DailyWindow \in Nat \ {0} /\ DailyLossLimit \in Nat \ {0}
  BY <1>2, LimitsAssumption
<1>4. /\ Bounded(GrossTally(v, DailyWindow), dailyLoss[v], DailyWindow, DailyLossLimit)
      /\ dailyLoss[v].start <= now /\ dailyLoss[v] \in Windows
  BY <1>1, <1>2 DEF HistoryInv, DailyBooked
<1>5. /\ dailyLoss' = [dailyLoss EXCEPT ![u] =
                         Add(LossWindow(dailyLoss[u], now, DailyWindow), amount)]
      /\ LossWindow(dailyLoss[u], now, DailyWindow).used + amount <= DailyLossLimit
  BY <1>2, BetTaken DEF RecordBet, ExposureOk
<1>6. CASE v = u
  <2>1. PICK w : w = dailyLoss[u] OBVIOUS
  <2>2. /\ w \in Windows /\ w.start <= now
        /\ Bounded(GrossTally(u, DailyWindow), w, DailyWindow, DailyLossLimit)
        /\ LossWindow(w, now, DailyWindow).used + amount <= DailyLossLimit
    BY <1>4, <1>5, <1>6, <2>1
  <2>3. /\ Bounded(GrossTally(u, DailyWindow)', Add(LossWindow(w, now, DailyWindow), amount),
                   DailyWindow, DailyLossLimit)
        /\ Add(LossWindow(w, now, DailyWindow), amount).start <= now
    BY <1>1, <1>3, <2>2, LossRecorded
  <2>4. dailyLoss'[u] = Add(LossWindow(w, now, DailyWindow), amount) BY <1>1, <1>5, <2>1
  <2>5. QED BY <1>6, <2>3, <2>4
<1>7. CASE v # u
  <2>1. GrossTally(v, DailyWindow)' = GrossTally(v, DailyWindow)
    BY <1>1, <1>3, <1>7, TalliesKept
  <2>2. dailyLoss'[v] = dailyLoss[v] BY <1>1, <1>5, <1>7
  <2>3. QED BY <1>4, <2>1, <2>2
<1>8. QED BY <1>6, <1>7

LEMMA WeeklyRecorded ==
  ASSUME HistoryInv, NEW u \in Accounts, NEW p \in Pools, NEW o \in Outcomes,
         NEW amount \in BetAmounts, RecordedBet(u, p, o, amount)
  PROVE  WeeklyBooked'
<1>1. /\ amount \in Nat \ {0} /\ now' = now /\ now \in Nat
      /\ history' = Append(history, Entry(u, p, amount)) /\ HistoryTypeOK
      /\ weeklyLoss \in [Accounts -> Windows]
  BY BetTaken DEF HistoryInv, LimitsTypeOK
<1>2. SUFFICES ASSUME WeeklyLossLimit > 0, WeeklyWindow > 0, NEW v \in Accounts
               PROVE  /\ Bounded(GrossTally(v, WeeklyWindow)', weeklyLoss'[v], WeeklyWindow,
                                 WeeklyLossLimit)
                      /\ weeklyLoss'[v].start <= now
  BY <1>1 DEF WeeklyBooked
<1>3. WeeklyWindow \in Nat /\ WeeklyWindow \in Nat \ {0} /\ WeeklyLossLimit \in Nat \ {0}
  BY <1>2, LimitsAssumption
<1>4. /\ Bounded(GrossTally(v, WeeklyWindow), weeklyLoss[v], WeeklyWindow, WeeklyLossLimit)
      /\ weeklyLoss[v].start <= now /\ weeklyLoss[v] \in Windows
  BY <1>1, <1>2 DEF HistoryInv, WeeklyBooked
<1>5. /\ weeklyLoss' = [weeklyLoss EXCEPT ![u] =
                         Add(LossWindow(weeklyLoss[u], now, WeeklyWindow), amount)]
      /\ LossWindow(weeklyLoss[u], now, WeeklyWindow).used + amount <= WeeklyLossLimit
  BY <1>2, BetTaken DEF RecordBet, ExposureOk
<1>6. CASE v = u
  <2>1. PICK w : w = weeklyLoss[u] OBVIOUS
  <2>2. /\ w \in Windows /\ w.start <= now
        /\ Bounded(GrossTally(u, WeeklyWindow), w, WeeklyWindow, WeeklyLossLimit)
        /\ LossWindow(w, now, WeeklyWindow).used + amount <= WeeklyLossLimit
    BY <1>4, <1>5, <1>6, <2>1
  <2>3. /\ Bounded(GrossTally(u, WeeklyWindow)', Add(LossWindow(w, now, WeeklyWindow), amount),
                   WeeklyWindow, WeeklyLossLimit)
        /\ Add(LossWindow(w, now, WeeklyWindow), amount).start <= now
    BY <1>1, <1>3, <2>2, LossRecorded
  <2>4. weeklyLoss'[u] = Add(LossWindow(w, now, WeeklyWindow), amount) BY <1>1, <1>5, <2>1
  <2>5. QED BY <1>6, <2>3, <2>4
<1>7. CASE v # u
  <2>1. GrossTally(v, WeeklyWindow)' = GrossTally(v, WeeklyWindow)
    BY <1>1, <1>3, <1>7, TalliesKept
  <2>2. weeklyLoss'[v] = weeklyLoss[v] BY <1>1, <1>5, <1>7
  <2>3. QED BY <1>4, <2>1, <2>2
<1>8. QED BY <1>6, <1>7

(* The cool-down keeps a large bet away from all earlier ones.             *)
LEMMA LargeBetRecorded ==
  ASSUME HistoryInv, NEW u \in Accounts, NEW p \in Pools, NEW o \in Outcomes,
         NEW amount \in BetAmounts, RecordedBet(u, p, o, amount)
  PROVE  LargeBetsBooked' /\ LargeBetsSpaced'
<1>1. /\ amount \in Nat \ {0} /\ now' = now /\ now \in Nat
      /\ history' = Append(history, Entry(u, p, amount))
      /\ lastLargeBet \in [Pools -> [Accounts -> Int]]
      /\ history \in Seq(Bets) /\ \A i \in DOMAIN history : history[i].time <= now
      /\ LargeBetsBooked /\ LargeBetsSpaced
  BY BetTaken DEF HistoryInv, LimitsTypeOK, HistoryTypeOK
<1>2. /\ lastLargeBet' = IF LargeBet(amount) THEN [lastLargeBet EXCEPT ![p][u] = now]
                         ELSE lastLargeBet
      /\ LargeBet(amount) => CooledDown(u, p, now)
  BY BetTaken DEF RecordBet, ExposureOk
<1>3. PICK b : b = Entry(u, p, amount) OBVIOUS
<1>4. b.user = u /\ b.pool = p /\ b.time = now /\ b.gross = amount BY <1>3 DEF Entry
<1>5. PICK n : n = Len(history) OBVIOUS
<1>6. /\ n \in Nat /\ DOMAIN history = 1 .. n /\ DOMAIN history' = 1 .. (n + 1)
      /\ \A i \in 1 .. n : history'[i] = history[i]
      /\ history'[n + 1] = b
  BY <1>1, <1>3, <1>5
<1>7. ASSUME NEW i \in 1 .. n
      PROVE  /\ history[i].user \in Accounts /\ history[i].pool \in Pools
             /\ history[i].time \in Nat /\ history[i].time <= now
  <2>1. i \in DOMAIN history /\ i \in 1 .. Len(history) BY <1>5, <1>6
  <2>2. history[i] \in Bets BY <1>1, <2>1
  <2>3. history[i].time <= now BY <1>1, <2>1
  <2>4. QED BY <2>2, <2>3 DEF Bets
<1>8. ASSUME NEW i \in 1 .. n, LargeBet(history[i].gross)
      PROVE  /\ lastLargeBet[history[i].pool][history[i].user] # Never
             /\ history[i].time <= lastLargeBet[history[i].pool][history[i].user]
  BY <1>1, <1>6, <1>8 DEF LargeBetsBooked
<1>9. LargeBetsBooked'
  <2>1. ASSUME NEW i \in 1 .. (n + 1), LargeBet(history'[i].gross)
        PROVE  LET last == lastLargeBet'[history'[i].pool][history'[i].user]
               IN  last # Never /\ history'[i].time <= last
    <3>1. CASE i \in 1 .. n
      <4>1. PICK r, q : r = history[i].user /\ q = history[i].pool OBVIOUS
      <4>2. history'[i] = history[i] /\ r \in Accounts /\ q \in Pools
        BY <1>6, <1>7, <3>1, <4>1
      <4>3. /\ lastLargeBet[q][r] # Never /\ history[i].time <= lastLargeBet[q][r]
        BY <1>8, <2>1, <3>1, <4>1, <4>2
      <4>4. CASE LargeBet(amount) /\ q = p /\ r = u
        <5>1. lastLargeBet'[q][r] = now BY <1>1, <1>2, <4>4
        <5>2. QED BY <1>1, <1>7, <3>1, <4>1, <4>2, <5>1 DEF Never
      <4>5. CASE ~(LargeBet(amount) /\ q = p /\ r = u)
        <5>1. lastLargeBet'[q][r] = lastLargeBet[q][r] BY <1>1, <1>2, <4>2, <4>5
        <5>2. QED BY <4>1, <4>2, <4>3, <5>1
      <4>6. QED BY <4>4, <4>5
    <3>2. CASE i = n + 1
      <4>1. history'[i] = b BY <1>6, <3>2
      <4>2. lastLargeBet'[p][u] = now BY <1>1, <1>2, <1>4, <2>1, <4>1
      <4>3. QED BY <1>1, <1>4, <4>1, <4>2 DEF Never
    <3>3. QED BY <1>6, <3>1, <3>2
  <2>2. QED BY <1>6, <2>1 DEF LargeBetsBooked, LargeBet
<1>10. LargeBetsSpaced'
  <2>1. ASSUME NEW i \in 1 .. (n + 1), NEW j \in 1 .. (n + 1), i < j,
               history'[i].user = history'[j].user, history'[i].pool = history'[j].pool,
               LargeBet(history'[i].gross), LargeBet(history'[j].gross)
        PROVE  history'[j].time - history'[i].time >= LargeBetCooldown
    <3>1. i \in 1 .. n /\ history'[i] = history[i] BY <1>6, <2>1
    <3>2. CASE j \in 1 .. n
      <4>1. history'[j] = history[j] BY <1>6, <3>2
      <4>2. QED BY <1>1, <1>6, <2>1, <3>1, <3>2, <4>1 DEF LargeBetsSpaced
    <3>3. CASE j = n + 1
      <4>1. history'[j] = b BY <1>6, <3>3
      <4>2. /\ lastLargeBet[p][u] # Never /\ history[i].time <= lastLargeBet[p][u]
        BY <1>4, <1>8, <2>1, <3>1, <4>1
      <4>3. now - lastLargeBet[p][u] >= LargeBetCooldown
        BY <1>2, <1>4, <2>1, <4>1, <4>2 DEF CooledDown
      <4>4. /\ lastLargeBet[p][u] \in Int /\ history[i].time \in Nat
            /\ LargeBetCooldown \in Nat
        BY <1>1, <1>7, <3>1, LimitsAssumption
      <4>5. QED BY <1>1, <1>4, <3>1, <4>1, <4>2, <4>3, <4>4
    <3>4. QED BY <1>6, <3>2, <3>3
  <2>2. QED BY <1>6, <2>1 DEF LargeBetsSpaced, LargeBet
<1>11. QED BY <1>9, <1>10

(* No other call touches a bet's windows or turns back the clock.          *)
LEMMA OthersKeepWindows ==
  ASSUME now \in Nat, OtherStep
  PROVE  now' \in Nat /\ now' >= now /\ UNCHANGED <<betRate, dailyLoss, weeklyLoss, lastLargeBet>>
<1>1. CASE Tick BY <1>1 DEF Tick, limitVars
<1>2. CASE UNCHANGED now /\ UNCHANGED limitVars BY <1>2 DEF limitVars
<1>3. CASE \E p \in Pools : \E cut : UNCHANGED now /\ ReduceExposure(p, cut)
  BY <1>3 DEF ReduceExposure
<1>4. ASSUME NEW c \in Creators, CreatorStep(c) PROVE UNCHANGED now /\ UNCHANGED limitVars
  BY <1>4 DEF CreatorStep, CreatePool, SchedulePool, CreatePoolInternal
<1>5. ASSUME NEW c \in Accounts, ConfigStep(c) PROVE UNCHANGED now /\ UNCHANGED limitVars
  BY <1>5 DEF ConfigStep, SetPaused, SetProtocolFee, SetVolumeFeeTiers,
              SetMinSettlementParticipants, WithdrawTreasury
<1>6. ASSUME NEW c \in Accounts, NEW p \in Pools, OperatorStep(c, p)
      PROVE  UNCHANGED now /\ UNCHANGED limitVars
  BY <1>6 DEF OperatorStep, ExtendPoolDuration, AssignSettler, SettlePool, VoidPool,
              CancelPool, CancelScheduledPool, FreezePool, DisputePool, UnfreezePool,
              OverridePoolCooling, ChangeStatus
<1>7. ASSUME NEW u \in Accounts, NEW p \in Pools, BettorStep(u, p)
      PROVE  \/ UNCHANGED now /\ UNCHANGED limitVars
             \/ \E q \in Pools : \E cut : UNCHANGED now /\ ReduceExposure(q, cut)
  <2>1. CASE \E o \in Outcomes, amount \in CancelAmounts : CancelBet(u, p, o, amount)
    BY <2>1 DEF CancelBet
  <2>2. CASE RefundOne(p, u) BY <2>2 DEF RefundOne
  <2>3. CASE ClaimWinnings(u, p) BY <2>3 DEF ClaimWinnings
  <2>4. QED BY <1>7, <2>1, <2>2, <2>3 DEF BettorStep, ClaimRefund, ClaimExpired
<1>8. ASSUME NEW p \in Pools, KeeperStep(p)
      PROVE  \/ UNCHANGED now /\ UNCHANGED limitVars
             \/ \E q \in Pools : \E cut : UNCHANGED now /\ ReduceExposure(q, cut)
  BY <1>8 DEF KeeperStep, ActivateScheduledPool, ChangeStatus, RefundExpiredPool
<1>9. QED BY <1>1, <1>2, <1>3, <1>4, <1>5, <1>6, <1>7, <1>8 DEF OtherStep

LEMMA OthersKeepHistory ==
  ASSUME HistoryInv, now' \in Nat, now' >= now, UNCHANGED history,
         UNCHANGED <<betRate, dailyLoss, weeklyLoss, lastLargeBet>>
  PROVE  /\ HistoryTypeOK' /\ RateBooked' /\ DailyBooked' /\ WeeklyBooked'
         /\ LargeBetsBooked' /\ LargeBetsSpaced'
<1>1. now \in Nat /\ LimitsTypeOK BY DEF HistoryInv, MarketInv, LimitInv
<1>2. ASSUME NEW u \in Accounts, NEW length
      PROVE  /\ BetsTally(u, length)' = BetsTally(u, length)
             /\ GrossTally(u, length)' = GrossTally(u, length)
  BY DEF BetsTally, GrossTally, BetsIn, GrossIn, OverHistory
<1>3. HistoryTypeOK'
  <2>1. ASSUME NEW i \in DOMAIN history PROVE history[i].time <= now'
    <3>1. history \in Seq(Bets) /\ history[i].time <= now BY DEF HistoryInv, HistoryTypeOK
    <3>2. history[i] \in Bets BY <3>1
    <3>3. history[i].time \in Nat BY <3>2 DEF Bets
    <3>4. QED BY <1>1, <3>1, <3>3
  <2>2. QED BY <2>1 DEF HistoryInv, HistoryTypeOK
<1>4. RateBooked'
  <2>1. ASSUME RateLimited, NEW u \in Accounts PROVE betRate[u].start <= now'
    <3>1. betRate[u].start <= now BY <2>1 DEF HistoryInv, RateBooked
    <3>2. betRate[u].start \in Int BY <1>1 DEF LimitsTypeOK, Windows
    <3>3. QED BY <1>1, <3>1, <3>2
  <2>2. QED BY <1>2, <2>1 DEF HistoryInv, RateBooked, RateLimited
<1>5. DailyBooked'
  <2>1. ASSUME DailyLossLimit > 0, DailyWindow > 0, NEW u \in Accounts
        PROVE  dailyLoss[u].start <= now'
    <3>1. dailyLoss[u].start <= now BY <2>1 DEF HistoryInv, DailyBooked
    <3>2. dailyLoss[u].start \in Int BY <1>1 DEF LimitsTypeOK, Windows
    <3>3. QED BY <1>1, <3>1, <3>2
  <2>2. QED BY <1>2, <2>1 DEF HistoryInv, DailyBooked
<1>6. WeeklyBooked'
  <2>1. ASSUME WeeklyLossLimit > 0, WeeklyWindow > 0, NEW u \in Accounts
        PROVE  weeklyLoss[u].start <= now'
    <3>1. weeklyLoss[u].start <= now BY <2>1 DEF HistoryInv, WeeklyBooked
    <3>2. weeklyLoss[u].start \in Int BY <1>1 DEF LimitsTypeOK, Windows
    <3>3. QED BY <1>1, <3>1, <3>2
  <2>2. QED BY <1>2, <2>1 DEF HistoryInv, WeeklyBooked
<1>7. LargeBetsBooked' /\ LargeBetsSpaced'
  BY DEF HistoryInv, LargeBetsBooked, LargeBetsSpaced, LargeBet
<1>8. QED BY <1>3, <1>4, <1>5, <1>6, <1>7

LEMMA HistoryInit == LimitsSpecInit => HistoryInv
<1> SUFFICES ASSUME LimitsSpecInit PROVE HistoryInv OBVIOUS
<1>1. Init /\ history = <<>> /\ MarketInv BY InitHolds DEF LimitsSpecInit
<1>2. now = 0 /\ LimitsInit BY <1>1 DEF Init
<1>3. HistoryTypeOK BY <1>1 DEF HistoryTypeOK
<1>4. LargeBetsBooked /\ LargeBetsSpaced BY <1>1 DEF LargeBetsBooked, LargeBetsSpaced
<1>5. ASSUME NEW u \in Accounts, NEW length \in Nat
      PROVE  /\ \A t \in Nat : BetsTally(u, length)[t] = 0
             /\ \A t \in Nat : GrossTally(u, length)[t] = 0
  BY <1>1, SumEmpty DEF BetsTally, GrossTally, BetsIn, GrossIn, OverHistory
<1>6. ASSUME NEW f, \A t \in Nat : f[t] = 0, NEW length \in Nat, NEW max \in Nat \ {0}
      PROVE  Bounded(f, NoWindow, length, max) /\ NoWindow.start <= now
  BY <1>2, <1>6 DEF Bounded, NoWindow, Never
<1>7. RateBooked
  <2>1. SUFFICES ASSUME RateLimited, NEW u \in Accounts
                 PROVE  /\ Bounded(BetsTally(u, RateWindow), betRate[u], RateWindow,
                                   MaxBetsPerWindow)
                        /\ betRate[u].start <= now
    BY DEF RateBooked
  <2>2. RateWindow \in Nat /\ MaxBetsPerWindow \in Nat \ {0}
    BY <2>1, LimitsAssumption DEF RateLimited
  <2>3. betRate[u] = NoWindow BY <1>2 DEF LimitsInit
  <2>4. QED BY <1>5, <1>6, <2>2, <2>3
<1>8. DailyBooked
  <2>1. SUFFICES ASSUME DailyLossLimit > 0, NEW u \in Accounts
                 PROVE  /\ Bounded(GrossTally(u, DailyWindow), dailyLoss[u], DailyWindow,
                                   DailyLossLimit)
                        /\ dailyLoss[u].start <= now
    BY DEF DailyBooked
  <2>2. DailyWindow \in Nat /\ DailyLossLimit \in Nat \ {0} BY <2>1, LimitsAssumption
  <2>3. dailyLoss[u] = NoWindow BY <1>2 DEF LimitsInit
  <2>4. QED BY <1>5, <1>6, <2>2, <2>3
<1>9. WeeklyBooked
  <2>1. SUFFICES ASSUME WeeklyLossLimit > 0, NEW u \in Accounts
                 PROVE  /\ Bounded(GrossTally(u, WeeklyWindow), weeklyLoss[u], WeeklyWindow,
                                   WeeklyLossLimit)
                        /\ weeklyLoss[u].start <= now
    BY DEF WeeklyBooked
  <2>2. WeeklyWindow \in Nat /\ WeeklyLossLimit \in Nat \ {0} BY <2>1, LimitsAssumption
  <2>3. weeklyLoss[u] = NoWindow BY <1>2 DEF LimitsInit
  <2>4. QED BY <1>5, <1>6, <2>2, <2>3
<1>10. QED BY <1>1, <1>3, <1>4, <1>7, <1>8, <1>9 DEF HistoryInv

LEMMA HistoryKeeps == HistoryInv /\ [LimitsNext]_limitsSpecVars => HistoryInv'
<1> SUFFICES ASSUME HistoryInv, [LimitsNext]_limitsSpecVars PROVE HistoryInv' OBVIOUS
<1>1. MarketInv /\ now \in Nat BY DEF HistoryInv, MarketInv
<1>2. CASE \E u \in Accounts, p \in Pools, o \in Outcomes, amount \in BetAmounts :
             RecordedBet(u, p, o, amount)
  <2>1. Next BY <1>2 DEF RecordedBet, Next, Bet
  <2>2. MarketInv' BY <1>1, <2>1, NextKeeps
  <2>3. /\ HistoryTypeOK' /\ RateBooked' /\ DailyBooked' /\ WeeklyBooked'
        /\ LargeBetsBooked' /\ LargeBetsSpaced'
    BY <1>2, HistoryGrows, RateRecorded, DailyRecorded, WeeklyRecorded, LargeBetRecorded
  <2>4. QED BY <2>2, <2>3 DEF HistoryInv
<1>3. CASE OtherStep /\ UNCHANGED history
  <2>1. MarketInv' BY <1>1, <1>3, NextKeeps DEF Next
  <2>2. QED BY <1>1, <1>3, <2>1, OthersKeepWindows, OthersKeepHistory DEF HistoryInv
<1>4. CASE UNCHANGED limitsSpecVars
  <2>1. UNCHANGED vars /\ UNCHANGED history BY <1>4 DEF limitsSpecVars
  <2>2. MarketInv' BY <1>1, <2>1, NextKeeps
  <2>3. now' = now /\ UNCHANGED <<betRate, dailyLoss, weeklyLoss, lastLargeBet>>
    BY <2>1 DEF vars, limitVars
  <2>4. QED BY <1>1, <2>1, <2>2, <2>3, OthersKeepHistory DEF HistoryInv
<1>5. QED BY <1>2, <1>3, <1>4 DEF LimitsNext

(* The windows promise what the property states.                           *)
LEMMA HistoryBounded == HistoryInv => LimitsOverAnyInterval
<1> SUFFICES ASSUME HistoryInv PROVE LimitsOverAnyInterval OBVIOUS
<1>1. MaxTime \in Nat BY MarketAssumption
<1>2. ASSUME NEW t \in 0 .. MaxTime PROVE t \in Nat BY <1>1
<1>3. HistoryTypeOK BY DEF HistoryInv
<1>4. RateOverAnyInterval
  <2>1. SUFFICES ASSUME RateLimited, NEW u \in Accounts, NEW t \in 0 .. MaxTime
                 PROVE  BetsIn(u, t, RateWindow) <= 2 * MaxBetsPerWindow - 1
    BY DEF RateOverAnyInterval
  <2>2. BetsTally(u, RateWindow)[t] <= 2 * MaxBetsPerWindow - 1
    BY <1>2, <2>1 DEF HistoryInv, RateBooked, Bounded
  <2>3. QED BY <1>2, <2>2 DEF BetsTally
<1>5. ASSUME NEW u \in Accounts, NEW t \in 0 .. MaxTime, DailyLossLimit > 0, DailyWindow > 0
      PROVE  GrossIn(u, t, DailyWindow) < 2 * DailyLossLimit
  <2>1. GrossTally(u, DailyWindow)[t] <= 2 * DailyLossLimit - 1
    BY <1>2, <1>5 DEF HistoryInv, DailyBooked, Bounded
  <2>2. GrossIn(u, t, DailyWindow) <= 2 * DailyLossLimit - 1 BY <1>2, <2>1 DEF GrossTally
  <2>3. DailyWindow \in Nat /\ DailyLossLimit \in Nat BY LimitsAssumption
  <2>4. GrossIn(u, t, DailyWindow) \in Nat BY <1>2, <1>3, <2>3, TalliesTyped
  <2>5. QED BY <2>2, <2>3, <2>4
<1>6. ASSUME NEW u \in Accounts, NEW t \in 0 .. MaxTime, WeeklyLossLimit > 0, WeeklyWindow > 0
      PROVE  GrossIn(u, t, WeeklyWindow) < 2 * WeeklyLossLimit
  <2>1. GrossTally(u, WeeklyWindow)[t] <= 2 * WeeklyLossLimit - 1
    BY <1>2, <1>6 DEF HistoryInv, WeeklyBooked, Bounded
  <2>2. GrossIn(u, t, WeeklyWindow) <= 2 * WeeklyLossLimit - 1 BY <1>2, <2>1 DEF GrossTally
  <2>3. WeeklyWindow \in Nat /\ WeeklyLossLimit \in Nat BY LimitsAssumption
  <2>4. GrossIn(u, t, WeeklyWindow) \in Nat BY <1>2, <1>3, <2>3, TalliesTyped
  <2>5. QED BY <2>2, <2>3, <2>4
<1>7. LossOverAnyInterval BY <1>5, <1>6 DEF LossOverAnyInterval
<1>8. QED BY <1>4, <1>7 DEF LimitsOverAnyInterval, HistoryInv

-----------------------------------------------------------------------------
(* Theorems.                                                               *)

(***************************************************************************)
(* Every stored window of place_bet stands for the history it has thrown   *)
(* away, whatever bets, cancellations, claims, refunds and administrative  *)
(* calls happen in between.                                                *)
(***************************************************************************)
THEOREM WindowsMatchHistory == LimitsSpec => []HistoryInv
<1>1. QED BY HistoryInit, HistoryKeeps, PTL DEF LimitsSpec

(***************************************************************************)
(* Over any interval as long as a window, not only the stored one, a       *)
(* wallet stays below twice the limit of set_rate_limit_config and of      *)
(* set_user_exposure_config, and its large bets in a pool keep the         *)
(* cool-down: for all limits and windows, any number of bets.              *)
(***************************************************************************)
THEOREM LimitsAlwaysHold == LimitsSpec => []LimitsOverAnyInterval
<1>1. HistoryInv => LimitsOverAnyInterval BY HistoryBounded
<1>2. QED BY <1>1, WindowsMatchHistory, PTL

-----------------------------------------------------------------------------
(***************************************************************************)
(* The batch calls and the scheduled claims.                               *)
(***************************************************************************)

(* The claims of a batch, one after the other.                             *)

(* The defining equation of the payout states of the first n claims.       *)
IsRun(a, batch, n) ==
  a = [k \in 0 .. n |-> IF k = 0 THEN Stored ELSE Pay(a[k - 1], batch[k])]

LEMMA RunExists ==
  ASSUME NEW batch, NEW n \in Nat
  PROVE  \E a : IsRun(a, batch, n)
<1> DEFINE P == {m \in Nat : \E a : IsRun(a, batch, m)}
<1>1. 0 \in P
  <2>1. IsRun([k \in 0 .. 0 |-> Stored], batch, 0) BY DEF IsRun
  <2>2. QED BY <2>1
<1>2. ASSUME NEW m \in Nat, m \in P PROVE m + 1 \in P
  <2>1. PICK a : IsRun(a, batch, m) BY <1>2
  <2> DEFINE t == [k \in 0 .. m + 1 |-> IF k = m + 1 THEN Pay(a[m], batch[m + 1]) ELSE a[k]]
  <2>2. \A k \in 0 .. m + 1 : t[k] = IF k = 0 THEN Stored ELSE Pay(t[k - 1], batch[k])
    <3>1. TAKE k \in 0 .. m + 1
    <3>2. CASE k = m + 1 BY <3>2
    <3>3. CASE k # m + 1
      <4>1. k \in 0 .. m /\ t[k] = a[k] BY <3>3
      <4>2. a[k] = IF k = 0 THEN Stored ELSE Pay(a[k - 1], batch[k]) BY <2>1, <4>1 DEF IsRun
      <4>3. k # 0 => t[k - 1] = a[k - 1] BY <4>1
      <4>4. QED BY <4>1, <4>2, <4>3
    <3>4. QED BY <3>2, <3>3
  <2>3. t = [k \in 0 .. m + 1 |-> t[k]] OBVIOUS
  <2> HIDE DEF t
  <2>4. IsRun(t, batch, m + 1) BY <2>2, <2>3 DEF IsRun
  <2>5. QED BY <2>4
<1> HIDE DEF P
<1>3. Nat \subseteq P BY <1>1, <1>2, SetInduction
<1>4. QED BY <1>3 DEF P

(* What the batch leaves is the last of these states.                      *)
LEMMA PayoutsRun ==
  ASSUME NEW batch, Len(batch) \in Nat
  PROVE  \E a : IsRun(a, batch, Len(batch)) /\ Payouts(batch) = a[Len(batch)]
<1> DEFINE n == Len(batch)
<1>1. PICK a : IsRun(a, batch, n) BY RunExists
<1> DEFINE c == CHOOSE r : r = [k \in 0 .. n |-> IF k = 0 THEN Stored ELSE Pay(r[k - 1], batch[k])]
<1>2. IsRun(c, batch, n) BY <1>1 DEF IsRun
<1>3. Payouts(batch) = c[n] BY DEF Payouts
<1>4. QED BY <1>2, <1>3

(***************************************************************************)
(* One claim, on the payout state y and the credit cr that the claims of   *)
(* the accounts gone have left of pool p.                                  *)
(***************************************************************************)
PaidNext(y, p, u) ==
  [feeCredited |-> TRUE, claimed |-> y.claimed + WinningStake(p, u),
   paidOut |-> y.paidOut + Winnings(p, u)]

Extra(y, p, u) ==
  (IF y.claimed + WinningStake(p, u) = WinningTotal(p)
   THEN NetPool(p) - (y.paidOut + Winnings(p, u)) ELSE 0)
    + (IF y.feeCredited THEN 0 ELSE Fee(p))

CreditNext(y, cr, p, u) == IF Extra(y, p, u) > 0 THEN cr + Extra(y, p, u) ELSE cr

LEMMA PayOne ==
  ASSUME NEW s, NEW p \in Pools, NEW c, c.pool = p,
         s.payout \in [Pools -> PayoutRecords], s.credited \in [Pools -> Nat]
  PROVE  /\ Pay(s, c).payout = [s.payout EXCEPT ![p] = PaidNext(s.payout[p], p, c.user)]
         /\ Pay(s, c).credited =
              [s.credited EXCEPT ![p] = CreditNext(s.payout[p], s.credited[p], p, c.user)]
BY DEF Pay, PaidNext, CreditNext, Extra

(* The live stakes on the winning side without those of gone.              *)
Left(p, gone) ==
  SumBelow([u \in Accounts |-> IF u \in gone THEN 0 ELSE stake[p][u][winner[p]]], NumAccounts)

(* A pool only pays, and from its first claim on something has left it.    *)
Grown(p, y, cr, gone) ==
  /\ y \in PayoutRecords /\ cr \in Nat
  /\ y.paidOut >= payout[p].paidOut /\ cr >= credited[p]
  /\ IF gone = {} THEN y = payout[p] /\ cr = credited[p]
     ELSE /\ y.feeCredited
          /\ \/ payout[p].feeCredited
             \/ (y.paidOut - payout[p].paidOut) + (cr - credited[p]) > 0

(* The shares of a regular pool, after the claims of gone.                 *)
SharedOut(p, y, cr, gone) ==
  LET w == WinningTotal(p)
      k == Claims(p) + Cardinality(gone)
  IN  /\ y.claimed + Left(p, gone) <= w
      /\ w * y.paidOut <= NetPool(p) * y.claimed
      /\ w > 0 => NetPool(p) * y.claimed <= w * y.paidOut + k * (w - 1)
      /\ y.feeCredited <=> y.claimed > 0
      /\ y.feeCredited => k > 0
      /\ IF w > 0 /\ y.claimed = w THEN cr + y.paidOut = PoolTotal(p)
         ELSE cr = IF y.feeCredited THEN Fee(p) ELSE 0

(* What is known of the payout state y and the credit cr of pool p when    *)
(* the batch has paid the accounts gone.                                   *)
Standing(p, y, cr, gone) ==
  Grown(p, y, cr, gone) /\ (Regular(p) => SharedOut(p, y, cr, gone))

(* Before the first claim.                                                 *)
LEMMA StandingStored ==
  ASSUME MarketInv, NEW p \in Pools, PoolInv(p)
  PROVE  Standing(p, payout[p], credited[p], {})
<1>1. payout[p] \in PayoutRecords /\ credited[p] \in Nat
  BY DEF MarketInv, MoneyInv, MoneyTypeOK
<1>2. Grown(p, payout[p], credited[p], {}) BY <1>1 DEF Grown, PayoutRecords
<1>3. ASSUME Regular(p) PROVE SharedOut(p, payout[p], credited[p], {})
  <2>1. Left(p, {}) = StakedOn(p, winner[p]) BY DEF Left, StakedOn
  <2>2. Cardinality({}) = 0 /\ Claims(p) \in Nat BY FS_EmptySet, ClaimsType
  <2>3. Claims(p) + Cardinality({}) = Claims(p) BY <2>2
  <2>4. Conserved(p) /\ ClaimsWithinSide(p) /\ FloorsOnly(p) /\ CreditedInTime(p)
    BY <1>3 DEF PoolInv, Shares
  <2>5. /\ payout[p].claimed + Left(p, {}) <= WinningTotal(p)
        /\ payout[p].feeCredited <=> payout[p].claimed > 0
        /\ payout[p].feeCredited => Claims(p) + Cardinality({}) > 0
    BY <2>1, <2>3, <2>4 DEF ClaimsWithinSide, CreditedInTime
  <2>6. /\ WinningTotal(p) * payout[p].paidOut <= NetPool(p) * payout[p].claimed
        /\ WinningTotal(p) > 0 =>
             NetPool(p) * payout[p].claimed
               <= WinningTotal(p) * payout[p].paidOut
                  + (Claims(p) + Cardinality({})) * (WinningTotal(p) - 1)
    BY <2>3, <2>4 DEF FloorsOnly
  <2>7. IF WinningTotal(p) > 0 /\ payout[p].claimed = WinningTotal(p)
        THEN credited[p] + payout[p].paidOut = PoolTotal(p)
        ELSE credited[p] = IF payout[p].feeCredited THEN Fee(p) ELSE 0
    <3>1. escrow[p] \in Int /\ payout[p].paidOut \in Int /\ PoolTotal(p) \in Nat BY PoolTypes
    <3>2. QED BY <1>1, <2>4, <3>1 DEF Conserved, CreditedInTime, FullyClaimed
  <2>8. QED BY <2>5, <2>6, <2>7 DEF SharedOut
<1>4. QED BY <1>2, <1>3 DEF Standing

(* One more claim takes its stake from what is left.                       *)
LEMMA LeftWithout ==
  ASSUME MarketInv, NEW p \in Pools, NEW gone, NEW u \in Accounts, u \notin gone,
         winner[p] \in Outcomes
  PROVE  /\ Left(p, gone) \in Nat /\ WinningStake(p, u) \in Nat
         /\ WinningStake(p, u) <= Left(p, gone)
         /\ Left(p, gone \cup {u}) = Left(p, gone) - WinningStake(p, u)
<1> DEFINE f == [v \in Accounts |-> IF v \in gone THEN 0 ELSE stake[p][v][winner[p]]]
           g == [v \in Accounts |-> IF v \in gone \cup {u} THEN 0 ELSE stake[p][v][winner[p]]]
           s == WinningStake(p, u)
<1>1. \A v \in Accounts : stake[p][v][winner[p]] \in Nat BY StakedTypes
<1>2. f \in [Accounts -> Nat] /\ g \in [Accounts -> Nat] BY <1>1
<1>3. s \in Nat /\ f[u] = s /\ g[u] = 0 BY <1>1 DEF WinningStake
<1>4. \A v \in Accounts : v # u => g[v] = f[v] OBVIOUS
<1>5. Left(p, gone) = SumBelow(f, NumAccounts) /\ Left(p, gone \cup {u}) = SumBelow(g, NumAccounts)
  BY DEF Left
<1> HIDE DEF f, g, s
<1>6. -s \in Int /\ g[u] = f[u] + (-s) BY <1>3
<1>7. /\ SumBelow(f, NumAccounts) \in Nat
      /\ SumBelow(g, NumAccounts) = SumBelow(f, NumAccounts) + (-s)
  BY <1>2, <1>4, <1>6, AccountSumMove
<1>8. f[u] <= SumBelow(f, NumAccounts) BY <1>2, Sizes, SumTerm DEF Accounts
<1>9. QED BY <1>3, <1>5, <1>7, <1>8 DEF s

(***************************************************************************)
(* One claim more leaves the shares of a regular pool in order.            *)
(***************************************************************************)
LEMMA SharedOutNext ==
  ASSUME MarketInv, NEW p \in Pools, PoolInv(p), NEW u \in Accounts, Claimable(u, p),
         NEW gone, IsFiniteSet(gone), u \notin gone,
         NEW y \in PayoutRecords, NEW cr \in Nat, SharedOut(p, y, cr, gone)
  PROVE  SharedOut(p, PaidNext(y, p, u), CreditNext(y, cr, p, u), gone \cup {u})
<1> DEFINE n == NetPool(p)
           w == WinningTotal(p)
           s == WinningStake(p, u)
           x == Winnings(p, u)
           c == y.claimed
           paid == y.paidOut
           k == Claims(p) + Cardinality(gone)
           live == Left(p, gone)
           fee == Fee(p)
           z == PaidNext(y, p, u)
           cz == CreditNext(y, cr, p, u)
<1>1. /\ w \in Nat \ {0} /\ s \in Nat \ {0} /\ x = (s * n) \div w /\ x \in Nat
      /\ winner[p] \in Outcomes
  BY ClaimAmounts
<1>2. /\ n \in Nat /\ n = PoolTotal(p) - fee /\ fee \in Nat /\ PoolTotal(p) \in Nat
      /\ c \in Nat /\ paid \in Int /\ y.feeCredited \in BOOLEAN
  BY FeeTypes, PoolTypes DEF PayoutRecords
<1>3. k \in Nat /\ Claims(p) + Cardinality(gone \cup {u}) = k + 1
  <2>1. Claims(p) \in Nat BY ClaimsType
  <2>2. Cardinality(gone) \in Nat BY FS_CardinalityType
  <2>3. Cardinality(gone \cup {u}) = Cardinality(gone) + 1 BY FS_AddElement
  <2>4. QED BY <2>1, <2>2, <2>3
<1>4. live \in Nat /\ s <= live /\ Left(p, gone \cup {u}) = live - s
  BY <1>1, LeftWithout
<1>5. /\ c + live <= w
      /\ w * paid <= n * c
      /\ n * c <= w * paid + k * (w - 1)
      /\ y.feeCredited <=> c > 0
      /\ c = w => cr + paid = PoolTotal(p)
      /\ c # w => cr = IF y.feeCredited THEN fee ELSE 0
  BY <1>1 DEF SharedOut
<1>6. z.feeCredited = TRUE /\ z.claimed = c + s /\ z.paidOut = paid + x BY DEF PaidNext
<1>7. cz = LET delta == (IF c + s = w THEN n - (paid + x) ELSE 0)
                          + (IF y.feeCredited THEN 0 ELSE fee)
           IN  IF delta > 0 THEN cr + delta ELSE cr
  BY DEF CreditNext, Extra
<1> HIDE DEF n, w, s, x, c, paid, k, live, fee, z, cz
<1>8. c + s <= w /\ c # w BY <1>1, <1>2, <1>4, <1>5
<1>9. /\ w * (paid + x) <= n * (c + s)
       /\ n * (c + s) <= w * (paid + x) + (k + 1) * (w - 1)
       /\ paid + x <= n
  BY <1>1, <1>2, <1>3, <1>5, <1>8, OneShare
<1>10. IF c + s = w THEN cz + (paid + x) = PoolTotal(p) ELSE cz = fee
  <2>1. cr = IF y.feeCredited THEN fee ELSE 0 BY <1>5, <1>8
  <2>2. CASE c + s = w
    <3>1. cz = cr + (n - (paid + x)) + (IF y.feeCredited THEN 0 ELSE fee)
      BY <1>1, <1>2, <1>7, <1>9, <2>1, <2>2
    <3>2. QED BY <1>1, <1>2, <2>1, <2>2, <3>1
  <2>3. CASE c + s # w BY <1>2, <1>7, <2>1, <2>3
  <2>4. QED BY <2>2, <2>3
<1>11. (c + s) + (live - s) <= w BY <1>1, <1>2, <1>4, <1>5
<1>12. c + s > 0 /\ k + 1 > 0 BY <1>1, <1>2, <1>3
<1>13. SharedOut(p, z, cz, gone \cup {u})
  <2>1. /\ z.claimed + Left(p, gone \cup {u}) <= w
        /\ z.feeCredited <=> z.claimed > 0
        /\ Claims(p) + Cardinality(gone \cup {u}) > 0
    BY <1>3, <1>4, <1>6, <1>11, <1>12
  <2>2. /\ w * z.paidOut <= n * z.claimed
        /\ n * z.claimed
             <= w * z.paidOut + (Claims(p) + Cardinality(gone \cup {u})) * (w - 1)
    BY <1>3, <1>6, <1>9
  <2>3. IF w > 0 /\ z.claimed = w THEN cz + z.paidOut = PoolTotal(p)
        ELSE cz = IF z.feeCredited THEN fee ELSE 0
    BY <1>1, <1>6, <1>10
  <2>4. QED BY <2>1, <2>2, <2>3 DEF SharedOut, w, n, fee
<1>14. QED BY <1>13 DEF z, cz

(***************************************************************************)
(* A claim only adds to what a pool has paid and credited, and something   *)
(* leaves the pool with the first.                                         *)
(***************************************************************************)
LEMMA GrownNext ==
  ASSUME MarketInv, NEW p \in Pools, PoolInv(p), NEW u \in Accounts, Claimable(u, p),
         NEW gone, NEW y, NEW cr, Grown(p, y, cr, gone)
  PROVE  Grown(p, PaidNext(y, p, u), CreditNext(y, cr, p, u), gone \cup {u})
<1> DEFINE x == Winnings(p, u)
           s == WinningStake(p, u)
           e == Extra(y, p, u)
           z == PaidNext(y, p, u)
           cz == CreditNext(y, cr, p, u)
<1>1. y \in PayoutRecords /\ cr \in Nat /\ y.paidOut >= payout[p].paidOut /\ cr >= credited[p]
  BY DEF Grown
<1>2. /\ y.claimed \in Nat /\ y.paidOut \in Int /\ y.feeCredited \in BOOLEAN
      /\ payout[p].paidOut \in Int /\ credited[p] \in Nat
  BY <1>1, PoolTypes DEF PayoutRecords
<1>3. x \in Nat /\ s \in Nat BY ClaimAmounts
<1>4. e \in Int
  <2>1. NetPool(p) \in Nat /\ Fee(p) \in Nat BY FeeTypes
  <2>2. QED BY <1>2, <1>3, <2>1 DEF Extra
<1>5. z \in PayoutRecords /\ z.paidOut = y.paidOut + x /\ z.feeCredited
  <2>1. y.claimed + s \in Nat /\ y.paidOut + x \in Int BY <1>2, <1>3
  <2>2. QED BY <2>1 DEF PaidNext, PayoutRecords
<1>6. cz \in Nat /\ cz >= cr /\ cz = IF e > 0 THEN cr + e ELSE cr BY <1>1, <1>4 DEF CreditNext
<1>7. CASE gone = {}
  <2>1. y = payout[p] /\ cr = credited[p] BY <1>7 DEF Grown
  <2>2. cz - cr = TreasuryDelta(p, u)
    <3>1. e = Dust(p, u) + (IF payout[p].feeCredited THEN 0 ELSE Fee(p))
      BY <2>1 DEF Extra, Dust
    <3>2. Dust(p, u) \in Int /\ Fee(p) \in Nat BY ClaimAmounts, FeeTypes
    <3> HIDE DEF e, cz
    <3>3. TreasuryDelta(p, u) = IF e > 0 THEN e ELSE 0 BY <3>1, <3>2 DEF TreasuryDelta
    <3>4. QED BY <1>1, <1>4, <1>6, <3>3
  <2>3. payout[p].feeCredited \/ x + (cz - cr) > 0
    <3>1. payout[p].feeCredited \/ x + TreasuryDelta(p, u) > 0 BY FirstClaimPays
    <3>2. QED BY <2>2, <3>1
  <2> HIDE DEF x, e, z, cz
  <2>4. payout[p].feeCredited \/ (z.paidOut - payout[p].paidOut) + (cz - credited[p]) > 0
    BY <1>1, <1>2, <1>3, <1>5, <1>6, <2>1, <2>3
  <2>5. Grown(p, z, cz, gone \cup {u}) BY <1>1, <1>2, <1>3, <1>5, <1>6, <2>4 DEF Grown
  <2>6. QED BY <2>5 DEF z, cz
<1>8. CASE gone # {}
  <2>1. \/ payout[p].feeCredited
        \/ (y.paidOut - payout[p].paidOut) + (cr - credited[p]) > 0
    BY <1>8 DEF Grown
  <2> HIDE DEF x, e, z, cz
  <2>2. payout[p].feeCredited \/ (z.paidOut - payout[p].paidOut) + (cz - credited[p]) > 0
    BY <1>1, <1>2, <1>3, <1>5, <1>6, <2>1
  <2>3. Grown(p, z, cz, gone \cup {u}) BY <1>1, <1>2, <1>3, <1>5, <1>6, <2>2 DEF Grown
  <2>4. QED BY <2>3 DEF z, cz
<1>9. QED BY <1>7, <1>8

LEMMA StandingNext ==
  ASSUME MarketInv, NEW p \in Pools, PoolInv(p), NEW u \in Accounts, Claimable(u, p),
         NEW gone, IsFiniteSet(gone), u \notin gone, NEW y, NEW cr, Standing(p, y, cr, gone)
  PROVE  Standing(p, PaidNext(y, p, u), CreditNext(y, cr, p, u), gone \cup {u})
<1>1. Grown(p, y, cr, gone) /\ y \in PayoutRecords /\ cr \in Nat BY DEF Standing, Grown
<1>2. Grown(p, PaidNext(y, p, u), CreditNext(y, cr, p, u), gone \cup {u}) BY <1>1, GrownNext
<1>3. ASSUME Regular(p)
      PROVE  SharedOut(p, PaidNext(y, p, u), CreditNext(y, cr, p, u), gone \cup {u})
  <2>1. SharedOut(p, y, cr, gone) BY <1>3 DEF Standing
  <2>2. QED BY <1>1, <2>1, SharedOutNext
<1>4. QED BY <1>2, <1>3 DEF Standing

(* Claims that can all be paid, of different bets.                         *)
Payable(batch) ==
  /\ Len(batch) \in Nat /\ DOMAIN batch = 1 .. Len(batch)
  /\ \A i \in DOMAIN batch : /\ batch[i].pool \in Pools /\ batch[i].user \in Accounts
                             /\ Claimable(batch[i].user, batch[i].pool)
  /\ \A i, j \in DOMAIN batch :
       batch[i].pool = batch[j].pool /\ batch[i].user = batch[j].user => i = j

(* Those whose claims on p are among the first k.                          *)
Gone(batch, k, p) ==
  {u \in Accounts : \E i \in 1 .. k : batch[i].pool = p /\ batch[i].user = u}

LEMMA BatchStands ==
  ASSUME MarketInv, \A p \in Pools : PoolInv(p), NEW batch, Payable(batch)
  PROVE  /\ Payouts(batch).payout \in [Pools -> PayoutRecords]
         /\ Payouts(batch).credited \in [Pools -> Nat]
         /\ \A p \in Pools : Standing(p, Payouts(batch).payout[p], Payouts(batch).credited[p],
                                      Claiming(batch, p))
<1> DEFINE n == Len(batch)
           Good(s, k) == /\ s.payout \in [Pools -> PayoutRecords]
                         /\ s.credited \in [Pools -> Nat]
                         /\ \A p \in Pools : Standing(p, s.payout[p], s.credited[p],
                                                      Gone(batch, k, p))
<1>1. n \in Nat /\ DOMAIN batch = 1 .. n BY DEF Payable
<1>2. PICK a : IsRun(a, batch, n) /\ Payouts(batch) = a[n] BY <1>1, PayoutsRun
<1>3. \A k \in 0 .. n : a[k] = IF k = 0 THEN Stored ELSE Pay(a[k - 1], batch[k])
  BY <1>2 DEF IsRun
<1> HIDE DEF n
<1>4. Good(a[0], 0)
  <2>1. a[0] = Stored BY <1>1, <1>3
  <2>2. a[0].payout = payout /\ a[0].credited = credited BY <2>1 DEF Stored
  <2>3. payout \in [Pools -> PayoutRecords] /\ credited \in [Pools -> Nat]
    BY DEF MarketInv, MoneyInv, MoneyTypeOK
  <2>4. \A p \in Pools : Gone(batch, 0, p) = {} BY DEF Gone
  <2>5. QED BY <2>2, <2>3, <2>4, StandingStored
<1>5. ASSUME NEW m \in Nat, m + 1 \in 1 .. n, Good(a[m], m) PROVE Good(a[m + 1], m + 1)
  <2> DEFINE s == a[m]
             t == a[m + 1]
             q == batch[m + 1].pool
             u == batch[m + 1].user
  <2>1. m + 1 \in 0 .. n /\ m + 1 # 0 /\ (m + 1) - 1 = m BY <1>1, <1>5
  <2>2. t = Pay(s, batch[m + 1]) BY <1>3, <2>1
  <2>3. q \in Pools /\ u \in Accounts /\ Claimable(u, q)
    BY <1>1, <1>5 DEF Payable
  <2>4. s.payout \in [Pools -> PayoutRecords] /\ s.credited \in [Pools -> Nat] BY <1>5
  <2>5. /\ t.payout = [s.payout EXCEPT ![q] = PaidNext(s.payout[q], q, u)]
        /\ t.credited = [s.credited EXCEPT ![q] = CreditNext(s.payout[q], s.credited[q], q, u)]
    BY <2>2, <2>3, <2>4, PayOne
  <2>6. u \notin Gone(batch, m, q)
    <3>1. SUFFICES ASSUME NEW i \in 1 .. m, batch[i].pool = q, batch[i].user = u PROVE FALSE
      BY DEF Gone
    <3>2. i \in 1 .. n /\ i # m + 1 BY <1>1, <1>5
    <3>3. QED BY <1>1, <1>5, <3>1, <3>2 DEF Payable
  <2>7. \A p \in Pools : IsFiniteSet(Gone(batch, m, p))
    <3>1. \A p \in Pools : Gone(batch, m, p) \subseteq Accounts BY DEF Gone
    <3>2. IsFiniteSet(Accounts) BY Sizes, FS_Interval DEF Accounts
    <3>3. QED BY <3>1, <3>2, FS_Subset
  <2>8. Gone(batch, m + 1, q) = Gone(batch, m, q) \cup {u}
    <3>1. \A i : i \in 1 .. m + 1 <=> i \in 1 .. m \/ i = m + 1 OBVIOUS
    <3>2. QED BY <2>3, <3>1 DEF Gone
  <2>9. \A p \in Pools : p # q => Gone(batch, m + 1, p) = Gone(batch, m, p)
    <3>1. \A i : i \in 1 .. m + 1 <=> i \in 1 .. m \/ i = m + 1 OBVIOUS
    <3>2. QED BY <3>1 DEF Gone
  <2>10. Standing(q, t.payout[q], t.credited[q], Gone(batch, m + 1, q))
    <3>1. Standing(q, s.payout[q], s.credited[q], Gone(batch, m, q)) BY <1>5, <2>3
    <3>2. /\ t.payout[q] = PaidNext(s.payout[q], q, u)
          /\ t.credited[q] = CreditNext(s.payout[q], s.credited[q], q, u)
      BY <2>3, <2>4, <2>5
    <3> HIDE DEF s, t, q, u
    <3>3. QED BY <2>3, <2>6, <2>7, <2>8, <3>1, <3>2, StandingNext
  <2>11. \A p \in Pools : Standing(p, t.payout[p], t.credited[p], Gone(batch, m + 1, p))
    <3>1. \A p \in Pools : p # q => t.payout[p] = s.payout[p] /\ t.credited[p] = s.credited[p]
      BY <2>4, <2>5
    <3> HIDE DEF s, t, q, u
    <3>2. QED BY <1>5, <2>9, <2>10, <3>1 DEF s
  <2>12. t.payout[q] \in PayoutRecords /\ t.credited[q] \in Nat
    BY <2>3, <2>10 DEF Standing, Grown
  <2>13. t.payout \in [Pools -> PayoutRecords] /\ t.credited \in [Pools -> Nat]
    BY <2>3, <2>4, <2>5, <2>12
  <2>14. QED BY <2>11, <2>13
<1> DEFINE P == {m \in Nat : m <= n => Good(a[m], m)}
<1> HIDE DEF Good
<1>6. 0 \in P BY <1>4
<1>7. ASSUME NEW m \in Nat, m \in P PROVE m + 1 \in P
  <2>1. CASE m + 1 <= n
    <3>1. Good(a[m], m) /\ m + 1 \in 1 .. n BY <1>1, <1>7, <2>1
    <3>2. Good(a[m + 1], m + 1) BY <1>5, <3>1
    <3>3. QED BY <3>2
  <2>2. CASE ~(m + 1 <= n) BY <2>2
  <2>3. QED BY <2>1, <2>2
<1> HIDE DEF P
<1>8. Nat \subseteq P BY <1>6, <1>7, SetInduction
<1>9. Good(a[n], n) BY <1>1, <1>8 DEF P
<1>10. \A p \in Pools : Gone(batch, n, p) = Claiming(batch, p) BY <1>1 DEF Gone, Claiming
<1>11. QED BY <1>2, <1>9, <1>10 DEF Good

-----------------------------------------------------------------------------
(* What a batch changes.                                                   *)

PaidOn(p) == payout'[p].paidOut - payout[p].paidOut
CreditOn(p) == credited'[p] - credited[p]

LEMMA BatchEffect ==
  ASSUME MarketInv, PayoutInv, NEW batch, Payable(batch), PayBatch(batch)
  PROVE  /\ payout' \in [Pools -> PayoutRecords] /\ credited' \in [Pools -> Nat]
         /\ \A p \in Pools : Standing(p, payout'[p], credited'[p], Claiming(batch, p))
         /\ OverPools(PaidOn) <= balance
         /\ treasury' = treasury + OverPools(CreditOn)
         /\ balance' = balance - OverPools(PaidOn)
         /\ escrow' = [p \in Pools |-> escrow[p] - PaidOn(p) - CreditOn(p)]
<1>1. \A p \in Pools : PoolInv(p) BY DEF PayoutInv
<1> DEFINE s == Payouts(batch)
<1>2. payout' = s.payout /\ credited' = s.credited BY DEF PayBatch
<1>3. /\ OverPools(PaidOn) <= balance
      /\ treasury' = treasury + OverPools(CreditOn)
      /\ balance' = balance - OverPools(PaidOn)
      /\ escrow' = [p \in Pools |-> escrow[p] - PaidOn(p) - CreditOn(p)]
  BY DEF PayBatch, OverPools, PaidOn, CreditOn
<1>4. QED BY <1>1, <1>2, <1>3, BatchStands

(* What leaves the pools leaves the balance or stays as treasury.          *)
LEMMA BatchBalance ==
  ASSUME MoneyTypeOK, \A p \in Pools : PaidOn(p) \in Nat /\ CreditOn(p) \in Nat,
         OverPools(PaidOn) <= balance,
         treasury' = treasury + OverPools(CreditOn),
         balance' = balance - OverPools(PaidOn),
         escrow' = [p \in Pools |-> escrow[p] - PaidOn(p) - CreditOn(p)]
  PROVE  /\ treasury' \in Nat /\ balance' \in Nat /\ escrow' \in [Pools -> Int]
         /\ BalanceDivided => BalanceDivided'
<1> DEFINE f == [i \in 0 .. NumPools - 1 |-> PaidOn(i + 1)]
           g == [i \in 0 .. NumPools - 1 |-> CreditOn(i + 1)]
           e == [i \in 0 .. NumPools - 1 |-> escrow[i + 1]]
           d == [i \in 0 .. NumPools - 1 |-> e[i] + f[i] * (-1)]
           h == [i \in 0 .. NumPools - 1 |-> escrow'[i + 1]]
<1>1. NumPools \in Nat BY Sizes
<1>2. escrow \in [Pools -> Int] /\ treasury \in Nat /\ balance \in Nat BY DEF MoneyTypeOK
<1>3. \A i \in 0 .. NumPools - 1 : i + 1 \in Pools BY <1>1 DEF Pools
<1>4. \A i \in 0 .. NumPools - 1 :
        /\ f[i] \in Nat /\ g[i] \in Nat /\ e[i] \in Int
        /\ h[i] = e[i] - f[i] - g[i]
  BY <1>2, <1>3
<1>5. OverPools(PaidOn) = SumBelow(f, NumPools) /\ OverPools(CreditOn) = SumBelow(g, NumPools)
  BY DEF OverPools
<1>6. EscrowTotal = SumBelow(e, NumPools) /\ EscrowTotal' = SumBelow(h, NumPools)
  BY DEF EscrowTotal
<1>7. \A i \in 0 .. NumPools - 1 : d[i] = e[i] + f[i] * (-1) OBVIOUS
<1> HIDE DEF f, g, e, d, h
<1>8. SumBelow(f, NumPools) \in Nat /\ SumBelow(g, NumPools) \in Nat
  BY <1>1, <1>4, SumNat
<1>9. SumBelow(e, NumPools) \in Int BY <1>1, <1>4, SumInt
<1>10. SumBelow(d, NumPools) = SumBelow(e, NumPools) + SumBelow(f, NumPools) * (-1)
  <2>1. \A i \in 0 .. NumPools - 1 : e[i] \in Int /\ f[i] \in Int /\ d[i] = e[i] + f[i] * (-1)
    BY <1>4, <1>7
  <2>2. -1 \in Int OBVIOUS
  <2>3. QED BY <1>1, <2>1, <2>2, SumScaled
<1>11. SumBelow(h, NumPools) = SumBelow(d, NumPools) + SumBelow(g, NumPools) * (-1)
  <2>1. \A i \in 0 .. NumPools - 1 : d[i] \in Int /\ g[i] \in Int /\ h[i] = d[i] + g[i] * (-1)
    BY <1>4, <1>7
  <2>2. -1 \in Int OBVIOUS
  <2>3. QED BY <1>1, <2>1, <2>2, SumScaled
<1>12. treasury' \in Nat /\ balance' \in Nat BY <1>2, <1>5, <1>8
<1>13. escrow' \in [Pools -> Int]
  <2>1. \A p \in Pools : escrow[p] - PaidOn(p) - CreditOn(p) \in Int BY <1>2
  <2>2. QED BY <2>1
<1>14. BalanceDivided => BalanceDivided'
  BY <1>2, <1>5, <1>6, <1>8, <1>9, <1>10, <1>11 DEF BalanceDivided
<1>15. QED BY <1>12, <1>13, <1>14

(* Exactly the bets that were paid are deleted.                            *)
LEMMA BatchDeletes ==
  ASSUME NEW batch, PayBatch(batch)
  PROVE  /\ BetsDeleted([p \in Pools |-> Claiming(batch, p)])
         /\ exposure' = [p \in Pools |-> [u \in Accounts |->
                           IF u \in Claiming(batch, p)
                           THEN Reduced(exposure[p][u], WinningStake(p, u)) ELSE exposure[p][u]]]
         /\ UNCHANGED <<now, configVars, lifeVars, totals, sides, volume, bettors,
                        participants, withdrawn, betRate, dailyLoss, weeklyLoss, lastLargeBet>>
<1> DEFINE who == [p \in Pools |-> Claiming(batch, p)]
<1>1. /\ stake' = [q \in Pools |-> [u \in Accounts |->
                     IF u \in who[q] THEN [o \in Outcomes |-> 0] ELSE stake[q][u]]]
      /\ totalBet' = [q \in Pools |-> [u \in Accounts |->
                        IF u \in who[q] THEN 0 ELSE totalBet[q][u]]]
      /\ hasBet' = [q \in Pools |-> hasBet[q] \ who[q]]
  BY DEF PayBatch
<1>2. /\ exposure' = [p \in Pools |-> [u \in Accounts |->
                        IF u \in Claiming(batch, p)
                        THEN Reduced(exposure[p][u], WinningStake(p, u)) ELSE exposure[p][u]]]
      /\ UNCHANGED <<now, configVars, lifeVars, totals, sides, volume, bettors,
                     participants, withdrawn, betRate, dailyLoss, weeklyLoss, lastLargeBet>>
  BY DEF PayBatch
<1> HIDE DEF who
<1>3. BetsDeleted(who) BY <1>1, <1>2 DEF BetsDeleted, StakesDeleted
<1>4. QED BY <1>2, <1>3 DEF who

LEMMA BatchKeeps ==
  ASSUME MarketInv, PayoutInv, NEW batch, Payable(batch), PayBatch(batch)
  PROVE  MarketInv' /\ (BalanceDivided => BalanceDivided')
<1> DEFINE who == [p \in Pools |-> Claiming(batch, p)]
<1>1. now \in Nat /\ ConfigTypeOK /\ LifeInv /\ BookInv /\ MoneyInv /\ LimitInv
  BY DEF MarketInv
<1>2. BookTypeOK /\ MoneyTypeOK /\ UnclaimedPoolFunded /\ LimitsTypeOK /\ ExposureCoversStake
  BY <1>1 DEF BookInv, MoneyInv, LimitInv
<1>3. /\ payout' \in [Pools -> PayoutRecords] /\ credited' \in [Pools -> Nat]
      /\ \A p \in Pools : Grown(p, payout'[p], credited'[p], who[p])
      /\ escrow' = [p \in Pools |-> escrow[p] - PaidOn(p) - CreditOn(p)]
  BY BatchEffect DEF Standing
<1>4. \A p \in Pools : PaidOn(p) \in Nat /\ CreditOn(p) \in Nat
  BY <1>2, <1>3 DEF Grown, MoneyTypeOK, PayoutRecords, PaidOn, CreditOn
<1>5. /\ treasury' \in Nat /\ balance' \in Nat /\ escrow' \in [Pools -> Int]
      /\ BalanceDivided => BalanceDivided'
  BY <1>2, <1>4, BatchEffect, BatchBalance
<1>6. /\ BetsDeleted(who)
      /\ exposure' = [p \in Pools |-> [u \in Accounts |->
                        IF u \in who[p]
                        THEN Reduced(exposure[p][u], WinningStake(p, u)) ELSE exposure[p][u]]]
      /\ UNCHANGED <<now, configVars, lifeVars, withdrawn,
                     betRate, dailyLoss, weeklyLoss, lastLargeBet>>
  BY BatchDeletes
<1> HIDE DEF who
<1>7. BookInv' BY <1>1, <1>6, DeletedBooks
<1>8. \A p \in Pools, u \in Accounts :
        totalBet'[p][u] = IF u \in who[p] THEN 0 ELSE totalBet[p][u]
  BY <1>6 DEF BetsDeleted, StakesDeleted
<1>9. MoneyTypeOK' BY <1>2, <1>3, <1>5, <1>6 DEF MoneyTypeOK
<1>10. UnclaimedPoolFunded'
  <2>1. SUFFICES ASSUME NEW p \in Pools, ~payout'[p].feeCredited
                 PROVE  escrow'[p] = SumBelow(totalBet'[p], NumAccounts)
    BY DEF UnclaimedPoolFunded, Refundable
  <2>2. who[p] = {} /\ payout'[p] = payout[p] /\ credited'[p] = credited[p]
    BY <1>3, <2>1 DEF Grown
  <2>3. escrow'[p] = escrow[p]
    BY <1>2, <1>3, <2>2 DEF PaidOn, CreditOn, MoneyTypeOK, PayoutRecords
  <2>4. totalBet'[p] = totalBet[p]
    <3>1. totalBet'[p] = [u \in Accounts |-> IF u \in who[p] THEN 0 ELSE totalBet[p][u]]
      BY <1>6 DEF BetsDeleted, StakesDeleted
    <3>2. totalBet[p] \in [Accounts -> Nat] BY <1>2 DEF BookTypeOK
    <3>3. QED BY <2>2, <3>1, <3>2
  <2>5. QED BY <1>2, <2>1, <2>2, <2>3, <2>4 DEF UnclaimedPoolFunded, Refundable
<1>11. LimitInv'
  <2>1. exposure \in [Pools -> [Accounts -> Nat]] BY <1>2 DEF LimitsTypeOK
  <2>2. \A p \in Pools, u \in Accounts : u \in who[p] => WinningStake(p, u) \in Nat
    <3>1. SUFFICES ASSUME NEW p \in Pools, NEW u \in Accounts, u \in who[p]
                   PROVE  WinningStake(p, u) \in Nat
      OBVIOUS
    <3>2. Claimable(u, p) BY <3>1 DEF who, Claiming, Payable
    <3>3. QED BY <3>2, ClaimType
  <2>3. \A p \in Pools, u \in Accounts :
          /\ exposure'[p][u] \in Nat
          /\ u \notin who[p] => exposure'[p][u] = exposure[p][u]
    BY <1>6, <2>1, <2>2 DEF Reduced
  <2>4. exposure' \in [Pools -> [Accounts -> Nat]] BY <1>6, <2>3
  <2>5. ExposureCoversStake' BY <1>2, <1>8, <2>3 DEF ExposureCoversStake
  <2>6. QED BY <1>2, <1>6, <2>4, <2>5 DEF LimitInv, LimitsTypeOK
<1>12. now' \in Nat /\ ConfigTypeOK' /\ LifeInv' BY <1>1, <1>6, ConfigKept, LifeKept
<1>13. QED BY <1>5, <1>7, <1>9, <1>10, <1>11, <1>12 DEF MarketInv, MoneyInv

(***************************************************************************)
(* What the invariant says of one pool survives a batch, whether none, one *)
(* or several of its claims are on that pool.                              *)
(***************************************************************************)
LEMMA BatchKeepsPool ==
  ASSUME MarketInv, PayoutInv, NEW batch, Payable(batch), PayBatch(batch), NEW p \in Pools
  PROVE  PoolInv(p)'
<1> DEFINE gone == Claiming(batch, p)
           y == payout'[p]
           cr == credited'[p]
<1>1. PoolInv(p) /\ Grown(p, y, cr, gone) /\ (Regular(p) => SharedOut(p, y, cr, gone))
  BY BatchEffect DEF PayoutInv, Standing
<1>2. y.claimed \in Nat /\ y.paidOut \in Int /\ y.feeCredited \in BOOLEAN /\ cr \in Nat
  BY <1>1 DEF Grown, PayoutRecords
<1>3. /\ PoolTotal(p) \in Nat /\ escrow[p] \in Int /\ credited[p] \in Nat
      /\ payout[p].paidOut \in Int /\ now \in Nat
  BY PoolTypes
<1>4. /\ BetsDeleted([q \in Pools |-> Claiming(batch, q)])
      /\ UNCHANGED <<now, configVars, lifeVars, totals, bettors>>
  BY BatchDeletes
<1>5. UNCHANGED <<pool, status, winner, lockedFee, fresh, protocolFee>>
  BY <1>4 DEF lifeVars, configVars
<1>6. escrow'[p] = escrow[p] - (y.paidOut - payout[p].paidOut) - (cr - credited[p])
  BY BatchEffect DEF PaidOn, CreditOn
<1>7. /\ PoolTotal(p)' = PoolTotal(p) /\ Fee(p)' = Fee(p) /\ NetPool(p)' = NetPool(p)
      /\ WinningTotal(p)' = WinningTotal(p)
  BY <1>4, <1>5 DEF PoolTotal, Fee, NetPool, WinningTotal, EffectiveFee
<1>8. gone # {} => Claimable(CHOOSE u \in gone : TRUE, p)
  <2>1. \A u \in gone : Claimable(u, p) BY DEF Claiming, Payable
  <2>2. QED BY <2>1
<1>9. /\ escrow'[p] <= PoolTotal(p)
      /\ y.feeCredited => escrow'[p] < PoolTotal(p)
      /\ ~y.feeCredited => y = NoPayout /\ cr = 0
  <2>1. /\ escrow[p] <= PoolTotal(p)
        /\ payout[p].feeCredited => escrow[p] < PoolTotal(p)
        /\ ~payout[p].feeCredited => payout[p] = NoPayout /\ credited[p] = 0
    BY <1>1 DEF PoolInv
  <2>2. y.paidOut >= payout[p].paidOut /\ cr >= credited[p] BY <1>1 DEF Grown
  <2>3. CASE gone = {}
    <3>1. y = payout[p] /\ cr = credited[p] BY <1>1, <2>3 DEF Grown
    <3>2. escrow'[p] = escrow[p] BY <1>3, <1>6, <3>1
    <3>3. QED BY <2>1, <3>1, <3>2
  <2>4. CASE gone # {}
    <3>1. /\ y.feeCredited
          /\ \/ payout[p].feeCredited
             \/ (y.paidOut - payout[p].paidOut) + (cr - credited[p]) > 0
      BY <1>1, <2>4 DEF Grown
    <3> HIDE DEF gone, y, cr
    <3>2. QED BY <1>2, <1>3, <1>6, <2>1, <2>2, <3>1
  <2>5. QED BY <2>3, <2>4
<1>10. y.feeCredited => Exists(p)' /\ now' >= pool'[p].expiry
  <2>1. CASE gone = {}
    <3>1. y = payout[p] BY <1>1, <2>1 DEF Grown
    <3>2. QED BY <1>1, <1>4, <1>5, <3>1 DEF PoolInv, Exists
  <2>2. CASE gone # {}
    <3>1. status[p] = "Settled" BY <1>8, <2>2 DEF Claimable
    <3>2. QED BY <1>1, <1>4, <1>5, <3>1 DEF PoolInv, Exists
  <2>3. QED BY <2>1, <2>2
<1>11. ASSUME Regular(p)' PROVE Shares(p)'
  <2> DEFINE k == Claims(p) + Cardinality(gone)
             w == WinningTotal(p)
  <2>1. Regular(p) BY <1>5, <1>11 DEF Regular, FeeFixed
  <2>2. SharedOut(p, y, cr, gone) /\ Conserved(p) BY <1>1, <2>1 DEF PoolInv, Shares
  <2>3. Claims(p)' = k
    <3>1. gone \subseteq bettors[p] /\ gone \subseteq hasBet[p]
      <4>1. SUFFICES ASSUME NEW u \in gone PROVE u \in bettors[p] /\ u \in hasBet[p] OBVIOUS
      <4>2. u \in Accounts /\ Claimable(u, p) BY <4>1 DEF Claiming, Payable
      <4>3. /\ WinningStake(p, u) \in Nat \ {0} /\ WinningStake(p, u) <= totalBet[p][u]
            /\ totalBet[p][u] \in Nat
        BY <1>1, <4>2, ClaimAmounts, ClaimType DEF MarketInv, BookInv, BookTypeOK
      <4>4. totalBet[p][u] > 0 BY <4>3
      <4>5. QED BY <4>2, <4>4 DEF MarketInv, BookInv, RefundListComplete, Claimable
    <3>2. hasBet'[p] = hasBet[p] \ gone BY <1>4 DEF BetsDeleted
    <3>3. bettors'[p] \ hasBet'[p] = (bettors[p] \ hasBet[p]) \cup gone BY <1>4, <3>1, <3>2
    <3>4. (bettors[p] \ hasBet[p]) \cap gone = {} BY <3>1
    <3>5. IsFiniteSet(bettors[p] \ hasBet[p]) BY ClaimsType
    <3>6. IsFiniteSet(gone)
      <4>1. gone \subseteq Accounts BY DEF Claiming
      <4>2. IsFiniteSet(Accounts) BY Sizes, FS_Interval DEF Accounts
      <4>3. QED BY <4>1, <4>2, FS_Subset
    <3>7. Cardinality((bettors[p] \ hasBet[p]) \cup gone)
            = Cardinality(bettors[p] \ hasBet[p]) + Cardinality(gone) - Cardinality({})
      BY <3>4, <3>5, <3>6, FS_Union
    <3>8. /\ Cardinality({}) = 0 /\ Cardinality(gone) \in Nat
          /\ Cardinality(bettors[p] \ hasBet[p]) \in Nat
      BY <3>5, <3>6, FS_EmptySet, FS_CardinalityType
    <3>9. Claims(p)' = Cardinality((bettors[p] \ hasBet[p]) \cup gone) BY <3>3 DEF Claims
    <3> HIDE DEF gone
    <3>10. QED BY <3>7, <3>8, <3>9 DEF Claims
  <2>4. StakedOn(p, winner[p])' = Left(p, gone)
    <3>1. winner[p] \in Outcomes BY <2>1 DEF MarketInv, LifeInv, WinnerDeclared, Regular
    <3>2. \A u \in Accounts :
            stake'[p][u] = IF u \in gone THEN [o \in Outcomes |-> 0] ELSE stake[p][u]
      BY <1>4 DEF BetsDeleted, StakesDeleted
    <3>3. \A u \in Accounts :
            stake'[p][u][winner[p]] = IF u \in gone THEN 0 ELSE stake[p][u][winner[p]]
      BY <3>1, <3>2
    <3> HIDE DEF gone
    <3>4. [u \in Accounts |-> stake'[p][u][winner[p]]]
            = [u \in Accounts |-> IF u \in gone THEN 0 ELSE stake[p][u][winner[p]]]
      BY <3>3
    <3>5. QED BY <1>5, <3>4 DEF StakedOn, Left
  <2> HIDE DEF gone, y, cr, k, w
  <2>5. /\ y.claimed + Left(p, gone) <= w
        /\ w * y.paidOut <= NetPool(p) * y.claimed
        /\ w > 0 => NetPool(p) * y.claimed <= w * y.paidOut + k * (w - 1)
        /\ y.feeCredited <=> y.claimed > 0
        /\ y.feeCredited => k > 0
        /\ IF w > 0 /\ y.claimed = w THEN cr + y.paidOut = PoolTotal(p)
           ELSE cr = IF y.feeCredited THEN Fee(p) ELSE 0
    BY <2>2 DEF SharedOut, k, w
  <2>6. escrow'[p] + cr + y.paidOut = PoolTotal(p)
    BY <1>2, <1>3, <1>6, <2>2 DEF Conserved
  <2>7. Conserved(p)' BY <1>7, <2>6 DEF Conserved, y, cr
  <2>8. ClaimsWithinSide(p)' BY <1>7, <2>4, <2>5 DEF ClaimsWithinSide, y, w
  <2>9. FloorsOnly(p)' BY <1>7, <2>3, <2>5 DEF FloorsOnly, y, w
  <2>10. w > 0 /\ y.claimed = w => escrow'[p] = 0
    <3>1. escrow'[p] \in Int BY <1>2, <1>3, <1>6
    <3>2. w > 0 /\ y.claimed = w => cr + y.paidOut = PoolTotal(p) BY <2>5
    <3>3. QED BY <1>2, <1>3, <2>6, <3>1, <3>2
  <2>11. CreditedInTime(p)'
    BY <1>7, <2>3, <2>5, <2>10 DEF CreditedInTime, FullyClaimed, y, w, cr
  <2>12. QED BY <2>7, <2>8, <2>9, <2>11 DEF Shares
<1>12. lockedFee'[p] \in 0 .. BpsDenom \cup {NoFee} BY <1>1, <1>5 DEF PoolInv
<1>13. status'[p] = "Settled" => now' >= pool'[p].expiry BY <1>1, <1>4, <1>5 DEF PoolInv
<1>14. QED BY <1>7, <1>9, <1>10, <1>11, <1>12, <1>13 DEF PoolInv

(* A batch that pays keeps all that is known of the money.                 *)
LEMMA BatchPays ==
  ASSUME MoneyState, NEW batch, Payable(batch), PayBatch(batch)
  PROVE  MoneyState'
<1>1. MarketInv /\ PayoutInv /\ BalanceDivided BY DEF MoneyState
<1>2. MarketInv' /\ BalanceDivided' BY <1>1, BatchKeeps
<1>3. \A p \in Pools : PoolInv(p)' BY <1>1, BatchKeepsPool
<1>4. UNCHANGED <<status, protocolFee>> BY BatchDeletes DEF lifeVars, configVars
<1>5. Created' = Created BY <1>4 DEF Created, Exists
<1>6. PayoutInv' BY <1>1, <1>3, <1>4, <1>5 DEF PayoutInv, IdsInOrder
<1>7. QED BY <1>2, <1>6 DEF MoneyState

-----------------------------------------------------------------------------
(* The batches of the calls.                                               *)

LEMMA ListLength ==
  ASSUME NEW S, NEW n \in Nat, NEW s \in [1 .. n -> S]
  PROVE  s \in Seq(S) /\ Len(s) = n
OBVIOUS

LEMMA ListPlaces ==
  ASSUME NEW S, NEW s \in Seq(S)
  PROVE  Len(s) \in Nat /\ DOMAIN s = 1 .. Len(s) /\ \A k \in 1 .. Len(s) : s[k] \in S
OBVIOUS

(* A prefix of a list has the same members at the same places.             *)
LEMMA FirstOfList ==
  ASSUME NEW S, NEW s \in Seq(S), NEW n \in Nat
  PROVE  /\ FirstOf(s, n) \in Seq(S) /\ Len(FirstOf(s, n)) <= Len(s)
         /\ \A i \in DOMAIN FirstOf(s, n) : i \in DOMAIN s /\ FirstOf(s, n)[i] = s[i]
<1>1. Len(s) \in Nat OBVIOUS
<1> DEFINE m == IF Len(s) < n THEN Len(s) ELSE n
<1>2. m \in 0 .. Len(s) BY <1>1
<1>3. FirstOf(s, n) = SubSeq(s, 1, m) BY DEF FirstOf
<1> HIDE DEF m
<1>4. /\ SubSeq(s, 1, m) \in Seq(S) /\ Len(SubSeq(s, 1, m)) = m
      /\ \A i \in 1 .. m : SubSeq(s, 1, m)[i] = s[i]
  BY <1>1, <1>2
<1>5. DOMAIN SubSeq(s, 1, m) = 1 .. m /\ DOMAIN s = 1 .. Len(s) BY <1>4
<1>6. QED BY <1>1, <1>2, <1>3, <1>4, <1>5

(***************************************************************************)
(* The ascending list of a set of positions, as a sequence without         *)
(* repetitions.                                                            *)
(***************************************************************************)
LEMMA Positions ==
  ASSUME NEW n \in Nat, NEW S \in SUBSET (1 .. n)
  PROVE  /\ Ascending(S) \in Seq(S)
         /\ \A i, j \in DOMAIN Ascending(S) : Ascending(S)[i] = Ascending(S)[j] => i = j
<1>1. S \in SUBSET Int OBVIOUS
<1>2. IsFiniteSet(1 .. n) BY PositionsFinite
<1>3. IsFiniteSet(S) BY <1>2, FS_Subset
<1>4. /\ Cardinality(S) \in Nat /\ Ascending(S) \in [1 .. Cardinality(S) -> S]
      /\ \A i, j \in 1 .. Cardinality(S) : Ascending(S)[i] = Ascending(S)[j] => i = j
  BY <1>1, <1>3, AscendingLists
<1>5. QED BY <1>4, ListLength

(* claim_all_winnings pays every eligible pool of its list once.           *)
LEMMA ListIsPayable ==
  ASSUME NEW u \in Accounts, NEW seen \in Seq(Pools), NEW kept,
         kept = Ascending({i \in DOMAIN seen : Listed(seen, i) /\ Claimable(u, seen[i])})
  PROVE  Payable([k \in DOMAIN kept |-> [pool |-> seen[kept[k]], user |-> u]])
<1> DEFINE S == {i \in DOMAIN seen : Listed(seen, i) /\ Claimable(u, seen[i])}
           n == Len(kept)
           batch == [k \in DOMAIN kept |-> [pool |-> seen[kept[k]], user |-> u]]
<1>1. Len(seen) \in Nat /\ DOMAIN seen = 1 .. Len(seen) OBVIOUS
<1>2. kept \in Seq(S) /\ \A i, j \in DOMAIN kept : kept[i] = kept[j] => i = j
  <2>1. S \in SUBSET (1 .. Len(seen)) BY <1>1
  <2> HIDE DEF S
  <2>2. kept = Ascending(S) BY DEF S
  <2>3. QED BY <1>1, <2>1, <2>2, Positions
<1>3. n \in Nat /\ DOMAIN kept = 1 .. n /\ \A k \in 1 .. n : kept[k] \in S
  <2> HIDE DEF S
  <2>1. kept \in Seq(S) BY <1>2
  <2>2. QED BY <2>1, ListPlaces DEF n
<1>4. \A k \in 1 .. n : /\ kept[k] \in 1 .. Len(seen) /\ seen[kept[k]] \in Pools
                        /\ Listed(seen, kept[k]) /\ Claimable(u, seen[kept[k]])
  BY <1>1, <1>3
<1>5. batch \in [1 .. n -> [pool : Pools, user : {u}]]
  BY <1>3, <1>4
<1>6. Len(batch) = n /\ DOMAIN batch = 1 .. n
  BY <1>3, <1>5, ListLength
<1>7. ASSUME NEW i \in 1 .. n, NEW j \in 1 .. n, batch[i].pool = batch[j].pool
      PROVE  i = j
  <2>1. seen[kept[i]] = seen[kept[j]] BY <1>3, <1>7
  <2>2. \A a, b \in 1 .. Len(seen) : a < b /\ Listed(seen, b) => seen[a] # seen[b]
    <3>1. \A a, b \in 1 .. Len(seen) : a < b => a \in 1 .. b - 1 BY <1>1
    <3>2. QED BY <3>1 DEF Listed
  <2> HIDE DEF S, n, batch
  <2>3. kept[i] = kept[j]
    <3>1. kept[i] < kept[j] \/ kept[j] < kept[i] \/ kept[i] = kept[j] BY <1>1, <1>4
    <3>2. QED BY <1>4, <2>1, <2>2, <3>1
  <2>4. QED BY <1>2, <1>3, <2>3
<1>8. \A i \in 1 .. n : batch[i].pool = seen[kept[i]] /\ batch[i].user = u BY <1>3
<1> HIDE DEF batch, n, S
<1>9. Payable(batch) BY <1>3, <1>4, <1>6, <1>7, <1>8 DEF Payable
<1>10. QED BY <1>9 DEF batch

-----------------------------------------------------------------------------
(* The scheduled claims.                                                   *)

ScheduledClaims ==
  [pool : Pools, user : Accounts, at : Nat, status : {"Pending", "Executed", "Cancelled"}]

ClaimsTypeOK ==
  claims \in Seq(ScheduledClaims) /\ claimOf \in [Pools -> [Accounts -> Nat]]

(***************************************************************************)
(* The money of the pools, and the index of the pending entries: from the  *)
(* first the claims of a batch are paid in full, from the second they are  *)
(* claims of different bets.                                               *)
(***************************************************************************)
BatchInv == MoneyState /\ ClaimsTypeOK /\ OneClaimPerBet

LEMMA DueIsPayable ==
  ASSUME ClaimsTypeOK, OneClaimPerBet, NEW ids, ids = FirstOf(Due, ExecutionCap),
         \A k \in DOMAIN ids : Claimable(claims[ids[k]].user, claims[ids[k]].pool)
  PROVE  /\ Payable([k \in DOMAIN ids |-> claims[ids[k]]])
         /\ {ids[k] : k \in DOMAIN ids} \subseteq {id \in DOMAIN claims : Pending(id)}
<1> DEFINE S == {id \in DOMAIN claims : Pending(id) /\ claims[id].at <= now}
           n == Len(ids)
           batch == [k \in DOMAIN ids |-> claims[ids[k]]]
<1>1. /\ Len(claims) \in Nat /\ DOMAIN claims = 1 .. Len(claims)
      /\ \A id \in DOMAIN claims : claims[id] \in ScheduledClaims
  BY DEF ClaimsTypeOK
<1>2. Due \in Seq(S) /\ \A i, j \in DOMAIN Due : Due[i] = Due[j] => i = j
  <2>1. S \in SUBSET (1 .. Len(claims)) BY <1>1
  <2> HIDE DEF S
  <2>2. Due = Ascending(S) BY DEF Due, S
  <2>3. QED BY <1>1, <2>1, <2>2, Positions
<1>3. ExecutionCap \in Nat BY BatchesAssumption
<1>4. ids \in Seq(S) /\ \A i \in DOMAIN ids : i \in DOMAIN Due /\ ids[i] = Due[i]
  <2> HIDE DEF S
  <2>1. QED BY <1>2, <1>3, FirstOfList
<1>5. n \in Nat /\ DOMAIN ids = 1 .. n /\ \A k \in 1 .. n : ids[k] \in S BY <1>4
<1>6. \A k \in 1 .. n : /\ ids[k] \in DOMAIN claims /\ Pending(ids[k])
                        /\ claims[ids[k]] \in ScheduledClaims
  BY <1>1, <1>5
<1>7. Len(batch) = n /\ DOMAIN batch = 1 .. n /\ \A k \in 1 .. n : batch[k] = claims[ids[k]]
  <2>1. batch \in [1 .. n -> ScheduledClaims] BY <1>5, <1>6
  <2>2. QED BY <1>5, <2>1, ListLength
<1>8. ASSUME NEW i \in 1 .. n, NEW j \in 1 .. n,
             claims[ids[i]].pool = claims[ids[j]].pool, claims[ids[i]].user = claims[ids[j]].user
      PROVE  i = j
  <2> DEFINE p == claims[ids[i]].pool
             u == claims[ids[i]].user
             of == {id \in DOMAIN claims :
                      Pending(id) /\ claims[id].pool = p /\ claims[id].user = u}
  <2>1. p \in Pools /\ u \in Accounts BY <1>6 DEF ScheduledClaims
  <2>2. of = {} \/ of = {claimOf[p][u]} BY <2>1 DEF OneClaimPerBet
  <2>3. ids[i] \in of /\ ids[j] \in of BY <1>6, <1>8
  <2>4. ids[i] = ids[j] BY <2>2, <2>3
  <2>5. QED BY <1>2, <1>4, <1>5, <2>4
<1>9. {ids[k] : k \in DOMAIN ids} \subseteq {id \in DOMAIN claims : Pending(id)} BY <1>5, <1>6
<1>10. \A k \in 1 .. n : Claimable(claims[ids[k]].user, claims[ids[k]].pool) BY <1>5
<1> HIDE DEF batch, n, S
<1>11. Payable(batch) BY <1>5, <1>6, <1>7, <1>8, <1>10 DEF Payable, ScheduledClaims
<1>12. QED BY <1>9, <1>11 DEF batch

-----------------------------------------------------------------------------
(* The steps.                                                              *)

LEMMA ClaimAllKeeps ==
  ASSUME BatchInv, NEW u \in Accounts, NEW list \in PoolLists, ClaimAllWinnings(u, list)
  PROVE  BatchInv'
<1> DEFINE seen == FirstOf(list, BatchCap)
           kept == Ascending({i \in DOMAIN seen : Listed(seen, i) /\ Claimable(u, seen[i])})
           batch == [k \in DOMAIN kept |-> [pool |-> seen[kept[k]], user |-> u]]
<1>1. MoneyState /\ ClaimsTypeOK /\ OneClaimPerBet BY DEF BatchInv
<1>2. PayBatch(batch) /\ UNCHANGED batchVars BY DEF ClaimAllWinnings
<1>3. seen \in Seq(Pools)
  <2>1. list \in Seq(Pools) /\ BatchCap \in Nat BY BatchesAssumption
  <2>2. QED BY <2>1, FirstOfList
<1>4. Payable(batch)
  <2> HIDE DEF seen
  <2>1. QED BY <1>3, ListIsPayable
<1> HIDE DEF batch
<1>5. MoneyState' BY <1>1, <1>2, <1>4, BatchPays
<1>6. ClaimsTypeOK' /\ OneClaimPerBet'
  BY <1>1, <1>2 DEF batchVars, ClaimsTypeOK, OneClaimPerBet, Pending
<1>7. QED BY <1>5, <1>6 DEF BatchInv

(* Closing pending entries takes them out of the index.                    *)
LEMMA CloseKeeps ==
  ASSUME ClaimsTypeOK, OneClaimPerBet, NEW how \in {"Executed", "Cancelled"},
         NEW ids \in SUBSET {id \in DOMAIN claims : Pending(id)}, Close(ids, how)
  PROVE  ClaimsTypeOK' /\ OneClaimPerBet'
<1>1. /\ claims \in Seq(ScheduledClaims) /\ claimOf \in [Pools -> [Accounts -> Nat]]
      /\ Len(claims) \in Nat /\ DOMAIN claims = 1 .. Len(claims)
      /\ \A id \in DOMAIN claims : claims[id] \in ScheduledClaims
  BY ListPlaces DEF ClaimsTypeOK
<1>2. /\ claims' = [id \in DOMAIN claims |->
                      IF id \in ids THEN [claims[id] EXCEPT !.status = how] ELSE claims[id]]
      /\ claimOf' = [p \in Pools |-> [u \in Accounts |->
                       IF \E id \in ids : claims[id].pool = p /\ claims[id].user = u
                       THEN NoClaim ELSE claimOf[p][u]]]
  BY DEF Close
<1>3. \A id \in DOMAIN claims : [claims[id] EXCEPT !.status = how] \in ScheduledClaims
  BY <1>1 DEF ScheduledClaims
<1>4. claims' \in [1 .. Len(claims) -> ScheduledClaims]
  <2>1. \A id \in DOMAIN claims : claims'[id] \in ScheduledClaims BY <1>1, <1>2, <1>3
  <2>2. QED BY <1>1, <1>2, <2>1
<1>5. claims' \in Seq(ScheduledClaims) /\ DOMAIN claims' = DOMAIN claims
  BY <1>1, <1>4, ListLength
<1>6. claimOf' \in [Pools -> [Accounts -> Nat]] BY <1>1, <1>2 DEF NoClaim
<1>7. \A id \in DOMAIN claims :
        /\ claims'[id].pool = claims[id].pool /\ claims'[id].user = claims[id].user
        /\ claims'[id].status = IF id \in ids THEN how ELSE claims[id].status
  BY <1>1, <1>2 DEF ScheduledClaims
<1>8. \A id \in DOMAIN claims : Pending(id)' <=> Pending(id) /\ id \notin ids
  BY <1>7 DEF Pending
<1>9. OneClaimPerBet'
  <2>1. SUFFICES ASSUME NEW p \in Pools, NEW u \in Accounts
                 PROVE  {id \in DOMAIN claims' :
                           Pending(id)' /\ claims'[id].pool = p /\ claims'[id].user = u}
                          = IF claimOf'[p][u] = NoClaim THEN {} ELSE {claimOf'[p][u]}
    BY DEF OneClaimPerBet
  <2> DEFINE of == {id \in DOMAIN claims :
                      Pending(id) /\ claims[id].pool = p /\ claims[id].user = u}
             left == {id \in DOMAIN claims' :
                        Pending(id)' /\ claims'[id].pool = p /\ claims'[id].user = u}
  <2>2. of = IF claimOf[p][u] = NoClaim THEN {} ELSE {claimOf[p][u]} BY DEF OneClaimPerBet
  <2>3. left = of \ ids BY <1>5, <1>7, <1>8
  <2>4. CASE \E id \in ids : claims[id].pool = p /\ claims[id].user = u
    <3>1. claimOf'[p][u] = NoClaim BY <1>2, <2>4
    <3>2. PICK id \in ids : id \in of BY <2>4
    <3>3. of \ ids = {} BY <2>2, <3>2
    <3>4. QED BY <2>3, <3>1, <3>3
  <2>5. CASE ~\E id \in ids : claims[id].pool = p /\ claims[id].user = u
    <3>1. claimOf'[p][u] = claimOf[p][u] BY <1>2, <2>5
    <3>2. of \ ids = of BY <2>5
    <3>3. QED BY <2>2, <2>3, <3>1, <3>2
  <2>6. QED BY <2>4, <2>5
<1>10. QED BY <1>5, <1>6, <1>9 DEF ClaimsTypeOK

LEMMA ExecuteKeeps ==
  ASSUME BatchInv, ExecuteScheduledClaims
  PROVE  BatchInv'
<1>1. MoneyState /\ ClaimsTypeOK /\ OneClaimPerBet BY DEF BatchInv
<1>2. PICK ids : /\ ids = FirstOf(Due, ExecutionCap)
                 /\ \A k \in DOMAIN ids : Claimable(claims[ids[k]].user, claims[ids[k]].pool)
                 /\ Close({ids[k] : k \in DOMAIN ids}, "Executed")
                 /\ PayBatch([k \in DOMAIN ids |-> claims[ids[k]]])
  BY DEF ExecuteScheduledClaims
<1>3. /\ Payable([k \in DOMAIN ids |-> claims[ids[k]]])
      /\ {ids[k] : k \in DOMAIN ids} \subseteq {id \in DOMAIN claims : Pending(id)}
  BY <1>1, <1>2, DueIsPayable
<1>4. MoneyState' BY <1>1, <1>2, <1>3, BatchPays
<1>5. ClaimsTypeOK' /\ OneClaimPerBet' BY <1>1, <1>2, <1>3, CloseKeeps
<1>6. QED BY <1>4, <1>5 DEF BatchInv

LEMMA CancelKeeps ==
  ASSUME BatchInv, NEW u \in Accounts, NEW id \in DOMAIN claims, CancelScheduledClaim(u, id)
  PROVE  BatchInv'
<1>1. MoneyState /\ ClaimsTypeOK /\ OneClaimPerBet BY DEF BatchInv
<1>2. Pending(id) /\ Close({id}, "Cancelled") /\ UNCHANGED vars BY DEF CancelScheduledClaim
<1>3. {id} \in SUBSET {i \in DOMAIN claims : Pending(i)} BY <1>2
<1>4. ClaimsTypeOK' /\ OneClaimPerBet' BY <1>1, <1>2, <1>3, CloseKeeps
<1>5. MoneyState' BY <1>1, <1>2, NextPays
<1>6. QED BY <1>4, <1>5 DEF BatchInv

(* A new entry is the only pending one of its pool and user.               *)
LEMMA ScheduleKeeps ==
  ASSUME BatchInv, NEW u \in Accounts, NEW p \in Pools, NEW d \in Delays,
         ScheduleClaim(u, p, now + d)
  PROVE  BatchInv'
<1> DEFINE n == Len(claims)
           new == [pool |-> p, user |-> u, at |-> now + d, status |-> "Pending"]
<1>1. MoneyState /\ ClaimsTypeOK /\ OneClaimPerBet BY DEF BatchInv
<1>2. /\ claims' = Append(claims, new)
      /\ claimOf' = [claimOf EXCEPT ![p][u] = n + 1]
      /\ claimOf[p][u] = NoClaim
      /\ UNCHANGED vars
  BY DEF ScheduleClaim, MaySchedule
<1>3. MoneyState' BY <1>1, <1>2, NextPays
<1>4. /\ claims \in Seq(ScheduledClaims) /\ claimOf \in [Pools -> [Accounts -> Nat]]
      /\ n \in Nat /\ DOMAIN claims = 1 .. n
  BY <1>1, ListPlaces DEF ClaimsTypeOK
<1>5. new \in ScheduledClaims
  <2>1. now \in Nat /\ d \in Nat BY <1>1, BatchesAssumption DEF MoneyState, MarketInv
  <2>2. QED BY <2>1 DEF ScheduledClaims
<1>6. new.pool = p /\ new.user = u /\ new.status = "Pending" OBVIOUS
<1> HIDE DEF n, new
<1>7. /\ claims' \in Seq(ScheduledClaims) /\ DOMAIN claims' = 1 .. n + 1
      /\ \A id \in 1 .. n : claims'[id] = claims[id]
      /\ claims'[n + 1] = new
  BY <1>2, <1>4, <1>5 DEF n
<1>8. claimOf' \in [Pools -> [Accounts -> Nat]] BY <1>2, <1>4
<1>9. OneClaimPerBet'
  <2>1. SUFFICES ASSUME NEW q \in Pools, NEW v \in Accounts
                 PROVE  {id \in DOMAIN claims' :
                           Pending(id)' /\ claims'[id].pool = q /\ claims'[id].user = v}
                          = IF claimOf'[q][v] = NoClaim THEN {} ELSE {claimOf'[q][v]}
    BY DEF OneClaimPerBet
  <2> DEFINE of == {id \in DOMAIN claims :
                      Pending(id) /\ claims[id].pool = q /\ claims[id].user = v}
             next == {id \in DOMAIN claims' :
                        Pending(id)' /\ claims'[id].pool = q /\ claims'[id].user = v}
  <2>2. of = IF claimOf[q][v] = NoClaim THEN {} ELSE {claimOf[q][v]}
    BY <1>1 DEF OneClaimPerBet
  <2>3. \A id \in 1 .. n : id \in next <=> id \in of BY <1>4, <1>7 DEF Pending
  <2>4. n + 1 \in next <=> q = p /\ v = u BY <1>4, <1>6, <1>7 DEF Pending
  <2>5. \A id \in next : id \in 1 .. n \/ id = n + 1 BY <1>4, <1>7
  <2>6. \A id \in of : id \in 1 .. n BY <1>4
  <2>7. CASE q = p /\ v = u
    <3>1. of = {} /\ claimOf'[q][v] = n + 1 BY <1>2, <1>4, <2>2, <2>7
    <3> HIDE DEF of, next
    <3>2. next = {n + 1} BY <2>3, <2>4, <2>5, <2>7, <3>1
    <3>3. n + 1 # NoClaim BY <1>4 DEF NoClaim
    <3>4. QED BY <3>1, <3>2, <3>3 DEF next
  <2>8. CASE ~(q = p /\ v = u)
    <3>1. claimOf'[q][v] = claimOf[q][v] BY <1>2, <1>4, <2>8
    <3> HIDE DEF of, next
    <3>2. next = of BY <2>3, <2>4, <2>5, <2>6, <2>8
    <3>3. QED BY <2>2, <3>1, <3>2 DEF next
  <2>9. QED BY <2>7, <2>8
<1>10. QED BY <1>3, <1>7, <1>8, <1>9 DEF BatchInv, ClaimsTypeOK

(***************************************************************************)
(* settle_pools settles every pool that can be, and no other.              *)
(***************************************************************************)
LEMMA SettleEffect ==
  ASSUME NEW caller \in Accounts, NEW some \in SUBSET Pools, NEW outcome \in [some -> Outcomes],
         SettlePools(caller, outcome)
  PROVE  \E done \in SUBSET some :
           /\ \A p \in done : Settleable(caller, p)
           /\ status' = [p \in Pools |-> IF p \in done THEN "Settled" ELSE status[p]]
           /\ winner' = [p \in Pools |-> IF p \in done THEN outcome[p] ELSE winner[p]]
           /\ settledAt' = [p \in Pools |-> IF p \in done THEN now ELSE settledAt[p]]
           /\ settleFee' = [p \in Pools |-> IF p \in done
                              THEN Bps(PoolTotal(p), FeeForVolume(PoolTotal(p))) ELSE settleFee[p]]
           /\ lockedFee' = lockedFee
              \/ lockedFee' = [p \in Pools |-> IF p \in done
                                 THEN FeeForVolume(PoolTotal(p)) ELSE lockedFee[p]]
           /\ fresh' = [p \in Pools |-> IF p \in done THEN escrow[p] = PoolTotal(p) ELSE fresh[p]]
           /\ UNCHANGED <<now, configVars, pool, coolingUntil, bookVars, moneyVars, limitVars,
                          batchVars>>
<1> DEFINE done == {p \in DOMAIN outcome : Settleable(caller, p)}
<1>1. done \in SUBSET some /\ \A p \in done : Settleable(caller, p) OBVIOUS
<1>2. QED BY <1>1 DEF SettlePools

LEMMA SettlePoolsKeeps ==
  ASSUME BatchInv, NEW caller \in Accounts, NEW some \in SUBSET Pools,
         NEW outcome \in [some -> Outcomes], SettlePools(caller, outcome)
  PROVE  BatchInv'
<1> DEFINE fee(p) == FeeForVolume(PoolTotal(p))
<1>1. /\ MarketInv /\ PayoutInv /\ BalanceDivided
      /\ now \in Nat /\ ConfigTypeOK /\ LifeTypeOK /\ WinnerDeclared /\ BookTypeOK /\ MoneyTypeOK
      /\ \A p \in Pools : PoolInv(p)
  BY DEF BatchInv, MoneyState, MarketInv, LifeInv, BookInv, MoneyInv, PayoutInv
<1>2. PICK done \in SUBSET some :
        /\ \A p \in done : Settleable(caller, p)
        /\ status' = [p \in Pools |-> IF p \in done THEN "Settled" ELSE status[p]]
        /\ winner' = [p \in Pools |-> IF p \in done THEN outcome[p] ELSE winner[p]]
        /\ settledAt' = [p \in Pools |-> IF p \in done THEN now ELSE settledAt[p]]
        /\ settleFee' = [p \in Pools |-> IF p \in done
                           THEN Bps(PoolTotal(p), fee(p)) ELSE settleFee[p]]
        /\ lockedFee' = lockedFee
           \/ lockedFee' = [p \in Pools |-> IF p \in done THEN fee(p) ELSE lockedFee[p]]
        /\ fresh' = [p \in Pools |-> IF p \in done THEN escrow[p] = PoolTotal(p) ELSE fresh[p]]
        /\ UNCHANGED <<now, configVars, pool, coolingUntil, bookVars, moneyVars, limitVars,
                       batchVars>>
  BY SettleEffect
<1>3. ASSUME NEW p \in Pools
      PROVE  fee(p) \in 0 .. BpsDenom /\ Bps(PoolTotal(p), fee(p)) \in Int
  <2>1. PoolTotal(p) \in Nat BY <1>1, PoolTypes
  <2>2. fee(p) \in 0 .. BpsDenom BY <1>1, <2>1, FeeForVolumeType
  <2>3. QED BY <2>1, <2>2, BpsRange
<1> HIDE DEF fee
<1>4. LifeTypeOK'
  <2>1. status' \in [Pools -> Statuses] BY <1>1, <1>2 DEF LifeTypeOK, Statuses
  <2>2. winner' \in [Pools -> Outcomes \cup {NoOutcome}] BY <1>1, <1>2 DEF LifeTypeOK
  <2>3. settledAt' \in [Pools -> Int] BY <1>1, <1>2 DEF LifeTypeOK
  <2>4. settleFee' \in [Pools -> Int] BY <1>1, <1>2, <1>3 DEF LifeTypeOK
  <2>5. lockedFee' \in [Pools -> Int]
    <3>1. \A p \in Pools : fee(p) \in Int BY <1>3, Sizes
    <3>2. QED BY <1>1, <1>2, <3>1 DEF LifeTypeOK
  <2>6. fresh' \in [Pools -> BOOLEAN] BY <1>1, <1>2 DEF LifeTypeOK
  <2>7. QED BY <1>1, <1>2, <2>1, <2>2, <2>3, <2>4, <2>5, <2>6 DEF LifeTypeOK
<1>5. WinnerDeclared' BY <1>1, <1>2 DEF WinnerDeclared
<1>6. now' \in Nat /\ ConfigTypeOK' BY <1>1, <1>2, ConfigKept
<1>7. MarketInv' BY <1>1, <1>2, <1>4, <1>5, <1>6, FundsKept DEF MarketInv, LifeInv
<1>8. ASSUME NEW p \in Pools PROVE Untouched(p) \/ PoolInv(p)'
  <2>1. CASE p \in done
    <3>1. now >= pool[p].expiry BY <1>2, <2>1 DEF Settleable
    <3>2. /\ status'[p] = "Settled" /\ winner'[p] = outcome[p] /\ outcome[p] \in Outcomes
          /\ lockedFee'[p] \in {lockedFee[p], fee(p)}
          /\ fresh'[p] = (escrow[p] = PoolTotal(p))
          /\ UNCHANGED <<now, configVars, pool, bookVars, moneyVars>>
      BY <1>2, <2>1
    <3>3. QED BY <1>1, <3>1, <3>2, SettledPool DEF fee
  <2>2. CASE p \notin done
    <3>1. /\ status'[p] = status[p] /\ winner'[p] = winner[p]
          /\ lockedFee'[p] = lockedFee[p] /\ fresh'[p] = fresh[p]
      BY <1>2, <2>2
    <3>2. QED BY <1>1, <1>2, <3>1 DEF Untouched, Exists, moneyVars, bookVars
  <2>3. QED BY <2>1, <2>2
<1>9. \A p \in Pools : Exists(p)' <=> Exists(p)
  <2>1. \A p \in done : status[p] = "Open" BY <1>2 DEF Settleable
  <2>2. QED BY <1>2, <2>1 DEF Exists
<1>10. protocolFee' \in FeeChoices BY <1>1, <1>2 DEF PayoutInv, configVars
<1>11. PayoutInv' BY <1>1, <1>7, <1>8, <1>9, <1>10, PoolsStep
<1>12. BalanceDivided'
  <2>1. MoneyTypeOK' BY <1>7 DEF MarketInv, MoneyInv
  <2>2. QED BY <1>1, <1>2, <2>1, EscrowKept DEF moneyVars
<1>13. ClaimsTypeOK' /\ OneClaimPerBet'
  BY <1>2 DEF BatchInv, batchVars, ClaimsTypeOK, OneClaimPerBet, Pending
<1>14. QED BY <1>7, <1>11, <1>12, <1>13 DEF BatchInv, MoneyState

LEMMA BatchNextKeeps == BatchInv /\ [BatchNext]_batchSpecVars => BatchInv'
<1> SUFFICES ASSUME BatchInv, [BatchNext]_batchSpecVars PROVE BatchInv' OBVIOUS
<1>1. CASE [Next]_vars /\ UNCHANGED batchVars
  <2>1. MoneyState' BY <1>1, NextPays DEF BatchInv
  <2>2. ClaimsTypeOK' /\ OneClaimPerBet'
    BY <1>1 DEF BatchInv, batchVars, ClaimsTypeOK, OneClaimPerBet, Pending
  <2>3. QED BY <2>1, <2>2 DEF BatchInv
<1>2. CASE BatchCall
  BY <1>2, ClaimAllKeeps, SettlePoolsKeeps, ScheduleKeeps, CancelKeeps, ExecuteKeeps DEF BatchCall
<1>3. QED BY <1>1, <1>2 DEF BatchNext, batchSpecVars

LEMMA BatchInitHolds == BatchInit => BatchInv
<1> SUFFICES ASSUME BatchInit PROVE BatchInv OBVIOUS
<1>1. Init /\ claims = <<>> /\ claimOf = [p \in Pools |-> [u \in Accounts |-> NoClaim]]
  BY DEF BatchInit
<1>2. MoneyState BY <1>1, InitHolds, InitPays DEF MoneyState
<1>3. ClaimsTypeOK BY <1>1 DEF ClaimsTypeOK, NoClaim
<1>4. OneClaimPerBet BY <1>1 DEF OneClaimPerBet
<1>5. QED BY <1>2, <1>3, <1>4 DEF BatchInv

-----------------------------------------------------------------------------
(* Theorems.                                                               *)

(***************************************************************************)
(* With claim_all_winnings, settle_pools and the scheduled claims among    *)
(* the calls of the market, its books and its money are still what the     *)
(* invariant of the market says, and the index of the scheduled claims     *)
(* names the one pending entry of every pool and user that has one: for    *)
(* any caps, delays, lists of pools and numbers of entries.                *)
(***************************************************************************)
THEOREM BatchInvariant == BatchSpec => []BatchInv
<1>1. BatchInit => BatchInv BY BatchInitHolds
<1>2. BatchInv /\ [BatchNext]_batchSpecVars => BatchInv' BY BatchNextKeeps
<1>3. QED BY <1>1, <1>2, PTL DEF BatchSpec

(***************************************************************************)
(* No batch pays a bet twice, and a pool whose winners were paid in        *)
(* batches of any size has split its total as one paid claim by claim:     *)
(* every claim of a transaction sees the payout state the one before left. *)
(***************************************************************************)
THEOREM EachBetPaidOnce == BatchSpec => []BatchesPayOnce
<1>1. BatchInv => BatchesPayOnce BY StateReconciles DEF BatchInv, BatchesPayOnce
<1>2. QED BY <1>1, BatchInvariant, PTL

(***************************************************************************)
(* With the batches among the calls a pool settled whole still covers the  *)
(* winners to come and its fee, and one balance all debts at a time.       *)
(***************************************************************************)
THEOREM BatchesStayFunded == BatchSpec => [](SettledPoolFunded /\ Solvent)
<1>1. BatchInv => SettledPoolFunded /\ Solvent BY StateFunded, StateSolvent DEF BatchInv
<1>2. QED BY <1>1, BatchInvariant, PTL

-----------------------------------------------------------------------------
(* The tokens: the invariant.                                              *)

(* Of the market's own state: types, the books of the stakes, and the      *)
(* order of the ids.  Bets of several tokens are in no exposure and, past  *)
(* the second outcome, on no side, so that MarketInv does not hold here.   *)
LifeTypes ==
  /\ status \in [Pools -> Statuses]
  /\ winner \in [Pools -> Outcomes \cup {NoOutcome}]
  /\ lockedFee \in [Pools -> 0 .. BpsDenom \cup {NoFee}]
  /\ payout = [p \in Pools |-> payout[p]]
  /\ \A p \in Pools : payout[p].feeCredited \in BOOLEAN /\ payout[p].claimed \in Nat

MarketBooks ==
  /\ ConfigTypeOK /\ LifeTypes /\ WinnerDeclared /\ IdsInOrder
  /\ StakeBooks /\ RefundListComplete
  /\ hasBet \in [Pools -> SUBSET Accounts] /\ bettors \in [Pools -> SUBSET Accounts]

TokenTypes ==
  /\ rate \in [Tokens -> Nat] /\ allowed \in [Pools -> SUBSET Tokens]
  /\ deposit \in [Pools -> [Tokens -> Nat]] /\ feePending \in [Pools -> [Tokens -> Nat]]
  /\ spent = [p \in Pools |-> [t \in Tokens |-> spent[p][t]]]
  /\ swept = [p \in Pools |-> [t \in Tokens |-> swept[p][t]]]
  /\ \A p \in Pools, t \in AltTokens : spent[p][t] \in Nat /\ swept[p][t] \in Nat
  /\ tokenBalance \in [AltTokens -> Nat]

(* Tokens come only into pools that accept them, and go out of them only   *)
(* from the first claim on.                                                *)
TokenPool(p) ==
  /\ ~Exists(p) => allowed[p] = {} /\ payout[p] = NoPayout
  /\ IsMultiAsset(p) /\ ~payout[p].feeCredited => payout[p].claimed = 0
  /\ \A t \in Tokens :
       /\ t \notin allowed[p] => deposit[p][t] = 0
       /\ feePending[p][t] <= deposit[p][t]
       /\ ~(IsMultiAsset(p) /\ payout[p].feeCredited) =>
            feePending[p][t] = 0 /\ spent[p][t] = 0 /\ swept[p][t] = 0

(* Before the last claim what left a pool is the claimed part of the net   *)
(* deposit, short of less than one unit per claim.                         *)
TokenFloors(p, t) ==
  LET due == TokenNet(p, t) * payout[p].claimed
      paid == WinningTotal(p) * spent[p][t]
  IN  ~FullyClaimed(p) =>
        swept[p][t] = 0 /\ paid <= due /\ due <= paid + Claims(p) * (WinningTotal(p) - 1)

InPayment(p) == p \notin interfered /\ IsMultiAsset(p) /\ payout[p].feeCredited

Paying(p) ==
  InPayment(p) =>
    /\ status[p] = "Settled" /\ payout[p].claimed > 0 /\ ClaimsWithinSide(p)
    /\ \A t \in AltTokens : TokenFloors(p, t)

(* A token that only pool p has deposits of is p's, and after p's last     *)
(* claim what left and the fee are the deposit.                            *)
Sole(p, t) == \A q \in Pools \ {p} : deposit[q][t] = 0

Held(p, t) ==
  p \notin interfered /\ Sole(p, t) => tokenBalance[t] = deposit[p][t] - spent[p][t]

Reconciled(p, t) ==
  InPayment(p) /\ FullyClaimed(p) /\ Sole(p, t) =>
    /\ spent[p][t] + feePending[p][t] = deposit[p][t]
    /\ swept[p][t] \in 0 .. Cardinality(bettors[p]) - 1

(* What an undisturbed pool still has to pay.                              *)
Owing(p, t) == IF p \in interfered THEN 0 ELSE TokenLiability(p, t)
Covered(t) == tokenBalance[t] >= SumBelow([i \in 0 .. NumPools - 1 |-> Owing(i + 1, t)], NumPools)

TokenInv ==
  /\ MarketBooks /\ TokenTypes
  /\ \A p \in Pools : TokenPool(p) /\ Paying(p)
  /\ \A t \in AltTokens : Covered(t) /\ \A p \in Pools : Held(p, t) /\ Reconciled(p, t)

-----------------------------------------------------------------------------
(* Amounts.                                                                *)

LEMMA OtherTokens == AltTokens \subseteq Tokens
BY MultiAssetAssumption DEF AltTokens, Tokens

(* The fee and the net deposit divide the deposit.                         *)
LEMMA TokenAmounts ==
  ASSUME MarketBooks, TokenTypes, NEW p \in Pools, NEW t \in Tokens, TokenPool(p)
  PROVE  /\ deposit[p][t] \in Nat /\ feePending[p][t] \in Nat
         /\ TokenFee(p, t) \in Nat /\ TokenNet(p, t) \in Nat
         /\ TokenFee(p, t) + TokenNet(p, t) = deposit[p][t]
<1>1. deposit[p][t] \in Nat /\ feePending[p][t] \in Nat
  BY DEF TokenTypes
<1>2. feePending[p][t] <= deposit[p][t] /\ (t \notin allowed[p] => deposit[p][t] = 0)
  BY DEF TokenPool
<1>3. EffectiveFee(p) \in 0 .. BpsDenom
  <2>1. protocolFee \in 0 .. BpsDenom /\ lockedFee[p] \in 0 .. BpsDenom \cup {NoFee}
    BY DEF MarketBooks, ConfigTypeOK, LifeTypes
  <2>2. QED BY <2>1 DEF EffectiveFee
<1>4. /\ Bps(deposit[p][t], EffectiveFee(p)) \in Nat
      /\ Bps(deposit[p][t], EffectiveFee(p)) <= deposit[p][t]
  BY <1>1, <1>3, BpsRange
<1>5. TokenFee(p, t) \in Nat /\ TokenFee(p, t) <= deposit[p][t]
  BY <1>1, <1>2, <1>4 DEF TokenFee
<1>6. TokenNet(p, t) = deposit[p][t] - TokenFee(p, t)
  BY <1>1, <1>2, <1>5 DEF TokenNet
<1>7. QED BY <1>1, <1>5, <1>6

(* The stakes on an outcome, and each of them.                             *)
LEMMA StakedOnTypes ==
  ASSUME MarketBooks, NEW p \in Pools, NEW o \in Outcomes
  PROVE  /\ StakedOn(p, o) \in Nat /\ totals[p][o] \in Nat /\ StakedOn(p, o) <= totals[p][o]
         /\ \A u \in Accounts : stake[p][u][o] \in Nat /\ stake[p][u][o] <= StakedOn(p, o)
<1> DEFINE f == [u \in Accounts |-> stake[p][u][o]]
<1>1. /\ StakesWithinTotals /\ stake \in [Pools -> [Accounts -> [Outcomes -> Nat]]]
      /\ totals \in [Pools -> [Outcomes -> Nat]]
  BY DEF MarketBooks, StakeBooks
<1>2. f \in [Accounts -> Nat] BY <1>1
<1>3. \A i \in 0 .. NumAccounts - 1 : f[i] \in Nat BY <1>2 DEF Accounts
<1>4. NumAccounts \in Nat BY Sizes
<1>5. \A u \in Accounts : f[u] = stake[p][u][o] OBVIOUS
<1>6. StakedOn(p, o) = SumBelow(f, NumAccounts) BY DEF StakedOn
<1> HIDE DEF f
<1>7. SumBelow(f, NumAccounts) \in Nat BY <1>3, <1>4, SumNat
<1>8. \A u \in Accounts : f[u] <= SumBelow(f, NumAccounts) BY <1>3, <1>4, SumTerm DEF Accounts
<1>9. QED BY <1>1, <1>2, <1>5, <1>6, <1>7, <1>8 DEF StakesWithinTotals

(* The shares of a token are parts of the net deposit.                     *)
SharesOf(p, t) == [u \in Accounts |-> TokenShare(p, u, t)]

LEMMA TokenShares ==
  ASSUME MarketBooks, TokenTypes, NEW p \in Pools, NEW t \in Tokens, TokenPool(p),
         winner[p] \in Outcomes, WinningTotal(p) > 0
  PROVE  /\ WinningTotal(p) \in Nat
         /\ \A u \in Accounts : TokenShare(p, u, t) \in Nat
         /\ SumBelow(SharesOf(p, t), NumAccounts) \in Nat
         /\ SumBelow(SharesOf(p, t), NumAccounts) <= TokenNet(p, t)
         /\ \A u \in Accounts : TokenShare(p, u, t) <= SumBelow(SharesOf(p, t), NumAccounts)
<1> DEFINE f == SharesOf(p, t)
           g == [u \in Accounts |-> stake[p][u][winner[p]]]
           n == TokenNet(p, t)
           w == WinningTotal(p)
<1>1. n \in Nat BY TokenAmounts
<1>2. /\ w \in Nat \ {0} /\ StakedOn(p, winner[p]) \in Nat /\ StakedOn(p, winner[p]) <= w
      /\ \A u \in Accounts : stake[p][u][winner[p]] \in Nat
  BY StakedOnTypes DEF WinningTotal
<1>3. StakedOn(p, winner[p]) = SumBelow(g, NumAccounts) BY DEF StakedOn
<1>4. NumAccounts \in Nat BY Sizes
<1>5. ASSUME NEW u \in Accounts
      PROVE  g[u] \in Nat /\ f[u] = (g[u] * n) \div w /\ f[u] = TokenShare(p, u, t)
  <2>1. f[u] = TokenShare(p, u, t) BY DEF SharesOf
  <2>2. TokenShare(p, u, t) = (n * stake[p][u][winner[p]]) \div w
    BY DEF TokenShare, WinningStake
  <2>3. n * stake[p][u][winner[p]] = stake[p][u][winner[p]] * n BY <1>1, <1>2, Products
  <2>4. QED BY <1>2, <2>1, <2>2, <2>3
<1> HIDE DEF f, g, n, w
<1>6. \A i \in 0 .. NumAccounts - 1 : g[i] \in Nat /\ f[i] = (g[i] * n) \div w
  BY <1>5 DEF Accounts
<1>7. /\ SumBelow(f, NumAccounts) \in Nat /\ SumBelow(g, NumAccounts) \in Nat
      /\ w * SumBelow(f, NumAccounts) <= n * SumBelow(g, NumAccounts)
  BY <1>1, <1>2, <1>4, <1>6, SharesWithin
<1>8. n * SumBelow(g, NumAccounts) <= n * w BY <1>1, <1>2, <1>3, <1>7, ProductOrder
<1>9. /\ n * w = w * n /\ w * n \in Int /\ n * SumBelow(g, NumAccounts) \in Int
      /\ w * SumBelow(f, NumAccounts) \in Int
  BY <1>1, <1>2, <1>7, Products
<1>10. SumBelow(f, NumAccounts) <= n BY <1>1, <1>2, <1>7, <1>8, <1>9, Cancelled
<1>11. \A u \in Accounts : f[u] \in Nat
  <2>1. TAKE u \in Accounts
  <2>2. g[u] * n \in Nat BY <1>1, <1>5
  <2>3. QED BY <1>2, <1>5, <2>2, DivNat
<1>12. \A u \in Accounts : f[u] <= SumBelow(f, NumAccounts)
  BY <1>4, <1>11, SumTerm DEF Accounts
<1>13. QED BY <1>2, <1>5, <1>7, <1>10, <1>11, <1>12 DEF f, n, w

(* What is due of a token is within the deposit of it.                     *)
LEMMA DueTypes ==
  ASSUME MarketBooks, TokenTypes, NEW p \in Pools, NEW t \in Tokens, TokenPool(p), Paying(p)
  PROVE  Owing(p, t) \in Nat /\ Owing(p, t) <= deposit[p][t]
<1>1. CASE ~InPayment(p)
  BY <1>1, TokenAmounts DEF InPayment, Owing, TokenLiability
<1>2. CASE InPayment(p)
  <2>1. status[p] = "Settled" /\ payout[p].claimed > 0 /\ ClaimsWithinSide(p)
    BY <1>2 DEF Paying
  <2>2. winner[p] \in Outcomes /\ payout[p].claimed \in Nat
    BY <2>1 DEF MarketBooks, WinnerDeclared, LifeTypes
  <2>3. WinningTotal(p) > 0
    BY <2>1, <2>2, StakedOnTypes DEF ClaimsWithinSide, WinningTotal
  <2>4. /\ SumBelow(SharesOf(p, t), NumAccounts) \in Nat
        /\ SumBelow(SharesOf(p, t), NumAccounts) <= TokenNet(p, t)
    BY <2>2, <2>3, TokenShares
  <2>5. TokenFee(p, t) = feePending[p][t] BY <1>2 DEF InPayment, TokenFee
  <2>6. Owing(p, t) = feePending[p][t] + SumBelow(SharesOf(p, t), NumAccounts)
    BY <1>2 DEF InPayment, Owing, TokenLiability, SharesOf
  <2>7. QED BY <2>4, <2>5, <2>6, TokenAmounts
<1>3. QED BY <1>1, <1>2

(***************************************************************************)
(* What the pools together are due follows what one of them is due.        *)
(***************************************************************************)
LEMMA CoverMoves ==
  ASSUME NEW t \in AltTokens, NEW p \in Pools, Covered(t),
         tokenBalance[t] \in Int, tokenBalance'[t] \in Int,
         \A q \in Pools : Owing(q, t) \in Int /\ Owing(q, t)' \in Int,
         \A q \in Pools : q # p => Owing(q, t)' <= Owing(q, t),
         Owing(p, t)' - Owing(p, t) <= tokenBalance'[t] - tokenBalance[t]
  PROVE  Covered(t)'
<1> DEFINE f == [i \in 0 .. NumPools - 1 |-> Owing(i + 1, t)]
           g == [i \in 0 .. NumPools - 1 |-> Owing(i + 1, t)']
           h == [i \in 0 .. NumPools - 1 |-> IF i = p - 1 THEN g[i] ELSE f[i]]
<1>1. NumPools \in Nat /\ p - 1 \in 0 .. NumPools - 1 /\ (p - 1) + 1 = p BY Sizes DEF Pools
<1>2. \A i \in 0 .. NumPools - 1 : i + 1 \in Pools /\ (i # p - 1 => i + 1 # p)
  BY <1>1 DEF Pools
<1>3. \A i \in 0 .. NumPools - 1 : /\ f[i] \in Int /\ g[i] \in Int /\ h[i] \in Int
                                   /\ g[i] <= h[i] /\ (i # p - 1 => h[i] = f[i])
  BY <1>2
<1>4. h[p - 1] - f[p - 1] = Owing(p, t)' - Owing(p, t) BY <1>1
<1>5. tokenBalance[t] >= SumBelow(f, NumPools) BY DEF Covered
<1> HIDE DEF f, g, h
<1>6. SumBelow(h, NumPools) = SumBelow(f, NumPools) + (h[p - 1] - f[p - 1])
  BY <1>1, <1>3, SumUpdate
<1>7. SumBelow(g, NumPools) <= SumBelow(h, NumPools) BY <1>1, <1>3, SumOrder
<1>8. /\ SumBelow(f, NumPools) \in Int /\ SumBelow(g, NumPools) \in Int
      /\ SumBelow(h, NumPools) \in Int
  BY <1>1, <1>3, SumInt
<1>9. tokenBalance'[t] >= SumBelow(g, NumPools) BY <1>4, <1>5, <1>6, <1>7, <1>8
<1>10. QED BY <1>9 DEF Covered, g

(* One pool is due what is there, and no other pool anything.              *)
LEMMA CoverLast ==
  ASSUME NEW t \in AltTokens, NEW p \in Pools, tokenBalance'[t] \in Int,
         Owing(p, t)' \in Int, Owing(p, t)' <= tokenBalance'[t],
         \A q \in Pools : q # p => Owing(q, t)' = 0
  PROVE  Covered(t)'
<1> DEFINE g == [i \in 0 .. NumPools - 1 |-> Owing(i + 1, t)']
           none == [i \in 0 .. NumPools - 1 |-> 0]
<1>1. NumPools \in Nat /\ p - 1 \in 0 .. NumPools - 1 /\ (p - 1) + 1 = p BY Sizes DEF Pools
<1>2. \A i \in 0 .. NumPools - 1 : i + 1 \in Pools /\ (i # p - 1 => i + 1 # p)
  BY <1>1 DEF Pools
<1>3. \A i \in 0 .. NumPools - 1 : /\ none[i] \in Int /\ g[i] \in Int /\ none[i] = 0
                                   /\ i # p - 1 => g[i] = none[i]
  BY <1>2
<1>4. g[p - 1] = Owing(p, t)' BY <1>1
<1> HIDE DEF g, none
<1>5. SumBelow(g, NumPools) = SumBelow(none, NumPools) + (g[p - 1] - none[p - 1])
  BY <1>1, <1>3, SumUpdate
<1>6. SumBelow(none, NumPools) = 0 BY <1>1, <1>3, SumZero
<1>7. SumBelow(g, NumPools) <= tokenBalance'[t] BY <1>1, <1>3, <1>4, <1>5, <1>6
<1>8. QED BY <1>7 DEF Covered, g

-----------------------------------------------------------------------------
(* Steps on other pools.                                                   *)

(***************************************************************************)
(* Nothing the invariant says of pool q is touched: a pool that pays keeps *)
(* its stakes and its bettors, any other may still take bets or be settled.*)
(***************************************************************************)
Rests(q) ==
  /\ allowed'[q] = allowed[q] /\ deposit'[q] = deposit[q]
  /\ feePending'[q] = feePending[q] /\ spent'[q] = spent[q] /\ swept'[q] = swept[q]
  /\ Exists(q) => Exists(q)'
  /\ IsMultiAsset(q) \/ ~Exists(q)' => payout'[q] = payout[q]
  /\ q \in interfered => q \in interfered'
  /\ InPayment(q) /\ q \notin interfered' =>
       /\ status'[q] = status[q] /\ winner'[q] = winner[q] /\ totals'[q] = totals[q]
       /\ stake'[q] = stake[q] /\ bettors'[q] = bettors[q] /\ hasBet'[q] = hasBet[q]

(* A pool that is paying out and rests pays what it paid.                  *)
LEMMA RestingPays ==
  ASSUME NEW q \in Pools, Rests(q), InPayment(q)'
  PROVE  /\ InPayment(q) /\ payout'[q] = payout[q] /\ status'[q] = status[q]
         /\ deposit'[q] = deposit[q] /\ feePending'[q] = feePending[q]
         /\ spent'[q] = spent[q] /\ swept'[q] = swept[q] /\ bettors'[q] = bettors[q]
         /\ Claims(q)' = Claims(q) /\ WinningTotal(q)' = WinningTotal(q)
         /\ StakedOn(q, winner[q])' = StakedOn(q, winner[q])
         /\ \A t \in Tokens : TokenNet(q, t)' = TokenNet(q, t)
         /\ \A t \in Tokens, u \in Accounts : TokenShare(q, u, t)' = TokenShare(q, u, t)
<1>1. InPayment(q) /\ payout'[q] = payout[q] /\ q \notin interfered'
  BY DEF Rests, InPayment, IsMultiAsset
<1>2. /\ allowed'[q] = allowed[q] /\ deposit'[q] = deposit[q]
      /\ feePending'[q] = feePending[q] /\ spent'[q] = spent[q] /\ swept'[q] = swept[q]
      /\ status'[q] = status[q] /\ winner'[q] = winner[q] /\ totals'[q] = totals[q]
      /\ stake'[q] = stake[q] /\ bettors'[q] = bettors[q] /\ hasBet'[q] = hasBet[q]
  BY <1>1 DEF Rests
<1>3. WinningTotal(q)' = WinningTotal(q) BY <1>2 DEF WinningTotal
<1>4. \A t \in Tokens : TokenFee(q, t) = feePending[q][t] /\ TokenFee(q, t)' = feePending'[q][t]
  BY <1>1 DEF InPayment, TokenFee
<1>5. \A t \in Tokens : TokenNet(q, t)' = TokenNet(q, t) BY <1>2, <1>4 DEF TokenNet
<1>6. \A t \in Tokens, u \in Accounts : TokenShare(q, u, t)' = TokenShare(q, u, t)
  BY <1>2, <1>3, <1>5 DEF TokenShare, WinningStake
<1>7. Claims(q)' = Claims(q) /\ StakedOn(q, winner[q])' = StakedOn(q, winner[q])
  BY <1>2 DEF Claims, StakedOn
<1>8. QED BY <1>1, <1>2, <1>3, <1>5, <1>6, <1>7

LEMMA RestKept ==
  ASSUME NEW q \in Pools, Rests(q), TokenPool(q), Paying(q)
  PROVE  TokenPool(q)' /\ Paying(q)'
<1>1. TokenPool(q)' BY DEF Rests, TokenPool, IsMultiAsset, Exists
<1>2. ASSUME InPayment(q)' PROVE Paying(q)'
  <2>1. /\ InPayment(q) /\ payout'[q] = payout[q] /\ status'[q] = status[q]
        /\ deposit'[q] = deposit[q] /\ feePending'[q] = feePending[q]
        /\ spent'[q] = spent[q] /\ swept'[q] = swept[q] /\ bettors'[q] = bettors[q]
        /\ Claims(q)' = Claims(q) /\ WinningTotal(q)' = WinningTotal(q)
        /\ StakedOn(q, winner[q])' = StakedOn(q, winner[q])
        /\ \A t \in Tokens : TokenNet(q, t)' = TokenNet(q, t)
    BY <1>2, RestingPays
  <2>2. /\ status[q] = "Settled" /\ payout[q].claimed > 0 /\ ClaimsWithinSide(q)
        /\ \A t \in AltTokens : TokenFloors(q, t)
    BY <2>1 DEF Paying
  <2>3. ClaimsWithinSide(q)' BY <2>1, <2>2 DEF ClaimsWithinSide
  <2>4. \A t \in AltTokens : TokenFloors(q, t)'
    BY <2>1, <2>2, OtherTokens DEF TokenFloors, FullyClaimed
  <2>5. QED BY <2>1, <2>2, <2>3, <2>4 DEF Paying
<1>3. QED BY <1>1, <1>2 DEF Paying

LEMMA RestReconciled ==
  ASSUME NEW q \in Pools, NEW t \in Tokens, Rests(q), Reconciled(q, t), Sole(q, t)' => Sole(q, t)
  PROVE  Reconciled(q, t)'
<1>1. ASSUME InPayment(q)', FullyClaimed(q)', Sole(q, t)' PROVE Reconciled(q, t)'
  <2>1. /\ InPayment(q) /\ payout'[q] = payout[q]
        /\ deposit'[q] = deposit[q] /\ feePending'[q] = feePending[q]
        /\ spent'[q] = spent[q] /\ swept'[q] = swept[q] /\ bettors'[q] = bettors[q]
        /\ WinningTotal(q)' = WinningTotal(q)
    BY <1>1, RestingPays
  <2>2. FullyClaimed(q) BY <1>1, <2>1 DEF FullyClaimed
  <2>3. QED BY <1>1, <2>1, <2>2 DEF Reconciled
<1>2. QED BY <1>1 DEF Reconciled

LEMMA RestDue ==
  ASSUME NEW q \in Pools, NEW t \in Tokens, Rests(q)
  PROVE  Owing(q, t)' = 0 \/ Owing(q, t)' = Owing(q, t)
<1>1. CASE q \in interfered' BY <1>1 DEF Owing
<1>2. CASE q \notin interfered'
  <2>1. q \notin interfered BY <1>2 DEF Rests
  <2>2. CASE InPayment(q)'
    <3>1. /\ InPayment(q) /\ feePending'[q] = feePending[q]
          /\ \A u \in Accounts : TokenShare(q, u, t)' = TokenShare(q, u, t)
      BY <2>2, RestingPays
    <3>2. SharesOf(q, t)' = SharesOf(q, t) BY <3>1 DEF SharesOf
    <3>3. /\ Owing(q, t) = feePending[q][t] + SumBelow(SharesOf(q, t), NumAccounts)
          /\ Owing(q, t)' = feePending'[q][t] + SumBelow(SharesOf(q, t)', NumAccounts)
      BY <2>1, <1>2, <2>2, <3>1 DEF InPayment, Owing, TokenLiability, SharesOf
    <3>4. QED BY <3>1, <3>2, <3>3
  <2>3. CASE ~InPayment(q)'
    <3>1. ~(payout[q].feeCredited /\ IsMultiAsset(q))
      BY <1>2, <2>3 DEF Rests, InPayment, IsMultiAsset
    <3>2. Owing(q, t) = deposit[q][t] BY <2>1, <3>1 DEF Owing, TokenLiability
    <3>3. Owing(q, t)' = deposit'[q][t] BY <1>2, <2>3 DEF Owing, TokenLiability, InPayment
    <3>4. QED BY <3>2, <3>3 DEF Rests
  <2>4. QED BY <2>2, <2>3
<1>3. QED BY <1>1, <1>2

-----------------------------------------------------------------------------
(* The calls of the single-asset market.                                   *)

AssetsRest ==
  /\ interfered' = interfered \cup Reopened
  /\ UNCHANGED <<rate, allowed, tokenLimits, deposit, feePending, tokenBalance, spent, swept>>

(* What is left to show of a call that touches no token.                   *)
MarketRests(q) ==
  /\ Exists(q) => Exists(q)'
  /\ IsMultiAsset(q) \/ ~Exists(q)' => payout'[q] = payout[q]
  /\ InPayment(q) /\ status'[q] = status[q] =>
       /\ winner'[q] = winner[q] /\ totals'[q] = totals[q]
       /\ stake'[q] = stake[q] /\ bettors'[q] = bettors[q] /\ hasBet'[q] = hasBet[q]

LEMMA MarketRest ==
  ASSUME AssetsRest, NEW q \in Pools, MarketRests(q)
  PROVE  Rests(q)
<1>1. q \in interfered => q \in interfered' BY DEF AssetsRest
<1>2. InPayment(q) /\ q \notin interfered' => status'[q] = status[q]
  BY DEF AssetsRest, Reopened, InPayment
<1>3. QED BY <1>1, <1>2 DEF AssetsRest, MarketRests, Rests

LEMMA RestInv ==
  ASSUME TokenInv, MarketBooks', TokenTypes', deposit' = deposit, \A q \in Pools : Rests(q),
         \A t \in AltTokens : Covered(t)' /\ \A q \in Pools : Held(q, t)'
  PROVE  TokenInv'
<1>1. \A q \in Pools : TokenPool(q)' /\ Paying(q)' BY RestKept DEF TokenInv
<1>2. ASSUME NEW t \in AltTokens, NEW q \in Pools PROVE Reconciled(q, t)'
  <2>1. t \in Tokens /\ Reconciled(q, t) BY OtherTokens DEF TokenInv
  <2>2. Sole(q, t)' <=> Sole(q, t) BY DEF Sole
  <2>3. QED BY <2>1, <2>2, RestReconciled
<1>3. QED BY <1>1, <1>2 DEF TokenInv

(* A token that no balance moves of stays enough.                          *)
LEMMA RestCovered ==
  ASSUME TokenInv, NEW t \in AltTokens, tokenBalance'[t] = tokenBalance[t],
         \A q \in Pools : Rests(q)
  PROVE  Covered(t)'
<1>1. t \in Tokens /\ Covered(t) BY OtherTokens DEF TokenInv
<1>2. \A q \in Pools : Owing(q, t) \in Nat BY <1>1, DueTypes DEF TokenInv
<1>3. \A q \in Pools : Owing(q, t)' = 0 \/ Owing(q, t)' = Owing(q, t) BY <1>1, RestDue
<1>4. \A q \in Pools : Owing(q, t) \in Int /\ Owing(q, t)' \in Int /\ Owing(q, t)' <= Owing(q, t)
  BY <1>2, <1>3
<1>5. tokenBalance[t] \in Int /\ tokenBalance'[t] \in Int
      /\ tokenBalance'[t] - tokenBalance[t] = 0
  BY DEF TokenInv, TokenTypes
<1>6. 1 \in Pools BY Sizes DEF Pools
<1>7. Owing(1, t)' - Owing(1, t) <= tokenBalance'[t] - tokenBalance[t] BY <1>4, <1>5, <1>6
<1>8. QED BY <1>1, <1>4, <1>5, <1>6, <1>7, CoverMoves

LEMMA AllRest ==
  ASSUME TokenInv, MarketBooks', TokenTypes', tokenBalance' = tokenBalance, deposit' = deposit,
         \A q \in Pools : Rests(q)
  PROVE  TokenInv'
<1>1. \A t \in AltTokens : Covered(t)' BY RestCovered
<1>2. ASSUME NEW t \in AltTokens, NEW q \in Pools PROVE Held(q, t)'
  <2>1. Held(q, t) /\ (Sole(q, t)' <=> Sole(q, t)) BY DEF TokenInv, Sole
  <2>2. QED BY <2>1 DEF Held, Rests
<1>3. QED BY <1>1, <1>2, RestInv

(* What every step keeps, and the pools that rest in it.                   *)
KeptBeside(p) == TokenInv' /\ \A q \in Pools : q # p => Rests(q)
KeptAtRest == TokenInv' /\ \A q \in Pools : Rests(q)

LEMMA MarketRestKeeps ==
  ASSUME TokenInv, AssetsRest, MarketBooks', \A q \in Pools : MarketRests(q)
  PROVE  KeptAtRest
<1>1. \A q \in Pools : Rests(q) BY MarketRest
<1>2. TokenTypes' /\ tokenBalance' = tokenBalance /\ deposit' = deposit
  BY DEF TokenInv, TokenTypes, AssetsRest
<1>3. QED BY <1>1, <1>2, AllRest DEF KeptAtRest

(* Steps that change neither the books nor who is paid.                    *)
LEMMA BooksRest ==
  ASSUME TokenInv, UNCHANGED bookVars
  PROVE  /\ StakeBooks' /\ RefundListComplete'
         /\ hasBet' \in [Pools -> SUBSET Accounts] /\ bettors' \in [Pools -> SUBSET Accounts]
<1>1. /\ StakeBooks /\ RefundListComplete
      /\ hasBet \in [Pools -> SUBSET Accounts] /\ bettors \in [Pools -> SUBSET Accounts]
  BY DEF TokenInv, MarketBooks
<1>2. /\ totals' = totals /\ stake' = stake /\ totalBet' = totalBet
      /\ hasBet' = hasBet /\ bettors' = bettors
  BY DEF bookVars
<1>3. QED BY <1>1, <1>2 DEF StakeBooks, StakesWithinTotals, StakedOn, RefundListComplete

LEMMA QuietKeeps ==
  ASSUME TokenInv, AssetsRest, ConfigTypeOK', UNCHANGED <<status, winner, lockedFee, payout>>,
         UNCHANGED bookVars
  PROVE  KeptAtRest
<1>1. MarketBooks'
  <2>1. LifeTypes' /\ WinnerDeclared' /\ IdsInOrder'
    BY DEF TokenInv, MarketBooks, LifeTypes, WinnerDeclared, IdsInOrder, Created, Exists
  <2>2. QED BY <2>1, BooksRest DEF MarketBooks
<1>2. \A q \in Pools : MarketRests(q) BY DEF MarketRests, Exists, bookVars
<1>3. QED BY <1>1, <1>2, MarketRestKeeps

LEMMA StatusKeeps ==
  ASSUME TokenInv, AssetsRest, NEW p \in Pools, NEW new \in Statuses \ {"None"}, Exists(p),
         new = "Settled" => status[p] = "Settled", status' = [status EXCEPT ![p] = new],
         UNCHANGED configVars, UNCHANGED <<winner, lockedFee, payout>>, UNCHANGED bookVars
  PROVE  KeptAtRest
<1>1. MarketBooks BY DEF TokenInv
<1>2. \A q \in Pools : status'[q] = IF q = p THEN new ELSE status[q]
  BY <1>1 DEF MarketBooks, LifeTypes
<1>3. \A q \in Pools : Exists(q)' <=> Exists(q) BY <1>2 DEF Exists
<1>4. MarketBooks'
  <2>1. ConfigTypeOK' BY <1>1, ConfigKept DEF MarketBooks
  <2>2. LifeTypes' BY <1>1 DEF MarketBooks, LifeTypes
  <2>3. WinnerDeclared' BY <1>1, <1>2 DEF MarketBooks, WinnerDeclared
  <2>4. Created' = Created BY <1>3 DEF Created
  <2>5. IdsInOrder' BY <1>1, <2>4 DEF MarketBooks, IdsInOrder
  <2>6. QED BY <2>1, <2>2, <2>3, <2>5, BooksRest DEF MarketBooks
<1>5. \A q \in Pools : MarketRests(q) BY <1>3 DEF MarketRests, bookVars
<1>6. QED BY <1>4, <1>5, MarketRestKeeps

(* A new pool takes an id that no pool has.                                *)
LEMMA NewPoolBooks ==
  ASSUME MarketBooks, NEW creator, NEW created, NEW duration, NEW deadline,
         NEW initial \in {"Open", "Scheduled"},
         CreatePoolInternal(creator, created, duration, deadline, initial)
  PROVE  LET p == Cardinality(Created) + 1
         IN  /\ p \in Pools /\ status[p] = "None"
             /\ \A q \in Pools : status'[q] = IF q = p THEN initial ELSE status[q]
             /\ LifeTypes' /\ WinnerDeclared' /\ IdsInOrder' /\ ConfigTypeOK'
             /\ UNCHANGED <<winner, payout>> /\ UNCHANGED bookVars
<1> DEFINE p == Cardinality(Created) + 1
<1>1. /\ p \in Pools /\ status' = [status EXCEPT ![p] = initial]
      /\ UNCHANGED configVars /\ UNCHANGED <<winner, lockedFee, payout>> /\ UNCHANGED bookVars
  BY DEF CreatePoolInternal, moneyVars
<1>2. status[p] = "None" /\ \E k \in 0 .. NumPools : Created \cup {p} = 1 .. k
  BY <1>1, NextId DEF MarketBooks
<1> HIDE DEF p
<1>3. \A q \in Pools : status'[q] = IF q = p THEN initial ELSE status[q]
  BY <1>1 DEF MarketBooks, LifeTypes
<1>4. initial \in Statuses /\ initial # "Settled" /\ initial # "None" BY DEF Statuses
<1>5. LifeTypes' BY <1>1, <1>4 DEF MarketBooks, LifeTypes
<1>6. WinnerDeclared' BY <1>1, <1>3, <1>4 DEF MarketBooks, WinnerDeclared
<1>7. Created' = Created \cup {p} BY <1>1, <1>3, <1>4 DEF Created, Exists
<1>8. IdsInOrder' BY <1>2, <1>7 DEF IdsInOrder
<1>9. ConfigTypeOK' BY <1>1, ConfigKept DEF MarketBooks
<1>10. QED BY <1>1, <1>2, <1>3, <1>5, <1>6, <1>8, <1>9 DEF p

LEMMA CreateKeeps ==
  ASSUME TokenInv, AssetsRest, NEW creator, NEW created, NEW duration, NEW deadline,
         NEW initial \in {"Open", "Scheduled"},
         CreatePoolInternal(creator, created, duration, deadline, initial)
  PROVE  KeptAtRest
<1> DEFINE p == Cardinality(Created) + 1
<1>1. /\ p \in Pools /\ status[p] = "None"
      /\ \A q \in Pools : status'[q] = IF q = p THEN initial ELSE status[q]
      /\ LifeTypes' /\ WinnerDeclared' /\ IdsInOrder' /\ ConfigTypeOK'
      /\ UNCHANGED <<winner, payout>> /\ UNCHANGED bookVars
  BY NewPoolBooks DEF TokenInv
<1> HIDE DEF p
<1>2. MarketBooks' BY <1>1, BooksRest DEF MarketBooks
<1>3. \A q \in Pools : MarketRests(q) BY <1>1 DEF MarketRests, Exists, bookVars
<1>4. QED BY <1>2, <1>3, MarketRestKeeps

LEMMA SettleKeeps ==
  ASSUME TokenInv, AssetsRest, NEW caller, NEW p \in Pools, NEW o \in Outcomes,
         SettlePool(caller, p, o)
  PROVE  KeptAtRest
<1> DEFINE fee == FeeForVolume(PoolTotal(p))
<1>1. MarketBooks BY DEF TokenInv
<1>2. /\ status[p] = "Open" /\ status' = [status EXCEPT ![p] = "Settled"]
      /\ winner' = [winner EXCEPT ![p] = o]
      /\ lockedFee' = [lockedFee EXCEPT ![p] = IF feeTiers = <<>> THEN @ ELSE fee]
      /\ UNCHANGED configVars /\ UNCHANGED payout /\ UNCHANGED bookVars
  BY DEF SettlePool, Settleable, moneyVars
<1>3. fee \in 0 .. BpsDenom
  <2> DEFINE f == totals[p]
  <2>1. \A i \in 0 .. NumOutcomes - 1 : f[i] \in Nat BY <1>1 DEF MarketBooks, StakeBooks, Outcomes
  <2> HIDE DEF f
  <2>2. SumBelow(f, NumOutcomes) \in Nat BY <2>1, Sizes, SumNat
  <2>3. PoolTotal(p) \in Nat BY <2>2 DEF PoolTotal, f
  <2>4. QED BY <1>1, <2>3, FeeForVolumeType DEF MarketBooks
<1> HIDE DEF fee
<1>4. \A q \in Pools : /\ status'[q] = IF q = p THEN "Settled" ELSE status[q]
                       /\ winner'[q] = IF q = p THEN o ELSE winner[q]
  BY <1>1, <1>2 DEF MarketBooks, LifeTypes
<1>5. \A q \in Pools : Exists(q)' <=> Exists(q) BY <1>2, <1>4 DEF Exists
<1>6. MarketBooks'
  <2>1. ConfigTypeOK' BY <1>1, <1>2, ConfigKept DEF MarketBooks
  <2>2. status' \in [Pools -> Statuses] BY <1>1, <1>2 DEF MarketBooks, LifeTypes, Statuses
  <2>3. winner' \in [Pools -> Outcomes \cup {NoOutcome}]
    BY <1>1, <1>2 DEF MarketBooks, LifeTypes
  <2>4. lockedFee' \in [Pools -> 0 .. BpsDenom \cup {NoFee}]
    BY <1>1, <1>2, <1>3 DEF MarketBooks, LifeTypes
  <2>5. LifeTypes' BY <1>1, <1>2, <2>2, <2>3, <2>4 DEF MarketBooks, LifeTypes
  <2>6. WinnerDeclared' BY <1>1, <1>4 DEF MarketBooks, WinnerDeclared
  <2>7. Created' = Created BY <1>5 DEF Created
  <2>8. IdsInOrder' BY <1>1, <2>7 DEF MarketBooks, IdsInOrder
  <2>9. QED BY <1>2, <2>1, <2>5, <2>6, <2>8, BooksRest DEF MarketBooks
<1>7. ~InPayment(p) BY <1>2 DEF TokenInv, Paying
<1>8. \A q \in Pools : MarketRests(q) BY <1>2, <1>4, <1>5, <1>7 DEF MarketRests, bookVars
<1>9. QED BY <1>6, <1>8, MarketRestKeeps

(***************************************************************************)
(* Stake that comes in or goes back, and the entry in the list of bettors. *)
(***************************************************************************)
LEMMA StakeMoves ==
  ASSUME MarketBooks, NEW u \in Accounts, NEW p \in Pools, NEW o \in Outcomes,
         NEW delta \in Int, stake[p][u][o] + delta >= 0,
         totals' = [totals EXCEPT ![p][o] = @ + delta],
         stake' = [stake EXCEPT ![p][u][o] = @ + delta],
         totalBet' = [totalBet EXCEPT ![p][u] = @ + delta],
         NEW joins \in SUBSET {u}, NEW lists \in SUBSET {u},
         hasBet' = [hasBet EXCEPT ![p] = @ \cup joins],
         bettors' = [bettors EXCEPT ![p] = @ \cup lists],
         delta > 0 /\ FirstBet(u, p) => u \in lists
  PROVE  /\ StakeBooks' /\ RefundListComplete'
         /\ hasBet' \in [Pools -> SUBSET Accounts] /\ bettors' \in [Pools -> SUBSET Accounts]
         /\ \A q \in Pools : q # p => /\ totals'[q] = totals[q] /\ stake'[q] = stake[q]
                                      /\ bettors'[q] = bettors[q] /\ hasBet'[q] = hasBet[q]
<1>1. /\ StakeBooks /\ RefundListComplete
      /\ hasBet \in [Pools -> SUBSET Accounts] /\ bettors \in [Pools -> SUBSET Accounts]
  BY DEF MarketBooks
<1>2. /\ totals' = [totals EXCEPT ![p][o] = @ + delta]
      /\ stake' = [stake EXCEPT ![p][u][o] = @ + delta]
      /\ totalBet' = [totalBet EXCEPT ![p][u] = @ + delta]
      /\ hasBet' = [hasBet EXCEPT ![p] = @ \cup joins]
      /\ bettors' = [bettors EXCEPT ![p] = @ \cup lists]
  OBVIOUS
<1>3. StakeBooks' BY <1>1, <1>2, MovedStakes
<1>4. /\ totals \in [Pools -> [Outcomes -> Nat]]
      /\ stake \in [Pools -> [Accounts -> [Outcomes -> Nat]]]
      /\ totalBet \in [Pools -> [Accounts -> Nat]]
  BY <1>1 DEF StakeBooks
<1>5. /\ hasBet' \in [Pools -> SUBSET Accounts] /\ bettors' \in [Pools -> SUBSET Accounts]
  BY <1>1, <1>2
<1>6. \A q \in Pools : q # p => /\ totals'[q] = totals[q] /\ stake'[q] = stake[q]
                                /\ bettors'[q] = bettors[q] /\ hasBet'[q] = hasBet[q]
  BY <1>1, <1>2, <1>4
<1>7. RefundListComplete'
  <2>1. SUFFICES ASSUME NEW q \in Pools, NEW v \in Accounts, totalBet'[q][v] > 0
                 PROVE  v \in bettors'[q]
    BY DEF RefundListComplete
  <2>2. bettors[q] \subseteq bettors'[q] BY <1>1, <1>2
  <2>3. totalBet[q][v] > 0 => v \in bettors[q] BY <1>1 DEF RefundListComplete
  <2>4. totalBet[q][v] \in Nat BY <1>4
  <2>5. CASE q = p /\ v = u
    <3>1. totalBet'[q][v] = totalBet[q][v] + delta BY <1>2, <1>4, <2>5
    <3>2. CASE totalBet[q][v] > 0 BY <2>2, <2>3, <3>2
    <3>3. CASE totalBet[q][v] = 0
      <4>1. u \in lists BY <2>1, <2>5, <3>1, <3>3 DEF FirstBet
      <4>2. QED BY <1>1, <1>2, <2>5, <4>1
    <3>4. QED BY <2>4, <3>2, <3>3
  <2>6. CASE ~(q = p /\ v = u)
    <3>1. totalBet'[q][v] = totalBet[q][v] BY <1>2, <1>4, <2>6
    <3>2. QED BY <2>1, <2>2, <2>3, <3>1
  <2>7. QED BY <2>5, <2>6
<1>8. QED BY <1>3, <1>5, <1>6, <1>7

(* A bet is taken on a pool that pays no one yet.                          *)
LEMMA BetBooks ==
  ASSUME MarketBooks, NEW u \in Accounts, NEW p \in Pools, NEW o \in Outcomes,
         NEW units \in Nat, status[p] \in {"Open", "Frozen"},
         totals' = [totals EXCEPT ![p][o] = @ + units],
         stake' = [stake EXCEPT ![p][u][o] = @ + units],
         totalBet' = [totalBet EXCEPT ![p][u] = @ + units],
         hasBet' = [hasBet EXCEPT ![p] = @ \cup {u}],
         bettors' = [bettors EXCEPT ![p] = IF FirstBet(u, p) THEN @ \cup {u} ELSE @],
         NEW new \in {"Open", "Frozen"}, status' = [status EXCEPT ![p] = new],
         UNCHANGED configVars, UNCHANGED <<winner, lockedFee, payout>>
  PROVE  /\ MarketBooks'
         /\ \A q \in Pools : Exists(q)' <=> Exists(q)
         /\ \A q \in Pools : q # p => /\ totals'[q] = totals[q] /\ stake'[q] = stake[q]
                                      /\ bettors'[q] = bettors[q] /\ hasBet'[q] = hasBet[q]
                                      /\ status'[q] = status[q]
<1> DEFINE lists == IF FirstBet(u, p) THEN {u} ELSE {}
<1>1. bettors' = [bettors EXCEPT ![p] = @ \cup lists] OBVIOUS
<1>2. lists \in SUBSET {u} /\ (FirstBet(u, p) => u \in lists) OBVIOUS
<1> HIDE DEF lists
<1>3. stake[p][u][o] + units >= 0 /\ units \in Int BY DEF MarketBooks, StakeBooks
<1>4. {u} \in SUBSET {u} OBVIOUS
<1>5. /\ StakeBooks' /\ RefundListComplete'
      /\ hasBet' \in [Pools -> SUBSET Accounts] /\ bettors' \in [Pools -> SUBSET Accounts]
      /\ \A q \in Pools : q # p => /\ totals'[q] = totals[q] /\ stake'[q] = stake[q]
                                   /\ bettors'[q] = bettors[q] /\ hasBet'[q] = hasBet[q]
  BY <1>1, <1>2, <1>3, <1>4, StakeMoves
<1>6. \A q \in Pools : status'[q] = IF q = p THEN new ELSE status[q]
  BY DEF MarketBooks, LifeTypes
<1>7. \A q \in Pools : Exists(q)' <=> Exists(q) BY <1>6 DEF Exists
<1>8. MarketBooks'
  <2>1. ConfigTypeOK' BY ConfigKept DEF MarketBooks
  <2>2. LifeTypes' BY DEF MarketBooks, LifeTypes, Statuses
  <2>3. WinnerDeclared' BY <1>6 DEF MarketBooks, WinnerDeclared
  <2>4. Created' = Created BY <1>7 DEF Created
  <2>5. IdsInOrder' BY <2>4 DEF MarketBooks, IdsInOrder
  <2>6. QED BY <1>5, <2>1, <2>2, <2>3, <2>5 DEF MarketBooks
<1>9. QED BY <1>5, <1>6, <1>7, <1>8

(* A bet in the contract's own token.                                      *)
LEMMA BetKeeps ==
  ASSUME TokenInv, AssetsRest, NEW u \in Accounts, NEW p \in Pools, NEW o \in Outcomes,
         NEW amount \in BetAmounts, PlaceBet(u, p, o, amount)
  PROVE  KeptAtRest
<1> DEFINE net == amount - Bps(amount, PlaceFeeBps)
<1>1. MarketBooks BY DEF TokenInv
<1>2. /\ status[p] \in {"Open", "Frozen"} /\ MoveStake(u, p, o, net)
      /\ hasBet' = [hasBet EXCEPT ![p] = @ \cup {u}]
      /\ bettors' = [bettors EXCEPT ![p] = IF FirstBet(u, p) THEN @ \cup {u} ELSE @]
      /\ \E new \in {"Open", "Frozen"} : status' = [status EXCEPT ![p] = new]
      /\ UNCHANGED configVars /\ UNCHANGED <<winner, lockedFee, payout>>
  BY DEF PlaceBet, AcceptsBets, Thawed
<1>3. net \in Nat
  <2>1. amount \in Nat BY MarketAssumption
  <2>2. Bps(amount, PlaceFeeBps) \in Nat /\ Bps(amount, PlaceFeeBps) <= amount
    BY <2>1, Sizes, BpsRange
  <2>3. QED BY <2>1, <2>2
<1> HIDE DEF net
<1>4. PICK new \in {"Open", "Frozen"} : status' = [status EXCEPT ![p] = new] BY <1>2
<1>5. /\ totals' = [totals EXCEPT ![p][o] = @ + net]
      /\ stake' = [stake EXCEPT ![p][u][o] = @ + net]
      /\ totalBet' = [totalBet EXCEPT ![p][u] = @ + net]
  BY <1>2 DEF MoveStake
<1>6. /\ MarketBooks'
      /\ \A q \in Pools : Exists(q)' <=> Exists(q)
      /\ \A q \in Pools : q # p => /\ totals'[q] = totals[q] /\ stake'[q] = stake[q]
                                   /\ bettors'[q] = bettors[q] /\ hasBet'[q] = hasBet[q]
  BY <1>1, <1>2, <1>3, <1>4, <1>5, BetBooks, ZenonT(60)
<1>7. ~InPayment(p) BY <1>2 DEF TokenInv, Paying
<1>8. \A q \in Pools : MarketRests(q) BY <1>2, <1>6, <1>7 DEF MarketRests
<1>9. QED BY <1>6, <1>8, MarketRestKeeps

(* cancel_bet refuses a pool of several tokens.                            *)
LEMMA CancelledKeeps ==
  ASSUME TokenInv, AssetsRest, NEW u \in Accounts, NEW p \in Pools, NEW o \in Outcomes,
         NEW amount \in CancelAmounts, ~IsMultiAsset(p), CancelBet(u, p, o, amount)
  PROVE  KeptAtRest
<1>1. MarketBooks BY DEF TokenInv
<1>2. /\ amount <= stake[p][u][o] /\ MoveStake(u, p, o, -amount)
      /\ UNCHANGED configVars /\ UNCHANGED <<status, winner, lockedFee, payout, hasBet, bettors>>
  BY DEF CancelBet, MayCancel, lifeVars
<1>3. amount \in Nat BY MarketAssumption
<1>4. stake[p][u][o] \in Nat BY <1>1 DEF MarketBooks, StakeBooks
<1>5. /\ -amount \in Int /\ stake[p][u][o] + (-amount) >= 0 /\ ~(-amount > 0)
  BY <1>2, <1>3, <1>4
<1>6. /\ totals' = [totals EXCEPT ![p][o] = @ + (-amount)]
      /\ stake' = [stake EXCEPT ![p][u][o] = @ + (-amount)]
      /\ totalBet' = [totalBet EXCEPT ![p][u] = @ + (-amount)]
  BY <1>2 DEF MoveStake
<1>7. /\ hasBet' = [hasBet EXCEPT ![p] = @ \cup {}]
      /\ bettors' = [bettors EXCEPT ![p] = @ \cup {}]
      /\ {} \in SUBSET {u}
  BY <1>1, <1>2 DEF MarketBooks
<1>8. /\ StakeBooks' /\ RefundListComplete'
      /\ hasBet' \in [Pools -> SUBSET Accounts] /\ bettors' \in [Pools -> SUBSET Accounts]
      /\ \A q \in Pools : q # p => /\ totals'[q] = totals[q] /\ stake'[q] = stake[q]
                                   /\ bettors'[q] = bettors[q] /\ hasBet'[q] = hasBet[q]
  <2> DEFINE delta == -amount
  <2>1. /\ delta \in Int /\ stake[p][u][o] + delta >= 0 /\ ~(delta > 0)
        /\ totals' = [totals EXCEPT ![p][o] = @ + delta]
        /\ stake' = [stake EXCEPT ![p][u][o] = @ + delta]
        /\ totalBet' = [totalBet EXCEPT ![p][u] = @ + delta]
    BY <1>5, <1>6
  <2> HIDE DEF delta
  <2>2. QED BY <1>1, <1>7, <2>1, StakeMoves
<1>9. MarketBooks'
  <2>1. ConfigTypeOK' BY <1>1, <1>2, ConfigKept DEF MarketBooks
  <2>2. LifeTypes' /\ WinnerDeclared' /\ IdsInOrder'
    BY <1>1, <1>2 DEF MarketBooks, LifeTypes, WinnerDeclared, IdsInOrder, Created, Exists
  <2>3. QED BY <1>8, <2>1, <2>2 DEF MarketBooks
<1>10. ~InPayment(p) BY DEF InPayment
<1>11. \A q \in Pools : MarketRests(q) BY <1>2, <1>8, <1>10 DEF MarketRests, Exists
<1>12. QED BY <1>9, <1>11, MarketRestKeeps

(* Bets that are paid back or out are taken off the books.                 *)
LEMMA StakesLeave ==
  ASSUME MarketBooks, NEW p \in Pools, NEW who \in SUBSET Accounts, RemoveBets(p, who)
  PROVE  /\ StakeBooks' /\ RefundListComplete'
         /\ hasBet' \in [Pools -> SUBSET Accounts] /\ bettors' \in [Pools -> SUBSET Accounts]
         /\ totals' = totals /\ bettors' = bettors
         /\ hasBet' = [hasBet EXCEPT ![p] = @ \ who]
         /\ \A q \in Pools : q # p => stake'[q] = stake[q] /\ hasBet'[q] = hasBet[q]
<1>1. /\ StakeBooks /\ RefundListComplete
      /\ hasBet \in [Pools -> SUBSET Accounts] /\ bettors \in [Pools -> SUBSET Accounts]
  BY DEF MarketBooks
<1>2. /\ StakeBooks'
      /\ \A q \in Pools : q # p => totalBet'[q] = totalBet[q] /\ stake'[q] = stake[q]
      /\ \A u \in Accounts : totalBet'[p][u] = IF u \in who THEN 0 ELSE totalBet[p][u]
  BY <1>1, RemovedStakes
<1>3. totals' = totals /\ bettors' = bettors /\ hasBet' = [hasBet EXCEPT ![p] = @ \ who]
  BY DEF RemoveBets
<1>4. hasBet' \in [Pools -> SUBSET Accounts] BY <1>1, <1>3
<1>5. RefundListComplete' BY <1>1, <1>2, <1>3 DEF RefundListComplete
<1>6. QED BY <1>1, <1>2, <1>3, <1>4, <1>5

(* Refunds and claims refuse a pool of several tokens.                     *)
LEMMA RemovalKeeps ==
  ASSUME TokenInv, AssetsRest, NEW p \in Pools, NEW who \in SUBSET Accounts, ~IsMultiAsset(p),
         RemoveBets(p, who), Exists(p), NEW new \in {status[p], "Cancelled"},
         status' = [status EXCEPT ![p] = new],
         payout' = [q \in Pools |-> payout'[q]],
         \A q \in Pools : q # p => payout'[q] = payout[q],
         payout'[p].feeCredited \in BOOLEAN /\ payout'[p].claimed \in Nat,
         UNCHANGED configVars, UNCHANGED <<winner, lockedFee>>
  PROVE  KeptAtRest
<1>1. MarketBooks BY DEF TokenInv
<1>2. /\ StakeBooks' /\ RefundListComplete'
      /\ hasBet' \in [Pools -> SUBSET Accounts] /\ bettors' \in [Pools -> SUBSET Accounts]
      /\ totals' = totals /\ bettors' = bettors
      /\ \A q \in Pools : q # p => stake'[q] = stake[q] /\ hasBet'[q] = hasBet[q]
  BY <1>1, StakesLeave
<1>3. \A q \in Pools : status'[q] = IF q = p THEN new ELSE status[q]
  BY <1>1 DEF MarketBooks, LifeTypes
<1>4. \A q \in Pools : Exists(q)' <=> Exists(q) BY <1>3 DEF Exists
<1>5. MarketBooks'
  <2>1. ConfigTypeOK' BY <1>1, ConfigKept DEF MarketBooks
  <2>2. LifeTypes'
    <3>1. status' \in [Pools -> Statuses] BY <1>1 DEF MarketBooks, LifeTypes, Statuses
    <3>2. \A q \in Pools : payout'[q].feeCredited \in BOOLEAN /\ payout'[q].claimed \in Nat
      BY <1>1 DEF MarketBooks, LifeTypes
    <3>3. QED BY <1>1, <3>1, <3>2 DEF MarketBooks, LifeTypes
  <2>3. WinnerDeclared' BY <1>1, <1>3 DEF MarketBooks, WinnerDeclared
  <2>4. Created' = Created BY <1>4 DEF Created
  <2>5. IdsInOrder' BY <1>1, <2>4 DEF MarketBooks, IdsInOrder
  <2>6. QED BY <1>2, <2>1, <2>2, <2>3, <2>5 DEF MarketBooks
<1>6. ~InPayment(p) BY DEF InPayment
<1>7. \A q \in Pools : MarketRests(q) BY <1>2, <1>4, <1>6 DEF MarketRests
<1>8. QED BY <1>5, <1>7, MarketRestKeeps

LEMMA RefundsKeep ==
  ASSUME TokenInv, AssetsRest, NEW p \in Pools, NEW who \in SUBSET Accounts, ~IsMultiAsset(p),
         RemoveBets(p, who), Exists(p), NEW new \in {status[p], "Cancelled"},
         status' = [status EXCEPT ![p] = new],
         UNCHANGED configVars, UNCHANGED <<winner, lockedFee, payout>>
  PROVE  KeptAtRest
<1>1. /\ payout' = payout /\ payout = [q \in Pools |-> payout[q]]
      /\ payout[p].feeCredited \in BOOLEAN /\ payout[p].claimed \in Nat
  BY DEF TokenInv, MarketBooks, LifeTypes
<1>2. payout' = [q \in Pools |-> payout'[q]] BY <1>1
<1>3. \A q \in Pools : q # p => payout'[q] = payout[q] BY <1>1
<1>4. payout'[p].feeCredited \in BOOLEAN /\ payout'[p].claimed \in Nat BY <1>1
<1>5. QED BY <1>2, <1>3, <1>4, RemovalKeeps

LEMMA BettorAssets ==
  ASSUME TokenInv, AssetsRest, NEW u \in Accounts, NEW p \in Pools, ~IsMultiAsset(p),
         BettorStep(u, p)
  PROVE  KeptAtRest
<1>1. CASE \E o \in Outcomes, amount \in CancelAmounts : CancelBet(u, p, o, amount)
  BY <1>1, CancelledKeeps
<1>2. {u} \in SUBSET Accounts OBVIOUS
<1>3. CASE ClaimRefund(u, p) \/ ClaimExpired(u, p)
  <2>1. /\ Exists(p) /\ RemoveBets(p, {u}) /\ status' = status
        /\ UNCHANGED configVars /\ UNCHANGED <<winner, lockedFee, payout>>
    BY <1>3 DEF ClaimRefund, ClaimExpired, RefundOne, PayOut, Exists, lifeVars
  <2>2. status' = [status EXCEPT ![p] = status[p]]
    BY <2>1 DEF TokenInv, MarketBooks, LifeTypes
  <2>3. QED BY <1>2, <2>1, <2>2, RefundsKeep
<1>4. CASE ClaimWinnings(u, p)
  <2> DEFINE paid == [feeCredited |-> TRUE, claimed |-> payout[p].claimed + WinningStake(p, u),
                      paidOut |-> payout[p].paidOut + Winnings(p, u)]
  <2>1. /\ status[p] = "Settled" /\ RemoveBets(p, {u}) /\ status' = status
        /\ payout' = [payout EXCEPT ![p] = paid]
        /\ UNCHANGED configVars /\ UNCHANGED <<winner, lockedFee>>
    BY <1>4 DEF ClaimWinnings, Claimable, lifeVars
  <2>2. /\ MarketBooks /\ winner[p] \in Outcomes
    BY <2>1 DEF TokenInv, MarketBooks, WinnerDeclared
  <2>3. WinningStake(p, u) \in Nat BY <2>2 DEF MarketBooks, StakeBooks, WinningStake
  <2>4. payout[p].claimed \in Nat BY <2>2 DEF MarketBooks, LifeTypes
  <2>5. paid.feeCredited \in BOOLEAN /\ paid.claimed \in Nat BY <2>3, <2>4
  <2> HIDE DEF paid
  <2>6. /\ payout' = [q \in Pools |-> payout'[q]] /\ payout'[p] = paid
        /\ \A q \in Pools : q # p => payout'[q] = payout[q]
    BY <2>1, <2>2 DEF MarketBooks, LifeTypes
  <2>7. status' = [status EXCEPT ![p] = status[p]] /\ Exists(p)
    BY <2>1, <2>2 DEF MarketBooks, LifeTypes, Exists
  <2>8. payout'[p].feeCredited \in BOOLEAN /\ payout'[p].claimed \in Nat BY <2>5, <2>6
  <2>9. QED BY <1>2, <2>1, <2>6, <2>7, <2>8, RemovalKeeps
<1>5. QED BY <1>1, <1>3, <1>4 DEF BettorStep

LEMMA RefundAllAssets ==
  ASSUME TokenInv, AssetsRest, NEW p \in Pools, ~IsMultiAsset(p), Exists(p), RefundAll(p),
         status' = [status EXCEPT ![p] = "Cancelled"],
         UNCHANGED configVars, UNCHANGED <<winner, lockedFee>>
  PROVE  KeptAtRest
<1>1. Refunded(p) \in SUBSET Accounts BY DEF TokenInv, MarketBooks, Refunded
<1>2. RemoveBets(p, Refunded(p)) /\ UNCHANGED payout BY DEF RefundAll, PayOut
<1>3. QED BY <1>1, <1>2, RefundsKeep

LEMMA OperatorAssets ==
  ASSUME TokenInv, AssetsRest, NEW caller \in Accounts, NEW p \in Pools,
         OperatorStep(caller, p), IsMultiAsset(p) => status'[p] # "Cancelled"
  PROVE  KeptAtRest
<1>1. MarketBooks BY DEF TokenInv
<1>2. CASE \/ \E seconds \in Extensions : ExtendPoolDuration(caller, p, seconds)
           \/ \E settler \in Settlers : AssignSettler(caller, p, settler)
  <2>1. /\ UNCHANGED configVars /\ UNCHANGED bookVars
        /\ UNCHANGED <<status, winner, lockedFee, payout>>
    BY <1>2 DEF ExtendPoolDuration, AssignSettler, moneyVars
  <2>2. ConfigTypeOK' BY <1>1, <2>1, ConfigKept DEF MarketBooks
  <2>3. QED BY <2>1, <2>2, QuietKeeps
<1>3. CASE \E o \in Outcomes : SettlePool(caller, p, o) BY <1>3, SettleKeeps
<1>4. CASE CancelPool(caller, p)
  <2>1. /\ Exists(p) /\ RefundAll(p) /\ status' = [status EXCEPT ![p] = "Cancelled"]
        /\ UNCHANGED configVars /\ UNCHANGED <<winner, lockedFee>>
    BY <1>4 DEF CancelPool, Cancellable, Exists
  <2>2. status'[p] = "Cancelled" BY <1>1, <2>1 DEF MarketBooks, LifeTypes
  <2>3. QED BY <2>1, <2>2, RefundAllAssets
<1>5. ASSUME NEW new \in Statuses \ {"None"}, Exists(p), new = "Settled" => status[p] = "Settled",
             ChangeStatus(p, new)
      PROVE  KeptAtRest
  <2>1. /\ status' = [status EXCEPT ![p] = new]
        /\ UNCHANGED configVars /\ UNCHANGED bookVars /\ UNCHANGED <<winner, lockedFee, payout>>
    BY <1>5 DEF ChangeStatus, moneyVars
  <2>2. QED BY <1>5, <2>1, StatusKeeps
<1>6. /\ "Voided" \in Statuses \ {"None"} /\ "Cancelled" \in Statuses \ {"None"}
      /\ "Frozen" \in Statuses \ {"None"} /\ "Disputed" \in Statuses \ {"None"}
      /\ "Open" \in Statuses \ {"None"} /\ status[p] \in Statuses
  BY <1>1 DEF MarketBooks, LifeTypes, Statuses
<1>7. CASE VoidPool(caller, p) BY <1>5, <1>6, <1>7 DEF VoidPool, Exists
<1>8. CASE CancelScheduledPool(caller, p)
  BY <1>5, <1>6, <1>8 DEF CancelScheduledPool, Exists
<1>9. CASE FreezePool(caller, p) BY <1>5, <1>6, <1>9 DEF FreezePool
<1>10. CASE DisputePool(caller, p) BY <1>5, <1>6, <1>10 DEF DisputePool, Exists
<1>11. CASE UnfreezePool(caller, p) BY <1>5, <1>6, <1>11 DEF UnfreezePool, Exists
<1>12. CASE OverridePoolCooling(caller, p)
  <2>1. PICK new \in Statuses \ {"None"} : /\ new = "Settled" => status[p] = "Settled"
                                           /\ Exists(p) /\ ChangeStatus(p, new)
    BY <1>6, <1>12 DEF OverridePoolCooling, Exists
  <2>2. QED BY <1>5, <2>1
<1>13. QED
  BY <1>2, <1>3, <1>4, <1>7, <1>8, <1>9, <1>10, <1>11, <1>12 DEF OperatorStep

LEMMA ConfigAssets ==
  ASSUME TokenInv, AssetsRest, NEW caller \in Accounts, ConfigStep(caller)
  PROVE  KeptAtRest
<1>1. ConfigTypeOK BY DEF TokenInv, MarketBooks
<1>2. /\ UNCHANGED bookVars /\ UNCHANGED <<status, winner, lockedFee, payout>>
  BY DEF ConfigStep, SetPaused, SetProtocolFee, SetVolumeFeeTiers,
         SetMinSettlementParticipants, WithdrawTreasury, lifeVars, moneyVars
<1>3. ASSUME NEW flag \in PauseChoices, SetPaused(caller, flag) PROVE ConfigTypeOK'
  <2>1. flag \in BOOLEAN BY MarketAssumption
  <2>2. QED BY <1>1, <1>3, <2>1 DEF SetPaused, ConfigTypeOK
<1>4. ASSUME NEW fee \in FeeChoices, SetProtocolFee(caller, fee) PROVE ConfigTypeOK'
  <2>1. fee \in 0 .. BpsDenom BY MarketAssumption
  <2>2. QED BY <1>1, <1>4, <2>1 DEF SetProtocolFee, ConfigTypeOK
<1>5. ASSUME NEW ts \in TierChoices, SetVolumeFeeTiers(caller, ts) PROVE ConfigTypeOK'
  BY <1>1, <1>5 DEF SetVolumeFeeTiers, ConfigTypeOK
<1>6. ASSUME NEW n \in MinParticipantChoices, SetMinSettlementParticipants(caller, n)
      PROVE  ConfigTypeOK'
  <2>1. n \in Nat BY MarketAssumption
  <2>2. QED BY <1>1, <1>6, <2>1 DEF SetMinSettlementParticipants, ConfigTypeOK
<1>7. ASSUME NEW amount, WithdrawTreasury(caller, amount) PROVE ConfigTypeOK'
  BY <1>1, <1>7, ConfigKept DEF WithdrawTreasury
<1>8. ConfigTypeOK' BY <1>3, <1>4, <1>5, <1>6, <1>7 DEF ConfigStep
<1>9. QED BY <1>2, <1>8, QuietKeeps

LEMMA MarketAssets ==
  ASSUME TokenInv, AssetsRest, MarketStep
  PROVE  KeptAtRest
<1>1. CASE Bet BY <1>1, BetKeeps DEF Bet
<1>2. CASE Tick
  <2>1. /\ UNCHANGED configVars /\ UNCHANGED bookVars
        /\ UNCHANGED <<status, winner, lockedFee, payout>>
    BY <1>2 DEF Tick, lifeVars, moneyVars
  <2>2. ConfigTypeOK' BY <2>1, ConfigKept DEF TokenInv, MarketBooks
  <2>3. QED BY <2>1, <2>2, QuietKeeps
<1>3. CASE \E c \in Creators : CreatorStep(c)
  <2>1. ASSUME NEW c, NEW d, NEW dd, CreatePool(c, d, dd) PROVE KeptAtRest
    BY <2>1, CreateKeeps DEF CreatePool
  <2>2. ASSUME NEW c, NEW d, NEW t, SchedulePool(c, d, t) PROVE KeptAtRest
    BY <2>2, CreateKeeps DEF SchedulePool
  <2>3. QED BY <1>3, <2>1, <2>2 DEF CreatorStep
<1>4. CASE \E c \in Accounts : ConfigStep(c) BY <1>4, ConfigAssets
<1>5. CASE \E c \in Accounts, p \in Pools : ~IsMultiAsset(p) /\ BettorStep(c, p)
  BY <1>5, BettorAssets
<1>6. CASE \E c \in Accounts, p \in Pools :
             OperatorStep(c, p) /\ (IsMultiAsset(p) => status'[p] # "Cancelled")
  BY <1>6, OperatorAssets
<1>7. CASE \E p \in Pools : ~IsMultiAsset(p) /\ KeeperStep(p)
  <2>1. PICK p \in Pools : ~IsMultiAsset(p) /\ KeeperStep(p) BY <1>7
  <2>2. CASE ActivateScheduledPool(p)
    <3>1. /\ Exists(p) /\ status' = [status EXCEPT ![p] = "Open"]
          /\ UNCHANGED configVars /\ UNCHANGED bookVars /\ UNCHANGED <<winner, lockedFee, payout>>
      BY <2>2 DEF ActivateScheduledPool, ChangeStatus, Exists, moneyVars
    <3>2. "Open" \in Statuses \ {"None"} /\ "Open" # "Settled" BY DEF Statuses
    <3>3. QED BY <3>1, <3>2, StatusKeeps
  <2>3. CASE RefundExpiredPool(p)
    <3>1. /\ Exists(p) /\ RefundAll(p) /\ status' = [status EXCEPT ![p] = "Cancelled"]
          /\ UNCHANGED configVars /\ UNCHANGED <<winner, lockedFee>>
      BY <2>3 DEF RefundExpiredPool, Exists
    <3>2. QED BY <2>1, <3>1, RefundAllAssets
  <2>4. QED BY <2>1, <2>2, <2>3 DEF KeeperStep
<1>8. QED BY <1>1, <1>2, <1>3, <1>4, <1>5, <1>6, <1>7 DEF MarketStep

-----------------------------------------------------------------------------
(* The calls of MultiAsset.                                                *)

(* The settings that no payout reads.                                      *)
LEMMA SetRateKeeps ==
  ASSUME TokenInv, NEW caller, NEW t \in RatedTokens, NEW bps \in RateChoices,
         SetTokenExchangeRate(caller, t, bps)
  PROVE  KeptAtRest
<1>1. /\ rate' = [rate EXCEPT ![t] = bps] /\ UNCHANGED vars
      /\ UNCHANGED <<allowed, deposit, feePending, tokenBalance, spent, swept, interfered>>
  BY DEF SetTokenExchangeRate
<1>2. /\ UNCHANGED <<status, winner, lockedFee, payout>> /\ UNCHANGED configVars
      /\ UNCHANGED bookVars
  BY <1>1 DEF vars, lifeVars, moneyVars
<1>3. bps \in Nat BY MultiAssetAssumption
<1>4. rate' \in [Tokens -> Nat] BY <1>1, <1>3 DEF TokenInv, TokenTypes
<1>5. TokenTypes' BY <1>1, <1>4 DEF TokenInv, TokenTypes
<1>6. MarketBooks'
  <2>1. ConfigTypeOK' BY <1>2, ConfigKept DEF TokenInv, MarketBooks
  <2>2. LifeTypes' /\ WinnerDeclared' /\ IdsInOrder'
    BY <1>2 DEF TokenInv, MarketBooks, LifeTypes, WinnerDeclared, IdsInOrder, Created, Exists
  <2>3. QED BY <1>2, <2>1, <2>2, BooksRest DEF MarketBooks
<1>7. \A q \in Pools : Rests(q) BY <1>1, <1>2 DEF Rests, Exists, bookVars
<1>8. QED BY <1>1, <1>5, <1>6, <1>7, AllRest DEF KeptAtRest

LEMMA SetLimitsKeeps ==
  ASSUME TokenInv, NEW caller, NEW p \in Pools, NEW t, NEW limits,
         SetPoolTokenBetLimits(caller, p, t, limits)
  PROVE  KeptAtRest
<1>1. /\ UNCHANGED vars
      /\ UNCHANGED <<rate, allowed, deposit, feePending, tokenBalance, spent, swept, interfered>>
  BY DEF SetPoolTokenBetLimits
<1>2. /\ UNCHANGED <<status, winner, lockedFee, payout>> /\ UNCHANGED configVars
      /\ UNCHANGED bookVars
  BY <1>1 DEF vars, lifeVars, moneyVars
<1>3. TokenTypes' BY <1>1 DEF TokenInv, TokenTypes
<1>4. MarketBooks'
  <2>1. ConfigTypeOK' BY <1>2, ConfigKept DEF TokenInv, MarketBooks
  <2>2. LifeTypes' /\ WinnerDeclared' /\ IdsInOrder'
    BY <1>2 DEF TokenInv, MarketBooks, LifeTypes, WinnerDeclared, IdsInOrder, Created, Exists
  <2>3. QED BY <1>2, <2>1, <2>2, BooksRest DEF MarketBooks
<1>5. \A q \in Pools : Rests(q) BY <1>1, <1>2 DEF Rests, Exists, bookVars
<1>6. QED BY <1>1, <1>3, <1>4, <1>5, AllRest DEF KeptAtRest

(***************************************************************************)
(* A step on one pool: its tokens move by what comes into it and goes out  *)
(* of it, and a token it has none of stays where it is.                    *)
(***************************************************************************)
LEMMA OneTokenStep ==
  ASSUME TokenInv, MarketBooks', TokenTypes', NEW p \in Pools,
         \A q \in Pools : q # p => Rests(q),
         TokenPool(p)', Paying(p)', p \in interfered => p \in interfered',
         \A t \in AltTokens :
           /\ Covered(t)' /\ Reconciled(p, t)' /\ deposit[p][t] <= deposit'[p][t]
           /\ deposit'[p][t] = 0 => spent'[p][t] = spent[p][t]
           /\ tokenBalance'[t] - tokenBalance[t]
                = (deposit'[p][t] - spent'[p][t]) - (deposit[p][t] - spent[p][t])
  PROVE  TokenInv'
<1>1. \A q \in Pools : TokenPool(q)' /\ Paying(q)' BY RestKept DEF TokenInv
<1>2. ASSUME NEW t \in AltTokens, NEW q \in Pools PROVE Held(q, t)' /\ Reconciled(q, t)'
  <2>1. t \in Tokens /\ Held(q, t) /\ Reconciled(q, t) BY OtherTokens DEF TokenInv
  <2>2. \A r \in Pools : /\ deposit[r][t] \in Nat /\ deposit'[r][t] \in Nat
                         /\ spent[r][t] \in Nat /\ spent'[r][t] \in Nat
    <3>1. TokenTypes /\ TokenTypes' BY DEF TokenInv
    <3>2. \A r \in Pools : deposit[r][t] \in Nat /\ deposit'[r][t] \in Nat
      BY <2>1, <3>1 DEF TokenTypes
    <3>3. \A r \in Pools : spent[r][t] \in Nat /\ spent'[r][t] \in Nat
      BY <3>1 DEF TokenTypes
    <3>4. QED BY <3>2, <3>3
  <2>3. tokenBalance[t] \in Nat /\ tokenBalance'[t] \in Nat BY DEF TokenInv, TokenTypes
  <2>4. \A r \in Pools : deposit'[r][t] = 0 => deposit[r][t] = 0
    BY <2>2 DEF Rests
  <2>5. Sole(q, t)' => Sole(q, t) BY <2>4 DEF Sole
  <2>6. CASE q = p
    <3>1. Held(q, t)' BY <2>1, <2>2, <2>3, <2>5, <2>6 DEF Held
    <3>2. QED BY <2>6, <3>1
  <2>7. CASE q # p
    <3>1. Rests(q) BY <2>7
    <3>2. Reconciled(q, t)' BY <2>1, <2>5, <3>1, RestReconciled
    <3>3. Sole(q, t)' => tokenBalance'[t] = tokenBalance[t]
      BY <2>2, <2>3, <2>4, <2>7 DEF Sole
    <3>4. Held(q, t)' BY <2>1, <2>5, <3>1, <3>3 DEF Held, Rests
    <3>5. QED BY <3>2, <3>4
  <2>8. QED BY <2>6, <2>7
<1>3. QED BY <1>1, <1>2 DEF TokenInv

LEMMA OneCovered ==
  ASSUME TokenInv, TokenTypes', NEW p \in Pools, NEW t \in AltTokens,
         \A q \in Pools : q # p => Rests(q),
         Owing(p, t)' \in Int, Owing(p, t)' - Owing(p, t) <= tokenBalance'[t] - tokenBalance[t]
  PROVE  Covered(t)'
<1>1. t \in Tokens /\ Covered(t) BY OtherTokens DEF TokenInv
<1>2. \A q \in Pools : Owing(q, t) \in Nat BY <1>1, DueTypes DEF TokenInv
<1>3. \A q \in Pools : q # p => Owing(q, t)' = 0 \/ Owing(q, t)' = Owing(q, t) BY <1>1, RestDue
<1>4. \A q \in Pools : Owing(q, t) \in Int /\ Owing(q, t)' \in Int BY <1>2, <1>3
<1>5. \A q \in Pools : q # p => Owing(q, t)' <= Owing(q, t) BY <1>2, <1>3
<1>6. tokenBalance[t] \in Int /\ tokenBalance'[t] \in Int BY DEF TokenInv, TokenTypes
<1>7. QED BY <1>1, <1>4, <1>5, <1>6, CoverMoves

(* When every other pool with the token is disturbed, only this one is due.*)
LEMMA LastCovered ==
  ASSUME TokenInv, TokenTypes', NEW p \in Pools, NEW t \in AltTokens,
         \A q \in Pools : q # p => Rests(q),
         \A q \in Pools : q # p /\ deposit[q][t] > 0 => q \in interfered',
         Owing(p, t)' \in Int, Owing(p, t)' <= tokenBalance'[t]
  PROVE  Covered(t)'
<1>1. t \in Tokens BY OtherTokens
<1>2. \A q \in Pools : Owing(q, t) \in Nat /\ Owing(q, t) <= deposit[q][t]
  BY <1>1, DueTypes DEF TokenInv
<1>3. \A q \in Pools : q # p => Owing(q, t)' = 0 \/ Owing(q, t)' = Owing(q, t) BY <1>1, RestDue
<1>4. \A q \in Pools : deposit[q][t] \in Nat BY <1>1 DEF TokenInv, TokenTypes
<1>5. \A q \in Pools : q # p => Owing(q, t)' = 0
  <2>1. SUFFICES ASSUME NEW q \in Pools, q # p PROVE Owing(q, t)' = 0 OBVIOUS
  <2>2. CASE q \in interfered' BY <2>2 DEF Owing
  <2>3. CASE q \notin interfered'
    <3>1. deposit[q][t] = 0 BY <1>4, <2>1, <2>3
    <3>2. Owing(q, t) = 0 BY <1>2, <3>1
    <3>3. QED BY <1>3, <2>1, <3>2
  <2>4. QED BY <2>2, <2>3
<1>6. tokenBalance'[t] \in Int BY DEF TokenTypes
<1>7. QED BY <1>5, <1>6, CoverLast

LEMMA CreateMultiKeeps ==
  ASSUME TokenInv, NEW creator, NEW duration, NEW deadline, NEW list \in TokenLists,
         CreateMultiAssetPool(creator, duration, deadline, list)
  PROVE  \E p \in Pools : KeptBeside(p) /\ ~InPayment(p) /\ interfered' = interfered
<1> DEFINE new == Cardinality(Created) + 1
<1>1. /\ CreatePoolInternal(creator, now, duration, deadline, "Open")
      /\ allowed' = [allowed EXCEPT ![new] = list]
      /\ UNCHANGED <<rate, deposit, feePending, tokenBalance, spent, swept, interfered>>
  BY DEF CreateMultiAssetPool, CreatePool
<1>2. "Open" \in {"Open", "Scheduled"} OBVIOUS
<1>3. /\ new \in Pools /\ status[new] = "None"
      /\ \A q \in Pools : status'[q] = IF q = new THEN "Open" ELSE status[q]
      /\ LifeTypes' /\ WinnerDeclared' /\ IdsInOrder' /\ ConfigTypeOK'
      /\ UNCHANGED <<winner, payout>> /\ UNCHANGED bookVars
  BY <1>1, <1>2, NewPoolBooks DEF TokenInv
<1> HIDE DEF new
<1>4. PICK p \in Pools : p = new BY <1>3
<1>5. MarketBooks' BY <1>3, BooksRest DEF MarketBooks
<1>6. list \in SUBSET Tokens BY MultiAssetAssumption
<1>7. allowed' \in [Pools -> SUBSET Tokens] BY <1>1, <1>3, <1>6 DEF TokenInv, TokenTypes
<1>8. TokenTypes' BY <1>1, <1>7 DEF TokenInv, TokenTypes
<1>9. \A q \in Pools : q # p => allowed'[q] = allowed[q] BY <1>1, <1>4 DEF TokenInv, TokenTypes
<1>10. \A q \in Pools : q # p => Rests(q) BY <1>1, <1>3, <1>9, <1>4 DEF Rests, Exists, bookVars
<1>11. /\ allowed[p] = {} /\ payout[p] = NoPayout
       /\ \A t \in Tokens : /\ deposit[p][t] = 0 /\ feePending[p][t] = 0
                            /\ spent[p][t] = 0 /\ swept[p][t] = 0
  BY <1>3, <1>4 DEF TokenInv, TokenPool, Exists, IsMultiAsset
<1>12. ~payout'[p].feeCredited /\ payout'[p].claimed = 0 BY <1>3, <1>11 DEF NoPayout
<1>13. Exists(p)' BY <1>3, <1>4 DEF Exists
<1>14. TokenPool(p)' BY <1>1, <1>11, <1>12, <1>13 DEF TokenPool
<1>15. ~InPayment(p)' BY <1>12 DEF InPayment
<1>16. Paying(p)' /\ \A t \in AltTokens : Reconciled(p, t)' BY <1>15 DEF Paying, Reconciled
<1>17. ASSUME NEW t \in AltTokens PROVE Covered(t)'
  <2>1. t \in Tokens BY OtherTokens
  <2>2. Owing(p, t) = 0 /\ Owing(p, t)' = 0
    BY <1>1, <1>11, <1>12, <2>1 DEF Owing, TokenLiability, IsMultiAsset
  <2>3. tokenBalance[t] \in Int /\ tokenBalance'[t] = tokenBalance[t]
    BY <1>1 DEF TokenInv, TokenTypes
  <2>4. Owing(p, t)' \in Int /\ Owing(p, t)' - Owing(p, t) <= tokenBalance'[t] - tokenBalance[t]
    BY <2>2, <2>3
  <2>5. QED BY <1>8, <1>10, <2>4, OneCovered
<1>18. ASSUME NEW t \in AltTokens
       PROVE  /\ deposit[p][t] <= deposit'[p][t]
              /\ deposit'[p][t] = 0 => spent'[p][t] = spent[p][t]
              /\ tokenBalance'[t] - tokenBalance[t]
                   = (deposit'[p][t] - spent'[p][t]) - (deposit[p][t] - spent[p][t])
  <2>1. t \in Tokens BY OtherTokens
  <2>2. deposit[p][t] = 0 /\ spent[p][t] = 0 /\ tokenBalance[t] \in Nat
    BY <1>11, <2>1 DEF TokenInv, TokenTypes
  <2>3. QED BY <1>1, <2>2
<1>19. p \in interfered => p \in interfered' BY <1>1
<1>20. TokenInv'
  BY <1>5, <1>8, <1>10, <1>14, <1>16, <1>17, <1>18, <1>19, OneTokenStep
<1>21. ~InPayment(p) BY <1>11 DEF InPayment, IsMultiAsset
<1>22. QED BY <1>1, <1>10, <1>20, <1>21 DEF KeptBeside

LEMMA PlaceMultiKeeps ==
  ASSUME TokenInv, NEW u \in Accounts, NEW p \in Pools, NEW o \in Outcomes,
         NEW amount \in TokenBets, NEW t \in Tokens, PlaceMultiAssetBet(u, p, o, amount, t)
  PROVE  KeptBeside(p) /\ ~InPayment(p) /\ interfered' = interfered
<1> DEFINE units == Normalized(t, amount)
<1>1. /\ t \in allowed[p] /\ status[p] \in {"Open", "Frozen"}
      /\ TransferOut(Only(t, -amount))
      /\ deposit' = [deposit EXCEPT ![p][t] = @ + amount]
      /\ MoveTokenStake(u, p, o, units)
      /\ hasBet' = [hasBet EXCEPT ![p] = @ \cup {u}]
      /\ bettors' = [bettors EXCEPT ![p] = IF FirstBet(u, p) THEN @ \cup {u} ELSE @]
      /\ \E new \in {"Open", "Frozen"} : status' = [status EXCEPT ![p] = new]
      /\ UNCHANGED configVars /\ UNCHANGED <<winner, lockedFee, payout>>
      /\ UNCHANGED <<rate, allowed, feePending, spent, swept, interfered>>
  BY DEF PlaceMultiAssetBet, TakesTokenBet, AcceptsBets, Thawed
<1>2. amount \in Nat BY MultiAssetAssumption
<1>3. units \in Nat
  <2>1. rate[t] \in Nat BY DEF TokenInv, TokenTypes
  <2>2. amount * rate[t] \in Nat BY <1>2, <2>1
  <2>3. QED BY <2>2, Sizes, DivNat DEF Normalized, Bps
<1> HIDE DEF units
<1>4. PICK new \in {"Open", "Frozen"} : status' = [status EXCEPT ![p] = new] BY <1>1
<1>5. /\ totals' = [totals EXCEPT ![p][o] = @ + units]
      /\ stake' = [stake EXCEPT ![p][u][o] = @ + units]
      /\ totalBet' = [totalBet EXCEPT ![p][u] = @ + units]
  BY <1>1 DEF MoveTokenStake
<1>6. /\ MarketBooks'
      /\ \A q \in Pools : Exists(q)' <=> Exists(q)
      /\ \A q \in Pools : q # p => /\ totals'[q] = totals[q] /\ stake'[q] = stake[q]
                                   /\ bettors'[q] = bettors[q] /\ hasBet'[q] = hasBet[q]
                                   /\ status'[q] = status[q]
  BY <1>1, <1>3, <1>4, <1>5, BetBooks DEF TokenInv
<1>7. TokenTypes /\ TokenPool(p) BY DEF TokenInv
<1>8. \A q \in Pools, s \in Tokens :
        /\ deposit[q][s] \in Nat
        /\ deposit'[q][s] = deposit[q][s] + (IF q = p /\ s = t THEN amount ELSE 0)
  BY <1>1, <1>2, <1>7 DEF TokenTypes
<1>9. \A s \in AltTokens : /\ tokenBalance[s] \in Nat
                           /\ tokenBalance'[s] = tokenBalance[s] + (IF s = t THEN amount ELSE 0)
  BY <1>1, <1>2, <1>7, OtherTokens DEF TransferOut, Only, TokenTypes
<1>10. TokenTypes'
  <2>1. deposit' \in [Pools -> [Tokens -> Nat]] BY <1>1, <1>2, <1>7 DEF TokenTypes
  <2>2. tokenBalance' = [s \in AltTokens |-> tokenBalance'[s]] BY <1>1 DEF TransferOut
  <2>3. \A s \in AltTokens : tokenBalance'[s] \in Nat BY <1>2, <1>9
  <2>4. UNCHANGED <<rate, allowed, feePending, spent, swept>> BY <1>1
  <2>5. tokenBalance' \in [AltTokens -> Nat] BY <2>2, <2>3
  <2>6. QED BY <1>7, <2>1, <2>4, <2>5 DEF TokenTypes
<1>11. \A q \in Pools : q # p => deposit'[q] = deposit[q]
  BY <1>1, <1>7 DEF TokenTypes
<1>12. \A q \in Pools : q # p => Rests(q) BY <1>1, <1>6, <1>11 DEF Rests
<1>13. ~InPayment(p) /\ ~InPayment(p)'
  <2>1. ~InPayment(p) BY <1>1 DEF TokenInv, Paying
  <2>2. QED BY <1>1, <2>1 DEF InPayment, IsMultiAsset
<1>14. Paying(p)' /\ \A s \in AltTokens : Reconciled(p, s)' BY <1>13 DEF Paying, Reconciled
<1>15. TokenPool(p)'
  <2>1. feePending \in [Pools -> [Tokens -> Nat]] BY <1>7 DEF TokenTypes
  <2>2. \A s \in Tokens : feePending[p][s] <= deposit'[p][s]
    BY <1>2, <1>7, <1>8, <2>1 DEF TokenPool
  <2>3. \A s \in Tokens : s \notin allowed[p] => deposit'[p][s] = 0
    BY <1>1, <1>7, <1>8 DEF TokenPool
  <2>4. QED BY <1>1, <1>6, <1>7, <2>2, <2>3 DEF TokenPool, IsMultiAsset
<1>16. ASSUME NEW s \in AltTokens PROVE Covered(s)'
  <2>1. s \in Tokens BY OtherTokens
  <2>2. /\ Owing(p, s) = IF p \in interfered THEN 0 ELSE deposit[p][s]
        /\ Owing(p, s)' = IF p \in interfered THEN 0 ELSE deposit'[p][s]
    BY <1>1, <1>13 DEF Owing, TokenLiability, InPayment
  <2>3. Owing(p, s)' \in Int /\ Owing(p, s)' - Owing(p, s) <= tokenBalance'[s] - tokenBalance[s]
    BY <1>2, <1>8, <1>9, <2>1, <2>2
  <2>4. QED BY <1>10, <1>12, <2>3, OneCovered
<1>17. ASSUME NEW s \in AltTokens
       PROVE  /\ deposit[p][s] <= deposit'[p][s]
              /\ deposit'[p][s] = 0 => spent'[p][s] = spent[p][s]
              /\ tokenBalance'[s] - tokenBalance[s]
                   = (deposit'[p][s] - spent'[p][s]) - (deposit[p][s] - spent[p][s])
  <2>1. s \in Tokens /\ spent[p][s] \in Nat /\ spent'[p][s] = spent[p][s]
    BY <1>1, <1>7, OtherTokens DEF TokenTypes
  <2>2. QED BY <1>2, <1>8, <1>9, <2>1
<1>18. p \in interfered => p \in interfered' BY <1>1
<1>19. TokenInv'
  BY <1>6, <1>10, <1>12, <1>14, <1>15, <1>16, <1>17, <1>18, OneTokenStep
<1>20. QED BY <1>1, <1>12, <1>13, <1>19 DEF KeptBeside

(***************************************************************************)
(* What rescue_tokens takes disturbs every pool with deposits of the token,*)
(* and a token that no pool has deposits of is not there to take.          *)
(***************************************************************************)
LEMMA RescueKeeps ==
  ASSUME TokenInv, NEW caller, NEW t \in Tokens, NEW amount \in RescueAmounts,
         RescueTokens(caller, t, amount)
  PROVE  KeptAtRest
<1>1. /\ Funded(Only(t, amount)) /\ TransferOut(Only(t, amount))
      /\ interfered' = interfered \cup Sharing({t})
      /\ UNCHANGED configVars /\ UNCHANGED bookVars
      /\ UNCHANGED <<status, winner, lockedFee, payout>>
      /\ UNCHANGED <<rate, allowed, deposit, feePending, spent, swept>>
  BY DEF RescueTokens, lifeVars
<1>2. amount \in Nat /\ amount > 0 BY MultiAssetAssumption
<1>3. TokenTypes BY DEF TokenInv
<1>4. \A s \in AltTokens :
        /\ tokenBalance[s] \in Nat
        /\ tokenBalance'[s] = tokenBalance[s] - (IF s = t THEN amount ELSE 0)
        /\ s = t => amount <= tokenBalance[s]
  BY <1>1, <1>3, OtherTokens DEF TransferOut, Funded, Only, BalanceOf, AltTokens, BaseToken, TokenTypes
<1>5. TokenTypes'
  <2>1. tokenBalance' = [s \in AltTokens |-> tokenBalance'[s]] BY <1>1 DEF TransferOut
  <2>2. \A s \in AltTokens : tokenBalance'[s] \in Nat BY <1>2, <1>4
  <2>3. QED BY <1>1, <1>3, <2>1, <2>2 DEF TokenTypes
<1>6. MarketBooks'
  <2>1. ConfigTypeOK' BY <1>1, ConfigKept DEF TokenInv, MarketBooks
  <2>2. LifeTypes' /\ WinnerDeclared' /\ IdsInOrder'
    BY <1>1 DEF TokenInv, MarketBooks, LifeTypes, WinnerDeclared, IdsInOrder, Created, Exists
  <2>3. QED BY <1>1, <2>1, <2>2, BooksRest DEF MarketBooks
<1>7. \A q \in Pools : Rests(q) BY <1>1 DEF Rests, Exists, bookVars
<1>8. \A q \in Pools : deposit[q][t] \in Nat BY <1>3 DEF TokenTypes
<1>9. \A q \in Pools : deposit[q][t] > 0 => q \in interfered' BY <1>1 DEF Sharing
<1>10. ASSUME NEW s \in AltTokens PROVE Covered(s)'
  <2>1. CASE s = t
    <3>1. 1 \in Pools BY Sizes DEF Pools
    <3>2. Owing(1, s)' = 0
      <4>1. CASE 1 \in interfered' BY <4>1 DEF Owing
      <4>2. CASE 1 \notin interfered'
        <5>1. deposit[1][s] = 0 BY <1>8, <1>9, <2>1, <3>1, <4>2
        <5>2. Owing(1, s) \in Nat /\ Owing(1, s) <= deposit[1][s]
          BY <2>1, <3>1, DueTypes DEF TokenInv
        <5>3. QED BY <1>7, <2>1, <3>1, <5>1, <5>2, RestDue
      <4>3. QED BY <4>1, <4>2
    <3>3. tokenBalance'[s] \in Nat BY <1>5 DEF TokenTypes
    <3>4. Owing(1, s)' \in Int /\ Owing(1, s)' <= tokenBalance'[s] BY <3>2, <3>3
    <3>5. QED BY <1>5, <1>7, <1>9, <2>1, <3>1, <3>4, LastCovered
  <2>2. CASE s # t
    <3>1. tokenBalance'[s] = tokenBalance[s] BY <1>4, <2>2
    <3>2. QED BY <1>7, <3>1, RestCovered
  <2>3. QED BY <2>1, <2>2
<1>11. ASSUME NEW s \in AltTokens, NEW q \in Pools PROVE Held(q, s)'
  <2>1. Held(q, s) /\ (Sole(q, s)' <=> Sole(q, s)) BY <1>1 DEF TokenInv, Sole
  <2>2. q \in interfered => q \in interfered' BY <1>1
  <2>3. CASE s # t
    <3>1. tokenBalance'[s] = tokenBalance[s] BY <1>4, <2>3
    <3>2. QED BY <1>1, <2>1, <2>2, <3>1 DEF Held
  <2>4. CASE s = t
    <3>1. SUFFICES ASSUME q \notin interfered', Sole(q, s) PROVE FALSE BY <2>1 DEF Held
    <3>2. tokenBalance[s] = deposit[q][s] - spent[q][s] BY <2>1, <2>2, <3>1 DEF Held
    <3>3. deposit[q][s] = 0 BY <1>8, <1>9, <2>4, <3>1
    <3>4. spent[q][s] \in Nat BY <1>3 DEF TokenTypes
    <3>5. QED BY <1>2, <1>4, <2>4, <3>2, <3>3, <3>4
  <2>5. QED BY <2>3, <2>4
<1>12. QED BY <1>1, <1>5, <1>6, <1>7, <1>10, <1>11, RestInv DEF KeptAtRest

(***************************************************************************)
(* Fees collected early take the pool out of the guarantee; those of a     *)
(* pool that already is may be another pool's tokens.                      *)
(***************************************************************************)
LEMMA CollectKeeps ==
  ASSUME TokenInv, NEW caller, NEW p \in Pools, CollectMultiAssetFees(caller, p)
  PROVE  KeptBeside(p)
<1>1. /\ status[p] = "Settled" /\ IsMultiAsset(p)
      /\ Funded(feePending[p]) /\ TransferOut(feePending[p])
      /\ feePending' = [feePending EXCEPT ![p] = [t \in Tokens |-> 0]]
      /\ spent' = [spent EXCEPT ![p] = [t \in Tokens |-> @[t] + feePending[p][t]]]
      /\ interfered' = interfered
           \cup (IF p \in interfered THEN Sharing(allowed[p]) ELSE {})
           \cup (IF payout[p].claimed < WinningTotal(p) THEN {p} ELSE {})
      /\ UNCHANGED configVars /\ UNCHANGED bookVars
      /\ UNCHANGED <<status, winner, lockedFee, payout>>
      /\ UNCHANGED <<rate, allowed, deposit, swept>>
  BY DEF CollectMultiAssetFees, lifeVars
<1>2. TokenTypes /\ TokenPool(p) /\ Paying(p) /\ MarketBooks BY DEF TokenInv
<1>3. \A t \in Tokens : /\ deposit[p][t] \in Nat /\ feePending[p][t] \in Nat
                        /\ feePending[p][t] <= deposit[p][t] /\ feePending'[p][t] = 0
                        /\ spent'[p][t] = spent[p][t] + feePending[p][t]
                        /\ t \notin allowed[p] => deposit[p][t] = 0
  BY <1>1, <1>2 DEF TokenTypes, TokenPool
<1>4. \A t \in AltTokens :
        /\ tokenBalance[t] \in Nat /\ feePending[p][t] <= tokenBalance[t]
        /\ tokenBalance'[t] = tokenBalance[t] - feePending[p][t]
        /\ spent[p][t] \in Nat
  <2>1. TAKE t \in AltTokens
  <2>2. t \in Tokens /\ t # BaseToken BY OtherTokens DEF AltTokens, BaseToken
  <2>3. tokenBalance[t] \in Nat /\ spent[p][t] \in Nat BY <1>2 DEF TokenTypes
  <2>4. feePending[p][t] <= tokenBalance[t] BY <1>1, <2>2 DEF Funded, BalanceOf
  <2>5. tokenBalance'[t] = tokenBalance[t] - feePending[p][t] BY <1>1 DEF TransferOut
  <2>6. QED BY <2>3, <2>4, <2>5
<1>5. TokenTypes'
  <2>1. feePending' \in [Pools -> [Tokens -> Nat]] BY <1>1, <1>2 DEF TokenTypes
  <2>2. tokenBalance' \in [AltTokens -> Nat]
    <3>1. tokenBalance' = [t \in AltTokens |-> tokenBalance'[t]] BY <1>1 DEF TransferOut
    <3>2. \A t \in AltTokens : tokenBalance'[t] \in Nat BY <1>3, <1>4, OtherTokens
    <3>3. QED BY <3>1, <3>2
  <2>3. spent' = [q \in Pools |-> [t \in Tokens |-> spent'[q][t]]]
    BY <1>1, <1>2 DEF TokenTypes
  <2>4. \A q \in Pools, t \in AltTokens : spent'[q][t] \in Nat
    <3>1. TAKE q \in Pools, t \in AltTokens
    <3>2. spent[q][t] \in Nat /\ t \in Tokens BY <1>2, OtherTokens DEF TokenTypes
    <3>3. CASE q = p BY <1>3, <3>2, <3>3
    <3>4. CASE q # p
      <4>1. spent'[q] = spent[q] BY <1>1, <1>2, <3>4 DEF TokenTypes
      <4>2. QED BY <3>2, <4>1
    <3>5. QED BY <3>3, <3>4
  <2>5. UNCHANGED <<rate, allowed, deposit, swept>> BY <1>1
  <2>6. QED BY <1>2, <2>1, <2>2, <2>3, <2>4, <2>5 DEF TokenTypes
<1>6. MarketBooks'
  <2>1. ConfigTypeOK' BY <1>1, ConfigKept DEF TokenInv, MarketBooks
  <2>2. LifeTypes' /\ WinnerDeclared' /\ IdsInOrder'
    BY <1>1, <1>2 DEF MarketBooks, LifeTypes, WinnerDeclared, IdsInOrder, Created, Exists
  <2>3. QED BY <1>1, <2>1, <2>2, BooksRest DEF MarketBooks
<1>7. \A q \in Pools : q # p => Rests(q)
  <2>1. \A q \in Pools : q # p => feePending'[q] = feePending[q] /\ spent'[q] = spent[q]
    BY <1>1, <1>2 DEF TokenTypes
  <2>2. QED BY <1>1, <2>1 DEF Rests, Exists, bookVars
<1>8. /\ \A t \in AltTokens :
           deposit[p][t] \in Nat /\ feePending[p][t] \in Nat /\ Owing(p, t) \in Nat
      /\ InPayment(p) => \A t \in AltTokens : Owing(p, t) >= feePending[p][t]
      /\ InPayment(p) /\ payout[p].claimed = WinningTotal(p) =>
           /\ \A u \in Accounts : WinningStake(p, u) = 0
           /\ \A t \in AltTokens : Owing(p, t) = feePending[p][t]
  <2>1. \A t \in AltTokens : t \in Tokens /\ Owing(p, t) \in Nat
    BY <1>2, OtherTokens, DueTypes
  <2>2. ASSUME InPayment(p)
        PROVE  /\ winner[p] \in Outcomes /\ WinningTotal(p) \in Nat /\ WinningTotal(p) > 0
               /\ payout[p].claimed \in Nat /\ ClaimsWithinSide(p)
               /\ StakedOn(p, winner[p]) \in Nat
               /\ \A t \in AltTokens :
                    Owing(p, t) = feePending[p][t] + SumBelow(SharesOf(p, t), NumAccounts)
    <3>1. payout[p].claimed > 0 /\ ClaimsWithinSide(p) BY <1>2, <2>2 DEF Paying
    <3>2. winner[p] \in Outcomes /\ payout[p].claimed \in Nat
      BY <1>1, <1>2 DEF MarketBooks, WinnerDeclared, LifeTypes
    <3>3. WinningTotal(p) \in Nat /\ StakedOn(p, winner[p]) \in Nat
      BY <1>2, <3>2, StakedOnTypes DEF WinningTotal
    <3>4. WinningTotal(p) > 0 BY <3>1, <3>2, <3>3 DEF ClaimsWithinSide
    <3>5. \A t \in AltTokens :
            Owing(p, t) = feePending[p][t] + SumBelow(SharesOf(p, t), NumAccounts)
      BY <2>2 DEF InPayment, Owing, TokenLiability, SharesOf
    <3>6. QED BY <3>1, <3>2, <3>3, <3>4, <3>5
  <2>3. ASSUME InPayment(p), NEW t \in AltTokens PROVE Owing(p, t) >= feePending[p][t]
    <3>1. SumBelow(SharesOf(p, t), NumAccounts) \in Nat
      BY <1>2, <2>1, <2>2, <2>3, TokenShares
    <3>2. QED BY <1>3, <2>1, <2>2, <2>3, <3>1
  <2>4. ASSUME InPayment(p), payout[p].claimed = WinningTotal(p)
        PROVE  /\ \A u \in Accounts : WinningStake(p, u) = 0
               /\ \A t \in AltTokens : Owing(p, t) = feePending[p][t]
    <3>1. StakedOn(p, winner[p]) = 0 BY <2>2, <2>4 DEF ClaimsWithinSide
    <3>2. \A u \in Accounts : WinningStake(p, u) = 0
      BY <1>2, <2>2, <2>4, <3>1, StakedOnTypes DEF WinningStake
    <3>3. ASSUME NEW t \in AltTokens PROVE Owing(p, t) = feePending[p][t]
      <4>1. TokenNet(p, t) \in Nat BY <1>2, <2>1, TokenAmounts
      <4>2. \A u \in Accounts : TokenShare(p, u, t) = 0
        <5>1. TAKE u \in Accounts
        <5>2. TokenNet(p, t) * WinningStake(p, u) = 0 BY <3>2, <4>1
        <5>3. WinningTotal(p) \in Nat \ {0} BY <2>2, <2>4
        <5>4. 0 \div WinningTotal(p) = 0 BY <5>3
        <5>5. QED BY <5>2, <5>4 DEF TokenShare
      <4> DEFINE f == SharesOf(p, t)
      <4>3. \A i \in 0 .. NumAccounts - 1 : f[i] = 0 BY <4>2 DEF SharesOf, Accounts
      <4>4. Owing(p, t) = feePending[p][t] + SumBelow(f, NumAccounts) BY <2>2, <2>4
      <4> HIDE DEF f
      <4>5. SumBelow(f, NumAccounts) = 0 BY <4>3, Sizes, SumZero
      <4>6. QED BY <1>3, <2>1, <4>4, <4>5
    <3>4. QED BY <3>2, <3>3
  <2>5. QED BY <1>3, <2>1, <2>3, <2>4
<1>9. TokenPool(p)'
  <2>1. ~payout[p].feeCredited => \A t \in Tokens : spent'[p][t] = 0 /\ feePending[p][t] = 0
    BY <1>2, <1>3 DEF TokenPool
  <2>2. QED BY <1>1, <1>2, <1>3, <2>1 DEF TokenPool, IsMultiAsset, Exists
(* Only a pool whose claims are over stays in the guarantee.               *)
<1>10. ASSUME InPayment(p)'
       PROVE  /\ InPayment(p) /\ payout[p].claimed = WinningTotal(p) /\ WinningTotal(p) > 0
              /\ FullyClaimed(p) /\ FullyClaimed(p)' /\ ClaimsWithinSide(p)'
  <2>1. InPayment(p) BY <1>1, <1>10 DEF InPayment, IsMultiAsset
  <2>2. ~(payout[p].claimed < WinningTotal(p)) BY <1>1, <1>10 DEF InPayment
  <2>3. payout[p].claimed > 0 /\ ClaimsWithinSide(p) BY <1>2, <2>1 DEF Paying
  <2>4. winner[p] \in Outcomes /\ payout[p].claimed \in Nat
    BY <1>1, <1>2 DEF MarketBooks, WinnerDeclared, LifeTypes
  <2>5. WinningTotal(p) \in Nat /\ StakedOn(p, winner[p]) \in Nat
    BY <1>2, <2>4, StakedOnTypes DEF WinningTotal
  <2>6. payout[p].claimed = WinningTotal(p) /\ WinningTotal(p) > 0
    BY <2>2, <2>3, <2>4, <2>5 DEF ClaimsWithinSide
  <2>7. FullyClaimed(p) BY <2>6 DEF FullyClaimed
  <2>8. /\ WinningTotal(p)' = WinningTotal(p)
        /\ StakedOn(p, winner[p])' = StakedOn(p, winner[p])
    BY <1>1 DEF WinningTotal, StakedOn, bookVars
  <2>9. FullyClaimed(p)' /\ ClaimsWithinSide(p)'
    BY <1>1, <2>3, <2>7, <2>8 DEF FullyClaimed, ClaimsWithinSide
  <2>10. QED BY <2>1, <2>6, <2>7, <2>9
<1>11. Paying(p)'
  <2>1. SUFFICES ASSUME InPayment(p)'
                 PROVE  /\ status'[p] = "Settled" /\ payout'[p].claimed > 0
                        /\ ClaimsWithinSide(p)' /\ \A t \in AltTokens : TokenFloors(p, t)'
    BY DEF Paying
  <2>2. payout'[p].claimed > 0 BY <1>1, <1>2, <1>10, <2>1 DEF Paying
  <2>3. \A t \in AltTokens : TokenFloors(p, t)' BY <1>10, <2>1 DEF TokenFloors
  <2>4. QED BY <1>1, <1>10, <2>1, <2>2, <2>3
<1>12. ASSUME NEW t \in AltTokens PROVE Reconciled(p, t)'
  <2>1. t \in Tokens /\ Reconciled(p, t) BY OtherTokens DEF TokenInv
  <2>2. SUFFICES ASSUME InPayment(p)', Sole(p, t)'
                 PROVE  /\ spent'[p][t] + feePending'[p][t] = deposit'[p][t]
                        /\ swept'[p][t] \in 0 .. Cardinality(bettors'[p]) - 1
    BY DEF Reconciled
  <2>3. Sole(p, t) BY <1>1, <2>2 DEF Sole
  <2>4. /\ spent[p][t] + feePending[p][t] = deposit[p][t]
        /\ swept[p][t] \in 0 .. Cardinality(bettors[p]) - 1
    BY <1>10, <2>1, <2>2, <2>3 DEF Reconciled
  <2>5. deposit'[p][t] = deposit[p][t] /\ swept'[p][t] = swept[p][t] /\ bettors' = bettors
    BY <1>1 DEF bookVars
  <2>6. spent'[p][t] + feePending'[p][t] = deposit'[p][t] BY <1>3, <1>4, <2>1, <2>4, <2>5
  <2>7. QED BY <2>4, <2>5, <2>6
<1>13. ASSUME NEW t \in AltTokens PROVE Covered(t)'
  <2>1. t \in Tokens BY OtherTokens
  <2>2. CASE p \notin interfered /\ ~payout[p].feeCredited
    <3>1. feePending[p][t] = 0 BY <1>2, <2>1, <2>2 DEF TokenPool
    <3>2. Owing(p, t) = deposit[p][t] BY <2>2 DEF Owing, TokenLiability
    <3>3. Owing(p, t)' = 0 \/ Owing(p, t)' = deposit[p][t] BY <1>1, <2>2 DEF Owing, TokenLiability
    <3>4. Owing(p, t)' \in Int /\ Owing(p, t)' - Owing(p, t) <= tokenBalance'[t] - tokenBalance[t]
      BY <1>3, <1>4, <2>1, <3>1, <3>2, <3>3
    <3>5. QED BY <1>5, <1>7, <3>4, OneCovered
  <2>3. CASE InPayment(p) /\ p \in interfered'
    <3>1. Owing(p, t)' = 0 BY <2>3 DEF Owing
    <3>2. Owing(p, t) \in Nat /\ Owing(p, t) >= feePending[p][t] BY <1>8, <2>3
    <3>3. Owing(p, t)' \in Int /\ Owing(p, t)' - Owing(p, t) <= tokenBalance'[t] - tokenBalance[t]
      BY <1>3, <1>4, <2>1, <3>1, <3>2
    <3>4. QED BY <1>5, <1>7, <3>3, OneCovered
  <2>4. CASE InPayment(p) /\ p \notin interfered'
    <3>1. InPayment(p)' BY <1>1, <2>4 DEF InPayment, IsMultiAsset
    <3>2. /\ Owing(p, t) = feePending[p][t] /\ WinningTotal(p) > 0
          /\ \A u \in Accounts : WinningStake(p, u) = 0
      BY <1>8, <1>10, <3>1
    <3>3. /\ WinningTotal(p)' = WinningTotal(p) /\ WinningTotal(p) \in Nat
          /\ \A u \in Accounts : WinningStake(p, u)' = 0
      <4>1. winner[p] \in Outcomes BY <1>1, <1>2 DEF MarketBooks, WinnerDeclared
      <4>2. WinningTotal(p) \in Nat BY <1>2, <4>1, StakedOnTypes DEF WinningTotal
      <4>3. QED BY <1>1, <3>2, <4>2 DEF WinningTotal, WinningStake, bookVars
    <3>4. TokenNet(p, t)' \in Nat
      <4>1. TokenFee(p, t)' = 0 BY <1>1, <1>3, <2>1, <2>4 DEF TokenFee, InPayment
      <4>2. QED BY <1>1, <1>3, <2>1, <4>1 DEF TokenNet
    <3>5. \A u \in Accounts : TokenShare(p, u, t)' = 0
      <4>1. TAKE u \in Accounts
      <4>2. TokenNet(p, t)' * WinningStake(p, u)' = 0 BY <3>3, <3>4
      <4>3. 0 \div WinningTotal(p)' = 0 BY <3>2, <3>3
      <4>4. QED BY <4>2, <4>3 DEF TokenShare
    <3> DEFINE f == [u \in Accounts |-> TokenShare(p, u, t)']
    <3>6. \A i \in 0 .. NumAccounts - 1 : f[i] = 0 BY <3>5 DEF Accounts
    <3>7. Owing(p, t)' = feePending'[p][t] + SumBelow(f, NumAccounts)
      BY <2>4, <3>1 DEF InPayment, Owing, TokenLiability
    <3> HIDE DEF f
    <3>8. SumBelow(f, NumAccounts) = 0 BY <3>6, Sizes, SumZero
    <3>9. Owing(p, t)' \in Int /\ Owing(p, t)' - Owing(p, t) <= tokenBalance'[t] - tokenBalance[t]
      BY <1>3, <1>4, <2>1, <3>2, <3>7, <3>8
    <3>10. QED BY <1>5, <1>7, <3>9, OneCovered
  <2>5. CASE p \in interfered
    <3>1. p \in interfered' BY <1>1, <2>5
    <3>2. Owing(p, t) = 0 /\ Owing(p, t)' = 0 BY <2>5, <3>1 DEF Owing
    <3>3. CASE feePending[p][t] = 0
      <4>1. Owing(p, t)' \in Int /\ Owing(p, t)' - Owing(p, t) <= tokenBalance'[t] - tokenBalance[t]
        BY <1>4, <3>2, <3>3
      <4>2. QED BY <1>5, <1>7, <4>1, OneCovered
    <3>4. CASE feePending[p][t] > 0
      <4>1. t \in allowed[p] BY <1>3, <2>1, <3>4
      <4>2. \A q \in Pools : q # p /\ deposit[q][t] > 0 => q \in interfered'
        BY <1>1, <2>5, <4>1 DEF Sharing
      <4>3. tokenBalance'[t] \in Nat BY <1>5 DEF TokenTypes
      <4>4. Owing(p, t)' \in Int /\ Owing(p, t)' <= tokenBalance'[t] BY <3>2, <4>3
      <4>5. QED BY <1>5, <1>7, <4>2, <4>4, LastCovered
    <3>5. QED BY <1>3, <2>1, <3>3, <3>4
  <2>6. payout[p].feeCredited \in BOOLEAN BY <1>2 DEF MarketBooks, LifeTypes
  <2>7. QED BY <1>1, <2>2, <2>3, <2>4, <2>5, <2>6 DEF InPayment
<1>14. ASSUME NEW t \in AltTokens
       PROVE  /\ deposit[p][t] <= deposit'[p][t]
              /\ deposit'[p][t] = 0 => spent'[p][t] = spent[p][t]
              /\ tokenBalance'[t] - tokenBalance[t]
                   = (deposit'[p][t] - spent'[p][t]) - (deposit[p][t] - spent[p][t])
  BY <1>1, <1>3, <1>4, OtherTokens
<1>15. p \in interfered => p \in interfered' BY <1>1
<1>16. TokenInv'
  BY <1>5, <1>6, <1>7, <1>9, <1>11, <1>12, <1>13, <1>14, <1>15, OneTokenStep
<1>17. QED BY <1>7, <1>16 DEF KeptBeside

(***************************************************************************)
(* A claim: who can make one, what it does to the books, what it moves of  *)
(* each token, and then the parts of the invariant.                        *)
(***************************************************************************)
LEMMA TokenClaimer ==
  ASSUME MarketBooks, NEW u \in Accounts, NEW p \in Pools, Claimable(u, p)
  PROVE  /\ status[p] = "Settled" /\ winner[p] \in Outcomes
         /\ u \in bettors[p] /\ u \in hasBet[p]
         /\ WinningTotal(p) \in Nat \ {0} /\ WinningStake(p, u) \in Nat \ {0}
         /\ StakedOn(p, winner[p]) \in Nat /\ StakedOn(p, winner[p]) <= WinningTotal(p)
         /\ WinningStake(p, u) <= StakedOn(p, winner[p])
<1>1. /\ status[p] = "Settled" /\ u \in hasBet[p] /\ WinningStake(p, u) > 0
  BY DEF Claimable
<1>2. winner[p] \in Outcomes BY <1>1 DEF MarketBooks, WinnerDeclared
<1>3. /\ WinningTotal(p) \in Nat /\ WinningStake(p, u) \in Nat
      /\ StakedOn(p, winner[p]) \in Nat /\ StakedOn(p, winner[p]) <= WinningTotal(p)
      /\ WinningStake(p, u) <= StakedOn(p, winner[p])
  BY <1>2, StakedOnTypes DEF WinningTotal, WinningStake
<1>4. WinningStake(p, u) <= totalBet[p][u] /\ totalBet[p][u] \in Nat
  BY <1>2, StakeIsCovered DEF MarketBooks, StakeBooks, WinningStake
<1>5. u \in bettors[p] BY <1>1, <1>3, <1>4 DEF MarketBooks, RefundListComplete
<1>6. QED BY <1>1, <1>2, <1>3, <1>5

LEMMA TokenClaimBooks ==
  ASSUME MarketBooks, NEW u \in Accounts, NEW p \in Pools, ClaimMultiAssetWinnings(u, p)
  PROVE  /\ MarketBooks'
         /\ status' = status /\ winner' = winner /\ totals' = totals /\ bettors' = bettors
         /\ payout'[p].feeCredited = TRUE
         /\ payout'[p].claimed = payout[p].claimed + WinningStake(p, u)
         /\ \A v \in Accounts :
              WinningStake(p, v)' = IF v = u THEN 0 ELSE WinningStake(p, v)
         /\ WinningTotal(p)' = WinningTotal(p)
         /\ StakedOn(p, winner[p])' = StakedOn(p, winner[p]) - WinningStake(p, u)
         /\ Claims(p) \in Nat /\ Claims(p)' = Claims(p) + 1
         /\ Claims(p)' <= Cardinality(bettors[p]) /\ Cardinality(bettors[p]) \in Nat
         /\ \A q \in Pools : q # p =>
              payout'[q] = payout[q] /\ stake'[q] = stake[q] /\ hasBet'[q] = hasBet[q]
<1> DEFINE paid == [feeCredited |-> TRUE, claimed |-> payout[p].claimed + WinningStake(p, u),
                    paidOut |-> payout[p].paidOut
                                  + OverTokens([t \in Tokens |-> TokenShare(p, u, t)])]
<1>1. /\ Claimable(u, p) /\ RemoveBets(p, {u}) /\ payout' = [payout EXCEPT ![p] = paid]
      /\ UNCHANGED configVars /\ UNCHANGED <<status, winner, lockedFee>>
  BY DEF ClaimMultiAssetWinnings, lifeVars
<1>2. /\ winner[p] \in Outcomes /\ u \in bettors[p] /\ u \in hasBet[p]
      /\ WinningStake(p, u) \in Nat \ {0} /\ StakedOn(p, winner[p]) \in Nat
  BY <1>1, TokenClaimer
<1>3. payout[p].claimed \in Nat /\ payout = [q \in Pools |-> payout[q]]
  BY DEF MarketBooks, LifeTypes
<1>4. /\ paid.feeCredited = TRUE /\ paid.claimed = payout[p].claimed + WinningStake(p, u)
      /\ paid.claimed \in Nat
  BY <1>2, <1>3
<1> HIDE DEF paid
<1>5. /\ payout' = [q \in Pools |-> payout'[q]] /\ payout'[p] = paid
      /\ \A q \in Pools : q # p => payout'[q] = payout[q]
  BY <1>1, <1>3
<1>6. {u} \in SUBSET Accounts OBVIOUS
<1>7. /\ StakeBooks' /\ RefundListComplete'
      /\ hasBet' \in [Pools -> SUBSET Accounts] /\ bettors' \in [Pools -> SUBSET Accounts]
      /\ totals' = totals /\ bettors' = bettors
      /\ hasBet' = [hasBet EXCEPT ![p] = @ \ {u}]
      /\ \A q \in Pools : q # p => stake'[q] = stake[q] /\ hasBet'[q] = hasBet[q]
  BY <1>1, <1>6, StakesLeave
<1>8. MarketBooks'
  <2>1. ConfigTypeOK' BY <1>1, ConfigKept DEF MarketBooks
  <2>2. \A q \in Pools : payout'[q].feeCredited \in BOOLEAN /\ payout'[q].claimed \in Nat
    <3>1. TAKE q \in Pools
    <3>2. CASE q = p BY <1>4, <1>5, <3>2
    <3>3. CASE q # p BY <1>5, <3>3 DEF MarketBooks, LifeTypes
    <3>4. QED BY <3>2, <3>3
  <2>3. LifeTypes' BY <1>1, <1>5, <2>2 DEF MarketBooks, LifeTypes
  <2>4. WinnerDeclared' /\ IdsInOrder'
    BY <1>1 DEF MarketBooks, WinnerDeclared, IdsInOrder, Created, Exists
  <2>5. QED BY <1>7, <2>1, <2>3, <2>4 DEF MarketBooks
<1>9. /\ stake \in [Pools -> [Accounts -> [Outcomes -> Nat]]]
      /\ \A v \in Accounts : stake'[p][v] = IF v \in {u} THEN [o \in Outcomes |-> 0]
                                            ELSE stake[p][v]
  BY <1>1, <1>6, RemovedStakes DEF MarketBooks, StakeBooks
<1>10. \A v \in Accounts : WinningStake(p, v)' = IF v = u THEN 0 ELSE WinningStake(p, v)
  BY <1>1, <1>2, <1>9 DEF WinningStake
<1>11. WinningTotal(p)' = WinningTotal(p) BY <1>1, <1>7 DEF WinningTotal
<1>12. StakedOn(p, winner[p])' = StakedOn(p, winner[p]) - WinningStake(p, u)
  <2> DEFINE f == [v \in Accounts |-> WinningStake(p, v)]
             g == [v \in Accounts |-> WinningStake(p, v)']
             s == WinningStake(p, u)
  <2>1. StakedOn(p, winner[p]) = SumBelow(f, NumAccounts) BY DEF StakedOn, WinningStake
  <2>2. StakedOn(p, winner[p])' = SumBelow(g, NumAccounts) BY <1>1 DEF StakedOn, WinningStake
  <2>3. \A v \in Accounts : WinningStake(p, v) \in Nat BY <1>2, <1>9 DEF WinningStake
  <2>4. f \in [Accounts -> Nat] /\ f[u] = s BY <2>3
  <2>5. g \in [Accounts -> Nat] /\ g[u] = 0 /\ \A v \in Accounts : v # u => g[v] = f[v]
    BY <1>10, <2>3
  <2>6. s \in Nat BY <1>2
  <2> HIDE DEF f, g, s
  <2>7. g[u] = f[u] + (-s) /\ -s \in Int BY <2>4, <2>5, <2>6
  <2>8. SumBelow(g, NumAccounts) = SumBelow(f, NumAccounts) + (-s)
    BY <2>4, <2>5, <2>7, AccountSumMove
  <2>9. QED BY <1>2, <2>1, <2>2, <2>6, <2>8 DEF s
<1>13. /\ Claims(p) \in Nat /\ Claims(p)' = Claims(p) + 1
       /\ Claims(p)' <= Cardinality(bettors[p]) /\ Cardinality(bettors[p]) \in Nat
  <2>1. bettors[p] \subseteq Accounts BY DEF MarketBooks
  <2>2. IsFiniteSet(Accounts) BY Sizes, FS_Interval DEF Accounts
  <2>3. IsFiniteSet(bettors[p]) BY <2>1, <2>2, FS_Subset
  <2>4. /\ bettors[p] \ hasBet[p] \subseteq bettors[p]
        /\ bettors[p] \ hasBet'[p] \subseteq bettors[p]
    OBVIOUS
  <2>5. hasBet'[p] = hasBet[p] \ {u} BY <1>7 DEF MarketBooks
  <2>6. /\ bettors[p] \ hasBet'[p] = (bettors[p] \ hasBet[p]) \cup {u}
        /\ u \notin bettors[p] \ hasBet[p]
    BY <1>2, <2>5
  <2>7. IsFiniteSet(bettors[p] \ hasBet[p]) BY <2>3, <2>4, FS_Subset
  <2>8. /\ Cardinality(bettors[p] \ hasBet[p]) \in Nat /\ Cardinality(bettors[p]) \in Nat
        /\ Cardinality(bettors[p] \ hasBet'[p]) <= Cardinality(bettors[p])
    BY <2>3, <2>4, <2>7, FS_Subset, FS_CardinalityType
  <2>9. Cardinality(bettors[p] \ hasBet'[p]) = Cardinality(bettors[p] \ hasBet[p]) + 1
    BY <2>6, <2>7, FS_AddElement
  <2>10. Claims(p)' = Cardinality(bettors[p] \ hasBet'[p]) BY <1>7 DEF Claims
  <2>11. QED BY <2>8, <2>9, <2>10 DEF Claims
<1>14. QED BY <1>1, <1>4, <1>5, <1>7, <1>8, <1>10, <1>11, <1>12, <1>13

(* What a claim moves: the share and, after the last stake, the sweep.     *)
LEMMA TokenClaimMoves ==
  ASSUME TokenInv, NEW u \in Accounts, NEW p \in Pools, ClaimMultiAssetWinnings(u, p)
  PROVE  /\ TokenTypes' /\ UNCHANGED <<allowed, deposit>>
         /\ \A t \in Tokens : feePending'[p][t] = TokenFee(p, t)
         /\ \A t \in AltTokens :
              LET out == TokenShare(p, u, t) + Sweep(u, p, t)
              IN  /\ TokenShare(p, u, t) \in Nat /\ Sweep(u, p, t) \in Nat
                  /\ tokenBalance[t] \in Nat /\ spent[p][t] \in Nat /\ swept[p][t] \in Nat
                  /\ tokenBalance'[t] = tokenBalance[t] - out
                  /\ spent'[p][t] = spent[p][t] + out
                  /\ swept'[p][t] = swept[p][t] + Sweep(u, p, t)
                  /\ Sweep(u, p, t) > 0 =>
                       LastTokenClaim(u, p) /\ tokenBalance'[t] = TokenFee(p, t)
                  /\ Sweep(u, p, t) > 0 \/ TokenShare(p, u, t) > 0 => TokenNet(p, t) > 0
                  /\ LastTokenClaim(u, p) /\ TokenNet(p, t) > 0
                     /\ tokenBalance[t] - TokenShare(p, u, t) - TokenFee(p, t) >= 0 =>
                       Sweep(u, p, t) = tokenBalance[t] - TokenShare(p, u, t) - TokenFee(p, t)
         /\ \A q \in Pools : q # p =>
              feePending'[q] = feePending[q] /\ spent'[q] = spent[q] /\ swept'[q] = swept[q]
<1> DEFINE share == [t \in Tokens |-> TokenShare(p, u, t)]
           sweep == [t \in Tokens |-> Sweep(u, p, t)]
           out == [t \in Tokens |-> share[t] + sweep[t]]
<1>1. /\ Claimable(u, p) /\ Funded(share) /\ TransferOut(out)
      /\ feePending' = [feePending EXCEPT ![p] = [t \in Tokens |-> TokenFee(p, t)]]
      /\ spent' = [spent EXCEPT ![p] = [t \in Tokens |-> @[t] + out[t]]]
      /\ swept' = [swept EXCEPT ![p] = [t \in Tokens |-> @[t] + sweep[t]]]
      /\ UNCHANGED <<rate, allowed, deposit>>
  BY DEF ClaimMultiAssetWinnings
<1>2. TokenTypes /\ TokenPool(p) /\ MarketBooks BY DEF TokenInv
<1>3. /\ winner[p] \in Outcomes /\ WinningTotal(p) \in Nat \ {0}
      /\ WinningStake(p, u) \in Nat \ {0}
  BY <1>1, <1>2, TokenClaimer
<1>4. \A t \in Tokens : TokenFee(p, t) \in Nat /\ TokenNet(p, t) \in Nat
  BY <1>2, TokenAmounts
<1>5. \A t \in Tokens : TokenShare(p, u, t) \in Nat BY <1>2, <1>3, TokenShares
<1>6. ASSUME NEW t \in AltTokens
      PROVE  /\ t \in Tokens /\ BalanceOf(t) = tokenBalance[t] /\ tokenBalance[t] \in Nat
             /\ TokenShare(p, u, t) <= tokenBalance[t]
             /\ TokenShare(p, u, t) > 0 => TokenNet(p, t) > 0
  <2>1. t \in Tokens /\ t # BaseToken BY OtherTokens DEF AltTokens, BaseToken
  <2>2. BalanceOf(t) = tokenBalance[t] BY <2>1 DEF BalanceOf
  <2>3. share[t] = TokenShare(p, u, t) BY <2>1
  <2>4. TokenShare(p, u, t) <= tokenBalance[t] BY <1>1, <2>1, <2>2, <2>3 DEF Funded
  <2>5. ASSUME TokenNet(p, t) = 0 PROVE TokenShare(p, u, t) = 0
    <3>1. TokenNet(p, t) * WinningStake(p, u) = 0 BY <1>3, <2>5
    <3>2. 0 \div WinningTotal(p) = 0 BY <1>3
    <3>3. QED BY <3>1, <3>2 DEF TokenShare
  <2>6. tokenBalance[t] \in Nat BY <1>2 DEF TokenTypes
  <2>7. QED BY <1>4, <2>1, <2>2, <2>4, <2>5, <2>6
<1>7. ASSUME NEW t \in AltTokens
      PROVE  LET x == TokenShare(p, u, t)
                 z == Sweep(u, p, t)
             IN  /\ z \in Nat /\ x + z <= tokenBalance[t]
                 /\ z > 0 => /\ LastTokenClaim(u, p) /\ TokenNet(p, t) > 0
                             /\ tokenBalance[t] - (x + z) = TokenFee(p, t)
                 /\ LastTokenClaim(u, p) /\ TokenNet(p, t) > 0
                    /\ tokenBalance[t] - x - TokenFee(p, t) >= 0 =>
                      z = tokenBalance[t] - x - TokenFee(p, t)
  BY <1>4, <1>5, <1>6 DEF Sweep
<1>8. ASSUME NEW t \in AltTokens
      PROVE  LET x == TokenShare(p, u, t)
                 z == Sweep(u, p, t)
             IN  /\ spent[p][t] \in Nat /\ swept[p][t] \in Nat
                 /\ tokenBalance'[t] = tokenBalance[t] - (x + z)
                 /\ spent'[p][t] = spent[p][t] + (x + z)
                 /\ swept'[p][t] = swept[p][t] + z
  <2>1. t \in Tokens BY <1>6
  <2>2. /\ out[t] = TokenShare(p, u, t) + Sweep(u, p, t) /\ sweep[t] = Sweep(u, p, t)
    BY <2>1
  <2> HIDE DEF out, sweep, share
  <2>3. tokenBalance'[t] = tokenBalance[t] - out[t] BY <1>1 DEF TransferOut
  <2>4. spent'[p][t] = spent[p][t] + out[t] /\ swept'[p][t] = swept[p][t] + sweep[t]
    BY <1>1, <1>2, <2>1 DEF TokenTypes
  <2>5. QED BY <1>2, <2>2, <2>3, <2>4 DEF TokenTypes
<1>9. \A t \in Tokens : feePending'[p][t] = TokenFee(p, t) BY <1>1, <1>2 DEF TokenTypes
<1> HIDE DEF out, sweep, share
<1>10. \A q \in Pools : q # p =>
         feePending'[q] = feePending[q] /\ spent'[q] = spent[q] /\ swept'[q] = swept[q]
  BY <1>1, <1>2 DEF TokenTypes
<1>11. TokenTypes'
  <2>1. feePending' \in [Pools -> [Tokens -> Nat]]
    <3>1. [t \in Tokens |-> TokenFee(p, t)] \in [Tokens -> Nat] BY <1>4
    <3>2. QED BY <1>1, <1>2, <3>1 DEF TokenTypes
  <2>2. tokenBalance' \in [AltTokens -> Nat]
    <3>1. tokenBalance' = [t \in AltTokens |-> tokenBalance'[t]] BY <1>1 DEF TransferOut
    <3>2. \A t \in AltTokens : tokenBalance'[t] \in Nat
      <4>1. TAKE t \in AltTokens
      <4>2. /\ TokenShare(p, u, t) \in Nat /\ Sweep(u, p, t) \in Nat /\ tokenBalance[t] \in Nat
            /\ TokenShare(p, u, t) + Sweep(u, p, t) <= tokenBalance[t]
        BY <1>5, <1>6, <1>7
      <4>3. tokenBalance'[t] = tokenBalance[t] - (TokenShare(p, u, t) + Sweep(u, p, t))
        BY <1>8
      <4>4. QED BY <4>2, <4>3
    <3>3. QED BY <3>1, <3>2
  <2>3. /\ spent' = [q \in Pools |-> [t \in Tokens |-> spent'[q][t]]]
        /\ swept' = [q \in Pools |-> [t \in Tokens |-> swept'[q][t]]]
    BY <1>1, <1>2 DEF TokenTypes
  <2>4. \A q \in Pools, t \in AltTokens : spent'[q][t] \in Nat /\ swept'[q][t] \in Nat
    <3>1. TAKE q \in Pools, t \in AltTokens
    <3>2. spent[q][t] \in Nat /\ swept[q][t] \in Nat BY <1>2 DEF TokenTypes
    <3>3. TokenShare(p, u, t) \in Nat /\ Sweep(u, p, t) \in Nat BY <1>5, <1>6, <1>7
    <3>4. CASE q = p BY <1>8, <3>2, <3>3, <3>4
    <3>5. CASE q # p BY <1>10, <3>2, <3>5
    <3>6. QED BY <3>4, <3>5
  <2>5. UNCHANGED <<rate, allowed, deposit>> BY <1>1
  <2>6. QED BY <1>2, <2>1, <2>2, <2>3, <2>4, <2>5 DEF TokenTypes
<1>12. UNCHANGED <<allowed, deposit>> BY <1>1
<1>13. ASSUME NEW t \in AltTokens
       PROVE  LET x == TokenShare(p, u, t)
                  z == Sweep(u, p, t)
              IN  /\ x \in Nat /\ tokenBalance[t] \in Nat
                  /\ z > 0 => tokenBalance'[t] = TokenFee(p, t)
                  /\ z > 0 \/ x > 0 => TokenNet(p, t) > 0
  BY <1>5, <1>6, <1>7, <1>8
<1>14. QED BY <1>7, <1>8, <1>9, <1>10, <1>11, <1>12, <1>13

(***************************************************************************)
(* The shares after a claim: the claimer's is gone, the others' are as they*)
(* were, so that what is due falls by the share.                           *)
(***************************************************************************)
LEMMA TokenClaimDue ==
  ASSUME TokenInv, NEW u \in Accounts, NEW p \in Pools, ClaimMultiAssetWinnings(u, p),
         NEW t \in AltTokens
  PROVE  /\ TokenFee(p, t) \in Nat /\ TokenNet(p, t) \in Nat /\ deposit[p][t] \in Nat
         /\ TokenFee(p, t) + TokenNet(p, t) = deposit[p][t]
         /\ TokenNet(p, t)' = TokenNet(p, t)
         /\ \A v \in Accounts : v # u => TokenShare(p, v, t)' = TokenShare(p, v, t)
         /\ p \in interfered => Owing(p, t) = 0
         /\ p \in interfered' => Owing(p, t)' = 0
         /\ p \notin interfered' =>
              /\ Owing(p, t)' \in Int
              /\ Owing(p, t)' - Owing(p, t) <= -TokenShare(p, u, t)
              /\ StakedOn(p, winner[p])' = 0 => Owing(p, t)' = TokenFee(p, t)
<1> DEFINE f == SharesOf(p, t)
           g == [v \in Accounts |-> TokenShare(p, v, t)']
           x == TokenShare(p, u, t)
<1>1. /\ Claimable(u, p) /\ IsMultiAsset(p)
      /\ interfered' = IF p \in interfered \/ LastTokenClaim(u, p)
                       THEN interfered \cup (Sharing(allowed[p]) \ {p}) ELSE interfered
  BY DEF ClaimMultiAssetWinnings
<1>2. TokenTypes /\ TokenPool(p) /\ MarketBooks /\ t \in Tokens BY OtherTokens DEF TokenInv
<1>3. /\ status[p] = "Settled" /\ winner[p] \in Outcomes /\ WinningTotal(p) \in Nat \ {0}
      /\ WinningStake(p, u) \in Nat \ {0}
  BY <1>1, <1>2, TokenClaimer
<1>4. /\ TokenFee(p, t) \in Nat /\ TokenNet(p, t) \in Nat /\ deposit[p][t] \in Nat
      /\ TokenFee(p, t) + TokenNet(p, t) = deposit[p][t]
  BY <1>2, TokenAmounts
<1>5. /\ MarketBooks' /\ payout'[p].feeCredited = TRUE /\ winner' = winner
      /\ WinningTotal(p)' = WinningTotal(p)
      /\ \A v \in Accounts : WinningStake(p, v)' = IF v = u THEN 0 ELSE WinningStake(p, v)
  BY <1>2, TokenClaimBooks
<1>6. UNCHANGED <<allowed, deposit>> /\ feePending'[p][t] = TokenFee(p, t)
  BY <1>2, TokenClaimMoves
<1>7. TokenFee(p, t)' = TokenFee(p, t) BY <1>5, <1>6 DEF TokenFee
<1>8. TokenNet(p, t)' = TokenNet(p, t) BY <1>6, <1>7 DEF TokenNet
<1>9. \A v \in Accounts : v # u => TokenShare(p, v, t)' = TokenShare(p, v, t)
  BY <1>5, <1>8 DEF TokenShare
<1>10. TokenShare(p, u, t)' = 0
  <2>1. TokenNet(p, t)' * WinningStake(p, u)' = 0 BY <1>4, <1>5, <1>8
  <2>2. 0 \div WinningTotal(p)' = 0 BY <1>3, <1>5
  <2>3. QED BY <2>1, <2>2 DEF TokenShare
<1>11. /\ \A v \in Accounts : TokenShare(p, v, t) \in Nat
       /\ SumBelow(f, NumAccounts) \in Nat /\ SumBelow(f, NumAccounts) <= TokenNet(p, t)
  BY <1>2, <1>3, TokenShares
<1>12. \A v \in Accounts : f[v] = TokenShare(p, v, t) /\ g[v] = IF v = u THEN 0 ELSE f[v]
  BY <1>9, <1>10 DEF SharesOf
<1>13. f \in [Accounts -> Nat] BY <1>11 DEF SharesOf
<1>14. \A v \in Accounts : g[v] \in Nat BY <1>11, <1>12
<1>15. g \in [Accounts -> Nat] BY <1>14
<1>16. TokenLiability(p, t)' = TokenFee(p, t) + SumBelow(g, NumAccounts)
  BY <1>1, <1>5, <1>6 DEF TokenLiability, IsMultiAsset
<1>17. TokenLiability(p, t) = IF payout[p].feeCredited
                              THEN feePending[p][t] + SumBelow(f, NumAccounts)
                              ELSE deposit[p][t]
  BY <1>1 DEF TokenLiability, SharesOf
<1>18. payout[p].feeCredited => TokenFee(p, t) = feePending[p][t] BY DEF TokenFee
<1> HIDE DEF f, g, x
<1>19. x \in Nat /\ -x \in Int /\ g[u] = f[u] + (-x) BY <1>11, <1>12 DEF x
<1>20. SumBelow(g, NumAccounts) = SumBelow(f, NumAccounts) + (-x)
  BY <1>12, <1>13, <1>15, <1>19, AccountSumMove
<1>21. TokenLiability(p, t)' \in Int /\ TokenLiability(p, t)' - TokenLiability(p, t) <= -x
  BY <1>4, <1>11, <1>16, <1>17, <1>18, <1>19, <1>20
<1>22. StakedOn(p, winner[p])' = 0 => TokenLiability(p, t)' = TokenFee(p, t)
  <2>1. SUFFICES ASSUME StakedOn(p, winner[p])' = 0 PROVE TokenLiability(p, t)' = TokenFee(p, t)
    OBVIOUS
  <2>2. \A v \in Accounts : WinningStake(p, v)' \in Nat
                            /\ WinningStake(p, v)' <= StakedOn(p, winner[p])'
    <3>1. TAKE v \in Accounts
    <3>2. WinningStake(p, v) \in Nat
      BY <1>2, <1>3, StakedOnTypes DEF WinningStake
    <3>3. WinningStake(p, v)' \in Nat BY <1>5, <3>2
    <3> DEFINE h == [w \in Accounts |-> WinningStake(p, w)']
    <3>4. \A w \in Accounts : WinningStake(p, w) \in Nat
      BY <1>2, <1>3, StakedOnTypes DEF WinningStake
    <3>5. \A w \in Accounts : h[w] \in Nat BY <1>5, <3>4
    <3>6. StakedOn(p, winner[p])' = SumBelow(h, NumAccounts) BY DEF StakedOn, WinningStake
    <3>7. h[v] = WinningStake(p, v)' OBVIOUS
    <3> HIDE DEF h
    <3>8. \A i \in 0 .. NumAccounts - 1 : h[i] \in Nat BY <3>5 DEF Accounts
    <3>9. h[v] <= SumBelow(h, NumAccounts) BY <3>8, Sizes, SumTerm DEF Accounts
    <3>10. QED BY <3>3, <3>6, <3>7, <3>9
  <2>3. \A v \in Accounts : WinningStake(p, v)' = 0 BY <2>1, <2>2
  <2>4. \A v \in Accounts : TokenShare(p, v, t)' = 0
    <3>1. TAKE v \in Accounts
    <3>2. TokenNet(p, t)' * WinningStake(p, v)' = 0 BY <1>4, <1>8, <2>3
    <3>3. 0 \div WinningTotal(p)' = 0 BY <1>3, <1>5
    <3>4. QED BY <3>2, <3>3 DEF TokenShare
  <2>5. \A i \in 0 .. NumAccounts - 1 : g[i] = 0 BY <2>4 DEF g, Accounts
  <2>6. SumBelow(g, NumAccounts) = 0 BY <2>5, Sizes, SumZero
  <2>7. QED BY <1>4, <1>16, <2>6
<1>23. p \in interfered <=> p \in interfered' BY <1>1
<1>24. QED BY <1>4, <1>8, <1>9, <1>21, <1>22, <1>23 DEF Owing, x

LEMMA TokenClaimKeeps ==
  ASSUME TokenInv, NEW u \in Accounts, NEW p \in Pools, ClaimMultiAssetWinnings(u, p)
  PROVE  KeptBeside(p)
<1> DEFINE s == WinningStake(p, u)
           w == WinningTotal(p)
           c == payout[p].claimed
           k == Claims(p)
           live == StakedOn(p, winner[p])
<1>1. /\ Claimable(u, p) /\ IsMultiAsset(p)
      /\ interfered' = IF p \in interfered \/ LastTokenClaim(u, p)
                       THEN interfered \cup (Sharing(allowed[p]) \ {p}) ELSE interfered
  BY DEF ClaimMultiAssetWinnings
<1>2. TokenTypes /\ TokenPool(p) /\ Paying(p) /\ MarketBooks BY DEF TokenInv
<1>3. /\ status[p] = "Settled" /\ winner[p] \in Outcomes
      /\ w \in Nat \ {0} /\ s \in Nat \ {0} /\ live \in Nat /\ live <= w /\ s <= live
  BY <1>1, <1>2, TokenClaimer
<1>4. /\ MarketBooks'
      /\ status' = status /\ winner' = winner /\ totals' = totals /\ bettors' = bettors
      /\ payout'[p].feeCredited = TRUE /\ payout'[p].claimed = c + s
      /\ WinningTotal(p)' = w /\ StakedOn(p, winner[p])' = live - s
      /\ k \in Nat /\ Claims(p)' = k + 1
      /\ Claims(p)' <= Cardinality(bettors[p]) /\ Cardinality(bettors[p]) \in Nat
      /\ \A q \in Pools : q # p =>
           payout'[q] = payout[q] /\ stake'[q] = stake[q] /\ hasBet'[q] = hasBet[q]
  BY <1>2, TokenClaimBooks
<1>5. c \in Nat /\ payout[p].feeCredited \in BOOLEAN BY <1>2 DEF MarketBooks, LifeTypes
<1>6. /\ TokenTypes' /\ UNCHANGED <<allowed, deposit>>
      /\ \A t \in Tokens : feePending'[p][t] = TokenFee(p, t)
      /\ \A q \in Pools : q # p =>
           feePending'[q] = feePending[q] /\ spent'[q] = spent[q] /\ swept'[q] = swept[q]
  BY <1>2, TokenClaimMoves
<1>7. ASSUME NEW t \in AltTokens
      PROVE  LET x == TokenShare(p, u, t)
                 z == Sweep(u, p, t)
             IN  /\ x \in Nat /\ z \in Nat /\ tokenBalance[t] \in Nat
                 /\ spent[p][t] \in Nat /\ swept[p][t] \in Nat
                 /\ tokenBalance'[t] = tokenBalance[t] - (x + z)
                 /\ spent'[p][t] = spent[p][t] + (x + z) /\ swept'[p][t] = swept[p][t] + z
                 /\ z > 0 => LastTokenClaim(u, p) /\ tokenBalance'[t] = TokenFee(p, t)
                 /\ z > 0 \/ x > 0 => TokenNet(p, t) > 0
                 /\ LastTokenClaim(u, p) /\ TokenNet(p, t) > 0
                    /\ tokenBalance[t] - x - TokenFee(p, t) >= 0 =>
                      z = tokenBalance[t] - x - TokenFee(p, t)
  BY <1>2, TokenClaimMoves
<1>8. \A q \in Pools : q # p => Rests(q)
  BY <1>1, <1>4, <1>6 DEF Rests, Exists
<1>9. LastTokenClaim(u, p) <=> c + s = w BY DEF LastTokenClaim
<1>10. p \in interfered <=> p \in interfered' BY <1>1
<1>11. IsMultiAsset(p)' /\ (InPayment(p)' <=> p \notin interfered)
  BY <1>1, <1>4, <1>6, <1>10 DEF InPayment, IsMultiAsset
<1>12. FullyClaimed(p)' <=> c + s = w BY <1>3, <1>4 DEF FullyClaimed
(* Of a pool that nothing disturbed.                                       *)
<1>13. p \notin interfered => c + live <= w
  <2>1. ~payout[p].feeCredited => c = 0 BY <1>1, <1>2 DEF TokenPool
  <2>2. QED BY <1>1, <1>2, <1>3, <1>5, <2>1 DEF Paying, InPayment, ClaimsWithinSide
<1>14. ASSUME p \notin interfered, NEW t \in AltTokens
       PROVE  LET n == TokenNet(p, t)
                  x == TokenShare(p, u, t)
              IN  /\ swept[p][t] = 0
                  /\ w * (spent[p][t] + x) <= n * (c + s)
                  /\ n * (c + s) <= w * (spent[p][t] + x) + (k + 1) * (w - 1)
                  /\ spent[p][t] + x <= n
  <2> DEFINE n == TokenNet(p, t)
             paid == spent[p][t]
  <2>1. t \in Tokens /\ n \in Nat /\ paid \in Nat
    BY <1>2, OtherTokens, TokenAmounts DEF TokenTypes
  <2>2. c + s <= w /\ ~FullyClaimed(p)
    BY <1>3, <1>5, <1>13, <1>14 DEF FullyClaimed
  <2>3. swept[p][t] = 0 /\ w * paid <= n * c /\ n * c <= w * paid + k * (w - 1)
    <3>1. CASE payout[p].feeCredited
      <4>1. TokenFloors(p, t) BY <1>1, <1>2, <1>14, <3>1 DEF Paying, InPayment
      <4>2. QED BY <2>2, <4>1 DEF TokenFloors
    <3>2. CASE ~payout[p].feeCredited
      <4>1. c = 0 /\ paid = 0 /\ swept[p][t] = 0 BY <1>1, <1>2, <2>1, <3>2 DEF TokenPool
      <4>2. k * (w - 1) \in Nat BY <1>3, <1>4
      <4>3. n * 0 = 0 /\ w * 0 = 0 BY <1>3, <2>1
      <4>4. QED BY <4>1, <4>2, <4>3
    <3>3. QED BY <1>5, <3>1, <3>2
  <2>4. TokenShare(p, u, t) = (s * n) \div w
    <3>1. n * s = s * n BY <1>3, <2>1, Products
    <3>2. QED BY <3>1 DEF TokenShare
  <2> HIDE DEF n, s, w, c, k, paid
  <2>5. /\ w * (paid + (s * n) \div w) <= n * (c + s)
        /\ n * (c + s) <= w * (paid + (s * n) \div w) + (k + 1) * (w - 1)
        /\ paid + (s * n) \div w <= n
    BY <1>3, <1>4, <1>5, <2>1, <2>2, <2>3, OneShare
  <2>6. QED BY <2>3, <2>4, <2>5 DEF n, paid
<1> HIDE DEF s, w, c, k, live
<1>15. ASSUME NEW t \in AltTokens
       PROVE  /\ TokenFee(p, t) \in Nat /\ TokenNet(p, t) \in Nat /\ deposit[p][t] \in Nat
              /\ TokenFee(p, t) + TokenNet(p, t) = deposit[p][t]
              /\ TokenNet(p, t)' = TokenNet(p, t)
              /\ p \in interfered => Owing(p, t) = 0 /\ Owing(p, t)' = 0
              /\ p \notin interfered =>
                   /\ Owing(p, t)' \in Int
                   /\ Owing(p, t)' - Owing(p, t) <= -TokenShare(p, u, t)
                   /\ StakedOn(p, winner[p])' = 0 => Owing(p, t)' = TokenFee(p, t)
  BY <1>10, TokenClaimDue
<1>16. Paying(p)'
  <2>1. SUFFICES ASSUME p \notin interfered
                 PROVE  /\ status'[p] = "Settled" /\ payout'[p].claimed > 0
                        /\ ClaimsWithinSide(p)' /\ \A t \in AltTokens : TokenFloors(p, t)'
    BY <1>11 DEF Paying
  <2>2. payout'[p].claimed > 0 BY <1>3, <1>4, <1>5
  <2>3. ClaimsWithinSide(p)'
    <3>1. (c + s) + (live - s) <= w BY <1>3, <1>5, <1>13, <2>1
    <3>2. QED BY <1>4, <3>1 DEF ClaimsWithinSide
  <2>4. ASSUME NEW t \in AltTokens, ~FullyClaimed(p)'
        PROVE  /\ swept'[p][t] = 0
               /\ WinningTotal(p)' * spent'[p][t] <= TokenNet(p, t)' * payout'[p].claimed
               /\ TokenNet(p, t)' * payout'[p].claimed
                    <= WinningTotal(p)' * spent'[p][t] + Claims(p)' * (WinningTotal(p)' - 1)
    <3>1. /\ swept[p][t] = 0
          /\ w * (spent[p][t] + TokenShare(p, u, t)) <= TokenNet(p, t) * (c + s)
          /\ TokenNet(p, t) * (c + s)
               <= w * (spent[p][t] + TokenShare(p, u, t)) + (k + 1) * (w - 1)
      BY <1>14, <2>1
    <3>2. Sweep(u, p, t) = 0 BY <1>7, <1>9, <1>12, <2>4
    <3>3. spent'[p][t] = spent[p][t] + TokenShare(p, u, t) /\ swept'[p][t] = 0
      BY <1>7, <3>1, <3>2
    <3>4. QED BY <1>4, <1>15, <3>1, <3>3
  <2>5. \A t \in AltTokens : TokenFloors(p, t)' BY <2>4 DEF TokenFloors
  <2>6. QED BY <1>3, <1>4, <2>2, <2>3, <2>5
<1>17. ASSUME NEW t \in AltTokens PROVE Reconciled(p, t)'
  <2> DEFINE n == TokenNet(p, t)
             f == TokenFee(p, t)
             x == TokenShare(p, u, t)
             z == Sweep(u, p, t)
             m == Cardinality(bettors[p])
  <2>1. SUFFICES ASSUME p \notin interfered, c + s = w, Sole(p, t)'
                 PROVE  /\ spent'[p][t] + feePending'[p][t] = deposit'[p][t]
                        /\ swept'[p][t] \in 0 .. Cardinality(bettors'[p]) - 1
    BY <1>11, <1>12 DEF Reconciled
  <2>2. t \in Tokens BY OtherTokens
  <2>3. Sole(p, t) BY <1>6, <2>1 DEF Sole
  <2>4. tokenBalance[t] = deposit[p][t] - spent[p][t] BY <2>1, <2>3 DEF TokenInv, Held
  <2>5. /\ swept[p][t] = 0 /\ spent[p][t] + x <= n
        /\ w * (spent[p][t] + x) <= n * w
        /\ n * w <= w * (spent[p][t] + x) + (k + 1) * (w - 1)
    BY <1>14, <2>1
  <2>6. /\ f \in Nat /\ n \in Nat /\ f + n = deposit[p][t] /\ x \in Nat /\ z \in Nat
        /\ spent[p][t] \in Nat /\ tokenBalance[t] \in Nat
        /\ spent'[p][t] = spent[p][t] + (x + z) /\ swept'[p][t] = swept[p][t] + z
        /\ feePending'[p][t] = f /\ deposit' = deposit
        /\ k \in Nat /\ k + 1 <= m /\ m \in Nat /\ bettors' = bettors
    BY <1>4, <1>6, <1>7, <1>15, <2>2
  <2>7. z = n - (spent[p][t] + x)
    <3>1. tokenBalance[t] - x - f = n - (spent[p][t] + x) BY <2>4, <2>6
    <3>2. CASE n > 0 BY <1>7, <1>9, <2>1, <2>5, <2>6, <3>1, <3>2
    <3>3. CASE n = 0
      <4>1. ~(z > 0) BY <1>7, <3>3
      <4>2. QED BY <2>5, <2>6, <3>3, <4>1
    <3>4. QED BY <2>6, <3>2, <3>3
  <2> HIDE DEF n, f, x, z, m
  <2>8. n - (spent[p][t] + x) <= (k + 1) - 1
    <3>1. spent[p][t] + x \in Int /\ k + 1 \in Nat /\ k + 1 > 0 BY <2>6
    <3>2. QED BY <1>3, <2>5, <2>6, <3>1, AllClaimed
  <2>9. swept'[p][t] \in 0 .. m - 1 BY <2>5, <2>6, <2>7, <2>8
  <2>10. spent'[p][t] + feePending'[p][t] = deposit'[p][t] BY <2>6, <2>7
  <2>11. QED BY <2>6, <2>9, <2>10 DEF m
<1>18. ASSUME NEW t \in AltTokens PROVE Covered(t)'
  <2> DEFINE x == TokenShare(p, u, t)
             z == Sweep(u, p, t)
  <2>1. t \in Tokens BY OtherTokens
  <2>2. /\ x \in Nat /\ z \in Nat /\ tokenBalance[t] \in Nat
        /\ tokenBalance'[t] = tokenBalance[t] - (x + z) /\ tokenBalance'[t] \in Nat
    BY <1>6, <1>7 DEF TokenTypes
  <2>3. CASE z = 0 /\ (p \notin interfered \/ x = 0)
    <3>1. Owing(p, t)' \in Int /\ Owing(p, t)' - Owing(p, t) <= -x BY <1>15, <2>3
    <3>2. tokenBalance'[t] - tokenBalance[t] = -x BY <2>2, <2>3
    <3>3. Owing(p, t)' - Owing(p, t) <= tokenBalance'[t] - tokenBalance[t] BY <3>1, <3>2
    <3>4. QED BY <1>6, <1>8, <3>1, <3>3, OneCovered
  <2>4. CASE z > 0 \/ (p \in interfered /\ x > 0)
    <3>1. TokenNet(p, t) > 0 BY <1>7, <2>4
    <3>2. t \in allowed[p] BY <3>1 DEF TokenNet
    <3>3. \A q \in Pools : q # p /\ deposit[q][t] > 0 => q \in interfered'
      BY <1>1, <1>7, <2>4, <3>2 DEF Sharing
    <3>4. Owing(p, t)' \in Int /\ Owing(p, t)' <= tokenBalance'[t]
      <4>1. CASE p \in interfered BY <1>15, <2>2, <4>1
      <4>2. CASE p \notin interfered
        <5>1. c + s = w /\ tokenBalance'[t] = TokenFee(p, t) BY <1>7, <1>9, <2>4, <4>2
        <5>2. live - s = 0 BY <1>3, <1>5, <1>13, <4>2, <5>1
        <5>3. Owing(p, t)' = TokenFee(p, t) BY <1>4, <1>15, <4>2, <5>2
        <5>4. QED BY <1>15, <5>1, <5>3
      <4>3. QED BY <4>1, <4>2
    <3>5. QED BY <1>6, <1>8, <3>3, <3>4, LastCovered
  <2>5. QED BY <2>2, <2>3, <2>4
<1>19. TokenPool(p)'
  <2>1. \A t \in Tokens : feePending'[p][t] <= deposit'[p][t]
    <3>1. TAKE t \in Tokens
    <3>2. /\ TokenFee(p, t) \in Nat /\ TokenNet(p, t) \in Nat
          /\ TokenFee(p, t) + TokenNet(p, t) = deposit[p][t]
      BY <1>2, TokenAmounts
    <3>3. feePending'[p][t] = TokenFee(p, t) /\ deposit' = deposit BY <1>6
    <3>4. QED BY <3>2, <3>3
  <2>2. Exists(p)' BY <1>3, <1>4 DEF Exists
  <2>3. QED BY <1>2, <1>4, <1>6, <1>11, <2>1, <2>2 DEF TokenPool
<1>20. ASSUME NEW t \in AltTokens
       PROVE  /\ deposit[p][t] <= deposit'[p][t]
              /\ deposit'[p][t] = 0 => spent'[p][t] = spent[p][t]
              /\ tokenBalance'[t] - tokenBalance[t]
                   = (deposit'[p][t] - spent'[p][t]) - (deposit[p][t] - spent[p][t])
  <2>1. deposit'[p][t] = deposit[p][t] /\ deposit[p][t] \in Nat BY <1>6, <1>15
  <2> DEFINE x == TokenShare(p, u, t)
             z == Sweep(u, p, t)
  <2>2. /\ x \in Nat /\ z \in Nat /\ tokenBalance[t] \in Nat /\ spent[p][t] \in Nat
        /\ tokenBalance'[t] = tokenBalance[t] - (x + z)
        /\ spent'[p][t] = spent[p][t] + (x + z)
        /\ z > 0 \/ x > 0 => TokenNet(p, t) > 0
    BY <1>7
  <2>3. deposit[p][t] = 0 => TokenNet(p, t) = 0 BY <1>15
  <2> HIDE DEF x, z
  <2>4. QED BY <2>1, <2>2, <2>3
<1>21. p \in interfered => p \in interfered' BY <1>1
<1>22. TokenInv'
  BY <1>4, <1>6, <1>8, <1>16, <1>17, <1>18, <1>19, <1>20, <1>21, OneTokenStep
<1>23. QED BY <1>8, <1>22 DEF KeptBeside

-----------------------------------------------------------------------------
(* Every step, and the theorems.                                           *)

LEMMA AssetInitHolds == AssetInit => TokenInv
<1> SUFFICES ASSUME AssetInit PROVE TokenInv OBVIOUS
<1>1. /\ Init /\ rate = [t \in Tokens |-> 0] /\ allowed = [p \in Pools |-> {}]
      /\ deposit = [p \in Pools |-> [t \in Tokens |-> 0]]
      /\ feePending = deposit /\ spent = deposit /\ swept = deposit
      /\ tokenBalance = [t \in AltTokens |-> 0] /\ interfered = {}
  BY DEF AssetInit
<1>2. MarketInv BY <1>1, InitHolds
<1>3. payout = [p \in Pools |-> NoPayout] /\ status = [p \in Pools |-> "None"]
      /\ lockedFee = [p \in Pools |-> NoFee]
  BY <1>1 DEF Init
<1>4. MarketBooks
  <2>1. /\ ConfigTypeOK /\ LifeInv /\ BookInv BY <1>2 DEF MarketInv
  <2>2. WinnerDeclared /\ RefundListComplete /\ BookTypeOK BY <2>1 DEF LifeInv, BookInv
  <2>3. StakeBooks BY <2>1, BooksOfStakes
  <2>4. hasBet \in [Pools -> SUBSET Accounts] /\ bettors \in [Pools -> SUBSET Accounts]
    BY <2>2 DEF BookTypeOK
  <2>5. LifeTypes
    <3>1. status \in [Pools -> Statuses] /\ winner \in [Pools -> Outcomes \cup {NoOutcome}]
      BY <2>1 DEF LifeInv, LifeTypeOK
    <3>2. QED BY <1>3, <3>1 DEF LifeTypes, NoPayout
  <2>6. IdsInOrder
    <3>1. Created = {} BY <1>3 DEF Created, Exists
    <3>2. Created = 1 .. 0 /\ 0 \in 0 .. NumPools BY <3>1, Sizes
    <3>3. QED BY <3>2 DEF IdsInOrder
  <2>7. QED BY <2>1, <2>2, <2>3, <2>4, <2>5, <2>6 DEF MarketBooks
<1>5. \A t \in Tokens, p \in Pools :
        deposit[p][t] = 0 /\ feePending[p][t] = 0 /\ spent[p][t] = 0 /\ swept[p][t] = 0
  BY <1>1
<1>6. TokenTypes
  <2>1. \A p \in Pools, t \in AltTokens : spent[p][t] \in Nat /\ swept[p][t] \in Nat
    BY <1>5, OtherTokens
  <2>2. QED BY <1>1, <2>1 DEF TokenTypes
<1>7. \A p \in Pools : ~InPayment(p) /\ ~IsMultiAsset(p) BY <1>1 DEF InPayment, IsMultiAsset
<1>8. \A p \in Pools : TokenPool(p) /\ Paying(p)
  BY <1>1, <1>3, <1>5, <1>7 DEF TokenPool, Paying
<1>9. ASSUME NEW t \in AltTokens PROVE Covered(t) /\ \A p \in Pools : Held(p, t) /\ Reconciled(p, t)
  <2> DEFINE f == [i \in 0 .. NumPools - 1 |-> Owing(i + 1, t)]
  <2>1. t \in Tokens /\ tokenBalance[t] = 0 BY <1>1, OtherTokens
  <2>2. \A p \in Pools : Owing(p, t) = 0
    BY <1>5, <1>7, <2>1 DEF Owing, TokenLiability
  <2>3. \A i \in 0 .. NumPools - 1 : f[i] = 0 BY <2>2, Sizes DEF Pools
  <2>4. Covered(t) <=> tokenBalance[t] >= SumBelow(f, NumPools) BY DEF Covered
  <2> HIDE DEF f
  <2>5. SumBelow(f, NumPools) = 0 BY <2>3, Sizes, SumZero
  <2>6. Covered(t) BY <2>1, <2>4, <2>5
  <2>7. \A p \in Pools : Held(p, t) BY <1>5, <2>1 DEF Held
  <2>8. QED BY <1>7, <2>6, <2>7 DEF Reconciled
<1>10. QED BY <1>4, <1>6, <1>8, <1>9 DEF TokenInv

LEMMA AssetStutter ==
  ASSUME TokenInv, UNCHANGED assetSpecVars
  PROVE  TokenInv'
<1>1. UNCHANGED vars /\ UNCHANGED assetVars BY DEF assetSpecVars
<1>2. /\ UNCHANGED configVars /\ UNCHANGED bookVars
      /\ UNCHANGED <<status, winner, lockedFee, payout>>
      /\ UNCHANGED <<rate, allowed, deposit, feePending, tokenBalance, spent, swept, interfered>>
  BY <1>1 DEF vars, lifeVars, moneyVars, assetVars
<1>3. TokenTypes' BY <1>2 DEF TokenInv, TokenTypes
<1>4. MarketBooks'
  <2>1. ConfigTypeOK' BY <1>2, ConfigKept DEF TokenInv, MarketBooks
  <2>2. LifeTypes' /\ WinnerDeclared' /\ IdsInOrder'
    BY <1>2 DEF TokenInv, MarketBooks, LifeTypes, WinnerDeclared, IdsInOrder, Created, Exists
  <2>3. QED BY <1>2, <2>1, <2>2, BooksRest DEF MarketBooks
<1>5. \A q \in Pools : Rests(q) BY <1>2 DEF Rests, Exists, bookVars
<1>6. QED BY <1>2, <1>3, <1>4, <1>5, AllRest

(* Of the pools that pay, a step moves at most the one it claims from or   *)
(* collects the fees of.                                                   *)
LEMMA AssetSteps ==
  ASSUME TokenInv, AssetNext
  PROVE  \/ KeptAtRest
         \/ \E p \in Pools : KeptBeside(p) /\ ~InPayment(p) /\ interfered' = interfered
         \/ \E c \in Accounts, p \in Pools : KeptBeside(p) /\ ClaimMultiAssetWinnings(c, p)
         \/ \E c \in Accounts, p \in Pools : KeptBeside(p) /\ CollectMultiAssetFees(c, p)
<1> DEFINE Goal == \/ KeptAtRest
                   \/ \E p \in Pools : KeptBeside(p) /\ ~InPayment(p) /\ interfered' = interfered
                   \/ \E c \in Accounts, p \in Pools : KeptBeside(p) /\ ClaimMultiAssetWinnings(c, p)
                   \/ \E c \in Accounts, p \in Pools : KeptBeside(p) /\ CollectMultiAssetFees(c, p)
<1>1. ASSUME NEW c \in Accounts, AssetStep(c) PROVE Goal
  <2>1. CASE \E t \in RatedTokens, bps \in RateChoices : SetTokenExchangeRate(c, t, bps)
    BY <2>1, SetRateKeeps
  <2>2. CASE \E d \in Durations, dd \in DepositDeadlines \cup {NoDeadline}, list \in TokenLists :
               c \in Creators /\ CreateMultiAssetPool(c, d, dd, list)
    BY <2>2, CreateMultiKeeps
  <2>3. CASE \E p \in Pools, t \in RatedTokens, limits \in TokenLimitChoices :
               SetPoolTokenBetLimits(c, p, t, limits)
    BY <2>3, SetLimitsKeeps
  <2>4. CASE \E p \in Pools, o \in Outcomes, amount \in TokenBets, t \in Tokens :
               PlaceMultiAssetBet(c, p, o, amount, t)
    BY <2>4, PlaceMultiKeeps
  <2>5. CASE \E p \in Pools : ClaimMultiAssetWinnings(c, p) \/ CollectMultiAssetFees(c, p)
    BY <2>5, TokenClaimKeeps, CollectKeeps
  <2>6. CASE \E t \in Tokens, amount \in RescueAmounts : RescueTokens(c, t, amount)
    BY <2>6, RescueKeeps
  <2>7. QED BY <1>1, <2>1, <2>2, <2>3, <2>4, <2>5, <2>6 DEF AssetStep
<1>2. CASE MarketStep /\ AssetsRest BY <1>2, MarketAssets
<1>3. QED BY <1>1, <1>2 DEF AssetNext, AssetsRest

LEMMA AssetNextKeeps == TokenInv /\ [AssetNext]_assetSpecVars => TokenInv'
BY AssetSteps, AssetStutter DEF KeptAtRest, KeptBeside

(***************************************************************************)
(* The invariant of the pools with several tokens.                         *)
(***************************************************************************)
THEOREM AssetInvariant == AssetSpec => []TokenInv
<1>1. QED BY AssetInitHolds, AssetNextKeeps, PTL DEF AssetSpec

(***************************************************************************)
(* The one balance of a token pays what every undisturbed pool still owes  *)
(* in it, through every order of bets, claims, fee collections, rescues,   *)
(* settlements and changes of rate and fee.                                *)
(***************************************************************************)
THEOREM TokensAlwaysCovered == AssetSpec => []TokensCoverClaims
<1>1. ASSUME TokenInv, NEW t \in AltTokens
      PROVE  BalanceOf(t) >=
               SumBelow([i \in 0 .. NumPools - 1 |->
                           IF i + 1 \in interfered THEN 0 ELSE TokenLiability(i + 1, t)], NumPools)
  <2>1. Covered(t) BY <1>1 DEF TokenInv
  <2>2. BalanceOf(t) = tokenBalance[t] BY DEF BalanceOf, AltTokens, BaseToken
  <2>3. QED BY <2>1, <2>2 DEF Covered, Owing
<1>2. TokenInv => TokensCoverClaims BY <1>1 DEF TokensCoverClaims
<1>3. QED BY <1>2, AssetInvariant, PTL

(***************************************************************************)
(* A pool that has its tokens to itself has paid out, after its last claim,*)
(* the whole deposit but the fee, and swept less than a unit per winner.   *)
(***************************************************************************)
THEOREM TokenPayoutsAlwaysReconcile == AssetSpec => []TokenPayoutsReconcile
<1>1. ASSUME TokenInv, NEW p \in Pools \ interfered, NEW t \in AltTokens,
             status[p] = "Settled", FullyClaimed(p), Alone(p, t)
      PROVE  /\ spent[p][t] + feePending[p][t] = deposit[p][t]
             /\ swept[p][t] \in 0 .. Cardinality(bettors[p]) - 1
  <2>1. IsMultiAsset(p) /\ Sole(p, t) BY <1>1 DEF Alone, IsMultiAsset, Sole
  <2>2. TokenPool(p) /\ Reconciled(p, t) BY <1>1 DEF TokenInv
  <2>3. winner[p] \in Outcomes /\ MarketBooks /\ payout[p].feeCredited \in BOOLEAN
    BY <1>1 DEF TokenInv, MarketBooks, WinnerDeclared, LifeTypes
  <2>4. payout[p].claimed > 0 BY <1>1 DEF FullyClaimed
  <2>5. payout[p].feeCredited BY <2>1, <2>2, <2>3, <2>4 DEF TokenPool
  <2>6. InPayment(p) BY <1>1, <2>1, <2>5 DEF InPayment
  <2>7. QED BY <1>1, <2>1, <2>2, <2>6 DEF Reconciled
<1>2. TokenInv => TokenPayoutsReconcile BY <1>1 DEF TokenPayoutsReconcile
<1>3. QED BY <1>2, AssetInvariant, PTL

-----------------------------------------------------------------------------
(* What no step does.                                                      *)

(* Fees collected after the last claim find no share left to change.       *)
LEMMA CollectedShares ==
  ASSUME TokenInv, NEW caller, NEW p \in Pools, CollectMultiAssetFees(caller, p),
         IsMultiAsset(p), payout[p].feeCredited, p \notin interfered',
         NEW u \in Accounts, NEW t \in Tokens
  PROVE  TokenShare(p, u, t)' = TokenShare(p, u, t)
<1>1. /\ feePending' = [feePending EXCEPT ![p] = [s \in Tokens |-> 0]]
      /\ interfered' = interfered
           \cup (IF p \in interfered THEN Sharing(allowed[p]) ELSE {})
           \cup (IF payout[p].claimed < WinningTotal(p) THEN {p} ELSE {})
      /\ UNCHANGED bookVars /\ UNCHANGED <<winner, payout, allowed, deposit>>
  BY DEF CollectMultiAssetFees, lifeVars
<1>2. TokenTypes /\ TokenPool(p) /\ Paying(p) /\ MarketBooks BY DEF TokenInv
<1>3. InPayment(p) /\ ~(payout[p].claimed < WinningTotal(p)) BY <1>1 DEF InPayment
<1>4. status[p] = "Settled" /\ payout[p].claimed > 0 /\ ClaimsWithinSide(p)
  BY <1>2, <1>3 DEF Paying
<1>5. winner[p] \in Outcomes /\ payout[p].claimed \in Nat
  BY <1>2, <1>4 DEF MarketBooks, WinnerDeclared, LifeTypes
<1>6. /\ WinningTotal(p) \in Nat /\ StakedOn(p, winner[p]) \in Nat
      /\ WinningStake(p, u) \in Nat /\ WinningStake(p, u) <= StakedOn(p, winner[p])
  BY <1>2, <1>5, StakedOnTypes DEF WinningTotal, WinningStake
<1>7. WinningStake(p, u) = 0 /\ WinningTotal(p) \in Nat \ {0}
  BY <1>3, <1>4, <1>5, <1>6 DEF ClaimsWithinSide
<1>8. WinningStake(p, u)' = 0 /\ WinningTotal(p)' = WinningTotal(p)
  BY <1>1, <1>7 DEF WinningStake, WinningTotal, bookVars
<1>9. TokenNet(p, t) \in Nat BY <1>2, TokenAmounts
<1>10. TokenNet(p, t)' \in Nat
  <2>1. feePending'[p][t] = 0 BY <1>1, <1>2 DEF TokenTypes
  <2>2. TokenFee(p, t)' = 0 BY <1>1, <2>1 DEF TokenFee
  <2>3. deposit'[p][t] \in Nat BY <1>1, <1>2 DEF TokenTypes
  <2>4. QED BY <2>2, <2>3 DEF TokenNet
<1>11. /\ TokenNet(p, t) * WinningStake(p, u) = 0
       /\ TokenNet(p, t)' * WinningStake(p, u)' = 0
       /\ 0 \div WinningTotal(p) = 0
  BY <1>7, <1>8, <1>9, <1>10
<1>12. QED BY <1>8, <1>11 DEF TokenShare

(***************************************************************************)
(* Once the first winner has claimed, the share of every other winner in   *)
(* every token stays what it is, whatever is called next: a claim, a bet,  *)
(* a new rate, a new fee.                                                  *)
(***************************************************************************)
THEOREM TokenSharesStayFixed == AssetSpec => TokenSharesFixed
<1> DEFINE Fixed ==
             \A p \in Pools, u \in Accounts :
               IsMultiAsset(p) /\ payout[p].feeCredited /\ p \notin interfered' /\ u \in hasBet'[p]
                 => \A t \in Tokens : TokenShare(p, u, t)' = TokenShare(p, u, t)
<1>1. ASSUME TokenInv, AssetNext, NEW p \in Pools, NEW u \in Accounts,
             IsMultiAsset(p), payout[p].feeCredited, p \notin interfered', u \in hasBet'[p],
             NEW t \in Tokens
      PROVE  TokenShare(p, u, t)' = TokenShare(p, u, t)
  <2>1. ASSUME Rests(p) PROVE TokenShare(p, u, t)' = TokenShare(p, u, t)
    <3>1. InPayment(p)' BY <1>1, <2>1 DEF Rests, InPayment, IsMultiAsset
    <3>2. QED BY <2>1, <3>1, RestingPays
  <2>2. CASE KeptAtRest BY <2>1, <2>2 DEF KeptAtRest
  <2>3. CASE \E q \in Pools : KeptBeside(q) /\ ~InPayment(q) /\ interfered' = interfered
    <3>1. PICK q \in Pools : KeptBeside(q) /\ ~InPayment(q) /\ interfered' = interfered
      BY <2>3
    <3>2. p # q BY <1>1, <3>1 DEF InPayment
    <3>3. QED BY <2>1, <3>1, <3>2 DEF KeptBeside
  <2>4. CASE \E c \in Accounts, q \in Pools : KeptBeside(q) /\ ClaimMultiAssetWinnings(c, q)
    <3>1. PICK c \in Accounts, q \in Pools : KeptBeside(q) /\ ClaimMultiAssetWinnings(c, q)
      BY <2>4
    <3>2. CASE p # q BY <2>1, <3>1, <3>2 DEF KeptBeside
    <3>3. CASE p = q
      <4>1. MarketBooks /\ hasBet' = [hasBet EXCEPT ![p] = @ \ {c}]
        BY <1>1, <3>1, <3>3 DEF TokenInv, ClaimMultiAssetWinnings, RemoveBets
      <4>2. u # c BY <1>1, <4>1 DEF MarketBooks
      <4>3. /\ winner' = winner /\ payout'[p].feeCredited = TRUE
            /\ WinningTotal(p)' = WinningTotal(p) /\ WinningStake(p, u)' = WinningStake(p, u)
        BY <3>1, <3>3, <4>1, <4>2, TokenClaimBooks
      <4>4. UNCHANGED <<allowed, deposit>> /\ feePending'[p][t] = TokenFee(p, t)
        BY <1>1, <3>1, <3>3, TokenClaimMoves
      <4>5. TokenFee(p, t)' = TokenFee(p, t) BY <4>3, <4>4 DEF TokenFee
      <4>6. TokenNet(p, t)' = TokenNet(p, t) BY <4>4, <4>5 DEF TokenNet
      <4>7. QED BY <4>3, <4>6 DEF TokenShare
    <3>4. QED BY <3>2, <3>3
  <2>5. CASE \E c \in Accounts, q \in Pools : KeptBeside(q) /\ CollectMultiAssetFees(c, q)
    <3>1. PICK c \in Accounts, q \in Pools : KeptBeside(q) /\ CollectMultiAssetFees(c, q)
      BY <2>5
    <3>2. CASE p # q BY <2>1, <3>1, <3>2 DEF KeptBeside
    <3>3. CASE p = q BY <1>1, <3>1, <3>3, CollectedShares
    <3>4. QED BY <3>2, <3>3
  <2>6. QED BY <1>1, <2>2, <2>3, <2>4, <2>5, AssetSteps
<1>2. ASSUME TokenInv, UNCHANGED assetSpecVars, NEW p \in Pools, NEW u \in Accounts, NEW t \in Tokens
      PROVE  TokenShare(p, u, t)' = TokenShare(p, u, t)
  <2>1. UNCHANGED vars /\ UNCHANGED assetVars BY <1>2 DEF assetSpecVars
  <2>2. /\ UNCHANGED protocolFee /\ UNCHANGED lockedFee /\ UNCHANGED <<winner, payout>>
        /\ UNCHANGED <<totals, stake>> /\ UNCHANGED <<allowed, deposit, feePending>>
    BY <2>1 DEF vars, configVars, lifeVars, bookVars, moneyVars, assetVars
  <2>3. TokenFee(p, t)' = TokenFee(p, t) BY <2>2 DEF TokenFee, EffectiveFee
  <2>4. QED BY <2>2, <2>3 DEF TokenShare, TokenNet, WinningStake, WinningTotal
<1>3. TokenInv /\ [AssetNext]_assetSpecVars => [Fixed]_assetSpecVars BY <1>1, <1>2
<1>4. QED BY <1>3, AssetInvariant, PTL DEF AssetSpec, TokenSharesFixed

=============================================================================
