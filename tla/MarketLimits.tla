---------------------------- MODULE MarketLimits ----------------------------
(***************************************************************************)
(* What the per-wallet limits promise over time.  The contract keeps one   *)
(* fixed window per limit and throws the past away; this module adds the   *)
(* history of accepted bets to PredinexMarket and compares the two.        *)
(***************************************************************************)
EXTENDS PredinexMarket

VARIABLE history    \* accepted bets in order: who, where, when, gross amount

limitsSpecVars == <<vars, history>>

LimitsSpecInit == Init /\ history = <<>>

RecordedBet(u, p, o, amount) ==
  /\ PlaceBet(u, p, o, amount)
  /\ history' = Append(history, [user |-> u, pool |-> p, time |-> now, gross |-> amount])

LimitsNext ==
  \/ \E u \in Accounts, p \in Pools, o \in Outcomes, amount \in BetAmounts :
       RecordedBet(u, p, o, amount)
  \/ OtherStep /\ UNCHANGED history

LimitsSpec == LimitsSpecInit /\ [][LimitsNext]_limitsSpecVars

(* The bets u placed in the length seconds that start at t, and their sum. *)
PlacedIn(b, u, t, length) == b.user = u /\ t <= b.time /\ b.time < t + length

OverHistory(amount) == SumBelow(amount, Len(history))

BetsIn(u, t, length) ==
  OverHistory([i \in 0 .. Len(history) - 1 |->
                 IF PlacedIn(history[i + 1], u, t, length) THEN 1 ELSE 0])

GrossIn(u, t, length) ==
  OverHistory([i \in 0 .. Len(history) - 1 |->
                 IF PlacedIn(history[i + 1], u, t, length) THEN history[i + 1].gross ELSE 0])

(***************************************************************************)
(* set_rate_limit_config: over any interval as long as the window, not     *)
(* only over the stored one, a wallet places fewer than twice the maximum  *)
(* number of bets in all pools together (two adjacent windows overlap an   *)
(* interval, and the first bet of the earlier one lies outside it).        *)
(***************************************************************************)
RateOverAnyInterval ==
  RateLimited =>
    \A u \in Accounts, t \in 0 .. MaxTime :
      BetsIn(u, t, RateWindow) <= 2 * MaxBetsPerWindow - 1

(***************************************************************************)
(* set_user_exposure_config: over any interval as long as the daily window *)
(* (and likewise the weekly one) a wallet stakes less than twice the limit,*)
(* whatever it cancelled or was refunded in between.                       *)
(***************************************************************************)
LossOverAnyInterval ==
  \A u \in Accounts, t \in 0 .. MaxTime :
    /\ DailyLossLimit > 0 /\ DailyWindow > 0 =>
         GrossIn(u, t, DailyWindow) < 2 * DailyLossLimit
    /\ WeeklyLossLimit > 0 /\ WeeklyWindow > 0 =>
         GrossIn(u, t, WeeklyWindow) < 2 * WeeklyLossLimit

(***************************************************************************)
(* Two large bets of a wallet in one pool are at least the cool-down       *)
(* apart, also when the first was cancelled or the pool thawed in between. *)
(***************************************************************************)
LargeBetsSpaced ==
  \A i, j \in DOMAIN history :
    (/\ i < j /\ history[i].user = history[j].user /\ history[i].pool = history[j].pool
     /\ LargeBet(history[i].gross) /\ LargeBet(history[j].gross))
      => history[j].time - history[i].time >= LargeBetCooldown

(***************************************************************************)
(* The three limits hold over any interval of the history together: a call *)
(* refused by one of them leaves no mark in the windows of the others.     *)
(***************************************************************************)
LimitsOverAnyInterval == RateOverAnyInterval /\ LossOverAnyInterval /\ LargeBetsSpaced

=============================================================================
