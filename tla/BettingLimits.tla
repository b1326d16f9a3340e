--------------------------- MODULE BettingLimits ---------------------------
(***************************************************************************)
(* The per-wallet limits that place_bet enforces: the rate-limit window    *)
(* shared by all pools, the cap on one wallet's share of a pool, the daily *)
(* and weekly windows of staked volume and the cool-down after a large     *)
(* bet.  The module owns the state those limits keep (one variable per     *)
(* storage key) and gives the check and the record of one bet as operators *)
(* and actions; PredinexMarket composes them into its handlers.            *)
(*                                                                         *)
(* Limits are deployment constants here: 0 switches one off, as in the     *)
(* code, and the record actions write only what an enabled limit reads.    *)
(***************************************************************************)
EXTENDS Integers

CONSTANTS
  NumAccounts,          \* accounts are 0 .. NumAccounts - 1
  NumPools,             \* pool ids are 1 .. NumPools
  BpsDenom,             \* 10_000 in the code: the unit of a basis point
  MaxBetsPerWindow,     \* RateLimitMaxBetsPerWindow
  RateWindow,           \* RateLimitWindowSecs
  MaxBetPerTx,          \* UserMaxBetPerTransaction
  MaxExposureBps,       \* UserMaxExposurePerPoolBps
  DailyLossLimit, DailyWindow,
  WeeklyLossLimit, WeeklyWindow,
  LargeBetThreshold, LargeBetCooldown

ASSUME LimitsAssumption ==
  /\ NumAccounts \in Nat \ {0} /\ NumPools \in Nat \ {0}
  /\ BpsDenom \in Nat \ {0}
  /\ MaxBetsPerWindow \in Nat /\ RateWindow \in Nat /\ MaxBetPerTx \in Nat
  /\ MaxExposureBps \in Nat
  /\ DailyLossLimit \in Nat /\ DailyWindow \in Nat
  /\ WeeklyLossLimit \in Nat /\ WeeklyWindow \in Nat
  /\ LargeBetThreshold \in Nat /\ LargeBetCooldown \in Nat

VARIABLES
  betRate,       \* WalletRateLimit: bets placed in the wallet's window
  exposure,      \* UserExposurePerPool
  dailyLoss,     \* UserDailyLossState
  weeklyLoss,    \* UserWeeklyLossState
  lastLargeBet   \* LastLargeBetTimestamp, Never when the key is absent

limitVars == <<betRate, exposure, dailyLoss, weeklyLoss, lastLargeBet>>

Accounts == 0 .. NumAccounts - 1
Pools == 1 .. NumPools
Never == -1

(* A stored window, or the absent key: start = Never.                      *)
NoWindow == [start |-> Never, used |-> 0]
Windows == [start : Int, used : Nat]

(***************************************************************************)
(* The window a handler sees at time t: unwrap_or(start: t, 0) for an      *)
(* absent key, and a window that has run its length starts again at t.     *)
(***************************************************************************)
Window(w, t, length) ==
  IF w.start = Never \/ t - w.start >= length
  THEN [start |-> t, used |-> 0]
  ELSE w

(* mutant: the window restarts with every later bet *)
LossWindowOfNow(w, t, length) ==
  IF w.start # t THEN [start |-> t, used |-> 0] ELSE w

(* load_loss_state resets a window only when its length is positive.       *)
LossWindow(w, t, length) ==
  IF w.start # Never /\ length = 0 THEN w ELSE Window(w, t, length)

RateLimited == MaxBetsPerWindow > 0 /\ RateWindow > 0

RateLimitOk(u, t) ==
  RateLimited => Window(betRate[u], t, RateWindow).used < MaxBetsPerWindow

LargeBet(amount) ==
  LargeBetCooldown > 0 /\ LargeBetThreshold > 0 /\ amount >= LargeBetThreshold

MaxExposure(volume) == (volume * MaxExposureBps) \div BpsDenom

(* A share that rounds to nothing is no limit.                             *)
WithinShare(u, p, amount, volume) ==
  MaxExposureBps > 0 /\ MaxExposure(volume) > 0
    => exposure[p][u] + amount <= MaxExposure(volume)

CooledDown(u, p, t) ==
  lastLargeBet[p][u] # Never => t - lastLargeBet[p][u] >= LargeBetCooldown

(* check_user_exposure_limits; volume is total_a + total_b before the bet. *)
ExposureOk(u, p, amount, volume, t) ==
  /\ MaxBetPerTx > 0 => amount <= MaxBetPerTx
  /\ WithinShare(u, p, amount, volume)
  /\ DailyLossLimit > 0 =>
       LossWindow(dailyLoss[u], t, DailyWindow).used + amount <= DailyLossLimit
  /\ WeeklyLossLimit > 0 =>
       LossWindow(weeklyLoss[u], t, WeeklyWindow).used + amount <= WeeklyLossLimit
  /\ LargeBet(amount) => CooledDown(u, p, t)

Add(w, amount) == [w EXCEPT !.used = @ + amount]

Raised(x, amount) == x + amount

(***************************************************************************)
(* What an accepted bet records: one bet in the rate window, the net       *)
(* amount in the exposure, the gross amount in the loss windows, and the   *)
(* time of a large bet.                                                    *)
(***************************************************************************)
RecordBet(u, p, gross, net, t) ==
  /\ betRate' = IF RateLimited
                THEN [betRate EXCEPT ![u] = Add(Window(@, t, RateWindow), 1)]
                ELSE betRate
  /\ exposure' = [exposure EXCEPT ![p][u] = Raised(@, net)]
  /\ dailyLoss' = IF DailyLossLimit > 0
                  THEN [dailyLoss EXCEPT ![u] = Add(LossWindow(@, t, DailyWindow), gross)]
                  ELSE dailyLoss
  /\ weeklyLoss' = IF WeeklyLossLimit > 0
                   THEN [weeklyLoss EXCEPT ![u] = Add(LossWindow(@, t, WeeklyWindow), gross)]
                   ELSE weeklyLoss
  /\ lastLargeBet' = IF LargeBet(gross)
                     THEN [lastLargeBet EXCEPT ![p][u] = t]
                     ELSE lastLargeBet

(* saturating_sub, and a key that would not be positive is removed.        *)
Reduced(x, amount) == IF x > amount THEN x - amount ELSE 0

ReduceExposure(p, cut) ==
  /\ exposure' = [exposure EXCEPT ![p] = [u \in Accounts |-> Reduced(@[u], cut[u])]]
  /\ UNCHANGED <<betRate, dailyLoss, weeklyLoss, lastLargeBet>>

LimitsInit ==
  /\ betRate = [u \in Accounts |-> NoWindow]
  /\ exposure = [p \in Pools |-> [u \in Accounts |-> 0]]
  /\ dailyLoss = [u \in Accounts |-> NoWindow]
  /\ weeklyLoss = [u \in Accounts |-> NoWindow]
  /\ lastLargeBet = [p \in Pools |-> [u \in Accounts |-> Never]]

LimitsTypeOK ==
  /\ betRate \in [Accounts -> Windows]
  /\ exposure \in [Pools -> [Accounts -> Nat]]
  /\ dailyLoss \in [Accounts -> Windows]
  /\ weeklyLoss \in [Accounts -> Windows]
  /\ lastLargeBet \in [Pools -> [Accounts -> Int]]

=============================================================================
