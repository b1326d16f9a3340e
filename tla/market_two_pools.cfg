\* Two pools on one token balance, with fair claims.
SPECIFICATION FairSpec
CONSTANTS
  NumAccounts = 3
  NumPools = 2
  NumOutcomes = 2
  BpsDenom = 10
  Admin <- Unset
  TreasuryRecipient = 0
  FreezeAdmin <- Unset
  BetAmounts = {3}
  CancelAmounts = {}
  Creators = {0}
  MinBetAmount = 1
  PoolMinBet = 1
  PoolMaxBet = 0
  MaxPoolSize = 6
  PlaceFeeBps = 0
  FeeChoices = {3}
  TierChoices <- NoTierCalls
  InitialTiers <- NoTiers
  LargePoolThreshold = 0
  CoolingPeriod = 0
  MinParticipantChoices = {0}
  MinDuration = 1
  MaxDuration = 3
  MaxExtension = 1
  MaxHorizon = 1
  GracePeriod = 1
  DisputeWindow = 1
  MaxWithdrawal = 0
  WithdrawalWindow = 0
  PauseChoices = {}
  Settlers = {}
  Durations = {2}
  Extensions = {}
  DepositDeadlines = {}
  OpenTimes = {}
  MaxBetsPerWindow = 0
  RateWindow = 0
  MaxBetPerTx = 0
  MaxExposureBps = 0
  DailyLossLimit = 0
  DailyWindow = 0
  WeeklyLossLimit = 0
  WeeklyWindow = 0
  LargeBetThreshold = 0
  LargeBetCooldown = 0
  MaxTime = 3
  MaxExpiry = 2
  MaxParticipants = 3
  ExposureBound = 3
INVARIANTS
  Solvent
PROPERTIES
  WinnersPaid
  StakesReturned
CHECK_DEADLOCK FALSE
