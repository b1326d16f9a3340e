\* Rate, loss and cool-down limits of one wallet in two pools against the full history of its bets.
SPECIFICATION LimitsSpec
CONSTANTS
  NumAccounts = 2
  NumPools = 2
  NumOutcomes = 2
  BpsDenom = 10
  Admin <- Unset
  TreasuryRecipient = 0
  FreezeAdmin <- Unset
  BetAmounts = {1, 5}
  CancelAmounts = {5}
  Creators = {0}
  MinBetAmount = 1
  PoolMinBet = 1
  PoolMaxBet = 0
  MaxPoolSize = 0
  PlaceFeeBps = 0
  FeeChoices = {3}
  TierChoices <- NoTierCalls
  InitialTiers <- NoTiers
  LargePoolThreshold = 0
  CoolingPeriod = 0
  MinParticipantChoices = {0}
  MinDuration = 1
  MaxDuration = 5
  MaxExtension = 1
  MaxHorizon = 1
  GracePeriod = 1
  DisputeWindow = 1
  MaxWithdrawal = 0
  WithdrawalWindow = 0
  PauseChoices = {}
  Settlers = {}
  Durations = {5}
  Extensions = {}
  DepositDeadlines = {}
  OpenTimes = {}
  MaxBetsPerWindow = 2
  RateWindow = 2
  MaxBetPerTx = 0
  MaxExposureBps = 0
  DailyLossLimit = 5
  DailyWindow = 2
  WeeklyLossLimit = 11
  WeeklyWindow = 3
  LargeBetThreshold = 5
  LargeBetCooldown = 3
  MaxTime = 4
  MaxExpiry = 5
  MaxParticipants = 2
  ExposureBound = 10
INVARIANTS
  LimitsOverAnyInterval
CHECK_DEADLOCK FALSE
