\* The last claim of one multi-asset pool takes the deposits of another.
SPECIFICATION AssetSpec
CONSTANTS
  NumAccounts = 3
  NumPools = 2
  NumOutcomes = 2
  BpsDenom = 10
  Admin <- Unset
  TreasuryRecipient = 0
  FreezeAdmin <- Unset
  BetAmounts = {}
  CancelAmounts = {}
  Creators = {0}
  MinBetAmount = 1
  PoolMinBet = 0
  PoolMaxBet = 0
  MaxPoolSize = 0
  PlaceFeeBps = 0
  FeeChoices = {2}
  TierChoices <- NoTierCalls
  InitialTiers <- NoTiers
  LargePoolThreshold = 0
  CoolingPeriod = 0
  MinParticipantChoices = {0}
  MinDuration = 1
  MaxDuration = 3
  MaxExtension = 1
  MaxHorizon = 1
  GracePeriod = 1
  DisputeWindow = 1
  MaxWithdrawal = 0
  WithdrawalWindow = 0
  PauseChoices = {}
  Settlers = {}
  Durations = {1}
  Extensions = {}
  DepositDeadlines = {}
  OpenTimes = {}
  MaxBetsPerWindow = 0
  RateWindow = 0
  MaxBetPerTx = 0
  MaxExposureBps = 0
  DailyLossLimit = 0
  DailyWindow = 0
  WeeklyLossLimit = 0
  WeeklyWindow = 0
  LargeBetThreshold = 0
  LargeBetCooldown = 0
  MaxTime = 1
  MaxExpiry = 1
  MaxParticipants = 2
  ExposureBound = 3
  NumTokens = 1
  RateChoices = {5}
  RatedTokens <- TokenOne
  TokenLists <- OneToken
  TokenBets = {3}
  TokenLimitChoices <- NoLimits
  RescueAmounts = {}
  DepositBound = 6
INVARIANTS
  DepositsInEscrow
CHECK_DEADLOCK FALSE
