\* A pool is settled after a bettor took an expired stake back.
SPECIFICATION Spec
CONSTANTS
  NumAccounts = 3
  NumPools = 2
  NumOutcomes = 2
  BpsDenom = 10
  Admin = 0
  TreasuryRecipient = 0
  FreezeAdmin <- Unset
  BetAmounts = {3}
  CancelAmounts = {}
  Creators = {0}
  MinBetAmount = 1
  PoolMinBet = 1
  PoolMaxBet = 0
  MaxPoolSize = 6
  PlaceFeeBps = 0
  FeeChoices = {3}
  TierChoices <- NoTierCalls
  InitialTiers <- NoTiers
  LargePoolThreshold = 0
  CoolingPeriod = 0
  MinParticipantChoices = {0}
  MinDuration = 1
  MaxDuration = 3
  MaxExtension = 1
  MaxHorizon = 1
  GracePeriod = 1
  DisputeWindow = 1
  MaxWithdrawal = 0
  WithdrawalWindow = 0
  PauseChoices = {}
  Settlers = {}
  Durations = {1}
  Extensions = {}
  DepositDeadlines = {}
  OpenTimes = {}
  MaxBetsPerWindow = 0
  RateWindow = 0
  MaxBetPerTx = 0
  MaxExposureBps = 0
  DailyLossLimit = 0
  DailyWindow = 0
  WeeklyLossLimit = 0
  WeeklyWindow = 0
  LargeBetThreshold = 0
  LargeBetCooldown = 0
  MaxTime = 2
  MaxExpiry = 1
  MaxParticipants = 3
  ExposureBound = 3
INVARIANTS
  ClaimedPoolBalances
CHECK_DEADLOCK FALSE
