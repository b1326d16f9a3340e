\* Claims in batches and by schedule in two pools, two entries per execution.
SPECIFICATION StartedSpec
CONSTANTS
  NumAccounts = 3
  NumPools = 2
  NumOutcomes = 2
  BpsDenom = 10
  Admin <- Unset
  TreasuryRecipient <- Unset
  FreezeAdmin <- Unset
  BetAmounts = {}
  CancelAmounts = {}
  Creators = {0}
  MinBetAmount = 1
  PoolMinBet = 1
  PoolMaxBet = 0
  MaxPoolSize = 6
  PlaceFeeBps = 0
  FeeChoices = {2}
  TierChoices <- NoTierCalls
  InitialTiers <- NoTiers
  LargePoolThreshold = 0
  CoolingPeriod = 0
  MinParticipantChoices = {0}
  MinDuration = 1
  MaxDuration = 3
  MaxExtension = 1
  MaxHorizon = 1
  GracePeriod = 1
  DisputeWindow = 1
  MaxWithdrawal = 0
  WithdrawalWindow = 0
  PauseChoices = {}
  Settlers = {}
  Durations = {1}
  Extensions = {}
  DepositDeadlines = {}
  OpenTimes = {}
  MaxBetsPerWindow = 0
  RateWindow = 0
  MaxBetPerTx = 0
  MaxExposureBps = 0
  DailyLossLimit = 0
  DailyWindow = 0
  WeeklyLossLimit = 0
  WeeklyWindow = 0
  LargeBetThreshold = 0
  LargeBetCooldown = 0
  MaxTime = 2
  MaxExpiry = 1
  MaxParticipants = 3
  ExposureBound = 3
  ExecutionCap = 2
  BatchCap = 2
  PoolLists <- TwiceAndOther
  Delays = {1}
  MaxClaims = 3
INVARIANTS
  BatchesPayOnce
PROPERTIES
  DueClaimsDrain
CHECK_DEADLOCK FALSE
