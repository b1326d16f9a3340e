\* Fee, tier, pause and minimum changes, withdrawal windows, freezes, disputes, cooling lock and override around the settlements of one pool.
SPECIFICATION Spec
CONSTANTS
  NumAccounts = 3
  NumPools = 1
  NumOutcomes = 2
  BpsDenom = 10
  Admin = 1
  TreasuryRecipient = 0
  FreezeAdmin = 2
  BetAmounts = {3}
  CancelAmounts = {}
  Creators = {0}
  MinBetAmount = 1
  PoolMinBet = 1
  PoolMaxBet = 0
  MaxPoolSize = 6
  PlaceFeeBps = 0
  FeeChoices = {1, 3}
  TierChoices <- TierCalls
  InitialTiers <- NoTiers
  LargePoolThreshold = 5
  CoolingPeriod = 1
  MinParticipantChoices = {0, 2}
  MinDuration = 1
  MaxDuration = 3
  MaxExtension = 1
  MaxHorizon = 1
  GracePeriod = 1
  DisputeWindow = 1
  MaxWithdrawal = 1
  WithdrawalWindow = 1
  PauseChoices = {TRUE, FALSE}
  Settlers = {1}
  Durations = {2}
  Extensions = {}
  DepositDeadlines = {}
  OpenTimes = {}
  MaxBetsPerWindow = 0
  RateWindow = 0
  MaxBetPerTx = 0
  MaxExposureBps = 0
  DailyLossLimit = 0
  DailyWindow = 0
  WeeklyLossLimit = 0
  WeeklyWindow = 0
  LargeBetThreshold = 0
  LargeBetCooldown = 0
  MaxTime = 3
  MaxExpiry = 2
  MaxParticipants = 3
  ExposureBound = 3
PROPERTIES
  ChargedFeeIsRecorded
  KeepsFunds
CHECK_DEADLOCK FALSE
