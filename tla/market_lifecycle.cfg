\* One pool from creation to the last claim, no freeze administrator.
SPECIFICATION Spec
CONSTANTS
  NumAccounts = 3
  NumPools = 1
  NumOutcomes = 2
  BpsDenom = 10
  Admin = 0
  TreasuryRecipient = 0
  FreezeAdmin <- Unset
  BetAmounts = {2, 3}
  CancelAmounts = {2}
  Creators = {0}
  MinBetAmount = 1
  PoolMinBet = 1
  PoolMaxBet = 0
  MaxPoolSize = 6
  PlaceFeeBps = 0
  FeeChoices = {3}
  TierChoices <- NoTierCalls
  InitialTiers <- NoTiers
  LargePoolThreshold = 0
  CoolingPeriod = 0
  MinParticipantChoices = {0}
  MinDuration = 1
  MaxDuration = 3
  MaxExtension = 1
  MaxHorizon = 1
  GracePeriod = 1
  DisputeWindow = 1
  MaxWithdrawal = 0
  WithdrawalWindow = 0
  PauseChoices = {}
  Settlers = {}
  Durations = {2}
  Extensions = {1}
  DepositDeadlines = {1}
  OpenTimes = {1}
  MaxBetsPerWindow = 0
  RateWindow = 0
  MaxBetPerTx = 0
  MaxExposureBps = 0
  DailyLossLimit = 0
  DailyWindow = 0
  WeeklyLossLimit = 0
  WeeklyWindow = 0
  LargeBetThreshold = 0
  LargeBetCooldown = 0
  MaxTime = 4
  MaxExpiry = 3
  MaxParticipants = 3
  ExposureBound = 5
INVARIANTS
  TypeOK
  BooksConsistent
  PoolsFunded
  PayoutsReconcile
PROPERTIES
  TotalsFixedAfterExpiry
  TerminalStatesFinal
CHECK_DEADLOCK FALSE
