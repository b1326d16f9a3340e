\* Two pools, one of them below the participant minimum, in batches of one with one retry.
SPECIFICATION FairSpec
CONSTANTS
  NumPools = 2
  OutcomeCount = 2
  ScanBatch = 1
  SettleBatchSize = 1
  ContractCap = 1
  MaxRetries = 1
  MaxFailureCount = 2
  AutoSettle = TRUE
  DryRun = FALSE
  FallbackToDefault = FALSE
  DefaultOutcome = 0
  Deferred = Deferred
  Unreachable = Unreachable
  NoOutcome = NoOutcome
  Unanswered = Unanswered
  OracleAnswers = {1, Unreachable}
  ThinPools = {2}
  MaxReopenings = 1
INVARIANTS
  NoticesAreTrue
  CyclesBounded
PROPERTIES
  DuePoolsSettle
CHECK_DEADLOCK FALSE
