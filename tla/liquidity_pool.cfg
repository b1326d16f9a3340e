\* Two providers of one pool: joins, leaves, rewards, stakes and boosts.
SPECIFICATION Spec
CONSTANTS
  NumProviders = 2
  Precision = 4
  BpsDenom = 4
  MinLock = 1
  DepositAmounts = {1, 2}
  RewardAmounts = {1, 2}
  LockPeriods = {1, 2}
  BoostChoices = {4, 6}
  PauseChoices = {TRUE, FALSE}
  MaxTime = 1
  MaxLiquidity = 4
  MaxDistributed = 3
INVARIANTS
  TypeOK
  NobodyDiluted
  RewardsAccounted
  PendingIsAccrued
PROPERTIES
  LockedStakeHeld
CHECK_DEADLOCK FALSE
