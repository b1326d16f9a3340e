\* Small instances of every part of the web client, and of the process around the bot.
SPECIFICATION SmallSpec
CONSTANTS
  CallFlows = {"f1", "f2"}
  CallSurfaces = {"claimButton", "settle", "lp"}
  CallPools = {1}
  CallTimeBound = 1
  CallMaxAttempts = 2
  CallClaimAllMaxPools = 1
  CallFunctions = {"claim_winnings", "settle_pool", "deposit_liquidity"}
  ClientFlows = {"g"}
  ClientSurfaces = {"bet", "claims", "claimAll", "create"}
  ClientPools = {1}
  ClientUserKinds = {"activity"}
  ClientTimeBound = 1
  ClientMaxAttempts = 1
  ClientClaimAllMaxPools = 2
  ClientFunctions = {"place_bet", "claim_winnings", "claim_all_winnings", "create_multi_outcome_pool"}
  UserAddresses = {1, 2}
  PollMaxPolls = 3
  RetryRequests = {"r1", "r2", "r3"}
  RetryMaxConcurrent = 1
  RetryMaxAttempts = 2
  RetryFailureThreshold = 2
  RetryUsesBreaker = TRUE
  DiscMaxMarkets = 2
  DiscPageSize = 1
  DiscMaxVersion = 2
  DiscIds = {1, 2}
  SessionAccounts = {1, 2}
  SessionMaxConnects = 2
  ReadMaxPools = 5
  ReadFetchSize = 4
  ReadConcurrency = 2
  ReadLastPage = 2
  CreateTitles <- SmallTitles
  CreateDescriptions <- SmallDescriptions
  CreateLabels <- SmallLabels
  CreateDurations = {301}
  CreateDeadlines = {301}
  CreateFees = {1001}
  CreateDeposits = {1}
  CreateMaxOutcomes = 3
  CreateTemplates <- SmallTemplates
  CreateMetadataSize = 40
  SelTabs = {"t1", "t2"}
  SelCards = {1, 2}
  SelMaxSelected = 1
  AddrTexts = {"", "a", "a ", "b"}
  AddrRests = {"all", "open"}
  ListListings <- SmallListings
  ListFilterSets <- SmallFilters
  ListMaxHeight = 3
  ListDay = 1
  ListPerPage = 1
  ActLedger <- SmallLedger
  ActAccounts = {"ann", "bob"}
  ActThisPool = 1
  ActPageLoad = 2
  ActMaxEvents = 4
  ActShownFirst = 2
  ActShownStep = 1
  ActFeedLimit = 6
  ActPageSize = 2
  ActMaxWindow = 2
  ActToday = 4
  ActDates = {0, 3}
  ActPoolHooks = {1}
  ActGeneralHook = TRUE
  NotePrefs = {"all", "some"}
  NoteDefault = "all"
  NoteMaxSaves = 2
  DashBetPools = {1}
  DashLastPool = 2
  DashOthers <- OtherTotals
  DashExpiries = {1}
  DashMaxHeight = 2
  PageAccounts = {"a"}
  PageMinBet = 1
  PageMaxBet = 0
  PageBalance = 1
  PageEntries = {1}
  PageFailingReads = {"refresh"}
  PageMaxReads = 2
  PageMaxBets = 1
  PageMaxTotal = 1
  BanAccounts = {"ann", "bob"}
  BanAdmins = {"ann"}
  BanCreators = {"c1", "c2"}
  BanSamples <- SomeSamples
  BanMalformed = "bad"
  BanMaxLog = 3
  SetAccounts = {"ann", "bob"}
  SetTransactions <- SmallTransactions
  SetPools <- SmallPools
  SetBatchMax = 2
  BotWebhookMaxRetries = 1
  BotMaxCycles = 2
INVARIANTS
  OneExecutionPerSequence
  FreshAfterSuccess
  AnswersAreMine
  ListsAreWhole
  ShownOfMarketsIsTrue
  PollingAlive
  SentFieldsAccepted
  LoneSaveIsListed
  BrowserStateAgrees
  NoticesKept
PROPERTIES
  CallsKeepPromise
  KnownPoolStays
  EveryCallAnswered
  EveryReadEnds
  ShutdownEnds
CHECK_DEADLOCK FALSE
