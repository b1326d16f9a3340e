------------------------------- MODULE WebApp -------------------------------
(***************************************************************************)
(* The parts of the web client, and the process around the bot.  In the    *)
(* code they share no state but what their own modules already compose     *)
(* (the caches beside the calls that invalidate them), so that running two *)
(* of them side by side reaches nothing that each does not reach alone: a  *)
(* behaviour picks one part, its focus, and follows it.                    *)
(***************************************************************************)
EXTENDS Integers, Sequences, FiniteSets

\* Those of the parts, each named for its part; every module explains its own.
CONSTANTS
  CallFlows, CallSurfaces, CallPools, CallTimeBound, CallMaxAttempts,
  CallClaimAllMaxPools, CallFunctions,
  ClientFlows, ClientSurfaces, ClientPools, ClientUserKinds, ClientTimeBound,
  ClientMaxAttempts, ClientClaimAllMaxPools, ClientFunctions,
  UserAddresses,
  PollMaxPolls,
  RetryRequests, RetryMaxConcurrent, RetryMaxAttempts, RetryFailureThreshold,
  RetryUsesBreaker,
  DiscMaxMarkets, DiscPageSize, DiscMaxVersion, DiscIds,
  SessionAccounts, SessionMaxConnects,
  ReadMaxPools, ReadFetchSize, ReadConcurrency, ReadLastPage,
  CreateTitles, CreateDescriptions, CreateLabels, CreateDurations, CreateDeadlines,
  CreateFees, CreateDeposits, CreateMaxOutcomes, CreateTemplates, CreateMetadataSize,
  SelTabs, SelCards, SelMaxSelected,
  AddrTexts, AddrRests,
  ListListings, ListFilterSets, ListMaxHeight, ListDay, ListPerPage,
  ActLedger, ActAccounts, ActThisPool, ActPageLoad, ActMaxEvents, ActShownFirst,
  ActShownStep, ActFeedLimit, ActPageSize, ActMaxWindow, ActToday, ActDates,
  ActPoolHooks, ActGeneralHook,
  NotePrefs, NoteDefault, NoteMaxSaves,
  DashBetPools, DashLastPool, DashOthers, DashExpiries, DashMaxHeight,
  PageAccounts, PageMinBet, PageMaxBet, PageBalance, PageEntries, PageFailingReads,
  PageMaxReads, PageMaxBets, PageMaxTotal,
  BanAccounts, BanAdmins, BanCreators, BanSamples, BanMalformed, BanMaxLog,
  SetAccounts, SetTransactions, SetPools, SetBatchMax,
  BotWebhookMaxRetries, BotMaxCycles

\* Nobody is an account, and no filter a link can carry is the absent navigation;
\* pools are numbered, a character takes a byte at least, the forms take no more labels
\* than the contract, and the samples of the moderation page list no one twice.
ASSUME AppAssumption ==
  /\ 0 \notin SessionAccounts /\ 0 \notin UserAddresses
  /\ "nowhere" \notin AddrRests
  /\ ClientClaimAllMaxPools \in Nat \ {0}
  /\ SelCards \subseteq Int /\ SelMaxSelected \in Nat
  /\ CreateMetadataSize \in Nat /\ CreateMaxOutcomes \in Nat /\ CreateMaxOutcomes <= 20
  /\ \A text \in CreateDescriptions \union {t.description : t \in CreateTemplates} :
       text.bytes \in Nat /\ text.chars \in 0 .. text.bytes
  /\ NoteDefault \in NotePrefs /\ "none" \notin NotePrefs
  /\ BanSamples \in Seq(BanCreators)
  /\ \A i, j \in DOMAIN BanSamples : BanSamples[i] = BanSamples[j] => i = j

\* The contract's numbers are natural, the filters are those of the page, the first page
\* of a timeline is no longer than a timeline, and no event is of a day to come.
ASSUME ListsAssumption ==
  /\ ReadMaxPools \in Nat /\ ReadFetchSize \in Nat \ {0} /\ ReadConcurrency \in Nat \ {0}
  /\ ListPerPage \in Nat \ {0}
  /\ ListListings \subseteq
       Seq([id : Nat, createdAt : Nat, text : SUBSET STRING, asset : STRING, category : STRING,
            tags : SUBSET STRING, mirrored : BOOLEAN, a : Nat, b : Nat, settled : BOOLEAN,
            disputed : BOOLEAN, frozen : BOOLEAN, expiry : Nat])
  /\ ListFilterSets \subseteq
       [q : STRING, status : STRING, asset : STRING, min : Int, max : Int, time : STRING,
        sort : STRING]
  /\ ActPageLoad \in Nat /\ ActMaxEvents \in Nat /\ ActPageLoad <= ActMaxEvents
  /\ Len(ActLedger) \in Nat /\ ActFeedLimit \in Nat /\ ActToday \in Nat /\ ActMaxWindow \in Nat
  /\ \A i \in 1 .. Len(ActLedger) : ActLedger[i].day \in 0 .. ActToday
  /\ ActDates \subseteq Nat
  /\ DashLastPool \in Nat /\ DashOthers \subseteq [A : Nat, B : Nat] /\ DashExpiries \subseteq Nat

VARIABLES
  focus,  \* the part this behaviour follows
  callsFlow, callsUi, callsPoolClaim, callsClaimAll, callsAccount, clientFlow, clientUi,
  clientPoolClaim, clientClaimAll, clientAccount, clientStore, clientReads, userAddress,
  userCached, userActivity, userBets, pollVisible, pollMounted, pollEnabled,
  pollRunningRef, pollRunning, pollTimer, pollStray, retryReq, retryActive, retryQueue,
  retryRecent, retryBreaker, discListing, discCachedList, discWarmRead, discAsked,
  discLastId, discView, sessionExtension, sessionSession, sessionConnects,
  sessionPersisted, sessionNetwork, sessionBalance, readsTotal, readsPage, readsFetch,
  readsUnstarted, readsExecuting, readsInFlight, readsAnswered, readsMissing, readsListed,
  readsSimulated, createSurface, createDraft, createStep, createDeepLink, createSubmission,
  selList, selKept, selScreen, selHeld, addrAt, addrUrl, addrGoing, addrFilters, addrBox,
  addrDebounce, addrPools, listOnChain, listHeightCache, listLoaded, listBrowse,
  actEmitted, actRoute, actTimeline, actAsked, actPoolKept, actAccount, actFeed, actBrowse,
  actExport, actNotices, noteStored, noteGranted, noteCopy, noteVisible, noteBrowser,
  noteKv, noteListed, noteHandlers, noteSent, dashChain, dashHeight, dashRead, dashDash,
  dashBoard, dashPicked, dashClaims, dashScreen, pageLedger, pageUser, pageShown,
  pageReads, pageForm, pageBet, pageTimers, bansStored, bansUser, bansAccess, bansLists,
  bansForm, bansDialog, setUser, setLoads, setData, setExported, botEnv, botProcess,
  botPoller, botServer, botRequests, botAttempt, botWebhooks

Calls == INSTANCE WebTransactions WITH
  Flows <- CallFlows, Surfaces <- CallSurfaces, Pools <- CallPools,
  TimeBound <- CallTimeBound, MaxAttempts <- CallMaxAttempts,
  ClaimAllMaxPools <- CallClaimAllMaxPools, Functions <- CallFunctions,
  flow <- callsFlow, ui <- callsUi, poolClaim <- callsPoolClaim,
  claimAll <- callsClaimAll, account <- callsAccount

Client == INSTANCE WebClient WITH
  Flows <- ClientFlows, Surfaces <- ClientSurfaces, Pools <- ClientPools,
  UserKinds <- ClientUserKinds, TimeBound <- ClientTimeBound,
  MaxAttempts <- ClientMaxAttempts, ClaimAllMaxPools <- ClientClaimAllMaxPools,
  Functions <- ClientFunctions, flow <- clientFlow, ui <- clientUi,
  poolClaim <- clientPoolClaim, claimAll <- clientClaimAll, account <- clientAccount,
  store <- clientStore, reads <- clientReads

UserData == INSTANCE WebUserData WITH
  Addresses <- UserAddresses, address <- userAddress, cached <- userCached,
  activity <- userActivity, bets <- userBets

Polling == INSTANCE WebPolling WITH
  MaxPolls <- PollMaxPolls, visible <- pollVisible, mounted <- pollMounted,
  enabled <- pollEnabled, runningRef <- pollRunningRef, running <- pollRunning,
  timer <- pollTimer, stray <- pollStray

Retry == INSTANCE WebRetry WITH
  Requests <- RetryRequests, MaxConcurrent <- RetryMaxConcurrent,
  MaxAttempts <- RetryMaxAttempts, FailureThreshold <- RetryFailureThreshold,
  UsesBreaker <- RetryUsesBreaker, req <- retryReq, active <- retryActive,
  queue <- retryQueue, recent <- retryRecent, breaker <- retryBreaker

Discovery == INSTANCE WebDiscovery WITH
  MaxMarkets <- DiscMaxMarkets, PageSize <- DiscPageSize, MaxVersion <- DiscMaxVersion,
  Ids <- DiscIds, listing <- discListing, cachedList <- discCachedList,
  warmRead <- discWarmRead, asked <- discAsked, lastId <- discLastId, view <- discView

Session == INSTANCE WebSession WITH
  Accounts <- SessionAccounts, MaxConnects <- SessionMaxConnects,
  extension <- sessionExtension, session <- sessionSession, connects <- sessionConnects,
  persisted <- sessionPersisted, network <- sessionNetwork, balance <- sessionBalance

Reads == INSTANCE WebReads WITH
  MaxPools <- ReadMaxPools, FetchSize <- ReadFetchSize, Concurrency <- ReadConcurrency,
  LastPage <- ReadLastPage, total <- readsTotal, page <- readsPage, fetch <- readsFetch,
  unstarted <- readsUnstarted, executing <- readsExecuting, inFlight <- readsInFlight,
  answered <- readsAnswered, missing <- readsMissing, listed <- readsListed,
  simulated <- readsSimulated

Create == INSTANCE WebCreate WITH
  Titles <- CreateTitles, Descriptions <- CreateDescriptions, Labels <- CreateLabels,
  Durations <- CreateDurations, Deadlines <- CreateDeadlines, Fees <- CreateFees,
  Deposits <- CreateDeposits, MaxOutcomes <- CreateMaxOutcomes,
  Templates <- CreateTemplates, MetadataSize <- CreateMetadataSize,
  surface <- createSurface, draft <- createDraft, step <- createStep,
  deepLink <- createDeepLink, submission <- createSubmission

Selections == INSTANCE WebSelections WITH
  Tabs <- SelTabs, Cards <- SelCards, MaxSelected <- SelMaxSelected, list <- selList,
  kept <- selKept, screen <- selScreen, held <- selHeld

Address == INSTANCE WebAddress WITH
  Texts <- AddrTexts, Rests <- AddrRests, at <- addrAt, url <- addrUrl,
  going <- addrGoing, filters <- addrFilters, box <- addrBox, debounce <- addrDebounce,
  pools <- addrPools

MarketList == INSTANCE WebMarketList WITH
  Listings <- ListListings, FilterSets <- ListFilterSets, MaxHeight <- ListMaxHeight,
  Day <- ListDay, PerPage <- ListPerPage, onChain <- listOnChain,
  heightCache <- listHeightCache, loaded <- listLoaded, browse <- listBrowse

Activity == INSTANCE WebActivity WITH
  Ledger <- ActLedger, Accounts <- ActAccounts, ThisPool <- ActThisPool,
  PageLoad <- ActPageLoad, MaxEvents <- ActMaxEvents, ShownFirst <- ActShownFirst,
  ShownStep <- ActShownStep, FeedLimit <- ActFeedLimit, PageSize <- ActPageSize,
  MaxWindow <- ActMaxWindow, Today <- ActToday, Dates <- ActDates,
  PoolHooks <- ActPoolHooks, GeneralHook <- ActGeneralHook, emitted <- actEmitted,
  route <- actRoute, timeline <- actTimeline, asked <- actAsked,
  poolKept <- actPoolKept, account <- actAccount, feed <- actFeed, browse <- actBrowse,
  export <- actExport, notices <- actNotices

Notifications == INSTANCE WebNotifications WITH
  Prefs <- NotePrefs, Default <- NoteDefault, MaxSaves <- NoteMaxSaves,
  stored <- noteStored, granted <- noteGranted, copy <- noteCopy,
  visible <- noteVisible, browser <- noteBrowser, kv <- noteKv, listed <- noteListed,
  handlers <- noteHandlers, sent <- noteSent

Dashboard == INSTANCE WebDashboard WITH
  BetPools <- DashBetPools, LastPool <- DashLastPool, Others <- DashOthers,
  Expiries <- DashExpiries, MaxHeight <- DashMaxHeight, chain <- dashChain,
  height <- dashHeight, read <- dashRead, dash <- dashDash, board <- dashBoard,
  picked <- dashPicked, claims <- dashClaims, screen <- dashScreen

PoolPage == INSTANCE WebPoolPage WITH
  Accounts <- PageAccounts, MinBet <- PageMinBet, MaxBet <- PageMaxBet,
  Balance <- PageBalance, Entries <- PageEntries, FailingReads <- PageFailingReads,
  MaxReads <- PageMaxReads, MaxBets <- PageMaxBets, MaxTotal <- PageMaxTotal,
  ledger <- pageLedger, user <- pageUser, shown <- pageShown, reads <- pageReads,
  form <- pageForm, bet <- pageBet, timers <- pageTimers

Bans == INSTANCE WebBans WITH
  Accounts <- BanAccounts, Admins <- BanAdmins, Creators <- BanCreators,
  Samples <- BanSamples, Malformed <- BanMalformed, MaxLog <- BanMaxLog,
  stored <- bansStored, user <- bansUser, access <- bansAccess, lists <- bansLists,
  form <- bansForm, dialog <- bansDialog

Settings == INSTANCE WebSettings WITH
  Accounts <- SetAccounts, Transactions <- SetTransactions, Pools <- SetPools,
  BatchMax <- SetBatchMax, user <- setUser, loads <- setLoads, data <- setData,
  exported <- setExported

Bot == INSTANCE BotService WITH
  WebhookMaxRetries <- BotWebhookMaxRetries, MaxCycles <- BotMaxCycles, env <- botEnv,
  process <- botProcess, poller <- botPoller, server <- botServer,
  requests <- botRequests, attempt <- botAttempt, webhooks <- botWebhooks

callsVars == <<callsFlow, callsUi, callsPoolClaim, callsClaimAll, callsAccount>>
clientVars == <<clientFlow, clientUi, clientPoolClaim, clientClaimAll, clientAccount, clientStore,
  clientReads>>
userVars == <<userAddress, userCached, userActivity, userBets>>
pollVars == <<pollVisible, pollMounted, pollEnabled, pollRunningRef, pollRunning, pollTimer, pollStray>>
retryVars == <<retryReq, retryActive, retryQueue, retryRecent, retryBreaker>>
discVars == <<discListing, discCachedList, discWarmRead, discAsked, discLastId, discView>>
sessionVars == <<sessionExtension, sessionSession, sessionConnects, sessionPersisted, sessionNetwork,
  sessionBalance>>
readsVars == <<readsTotal, readsPage, readsFetch, readsUnstarted, readsExecuting, readsInFlight,
  readsAnswered, readsMissing, readsListed, readsSimulated>>
createVars == <<createSurface, createDraft, createStep, createDeepLink, createSubmission>>
selVars == <<selList, selKept, selScreen, selHeld>>
addrVars == <<addrAt, addrUrl, addrGoing, addrFilters, addrBox, addrDebounce, addrPools>>
listVars == <<listOnChain, listHeightCache, listLoaded, listBrowse>>
actVars == <<actEmitted, actRoute, actTimeline, actAsked, actPoolKept, actAccount, actFeed, actBrowse,
  actExport, actNotices>>
noteVars == <<noteStored, noteGranted, noteCopy, noteVisible, noteBrowser, noteKv, noteListed,
  noteHandlers, noteSent>>
dashVars == <<dashChain, dashHeight, dashRead, dashDash, dashBoard, dashPicked, dashClaims, dashScreen>>
pageVars == <<pageLedger, pageUser, pageShown, pageReads, pageForm, pageBet, pageTimers>>
bansVars == <<bansStored, bansUser, bansAccess, bansLists, bansForm, bansDialog>>
setVars == <<setUser, setLoads, setData, setExported>>
botVars == <<botEnv, botProcess, botPoller, botServer, botRequests, botAttempt, botWebhooks>>

Parts == {"calls", "client", "userData", "polling", "retry", "discovery", "session", "reads",
  "create", "selections", "address", "marketList", "activity", "notifications",
  "dashboard", "poolPage", "bans", "settings", "bot"}

appVars == <<focus, callsVars, clientVars, userVars, pollVars, retryVars, discVars, sessionVars, readsVars,
  createVars, selVars, addrVars, listVars, actVars, noteVars, dashVars, pageVars, bansVars,
  setVars, botVars>>

AppInit ==
  /\ focus \in Parts
  /\ Calls!TxInit
  /\ Client!ClientInit
  /\ UserData!UserInit
  /\ Polling!PollInit
  /\ Retry!RetryInit
  /\ Discovery!DiscoveryInit
  /\ Session!SessionInit
  /\ Reads!ReadsInit
  /\ Create!CreateInit
  /\ Selections!SelectionsInit
  /\ Address!AddressInit
  /\ MarketList!MarketListInit
  /\ Activity!ActivityInit
  /\ Notifications!NotificationInit
  /\ Dashboard!DashInit
  /\ PoolPage!PageInit
  /\ Bans!BansInit
  /\ Settings!SettingsInit
  /\ Bot!ServiceInit

Still(part) ==
  /\ UNCHANGED focus
  /\ IF part = "calls" THEN TRUE ELSE UNCHANGED callsVars
  /\ IF part = "client" THEN TRUE ELSE UNCHANGED clientVars
  /\ IF part = "userData" THEN TRUE ELSE UNCHANGED userVars
  /\ IF part = "polling" THEN TRUE ELSE UNCHANGED pollVars
  /\ IF part = "retry" THEN TRUE ELSE UNCHANGED retryVars
  /\ IF part = "discovery" THEN TRUE ELSE UNCHANGED discVars
  /\ IF part = "session" THEN TRUE ELSE UNCHANGED sessionVars
  /\ IF part = "reads" THEN TRUE ELSE UNCHANGED readsVars
  /\ IF part = "create" THEN TRUE ELSE UNCHANGED createVars
  /\ IF part = "selections" THEN TRUE ELSE UNCHANGED selVars
  /\ IF part = "address" THEN TRUE ELSE UNCHANGED addrVars
  /\ IF part = "marketList" THEN TRUE ELSE UNCHANGED listVars
  /\ IF part = "activity" THEN TRUE ELSE UNCHANGED actVars
  /\ IF part = "notifications" THEN TRUE ELSE UNCHANGED noteVars
  /\ IF part = "dashboard" THEN TRUE ELSE UNCHANGED dashVars
  /\ IF part = "poolPage" THEN TRUE ELSE UNCHANGED pageVars
  /\ IF part = "bans" THEN TRUE ELSE UNCHANGED bansVars
  /\ IF part = "settings" THEN TRUE ELSE UNCHANGED setVars
  /\ IF part = "bot" THEN TRUE ELSE UNCHANGED botVars

Step(part) == focus = part /\ Still(part)

AppNext ==
  \/ Step("calls") /\ Calls!TxNext
  \/ Step("client") /\ Client!ClientNext
  \/ Step("userData") /\ UserData!UserNext
  \/ Step("polling") /\ Polling!PollNext
  \/ Step("retry") /\ Retry!RetryNext
  \/ Step("discovery") /\ Discovery!DiscoveryNext
  \/ Step("session") /\ Session!SessionNext
  \/ Step("reads") /\ Reads!ReadsNext
  \/ Step("create") /\ Create!CreateNext
  \/ Step("selections") /\ Selections!SelectionsNext
  \/ Step("address") /\ Address!AddressNext
  \/ Step("marketList") /\ MarketList!MarketListNext
  \/ Step("activity") /\ Activity!ActivityNext
  \/ Step("notifications") /\ Notifications!NotificationNext
  \/ Step("dashboard") /\ Dashboard!DashNext
  \/ Step("poolPage") /\ PoolPage!PageNext
  \/ Step("bans") /\ Bans!BansNext
  \/ Step("settings") /\ Settings!SettingsNext
  \/ Step("bot") /\ Bot!ServiceNext

AppSpec == AppInit /\ [][AppNext]_appVars

(***************************************************************************)
(* Properties: each part's own, and what several parts promise alike.      *)
(***************************************************************************)
\* The calls keep the promise of ContractCalls, with and without the caches: success is
\* told only of what the ledger has executed, a cancelled call is never executed.
CallsKeepPromise == Calls!CallsKeepPromise /\ Client!CallsKeepPromise

\* Two calls built while neither has landed carry one sequence number, and the
\* ledger executes one of them at most: a retry is not a second bet.
OneExecutionPerSequence == focus = "calls" => Calls!OneExecutionPerSequence

\* A cache entry that a reported mutation touches does not show the chain as it was
\* before, unless its read was in flight at the invalidation (WebClient).
FreshAfterSuccess == focus = "client" => Client!FreshAfterSuccess

\* No answer that belongs to an account left behind is shown, or exported, as the
\* present one's (useUserActivity, useWalletConnect, the settings page); only the
\* balance of the account before stays until the first read of the present one's ends.
AnswersAreMine ==
  /\ focus = "userData" => UserData!ActivityHonest
  /\ focus = "session" => Session!BalanceOfAccount
  /\ focus = "settings" => Settings!ExportIsMine

\* Lists shown in pages are whole: pages of the chain's pools, pages of the filtered
\* markets, the timeline of a pool and the exported activity repeat nothing and skip
\* nothing, but for the pools of a page read one by one that nothing waits for (WebReads).
ListsAreWhole ==
  /\ focus = "reads" => Reads!PagesPartition
  /\ focus = "marketList" => MarketList!PagesAreTheList
  /\ focus = "activity" => Activity!TimelineSkipsNothing /\ Activity!ExportIsTheList

\* What a list or a dashboard says of a market is true of the chain: the status
\* computed from a stale height, the winnings offered, the figures of the cards.
ShownOfMarketsIsTrue ==
  /\ focus = "marketList" => MarketList!ListedStatusIsTrue
  /\ focus = "dashboard" => Dashboard!OffersAreDue /\ Dashboard!FiguresCountRows

\* A visible, enabled poller is never left without a poll or a timer (WebPolling).
PollingAlive == focus = "polling" => Polling!PollingAlive

\* What the create pages submit passed every check of its steps, and keeps the
\* contract's own rules on texts, labels and duration (WebCreate).
SentFieldsAccepted ==
  /\ focus = "create" => Create!StepsBehindValid /\ Create!SentFieldsAccepted

\* A push subscription whose save nothing overlapped is found by the sender, with the
\* preferences it carried (WebNotifications).
LoneSaveIsListed == focus = "notifications" => Notifications!LoneSaveIsListed

\* A market once shown on its page is not taken for a missing one by a later read that
\* failed or found nothing (WebPoolPage).
KnownPoolStays == PoolPage!KnownPoolStays

\* What the browser keeps agrees with what it shows, over navigation, stale copies and
\* reloads: the address, the lists of pools, the log of bans, the remembered wallet.
BrowserStateAgrees ==
  /\ focus = "address" => Address!AddressMirrorsFilters
  /\ focus = "selections" => Selections!ListsBounded
  /\ focus = "bans" => Bans!LogTellsBans
  /\ focus = "session" => Session!RememberedWhileConnected

\* A webhook that was given up is in the dead-letter file unless that could not be
\* written, and the deliveries of two cycles never overlap (BotService).
NoticesKept == focus = "bot" => Bot!NoticesKept

=============================================================================
