------------------------------ MODULE MCWebApp ------------------------------
(***************************************************************************)
(* WebApp for TLC: the instances, and what only small ones can say, the    *)
(* fairness of each part and what it makes happen.                         *)
(***************************************************************************)
EXTENDS WebApp

(***************************************************************************)
(* The instances.                                                          *)
(***************************************************************************)
\* Events of the contract: two pools, a bet of each kind, a settlement, and one
\* transaction that pays two accounts.
Event(name, tx, pool, user, outcome, day) ==
  [name |-> name, schema |-> "v1", tx |-> tx, pool |-> pool, user |-> user,
   outcome |-> outcome, day |-> day]
SmallLedger ==
  <<Event("place_bet", 2, 1, "ann", 0, 1),
    Event("place_bet", 4, 2, "ann", 2, 2), Event("settle_pool", 6, 1, "", 0, 4),
    Event("claim_winnings", 7, 1, "ann", 99, 4), Event("claim_winnings", 7, 1, "bob", 99, 4)>>

\* A page of three pools and one of nine, with a filter for each rule.
Market(i, expiry, a, b, frozen, category) ==
  [id |-> i, createdAt |-> i, text |-> {"w"}, asset |-> IF i = 2 THEN "USD" ELSE "XLM",
   category |-> category, tags |-> IF i = 1 THEN {"t"} ELSE {}, mirrored |-> i = 1,
   a |-> a, b |-> b, settled |-> FALSE, disputed |-> FALSE, frozen |-> frozen,
   expiry |-> expiry]
SmallListings ==
  {<<Market(1, 1, 0, 0, FALSE, "Crypto"), Market(2, 2, 3, 0, FALSE, "other"),
     Market(3, 3, 1, 2, TRUE, "crypto")>>,
   [i \in 1 .. 9 |-> Market(i, 1 + (i % 3), i % 2, 1, FALSE, "")]}

NoFilter ==
  [q |-> "", status |-> "all", asset |-> "all", min |-> -1, max |-> -1,
   time |-> "all", sort |-> "newest"]
SmallFilters ==
  {NoFilter, [NoFilter EXCEPT !.q = "w"], [NoFilter EXCEPT !.q = "z"],
   [NoFilter EXCEPT !.status = "open", !.sort = "ending-soon"],
   [NoFilter EXCEPT !.status = "junk"], [NoFilter EXCEPT !.asset = "USD"],
   [NoFilter EXCEPT !.min = 2, !.sort = "volume"], [NoFilter EXCEPT !.max = 2],
   [NoFilter EXCEPT !.time = "ending-24h"]}

\* Texts at and beside the limits of the create forms.
SomeText(n) == [chars |-> n, bytes |-> n, blank |-> FALSE]
Label(n, key) == [chars |-> n, bytes |-> n, key |-> key]
SmallTemplate ==
  [title |-> SomeText(3), description |-> SomeText(1), duration |-> 600,
   outcomes |-> <<Label(3, "yes"), Label(2, "no")>>]

\* What the transactions API lists: a bet, a stranger's contract, a claim.
SmallTransactions ==
  {[by |-> "ann", ours |-> TRUE, fn |-> "place_bet", args |-> [amount |-> 2, poolId |-> 1],
    events |-> <<[name |-> "transfer", poolId |-> 0, amount |-> 2],
                 [name |-> "bet-placed", poolId |-> 1, amount |-> 2]>>],
   [by |-> "ann", ours |-> FALSE, fn |-> "swap", args |-> [amount |-> 0, poolId |-> 0],
    events |-> <<>>],
   [by |-> "bob", ours |-> TRUE, fn |-> "claim_winnings", args |-> [amount |-> 0, poolId |-> 1],
    events |-> <<>>]}
PlainEnvironment ==
  [required |-> "set", network |-> "testnet", numbers |-> "positive", settleBatchSize |-> 50,
   defaultOutcome |-> 0, webhook |-> "url", webhookSecret |-> "long", health |-> TRUE]
SmallPools ==
  <<[id |-> 1, settled |-> FALSE], [id |-> 2, settled |-> TRUE], [id |-> 3, settled |-> FALSE]>>

\* Other values of constants that a .cfg cannot write.
SmallTitles == {SomeText(4), SomeText(5)}
SmallDescriptions == {SomeText(10)}
SmallLabels == {Label(2, "no")}
SmallTemplates == {SmallTemplate}
OtherTotals == {[A |-> 3, B |-> 0]}
SomeSamples == <<"c1">>

\* AppInit, with the parts out of focus in one of their initial states.
SmallInit ==
  /\ focus \in Parts
  /\ Calls!TxInit
  /\ Client!ClientInit
  /\ UserData!UserInit
  /\ Polling!PollInit
  /\ focus # "polling" => pollVisible
  /\ Retry!RetryInit
  /\ Discovery!DiscoveryInit
  /\ focus # "discovery" => discListing.n = 0 /\ discCachedList = discListing
  /\ Session!SessionInit
  /\ focus # "session" => sessionExtension = [installed |-> TRUE, account |-> 1, matches |-> TRUE]
  /\ Reads!ReadsInit
  /\ focus # "reads" => readsTotal = 0
  /\ Create!CreateInit
  /\ focus # "create" => createSurface = "form"
  /\ Selections!SelectionsInit
  /\ focus # "selections" => selList = "compare"
  /\ Address!AddressInit
  /\ focus # "address" => addrAt = "/pools" /\ addrUrl = Address!DefaultFilters /\ addrPools = "loading"
  /\ MarketList!MarketListInit
  /\ focus # "marketList" => Len(listOnChain.pools) = 3
  /\ Activity!ActivityInit
  /\ focus # "activity" => actEmitted = 0 /\ actAccount = "ann"
  /\ Notifications!NotificationInit
  /\ focus # "notifications" => ~noteStored.prompted /\ noteGranted = "default"
  /\ Dashboard!DashInit
  /\ focus # "dashboard" => dashScreen = "api"
  /\ PoolPage!PageInit
  /\ Bans!BansInit
  /\ Settings!SettingsInit
  /\ Bot!ServiceInit
  /\ focus # "bot" => botEnv = PlainEnvironment

(***************************************************************************)
(* Each part's own fairness; one part runs in a behaviour, so that a       *)
(* disjunction of one step of each part is as fair as those steps are.     *)
(***************************************************************************)
fairVars == <<callsVars, retryVars, discVars, readsVars, botVars>>
Alone(part) ==
  /\ focus = part
  /\ IF part = "calls" THEN TRUE ELSE UNCHANGED callsVars
  /\ IF part = "retry" THEN TRUE ELSE UNCHANGED retryVars
  /\ IF part = "discovery" THEN TRUE ELSE UNCHANGED discVars
  /\ IF part = "reads" THEN TRUE ELSE UNCHANGED readsVars
  /\ IF part = "bot" THEN TRUE ELSE UNCHANGED botVars
AppFairness ==
  /\ WF_fairVars(\/ Alone("calls") /\ Calls!Proceeds("f1")
                 \/ Alone("retry") /\ Retry!Progress("r1")
                 \/ Alone("discovery") /\ Discovery!Proceeds(1)
                 \/ Alone("reads") /\ Reads!ReadsFair
                 \/ Alone("bot") /\ Bot!LoopGoesOn)
  /\ WF_fairVars(\/ Alone("calls") /\ Calls!Proceeds("f2")
                 \/ Alone("retry") /\ Retry!Progress("r2")
                 \/ Alone("discovery") /\ Discovery!Proceeds(2)
                 \/ Alone("bot") /\ Bot!ServerGoesOn)
  /\ WF_fairVars(\/ Alone("calls") /\ Calls!Tick
                 \/ Alone("retry") /\ Retry!Progress("r3")
                 \/ Alone("discovery") /\ Discovery!Poll
                 \/ Alone("bot") /\ Bot!ProcessGoes)
  /\ WF_fairVars(Alone("retry") /\ Retry!Tick)

SmallSpec == SmallInit /\ [][AppNext]_appVars /\ AppFairness

(***************************************************************************)
(* What must happen.                                                       *)
(***************************************************************************)
\* A call that was started is answered, unless another call of its component, and no
\* other, took its fee prompt away, or its component never shows the prompt.
CallsWaiting == focus = "calls" /\ Calls!CallsWaiting
EveryCallAnswered ==
  (CallsWaiting ~> ~CallsWaiting) /\ [](focus = "calls" => Calls!PromptsLostToCalls)

\* A read that was begun ends, although any of its requests may fail or hang: the
\* queued and retried requests of fetchHorizon, a page of pools read in batch or one
\* by one, and the loading of the market list.
ReadsUnderWay ==
  \/ focus = "retry" /\ Retry!RequestsWaiting
  \/ focus = "reads" /\ Reads!PageAwaited
  \/ focus = "discovery" /\ discView.loading
EveryReadEnds == ReadsUnderWay ~> ~ReadsUnderWay

\* A signal ends the process of the bot, wherever it finds the loop (BotService).
ShutdownEnds == (focus = "bot" /\ Bot!Stopping) ~> (focus = "bot" /\ botProcess = "gone")

=============================================================================
