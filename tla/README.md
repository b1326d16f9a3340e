# Predinex on Stellar: TLA+ models, model checking and proofs

This directory holds TLA+ modules for the program in this repository, the TLC
configurations that check them, and TLAPS proofs of the results that matter
most. The reference is the code; where a comment or a document says something
else, the model follows the code and the difference is described below.

Contents: [the system](#1-the-system), [modules](#2-modules-and-the-code),
[runs](#3-runs), [bounds](#4-bounds), [fairness](#5-fairness),
[proofs](#6-proofs), [where code and text differ](#7-where-code-and-text-differ),
[what is not modelled](#8-what-is-not-modelled), [plan](#9-plan).

To repeat a check: `tlc -workers 2 -config <run>.cfg <module>` and
`tlapm <module>.tla`; PROJECT.json lists runs, mutants, the lines each
definition models, findings, hazards and theorems.

## 1. The system

Predinex is a parimutuel prediction market on Soroban. A creator opens a pool
with outcomes and an expiry; bettors stake a token on outcomes; after the
expiry somebody entitled settles the pool with a winning outcome, and the
winners share the pool less a fee. An off-chain bot settles expired pools, and
web clients read pools and send transactions.

A contract call is one ledger transaction: it runs alone and is rolled back as a
whole when it returns an error, panics, overflows (overflow checks are on in the
release profile) or makes a token transfer that cannot be funded. Concurrency in
the contract is therefore the order of calls; between two calls of one
account any other account, keeper or administrator may call, and time passes.
The bot and the web client are different: they read, decide and submit over
several awaits against a ledger, a wallet and servers that move on meanwhile,
and their handlers interleave at every await.

| Component | State it keeps | Operations | Hard parts | What makes it correct |
|---|---|---|---|---|
| Market core (`contracts/predinex/src/lib.rs`) | per pool: record, status, winning outcome, outcome totals, per-user bets, bettor list, payout state, locked fee, settlement time; treasury; one token balance for everything | create, schedule, activate, bet, cancel, extend, settle, void, cancel, refund (4 ways), claim, withdraw, freeze, dispute, unfreeze, cooling override, pause, fees and tiers | four refund paths and two removal paths over two sets of books; fee settings that change between claims; inclusive and exclusive time bounds; administrators reopening pools | the books agree; nobody with money is missed; money in = money out + what is owed; winners are paid whatever the order; the terminal states are terminal |
| Betting limits (same file) | rate window per wallet, exposure per wallet and pool, daily and weekly windows, time of the last large bet | checked and recorded by `place_bet`, lowered by claims and refunds | windows that restart at the first bet after them | what the limits promise over any interval |
| Scheduled claims and batch calls (same file) | queue of claims with a status, index of pool and user | `schedule_claim`, `cancel_scheduled_claim`, `execute_scheduled_claims`, `claim_all_winnings`, `settle_pools` | an entry that fails blocks or does not block; a batch sees the state its own earlier entries left | batches share out like single calls; one claim per bet; due claims drain |
| Liquidity pool (same file) | shares, principal, reward rate, debts, stakes with locks, reward pool, carried remainder | deposit, withdraw, distribute, claim, stake, unstake, boost, pause | fixed-point accumulator over joins and leaves | no dilution, principal stays redeemable, rewards accounted to the last fraction, locked stakes held |
| Multi-asset pools (same file) | per token: totals, bets, fees | create, place, claim, rescue, collect | the last claim sweeps a token balance other pools share; fees may be collected between claims; rates move between bets | undisturbed pools stay payable from the shared balance; the last claim accounts for the whole deposit; shares are fixed from the first claim on |
| TWAP, templates, referral, webhooks, mirrors (same file) | ring of observations, registries | update and read | time weighting at the ends of the window | planned (TWAP, referral) |
| Settlement bot (`bot/src/poller.ts`, `executor.ts`, `retry.ts`) | in memory only: failure counts, the cycle in progress | scan, resolve, batch, simulate, send, poll, retry, count, notify, stop | other settlers, lost and late transactions, restarts | nothing untrue announced; due pools settle; stop() stops; memory is bounded |
| Process of the bot (`index.ts`, `config.ts`, `health.ts`, `webhook.ts`) | the environment, health server, delivery in progress, dead-letter file | load, start, cycle, deliver, retry, give up, shut down | a signal at any point of the loop, open health requests, a file that cannot be written | a notice given up is on record; a signal ends the process |
| Pool contract (`contracts/pool`) | pools with a duration and stakes | create, stake, settle, claim | small and separate | planned |
| Wave pool (`contracts/wave_pool`) | bets and cumulative volume | bet, settle, claim | separate accounting of cumulative and live volume | planned |
| Tiered fee contract (`src/pool.rs`, `src/fee_manager.rs`) | fee tiers | lookups | not in the cargo workspace | candidate for an operator module |
| Contract calls (`web/app/lib/soroban-transaction-service.ts`, its adapter, the hooks and components that call) | stage, fee prompt, toasts and progress of each component | build, simulate, ask for the fee, sign, send, poll, answer | lost replies, failed results, polls that end before the transaction does, prompts that replace each other, retries | success only for what was executed; nothing executed after a cancellation; a retry is not a second bet; every call answered |
| Caches (`cache.ts`, `cache-invalidation.ts`, `market-list-cache.ts`) | list, pools, the account's entries | read through, write, expire, invalidate | reads in flight at an invalidation, keys a mutation forgets | after a reported success no entry it touches is older |
| Reads (`enhanced-stacks-api.ts`, `soroban-read-api.ts`, `horizon-client.ts`, `retry.ts`) | permits, queue, breaker, requests in flight | page of pools, simulated read, fetch with retries | batch against single reads, permits and wake-ups, failures at each await | pages partition the pools and list what was awaited; every read ends |
| Account data, polling, wallet session (`useUserActivity`, `useActiveBets`, `useVisibilityAwarePolling`, `freighter-adapter.ts`, `WalletAdapterProvider.tsx`) | account, request numbers, timers, remembered connection | connect, disconnect, switch, poll, hide, show | late answers for an account left behind, overlapping polls and connects | no late answer of another account is shown as mine; polling never dies; the connection is remembered exactly while it lasts |
| Market list and address (`useMarketDiscovery`, `market-utils.ts`, the two filters, `Pagination.tsx`, `SearchBar.tsx`) | list, cached height, filters, page, address, debounced box | load, poll, filter, page, navigate | stale heights, navigations that supersede each other | a market called over is over; pages are the list; address and filters agree |
| Pool page (`markets/[id]/page.tsx`, `BettingSection.tsx`) | pool, stakes, form, optimistic totals, two timers | read, bet, refresh | answers in any order, reads that fail as "nothing" | a market shown does not turn into a missing one |
| Dashboards (`dashboard-api.ts`, `dashboard-utils.ts`, selectors, cards) | bets, portfolio, offers | read pool by pool, compute, claim | the chain moves during the walk, two computations of one figure | offers are due; figures count the rows |
| Creation forms (`create/page.tsx`, `_wizard`, `CreatePoolForm.tsx`, `validators.ts`) | draft, step, submission | edit, step, jump, template, submit | jumps over steps, edits after a check, rules in two places | what is sent passed every step and keeps the contract's rules |
| Activity, export, settings (`usePoolActivity`, `soroban-event-service.ts`, `activity-export.ts`, `settings/page.tsx`, `stacks-api.ts`) | timeline with cursor, feed, page, file | load, refresh, more, filter, export | pages of events that grow, cached first page, account changes | nothing skipped or repeated; a file holds the account's own rows |
| Push notifications (`notifications.ts`, the route, the settings page) | local flag, permission, subscription; key-value store | enable, save, remove, test | several copies of one flag, two handlers on one index | a save nothing overlapped is found by the sender |
| Lists in the browser (`useLocalStorage`, comparison, favourites, presets; `admin/bans/page.tsx`) | list in storage, copy per component | toggle, save, delete, ban, unban | stale copies of tabs | limits hold; the audit log accounts for the list |
| Widget, scripts, docs, CI | none of the protocol | - | - | not modelled |

Interactions: every module of the contract works on the same storage and the
same token balance. The market calls the limits in `place_bet` and lowers
exposure in claims and refunds; the scheduled claims and `claim_all_winnings`
call the same `claim_winnings_internal` as a single claim; the bot calls
`settle_pools`, which runs `settle_single_pool` for each entry and keeps only a
success flag. In the web client a component calls the adapter, the adapter the
transaction service, and the component that learns of a success drops cache
entries; pages read through the caches, the event service or the contract
directly; the wallet session decides whose data the hooks ask for. The pages
share nothing else but the browser's storage and the address bar.

## 2. Modules and the code

```
Sums  BettingLimits
   \   /        \
PredinexMarket   MarketLimits -- MCMarketLimits        (bet_limits)
   |   (refines PoolFunds)
   |   \    \   \
   |    \    \   MarketBatches -- MCMarketBatches      (market_batches)
   |     \    MarketDocumented -- MCPredinexMarket     (market_lifecycle, market_admin,
   |      \                          market_two_pools, finding_fee_change,
   |       \                         finding_expired_then_settled)
   |        MultiAsset -- MCMultiAsset                 (multi_asset, finding_token_sweep)
   |
MarketProofs: the books, then the payouts, then the promise of PoolFunds
   with MarketLimits, MarketBatches and MultiAsset: MarketLayerProofs

SumProofs: the lemmas on sums and on filtered and sorted lists under the market,
   liquidity and web proofs

LiquidityPool (liquidity_pool) -- LiquidityProofs
SettlementBot (settlement_bot) -- BotProofs

ContractCalls <--refines-- WebTransactions -- WebClient -- WebCaches
                                                 |
                                            WebCallProofs
Ranks -- WebSelections, WebBans, WebReads, WebActivity, WebDashboard
WebClient, WebReads, WebRetry, WebUserData, WebPolling, WebSession,
WebDiscovery, WebMarketList, WebAddress, WebPoolPage, WebDashboard,
WebCreate, WebActivity, WebSettings, WebNotifications, WebSelections,
WebBans, BotService        -- WebApp -- MCWebApp (web_app)
                                  |
                              WebProofs (uses WebCallProofs), WebListProofs
```

**Sums** has the sum of the values below a bound, a recursive function, for
`sum_totals` and for stating conservation.

**BettingLimits** owns the five storage keys of the limits, the check of a bet
(`RateLimitOk`, `ExposureOk`) and its record (`RecordBet`, `ReduceExposure`).
0 switches a limit off, as in the code. PredinexMarket extends it and puts the
check and the record into its handlers.

**PredinexMarket** has one action per contract call, for a call that succeeds; a
failed call is rolled back and is no step. The variables are the storage keys,
each named in its declaration, plus the token balance of the contract's address
and two history variables: `escrow[p]`, the net tokens paid into pool p less
those paid out of it, and `fresh[p]`, whether the last settlement found the pool
unspent (its money equal to its totals). Every transfer of a handler moves
`balance` and one `escrow` entry or the treasury; a withdrawal moves `balance`
and `treasury`. `PlaceBet` is the whole of `place_bet`: guards in the order of
the code, fee, both sets of books, first-bet bookkeeping, limits, cooling lock.
`claim_refund`, `claim_expired`, `cancel_pool` and `refund_expired_pool` share
the operators `PayOut`, `RemoveBets` and `ReduceExposure` where the code shares
the statements, and differ where it differs (which of them clear totals, change
the status, or leave the pool settleable). Amounts are integers; i128 cannot
overflow at amounts a token supply allows, and an overflow would roll the call
back.

**PoolFunds** is what the market promises its bettors, without outcomes, fees,
tiers, clocks or administrators: a fund per pool, what each account is due from it
now, the treasury, and one token balance. A stake moves, stakes are returned, a
settlement divides the fund, a claim pays exactly what was due before it, the
treasury is withdrawn from; each step moves one fund and no due of another pool.
`Funds == INSTANCE PoolFunds WITH ...` at the end of PredinexMarket gives the
mapping: `fund` is `escrow`, `due` is the stake in a pool that is not settled and
the share in one that is (`Promised`), and `phase` (`Phase`) is "open", "settled",
"sharing" after the first claim, or "outside": a pool settled when it was not
whole, or with a fee that can move between claims, or reopened after a claim. Of
such a pool the promise says only that the others do not notice.

**MarketDocumented** states what comments and documents say of the market where
the code does otherwise.

**MarketLimits** adds the full history of accepted bets, so that the limits can
be stated over any interval instead of over the stored window. What an account
bet in an interval is a sum over that history.

**MarketBatches** adds the claim queue and the calls that do several claims or
settlements in one transaction. `PayBatch` gives the effect of a list of claims
made one after the other, as `claim_winnings_internal` is called in a loop: the
payout states of the transaction are a function of the number of claims paid so
far, each from the one before.

**MultiAsset** adds the pools that take several tokens. It keeps
PredinexMarket's variables, because a multi-asset pool lives in the same records,
totals and bets, in base units; what it adds is the rate per token and, per pool
and token, the limits, the deposit and the pending fee. Token 0 is the contract's
own token, whose balance is PredinexMarket's `balance`. `MarketStep` is
PredinexMarket's next-state relation with the refusals the code adds for
multi-asset pools (claims, refunds, `cancel_bet`, `cancel_pool`); the calls that
do not look, as `place_bet` and `settle_pool`, are left as they are. History
variables: `spent` (what left in a pool's name, per token), `swept` (the part
that was the last claim's sweep) and `interfered`, the pools whose tokens
something other than their own claims may have taken: the last claim of another
pool sharing a token, a rescue, a fee collection before the last claim, a
reopening after the first claim, and any payment of a pool that was itself
interfered with. The properties speak of the other pools;
`finding_token_sweep` shows that the first exclusion is needed.

**LiquidityPool** models the LP functions with the fixed-point unit as a
constant. History variables: `principal` (paid in and not taken out), `accrued`
(what each provider's shares earned, in fractions), `unsettled` (the part of it
since the position was last settled), `distributed`.

**SettlementBot** runs from one await of `runCycle`, `settleAll`, `settleBatch`,
`withRetry`, `submitSettleBatch` and `submitTransaction` to the next; between
any two of them the ledger may land, fail or drop a transaction, another account
may settle, freeze, dispute or reopen a pool, time may pass, the process may be
stopped or die. Transactions of one account carry one sequence number, so the
first to land makes the others invalid. History: `unannounced`, own settlements
less confirmed announcements of them; `sentStopped`, transactions sent after
`stop()`.

**BotService** is the process around that loop: `loadConfig` with its refusals
(what `env` may hold), the health server with open requests, cycles that end
with something to announce, without, or with an error, `notify` with its retries
and the dead-letter file, and `shutdown` on a signal. `process.exit(0)` follows
the end of `poller.start()`.

**ContractCalls** is the abstract specification of the web client's calls: what
was made, what the ledger executed and under which number, what the user was
told. Three actions: make, execute, tell.

**WebTransactions** is the detailed one. A *flow* is one call with its place in
`executeWithFeePrompt` (`pc`), the sequence number it was built on, and its
transaction as the ledger sees it (`tx`): `Include`, `Drop` and `Tick` are the
ledger's and the clock's, everything else is the client's. `ui` has one record
per component, because components share the fee prompt, stage and toasts between
the calls they make; `poolClaim` and `claimAll` are the states of the two hooks
that outlive a call. `Starts` has one action per caller, with the caller's own
guards and what it does with the answer. The adapter's throw on `FAILED` is
`ThrowsOnFailed`. `Promise == INSTANCE ContractCalls WITH ...` gives the
refinement mapping: a call is made once its flow is not free, executed once its
`tx` is a result.

**WebCaches** has the three kinds of entries, the read in flight per key, and
the invalidation of each mutation; the version a read sees is the chain's at the
time it answers. **WebClient** composes it with WebTransactions: the chain's
version is the account's count of executed transactions, and the step in which a
caller learns of success invalidates what that caller invalidates.

**WebReads**: `PageIds` is the inclusive arithmetic of `fetchAllPools`, then the
batch with its retries, then `fetchWithBoundedConcurrency` one await at a time,
with the array of the reads it still waits for (`executing`), from which a race
takes the newest read, settled or not; `listed` is the page that is returned;
`simulateContractRead` and `parseScVal` as operators on kinds of values.
**WebRetry**: `acquire` and `release` of the limiter step by step, `withRetry`,
the circuit breaker. **WebDiscovery**: requests with numbers, the shared warm
read, its timeout, pages. **WebMarketList**, **WebAddress**: cached height and
derived status; filters, both lists' orders, page numbers; the way of a filter
through state, debounce and router. **WebUserData**, **WebPolling**,
**WebSession**: an action per effect, request, answer, timer and extension event;
in WebSession also what another tab writes to the shared `localStorage`
(`OtherTab`), of which this tab hears only when it is loaded again, and the
answers of balance reads that were cancelled (`CancelledAnswers`).
**WebPoolPage**: reads in `reads`, each asked, served and taken; the optimistic
totals in `shown`. **WebDashboard**: the two walks over the pools and the figures
as operators. **WebCreate**: the validators as predicates on sizes, `goTo`,
`next`, templates, deep link (which a reload follows once more), submission, and
the wizard's second call for the metadata as a stage of its own. **WebActivity**, **WebSettings**: the
decoded events are a constant sequence of which the chain has emitted a prefix.
**WebNotifications**: handlers of the route with a program counter over the
key-value store, one step per `await`, also in the loop of `DELETE`. **WebSelections**, **WebBans**: the list in storage and the copy
each component holds.

**Ranks** has the list operations of the client as functions, so that they can be
proved about: a set in ascending order (`normalizeIds`), the entries of a list at
some of its positions (`Kept`, which is `Array.filter`), and a stable sort that
gives each position the rank of its key (`LargestFirst`).

**WebApp** composes all of them, and its constants are theirs. They share no
state in the code beyond what WebClient composes, so that running two side by
side reaches nothing new; a behaviour follows one of them (`focus`) and the others
stand still. Its safety properties are the parts' own, grouped by what they
promise. **MCWebApp** gives the constants their values and adds fairness and
the liveness properties.

## 3. Runs

| Run | Module | Question |
|---|---|---|
| `market_lifecycle` | MCPredinexMarket | one pool through creation, scheduling, bets, cancellations, extension, settlement, void, cancel and every refund path: `BooksConsistent`, `PoolsFunded`, `PayoutsReconcile`, `TotalsFixedAfterExpiry`, `TerminalStatesFinal`, `TypeOK` |
| `market_admin` | MCPredinexMarket | freezes, disputes, re-settlements, cooling lock and override, delegated settler, and fee, tier, pause and minimum changes around the settlements: `ChargedFeeIsRecorded`, `KeepsFunds` (the refinement of PoolFunds) |
| `market_two_pools` | MCPredinexMarket | two pools and the treasury on one balance: `Solvent`, and under fairness `WinnersPaid`, `StakesReturned` |
| `bet_limits` | MCMarketLimits | rate, loss and cool-down limits over any interval of the history: `LimitsOverAnyInterval` |
| `market_batches` | MCMarketBatches | batches and the claim queue mixed with single calls: `BatchesPayOnce`, `DueClaimsDrain` |
| `multi_asset` | MCMultiAsset | two pools sharing a token, bets at changing rates and under token limits, claims, fee changes, collection, rescue: `TokensCoverClaims`, `TokenPayoutsReconcile`, `TokenSharesFixed` |
| `liquidity_pool` | LiquidityPool | `NobodyDiluted`, `RewardsAccounted`, `PendingIsAccrued`, `LockedStakeHeld`, `TypeOK` |
| `settlement_bot` | SettlementBot | `NoticesAreTrue`, `CyclesBounded`, and under fairness `DuePoolsSettle` |
| `web_app` | MCWebApp | calls: `CallsKeepPromise` (the refinement), `OneExecutionPerSequence`, `EveryCallAnswered`; caches: `FreshAfterSuccess`; reads: `EveryReadEnds`, `ListsAreWhole`; pages: `AnswersAreMine`, `ShownOfMarketsIsTrue`, `KnownPoolStays`, `PollingAlive`, `SentFieldsAccepted`, `LoneSaveIsListed`, `BrowserStateAgrees`; the bot's process: `NoticesKept`, `ShutdownEnds` |
| `finding_fee_change` | MCPredinexMarket | `Conservation` is violated (section 7) |
| `finding_expired_then_settled` | MCPredinexMarket | `ClaimedPoolBalances` is violated |
| `finding_token_sweep` | MCMultiAsset | `DepositsInEscrow` is violated |

Several properties are conjunctions of named parts: `BooksConsistent` of
`StakesWithinTotals`, `BooksAgree`, `RefundListComplete` and
`ExposureCoversStake`; `PoolsFunded` of `UnclaimedPoolFunded` and
`SettledPoolFunded`; `LimitsOverAnyInterval` of the three limits;
`NobodyDiluted` of `SharePriceIsOne` and `PrincipalKept`; `BatchesPayOnce` of
`OneClaimPerBet` and `PayoutsReconcile`; `CyclesBounded` of `FailuresTracked` and
`StopBounds`; those of MCWebApp of properties stated in the parts' modules.

Some of what they show is weaker than one would wish for, and says so in its
statement. `PayoutsReconcile`, `SettledPoolFunded` and `Solvent` speak of
*regular* pools: settled while whole, with a fee that cannot move between two
claims. The findings show that neither condition can be dropped.
`RateOverAnyInterval` allows fewer than twice the limit, because a fixed window restarts:
bets just before and just after the restart fall into one interval, and no
third window can. `StopBounds` allows the retries of one batch after `stop()`,
because the code retries an aborted poll. `OneExecutionPerSequence` speaks of the
attempts made on one sequence number: a retry built after the first attempt landed
executes as well. `EveryCallAnswered` leaves out a call
whose fee prompt another call of the same component took (and says that nothing
else takes one), and the calls of a component without a modal; `FreshAfterSuccess` an
entry whose read was in flight when it was invalidated and the surfaces whose
handlers invalidate nothing, `ActivityHonest` the
time between a switch of accounts and the answer, `BalanceOfAccount` the balance
that was on screen when the account changed, until the read of the new one answers,
`RememberedWhileConnected` what another tab wrote since, `PagesPartition` (a part of
`ListsAreWhole`) the pools of a page read one by one after the first
`Concurrency - 1` of it, `BrowserStateAgrees` the entries a stale copy undoes,
`DueClaimsDrain` queues with an entry that is stuck, `LoneSaveIsListed` overlapping
saves, `EveryReadEnds` how many requests run at once, `SentFieldsAccepted` titles and labels of more bytes
than characters: in each of these cases the code does what the statement without the exception forbids
(section 7).

Every property has a mutant: an operator marked `mutant:` above the
definition it replaces, which changes that definition the way a
plausible slip would (a dropped guard, a bound off by one, books moved apart,
a remainder forgotten) and which makes TLC find the property violated under the
same configuration.

Deadlock checking is off in every configuration: the clock stops at `MaxTime`
and the market may then have nothing left to do; in `web_app` a call that was
answered, a closed page or an ended process has no next step.

## 4. Bounds

| Bound | Value | Why it is enough |
|---|---|---|
| accounts | 2-3 | a creator who may not bet on his pool, and two bettors: one on each side, or both on the winning side, so that the order of claims and the dust of the last one matter |
| pools | 1, or 2 where they share money or a wallet's windows | one pool's books do not mention another's; two are what it takes for one to be paid from the other |
| outcomes | 2 | outcome 0 is `total_a`, every other is `total_b`. The proofs cover any number of outcomes |
| `BpsDenom` | 10 (4 for the LP boost) | fees and shares that do not divide stakes of 2, 3 and 5, so that floors lose something |
| stakes | 1-5 | see above; an amount below, at and above each limit |
| clock | 0-4 | before, at and after the expiry, the deposit deadline, the end of grace, of the dispute window, of the cooling period and of each limit window |
| `MaxExpiry`, `MaxParticipants`, `ExposureBound` | see the cfg | bounds of the model, guards of `PlaceBet`, `CreatePool` and `ExtendPoolDuration`: they limit how often a bettor can leave and come back. The value 3 of `MaxParticipants` with two bettors allows one return |
| LP | two providers, unit 4, liquidity 4, rewards 3 | a distribution whose remainder is carried, shares 1, 2, 3 under it |
| web calls | two flows over three components (`ClaimWinningsButton`, which has no modal, the settlement, the LP dashboard); one flow of four other components beside the caches; one poll more than needed to time out, a validity of one tick | two calls of one component, whose prompts replace each other; two of different components; a call nobody can answer; a retry beside a first attempt that may still land; a read in flight at an invalidation |
| web reads | 5 pools in pages of 4 by 2 at a time, three requests over one permit, two attempts, a breaker that opens after two failures | a last page that is not full, a page longer than the reads awaited together, so that pools are lost, a queue behind a sleeping holder, a half-open probe |
| web pages | two accounts, two tabs, lists of 1 or 3 and 9 markets, five events, export windows with and without dates, texts at and beside each limit | a late answer of the account before, two stale copies, a page in the middle with gaps on both sides, a transaction that pays two accounts |
| bot process | two cycles, one webhook retry, every kind of environment `loadConfig` tells apart | a delivery given up before the next cycle's |
| bot | two pools, reads and batches of one, one retry, ceiling 2, one reopening | two batches in one cycle, an attempt that lands after its retry was sent, a count that reaches its ceiling; one pool is below the participant minimum and never settles; the fallback outcome is off, so that a default the pool does not have, which the contract refuses, is left to the proofs |

Two runs do not start from `Init`, since the calls before are the subject of
other runs and would multiply the states. `market_batches` starts from the state
after two `create_pool` and three `place_bet` calls and a tick, written out in
MCMarketBatches. `multi_asset` starts with one open pool that accepts token 1
and holds two bets of 3 in it, worth 3 and 1: the rate was set from 10 to 4 in
between. Its other bounds: one token besides the contract's own, one further rate (10), deposits
of at most 6 per pool and token, fees of 1 and 2 in 10, one rescue amount (6, a
whole deposit), a token maximum of 2 that shuts out bets of 3. Rounding occurs: the
shares are thirds and quarters of a net deposit of 5 or 6.
`finding_token_sweep` starts from `AssetInit`.

## 5. Fairness

Safety runs assume none. `market_two_pools` assumes that the ledger clock
advances and that a bettor who could claim winnings, an expired stake or a
refund does so in the end; it assumes nothing of creators, settlers, keepers or
administrators, who may all stop. This is what the documents ask of users, and
no call of the contract depends on another party then. `WinnersPaid` and
`StakesReturned` are conditional on every settled pool staying regular.

`market_batches` assumes that `execute_scheduled_claims`, which anyone may call,
is called again and again (`DueClaimsDrain`).

`settlement_bot` assumes that the bot goes on while it has something to do
(its event loop is not blocked: one weak fairness on `Progress`, the steps of an
untroubled cycle), that a transaction polled for lands, and that from some time
on nothing goes wrong: reads and simulations are answered, the oracle has an
outcome, no process dies. Until then anything of that may fail any number of
times, and a transaction sent before may still take the sequence number of one
sent after. Nothing is assumed of the other settlers and administrators; a pool
they withhold counts as dealt with.

`web_app` states each part's own fairness. Of the calls: requests of the service
and the wallet answer, with success or an error, a fee prompt that is on screen
is answered one way or the other, and intervals pass; nothing is assumed of the
ledger, which may drop every transaction. Of the reads: an answer or an error
comes, or the timer that the code sets runs out; in WebDiscovery the read of the
list may hang for good and the timeout ends the loading. Of the bot's process:
its event loop goes on, a health request that was accepted ends, and after the
last step the process exits. Since one part runs in a behaviour, the weak
fairness conditions of the parts are joined into four disjunctions, of which only
the disjunct in focus can be enabled.

## 6. Proofs

TLC checks the small instances; the following hold for every value of the
constants that satisfies the assumptions. All proofs are checked by tlapm with
Z3, Zenon and LS4.

*Assumptions.* `LimitsAssumption` (numbers of accounts and pools, the basis
point unit and the limits are naturals, the first three positive),
`MarketAssumption` (at least two outcomes, administrators are accounts or unset,
bets positive, fees at most the whole, tier tables ascending as
`set_volume_fee_tiers` checks), `MultiAssetAssumption` (rates, bets and rescue
amounts positive), `BatchesAssumption` (caps and delays are naturals, the lists of
`claim_all_winnings` name pools), `LiquidityAssumption`. They are what the setters and entry
checks of the contract enforce. `BotAssumption` is what `loadConfig` accepts:
sizes and numbers of attempts are positive, the default outcome is any natural, also
one the pools do not have; and pools have two outcomes at least. `AppAssumption`, of the web client: no
account and no filter is the value that stands for none, a list of calls holds at
least one, no text has fewer bytes than characters, an option of the create form
fits the contract's 20 labels, no creator is twice in the sample list of bans.
`ListsAssumption`, for the lists and figures shown: the contract's numbers are
naturals, page and batch sizes and the number of reads at once are positive, listings and filters are records of
the kinds the client decodes and sends, the first page of a timeline is no longer
than a timeline (100 of 200), no event is of a day to come.
TLC evaluates all of them in the runs. WebCallProofs assumes nothing of its
constants but that `claimAll` takes at least one pool at a time, and that only
for the caches.

**Market** (MarketProofs, first part). `MarketInvariant` proves `Spec =>
[]MarketInv`. None of the properties is inductive alone. `StakesWithinTotals`
needs the agreement of the books, because the refund paths remove a bettor's
whole `total_bet` while the totals are kept per outcome; that needs the type
invariant, because a subtraction must not go below zero; `UnclaimedPoolFunded`
needs the books and `RefundListComplete`, because the refund loops pay whom they
find on the list; `ExposureCoversStake` is what lets the saturating subtraction
in `reduce_user_exposure` be exact. `MarketInv` is the conjunction of the parts;
the proof has a lemma per action and, under it, a step per conjunct the action
disturbs. From it: `TypeCorrect`, `StakesBounded`, `BooksAlwaysAgree`,
`NobodyMissed`, `ExposureNeverShort`, their conjunction `BooksStayConsistent`,
`UnclaimedPoolsFunded`, and the action property `TotalsFixed`.

**Payouts** (MarketProofs, second part). `MoneyInvariant` proves `Spec =>
[](MarketInv /\ PayoutInv /\ BalanceDivided)`. `BalanceDivided` says that the
contract's tokens are the treasury and the escrows, nothing more or less.
`PayoutInv` says of each regular pool (`Shares`) that escrow, credit and payouts
add up to its total; that the claimed and the live winning stakes stay within
the winning total; that what was paid is the claimed part of the net pool but
for less than one unit per claim; and that the fee is credited by the first
claim and the rest by the last. The floors are stated multiplied out, so that
the solver needs only products and their order. The part that is easy to miss
is about pools that are *not* regular yet: a pool pays winners only after its
expiry, and from then on holds less than its totals, so that settling it again
after a dispute cannot make it count as whole. From it: `SettledPoolsFunded`, `PoolsStayFunded`,
`PayoutsReconciled`, `AlwaysSolvent`, `BalanceIsDivided`; and, from the shape of
the handlers, `TerminalFinal`: without a freeze administrator no call reopens a
terminal pool. `FeeChargedAsRecorded` proves `ChargedFeeIsRecorded` by
`FeeRecorded`: the fee a claim would use now is the one the settlement emitted.
It holds of a settled pool because a tier table locks the fee of its time, and
without one the claims compute with the flat fee, which cannot move where the
property applies.

**The promise** (MarketProofs, third part). `MarketKeepsFunds` proves that
`Spec` implements `PoolFunds!Spec` under the mapping above, for any number of
accounts, pools and outcomes and any fees. A step is shown to be one of the
promise's from the invariants before and after it (`Around`: `MoneyInvariant`
and `AllDuesMet`, what `Shares` says of the dues of one pool). `SharesType` and
`StateMet` read the dues off the books; `SameDues` says what a call must leave
alone to change no due of a pool, `OnlyThere` what it takes to change those of
one pool only. Then there is a lemma for each way money moves or is divided
(`StakeMaps`, `ReturnMaps`, `StatusMaps`, `ClaimMaps`, `SettingsMap`,
`OutsideMaps`) and a lemma per action that says which way it goes. `ClaimMaps`
is where the promise is hard to keep: the first claim credits the whole fee and
the last one what rounding left over, and what stays must cover everybody not
yet paid, whose dues stay what they were, whichever fee they are computed with.
`PromiseCovers` says what the promise is worth: in every behaviour of PoolFunds
the balance is the treasury and the funds, an open pool holds exactly what its
bettors are due and a settled one at least that.

**Limits** (MarketLayerProofs, first part). `LimitsAlwaysHold` proves that `LimitsOverAnyInterval`
follows from checks that look at one stored window. The invariant `HistoryInv`
(`WindowsMatchHistory`) says what a window knows of the history it has thrown
away (`Bounded`): an interval that begins after the window's start misses its
first use, and one that overlaps the window saw, before it, less than the limit.
A window that restarts keeps both, because it began at least its length later.
One lemma (`WindowUsed`) serves the three windows. `LargeBetsBooked` ties the stored time of the last large
bet to the history, so that the cool-down holds between any two large bets
and not only between neighbours. The steps of the market that accept no bet change neither side.

**Batches** (MarketLayerProofs, second part). `BatchInvariant` proves `BatchSpec =>
[]BatchInv`: the money of the pools as `MoneyInvariant` has it, and
`OneClaimPerBet`. Neither half is enough: a batch whose claims were not of
different bets would pay one twice, and the books are what says that each can be
paid. `Payable` is what a batch needs (claims that the contract accepts now, of
different bets); `ListIsPayable` shows it of `claim_all_winnings`, where a pool
listed again is not counted, `DueIsPayable` of the scheduled claims, by the index
and the order of the due entries. Within the transaction the proof is an induction
over the claims: `Standing` says of the payout state and the credit of a pool what
`Shares` says between transactions, with the accounts already paid counted out of
the stakes and into the claims, because a batch deletes the bets only in its last
state. `BatchBalance` adds the pools up, `BatchKeeps` does the books. The
settlements of `settle_pools` are `SettledPool`, the lemma of `settle_pool`, once
for every pool settled. From it: `EachBetPaidOnce`, which is `BatchesPayOnce`, and
`BatchesStayFunded`: `SettledPoolFunded` and `Solvent` hold with the batch calls
too.

**Multi-asset pools** (MarketLayerProofs, last part). `AssetInvariant` proves `AssetSpec =>
[]TokenInv`. `MarketInv` is not part of it and does not hold: these bets are in
no exposure, and a third outcome is on no side. What remains (`MarketBooks`) is
the books of the stakes. The rest is per pool and token: `TokenPool` (nothing
comes in that is not allowed, nothing goes out before the first claim),
`TokenFloors` (what left is the claimed part of the net deposit, less than a unit
short per claim), `Held` and `Reconciled` for a token only one pool has, and
`Covered`: the one balance of a token is at least the sum over the pools of what
they still owe, a pool in `interfered` owing nothing. A claim of one pool moves
the balance and this pool's liability by the same amount, and the last one takes
everything, which is why it must put the others into `interfered`. The lemmas
`Rest*` say once what it takes for a step to leave a pool alone, so that the
lemma for each of the market's calls names only what the call disturbs. From it:
`TokensAlwaysCovered`, `TokenPayoutsAlwaysReconcile`; and `TokenSharesStayFixed`,
the action property that a winner's share stays what it was at the first claim.

**Liquidity pool** (LiquidityProofs). `LiquidityInvariant` proves `Spec =>
[]LiquidityInv`: shares sum to the total shares, total shares equal total
liquidity, the principal of each provider is the provider's shares, the accrued
fractions and the remainder sum to what was distributed, and a staked amount is
within the shares. `SharePriceIsOne` is the key: the minting and redeeming
divisions are exact only because of it, and it is preserved only because they
are exact. From it: `LiquidityTypes`, `SharePriceNeverMoves`, `PrincipalIsKept`,
`NobodyIsDiluted`, `RewardsAreAccounted`, `LockedStakesAreHeld`.
`PendingWithinOneUnit` proves `PendingIsAccrued` with `DebtInv`: a position's debt
is the floor of what its shares earned before the position was last settled, so
that two floors are subtracted and the difference is off by less than one unit.

**Settlement bot** (BotProofs). `BotInvariant` proves `Spec => []BotInv`. Its
parts follow the life of a batch: between two cycles nothing is attempted
(`BatchesOfCycle`); of the transactions in flight, all with one sequence number,
at most the one polled for is in the state of the present batch (`PolledFor`), and
an attempt that was given up may land later; what a result or an answer calls
settled is among the settlements not announced (`Covered`, by pool and outcome);
an attempt sends at most once, and after `stop()` only the attempts at the batch
under way are made (`AttemptsBounded`). From it: `NoticesAlwaysTrue`,
`CyclesAreBounded`.

**Calls of the web client** (WebCallProofs). `CallsImplementPromise` proves that
`TxSpec` implements `ContractCalls!CallSpec` under the mapping above, for any
number of flows, components, pools and polls and any time bound: each step of the
client, the ledger or the clock is one of make, execute, tell, or changes nothing
the promise can see. Four lemmas (`Stutters`, `Makes`, `Executes`, `Tells`) say
what a change of one flow must satisfy to look like each of them, one lemma per
action shows which one it is. The invariant `CallInv` is small: a flow that is
free has no transaction, a transaction exists only from polling on, a flow has an
answer only when it is done, and one answered "cancelled" was never sent. The
last part is what rules out an execution after a cancellation; the code has it
because the prompt is asked before signing. `IsFlow` gives each flow its fields
without giving them types: nothing else about the values matters.
`NoCallExecutedTwice` proves `OneExecutionPerSequence` by `SeqInv`: an executed
call's number is at most the account's count, two executed calls have different
numbers, and a pending call that can still land was built on the present count.
`Build` takes the count at the time it runs, so a number is never ahead
(`NumbersKept`), and an inclusion moves the count past every other pending
number (`NumbersMove`).

**Caches beside the calls** (WebCallProofs). `ClientMakesCalls`: a behaviour of
WebClient is one of WebTransactions, so the promise holds with the caches beside
it. `SuccessIsFresh` proves `FreshAfterSuccess` by `ClientInv`: a success is told
only of an executed call (`ToldInv`); a call names the pools it touches
(`NamesInv`); and what an entry holds, or a read in flight will store there, has
seen the call, or was in flight at the invalidation and is marked `raced`
(`CacheInv`). The second case is needed because the code does not cancel such a
read.

**Pages** (WebProofs). The parts share no state, so each has an invariant of its
own and a step of WebApp is a step of one part. `PollingNeverDies`: the flag of a
poll stands for one in flight, strays are counted. `AnswersStayMine`: a request
with the newest number was made for the present account, or is cancelled
(`ActivityInv`); of the balance reads at most one is not cancelled, it is for the
session's address, and without one the balance shown is that address's
(`SessionInv`, `BalanceFollows`); a load
that is active is the connected account's (`SettingsInv`). `KnownPoolsStay`: one
load at a time, and none once the page stopped loading (`PageInv`).
`BrowserAgrees`: away from a navigation in flight the address is what the filters
say, and past the debounce the search box (`AddressInv`); stored lists and every
copy a tab holds have no entry twice and at most the limit, so that a stale copy
written back breaks neither (`SelectionsInv`); a creator is banned exactly if the
newest entry of the log about him is a ban, and a dialog asks only what is still
to do (`BansInv`); a connected session is the remembered one. `SentIsAccepted`:
whatever is behind the present step of the wizard passed that step's checks, which
`goTo` and the templates keep (`CreateInv`). `LoneSavesAreListed`: what a handler
that is alone has read of the index is still the index (`NoteInv`).
`NoticesAreKept`: only the present cycle's delivery is open (`BotInv`).
`OneExecution`, `PromiseIsKept` and `CachesAreFresh` take the theorems of
WebCallProofs: it is instantiated over the state of the two parts
(`ProvedCalls`, `ProvedClient`), its definitions are shown to be theirs
(`CallsAlike`, `ClientAlike`), and the theorems carry over.

**Lists and figures** (WebListProofs). `ListsStayWhole` has six
invariants under it. `ReadsInv`: of the identifiers of the page asked for, each is
not yet started, in flight or answered, and never two of them, so that what is
returned is of that page and sorted; and (`ReadsWhole`) the reads launched first stay
in the array that is awaited, so that each of them is answered or failed when the
page is returned (`Complete`); that the pages of a count partition the
identifiers is arithmetic (`OnePageEach`). `ListedInv`: a card of the market list
was true at the height it was computed with (`TrueCard`). `BrowseInv`: the filters
are normalised and the page number positive; the pages, put one after the other,
are then the filtered list (`PagesFlatten`). `TimelineInv`: the timeline of a pool
tells every transaction the cursor has passed and nothing else (`WholeTimeline`),
whatever is emitted between the pages; it says so of the kept copies too, because
one of them may replace the list, and that at most one answer under way is live and
was asked from the present cursor. `ExportInv`: the feed is a list of the ledger's
events and the dates asked are days, so that the rows of the window are the rows the
page's filters left, when nothing was cut.

`ShownIsTrue` needs `DashInv` beside `ListedInv`: a row that says *won* is of a pool
that was settled for its side before the row was made (`RowDue`); a settled pool
keeps its totals and the account's stake only leaves it (`BooksKept`), which also
holds between the snapshot a walk started from and the chain it reads the stakes of,
two moments with any number of steps between them. So an offer is the stake's part
of a book that no longer changes, rounded down. That every figure is the count or sum of
the rows another card lists follows from the list lemmas: the parts of a filter
split the positions (`Splits`, `CountThree`, `PartsAddUp`), a sort only permutes
them (`CountPlaces`).

**Sums and lists** (SumProofs). The market, liquidity and multi-asset invariants
speak of sums over all accounts, outcomes or pools, and the changes are pointwise.
The lemmas say how a sum changes when one value changes (`SumUpdate`), that sums of
pointwise smaller values are smaller, that sums add, and so on. They are proved by
a minimal counterexample from the well-ordering of the naturals, stated on sets
(`SetInduction`), because the library's induction theorems take an operator as a
parameter. `AscendingLists` says of the ascending list of a finite set that it
holds every member, and none twice; `KeptList` that a filter keeps just the entries
at its positions, in their order, and `KeptSum` what their values add up to;
`LargestFirstList` that the sort is a permutation, descending by key, and stable.
From these: what a filter, a sort and a concatenation keep of membership and of
being without repetition (`PlacesKept`, `SortedAlike`, `ListsJoined`), and that the
pages of a list, one after the other, are the list (`PagesJoined`).

*Only model-checked:* every liveness property, and ENABLED, which the prover
cannot reach. Every invariant and every other action property the passing runs
check is stated by a theorem.


## 7. Where code and text differ

Shown by runs:

- **Fee between claims** (`finding_fee_change`). Without a tier table a claim
  reads the flat fee of its own time (`lib.rs:5140`), the treasury is credited by
  the first claim. A fee change between two claims makes credit plus payouts
  differ from the pool, against `docs/contract-api.md:22`.
- **Settled after an expired refund** (`finding_expired_then_settled`).
  `claim_expired` removes a bet without touching the totals or the status, so
  the pool can still be settled on totals that include it; winners are then paid
  out of other pools' money.
- **Token sweep** (`finding_token_sweep`). The last claim of a multi-asset pool
  sends the contract's whole balance of each token, less the pool's own fee, to
  the treasury recipient as dust (`lib.rs:8486`). Bets in another pool with the
  same token, "held in escrow" by `lib.rs:7870`, go with it.

Met while modelling, modelled as the code does, without a run of their own:

- `freeze_pool` accepts a voided or cancelled pool and `unfreeze_pool` makes it
  Open, against the diagram at `lib.rs:557`. `TerminalStatesFinal` is therefore
  stated for contracts without a freeze administrator.
- Multi-asset pools: `collect_multi_asset_fees` sends the fees away and adds
  their value to Treasury all the same, which `docs/contract-api.md:229` calls a
  balance held by the contract. Fees collected between two claims are no longer
  held back from the later ones. A voided or unsettled pool has no refund path:
  `cancel_multi_asset_bet`, named at `lib.rs:4032`, does not exist. Exposure,
  daily and weekly limits are checked for these bets and the bets are not
  recorded in them. `place_bet` accepts a multi-asset pool. A third outcome is
  in no legacy total. `paid_out` adds raw amounts of different tokens. A
  per-token limit of 0 leaves the stored one in place.
- A pool cooled by its size thaws only inside `place_bet`, which refuses bets
  after the expiry: a pool nobody bets on after the cooling period stays Frozen
  and cannot be settled until an administrator acts.
  `web/docs/CONTRACT_EVENTS.md:127` calls `cooling_until` the time "when cooling
  expires".
- `extend_pool_duration` leaves `deposit_deadline`, so the extension takes no
  bets, although the comment at `lib.rs:3483` says the deadline matters only to
  pools that set one.
- A bettor who cancels and bets again counts twice in `participant_count`, which
  is what the thin-market check reads (`lib.rs:4482`).
- `cancel_bet` and `cancel_pool` do not lower the recorded exposure; the daily
  and weekly windows are lowered by nothing (`lib.rs:2259` calls them losses).
- `PoolFeeBps` stays when a pool is settled again after the tier table was
  removed: the old fee applies.
- `create_pool` checks a creator deposit against `MIN_CREATOR_DEPOSIT` and
  transfers nothing.
- `freeze_pool` then `dispute_pool` is impossible: a dispute needs a Settled
  pool. A runbook procedure disputes a frozen one.
- `claim_expired` is open as soon as the pool is expired; the grace period of
  `docs/CONTRACT_API.md:415` applies to `refund_expired_pool` only.
- `execute_scheduled_claims` propagates the error of an entry (`lib.rs:5478`), so
  an entry that can never be claimed blocks those behind it.
  `DueClaimsDrain` is stated for queues without such an entry.
- A deposit to the LP pool resets the debt and so forfeits rewards not claimed;
  a reward claim cut to what is left of the reward pool gives up the rest.
- Batch size: `settle_pools` looks at 20 pools; the bot may be configured for 50
  (`bot/src/config.ts:37`). With more than 20 due pools it builds the same batch
  in every cycle, refuses the short answer of the simulation
  (`executor.ts:204`), does not retry it and settles none, although
  `bot/DEPLOYMENT.md:66` has it settle every expired pool.
- Bot: `settle_pools` reports a pool settled by another caller as a plain
  failure, so the branch for `PoolAlreadySettled` (`poller.ts:436`) is not
  reached and the pool counts as failing. The statement that the state is read
  again before each batch (`executor.ts:14`) has no code. A transaction that
  lands after its poll gave up is never announced. After a dispute was lifted,
  an unreachable oracle makes the bot settle with the disputed
  `winning_outcome`, which `unfreeze_pool` leaves on the pool, without the
  fallback being enabled. `stop()` during the sleep clears the timer whose end
  `start()` awaits, so `start()` does not return; `stop()` during a poll
  makes the attempt fail, and failed attempts are retried.

Of the web client and the bot's process (paths under `web/` unless they say
otherwise), modelled as the code does:

- Calls: `ClaimWinningsButton` and the dashboard's claim buttons share one prompt
  per component, so a second call replaces the first's fee prompt, whose promise
  then never settles; `components/ClaimWinningsButton.tsx:16` mounts no
  `TransactionFeeModal` at all, so that its claim waits for good. The poll gives up after 20 s while the
  transaction is valid for 30 s, and only the adapter turns a `FAILED` result
  into an error. `claimAll` marks every pool of a batch as claimed when the
  result decodes to nothing (`app/lib/hooks/useClaimAll.ts:107-111`).
- Caches: `app/lib/cache-invalidation.ts:11` lists `resolve-pool`, but
  `useSettlePool.ts:60-64` invalidates nothing; a read in flight at an
  invalidation writes its older result afterwards
  (`app/lib/market-list-cache.ts:254-280`).
- Reads: `HorizonRateLimiter` tests its count before its two waits and raises it
  after them, so more than `maxConcurrent` requests can run
  (`app/lib/horizon-client.ts:25-44`); `withRetry` tries again without asking the
  breaker; `enhanced-stacks-api.ts:206-207` promises complete pages and bounded
  concurrency, where the code skips what failed and `:232-242` takes the newest
  read, settled or not, out of those it awaits at the end: pools read one by one
  can be missing from a page although no read failed (of such a page
  `ListsAreWhole` says only that the first `Concurrency - 1` pools are listed or
  failed to be read);
  `parseScVal` takes the type from the first of four big-endian bytes
  (`soroban-read-api.ts:297`), so that no structure is read as one.
- Account data: `useActiveBets.ts:46` takes every answer, also one for an account
  left behind. A poll whose callback is in flight at unmount sets its timer
  again; a callback that rejects would arm none (`useVisibilityAwarePolling.ts:57-70`),
  but its three callers catch. A connect that is pending while the user
  disconnects connects later. `useWalletConnect.ts:28-75` keeps the balance of
  the account left behind on the screen until the new read answers. Another
  tab's disconnect (`components/WalletAdapterProvider.tsx:55-60`) removes the
  shared flag while this tab stays connected.
- Pools: after two bets the closure of `app/markets/[id]/page.tsx:91-136` can
  leave one counted twice; `:213-216` says a pool does not exist after a failed
  read; `:80-89` keeps the stakes of an account left behind. The block height is
  0 in `market-utils` when the read fails, and rounded odds can add to 101.
- Lists: `countPoolsByCategory` and `filterPools` disagree on "other"
  (`app/lib/pool-list-filtering.ts:167-169`, `:208-209`); the search box of
  `app/pools/page.tsx:90` does not follow the address; on `/markets` two effects
  that copy address to filters and filters to address can chase each other.
- Creation: the wizard always sends `predinex://` metadata
  (`app/create/page.tsx:129`, `:148`), which `contracts/predinex/src/lib.rs:2536-2549`
  refuses; the forms count UTF-16 units where the contract counts bytes; a
  description with its metadata can exceed the contract's limit although each
  keeps its own. Whether the template link was followed is component state
  (`app/create/page.tsx:46`): a reload follows it again and overwrites the draft.
- Activity: the timeline may end early (`app/hooks/usePoolActivity.ts:287-290`);
  webhooks are sent again whenever the events are read
  (`app/lib/soroban-event-service.ts:518-522`) under identifiers that are not
  unique (`webhook-service.ts:34`); the export asks an API for Stacks accounts for
  a Stellar address (`app/lib/stacks-api.ts:487`) and is therefore empty.
- Dashboards: the history takes a won bet for a loss of its whole stake, because
  `app/lib/dashboard-api.ts:199-200` computes the profit of a bet that has no
  winnings yet; `user-dashboard/useUserDashboard.ts:16` stops before the newest
  pool.
- Browser state: every user of `useLocalStorage`, like each card of the market list
  (`components/MarketCard.tsx:18-22`), writes the copy it read when it was mounted,
  so that tabs, and the cards of one page, undo each other's changes;
  the settings page loads without a `catch` (`app/settings/page.tsx:67-80`), which
  is harmless because its reads (`soroban-read-api.ts:816-846`, `:657-696`,
  `stacks-api.ts:463-545`) turn every failure into an empty answer;
  two saves of push subscriptions overlapping in the route lose one from the
  index (`push-subscriptions/route.ts:140`).
- Administration: bans live in `localStorage` only, so they bind nobody else;
  an access answer for an account left behind grants access
  (`app/admin/bans/page.tsx:47-74`), the dialogs stand outside the access gate
  (`:405-471`), and `app/admin/disputes/page.tsx:61-76` keeps `isAdmin` after a
  disconnect.
- Bot: a signal during the sleep between cycles clears the timer whose promise
  `start()` awaits (`bot/src/poller.ts:586-592`), so the process ends only when
  nothing else keeps its event loop;
  `validateSettlementOutcomes` refuses less than its comment says
  (`bot/src/executor.ts:44-47`).

## 8. What is not modelled

Storage lifetimes (TTL extension), events, error codes and the order of checks
that fail; authentication (a caller is who he says); metadata strings, templates,
webhook registries and mirrors; setters of limits, circuit breaker, creation fee,
dispute window and administrators (constants here: each is one guarded
assignment, and the properties hold for every value); `set_lp_fee_allocation`,
which stores a value nothing reads; TWAP, referral, and the contracts of
`contracts/pool`, `contracts/wave_pool` and `src/`. Of the bot: log lines and the
figures of the health report.

Of the web client: what only formats or draws; the charts of
`analytics/page.tsx`, the leaderboard, rewards, incentive and oracle pages, which
show sample data or values other modules compute; `transactions/page.tsx`, whose
history nobody writes (`addTransaction` is called nowhere); translations, feature
flags, telemetry, the service worker, metadata images. `session-validator.ts`,
`session-storage.ts`, `error-recovery.ts`, `transaction-service.ts`,
`wallet-service.ts` and `wallet-connector.ts` are reached by no page, so a model
of them would describe no behaviour of the program. The wallet extension, the
RPC nodes, the Stacks API, the key-value store and the push service are modelled
only by how the code uses them. Texts are sizes or members of small sets, XDR
values their kinds, what the wizard's second transaction writes only its stage, floating-point figures integer quotients.

## 9. Plan

Done, in this order: Sums, BettingLimits, PredinexMarket and its runs; SumProofs
and the books of MarketProofs; MarketLimits; MarketBatches; LiquidityPool and
LiquidityProofs; SettlementBot; the payouts of MarketProofs; MultiAsset;
ContractCalls, WebTransactions and WebCallProofs; WebCaches, WebClient; the other
modules of the web client; BotService; WebApp, MCWebApp; BotProofs, WebProofs,
MarketLayerProofs; PoolFunds and the third part of MarketProofs; WebListProofs.

Next:

1. The composition of WebTransactions with PredinexMarket for one pool, so that
   a bet's answer is compared with the books and not with a result code.
2. Twap: the ring of observations against the exact average.
3. The setters of limits, so that a limit changes while bets are live.
4. Pool contract and wave pool: claims against cumulative and live volume.

Liveness of the claims of multi-asset pools for TLC needs a smaller instance than
`multi_asset`. Runs that differ only in constants are merged when a new module
needs its own, as the fee run went into `market_admin` and the parts of the web
client into `web_app`.
