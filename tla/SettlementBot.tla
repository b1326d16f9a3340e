---------------------------- MODULE SettlementBot ----------------------------
(***************************************************************************)
(* The settlement bot (bot/src): the poll cycle, the batches of            *)
(* settle_pools it submits with retries, and the failures it tracks,       *)
(* against pools that others settle, freeze and dispute meanwhile.  Every  *)
(* action runs from one await to the next.  A second bot, the creator and  *)
(* the administrator are alike to this one: SettledByOther.  Pools created *)
(* later are like pools that have not expired yet.                         *)
(***************************************************************************)
EXTENDS Integers, FiniteSets

CONSTANTS
  NumPools,
  OutcomeCount,     \* outcomes of a pool, two at least
  ScanBatch,        \* BATCH_SIZE: pools per read
  SettleBatchSize,  \* SETTLE_BATCH_SIZE
  ContractCap,      \* pools settle_pools looks at (20)
  MaxRetries, MaxFailureCount,
  AutoSettle, DryRun, FallbackToDefault, DefaultOutcome,
  OracleAnswers,    \* outcomes, Deferred ("outcome": null), Unreachable
  Deferred, Unreachable, NoOutcome,
  Unanswered,       \* no confirmation seen of the transaction polled for
  ThinPools,        \* pools below the participant minimum
  MaxReopenings     \* bound: settled pools withheld again

Pools == 1 .. NumPools
PoolOutcomes == 0 .. OutcomeCount - 1
Outcomes == PoolOutcomes \cup {DefaultOutcome}   \* those a settlement may name

ASSUME BotAssumption ==
  /\ {NumPools, ScanBatch, SettleBatchSize, ContractCap, MaxRetries, MaxFailureCount}
       \subseteq Nat \ {0}
  /\ OutcomeCount \in Nat \ {0, 1}
  /\ {AutoSettle, DryRun, FallbackToDefault} \subseteq BOOLEAN
  /\ DefaultOutcome \in Nat /\ ThinPools \subseteq Pools
  /\ OracleAnswers \subseteq {0, 1, Deferred, Unreachable}

VARIABLES
  status, winner,   \* on chain; winning_outcome survives a reopening
  due,              \* "no", by the bot's "clock", or on the "ledger" too
  inFlight,         \* transactions sent: outcomes, and whether still polled for
  landed,           \* per-pool results of the transaction polled for
  fresh,            \* the sequence number read is still the account's
  running,          \* cleared by stop(), which aborts the cycle too
  expired,          \* past their expiry by the clock, as the scan started
  pc, cursor, found, candidates, rest, attempt, simulated, results,
  failures,         \* persistentFailures; 0 is untracked
  unannounced,      \* history: own settlements minus confirmed announcements
  sentStopped,      \* history: transactions sent after stop()
  reopenings        \* history, bounded

chainVars == <<status, winner, due, reopenings>>
netVars == <<inFlight, landed, fresh>>
planVars == <<found, candidates, rest, simulated, results, attempt>>
historyVars == <<unannounced, sentStopped>>
vars == <<chainVars, netVars, planVars, historyVars, running, pc, cursor, expired, failures>>

Nothing == <<>>   \* the function with an empty domain

(* What was collected so far and what comes now.                           *)
Merged(f, g) == [p \in DOMAIN f \cup DOMAIN g |-> IF p \in DOMAIN f THEN f[p] ELSE g[p]]

-----------------------------------------------------------------------------
(* What settle_single_pool accepts of a caller that may settle.  The       *)
(* configured default may be an outcome that the pool does not have.       *)
Accepts(p, o) ==
  status[p] = "Open" /\ due[p] = "ledger" /\ p \notin ThinPools /\ o \in PoolOutcomes

(* The next group of at most SettleBatchSize candidates, in scan order.    *)
Batch == {p \in rest : Cardinality({q \in rest : q < p}) < SettleBatchSize}

AfterCycle == IF running THEN "asleep" ELSE "stopped"

(* A success ends the count, and so does the last count allowed.           *)
Tally(res) ==
  [p \in Pools |-> CASE p \notin DOMAIN res -> failures[p]
                     [] p \in DOMAIN res /\ res[p] # "failed" -> 0
                     [] OTHER -> IF failures[p] + 1 >= MaxFailureCount THEN 0
                                 ELSE failures[p] + 1]

(* The results of all batches are counted, and the successes announced.    *)
Record(res) ==
  /\ failures' = Tally(res)
  /\ unannounced' = [p \in Pools |->
       IF p \in DOMAIN res /\ res[p] = "settled"
       THEN [unannounced[p] EXCEPT ![candidates[p]] = @ - 1] ELSE unannounced[p]]
  /\ pc' = IF \E p \in DOMAIN res : res[p] # "failed" THEN "notify" ELSE AfterCycle
  /\ rest' = {} /\ results' = Nothing /\ simulated' = Nothing
  /\ found' = Nothing /\ candidates' = Nothing /\ attempt' = 0

NextBatch(res, left) ==
  /\ pc' = "build" /\ attempt' = 1
  /\ rest' = left /\ results' = res /\ simulated' = Nothing
  /\ UNCHANGED <<found, candidates, failures, unannounced>>

(* mutant: stop() is not looked at between two batches                     *)
BatchDoneUnstopped(res) ==
  LET all == Merged(results, res)
      left == rest \ DOMAIN res
  IN  IF left # {} THEN NextBatch(all, left) ELSE Record(all)

BatchDone(res) ==
  LET all == Merged(results, res)
      left == rest \ DOMAIN res
  IN  IF left # {} /\ running THEN NextBatch(all, left) ELSE Record(all)

BatchFailed == BatchDone([p \in Batch |-> "failed"])

-----------------------------------------------------------------------------
(* The poll cycle.                                                         *)

StartCycle ==
  /\ pc = "asleep" /\ running
  /\ pc' = "scan" /\ cursor' = 1
  /\ expired' = {p \in Pools : due[p] # "no"}
  /\ UNCHANGED <<chainVars, netVars, planVars, historyVars, running, failures>>

(* The pools of one read, in the order of their ids.                       *)
PoolsBatch(next) == cursor .. next - 1

ExpiredUnsettled(ps) == {p \in ps : status[p] = "Open" /\ p \in expired}

ReadPools ==
  LET next == IF cursor + ScanBatch > NumPools THEN NumPools + 1 ELSE cursor + ScanBatch
  IN  /\ pc = "scan"
      /\ found' = Merged(found, [p \in ExpiredUnsettled(PoolsBatch(next)) |-> winner[p]])
      /\ cursor' = IF next > NumPools THEN 0 ELSE next
      /\ pc' = IF next > NumPools THEN "recount" ELSE "scan"
      /\ expired' = IF next > NumPools THEN {} ELSE expired
      /\ UNCHANGED <<chainVars, netVars, candidates, rest, simulated, results, attempt,
                     historyVars, running, failures>>

(* A read that fails for good ends the cycle.                              *)
ReadFails ==
  /\ pc \in {"scan", "recount"}
  /\ pc' = AfterCycle /\ cursor' = 0 /\ found' = Nothing /\ expired' = {}
  /\ UNCHANGED <<chainVars, netVars, candidates, rest, simulated, results, attempt,
                 historyVars, running, failures>>

Recount ==
  /\ pc = "recount"
  /\ failures' = [p \in Pools |-> IF p \in DOMAIN found THEN failures[p] ELSE 0]
  /\ pc' = IF DOMAIN found = {} THEN AfterCycle ELSE "resolve"
  /\ UNCHANGED <<chainVars, netVars, planVars, historyVars, running, cursor, expired>>

(* What queryOracle makes of a reply: an outcome, a deferral, or, of an    *)
(* error, another status or an outcome that is not 0 or 1, Unreachable.    *)
Replies == [DOMAIN found -> OracleAnswers]

(* resolveWinningOutcome, with the pool as the scan saw it.                *)
Resolved(p, answer) ==
  IF answer # Unreachable THEN answer
  ELSE IF found[p] # NoOutcome THEN found[p]
  ELSE IF FallbackToDefault THEN DefaultOutcome ELSE Deferred

(* mutant: pools that failed before are left to be settled by hand         *)
CandidatesUnescalated(answers) ==
  [p \in {q \in DOMAIN found : Resolved(q, answers[q]) # Deferred /\ failures[q] + 1 < MaxFailureCount}
     |-> Resolved(p, answers[p])]

Candidates(answers) ==
  [p \in {q \in DOMAIN found : AutoSettle /\ Resolved(q, answers[q]) # Deferred}
     |-> Resolved(p, answers[p])]

Resolve(answers) ==
  LET chosen == Candidates(answers)
  IN  /\ pc = "resolve"
      /\ IF DOMAIN chosen = {} \/ ~running \/ DryRun
         THEN /\ pc' = IF DOMAIN chosen # {} /\ running THEN "notify" ELSE AfterCycle
              /\ failures' = IF running THEN Tally([p \in DOMAIN chosen |-> "assumed"])
                             ELSE failures
              /\ found' = Nothing
              /\ UNCHANGED <<candidates, rest, attempt>>
         ELSE /\ pc' = "build" /\ attempt' = 1
              /\ candidates' = chosen /\ rest' = DOMAIN chosen
              /\ UNCHANGED <<failures, found>>
      /\ UNCHANGED <<chainVars, netVars, simulated, results, historyVars, running, cursor, expired>>

-----------------------------------------------------------------------------
(* One attempt at one batch.                                               *)

(* getAccount and the simulation; a short answer is an error.              *)
Simulate ==
  /\ pc = "build"
  /\ Cardinality(Batch) <= ContractCap
  /\ simulated' = [p \in Batch |-> Accepts(p, candidates[p])]
  /\ fresh' = TRUE
  /\ pc' = "send"
  /\ UNCHANGED <<chainVars, inFlight, landed, found, candidates, rest, results, attempt,
                 historyVars, running, cursor, expired, failures>>

Forgotten == {[tx EXCEPT !.polled = FALSE] : tx \in inFlight}

(* Errors of the simulation are not retried.                               *)
SimulationFails ==
  /\ pc = "build"
  /\ BatchFailed
  /\ UNCHANGED <<chainVars, netVars, sentStopped, running, cursor, expired>>

Transaction(polled) ==
  [outcomes |-> [p \in Batch |-> candidates[p]], polled |-> polled]

CountSent == sentStopped' = IF running THEN sentStopped ELSE sentStopped + 1

Send ==
  /\ pc = "send" /\ fresh
  /\ inFlight' = inFlight \cup {Transaction(TRUE)}
  /\ CountSent
  /\ pc' = "poll"
  /\ UNCHANGED <<chainVars, landed, fresh, planVars, unannounced, running, cursor, expired, failures>>

Retry ==
  IF attempt <= MaxRetries
  THEN /\ pc' = "build" /\ attempt' = attempt + 1 /\ simulated' = Nothing
       /\ UNCHANGED <<found, candidates, rest, results, failures, unannounced>>
  ELSE BatchFailed

(* Whatever went wrong: a call that failed, a stale sequence number, a     *)
(* transaction that failed or was not seen in time, or stop().  What was   *)
(* sent may still land.                                                    *)
AttemptFails ==
  /\ pc \in {"build", "send", "poll"}
  /\ Retry
  /\ inFlight' = Forgotten /\ landed' = Unanswered
  /\ UNCHANGED <<chainVars, fresh, sentStopped, running, cursor, expired>>

(* The transaction was accepted and the answer was lost.                   *)
SendUnanswered ==
  /\ pc = "send" /\ fresh
  /\ Retry
  /\ inFlight' = Forgotten \cup {Transaction(FALSE)} /\ landed' = Unanswered
  /\ CountSent
  /\ UNCHANGED <<chainVars, fresh, running, cursor, expired>>

(* mutant: the results are those of the simulation                         *)
ReportedEarly(readable) ==
  [p \in Batch |-> CASE ~simulated[p] -> "failed"
                     [] simulated[p] /\ readable -> "settled"
                     [] OTHER -> "assumed"]

(* A return value that cannot be read is replaced by the simulation's.     *)
Reported(readable) ==
  LET value == IF readable THEN landed ELSE simulated
  IN  [p \in Batch |-> CASE ~value[p] -> "failed"
                         [] value[p] /\ readable -> "settled"
                         [] OTHER -> "assumed"]

Confirm(readable) ==
  /\ pc = "poll" /\ landed # Unanswered
  /\ BatchDone(Reported(readable))
  /\ landed' = Unanswered
  /\ UNCHANGED <<chainVars, inFlight, fresh, sentStopped, running, cursor, expired>>

(* notify() never throws.                                                  *)
Notified ==
  /\ pc = "notify"
  /\ pc' = AfterCycle
  /\ UNCHANGED <<chainVars, netVars, planVars, historyVars, running, cursor, expired, failures>>

(* stop() clears the timer that would end a sleep.                         *)
Stop ==
  /\ running
  /\ running' = FALSE
  /\ UNCHANGED <<chainVars, netVars, planVars, historyVars, pc, cursor, expired, failures>>

(* The process dies and is restarted: everything in memory is gone.        *)
Crash ==
  /\ running /\ pc # "asleep"
  /\ pc' = "asleep" /\ cursor' = 0 /\ expired' = {}
  /\ failures' = [p \in Pools |-> 0]
  /\ found' = Nothing /\ candidates' = Nothing /\ rest' = {}
  /\ simulated' = Nothing /\ results' = Nothing /\ attempt' = 0
  /\ inFlight' = Forgotten /\ landed' = Unanswered
  /\ UNCHANGED <<chainVars, fresh, historyVars, running>>

-----------------------------------------------------------------------------
(* The ledger.  Transactions of one account in flight carry one sequence   *)
(* number: the first to land makes the others invalid.                     *)

botVars == <<planVars, running, pc, cursor, expired, failures>>

Land(tx) ==
  LET settles == {p \in DOMAIN tx.outcomes : Accepts(p, tx.outcomes[p])}
  IN  /\ tx \in inFlight
      /\ status' = [p \in Pools |-> IF p \in settles THEN "Settled" ELSE status[p]]
      /\ winner' = [p \in Pools |-> IF p \in settles THEN tx.outcomes[p] ELSE winner[p]]
      /\ landed' = IF tx.polled THEN [p \in DOMAIN tx.outcomes |-> p \in settles] ELSE landed
      /\ inFlight' = {} /\ fresh' = FALSE
      /\ unannounced' = [p \in Pools |->
           IF p \in settles THEN [unannounced[p] EXCEPT ![tx.outcomes[p]] = @ + 1]
           ELSE unannounced[p]]
      /\ UNCHANGED <<due, reopenings, sentStopped, botVars>>

LandFailing ==
  /\ inFlight # {}
  /\ inFlight' = {} /\ fresh' = FALSE
  /\ UNCHANGED <<chainVars, landed, historyVars, botVars>>

Drop(tx) ==
  /\ tx \in inFlight
  /\ inFlight' = inFlight \ {tx}
  /\ UNCHANGED <<chainVars, landed, fresh, historyVars, botVars>>

TimePasses(p) ==
  /\ due[p] # "ledger"
  /\ due' = [due EXCEPT ![p] = IF @ = "no" THEN "clock" ELSE "ledger"]
  /\ UNCHANGED <<status, winner, reopenings, netVars, historyVars, botVars>>

SettledByOther(p, o) ==
  /\ Accepts(p, o)
  /\ status' = [status EXCEPT ![p] = "Settled"]
  /\ winner' = [winner EXCEPT ![p] = o]
  /\ UNCHANGED <<due, reopenings, netVars, historyVars, botVars>>

(* freeze_pool, or dispute_pool of a settled pool.                         *)
Withhold(p) ==
  /\ \/ status[p] = "Open" /\ UNCHANGED reopenings
     \/ /\ status[p] = "Settled" /\ reopenings < MaxReopenings
        /\ reopenings' = reopenings + 1
  /\ status' = [status EXCEPT ![p] = "Withheld"]
  /\ UNCHANGED <<winner, due, netVars, historyVars, botVars>>

(* unfreeze_pool: the winning outcome of a former settlement stays.        *)
Unfreeze(p) ==
  /\ status[p] = "Withheld"
  /\ status' = [status EXCEPT ![p] = "Open"]
  /\ UNCHANGED <<winner, due, reopenings, netVars, historyVars, botVars>>

-----------------------------------------------------------------------------
Init ==
  /\ status = [p \in Pools |-> "Open"] /\ winner = [p \in Pools |-> NoOutcome]
  /\ due = [p \in Pools |-> "no"] /\ reopenings = 0
  /\ inFlight = {} /\ landed = Unanswered /\ fresh = FALSE
  /\ running = TRUE /\ pc = "asleep" /\ cursor = 0 /\ expired = {}
  /\ found = Nothing /\ candidates = Nothing /\ rest = {}
  /\ simulated = Nothing /\ results = Nothing /\ attempt = 0
  /\ failures = [p \in Pools |-> 0]
  /\ unannounced = [p \in Pools |-> [o \in Outcomes |-> 0]] /\ sentStopped = 0

BotStep ==
  \/ StartCycle \/ ReadPools \/ ReadFails \/ Recount
  \/ \E answers \in Replies : Resolve(answers)
  \/ Simulate \/ SimulationFails \/ Send \/ SendUnanswered \/ AttemptFails
  \/ \E readable \in BOOLEAN : Confirm(readable)
  \/ Notified \/ Stop \/ Crash

LedgerStep ==
  \/ \E tx \in inFlight : Land(tx) \/ Drop(tx)
  \/ LandFailing
  \/ \E p \in Pools : \/ TimePasses(p) \/ Withhold(p) \/ Unfreeze(p)
                      \/ \E o \in PoolOutcomes : SettledByOther(p, o)

Next == BotStep \/ LedgerStep

Spec == Init /\ [][Next]_vars

(***************************************************************************)
(* The bot goes on while it runs, and from some time on its calls succeed: *)
(* reads and simulations are answered, the oracle has an outcome, and what *)
(* is polled for lands within the window.  A transaction sent before that  *)
(* may still take the sequence number of a later one.                      *)
(***************************************************************************)
Answered == \E answers \in [DOMAIN found -> {0, 1}] : Resolve(answers)

Overtaken ==
  /\ \/ pc = "send" /\ ~fresh
     \/ pc = "poll" /\ landed = Unanswered /\ \A tx \in inFlight : ~tx.polled
  /\ AttemptFails

(* More pools than settle_pools looks at: the answer is too short.         *)
TooMany == Cardinality(Batch) > ContractCap /\ SimulationFails

Progress ==
  \/ StartCycle \/ ReadPools \/ Recount \/ Answered
  \/ Simulate \/ TooMany \/ Send \/ Overtaken \/ Confirm(TRUE) \/ Notified

Troubled ==
  \/ ReadFails \/ (SimulationFails /\ ~TooMany) \/ SendUnanswered \/ Crash \/ LandFailing
  \/ AttemptFails /\ ~Overtaken
  \/ pc = "resolve" /\ pc' # pc /\ ~Answered
  \/ \E tx \in inFlight : tx.polled /\ Drop(tx)

Fairness ==
  /\ WF_vars(Progress)
  /\ WF_vars(\E tx \in inFlight : tx.polled /\ Land(tx))
  /\ <>[][~Troubled]_vars

FairSpec == Spec /\ Fairness

-----------------------------------------------------------------------------
(***************************************************************************)
(* A pool announced as settled on the strength of a confirmed transaction  *)
(* was settled by this bot, with the outcome announced, and each of its    *)
(* settlements is announced at most once: not after a retry, a late        *)
(* landing, a crash or another caller's settlement in between.             *)
(***************************************************************************)
NoticesAreTrue == \A p \in Pools, o \in Outcomes : unannounced[p][o] >= 0

(***************************************************************************)
(* The tracked failures are those of pools of the current scan, and no     *)
(* count reaches the ceiling.                                              *)
(***************************************************************************)
FailuresTracked ==
  \A p \in Pools :
    /\ failures[p] < MaxFailureCount
    /\ failures[p] > 0 /\ pc \in {"resolve", "build", "send", "poll"} => p \in DOMAIN found

(***************************************************************************)
(* After stop() no more is sent than the attempts of one batch, although   *)
(* an aborted poll counts as an attempt to be retried.                     *)
(***************************************************************************)
StopBounds == sentStopped <= MaxRetries + 1

(***************************************************************************)
(* What a cycle leaves behind is bounded: the failures it tracks, and what *)
(* it still sends once it was stopped.                                     *)
(***************************************************************************)
CyclesBounded == FailuresTracked /\ StopBounds

(***************************************************************************)
(* While the bot runs, every open pool past its expiry that the contract   *)
(* would settle is settled, or withheld by an administrator.               *)
(***************************************************************************)
DuePoolsSettle ==
  \A p \in Pools \ ThinPools :
    (status[p] = "Open" /\ due[p] = "ledger") ~> (status[p] # "Open" \/ ~running)

=============================================================================
