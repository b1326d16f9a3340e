------------------------------ MODULE BotProofs ------------------------------
(***************************************************************************)
(* The settlement bot announces only its own settlements, and what a cycle *)
(* tracks and still sends after stop() is bounded: for any number of pools *)
(* and retries, any sizes of the batches and the scans, and any failures.  *)
(***************************************************************************)
EXTENDS SettlementBot, TLAPS

-----------------------------------------------------------------------------
(* The invariant.                                                          *)

InBatch == {"build", "send", "poll"}
Places == {"asleep", "scan", "recount", "resolve", "notify", "stopped"} \cup InBatch
Verdicts == {"settled", "assumed", "failed"}

MayFind == Outcomes \cup {NoOutcome}

TypeOK ==
  /\ winner \in [Pools -> MayFind]
  /\ pc \in Places /\ running \in BOOLEAN
  /\ found \in [DOMAIN found -> MayFind] /\ candidates \in [DOMAIN candidates -> Outcomes]
  /\ results \in [DOMAIN results -> Verdicts]
  /\ DOMAIN found \cup DOMAIN candidates \cup expired \subseteq Pools
  /\ failures \in [Pools -> 0 .. MaxFailureCount - 1]
  /\ unannounced \in [Pools -> [Outcomes -> Int]] /\ sentStopped \in Nat

(* Between two cycles and while one looks for pools nothing was attempted. *)
BatchesOfCycle ==
  IF pc \in InBatch
  THEN rest \cup DOMAIN results \subseteq DOMAIN candidates
  ELSE results = Nothing

(***************************************************************************)
(* Of the transactions in flight the one polled for holds the batch as it  *)
(* stands, and it is in flight until it is answered for.                   *)
(***************************************************************************)
Sent(outcomes) == outcomes = [p \in Batch |-> candidates[p]]

Plans == UNION {[ps -> Outcomes] : ps \in SUBSET Pools}

Transactions == [outcomes : Plans, polled : BOOLEAN]

PolledFor ==
  /\ \A tx \in inFlight :
       /\ tx \in Transactions
       /\ tx.polled => pc = "poll" /\ landed = Unanswered /\ Sent(tx.outcomes)
  /\ landed # Unanswered => pc = "poll" /\ landed \in [Batch -> BOOLEAN]

(***************************************************************************)
(* What a result or an answer says was settled and is still to be          *)
(* announced is among the settlements not announced yet.                   *)
(***************************************************************************)
Vouched(p) ==
  \/ p \in DOMAIN results /\ results[p] = "settled"
  \/ landed # Unanswered /\ p \in Batch /\ landed[p]

Covered ==
  \A p \in Pools, o \in Outcomes :
    unannounced[p][o] >= IF Vouched(p) /\ candidates[p] = o THEN 1 ELSE 0

(* Every attempt sends at most once, and only the attempts at the batch    *)
(* that stop() found being made follow it.                                 *)
AttemptsBounded ==
  /\ running => sentStopped = 0
  /\ pc \in InBatch => attempt \in 1 .. MaxRetries + 1
  /\ pc \in {"build", "send"} => sentStopped < attempt
  /\ sentStopped <= IF pc = "poll" THEN attempt ELSE MaxRetries + 1

BotInv ==
  TypeOK /\ BatchesOfCycle /\ PolledFor /\ Covered /\ AttemptsBounded /\ FailuresTracked

-----------------------------------------------------------------------------
(* Helpers.                                                                *)

LEMMA Sizes ==
  /\ MaxRetries \in Nat \ {0} /\ MaxFailureCount \in Nat \ {0}
  /\ DefaultOutcome \in Outcomes /\ 0 \in 0 .. MaxFailureCount - 1
  /\ {0, 1} \subseteq Outcomes /\ PoolOutcomes \subseteq Outcomes
<1>1. MaxRetries \in Nat \ {0} /\ MaxFailureCount \in Nat \ {0} BY BotAssumption
<1>2. DefaultOutcome \in Outcomes /\ PoolOutcomes \subseteq Outcomes BY DEF Outcomes
<1>3. 0 \in PoolOutcomes /\ 1 \in PoolOutcomes BY BotAssumption DEF PoolOutcomes
<1>4. QED BY <1>1, <1>2, <1>3

LEMMA BatchInRest == Batch \subseteq rest
BY DEF Batch

(* Only a pool with a result changes its count, and none reaches the end.  *)
LEMMA TallyType ==
  ASSUME failures \in [Pools -> 0 .. MaxFailureCount - 1], NEW res
  PROVE  /\ Tally(res) \in [Pools -> 0 .. MaxFailureCount - 1]
         /\ \A p \in Pools : p \notin DOMAIN res => Tally(res)[p] = failures[p]
<1>1. ASSUME NEW p \in Pools
      PROVE  Tally(res)[p] \in 0 .. MaxFailureCount - 1
  <2>1. failures[p] \in Nat BY Sizes
  <2>2. failures[p] + 1 >= MaxFailureCount \/ failures[p] + 1 \in 0 .. MaxFailureCount - 1
    BY <2>1, Sizes
  <2>3. \/ Tally(res)[p] = failures[p] \/ Tally(res)[p] = 0
        \/ Tally(res)[p] = failures[p] + 1 /\ ~(failures[p] + 1 >= MaxFailureCount)
    BY DEF Tally
  <2>4. QED BY <2>2, <2>3, Sizes
<1>2. QED BY <1>1 DEF Tally

(* What a transaction of the bot holds.                                    *)
LEMMA TransactionType ==
  ASSUME TypeOK, BatchesOfCycle, pc \in InBatch, NEW polled \in BOOLEAN
  PROVE  /\ Transaction(polled) \in Transactions /\ Transaction(polled).polled = polled
         /\ Sent(Transaction(polled).outcomes)
<1>1. Batch \subseteq DOMAIN candidates BY BatchInRest DEF BatchesOfCycle
<1>2. \A p \in Batch : candidates[p] \in Outcomes BY <1>1 DEF TypeOK
<1>3. [p \in Batch |-> candidates[p]] \in [Batch -> Outcomes] /\ Batch \subseteq Pools
  BY <1>1, <1>2 DEF TypeOK
<1>4. [p \in Batch |-> candidates[p]] \in Plans BY <1>3 DEF Plans
<1>5. QED BY <1>4 DEF Transaction, Transactions, Sent

(***************************************************************************)
(* Nothing is polled for: every transaction in flight was given up.        *)
(***************************************************************************)
Loose(txs) == \A tx \in txs : tx \in Transactions /\ ~tx.polled

LEMMA ForgottenLoose == PolledFor => Loose(Forgotten)
<1>1. ASSUME NEW old \in Transactions
      PROVE  LET tx == [old EXCEPT !.polled = FALSE] IN tx \in Transactions /\ ~tx.polled
  BY DEF Transactions
<1>2. QED BY <1>1 DEF Forgotten, Loose, PolledFor

(***************************************************************************)
(* The end of a batch, with the results res, the last of which say settled *)
(* only of what the answer says so of.                                     *)
(***************************************************************************)
LEMMA BatchEnds ==
  ASSUME BotInv, pc \in InBatch, NEW res, res \in [Batch -> Verdicts],
         \A p \in Batch : res[p] = "settled" => landed # Unanswered /\ landed[p],
         BatchDone(res), UNCHANGED <<winner, running, expired>>,
         landed' = Unanswered, Loose(inFlight'),
         sentStopped' \in 0 .. MaxRetries + 1, running => sentStopped' = 0
  PROVE  BotInv'
<1> DEFINE all == Merged(results, res)
           left == rest \ DOMAIN res
<1>1. /\ TypeOK /\ BatchesOfCycle /\ Covered /\ AttemptsBounded /\ FailuresTracked BY DEF BotInv
<1>2. /\ DOMAIN res = Batch /\ Batch \subseteq rest
      /\ rest \cup DOMAIN results \subseteq DOMAIN candidates
  BY <1>1, BatchInRest DEF BatchesOfCycle
<1>3. /\ DOMAIN all = DOMAIN results \cup Batch
      /\ \A p \in DOMAIN all : all[p] = IF p \in DOMAIN results THEN results[p] ELSE res[p]
      /\ all \in [DOMAIN all -> Verdicts]
  BY <1>1, <1>2 DEF Merged, TypeOK
<1>4. \A p \in DOMAIN all : /\ all[p] = "settled" => Vouched(p)
                            /\ p \in DOMAIN candidates /\ p \in Pools
                            /\ candidates[p] \in Outcomes
  BY <1>1, <1>2, <1>3 DEF Vouched, TypeOK
<1> HIDE DEF all
<1>5. PolledFor' BY DEF PolledFor, Loose
<1>6. CASE left # {} /\ running
  <2>1. NextBatch(all, left) BY <1>6 DEF BatchDone, all
  <2>2. /\ pc' = "build" /\ attempt' = 1 /\ rest' = left /\ results' = all
        /\ UNCHANGED <<found, candidates, failures, unannounced>>
    BY <2>1 DEF NextBatch
  <2>3. TypeOK' BY <1>1, <1>3, <2>2 DEF TypeOK, Places, InBatch
  <2>4. BatchesOfCycle' BY <1>2, <1>3, <2>2 DEF BatchesOfCycle, InBatch
  <2>5. \A p \in Pools : Vouched(p)' => Vouched(p)
    BY <1>4, <2>2 DEF Vouched
  <2>6. Covered' BY <1>1, <2>2, <2>5 DEF Covered, TypeOK
  <2>7. AttemptsBounded' BY <1>6, <2>2, Sizes DEF AttemptsBounded, InBatch
  <2>8. FailuresTracked' BY <1>1, <2>2 DEF FailuresTracked, InBatch
  <2>9. QED BY <1>5, <2>3, <2>4, <2>6, <2>7, <2>8 DEF BotInv
<1>7. CASE ~(left # {} /\ running)
  <2>1. Record(all) BY <1>7 DEF BatchDone, all
  <2>2. /\ failures' = Tally(all)
        /\ unannounced' = [p \in Pools |->
             IF p \in DOMAIN all /\ all[p] = "settled"
             THEN [unannounced[p] EXCEPT ![candidates[p]] = @ - 1] ELSE unannounced[p]]
        /\ pc' \in {"notify", "asleep", "stopped"}
        /\ results' = Nothing /\ found' = Nothing /\ candidates' = Nothing
    BY <2>1 DEF Record, AfterCycle
  <2>3. \A p \in Pools : /\ unannounced[p] \in [Outcomes -> Int]
                         /\ unannounced'[p] \in [Outcomes -> Int]
                         /\ \A o \in Outcomes : unannounced'[p][o] >= 0
    <3> SUFFICES ASSUME NEW p \in Pools
                 PROVE  /\ unannounced[p] \in [Outcomes -> Int]
                        /\ unannounced'[p] \in [Outcomes -> Int]
                        /\ \A o \in Outcomes : unannounced'[p][o] >= 0
      OBVIOUS
    <3>1. /\ unannounced[p] \in [Outcomes -> Int]
          /\ \A o \in Outcomes : unannounced[p][o] >= IF Vouched(p) /\ candidates[p] = o THEN 1 ELSE 0
      BY <1>1 DEF TypeOK, Covered
    <3>2. CASE p \in DOMAIN all /\ all[p] = "settled"
      <4>1. Vouched(p) /\ candidates[p] \in Outcomes BY <1>4, <3>2
      <4>2. unannounced'[p] = [unannounced[p] EXCEPT ![candidates[p]] = @ - 1] BY <2>2, <3>2
      <4>3. QED BY <3>1, <4>1, <4>2
    <3>3. CASE ~(p \in DOMAIN all /\ all[p] = "settled")
      BY <2>2, <3>1, <3>3
    <3>4. QED BY <3>2, <3>3
  <2>4. failures' \in [Pools -> 0 .. MaxFailureCount - 1] BY <1>1, <2>2, TallyType DEF TypeOK
  <2>5. TypeOK'
    <3>1. unannounced' \in [Pools -> [Outcomes -> Int]] BY <2>2, <2>3
    <3>2. DOMAIN Nothing = {} BY DEF Nothing
    <3>3. /\ results' \in [DOMAIN results' -> Verdicts] /\ found' \in [DOMAIN found' -> MayFind]
          /\ candidates' \in [DOMAIN candidates' -> Outcomes]
      BY <2>2 DEF Nothing
    <3>4. QED BY <1>1, <2>2, <2>4, <3>1, <3>2, <3>3 DEF TypeOK, Places
  <2>6. BatchesOfCycle' BY <2>2 DEF BatchesOfCycle, InBatch
  <2>7. Covered'
    <3>1. \A p \in Pools : ~Vouched(p)' BY <2>2 DEF Vouched, Nothing
    <3>2. QED BY <2>3, <3>1 DEF Covered
  <2>8. AttemptsBounded' BY <1>1, <2>2 DEF AttemptsBounded, InBatch
  <2>9. FailuresTracked' BY <2>2, <2>4, Sizes DEF FailuresTracked
  <2>10. QED BY <1>5, <2>5, <2>6, <2>7, <2>8, <2>9 DEF BotInv
<1>8. QED BY <1>6, <1>7

-----------------------------------------------------------------------------
(* The poll cycle.                                                         *)

(* A step outside the batches that leaves the network and the history.     *)
LEMMA CycleKeeps ==
  ASSUME BotInv, TypeOK', FailuresTracked', pc \notin InBatch, pc' \notin InBatch,
         UNCHANGED <<netVars, results, historyVars, running>>
  PROVE  BotInv'
<1>1. TypeOK /\ BatchesOfCycle /\ PolledFor /\ Covered /\ AttemptsBounded BY DEF BotInv
<1>2. BatchesOfCycle' BY <1>1 DEF BatchesOfCycle
<1>3. PolledFor' BY <1>1 DEF PolledFor, netVars, InBatch
<1>4. Covered'
  <2>1. \A p : ~Vouched(p)'
    BY <1>1 DEF BatchesOfCycle, PolledFor, Vouched, Nothing, netVars, InBatch
  <2>2. unannounced' = unannounced BY DEF historyVars
  <2>3. \A p \in Pools, o \in Outcomes : unannounced[p][o] \in Int /\ unannounced[p][o] >= 0
    BY <1>1 DEF TypeOK, Covered
  <2>4. QED BY <2>1, <2>2, <2>3 DEF Covered
<1>5. AttemptsBounded' BY <1>1 DEF AttemptsBounded, historyVars, InBatch
<1>6. QED BY <1>2, <1>3, <1>4, <1>5 DEF BotInv

LEMMA StartCycleKeeps == BotInv /\ StartCycle => BotInv'
<1> SUFFICES ASSUME BotInv, StartCycle PROVE BotInv' OBVIOUS
<1>1. /\ pc = "asleep" /\ pc' = "scan" /\ expired' \subseteq Pools
      /\ UNCHANGED <<chainVars, netVars, planVars, historyVars, running, failures>>
  BY DEF StartCycle
<1>2. TypeOK' BY <1>1 DEF BotInv, TypeOK, chainVars, planVars, historyVars, Places
<1>3. FailuresTracked' BY <1>1 DEF BotInv, FailuresTracked
<1>4. QED BY <1>1, <1>2, <1>3, CycleKeeps DEF InBatch, planVars

LEMMA ReadPoolsKeeps == BotInv /\ ReadPools => BotInv'
<1> SUFFICES ASSUME BotInv, ReadPools PROVE BotInv' OBVIOUS
<1>1. PICK next :
        /\ pc = "scan" /\ pc' \in {"scan", "recount"} /\ expired' \in {expired, {}}
        /\ found' = Merged(found, [p \in ExpiredUnsettled(PoolsBatch(next)) |-> winner[p]])
        /\ UNCHANGED <<chainVars, netVars, candidates, rest, simulated, results, attempt,
                       historyVars, running, failures>>
  BY DEF ReadPools
<1> DEFINE new == ExpiredUnsettled(PoolsBatch(next))
<1>2. TypeOK BY DEF BotInv
<1>3. new \subseteq Pools BY <1>2 DEF ExpiredUnsettled, TypeOK
<1>4. /\ found' \in [DOMAIN found' -> MayFind] /\ DOMAIN found' \subseteq Pools
  <2>1. DOMAIN found' = DOMAIN found \cup new BY <1>1 DEF Merged
  <2>2. \A p \in DOMAIN found' : found'[p] = IF p \in DOMAIN found THEN found[p] ELSE winner[p]
    BY <1>1 DEF Merged
  <2>3. found' = [p \in DOMAIN found' |-> found'[p]] BY <1>1 DEF Merged
  <2> HIDE DEF new
  <2>4. \A p \in DOMAIN found' : found'[p] \in MayFind BY <1>2, <1>3, <2>1, <2>2 DEF TypeOK
  <2>5. QED BY <1>2, <1>3, <2>1, <2>3, <2>4 DEF TypeOK
<1>5. TypeOK' BY <1>1, <1>2, <1>4 DEF TypeOK, chainVars, historyVars, Places
<1>6. FailuresTracked' BY <1>1 DEF BotInv, FailuresTracked
<1>7. QED BY <1>1, <1>5, <1>6, CycleKeeps DEF InBatch

LEMMA ReadFailsKeeps == BotInv /\ ReadFails => BotInv'
<1> SUFFICES ASSUME BotInv, ReadFails PROVE BotInv' OBVIOUS
<1>1. /\ pc \in {"scan", "recount"} /\ pc' \in {"asleep", "stopped"}
      /\ found' = Nothing /\ expired' = {}
      /\ UNCHANGED <<chainVars, netVars, candidates, rest, simulated, results, attempt,
                     historyVars, running, failures>>
  BY DEF ReadFails, AfterCycle
<1>2. DOMAIN Nothing = {} /\ Nothing \in [{} -> MayFind] BY DEF Nothing
<1>3. TypeOK' BY <1>1, <1>2 DEF BotInv, TypeOK, chainVars, historyVars, Places
<1>4. FailuresTracked' BY <1>1 DEF BotInv, FailuresTracked
<1>5. QED BY <1>1, <1>3, <1>4, CycleKeeps DEF InBatch

LEMMA RecountKeeps == BotInv /\ Recount => BotInv'
<1> SUFFICES ASSUME BotInv, Recount PROVE BotInv' OBVIOUS
<1>1. /\ pc = "recount" /\ pc' \in {"asleep", "stopped", "resolve"}
      /\ failures' = [p \in Pools |-> IF p \in DOMAIN found THEN failures[p] ELSE 0]
      /\ UNCHANGED <<chainVars, netVars, planVars, historyVars, running, expired>>
  BY DEF Recount, AfterCycle
<1>2. TypeOK /\ FailuresTracked BY DEF BotInv
<1>3. failures' \in [Pools -> 0 .. MaxFailureCount - 1] BY <1>1, <1>2, Sizes DEF TypeOK
<1>4. TypeOK' BY <1>1, <1>2, <1>3 DEF TypeOK, chainVars, planVars, historyVars, Places
<1>5. FailuresTracked' BY <1>1, <1>2, <1>3, Sizes DEF FailuresTracked, planVars
<1>6. QED BY <1>1, <1>4, <1>5, CycleKeeps DEF InBatch, planVars

(* Every candidate has an outcome of a pool, or the configured default.    *)
LEMMA CandidatesType ==
  ASSUME TypeOK, NEW answers \in Replies
  PROVE  /\ Candidates(answers) \in [DOMAIN Candidates(answers) -> Outcomes]
         /\ DOMAIN Candidates(answers) \subseteq DOMAIN found
<1>1. ASSUME NEW p \in DOMAIN found, Resolved(p, answers[p]) # Deferred
      PROVE  Resolved(p, answers[p]) \in Outcomes
  <2>1. answers[p] \in Outcomes \cup {Deferred, Unreachable}
    BY BotAssumption, Sizes DEF Replies
  <2>2. found[p] \in Outcomes \cup {NoOutcome} BY DEF TypeOK, MayFind
  <2>3. QED BY <1>1, <2>1, <2>2, Sizes DEF Resolved
<1>2. QED BY <1>1 DEF Candidates

LEMMA ResolveKeeps == ASSUME NEW answers \in Replies, BotInv, Resolve(answers) PROVE BotInv'
<1> DEFINE chosen == Candidates(answers)
<1>1. /\ pc = "resolve"
      /\ UNCHANGED <<chainVars, netVars, simulated, results, historyVars, running, expired>>
  BY DEF Resolve
<1>2. TypeOK /\ BatchesOfCycle /\ PolledFor /\ Covered /\ AttemptsBounded /\ FailuresTracked
  BY DEF BotInv
<1>3. chosen \in [DOMAIN chosen -> Outcomes] /\ DOMAIN chosen \subseteq Pools
  BY <1>2, CandidatesType DEF TypeOK
<1>4. CASE DOMAIN chosen = {} \/ ~running \/ DryRun
  <2>1. /\ pc' \in {"notify", "asleep", "stopped"}
        /\ failures' = failures \/ failures' = Tally([p \in DOMAIN chosen |-> "assumed"])
        /\ found' = Nothing /\ UNCHANGED <<candidates, rest, attempt>>
    BY <1>4 DEF Resolve, AfterCycle
  <2>2. failures' \in [Pools -> 0 .. MaxFailureCount - 1] BY <1>2, <2>1, TallyType DEF TypeOK
  <2>3. DOMAIN Nothing = {} /\ Nothing \in [{} -> MayFind] BY DEF Nothing
  <2>4. TypeOK' BY <1>1, <1>2, <2>1, <2>2, <2>3 DEF TypeOK, chainVars, historyVars, Places
  <2>5. FailuresTracked' BY <2>1, <2>2, Sizes DEF FailuresTracked
  <2>6. QED BY <1>1, <2>1, <2>4, <2>5, CycleKeeps DEF InBatch
<1>5. CASE ~(DOMAIN chosen = {} \/ ~running \/ DryRun)
  <2>1. /\ running /\ pc' = "build" /\ attempt' = 1 /\ candidates' = chosen
        /\ rest' = DOMAIN chosen /\ UNCHANGED <<failures, found>>
    BY <1>5 DEF Resolve
  <2> HIDE DEF chosen
  <2>2. TypeOK' BY <1>1, <1>2, <1>3, <2>1 DEF TypeOK, chainVars, historyVars, Places, InBatch
  <2>3. BatchesOfCycle' BY <1>1, <1>2, <2>1 DEF BatchesOfCycle, Nothing, InBatch
  <2>4. PolledFor' BY <1>1, <1>2 DEF PolledFor, netVars
  <2>5. Covered'
    <3>1. \A p : ~Vouched(p)'
      BY <1>1, <1>2 DEF BatchesOfCycle, PolledFor, Vouched, Nothing, netVars, InBatch
    <3>2. unannounced' = unannounced BY <1>1 DEF historyVars
    <3>3. \A p \in Pools, o \in Outcomes : unannounced[p][o] \in Int /\ unannounced[p][o] >= 0
      BY <1>2 DEF TypeOK, Covered
    <3>4. QED BY <3>1, <3>2, <3>3 DEF Covered
  <2>6. AttemptsBounded' BY <1>1, <1>2, <2>1, Sizes DEF AttemptsBounded, historyVars, InBatch
  <2>7. FailuresTracked' BY <1>1, <1>2, <2>1 DEF FailuresTracked
  <2>8. QED BY <2>2, <2>3, <2>4, <2>5, <2>6, <2>7 DEF BotInv
<1>6. QED BY <1>4, <1>5

-----------------------------------------------------------------------------
(* The attempts at a batch.                                                *)

LEMMA BatchFailedKeeps ==
  ASSUME BotInv, pc \in InBatch, BatchFailed, UNCHANGED <<winner, running, expired>>,
         landed' = Unanswered, Loose(inFlight'),
         sentStopped' \in 0 .. MaxRetries + 1, running => sentStopped' = 0
  PROVE  BotInv'
<1> DEFINE res == [p \in Batch |-> "failed"]
<1>1. res \in [Batch -> Verdicts] BY DEF Verdicts
<1>2. \A p \in Batch : res[p] # "settled" OBVIOUS
<1>3. BatchDone(res) BY DEF BatchFailed
<1> HIDE DEF res
<1>4. QED BY <1>1, <1>2, <1>3, BatchEnds

LEMMA RetryKeeps ==
  ASSUME BotInv, pc \in InBatch, Retry, UNCHANGED <<winner, running, expired>>,
         landed' = Unanswered, Loose(inFlight'),
         sentStopped' \in 0 .. attempt, running => sentStopped' = 0
  PROVE  BotInv'
<1>1. TypeOK /\ BatchesOfCycle /\ Covered /\ AttemptsBounded /\ FailuresTracked BY DEF BotInv
<1>2. attempt \in 1 .. MaxRetries + 1 BY <1>1 DEF AttemptsBounded
<1>3. CASE attempt <= MaxRetries
  <2>1. /\ pc' = "build" /\ attempt' = attempt + 1
        /\ UNCHANGED <<found, candidates, rest, results, failures, unannounced>>
    BY <1>3 DEF Retry
  <2>2. TypeOK' BY <1>1, <1>2, <2>1 DEF TypeOK, Places, InBatch
  <2>3. BatchesOfCycle' BY <1>1, <2>1 DEF BatchesOfCycle, InBatch
  <2>4. PolledFor' BY DEF PolledFor, Loose
  <2>5. \A p : Vouched(p)' => Vouched(p) BY <2>1 DEF Vouched
  <2>6. Covered' BY <1>1, <2>1, <2>5 DEF Covered, TypeOK
  <2>7. AttemptsBounded' BY <1>2, <1>3, <2>1, Sizes DEF AttemptsBounded, InBatch
  <2>8. FailuresTracked' BY <1>1, <2>1 DEF FailuresTracked, InBatch
  <2>9. QED BY <2>2, <2>3, <2>4, <2>6, <2>7, <2>8 DEF BotInv
<1>4. CASE ~(attempt <= MaxRetries)
  <2>1. sentStopped' \in 0 .. MaxRetries + 1 BY <1>2, Sizes
  <2>2. BatchFailed BY <1>4 DEF Retry
  <2>3. QED BY <2>1, <2>2, BatchFailedKeeps
<1>5. QED BY <1>3, <1>4

(* What was sent after stop(), in a state that makes attempts.             *)
LEMMA SentSoFar ==
  ASSUME BotInv, pc \in InBatch
  PROVE  /\ attempt \in 1 .. MaxRetries + 1 /\ sentStopped \in 0 .. attempt
         /\ pc # "poll" => sentStopped + 1 \in 0 .. attempt
         /\ sentStopped \in 0 .. MaxRetries + 1
         /\ running => sentStopped = 0
<1>1. AttemptsBounded /\ TypeOK BY DEF BotInv
<1>2. attempt \in 1 .. MaxRetries + 1 /\ sentStopped \in Nat /\ (running => sentStopped = 0)
  BY <1>1 DEF AttemptsBounded, TypeOK
<1>3. CASE pc = "poll"
  <2>1. sentStopped <= attempt BY <1>1, <1>3 DEF AttemptsBounded
  <2>2. QED BY <1>2, <1>3, <2>1, Sizes
<1>4. CASE pc # "poll" BY <1>1, <1>2, <1>4, Sizes DEF AttemptsBounded, InBatch, TypeOK
<1>5. QED BY <1>3, <1>4, <1>1 DEF AttemptsBounded

LEMMA SimulateKeeps == BotInv /\ Simulate => BotInv'
<1> SUFFICES ASSUME BotInv, Simulate PROVE BotInv' OBVIOUS
<1>1. /\ pc = "build" /\ pc' = "send"
      /\ UNCHANGED <<chainVars, inFlight, landed, found, candidates, rest, results, attempt,
                     historyVars, running, expired, failures>>
  BY DEF Simulate
<1>2. TypeOK /\ BatchesOfCycle /\ PolledFor /\ Covered /\ AttemptsBounded /\ FailuresTracked
  BY DEF BotInv
<1>3. TypeOK' BY <1>1, <1>2 DEF TypeOK, chainVars, historyVars, Places, InBatch
<1>4. BatchesOfCycle' BY <1>1, <1>2 DEF BatchesOfCycle, InBatch
<1>5. Batch' = Batch BY <1>1 DEF Batch
<1>6. PolledFor' BY <1>1, <1>2 DEF PolledFor
<1>7. Covered' BY <1>1, <1>2, <1>5 DEF Covered, Vouched, historyVars
<1>8. AttemptsBounded' BY <1>1, <1>2 DEF AttemptsBounded, historyVars, InBatch
<1>9. FailuresTracked' BY <1>1, <1>2 DEF FailuresTracked
<1>10. QED BY <1>3, <1>4, <1>6, <1>7, <1>8, <1>9 DEF BotInv

LEMMA SimulationFailsKeeps == BotInv /\ SimulationFails => BotInv'
<1> SUFFICES ASSUME BotInv, SimulationFails PROVE BotInv' OBVIOUS
<1>1. /\ pc = "build" /\ BatchFailed
      /\ UNCHANGED <<chainVars, netVars, sentStopped, running, expired>>
  BY DEF SimulationFails
<1>2. landed' = Unanswered /\ Loose(inFlight') BY <1>1 DEF BotInv, PolledFor, Loose, netVars
<1>3. /\ sentStopped' \in 0 .. MaxRetries + 1 /\ (running => sentStopped' = 0)
  BY <1>1, SentSoFar DEF InBatch
<1>4. pc \in InBatch /\ UNCHANGED <<winner, running, expired>> BY <1>1 DEF InBatch, chainVars
<1>5. QED BY <1>1, <1>2, <1>3, <1>4, BatchFailedKeeps

LEMMA SendKeeps == BotInv /\ Send => BotInv'
<1> SUFFICES ASSUME BotInv, Send PROVE BotInv' OBVIOUS
<1>1. /\ pc = "send" /\ pc' = "poll" /\ CountSent
      /\ inFlight' = inFlight \cup {Transaction(TRUE)}
      /\ UNCHANGED <<chainVars, landed, planVars, unannounced, running, expired, failures>>
  BY DEF Send
<1>2. TypeOK /\ BatchesOfCycle /\ PolledFor /\ Covered /\ AttemptsBounded /\ FailuresTracked
  BY DEF BotInv
<1>3. /\ attempt \in 1 .. MaxRetries + 1 /\ sentStopped' \in 0 .. attempt
      /\ running => sentStopped' = 0
  BY <1>1, SentSoFar DEF CountSent, InBatch
<1>4. TypeOK' BY <1>1, <1>2, <1>3 DEF TypeOK, chainVars, planVars, Places, InBatch
<1>5. BatchesOfCycle' BY <1>1, <1>2 DEF BatchesOfCycle, planVars, InBatch
<1>6. Batch' = Batch /\ candidates' = candidates BY <1>1 DEF Batch, planVars
<1>7. PolledFor'
  <2>1. landed = Unanswered /\ \A tx \in inFlight : tx \in Transactions /\ ~tx.polled
    BY <1>1, <1>2 DEF PolledFor
  <2>2. Transaction(TRUE) \in Transactions /\ Sent(Transaction(TRUE).outcomes)
    BY <1>1, <1>2, TransactionType DEF InBatch
  <2>3. \A outcomes : Sent(outcomes) => Sent(outcomes)' BY <1>6 DEF Sent
  <2>4. QED BY <1>1, <2>1, <2>2, <2>3 DEF PolledFor
<1>8. Covered' BY <1>1, <1>2, <1>6 DEF Covered, Vouched, planVars
<1>9. AttemptsBounded' BY <1>1, <1>3 DEF AttemptsBounded, planVars, InBatch
<1>10. FailuresTracked' BY <1>1, <1>2 DEF FailuresTracked, planVars
<1>11. QED BY <1>4, <1>5, <1>7, <1>8, <1>9, <1>10 DEF BotInv

LEMMA SendUnansweredKeeps == BotInv /\ SendUnanswered => BotInv'
<1> SUFFICES ASSUME BotInv, SendUnanswered PROVE BotInv' OBVIOUS
<1>1. /\ pc = "send" /\ Retry /\ CountSent /\ landed' = Unanswered
      /\ inFlight' = Forgotten \cup {Transaction(FALSE)}
      /\ UNCHANGED <<chainVars, running, expired>>
  BY DEF SendUnanswered
<1>2. /\ sentStopped' \in 0 .. attempt /\ (running => sentStopped' = 0)
  BY <1>1, SentSoFar DEF CountSent, InBatch
<1>3. Transaction(FALSE) \in Transactions /\ ~Transaction(FALSE).polled
  BY <1>1, TransactionType DEF InBatch, BotInv
<1>4. Loose(inFlight') BY <1>1, <1>3, ForgottenLoose DEF BotInv, Loose
<1>5. pc \in InBatch /\ UNCHANGED <<winner, running, expired>> BY <1>1 DEF InBatch, chainVars
<1>6. QED BY <1>1, <1>2, <1>4, <1>5, RetryKeeps

LEMMA AttemptFailsKeeps == BotInv /\ AttemptFails => BotInv'
<1> SUFFICES ASSUME BotInv, AttemptFails PROVE BotInv' OBVIOUS
<1>1. /\ pc \in InBatch /\ Retry /\ inFlight' = Forgotten /\ landed' = Unanswered
      /\ UNCHANGED <<chainVars, sentStopped, running, expired>>
  BY DEF AttemptFails, InBatch
<1>2. /\ sentStopped' \in 0 .. attempt /\ (running => sentStopped' = 0) BY <1>1, SentSoFar
<1>3. Loose(inFlight') BY <1>1, ForgottenLoose DEF BotInv
<1>4. UNCHANGED <<winner, running, expired>> BY <1>1 DEF chainVars
<1>5. QED BY <1>1, <1>2, <1>3, <1>4, RetryKeeps

LEMMA ConfirmKeeps ==
  ASSUME BotInv, NEW readable \in BOOLEAN, Confirm(readable)
  PROVE  BotInv'
<1> DEFINE res == Reported(readable)
<1>1. /\ pc = "poll" /\ landed # Unanswered /\ BatchDone(res) /\ landed' = Unanswered
      /\ UNCHANGED <<chainVars, inFlight, sentStopped, running, expired>>
  BY DEF Confirm
<1>2. res \in [Batch -> Verdicts]
  <2>1. \A p \in Batch : res[p] \in Verdicts BY DEF Reported, Verdicts
  <2>2. QED BY <2>1 DEF Reported
<1>3. \A p \in Batch : res[p] = "settled" => landed[p] BY DEF Reported
<1> HIDE DEF res
<1>4. Loose(inFlight') BY <1>1 DEF BotInv, PolledFor, Loose
<1>5. /\ sentStopped' \in 0 .. MaxRetries + 1 /\ (running => sentStopped' = 0)
  BY <1>1, SentSoFar DEF InBatch
<1>6. pc \in InBatch /\ UNCHANGED <<winner, running, expired>> BY <1>1 DEF InBatch, chainVars
<1>7. QED BY <1>1, <1>2, <1>3, <1>4, <1>5, <1>6, BatchEnds

-----------------------------------------------------------------------------
(* The process.                                                            *)

LEMMA NotifiedKeeps == BotInv /\ Notified => BotInv'
<1> SUFFICES ASSUME BotInv, Notified PROVE BotInv' OBVIOUS
<1>1. /\ pc = "notify" /\ pc' \in {"asleep", "stopped"}
      /\ UNCHANGED <<chainVars, netVars, planVars, historyVars, running, expired, failures>>
  BY DEF Notified, AfterCycle
<1>2. TypeOK' BY <1>1 DEF BotInv, TypeOK, chainVars, planVars, historyVars, Places
<1>3. FailuresTracked' BY <1>1 DEF BotInv, FailuresTracked
<1>4. QED BY <1>1, <1>2, <1>3, CycleKeeps DEF InBatch, planVars

LEMMA StopKeeps == BotInv /\ Stop => BotInv'
<1> SUFFICES ASSUME BotInv, Stop PROVE BotInv' OBVIOUS
<1>1. /\ running' = FALSE
      /\ UNCHANGED <<chainVars, netVars, planVars, historyVars, pc, expired, failures>>
  BY DEF Stop
<1>2. TypeOK /\ BatchesOfCycle /\ PolledFor /\ Covered /\ AttemptsBounded /\ FailuresTracked
  BY DEF BotInv
<1>3. TypeOK' BY <1>1, <1>2 DEF TypeOK, chainVars, planVars, historyVars
<1>4. BatchesOfCycle' BY <1>1, <1>2 DEF BatchesOfCycle, planVars
<1>5. Batch' = Batch BY <1>1 DEF Batch, planVars
<1>6. PolledFor' BY <1>1, <1>2, <1>5 DEF PolledFor, Sent, netVars, planVars
<1>7. Covered' BY <1>1, <1>2, <1>5 DEF Covered, Vouched, netVars, planVars, historyVars
<1>8. AttemptsBounded' BY <1>1, <1>2 DEF AttemptsBounded, planVars, historyVars
<1>9. FailuresTracked' BY <1>1, <1>2 DEF FailuresTracked, planVars
<1>10. QED BY <1>3, <1>4, <1>6, <1>7, <1>8, <1>9 DEF BotInv

LEMMA CrashKeeps == BotInv /\ Crash => BotInv'
<1> SUFFICES ASSUME BotInv, Crash PROVE BotInv' OBVIOUS
<1>1. /\ pc' = "asleep" /\ expired' = {} /\ failures' = [p \in Pools |-> 0]
      /\ found' = Nothing /\ candidates' = Nothing /\ results' = Nothing
      /\ inFlight' = Forgotten /\ landed' = Unanswered
      /\ UNCHANGED <<chainVars, historyVars, running>>
  BY DEF Crash
<1>2. TypeOK /\ PolledFor /\ Covered /\ AttemptsBounded BY DEF BotInv
<1>3. TypeOK'
  <2>1. DOMAIN Nothing = {} BY DEF Nothing
  <2>2. /\ results' \in [DOMAIN results' -> Verdicts] /\ found' \in [DOMAIN found' -> MayFind]
        /\ candidates' \in [DOMAIN candidates' -> Outcomes]
    BY <1>1 DEF Nothing
  <2>3. failures' \in [Pools -> 0 .. MaxFailureCount - 1] BY <1>1, Sizes
  <2>4. QED BY <1>1, <1>2, <2>1, <2>2, <2>3 DEF TypeOK, chainVars, historyVars, Places
<1>4. BatchesOfCycle' BY <1>1 DEF BatchesOfCycle, InBatch
<1>5. PolledFor' BY <1>1, <1>2, ForgottenLoose DEF PolledFor, Loose
<1>6. Covered'
  <2>1. \A p : ~Vouched(p)' BY <1>1 DEF Vouched, Nothing
  <2>2. unannounced' = unannounced BY <1>1 DEF historyVars
  <2>3. \A p \in Pools, o \in Outcomes : unannounced[p][o] \in Int /\ unannounced[p][o] >= 0
    BY <1>2 DEF TypeOK, Covered
  <2>4. QED BY <2>1, <2>2, <2>3 DEF Covered
<1>7. AttemptsBounded'
  BY <1>1, SentSoFar, <1>2 DEF AttemptsBounded, historyVars, InBatch, BotInv
<1>8. FailuresTracked' BY <1>1, Sizes DEF FailuresTracked
<1>9. QED BY <1>3, <1>4, <1>5, <1>6, <1>7, <1>8 DEF BotInv

-----------------------------------------------------------------------------
(* The ledger.                                                             *)

(* A step of the ledger that moves no transaction of the bot.              *)
LEMMA LedgerKeeps ==
  ASSUME BotInv, winner' \in [Pools -> MayFind], inFlight' \subseteq inFlight,
         UNCHANGED <<landed, historyVars, botVars>>
  PROVE  BotInv'
<1>1. TypeOK /\ BatchesOfCycle /\ PolledFor /\ Covered /\ AttemptsBounded /\ FailuresTracked
  BY DEF BotInv
<1>2. TypeOK' BY <1>1 DEF TypeOK, planVars, historyVars, botVars
<1>3. BatchesOfCycle' BY <1>1 DEF BatchesOfCycle, planVars, botVars
<1>4. Batch' = Batch BY DEF Batch, planVars, botVars
<1>5. PolledFor' BY <1>1, <1>4 DEF PolledFor, Sent, planVars, botVars
<1>6. Covered' BY <1>1, <1>4 DEF Covered, Vouched, planVars, historyVars, botVars
<1>7. AttemptsBounded' BY <1>1 DEF AttemptsBounded, planVars, historyVars, botVars
<1>8. FailuresTracked' BY <1>1 DEF FailuresTracked, planVars, botVars
<1>9. QED BY <1>2, <1>3, <1>5, <1>6, <1>7, <1>8 DEF BotInv

LEMMA LandKeeps ==
  ASSUME BotInv, NEW tx, Land(tx)
  PROVE  BotInv'
<1> DEFINE settles == {p \in DOMAIN tx.outcomes : Accepts(p, tx.outcomes[p])}
<1>1. /\ tx \in inFlight
      /\ winner' = [p \in Pools |-> IF p \in settles THEN tx.outcomes[p] ELSE winner[p]]
      /\ landed' = IF tx.polled THEN [p \in DOMAIN tx.outcomes |-> p \in settles] ELSE landed
      /\ inFlight' = {}
      /\ unannounced' = [p \in Pools |->
           IF p \in settles THEN [unannounced[p] EXCEPT ![tx.outcomes[p]] = @ + 1]
           ELSE unannounced[p]]
      /\ UNCHANGED <<sentStopped, botVars>>
  BY DEF Land
<1>2. TypeOK /\ BatchesOfCycle /\ PolledFor /\ Covered /\ AttemptsBounded /\ FailuresTracked
  BY DEF BotInv
<1>3. \A p \in settles : p \in Pools /\ tx.outcomes[p] \in Outcomes
  BY <1>1, <1>2 DEF PolledFor, Transactions, Plans
<1>4. Batch' = Batch /\ candidates' = candidates /\ results' = results
  BY <1>1 DEF Batch, planVars, botVars
<1>5. tx.polled => /\ pc = "poll" /\ DOMAIN tx.outcomes = Batch
                   /\ \A p \in Batch : tx.outcomes[p] = candidates[p]
  BY <1>1, <1>2 DEF PolledFor, Sent
<1> HIDE DEF settles
<1>6. \A p \in Pools : /\ unannounced'[p] \in [Outcomes -> Int]
                       /\ \A o \in Outcomes : unannounced'[p][o] =
                            IF p \in settles /\ tx.outcomes[p] = o THEN unannounced[p][o] + 1
                            ELSE unannounced[p][o]
  BY <1>1, <1>2, <1>3 DEF TypeOK
<1>7. TypeOK'
  <2>1. winner' \in [Pools -> MayFind] BY <1>1, <1>2, <1>3 DEF TypeOK, MayFind
  <2>2. unannounced' \in [Pools -> [Outcomes -> Int]] BY <1>1, <1>6
  <2>3. QED BY <1>1, <1>2, <2>1, <2>2 DEF TypeOK, planVars, botVars
<1>8. BatchesOfCycle' BY <1>1, <1>2 DEF BatchesOfCycle, planVars, botVars
<1>9. PolledFor'
  <2>1. CASE tx.polled
    <3>1. landed' \in [Batch -> BOOLEAN] BY <1>1, <1>5, <2>1
    <3>2. pc' = "poll" BY <1>1, <1>5, <2>1 DEF botVars
    <3>3. QED BY <1>1, <1>4, <3>1, <3>2 DEF PolledFor
  <2>2. CASE ~tx.polled
    <3>1. landed' = landed /\ pc' = pc BY <1>1, <2>2 DEF botVars
    <3>2. QED BY <1>1, <1>2, <1>4, <3>1 DEF PolledFor
  <2>3. QED BY <2>1, <2>2
<1>10. Covered'
  <2> SUFFICES ASSUME NEW p \in Pools, NEW o \in Outcomes
               PROVE  unannounced'[p][o] >= IF Vouched(p)' /\ candidates'[p] = o THEN 1 ELSE 0
    BY DEF Covered
  <2>1. /\ unannounced[p][o] \in Int
        /\ unannounced[p][o] >= IF Vouched(p) /\ candidates[p] = o THEN 1 ELSE 0
    BY <1>2 DEF TypeOK, Covered
  <2>2. unannounced'[p][o] = IF p \in settles /\ tx.outcomes[p] = o THEN unannounced[p][o] + 1
                             ELSE unannounced[p][o]
    BY <1>6
  <2>3. CASE Vouched(p)' /\ ~Vouched(p) /\ candidates[p] = o
    <3>1. p \in Batch /\ landed'[p] /\ landed' # Unanswered BY <1>4, <2>3 DEF Vouched
    <3>2. tx.polled
      <4>1. landed' # landed BY <2>3, <3>1 DEF Vouched
      <4>2. QED BY <1>1, <4>1
    <3>3. p \in settles BY <1>1, <1>5, <3>1, <3>2
    <3>4. tx.outcomes[p] = o BY <1>5, <2>3, <3>1, <3>2
    <3>5. unannounced'[p][o] = unannounced[p][o] + 1 BY <2>2, <3>3, <3>4
    <3>6. QED BY <2>1, <3>5
  <2>4. CASE ~(Vouched(p)' /\ ~Vouched(p) /\ candidates[p] = o)
    <3>1. (Vouched(p)' /\ candidates'[p] = o) => (Vouched(p) /\ candidates[p] = o)
      BY <1>4, <2>4
    <3>2. QED BY <2>1, <2>2, <3>1
  <2>5. QED BY <2>3, <2>4
<1>11. AttemptsBounded' BY <1>1, <1>2 DEF AttemptsBounded, planVars, botVars
<1>12. FailuresTracked' BY <1>1, <1>2 DEF FailuresTracked, planVars, botVars
<1>13. QED BY <1>7, <1>8, <1>9, <1>10, <1>11, <1>12 DEF BotInv

LEMMA LedgerStepKeeps == BotInv /\ LedgerStep => BotInv'
<1> SUFFICES ASSUME BotInv, LedgerStep PROVE BotInv' OBVIOUS
<1>1. winner \in [Pools -> MayFind] BY DEF BotInv, TypeOK
<1>2. ASSUME NEW tx \in inFlight, Land(tx) PROVE BotInv' BY <1>2, LandKeeps
<1>3. ASSUME NEW tx \in inFlight, Drop(tx) PROVE BotInv'
  BY <1>1, <1>3, LedgerKeeps DEF Drop, chainVars
<1>4. CASE LandFailing BY <1>1, <1>4, LedgerKeeps DEF LandFailing, chainVars
<1>5. ASSUME NEW p \in Pools, TimePasses(p) PROVE BotInv'
  BY <1>1, <1>5, LedgerKeeps DEF TimePasses, netVars
<1>6. ASSUME NEW p \in Pools, Withhold(p) \/ Unfreeze(p) PROVE BotInv'
  BY <1>1, <1>6, LedgerKeeps DEF Withhold, Unfreeze, netVars
<1>7. ASSUME NEW p \in Pools, NEW o \in PoolOutcomes, SettledByOther(p, o) PROVE BotInv'
  <2>1. winner' \in [Pools -> MayFind] BY <1>1, <1>7, Sizes DEF SettledByOther, MayFind
  <2>2. QED BY <1>7, <2>1, LedgerKeeps DEF SettledByOther, netVars
<1>8. QED BY <1>2, <1>3, <1>4, <1>5, <1>6, <1>7 DEF LedgerStep

-----------------------------------------------------------------------------
(* The theorems.                                                           *)

LEMMA BotStepKeeps == BotInv /\ BotStep => BotInv'
BY StartCycleKeeps, ReadPoolsKeeps, ReadFailsKeeps, RecountKeeps, ResolveKeeps, SimulateKeeps,
   SimulationFailsKeeps, SendKeeps, SendUnansweredKeeps, AttemptFailsKeeps, ConfirmKeeps,
   NotifiedKeeps, StopKeeps, CrashKeeps DEF BotStep

LEMMA BotNextKeeps == BotInv /\ [Next]_vars => BotInv'
<1> SUFFICES ASSUME BotInv, [Next]_vars PROVE BotInv' OBVIOUS
<1>1. CASE UNCHANGED vars
  <2>1. winner' \in [Pools -> MayFind] BY <1>1 DEF BotInv, TypeOK, vars, chainVars
  <2>2. inFlight' \subseteq inFlight /\ UNCHANGED <<landed, historyVars, botVars>>
    BY <1>1 DEF vars, netVars, botVars
  <2>3. QED BY <2>1, <2>2, LedgerKeeps
<1>2. QED BY <1>1, BotStepKeeps, LedgerStepKeeps DEF Next

LEMMA BotInit == Init => BotInv
<1> SUFFICES ASSUME Init PROVE BotInv OBVIOUS
<1>1. DOMAIN Nothing = {} BY DEF Nothing
<1>2. \A S : Nothing \in [{} -> S] BY DEF Nothing
<1>3. TypeOK
  <2>1. /\ winner \in [Pools -> MayFind] /\ failures \in [Pools -> 0 .. MaxFailureCount - 1]
        /\ unannounced \in [Pools -> [Outcomes -> Int]]
    BY Sizes DEF Init, MayFind
  <2>2. QED BY <1>1, <1>2, <2>1 DEF Init, TypeOK, Places
<1>4. BatchesOfCycle /\ PolledFor BY DEF Init, BatchesOfCycle, PolledFor, InBatch
<1>5. Covered
  <2>1. \A p : ~Vouched(p) BY <1>1 DEF Init, Vouched
  <2>2. \A p \in Pools, o \in Outcomes : unannounced[p][o] = 0 BY DEF Init
  <2>3. QED BY <2>1, <2>2 DEF Covered
<1>6. AttemptsBounded BY Sizes DEF Init, AttemptsBounded, InBatch
<1>7. FailuresTracked BY Sizes DEF Init, FailuresTracked
<1>8. QED BY <1>3, <1>4, <1>5, <1>6, <1>7 DEF BotInv

(***************************************************************************)
(* What the bot knows of its transactions and what the ledger made of them *)
(* stay in step, through retries, late landings, crashes and stops.        *)
(***************************************************************************)
THEOREM BotInvariant == Spec => []BotInv
BY BotInit, BotNextKeeps, PTL DEF Spec

(***************************************************************************)
(* Every pool announced as settled on the strength of a transaction was    *)
(* settled by this bot with that outcome, and no settlement is announced   *)
(* twice.                                                                  *)
(***************************************************************************)
THEOREM NoticesAlwaysTrue == Spec => []NoticesAreTrue
<1>1. ASSUME BotInv, NEW p \in Pools, NEW o \in Outcomes PROVE unannounced[p][o] >= 0
  <2>1. /\ unannounced[p][o] \in Int
        /\ unannounced[p][o] >= IF Vouched(p) /\ candidates[p] = o THEN 1 ELSE 0
    BY <1>1 DEF BotInv, TypeOK, Covered
  <2>2. QED BY <2>1
<1>2. BotInv => NoticesAreTrue BY <1>1 DEF NoticesAreTrue
<1>3. QED BY <1>2, BotInvariant, PTL

(***************************************************************************)
(* The tracked failures are those of the current scan and below the        *)
(* ceiling, and after stop() at most the attempts of one batch are sent.   *)
(***************************************************************************)
THEOREM CyclesAreBounded == Spec => []CyclesBounded
<1>1. ASSUME BotInv PROVE StopBounds
  <2>1. CASE pc \in InBatch BY <1>1, <2>1, SentSoFar, Sizes DEF StopBounds
  <2>2. CASE pc \notin InBatch
    BY <1>1, <2>2 DEF BotInv, AttemptsBounded, StopBounds, InBatch
  <2>3. QED BY <2>1, <2>2
<1>2. BotInv => CyclesBounded BY <1>1 DEF BotInv, CyclesBounded
<1>3. QED BY <1>2, BotInvariant, PTL

=============================================================================
