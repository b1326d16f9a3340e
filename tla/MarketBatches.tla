---------------------------- MODULE MarketBatches ----------------------------
(***************************************************************************)
(* The calls that put several claims or settlements in one transaction:    *)
(* claim_all_winnings, settle_pools, and the scheduled claims a keeper     *)
(* executes.  settle_pools and claim_all_winnings skip what fails;         *)
(* execute_scheduled_claims gives up on the first entry that fails, and    *)
(* the ledger then rolls the whole call back.                              *)
(***************************************************************************)
EXTENDS PredinexMarket, Ranks

CONSTANTS
  ExecutionCap,     \* SCHEDULED_CLAIM_EXECUTION_CAP
  BatchCap,         \* pool ids a batch call looks at
  PoolLists,        \* pool_ids claim_all_winnings is called with
  Delays,           \* claim_at - now in calls of schedule_claim
  MaxClaims         \* bound: entries ever scheduled

ASSUME BatchesAssumption ==
  /\ ExecutionCap \in Nat \ {0} /\ BatchCap \in Nat /\ MaxClaims \in Nat
  /\ PoolLists \subseteq Seq(Pools) /\ Delays \subseteq Nat

VARIABLES
  claims,     \* ScheduledClaim by id; ScheduledClaimCounter is its length + 1
  claimOf     \* ScheduledClaimByUserPool, NoClaim when absent

batchVars == <<claims, claimOf>>
NoClaim == 0

-----------------------------------------------------------------------------
(* The effect of several claims of one transaction, in order.              *)

(***************************************************************************)
(* One claim_winnings_internal on the payout states of the transaction so  *)
(* far; the bets, totals and fee it reads are not touched by the claims    *)
(* before it.  c names a pool and a user.                                  *)
(***************************************************************************)
Pay(s, c) ==
  LET p == c.pool
      claimed == s.payout[p].claimed + WinningStake(p, c.user)
      paidOut == s.payout[p].paidOut + Winnings(p, c.user)
      dust == IF claimed = WinningTotal(p) THEN NetPool(p) - paidOut ELSE 0
      delta == dust + (IF s.payout[p].feeCredited THEN 0 ELSE Fee(p))
  IN  [payout |-> [s.payout EXCEPT ![p] = [feeCredited |-> TRUE, claimed |-> claimed,
                                           paidOut |-> paidOut]],
       credited |-> [s.credited EXCEPT ![p] = IF delta > 0 THEN @ + delta ELSE @]]

Stored == [payout |-> payout, credited |-> credited]

(* mutant: every claim of the batch reads the credit stored before it *)
PayoutsStale(batch) ==
  LET after[k \in 0 .. Len(batch)] ==
        IF k = 0 THEN Stored
        ELSE LET p == batch[k].pool
             IN  [payout |-> Pay(after[k - 1], batch[k]).payout,
                  credited |-> [after[k - 1].credited EXCEPT
                                  ![p] = Pay(Stored, batch[k]).credited[p]]]
  IN  after[Len(batch)]

Payouts(batch) ==
  LET after[k \in 0 .. Len(batch)] ==
        IF k = 0 THEN Stored ELSE Pay(after[k - 1], batch[k])
  IN  after[Len(batch)]

OverPools(f(_)) == SumBelow([i \in 0 .. NumPools - 1 |-> f(i + 1)], NumPools)

Claiming(batch, p) == {u \in Accounts : \E i \in DOMAIN batch :
                         batch[i].pool = p /\ batch[i].user = u}

(* The whole batch pays or none of it does.                                *)
PayBatch(batch) ==
  \E s \in {Payouts(batch)} :
    LET Paid(p) == s.payout[p].paidOut - payout[p].paidOut
        Credit(p) == s.credited[p] - credited[p]
        In(p, u) == u \in Claiming(batch, p)
    IN  /\ OverPools(Paid) <= balance
        /\ payout' = s.payout /\ credited' = s.credited
        /\ treasury' = treasury + OverPools(Credit)
        /\ balance' = balance - OverPools(Paid)
        /\ escrow' = [p \in Pools |-> escrow[p] - Paid(p) - Credit(p)]
        /\ stake' = [p \in Pools |-> [u \in Accounts |->
                       IF In(p, u) THEN [o \in Outcomes |-> 0] ELSE stake[p][u]]]
        /\ totalBet' = [p \in Pools |-> [u \in Accounts |->
                          IF In(p, u) THEN 0 ELSE totalBet[p][u]]]
        /\ hasBet' = [p \in Pools |-> hasBet[p] \ Claiming(batch, p)]
        /\ exposure' = [p \in Pools |-> [u \in Accounts |->
                          IF In(p, u) THEN Reduced(exposure[p][u], WinningStake(p, u))
                          ELSE exposure[p][u]]]
        /\ UNCHANGED <<now, configVars, lifeVars, totals, sides, volume, bettors,
                       participants, withdrawn, betRate, dailyLoss, weeklyLoss, lastLargeBet>>

-----------------------------------------------------------------------------
(* Batch calls.                                                            *)

FirstOf(s, n) == SubSeq(s, 1, IF Len(s) < n THEN Len(s) ELSE n)

(* A pool listed twice fails the second time: the bet is gone.             *)
Listed(list, i) == list[i] \notin {list[j] : j \in 1 .. i - 1}

(***************************************************************************)
(* claim_all_winnings: an ineligible pool is skipped, before it has        *)
(* written anything; a transfer the contract cannot fund fails the call.   *)
(***************************************************************************)
ClaimAllWinnings(u, list) ==
  LET seen == FirstOf(list, BatchCap)
      kept == Ascending({i \in DOMAIN seen : Listed(seen, i) /\ Claimable(u, seen[i])})
  IN  /\ kept # <<>>
      /\ PayBatch([k \in DOMAIN kept |-> [pool |-> seen[kept[k]], user |-> u]])
      /\ UNCHANGED batchVars

(***************************************************************************)
(* settle_pools: outcome[p] is what the first request for p declares; the  *)
(* pools that cannot be settled by the caller are skipped.                 *)
(***************************************************************************)
SettlePools(caller, outcome) ==
  LET done == {p \in DOMAIN outcome : Settleable(caller, p)}
      On(f, value(_)) == [p \in Pools |-> IF p \in done THEN value(p) ELSE f[p]]
      volumeFee(p) == FeeForVolume(PoolTotal(p))
  IN  /\ done # {} /\ Cardinality(DOMAIN outcome) <= BatchCap
      /\ status' = On(status, LAMBDA p : "Settled")
      /\ winner' = On(winner, LAMBDA p : outcome[p])
      /\ settledAt' = On(settledAt, LAMBDA p : now)
      /\ settleFee' = On(settleFee, LAMBDA p : Bps(PoolTotal(p), volumeFee(p)))
      /\ lockedFee' = IF feeTiers = <<>> THEN lockedFee ELSE On(lockedFee, volumeFee)
      /\ fresh' = On(fresh, LAMBDA p : escrow[p] = PoolTotal(p))
      /\ UNCHANGED <<now, configVars, pool, coolingUntil, bookVars, moneyVars, limitVars,
                     batchVars>>

-----------------------------------------------------------------------------
(* Scheduled claims.                                                       *)

Pending(id) == claims[id].status = "Pending"

(* mutant: an entry is due only after its time *)
DueLater == Ascending({id \in DOMAIN claims : Pending(id) /\ claims[id].at < now})
Due == Ascending({id \in DOMAIN claims : Pending(id) /\ claims[id].at <= now})

Close(ids, how) ==
  /\ claims' = [id \in DOMAIN claims |->
                  IF id \in ids THEN [claims[id] EXCEPT !.status = how] ELSE claims[id]]
  /\ claimOf' = [p \in Pools |-> [u \in Accounts |->
                   IF \E id \in ids : claims[id].pool = p /\ claims[id].user = u
                   THEN NoClaim ELSE claimOf[p][u]]]

(* Any pool with a bet of the user will do, settled or not.                *)
MaySchedule(u, p) == claimOf[p][u] = NoClaim /\ Exists(p) /\ u \in hasBet[p]

(* The bounds keep the list short and the time one the clock reaches.      *)
ScheduleClaim(u, p, at) ==
  /\ at > now /\ at <= MaxTime
  /\ MaySchedule(u, p)
  /\ Len(claims) < MaxClaims
  /\ claims' = Append(claims, [pool |-> p, user |-> u, at |-> at, status |-> "Pending"])
  /\ claimOf' = [claimOf EXCEPT ![p][u] = Len(claims) + 1]
  /\ UNCHANGED vars

CancelScheduledClaim(u, id) ==
  /\ id \in DOMAIN claims
  /\ claims[id].user = u /\ Pending(id)
  /\ Close({id}, "Cancelled")
  /\ UNCHANGED vars

(***************************************************************************)
(* execute_scheduled_claims: the first due entries in id order, up to the  *)
(* cap.  One that cannot be claimed makes the call fail.                   *)
(***************************************************************************)
ExecuteScheduledClaims ==
  \E ids \in {FirstOf(Due, ExecutionCap)} :
    /\ ids # <<>>
    /\ \A k \in DOMAIN ids : Claimable(claims[ids[k]].user, claims[ids[k]].pool)
    /\ Close({ids[k] : k \in DOMAIN ids}, "Executed")
    /\ PayBatch([k \in DOMAIN ids |-> claims[ids[k]]])

-----------------------------------------------------------------------------
BatchInit ==
  /\ Init
  /\ claims = <<>>
  /\ claimOf = [p \in Pools |-> [u \in Accounts |-> NoClaim]]

BatchCall ==
  \/ \E u \in Accounts, list \in PoolLists : ClaimAllWinnings(u, list)
  \/ \E caller \in Accounts, some \in SUBSET Pools : \E outcome \in [some -> Outcomes] :
       SettlePools(caller, outcome)
  \/ \E u \in Accounts, p \in Pools, d \in Delays : ScheduleClaim(u, p, now + d)
  \/ \E u \in Accounts, id \in DOMAIN claims : CancelScheduledClaim(u, id)
  \/ ExecuteScheduledClaims

BatchNext == (Next /\ UNCHANGED batchVars) \/ BatchCall

batchSpecVars == <<vars, batchVars>>

(* A keeper keeps executing; nothing else is assumed.                      *)
BatchFairness ==
  /\ WF_batchSpecVars(Tick /\ UNCHANGED batchVars)
  /\ WF_batchSpecVars(ExecuteScheduledClaims)

BatchSpec == BatchInit /\ [][BatchNext]_batchSpecVars /\ BatchFairness

-----------------------------------------------------------------------------
(***************************************************************************)
(* The index of pool and user names the one pending entry of that pair, so *)
(* a keeper's batch never holds the same bet twice.                        *)
(***************************************************************************)
OneClaimPerBet ==
  \A p \in Pools, u \in Accounts :
    {id \in DOMAIN claims : Pending(id) /\ claims[id].pool = p /\ claims[id].user = u}
      = IF claimOf[p][u] = NoClaim THEN {} ELSE {claimOf[p][u]}

(***************************************************************************)
(* A batch pays a bet once, and shares a pool out as single claims do: each*)
(* of its claims sees the payout state the one before it left, although    *)
(* all of them belong to one transaction.                                  *)
(***************************************************************************)
BatchesPayOnce == OneClaimPerBet /\ PayoutsReconcile

(* An entry whose turn has come but whose claim fails: the pool is not     *)
(* settled, or the bet was claimed or refunded by another call.            *)
Waiting(id) == id \in DOMAIN claims /\ Pending(id)
Stuck(id) == /\ Waiting(id) /\ claims[id].at <= now
             /\ ~Claimable(claims[id].user, claims[id].pool)

(***************************************************************************)
(* Repeated execution pays every entry, whatever the cap, unless some due  *)
(* entry is stuck: none is overtaken for ever or left with too little in   *)
(* the pool.  The exception is needed: a stuck entry blocks those behind.  *)
(***************************************************************************)
DueClaimsDrain ==
  \A id \in 1 .. MaxClaims :
    Waiting(id) ~> (~Waiting(id) \/ (\E other \in DOMAIN claims : Stuck(other)) \/ ~AllRegular)

=============================================================================
