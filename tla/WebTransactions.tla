--------------------------- MODULE WebTransactions ---------------------------
(***************************************************************************)
(* A contract call of the web client, from the button that starts it to    *)
(* the toast that ends it: SorobanTransactionService builds the            *)
(* transaction on the account's current sequence number, simulates it,     *)
(* asks for the fee, has the wallet sign it, submits it and polls for its  *)
(* result; predinexContract turns a FAILED result into an error; the       *)
(* component or hook that made the call keeps what the user sees.          *)
(*                                                                         *)
(* The ledger and the wallet are external: the ledger accepts a            *)
(* transaction only with the account's next sequence number and before its *)
(* time bound, and may lose a request or its reply.  Time is counted in    *)
(* poll intervals (one second in the code).                                *)
(***************************************************************************)
EXTENDS Integers, FiniteSets, Sequences

CONSTANTS
  Flows,             \* calls considered, each made at most once
  Surfaces,          \* the components mounted on the page
  Pools,             \* pools on the page
  TimeBound,         \* setTimeout(30): intervals a transaction stays valid, from 1
  MaxAttempts,       \* polls of pollForSuccess (20)
  ClaimAllMaxPools,  \* CLAIM_ALL_MAX_POOLS (20)
  Functions          \* contract functions called

VARIABLES
  flow,      \* flow[f]: the call f from its handler to its answer
  ui,        \* ui[s]: what the component s shows of its calls
  poolClaim, \* claimTransactions of useClaimWinnings, by pool
  claimAll,  \* ClaimAllState of useClaimAll
  account    \* external: sequence number of the user's account

txVars == <<flow, ui, poolClaim, claimAll, account>>

NoFlow == "none"

TxStages == {"idle", "simulating", "signing", "submitting", "polling", "success"}

(***************************************************************************)
(* The calls of the service: the contract function and the pools it names. *)
(* Sender, titles, amounts and the fixed fee of 1000 stroops are           *)
(* abstracted; every call is built on getAccount and bounded by            *)
(* setTimeout(30).                                                         *)
(***************************************************************************)
Call(fn, pools) == [fn |-> fn, pools |-> pools, checked |-> FALSE]
placeBet(p) == Call("place_bet", <<p>>)
createMultiOutcomePool == Call("create_multi_outcome_pool", <<>>)
claimWinnings(p) == Call("claim_winnings", <<p>>)
claimAllWinnings(ps) ==
  Call("claim_all_winnings", SubSeq(ps, 1, IF Len(ps) > 20 THEN 20 ELSE Len(ps)))
settlePool(p) == Call("settle_pool", <<p>>)
freezePool(p) == Call("freeze_pool", <<p>>)
disputePool(p) == Call("dispute_pool", <<p>>)
unfreezePool(p) == Call("unfreeze_pool", <<p>>)
depositLiquidity(p) == Call("deposit_liquidity", <<p>>)
withdrawLiquidity(p) == Call("withdraw_liquidity", <<p>>)
stakeLp(p) == Call("stake_lp", <<p>>)
claimLpRewards(p) == Call("claim_lp_rewards", <<p>>)

\* mutant: the adapter does not look at the status of the result
ThrowsOnNothing(call) == call

(***************************************************************************)
(* predinexContract: the same calls for the page, each of which throws     *)
(* when the service returns a FAILED result.                               *)
(***************************************************************************)
ThrowsOnFailed(call) == [call EXCEPT !.checked = TRUE]
placeBetSoroban(p) == ThrowsOnFailed(placeBet(p))
createMultiOutcomePoolSoroban == ThrowsOnFailed(createMultiOutcomePool)
claimWinningsSoroban(p) == ThrowsOnFailed(claimWinnings(p))
claimAllWinningsSoroban(ps) == ThrowsOnFailed(claimAllWinnings(ps))
settlePoolSoroban(p) == ThrowsOnFailed(settlePool(p))
freezePoolSoroban(p) == ThrowsOnFailed(freezePool(p))
disputePoolSoroban(p) == ThrowsOnFailed(disputePool(p))
unfreezePoolSoroban(p) == ThrowsOnFailed(unfreezePool(p))
depositLiquiditySoroban(p) == ThrowsOnFailed(depositLiquidity(p))
withdrawLiquiditySoroban(p) == ThrowsOnFailed(withdrawLiquidity(p))
stakeLpSoroban(p) == ThrowsOnFailed(stakeLp(p))
claimLpRewardsSoroban(p) == ThrowsOnFailed(claimLpRewards(p))

NoCall == Call("none", <<>>)
FreeFlow == [pc |-> "free", surface |-> "none", call |-> NoCall, seq |-> 0,
             age |-> 0, waited |-> TRUE, tries |-> 0, tx |-> "none",
             paid |-> {}, answer |-> "none"]
QuietUi == [busy |-> FALSE, stage |-> "idle", prompt |-> NoFlow, toasts |-> {}]
NoClaimAll == [status |-> "idle", pools |-> <<>>, claimed |-> {}]

TxInit ==
  /\ flow = [f \in Flows |-> FreeFlow]
  /\ ui = [s \in Surfaces |-> QuietUi]
  /\ poolClaim = [p \in Pools |-> "none"]
  /\ claimAll = NoClaimAll
  /\ account = 0

(***************************************************************************)
(* The toasts of useTransactionToast: one toast follows the call and is    *)
(* turned into its outcome.  The stage "success" already turns it into     *)
(* "confirmed" and lets go of it, so that a failure reported after it      *)
(* appears beside it.                                                      *)
(***************************************************************************)
StageToasts(stage, toasts) ==
  CASE stage = "idle"    -> toasts
    [] stage = "success" -> (toasts \ {"loading"}) \cup {"confirmed"}
    [] OTHER             -> toasts \cup {"loading"}

\* LiquidityProviderDashboard keeps its own error line and shows no toast.
Shown(s, stage) ==
  [ui EXCEPT ![s].stage = stage,
             ![s].toasts = IF s = "lp" THEN @ ELSE StageToasts(stage, @)]

(***************************************************************************)
(* Handlers.  BeginOn is what they share: the call enters the service,     *)
(* which first reads the account.                                          *)
(***************************************************************************)
BeginOn(s, f, call) ==
  /\ s \in Surfaces
  /\ flow[f].pc = "free" /\ call.fn \in Functions
  /\ flow' = [flow EXCEPT ![f] = [FreeFlow EXCEPT !.pc = "account", !.surface = s,
                                                  !.call = call]]
  /\ UNCHANGED account

\* BettingSection, its amount being valid (see WebPoolPage).
PlaceBet(f, p) ==
  /\ BeginOn("bet", f, placeBetSoroban(p))
  /\ ~ui["bet"].busy
  /\ ui' = [ui EXCEPT !["bet"].busy = TRUE]
  /\ UNCHANGED <<poolClaim, claimAll>>

(* ClaimWinningsButton on a pool's page, and the claim list of the dashboard: *)
(* both call useClaimWinnings, whose stage, prompt and toast are one per page.*)
ClaimOnPoolPage(f, p) ==
  /\ BeginOn("claimButton", f, claimWinningsSoroban(p))
  /\ ~ui["claimButton"].busy
  /\ ui' = [ui EXCEPT !["claimButton"].busy = TRUE, !["claimButton"].stage = "idle"]
  /\ poolClaim' = [poolClaim EXCEPT ![p] = "pending"]
  /\ UNCHANGED claimAll

ClaimOnDashboard(f, p) ==
  /\ BeginOn("claims", f, claimWinningsSoroban(p))
  /\ poolClaim[p] # "pending"
  /\ ui' = [ui EXCEPT !["claims"].stage = "idle"]
  /\ poolClaim' = [poolClaim EXCEPT ![p] = "pending"]
  /\ UNCHANGED claimAll

Batch(ps) == SubSeq(ps, 1, IF Len(ps) > ClaimAllMaxPools THEN ClaimAllMaxPools ELSE Len(ps))

ClaimAll(f, ps) ==
  /\ BeginOn("claimAll", f, claimAllWinningsSoroban(Batch(ps)))
  /\ ps # <<>> /\ claimAll.status # "claiming"
  /\ ui' = [ui EXCEPT !["claimAll"].stage = "idle"]
  /\ claimAll' = [status |-> "claiming", pools |-> Batch(ps), claimed |-> {}]
  /\ UNCHANGED poolClaim

\* The Done button of ClaimAllProgressModal.
CloseClaimAll ==
  /\ "claimAll" \in Surfaces
  /\ claimAll.status \in {"success", "partial", "failed"}
  /\ claimAll' = NoClaimAll
  /\ ui' = [ui EXCEPT !["claimAll"].stage = "idle", !["claimAll"].prompt = NoFlow]
  /\ UNCHANGED <<flow, poolClaim, account>>

\* "Manual Settlement" of AutomatedResolutionStatus is never disabled.
Settle(f, p) ==
  /\ BeginOn("settle", f, settlePoolSoroban(p))
  /\ ui' = [ui EXCEPT !["settle"].stage = "idle"]
  /\ UNCHANGED <<poolClaim, claimAll>>

LpBusy == ui["lp"].stage \notin {"idle", "success"}

LpCall(f, p) ==
  /\ \E call \in {depositLiquiditySoroban(p), withdrawLiquiditySoroban(p), stakeLpSoroban(p), claimLpRewardsSoroban(p)} :
        BeginOn("lp", f, call)
  /\ ~LpBusy
  /\ ui' = [ui EXCEPT !["lp"].stage = "idle"]
  /\ UNCHANGED <<poolClaim, claimAll>>

AdminAction(f, p) ==
  /\ \E call \in {freezePoolSoroban(p), disputePoolSoroban(p), unfreezePoolSoroban(p)} :
        BeginOn("disputes", f, call)
  /\ ~ui["disputes"].busy
  /\ ui' = [ui EXCEPT !["disputes"].busy = TRUE, !["disputes"].stage = "idle"]
  /\ UNCHANGED <<poolClaim, claimAll>>

\* The submit button of the create wizard, once its draft is valid.
CreatePool(f) ==
  /\ BeginOn("create", f, createMultiOutcomePoolSoroban)
  /\ ~ui["create"].busy
  /\ ui' = [ui EXCEPT !["create"].busy = TRUE, !["create"].stage = "idle"]
  /\ UNCHANGED <<poolClaim, claimAll>>

(***************************************************************************)
(* The answers.  A hook's `finally' clears the stage and the prompt of its *)
(* component, whichever call they belong to by then.                       *)
(***************************************************************************)
OutcomeToasts(s, a) ==
  IF s = "lp" THEN {}
  ELSE IF a = "success" THEN {"success"}
  ELSE IF a = "cancelled" /\ s \in {"claimButton", "claims", "claimAll", "settle"} THEN {"cancelled"}
  ELSE {"failed"}

\* useClaimAll: an empty list of claimed pools is read as all of them.
ClaimedPools(f) ==
  LET batch == {flow[f].call.pools[i] : i \in DOMAIN flow[f].call.pools}
  IN  IF flow[f].paid = {} THEN batch ELSE flow[f].paid

ClaimAllAnswer(f, a) ==
  LET batch == flow[f].call.pools
  IN  IF a = "success"
      THEN [status |-> IF Cardinality(ClaimedPools(f)) \in 1 .. (Len(batch) - 1)
                       THEN "partial" ELSE "success",
            pools |-> batch, claimed |-> ClaimedPools(f)]
      ELSE [status |-> "failed", pools |-> batch, claimed |-> {}]

Answer(f, a, tx, shown) ==
  LET s == flow[f].surface
      p == flow[f].call.pools[1]
  IN  /\ flow' = [flow EXCEPT ![f].pc = "done", ![f].answer = a, ![f].tx = tx]
      /\ ui' = [ui EXCEPT ![s] = [busy |-> FALSE, stage |-> "idle", prompt |-> NoFlow,
                                  toasts |-> OutcomeToasts(s, a) \cup shown]]
      /\ poolClaim' = IF s \in {"claims", "claimButton"}
                      THEN [poolClaim EXCEPT ![p] = IF a = "success" THEN a ELSE "failed"]
                      ELSE poolClaim
      /\ claimAll' = IF s = "claimAll" THEN ClaimAllAnswer(f, a) ELSE claimAll
      /\ UNCHANGED account

(***************************************************************************)
(* SorobanTransactionService, one action per request it awaits.            *)
(***************************************************************************)
Advance(f, pc, stage) ==
  /\ ui' = Shown(flow[f].surface, stage)
  /\ flow' = [flow EXCEPT ![f].pc = pc]
  /\ UNCHANGED <<poolClaim, claimAll, account>>

\* mutant: a call is numbered after the ones still pending
BuildAhead(f) ==
  /\ flow[f].pc = "account"
  /\ ui' = Shown(flow[f].surface, "simulating")
  /\ flow' = [flow EXCEPT ![f].pc = "simulate", ![f].age = 0,
                          ![f].seq = account + 1 + Cardinality({g \in Flows : flow[g].tx = "pending"})]
  /\ UNCHANGED <<poolClaim, claimAll, account>>

\* getAccount, then TransactionBuilder: the next sequence number and a time bound.
Build(f) ==
  /\ flow[f].pc = "account"
  /\ ui' = Shown(flow[f].surface, "simulating")
  /\ flow' = [flow EXCEPT ![f].pc = "simulate", ![f].seq = account + 1, ![f].age = 0]
  /\ UNCHANGED <<poolClaim, claimAll, account>>

AsksFee(s) == s # "lp"

\* simulateTransaction and assembleTransaction, then onFeeEstimated.
Simulate(f) ==
  /\ flow[f].pc = "simulate"
  /\ IF AsksFee(flow[f].surface)
     THEN /\ ui' = [ui EXCEPT ![flow[f].surface].prompt = f]
          /\ flow' = [flow EXCEPT ![f].pc = "fee"]
          /\ UNCHANGED <<poolClaim, claimAll, account>>
     ELSE Advance(f, "sign", "signing")

\* TransactionFeeModal is mounted beside every caller but ClaimWinningsButton.
Mounted(s) == s # "claimButton"

\* mutant: the buttons are disabled in every stage but idle
ConfirmingAnyStage(s) == ui[s].stage # "idle"

\* isConfirming disables both buttons while another call of the component is
\* signing or later.
Confirming(s) == ui[s].stage \in {"signing", "submitting", "polling"}

ConfirmFee(f) ==
  LET s == flow[f].surface
  IN  /\ flow[f].pc = "fee" /\ ui[s].prompt = f /\ Mounted(s) /\ ~Confirming(s)
      /\ ui' = [Shown(s, "signing") EXCEPT ![s].prompt = NoFlow]
      /\ flow' = [flow EXCEPT ![f].pc = "sign"]
      /\ UNCHANGED <<poolClaim, claimAll, account>>

CancelFee(f) ==
  LET s == flow[f].surface
  IN  /\ flow[f].pc = "fee" /\ ui[s].prompt = f /\ Mounted(s) /\ ~Confirming(s)
      /\ Answer(f, "cancelled", "none", {})

Sign(f) == flow[f].pc = "sign" /\ Advance(f, "send", "submitting")

\* sendTransaction: the network takes the transaction or drops it unsaid
\* (TRY_AGAIN_LATER is not ERROR), and the service polls either way.
Send(f) ==
  /\ flow[f].pc = "send"
  /\ \E tx \in {"pending", "lost"} :
       flow' = [flow EXCEPT ![f].pc = "poll", ![f].tx = tx]
  /\ ui' = Shown(flow[f].surface, "polling")
  /\ UNCHANGED <<poolClaim, claimAll, account>>

\* pollForSuccess: one getTransaction per interval; the stage "success" follows
\* either result, and the adapter then throws on FAILED.
PollResult(f) ==
  /\ flow[f].pc = "poll" /\ flow[f].waited
  /\ flow[f].tx \in {"SUCCESS", "FAILED"}
  /\ IF flow[f].tx = "SUCCESS" \/ ~flow[f].call.checked
     THEN Answer(f, "success", flow[f].tx, {})
     ELSE Answer(f, "failed", "FAILED",
                 IF flow[f].surface = "lp" THEN {} ELSE {"confirmed"})

PollAgain(f) ==
  /\ flow[f].pc = "poll" /\ flow[f].waited
  /\ flow[f].tx \in {"pending", "lost"} /\ flow[f].tries + 1 < MaxAttempts
  /\ flow' = [flow EXCEPT ![f].tries = @ + 1, ![f].waited = FALSE]
  /\ UNCHANGED <<ui, poolClaim, claimAll, account>>

PollGivesUp(f) ==
  /\ flow[f].pc = "poll" /\ flow[f].waited
  /\ flow[f].tx \in {"pending", "lost"} /\ flow[f].tries + 1 >= MaxAttempts
  /\ Answer(f, "failed", flow[f].tx, {})

\* A request throws, or is refused; the reply to sendTransaction may be what is
\* lost, the transaction having been taken.
Throws(f) ==
  \/ /\ flow[f].pc \in {"account", "simulate", "sign", "send", "poll"}
     /\ Answer(f, "failed", flow[f].tx, {})
  \/ /\ flow[f].pc = "send"
     /\ Answer(f, "failed", "pending", {})

(***************************************************************************)
(* External: the ledger, and time.                                         *)
(***************************************************************************)
\* A transaction is included with the account's next sequence number, within
\* its time bound; claim_all_winnings pays any of its pools it can.
Include(f) ==
  /\ flow[f].tx = "pending" /\ flow[f].seq = account + 1 /\ flow[f].age <= TimeBound
  /\ account' = account + 1
  /\ \/ flow' = [flow EXCEPT ![f].tx = "FAILED"]
     \/ \E paid \in SUBSET {flow[f].call.pools[i] : i \in DOMAIN flow[f].call.pools} :
          flow' = [flow EXCEPT ![f].tx = "SUCCESS",
                               ![f].paid = IF flow[f].surface = "claimAll" THEN paid ELSE {}]
  /\ UNCHANGED <<ui, poolClaim, claimAll>>

\* A transaction past its bound, or whose sequence number is used, is dropped.
Drop(f) ==
  /\ flow[f].tx = "pending"
  /\ flow[f].age > TimeBound \/ flow[f].seq <= account
  /\ flow' = [flow EXCEPT ![f].tx = "lost"]
  /\ UNCHANGED <<ui, poolClaim, claimAll, account>>

Live(f) == flow[f].pc \notin {"free", "account"} /\ (flow[f].pc # "done" \/ flow[f].tx = "pending")

Tick ==
  /\ \E f \in Flows : Live(f) /\ (flow[f].age <= TimeBound \/ ~flow[f].waited)
  /\ flow' = [f \in Flows |->
        IF Live(f) THEN [flow[f] EXCEPT !.age = IF @ > TimeBound THEN @ ELSE @ + 1, !.waited = TRUE]
        ELSE flow[f]]
  /\ UNCHANGED <<ui, poolClaim, claimAll, account>>

PoolLists == {<<p>> : p \in Pools} \cup {<<p, q>> : p, q \in Pools}

Starts(f) ==
  \/ \E p \in Pools : \/ PlaceBet(f, p)
                     \/ ClaimOnPoolPage(f, p)
                     \/ ClaimOnDashboard(f, p)
                     \/ Settle(f, p)
                     \/ LpCall(f, p)
                     \/ AdminAction(f, p)
  \/ \E ps \in {s \in PoolLists : Len(s) = 1 \/ s[1] # s[2]} : ClaimAll(f, ps)
  \/ CreatePool(f)

Service(f) ==
  \/ Build(f) \/ Simulate(f) \/ Sign(f) \/ Send(f)
  \/ PollResult(f) \/ PollAgain(f) \/ PollGivesUp(f)

TxNext ==
  \/ CloseClaimAll
  \/ \E f \in Flows : \/ Starts(f) \/ Service(f) \/ Throws(f)
                     \/ ConfirmFee(f) \/ CancelFee(f)
                     \/ Include(f) \/ Drop(f)
  \/ Tick

TxSpec == TxInit /\ [][TxNext]_txVars

(***************************************************************************)
(* Fairness: the awaited requests of the service answer, a mounted fee     *)
(* prompt is answered, intervals pass.  Nothing is assumed of the ledger.  *)
(***************************************************************************)
Proceeds(f) == Service(f) \/ ConfirmFee(f) \/ CancelFee(f)
TxFairSpec == TxSpec /\ (\A f \in Flows : WF_txVars(Proceeds(f))) /\ WF_txVars(Tick)

(***************************************************************************)
(* Properties.                                                             *)
(***************************************************************************)
Executed(f) == flow[f].tx \in {"SUCCESS", "FAILED"}

\* The calls of the account as the ledger and the user see them.  FAILED results, lost
\* replies, exhausted polls and prompts taken away by another call all keep the promise
\* of ContractCalls: no success without execution, no execution after a cancellation.
Promise == INSTANCE ContractCalls WITH
  Calls <- Flows,
  made <- {f \in Flows : flow[f].pc # "free"},
  count <- account,
  ledger <- {[call |-> f, number |-> flow[f].seq, result |-> flow[f].tx] :
               f \in {g \in Flows : Executed(g)}},
  told <- [f \in Flows |-> flow[f].answer]
CallsKeepPromise == Promise!CallSpec

\* Two calls that the ledger could both still take carry one sequence number, so that
\* at most one of them is executed, however late: a retry beside the first attempt is
\* not a second bet.
CanLand(f) == flow[f].tx = "pending" /\ flow[f].seq > account /\ flow[f].age <= TimeBound
OneExecutionPerSequence ==
  \A f, g \in Flows :
    /\ f # g /\ Executed(f) /\ Executed(g) => flow[f].seq # flow[g].seq
    /\ CanLand(f) /\ CanLand(g) => flow[f].seq = flow[g].seq

\* Every call is answered, with two exceptions of the code: another call of the same
\* component has taken or cleared its fee prompt, or the component mounts no modal that
\* could show it (ClaimWinningsButton); such a call waits for good.
PromptLost(f) == flow[f].pc = "fee" /\ ui[flow[f].surface].prompt # f
PromptUnseen(f) == flow[f].pc = "fee" /\ ~Mounted(flow[f].surface)
CallsWaiting ==
  \E f \in Flows : flow[f].pc \notin {"free", "done"} /\ ~PromptLost(f) /\ ~PromptUnseen(f)

\* A prompt is lost to another call of its component only: a call that is alone on its
\* component, whatever the others do, keeps its prompt until the user answers.
PromptsLostToCalls ==
  \A f \in Flows : PromptLost(f) =>
    \E g \in Flows \ {f} : flow[g].surface = flow[f].surface /\ flow[g].pc # "free"
EveryCallAnswered == (CallsWaiting ~> ~CallsWaiting) /\ []PromptsLostToCalls

=============================================================================
