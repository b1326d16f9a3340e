---------------------------- MODULE WebCallProofs ----------------------------
(***************************************************************************)
(* The calls of WebTransactions implement ContractCalls, for any number of *)
(* calls, pools and components on the page, any time bound and any number  *)
(* of polls.                                                               *)
(*                                                                         *)
(* A step of the client maps to a step of the promise or to a stutter: the *)
(* start of a call is Make, an inclusion is Execute, an answer is Tell.    *)
(* That needs of the state before the step only what CallInv says of each  *)
(* call: how far it has come bounds what the ledger may know of it.        *)
(***************************************************************************)
EXTENDS WebClient, SequenceTheorems, TLAPS

(* The fields of a call, whatever they hold.                               *)
Fields == {"pc", "surface", "call", "seq", "age", "waited", "tries", "tx", "paid", "answer"}
IsFlow(r) == r = [field \in Fields |-> r[field]]

CallOK(r) ==
  /\ IsFlow(r)
  /\ r.pc # "free" => r.call.checked
  /\ r.tx # "none" => r.pc \in {"poll", "done"}
  /\ r.pc # "done" => r.answer = "none"
  /\ r.answer = "cancelled" => r.tx = "none"

CallInv ==
  /\ flow = [f \in Flows |-> flow[f]]
  /\ \A f \in Flows : CallOK(flow[f])

(* What the promise and the caches can tell apart of a call.               *)
OnLedger(r) == r.tx \in {"SUCCESS", "FAILED"}
Same(r, q) ==
  /\ r.pc = "free" <=> q.pc = "free"
  /\ OnLedger(r) <=> OnLedger(q)
  /\ OnLedger(r) => r.tx = q.tx /\ r.seq = q.seq
  /\ r.answer = q.answer
  /\ r.surface = q.surface /\ r.call = q.call

(* The step changes the call f, into r, and no other.                      *)
Changes(f, r) ==
  /\ flow' = [g \in Flows |-> flow'[g]]
  /\ flow'[f] = r
  /\ \A g \in Flows \ {f} : flow'[g] = flow[g]

-----------------------------------------------------------------------------
(* The four ways a step looks to the promise.                              *)

LEMMA Stutters ==
  ASSUME UNCHANGED account, \A g \in Flows : Same(flow[g], flow'[g])
  PROVE  UNCHANGED Promise!callVars
<1>1. \A g \in Flows : Executed(g) <=> Executed(g)'
  BY DEF Same, OnLedger, Executed
<1>2. {f \in Flows : flow[f].pc # "free"}' = {f \in Flows : flow[f].pc # "free"}
  BY DEF Same
<1>3. {g \in Flows : Executed(g)}' = {g \in Flows : Executed(g)} BY <1>1
<1>4. \A g \in {h \in Flows : Executed(h)} : flow'[g].seq = flow[g].seq /\ flow'[g].tx = flow[g].tx
  BY DEF Same, OnLedger, Executed
<1>5. {[call |-> f, number |-> flow[f].seq, result |-> flow[f].tx] : f \in {g \in Flows : Executed(g)}}'
        = {[call |-> f, number |-> flow[f].seq, result |-> flow[f].tx] : f \in {g \in Flows : Executed(g)}}
  BY <1>3, <1>4
<1>6. [f \in Flows |-> flow[f].answer]' = [f \in Flows |-> flow[f].answer] BY DEF Same
<1>7. QED BY <1>2, <1>5, <1>6 DEF Promise!callVars

LEMMA Makes ==
  ASSUME UNCHANGED account, NEW f \in Flows, NEW r, Changes(f, r),
         flow[f].pc = "free", r.pc # "free", ~OnLedger(flow[f]), ~OnLedger(r),
         r.answer = flow[f].answer
  PROVE  Promise!Make(f)
<1>1. {g \in Flows : flow[g].pc # "free"}' = {g \in Flows : flow[g].pc # "free"} \cup {f}
  BY DEF Changes
<1>2. {g \in Flows : Executed(g)}' = {g \in Flows : Executed(g)}
  BY DEF Changes, Executed, OnLedger
<1>3. \A g \in {h \in Flows : Executed(h)} : flow'[g] = flow[g]
  BY DEF Changes, Executed, OnLedger
<1>4. {[call |-> g, number |-> flow[g].seq, result |-> flow[g].tx] : g \in {h \in Flows : Executed(h)}}'
        = {[call |-> g, number |-> flow[g].seq, result |-> flow[g].tx] : g \in {h \in Flows : Executed(h)}}
  BY <1>2, <1>3
<1>5. [g \in Flows |-> flow[g].answer]' = [g \in Flows |-> flow[g].answer] BY DEF Changes
<1>6. QED BY <1>1, <1>4, <1>5 DEF Promise!Make

LEMMA Executes ==
  ASSUME account' = account + 1, NEW f \in Flows, NEW r, Changes(f, r),
         flow[f].pc # "free", r.pc = flow[f].pc, ~OnLedger(flow[f]), OnLedger(r),
         r.seq = account + 1, flow[f].answer # "cancelled", r.answer = flow[f].answer
  PROVE  Promise!Execute(f, r.tx)
<1>1. {g \in Flows : flow[g].pc # "free"}' = {g \in Flows : flow[g].pc # "free"}
  BY DEF Changes
<1>2. {g \in Flows : Executed(g)}' = {g \in Flows : Executed(g)} \cup {f}
  BY DEF Changes, Executed, OnLedger
<1>3. \A g \in {h \in Flows : Executed(h)} : flow'[g] = flow[g]
  BY DEF Changes, Executed, OnLedger
<1> DEFINE Ledger == {[call |-> g, number |-> flow[g].seq, result |-> flow[g].tx] :
                        g \in {h \in Flows : Executed(h)}}
<1>4. Ledger' = Ledger \cup {[call |-> f, number |-> account', result |-> r.tx]}
  BY <1>2, <1>3 DEF Changes
<1>5. [g \in Flows |-> flow[g].answer]' = [g \in Flows |-> flow[g].answer] BY DEF Changes
<1>6. f \notin {entry.call : entry \in Ledger} BY DEF Executed, OnLedger
<1>7. QED BY <1>1, <1>4, <1>5, <1>6 DEF Promise!Execute, Promise!ExecutedCalls

LEMMA Tells ==
  ASSUME UNCHANGED account, NEW f \in Flows, NEW r, Changes(f, r),
         flow[f].pc # "free", r.pc # "free", flow[f].answer = "none",
         OnLedger(flow[f]) <=> OnLedger(r),
         OnLedger(r) => r.tx = flow[f].tx /\ r.seq = flow[f].seq,
         r.answer = "success" => r.tx = "SUCCESS",
         r.answer = "cancelled" => ~OnLedger(r)
  PROVE  Promise!Tell(f, r.answer)
<1>1. {g \in Flows : flow[g].pc # "free"}' = {g \in Flows : flow[g].pc # "free"}
  BY DEF Changes
<1>2. {g \in Flows : Executed(g)}' = {g \in Flows : Executed(g)}
  BY DEF Changes, Executed, OnLedger
<1>3. \A g \in {h \in Flows : Executed(h)} : flow'[g].seq = flow[g].seq /\ flow'[g].tx = flow[g].tx
  BY DEF Changes, Executed, OnLedger
<1> DEFINE Ledger == {[call |-> g, number |-> flow[g].seq, result |-> flow[g].tx] :
                        g \in {h \in Flows : Executed(h)}}
<1>4. Ledger' = Ledger BY <1>2, <1>3
<1>5. [g \in Flows |-> flow[g].answer]' = [[g \in Flows |-> flow[g].answer] EXCEPT ![f] = r.answer]
  BY DEF Changes
<1>6. ASSUME r.answer = "success"
      PROVE  \E entry \in Ledger : entry.call = f /\ entry.result = "SUCCESS"
  <2>1. flow[f].tx = "SUCCESS" BY <1>6 DEF OnLedger
  <2>2. [call |-> f, number |-> flow[f].seq, result |-> flow[f].tx] \in Ledger BY <2>1 DEF Executed
  <2>3. QED BY <2>1, <2>2
<1>7. r.answer = "cancelled" => f \notin {entry.call : entry \in Ledger} BY DEF Executed, OnLedger
<1>8. QED BY <1>1, <1>4, <1>5, <1>6, <1>7 DEF Promise!Tell, Promise!ExecutedCalls

-----------------------------------------------------------------------------
(* The steps of one call, each by what it changes of the call.             *)

(* Every handler goes through the adapter, which looks at the result.      *)
LEMMA StartsCall ==
  ASSUME CallInv, NEW f \in Flows, Starts(f)
  PROVE  \E r : /\ Changes(f, r) /\ CallOK(r) /\ UNCHANGED account
                /\ flow[f].pc = "free" /\ r.pc = "account" /\ r.tx = "none" /\ r.answer = "none" /\ r.seq = 0
<1> DEFINE Begun(s, call) == [FreeFlow EXCEPT !.pc = "account", !.surface = s, !.call = call]
<1>1. ASSUME NEW s, NEW call, call.checked, BeginOn(s, f, call)
      PROVE  Changes(f, Begun(s, call)) /\ CallOK(Begun(s, call)) /\ flow[f].pc = "free"
             /\ Begun(s, call).pc = "account" /\ Begun(s, call).tx = "none"
             /\ Begun(s, call).answer = "none" /\ Begun(s, call).seq = 0 /\ UNCHANGED account
  <2>1. Changes(f, Begun(s, call)) BY <1>1 DEF BeginOn, Changes, CallInv
  <2>2. /\ Begun(s, call).pc = "account" /\ Begun(s, call).call = call
        /\ Begun(s, call).tx = "none" /\ Begun(s, call).answer = "none"
        /\ Begun(s, call).seq = 0
    BY DEF FreeFlow
  <2>3. IsFlow(Begun(s, call)) BY DEF IsFlow, Fields, FreeFlow
  <2> HIDE DEF Begun
  <2>4. CallOK(Begun(s, call)) BY <1>1, <2>2, <2>3 DEF CallOK
  <2>5. QED BY <1>1, <2>1, <2>2, <2>4 DEF BeginOn
<1>2. \A fn, ps : ThrowsOnFailed(Call(fn, ps)).checked BY DEF ThrowsOnFailed, Call
<1> DEFINE Checks == \E s, call : call.checked /\ BeginOn(s, f, call)
<1>3. Checks
  <2>1. ASSUME NEW p \in Pools, PlaceBet(f, p) PROVE Checks
    BY <1>2, <2>1 DEF PlaceBet, placeBetSoroban, placeBet
  <2>2. ASSUME NEW p \in Pools, ClaimOnPoolPage(f, p) \/ ClaimOnDashboard(f, p) PROVE Checks
    BY <1>2, <2>2 DEF ClaimOnPoolPage, ClaimOnDashboard, claimWinningsSoroban, claimWinnings
  <2>3. ASSUME NEW p \in Pools, Settle(f, p) PROVE Checks
    BY <1>2, <2>3 DEF Settle, settlePoolSoroban, settlePool
  <2>4. ASSUME NEW p \in Pools, LpCall(f, p) PROVE Checks
    BY <1>2, <2>4 DEF LpCall, depositLiquiditySoroban, withdrawLiquiditySoroban, stakeLpSoroban,
                      claimLpRewardsSoroban, depositLiquidity, withdrawLiquidity, stakeLp, claimLpRewards
  <2>5. ASSUME NEW p \in Pools, AdminAction(f, p) PROVE Checks
    BY <1>2, <2>5 DEF AdminAction, freezePoolSoroban, disputePoolSoroban, unfreezePoolSoroban,
                      freezePool, disputePool, unfreezePool
  <2>6. ASSUME NEW ps, ClaimAll(f, ps) PROVE Checks
    BY <1>2, <2>6 DEF ClaimAll, claimAllWinningsSoroban, claimAllWinnings
  <2>7. ASSUME CreatePool(f) PROVE Checks
    BY <1>2, <2>7 DEF CreatePool, createMultiOutcomePoolSoroban, createMultiOutcomePool
  <2>8. QED BY <2>1, <2>2, <2>3, <2>4, <2>5, <2>6, <2>7 DEF Starts
<1>4. PICK s, call : call.checked /\ BeginOn(s, f, call) BY <1>3
<1>5. QED BY <1>1, <1>4

(* Between its start and its answer a call moves unseen.                   *)
MovesUnseen(f) ==
  /\ UNCHANGED account
  /\ \E r : /\ Changes(f, r) /\ CallOK(r) /\ Same(flow[f], r)
           /\ r.seq \in {flow[f].seq, account + 1}

LEMMA Advances ==
  ASSUME CallInv, NEW f \in Flows, NEW pc \in {"fee", "sign", "send"}, NEW stage,
         flow[f].pc \in {"simulate", "fee", "sign"},
         \/ Advance(f, pc, stage)
         \/ UNCHANGED account /\ flow' = [flow EXCEPT ![f].pc = pc]
  PROVE  MovesUnseen(f)
<1> DEFINE r == [flow[f] EXCEPT !.pc = pc]
<1>1. CallOK(flow[f]) BY DEF CallInv
<1>2. UNCHANGED account /\ flow' = [flow EXCEPT ![f].pc = pc] BY DEF Advance
<1>3. Changes(f, r) BY <1>2 DEF Changes, CallInv
<1>4. CallOK(r) /\ Same(flow[f], r) BY <1>1 DEF CallOK, IsFlow, Fields, Same, OnLedger
<1>5. r.seq = flow[f].seq BY <1>1 DEF CallOK, IsFlow, Fields
<1> HIDE DEF r
<1>6. QED BY <1>2, <1>3, <1>4, <1>5 DEF MovesUnseen

LEMMA ServiceMoves ==
  ASSUME CallInv, NEW f \in Flows,
         \/ Build(f) \/ Simulate(f) \/ ConfirmFee(f) \/ Sign(f) \/ Send(f) \/ PollAgain(f)
         \/ Drop(f)
  PROVE  MovesUnseen(f)
<1>0. CallOK(flow[f]) BY DEF CallInv
<1>1. CASE Build(f)
  <2> DEFINE r == [flow[f] EXCEPT !.pc = "simulate", !.seq = account + 1, !.age = 0]
  <2>1. Changes(f, r) BY <1>1 DEF Build, Changes, CallInv
  <2>2. CallOK(r) /\ Same(flow[f], r)
    <3>1. IsFlow(r) BY <1>0 DEF CallOK, IsFlow, Fields
    <3>2. /\ r.pc = "simulate" /\ r.call = flow[f].call /\ r.surface = flow[f].surface
          /\ r.tx = flow[f].tx /\ r.answer = flow[f].answer
      BY <1>0 DEF CallOK, IsFlow, Fields
    <3> HIDE DEF r
    <3>3. QED BY <1>0, <1>1, <3>1, <3>2 DEF Build, CallOK, Same, OnLedger
  <2>3. r.seq = account + 1 BY <1>0 DEF CallOK, IsFlow, Fields
  <2> HIDE DEF r
  <2>4. QED BY <1>1, <2>1, <2>2, <2>3 DEF Build, MovesUnseen
<1>2. CASE Simulate(f) BY <1>2, Advances DEF Simulate
<1>3. CASE ConfirmFee(f) BY <1>3, Advances DEF ConfirmFee
<1>4. CASE Sign(f) BY <1>4, Advances DEF Sign
<1>5. CASE Send(f)
  <2>1. PICK tx \in {"pending", "lost"} : flow' = [flow EXCEPT ![f].pc = "poll", ![f].tx = tx]
    BY <1>5 DEF Send
  <2> DEFINE r == [flow[f] EXCEPT !.pc = "poll", !.tx = tx]
  <2>2. Changes(f, r) BY <2>1 DEF Changes, CallInv
  <2>3. CallOK(r) /\ Same(flow[f], r)
    <3>1. IsFlow(r) BY <1>0 DEF CallOK, IsFlow, Fields
    <3>2. /\ r.pc = "poll" /\ r.call = flow[f].call /\ r.surface = flow[f].surface
          /\ r.seq = flow[f].seq
          /\ r.tx = tx /\ r.answer = flow[f].answer
      BY <1>0 DEF CallOK, IsFlow, Fields
    <3> HIDE DEF r
    <3>3. QED BY <1>0, <1>5, <3>1, <3>2 DEF Send, CallOK, Same, OnLedger
  <2>4. r.seq = flow[f].seq BY <1>0 DEF CallOK, IsFlow, Fields
  <2> HIDE DEF r
  <2>5. QED BY <1>5, <2>2, <2>3, <2>4 DEF Send, MovesUnseen
<1>6. CASE PollAgain(f)
  <2> DEFINE r == [flow[f] EXCEPT !.tries = @ + 1, !.waited = FALSE]
  <2>1. Changes(f, r) BY <1>6 DEF PollAgain, Changes, CallInv
  <2>2. CallOK(r) /\ Same(flow[f], r)
    <3>1. IsFlow(r) BY <1>0 DEF CallOK, IsFlow, Fields
    <3>2. /\ r.pc = flow[f].pc /\ r.call = flow[f].call /\ r.surface = flow[f].surface
          /\ r.seq = flow[f].seq
          /\ r.tx = flow[f].tx /\ r.answer = flow[f].answer
      BY <1>0 DEF CallOK, IsFlow, Fields
    <3> HIDE DEF r
    <3>3. QED BY <1>0, <1>6, <3>1, <3>2 DEF PollAgain, CallOK, Same, OnLedger
  <2>3. r.seq = flow[f].seq BY <1>0 DEF CallOK, IsFlow, Fields
  <2> HIDE DEF r
  <2>4. QED BY <1>6, <2>1, <2>2, <2>3 DEF PollAgain, MovesUnseen
<1>7. CASE Drop(f)
  <2> DEFINE r == [flow[f] EXCEPT !.tx = "lost"]
  <2>1. Changes(f, r) BY <1>7 DEF Drop, Changes, CallInv
  <2>2. CallOK(r) /\ Same(flow[f], r) BY <1>0, <1>7 DEF Drop, CallOK, IsFlow, Fields, Same, OnLedger
  <2>3. r.seq = flow[f].seq BY <1>0 DEF CallOK, IsFlow, Fields
  <2> HIDE DEF r
  <2>4. QED BY <1>7, <2>1, <2>2, <2>3 DEF Drop, MovesUnseen
<1>8. QED BY <1>1, <1>2, <1>3, <1>4, <1>5, <1>6, <1>7

(* An answer, which no later one follows.                                  *)
IsTold(f) ==
  /\ UNCHANGED account
  /\ \E r : /\ Changes(f, r) /\ CallOK(r)
            /\ flow[f].answer = "none" /\ flow[f].pc # "free" /\ r.pc # "free"
            /\ r.answer \in {"success", "failed", "cancelled"}
            /\ OnLedger(flow[f]) <=> OnLedger(r)
            /\ OnLedger(r) => r.tx = flow[f].tx
            /\ r.seq = flow[f].seq /\ r.surface = flow[f].surface /\ r.call = flow[f].call
            /\ r.answer = "success" => r.tx = "SUCCESS"
            /\ r.answer = "cancelled" => ~OnLedger(r)

LEMMA AnswersOnce ==
  ASSUME CallInv, NEW f \in Flows, NEW a \in {"success", "failed", "cancelled"}, NEW tx, NEW shown,
         Answer(f, a, tx, shown), flow[f].pc \notin {"free", "done"},
         tx = flow[f].tx \/ (tx = "pending" /\ ~OnLedger(flow[f])),
         a = "success" => tx = "SUCCESS", a = "cancelled" => tx = "none"
  PROVE  IsTold(f)
<1> DEFINE r == [flow[f] EXCEPT !.pc = "done", !.answer = a, !.tx = tx]
<1>0. CallOK(flow[f]) BY DEF CallInv
<1>1. UNCHANGED account /\ flow' = [flow EXCEPT ![f].pc = "done", ![f].answer = a, ![f].tx = tx]
  BY DEF Answer
<1>2. Changes(f, r) BY <1>1 DEF Changes, CallInv
<1>3. /\ r.pc = "done" /\ r.answer = a /\ r.tx = tx /\ r.seq = flow[f].seq
      /\ r.call = flow[f].call /\ r.surface = flow[f].surface
  BY <1>0 DEF CallOK, IsFlow, Fields
<1>4. CallOK(r)
  <2>1. IsFlow(r) BY <1>0 DEF CallOK, IsFlow, Fields
  <2> HIDE DEF r
  <2>2. QED BY <1>0, <1>3, <2>1 DEF CallOK
<1>5. flow[f].answer = "none" BY <1>0 DEF CallOK
<1>6. /\ OnLedger(flow[f]) <=> OnLedger(r)
      /\ OnLedger(r) => r.tx = flow[f].tx
  BY <1>3 DEF OnLedger
<1>7. a = "cancelled" => ~OnLedger(r) BY <1>3 DEF OnLedger
<1> HIDE DEF r
<1>8. QED BY <1>1, <1>2, <1>3, <1>4, <1>5, <1>6, <1>7 DEF IsTold

LEMMA AnswersKeep ==
  ASSUME CallInv, NEW f \in Flows,
         PollResult(f) \/ PollGivesUp(f) \/ Throws(f) \/ CancelFee(f)
  PROVE  IsTold(f)
<1>0. CallOK(flow[f]) BY DEF CallInv
<1>1. CASE PollResult(f)
  <2>1. flow[f].call.checked BY <1>0, <1>1 DEF PollResult, CallOK
  <2>2. CASE flow[f].tx = "SUCCESS" BY <1>1, <2>2, AnswersOnce DEF PollResult
  <2>3. CASE flow[f].tx = "FAILED" BY <1>1, <2>1, <2>3, AnswersOnce DEF PollResult
  <2>4. QED BY <1>1, <2>2, <2>3 DEF PollResult
<1>2. CASE PollGivesUp(f) BY <1>2, AnswersOnce DEF PollGivesUp
<1>3. CASE Throws(f)
  <2>1. flow[f].pc = "send" => ~OnLedger(flow[f]) BY <1>0 DEF CallOK, OnLedger
  <2>2. QED BY <1>3, <2>1, AnswersOnce DEF Throws
<1>4. CASE CancelFee(f)
  <2>1. flow[f].pc = "fee" /\ flow[f].tx = "none" BY <1>0, <1>4 DEF CancelFee, CallOK
  <2>2. QED BY <1>4, <2>1, AnswersOnce DEF CancelFee
<1>5. QED BY <1>1, <1>2, <1>3, <1>4

(* An inclusion is of a pending call, which nobody has cancelled.          *)
LEMMA IncludesCall ==
  ASSUME CallInv, NEW f \in Flows, Include(f)
  PROVE  \E r : /\ Changes(f, r) /\ CallOK(r) /\ account' = account + 1
                /\ flow[f].pc # "free" /\ r.pc = flow[f].pc /\ ~OnLedger(flow[f]) /\ OnLedger(r)
                /\ r.seq = account + 1 /\ flow[f].answer # "cancelled" /\ r.answer = flow[f].answer
                /\ r.surface = flow[f].surface /\ r.call = flow[f].call
<1>0. CallOK(flow[f]) /\ flow[f].tx = "pending" /\ flow[f].seq = account + 1 /\ account' = account + 1
  BY DEF CallInv, Include
<1> DEFINE Included(tx, paid) ==
             flow' = [flow EXCEPT ![f] = [flow[f] EXCEPT !.tx = tx, !.paid = paid]]
<1>1. \E tx \in {"SUCCESS", "FAILED"} : \E paid : Included(tx, paid)
  <2>1. CASE flow' = [flow EXCEPT ![f].tx = "FAILED"]
    <3>1. [flow[f] EXCEPT !.tx = "FAILED", !.paid = flow[f].paid] = [flow[f] EXCEPT !.tx = "FAILED"]
      BY <1>0 DEF CallOK, IsFlow, Fields
    <3>2. QED BY <2>1, <3>1
  <2>2. ASSUME NEW paid, flow' = [flow EXCEPT ![f].tx = "SUCCESS", ![f].paid = paid]
        PROVE  flow' = [flow EXCEPT ![f] = [flow[f] EXCEPT !.tx = "SUCCESS", !.paid = paid]]
    BY <2>2
  <2>3. QED BY <2>1, <2>2 DEF Include
<1>2. PICK tx \in {"SUCCESS", "FAILED"} : \E paid : Included(tx, paid) BY <1>1
<1>3. PICK paid : Included(tx, paid) BY <1>2
<1> DEFINE q == [flow[f] EXCEPT !.tx = tx, !.paid = paid]
<1>4. Changes(f, q) BY <1>3 DEF Changes, CallInv
<1>5. /\ q.pc = flow[f].pc /\ q.tx = tx /\ q.seq = account + 1 /\ q.answer = flow[f].answer
      /\ q.call = flow[f].call /\ q.surface = flow[f].surface
  BY <1>0 DEF CallOK, IsFlow, Fields
<1>6. CallOK(q)
  <2>1. IsFlow(q) BY <1>0 DEF CallOK, IsFlow, Fields
  <2> HIDE DEF q
  <2>2. QED BY <1>0, <1>5, <2>1 DEF CallOK
<1>7. flow[f].pc # "free" /\ flow[f].answer # "cancelled" BY <1>0 DEF CallOK
<1> HIDE DEF q
<1>8. QED BY <1>0, <1>2, <1>4, <1>5, <1>6, <1>7 DEF OnLedger

(* Time passes for every call, and shows in none.                          *)
LEMMA TickMoves ==
  ASSUME CallInv, Tick
  PROVE  /\ UNCHANGED account /\ CallInv'
         /\ \A f \in Flows : Same(flow[f], flow'[f]) /\ flow'[f].seq = flow[f].seq
<1>1. UNCHANGED account /\ flow' = [f \in Flows |-> flow'[f]] BY DEF Tick
<1>2. ASSUME NEW f \in Flows
      PROVE  CallOK(flow'[f]) /\ Same(flow[f], flow'[f]) /\ flow'[f].seq = flow[f].seq
  <2>0. CallOK(flow[f]) BY <1>2 DEF CallInv
  <2>1. CASE flow'[f] = flow[f] BY <2>0, <2>1 DEF Same
  <2>2. CASE ~(flow'[f] = flow[f])
    <3>1. PICK age : flow'[f] = [flow[f] EXCEPT !.age = age, !.waited = TRUE]
      BY <1>2, <2>2 DEF Tick
    <3> DEFINE r == [flow[f] EXCEPT !.age = age, !.waited = TRUE]
    <3>2. /\ r.pc = flow[f].pc /\ r.call = flow[f].call /\ r.surface = flow[f].surface
          /\ r.seq = flow[f].seq
          /\ r.tx = flow[f].tx /\ r.answer = flow[f].answer
      BY <2>0 DEF CallOK, IsFlow, Fields
    <3>3. IsFlow(r) BY <2>0 DEF CallOK, IsFlow, Fields
    <3> HIDE DEF r
    <3>4. CallOK(r) /\ Same(flow[f], r) BY <2>0, <3>2, <3>3 DEF CallOK, Same, OnLedger
    <3>5. flow'[f] = r BY <3>1 DEF r
    <3>6. QED BY <3>2, <3>4, <3>5
  <2>3. QED BY <2>1, <2>2
<1>3. QED BY <1>1, <1>2 DEF CallInv

-----------------------------------------------------------------------------
(* The whole step.                                                         *)

LEMMA OthersSame ==
  ASSUME CallInv, NEW f \in Flows, NEW r, Changes(f, r), CallOK(r)
  PROVE  CallInv'
BY DEF CallInv, Changes

LEMMA StepMaps ==
  ASSUME CallInv, [TxNext]_txVars
  PROVE  CallInv' /\ [Promise!CallNext]_(Promise!callVars)
<1> DEFINE Kept == CallInv' /\ [Promise!CallNext]_(Promise!callVars)
<1>1. ASSUME UNCHANGED <<flow, account>> PROVE Kept
  <2>1. \A g \in Flows : Same(flow[g], flow'[g]) BY <1>1 DEF Same
  <2>2. CallInv' BY <1>1 DEF CallInv
  <2>3. QED BY <1>1, <2>1, <2>2, Stutters
<1>2. ASSUME NEW f \in Flows, MovesUnseen(f) PROVE Kept
  <2>1. PICK r : /\ Changes(f, r) /\ CallOK(r) /\ Same(flow[f], r) /\ UNCHANGED account
                 /\ r.seq \in {flow[f].seq, account + 1}
    BY <1>2 DEF MovesUnseen
  <2>2. \A g \in Flows : Same(flow[g], flow'[g]) BY <2>1 DEF Changes, Same
  <2>3. QED BY <2>1, <2>2, Stutters, OthersSame
<1>3. ASSUME NEW f \in Flows, IsTold(f) PROVE Kept
  <2>1. PICK r : /\ Changes(f, r) /\ CallOK(r) /\ UNCHANGED account
                 /\ flow[f].answer = "none" /\ flow[f].pc # "free" /\ r.pc # "free"
                 /\ r.answer \in {"success", "failed", "cancelled"}
                 /\ OnLedger(flow[f]) <=> OnLedger(r)
                 /\ OnLedger(r) => r.tx = flow[f].tx
                 /\ r.seq = flow[f].seq
                 /\ r.answer = "success" => r.tx = "SUCCESS"
                 /\ r.answer = "cancelled" => ~OnLedger(r)
    BY <1>3 DEF IsTold
  <2>2. Promise!Tell(f, r.answer) BY <2>1, Tells
  <2>3. Promise!CallNext BY <2>1, <2>2 DEF Promise!CallNext, Promise!Answers
  <2>4. QED BY <2>1, <2>3, OthersSame
<1>4. ASSUME NEW f \in Flows, Starts(f) PROVE Kept
  <2>1. PICK r : /\ Changes(f, r) /\ CallOK(r) /\ UNCHANGED account
                 /\ flow[f].pc = "free" /\ r.pc = "account" /\ r.tx = "none" /\ r.answer = "none" /\ r.seq = 0
    BY <1>4, StartsCall
  <2>2. flow[f].tx = "none" /\ flow[f].answer = "none" BY <2>1 DEF CallInv, CallOK
  <2>3. Promise!Make(f) BY <2>1, <2>2, Makes DEF OnLedger
  <2>4. Promise!CallNext BY <2>3 DEF Promise!CallNext
  <2>5. QED BY <2>1, <2>4, OthersSame
<1>5. ASSUME NEW f \in Flows, Include(f) PROVE Kept
  <2>1. PICK r : /\ Changes(f, r) /\ CallOK(r) /\ account' = account + 1
                 /\ flow[f].pc # "free" /\ r.pc = flow[f].pc /\ ~OnLedger(flow[f]) /\ OnLedger(r)
                 /\ r.seq = account + 1 /\ flow[f].answer # "cancelled" /\ r.answer = flow[f].answer
    BY <1>5, IncludesCall
  <2>2. Promise!Execute(f, r.tx) BY <2>1, Executes
  <2>3. Promise!CallNext BY <2>1, <2>2 DEF Promise!CallNext, Promise!Results, OnLedger
  <2>4. QED BY <2>1, <2>3, OthersSame
<1>6. ASSUME Tick PROVE Kept BY <1>6, TickMoves, Stutters
<1>7. CASE UNCHANGED txVars BY <1>1, <1>7 DEF txVars
<1>8. CASE CloseClaimAll BY <1>1, <1>8 DEF CloseClaimAll
<1>9. ASSUME NEW f \in Flows, Service(f) \/ Throws(f) \/ ConfirmFee(f) \/ CancelFee(f) \/ Drop(f)
      PROVE  Kept
  <2>1. MovesUnseen(f) \/ IsTold(f) BY <1>9, ServiceMoves, AnswersKeep DEF Service
  <2>2. QED BY <1>2, <1>3, <2>1
<1>10. QED BY <1>4, <1>5, <1>6, <1>7, <1>8, <1>9 DEF TxNext

LEMMA CallsStart == TxInit => CallInv
<1> SUFFICES ASSUME TxInit PROVE CallInv OBVIOUS
<1>1. flow = [f \in Flows |-> FreeFlow] BY DEF TxInit
<1>2. /\ FreeFlow.pc = "free" /\ FreeFlow.tx = "none" /\ FreeFlow.answer = "none"
      /\ IsFlow(FreeFlow)
  BY DEF FreeFlow, IsFlow, Fields
<1>3. QED BY <1>1, <1>2 DEF CallInv, CallOK

(***************************************************************************)
(* Whatever polls, lost replies, FAILED results, cancelled prompts and     *)
(* other calls of the page come before, a call is told to have succeeded   *)
(* only once the ledger has executed it, and one told to be cancelled is   *)
(* never executed.                                                         *)
(***************************************************************************)
THEOREM CallsImplementPromise == TxSpec => CallsKeepPromise
<1>1. TxInit => CallInv /\ Promise!CallInit
  <2> SUFFICES ASSUME TxInit PROVE CallInv /\ Promise!CallInit OBVIOUS
  <2>1. flow = [f \in Flows |-> FreeFlow] /\ account = 0 BY DEF TxInit
  <2>2. FreeFlow.pc = "free" /\ FreeFlow.tx = "none" /\ FreeFlow.answer = "none"
    BY DEF FreeFlow
  <2>3. CallInv BY CallsStart
  <2>4. {f \in Flows : flow[f].pc # "free"} = {} BY <2>1, <2>2
  <2>5. {g \in Flows : Executed(g)} = {} BY <2>1, <2>2 DEF Executed
  <2>6. [f \in Flows |-> flow[f].answer] = [f \in Flows |-> "none"] BY <2>1, <2>2
  <2>7. QED BY <2>1, <2>3, <2>4, <2>5, <2>6 DEF Promise!CallInit
<1>2. CallInv /\ [TxNext]_txVars => CallInv' /\ [Promise!CallNext]_(Promise!callVars) BY StepMaps
<1>3. QED BY <1>1, <1>2, PTL DEF TxSpec, CallsKeepPromise, Promise!CallSpec

-----------------------------------------------------------------------------
(* Sequence numbers: a call is numbered at most one ahead of the account,  *)
(* and the executed ones are numbered apart.                               *)

SeqInv ==
  /\ account \in Nat
  /\ \A f \in Flows : /\ flow[f].seq \in Nat /\ flow[f].seq <= account + 1
                      /\ OnLedger(flow[f]) => flow[f].seq <= account
  /\ \A f, g \in Flows :
       f # g /\ OnLedger(flow[f]) /\ OnLedger(flow[g]) => flow[f].seq # flow[g].seq

(* A step that executes nothing may only renumber a call to the next number.*)
LEMMA NumbersKept ==
  ASSUME SeqInv, UNCHANGED account, NEW f \in Flows, NEW r, Changes(f, r),
         r.seq \in {0, flow[f].seq, account + 1},
         OnLedger(r) => OnLedger(flow[f]) /\ r.seq = flow[f].seq
  PROVE  SeqInv'
<1>1. account' \in Nat BY DEF SeqInv
<1>2. ASSUME NEW g \in Flows
      PROVE  /\ flow'[g].seq \in Nat /\ flow'[g].seq <= account' + 1
             /\ OnLedger(flow'[g]) => OnLedger(flow[g]) /\ flow'[g].seq = flow[g].seq
  BY <1>2 DEF SeqInv, Changes
<1>3. QED BY <1>1, <1>2 DEF SeqInv

LEMMA NumbersMove ==
  ASSUME CallInv, SeqInv, [TxNext]_txVars
  PROVE  SeqInv'
<1>1. ASSUME UNCHANGED account,
             \A f \in Flows : Same(flow[f], flow'[f]) /\ flow'[f].seq = flow[f].seq
      PROVE  SeqInv'
  BY <1>1 DEF SeqInv, Same
<1>2. ASSUME NEW f \in Flows, MovesUnseen(f) PROVE SeqInv'
  BY <1>2, NumbersKept DEF MovesUnseen, Same
<1>3. ASSUME NEW f \in Flows, IsTold(f) PROVE SeqInv'
  BY <1>3, NumbersKept DEF IsTold
<1>4. ASSUME NEW f \in Flows, Starts(f) PROVE SeqInv'
  BY <1>4, StartsCall, NumbersKept DEF OnLedger
<1>5. ASSUME NEW f \in Flows, Include(f) PROVE SeqInv'
  <2>1. PICK r : /\ Changes(f, r) /\ account' = account + 1 /\ r.seq = account + 1
    BY <1>5, IncludesCall
  <2>2. account' \in Nat BY <2>1 DEF SeqInv
  <2>3. \A g \in Flows \ {f} : flow'[g] = flow[g] BY <2>1 DEF Changes
  <2>4. flow'[f].seq = account + 1 BY <2>1 DEF Changes
  <2>5. \A g \in Flows \ {f} : OnLedger(flow'[g]) => flow'[g].seq # flow'[f].seq
    BY <2>3, <2>4 DEF SeqInv
  <2>6. \A g \in Flows : /\ flow'[g].seq \in Nat /\ flow'[g].seq <= account' + 1
                         /\ OnLedger(flow'[g]) => flow'[g].seq <= account'
    BY <2>1, <2>3, <2>4 DEF SeqInv
  <2>7. \A g, h \in Flows :
          g # h /\ OnLedger(flow'[g]) /\ OnLedger(flow'[h]) => flow'[g].seq # flow'[h].seq
    BY <2>3, <2>5 DEF SeqInv
  <2>8. QED BY <2>2, <2>6, <2>7 DEF SeqInv
<1>6. CASE Tick BY <1>1, <1>6, TickMoves
<1>7. CASE UNCHANGED txVars BY <1>1, <1>7 DEF txVars, Same
<1>8. CASE CloseClaimAll BY <1>1, <1>8 DEF CloseClaimAll, Same
<1>9. ASSUME NEW f \in Flows, Service(f) \/ Throws(f) \/ ConfirmFee(f) \/ CancelFee(f) \/ Drop(f)
      PROVE  SeqInv'
  <2>1. MovesUnseen(f) \/ IsTold(f) BY <1>9, ServiceMoves, AnswersKeep DEF Service
  <2>2. QED BY <1>2, <1>3, <2>1
<1>10. QED BY <1>4, <1>5, <1>6, <1>7, <1>8, <1>9 DEF TxNext

(***************************************************************************)
(* However late the transactions of a page land, and whichever of its      *)
(* calls were given up or retried, no two of them are executed with one    *)
(* sequence number, and of those that can still land only one will.        *)
(***************************************************************************)
THEOREM NoCallExecutedTwice == TxSpec => []OneExecutionPerSequence
<1>1. TxInit => CallInv /\ SeqInv
  <2> SUFFICES ASSUME TxInit PROVE CallInv /\ SeqInv OBVIOUS
  <2>1. CallInv BY CallsStart
  <2>2. flow = [f \in Flows |-> FreeFlow] /\ account = 0 BY DEF TxInit
  <2>3. FreeFlow.seq = 0 /\ FreeFlow.tx = "none" BY DEF FreeFlow
  <2>4. SeqInv BY <2>2, <2>3 DEF SeqInv, OnLedger
  <2>5. QED BY <2>1, <2>4
<1>2. CallInv /\ SeqInv /\ [TxNext]_txVars => CallInv' /\ SeqInv' BY StepMaps, NumbersMove
<1>3. SeqInv => OneExecutionPerSequence
  <2>1. ASSUME SeqInv, NEW f \in Flows, CanLand(f) PROVE flow[f].seq = account + 1
    BY <2>1 DEF SeqInv, CanLand
  <2>2. QED BY <2>1 DEF SeqInv, OneExecutionPerSequence, Executed, OnLedger
<1>4. QED BY <1>1, <1>2, <1>3, PTL DEF TxSpec

-----------------------------------------------------------------------------
(***************************************************************************)
(* The caches beside the calls.  A handler that learns of a success drops  *)
(* the entries its mutation touches and marks the reads in flight that     *)
(* would write them, so that whatever fills one of them later has seen the *)
(* chain with the mutation on it.                                          *)
(***************************************************************************)

ToldInv == \A f \in Flows : flow[f].answer = "success" => flow[f].tx = "SUCCESS"

(* Which pools a call names: some, unless it creates one.                  *)
NamedPools(r) == {r.call.pools[i] : i \in DOMAIN r.call.pools}
NamesPools(r) ==
  /\ NamedPools(r) \subseteq Pools
  /\ r.surface \in Invalidating \ {"create"} => NamedPools(r) # {}
NamesInv == \A f \in Flows : flow[f].pc # "free" => NamesPools(flow[f])

(* What a read in flight will store, or an entry holds, saw the call r.    *)
Saw(e, r) == ~e.raced => e.seen >= r.seq
CacheInv ==
  /\ store \in [C!Keys -> [held : BOOLEAN, seen : Nat, raced : BOOLEAN]]
  /\ reads \in [C!Keys -> [on : BOOLEAN, seen : Nat, raced : BOOLEAN]]
  /\ \A f \in Flows : flow[f].answer = "success" /\ flow[f].surface \in Invalidating =>
       \A k \in Touched(f) :
         /\ store[k].held => Saw(store[k], flow[f])
         /\ \A j \in C!Keys : k \in C!Stored(j) /\ reads[j].on => Saw(reads[j], flow[f])

ClientInv == CallInv /\ SeqInv /\ ToldInv /\ NamesInv /\ CacheInv

(* What a step of the calls does to those already told to have succeeded.  *)
KeepsTold ==
  /\ \A f \in Flows : flow[f].pc # "free" =>
       flow'[f].pc # "free" /\ flow'[f].surface = flow[f].surface /\ flow'[f].call = flow[f].call
  /\ \A f \in Flows : flow[f].answer = "success" =>
       flow'[f].answer = "success" /\ flow'[f].seq = flow[f].seq
  /\ \A f, g \in Flows : Succeeds(f) /\ Succeeds(g) => f = g
  /\ \A f \in Flows : Succeeds(f) => flow[f].pc # "free"

LEMMA TellsOne ==
  ASSUME CallInv, ToldInv, [TxNext]_txVars
  PROVE  KeepsTold /\ ToldInv'
<1> DEFINE Kept == KeepsTold /\ ToldInv'
<1>0. ASSUME \A f \in Flows : Same(flow[f], flow'[f]) PROVE Kept
  BY <1>0 DEF Same, ToldInv, KeepsTold, Succeeds, OnLedger
<1>1. ASSUME UNCHANGED flow PROVE Kept BY <1>0, <1>1 DEF Same
<1>2. ASSUME NEW f \in Flows, MovesUnseen(f) PROVE Kept
  BY <1>0, <1>2 DEF MovesUnseen, Changes, Same
<1>3. ASSUME NEW f \in Flows, NEW r, Changes(f, r), CallOK(r),
             flow[f].pc # "free" => /\ r.pc # "free"
                                    /\ r.surface = flow[f].surface /\ r.call = flow[f].call,
             flow[f].answer = "success" => r.answer = "success" /\ r.seq = flow[f].seq,
             r.answer = "success" => r.tx = "SUCCESS" /\ flow[f].pc # "free"
      PROVE  Kept
  BY <1>3 DEF Changes, ToldInv, KeepsTold, Succeeds
<1>4. ASSUME NEW f \in Flows, IsTold(f) PROVE Kept BY <1>3, <1>4 DEF IsTold
<1>5. ASSUME NEW f \in Flows, Starts(f) PROVE Kept
  <2>1. flow[f].answer # "success" BY <1>5, StartsCall DEF CallInv, CallOK
  <2>2. QED BY <1>3, <1>5, <2>1, StartsCall
<1>6. ASSUME NEW f \in Flows, Include(f) PROVE Kept
  <2>1. flow[f].answer # "success" BY <1>6 DEF Include, ToldInv
  <2>2. QED BY <1>3, <1>6, <2>1, IncludesCall
<1>7. CASE Tick BY <1>0, <1>7, TickMoves
<1>8. CASE UNCHANGED txVars BY <1>1, <1>8 DEF txVars
<1>9. CASE CloseClaimAll BY <1>1, <1>9 DEF CloseClaimAll
<1>10. ASSUME NEW f \in Flows, Service(f) \/ Throws(f) \/ ConfirmFee(f) \/ CancelFee(f) \/ Drop(f)
       PROVE  Kept
  <2>1. MovesUnseen(f) \/ IsTold(f) BY <1>10, ServiceMoves, AnswersKeep DEF Service
  <2>2. QED BY <1>2, <1>4, <2>1
<1>11. QED BY <1>5, <1>6, <1>7, <1>8, <1>9, <1>10 DEF TxNext

(* The pools a call names are the page's, a batch names one at least.      *)
LEMMA BatchNames ==
  ASSUME ClaimAllMaxPools \in Nat \ {0}, NEW ps \in PoolLists
  PROVE  /\ Batch(ps) \in Seq(Pools) /\ 1 <= Len(Batch(ps)) /\ Len(Batch(ps)) <= 2
<1>1. ps \in Seq(Pools) /\ 1 <= Len(ps) /\ Len(ps) <= 2
  <2>1. ASSUME NEW p \in Pools, ps = <<p>> PROVE ps \in Seq(Pools) /\ Len(ps) = 1 BY <2>1
  <2>2. ASSUME NEW p \in Pools, NEW q \in Pools, ps = <<p, q>> PROVE ps \in Seq(Pools) /\ Len(ps) = 2
    BY <2>2
  <2>3. (\E p \in Pools : ps = <<p>>) \/ (\E p, q \in Pools : ps = <<p, q>>) BY DEF PoolLists
  <2>4. ps \in Seq(Pools) /\ (Len(ps) = 1 \/ Len(ps) = 2) BY <2>1, <2>2, <2>3
  <2>5. CASE Len(ps) = 1 BY <2>4, <2>5
  <2>6. CASE Len(ps) = 2 BY <2>4, <2>6
  <2>7. QED BY <2>4, <2>5, <2>6
<1> DEFINE n == IF Len(ps) > ClaimAllMaxPools THEN ClaimAllMaxPools ELSE Len(ps)
<1>2. n \in Nat /\ 1 <= n /\ n <= Len(ps) BY <1>1
<1>3. SubSeq(ps, 1, n) \in Seq(Pools) /\ Len(SubSeq(ps, 1, n)) = n BY <1>1, <1>2, SubSeqProperties
<1>4. QED BY <1>1, <1>2, <1>3 DEF Batch

LEMMA CallsName ==
  ASSUME ClaimAllMaxPools \in Nat \ {0}, CallInv, NEW f \in Flows, Starts(f)
  PROVE  NamesPools(flow'[f])
<1> DEFINE Begun(s, call) == [FreeFlow EXCEPT !.pc = "account", !.surface = s, !.call = call]
<1>1. ASSUME NEW s, NEW call, BeginOn(s, f, call), call.pools \in Seq(Pools),
             s # "create" => Len(call.pools) # 0
      PROVE  NamesPools(flow'[f])
  <2>1. flow'[f] = Begun(s, call) BY <1>1 DEF BeginOn, CallInv
  <2>2. flow'[f].call = call /\ flow'[f].surface = s BY <2>1 DEF FreeFlow
  <2>3. DOMAIN call.pools = 1 .. Len(call.pools) /\ Len(call.pools) \in Nat
        /\ \A i \in 1 .. Len(call.pools) : call.pools[i] \in Pools
    BY <1>1
  <2>4. s # "create" => call.pools[1] \in NamedPools(flow'[f]) BY <1>1, <2>2, <2>3 DEF NamedPools
  <2>5. QED BY <2>2, <2>3, <2>4 DEF NamesPools, NamedPools
<1>2. ASSUME NEW fn, NEW ps PROVE ThrowsOnFailed(Call(fn, ps)).pools = ps BY DEF ThrowsOnFailed, Call
<1> DEFINE Named == NamesPools(flow'[f])
<1>3. ASSUME NEW s, NEW fn, NEW p \in Pools, BeginOn(s, f, ThrowsOnFailed(Call(fn, <<p>>))) PROVE Named
  <2> DEFINE call == ThrowsOnFailed(Call(fn, <<p>>))
  <2>1. call.pools = <<p>> BY <1>2
  <2>2. BeginOn(s, f, call) BY <1>3
  <2> HIDE DEF call
  <2>3. call.pools \in Seq(Pools) BY <2>1
  <2>4. Len(call.pools) # 0 BY <2>1
  <2>5. QED BY <1>1, <2>2, <2>3, <2>4
<1>4. ASSUME NEW p \in Pools, PlaceBet(f, p) PROVE Named
  BY <1>3, <1>4 DEF PlaceBet, placeBetSoroban, placeBet
<1>5. ASSUME NEW p \in Pools, ClaimOnPoolPage(f, p) \/ ClaimOnDashboard(f, p) PROVE Named
  BY <1>3, <1>5 DEF ClaimOnPoolPage, ClaimOnDashboard, claimWinningsSoroban, claimWinnings
<1>6. ASSUME NEW p \in Pools, Settle(f, p) PROVE Named
  BY <1>3, <1>6 DEF Settle, settlePoolSoroban, settlePool
<1>7. ASSUME NEW p \in Pools, LpCall(f, p) PROVE Named
  BY <1>3, <1>7 DEF LpCall, depositLiquiditySoroban, withdrawLiquiditySoroban,
     stakeLpSoroban, claimLpRewardsSoroban, depositLiquidity, withdrawLiquidity, stakeLp, claimLpRewards
<1>8. ASSUME NEW p \in Pools, AdminAction(f, p) PROVE Named
  BY <1>3, <1>8 DEF AdminAction, freezePoolSoroban, disputePoolSoroban, unfreezePoolSoroban,
     freezePool, disputePool, unfreezePool
<1>9. ASSUME NEW ps \in PoolLists, ClaimAll(f, ps) PROVE Named
  <2> DEFINE all == Batch(ps)
  <2>1. all \in Seq(Pools) /\ 1 <= Len(all) /\ Len(all) <= 2 BY BatchNames
  <2>2. SubSeq(all, 1, Len(all)) \in Seq(Pools) /\ Len(SubSeq(all, 1, Len(all))) = Len(all)
    BY <2>1, SubSeqProperties
  <2>3. BeginOn("claimAll", f, claimAllWinningsSoroban(all)) BY <1>9 DEF ClaimAll
  <2> HIDE DEF all
  <2>a. ~(Len(all) > 20) BY <2>1
  <2>4. BeginOn("claimAll", f, ThrowsOnFailed(Call("claim_all_winnings", SubSeq(all, 1, Len(all)))))
    BY <2>3, <2>a DEF claimAllWinningsSoroban, claimAllWinnings
  <2>5. ThrowsOnFailed(Call("claim_all_winnings", SubSeq(all, 1, Len(all)))).pools = SubSeq(all, 1, Len(all))
    BY <1>2
  <2>6. QED BY <1>1, <2>1, <2>2, <2>4, <2>5
<1>10. ASSUME CreatePool(f) PROVE Named
  <2>1. << >> \in Seq(Pools) OBVIOUS
  <2>2. QED BY <1>1, <1>2, <1>10, <2>1 DEF CreatePool, createMultiOutcomePoolSoroban, createMultiOutcomePool
<1>11. QED BY <1>4, <1>5, <1>6, <1>7, <1>8, <1>9, <1>10 DEF Starts

LEMMA NamesStay ==
  ASSUME ClaimAllMaxPools \in Nat \ {0}, CallInv, ToldInv, NamesInv, [TxNext]_txVars
  PROVE  NamesInv'
<1>1. KeepsTold BY TellsOne
<1>2. ASSUME NEW f \in Flows, flow[f].pc # "free" PROVE NamesPools(flow'[f])
  <2>1. NamesPools(flow[f]) BY <1>2 DEF NamesInv
  <2>2. flow'[f].surface = flow[f].surface /\ flow'[f].call = flow[f].call BY <1>1, <1>2 DEF KeepsTold
  <2>3. QED BY <2>1, <2>2 DEF NamesPools, NamedPools
<1>3. ASSUME NEW f \in Flows, flow[f].pc = "free", flow'[f].pc # "free" PROVE NamesPools(flow'[f])
  <2>1. ASSUME NEW g \in Flows, Changes(g, flow'[g]), flow[g].pc # "free" PROVE FALSE
    BY <1>3, <2>1 DEF Changes
  <2>2. ASSUME NEW g \in Flows, MovesUnseen(g) PROVE FALSE
    BY <1>3, <2>2 DEF MovesUnseen, Changes, Same
  <2>3. ASSUME NEW g \in Flows, IsTold(g) PROVE FALSE BY <1>3, <2>3 DEF IsTold, Changes
  <2>4. ASSUME NEW g \in Flows, Include(g) PROVE FALSE BY <1>3, <2>4, IncludesCall DEF Changes
  <2>5. ASSUME NEW g \in Flows, Starts(g) PROVE g = f BY <1>3, <2>5, StartsCall DEF Changes
  <2>6. ~(UNCHANGED flow) BY <1>3
  <2>7. ~Tick BY <1>3, TickMoves DEF Same
  <2>8. ~UNCHANGED txVars /\ ~CloseClaimAll BY <2>6 DEF txVars, CloseClaimAll
  <2>9. ASSUME NEW g \in Flows, Service(g) \/ Throws(g) \/ ConfirmFee(g) \/ CancelFee(g) \/ Drop(g)
        PROVE  FALSE
    <3>1. MovesUnseen(g) \/ IsTold(g) BY <2>9, ServiceMoves, AnswersKeep DEF Service
    <3>2. QED BY <2>2, <2>3, <3>1
  <2>10. Starts(f) BY <2>4, <2>5, <2>7, <2>8, <2>9 DEF TxNext
  <2>11. QED BY <2>10, CallsName
<1>4. QED BY <1>2, <1>3 DEF NamesInv

(* What a mutation touches is among the keys, and is all its handler drops.*)
LEMMA TouchedDropped ==
  ASSUME NEW f \in Flows, NamesPools(flow[f]), flow[f].surface \in Invalidating
  PROVE  Touched(f) \subseteq C!Keys /\ Touched(f) = Dropped(f)
<1> DEFINE ps == NamedPools(flow[f])
<1>1. ps \subseteq Pools BY DEF NamesPools
<1>2. Touched(f) \subseteq C!Keys BY <1>1 DEF Touched, NamedPools, C!Keys
<1>3. CASE flow[f].surface = "create"
  <2>1. Dropped(f) = {C!List} BY <1>3 DEF Dropped, C!OnCreatePool
  <2>2. Touched(f) = {C!List} BY <1>3 DEF Touched
  <2>3. QED BY <1>2, <2>1, <2>2
<1>4. CASE flow[f].surface = "bet"
  <2>1. PICK p : p \in ps BY <1>4 DEF NamesPools, Invalidating
  <2>2. Dropped(f) = UNION {C!OnPlaceBet(q) : q \in ps} BY <1>4 DEF Dropped, NamedPools
  <2>3. Dropped(f) = {C!List} \cup {C!Pool(q) : q \in ps} \cup C!UserKeys
    BY <2>1, <2>2 DEF C!OnPlaceBet
  <2>4. QED BY <1>2, <1>4, <2>3 DEF Touched, NamedPools
<1>5. CASE flow[f].surface \in {"claims", "claimButton", "claimAll"}
  <2>1. PICK p : p \in ps BY <1>5 DEF NamesPools, Invalidating
  <2>2. Dropped(f) = UNION {C!OnClaimWinnings(q) : q \in ps} BY <1>5 DEF Dropped, NamedPools
  <2>3. Dropped(f) = {C!List} \cup {C!Pool(q) : q \in ps} \cup C!UserKeys
    BY <2>1, <2>2 DEF C!OnClaimWinnings
  <2>4. QED BY <1>2, <1>5, <2>3 DEF Touched, NamedPools
<1>6. QED BY <1>2, <1>3, <1>4, <1>5 DEF Invalidating

(* A success is told once the call is on the ledger, below the account.    *)
LEMMA ToldBelow ==
  ASSUME SeqInv, ToldInv, NEW f \in Flows, flow[f].answer = "success"
  PROVE  flow[f].seq \in Nat /\ account \in Nat /\ flow[f].seq <= account
BY DEF SeqInv, ToldInv, OnLedger

(* A cache alone: what it stores, a read in flight has seen.               *)
LEMMA CacheMoves ==
  ASSUME ClientInv, C!CacheNext, UNCHANGED txVars
  PROVE  CacheInv'
<1>0. /\ store \in [C!Keys -> [held : BOOLEAN, seen : Nat, raced : BOOLEAN]]
      /\ reads \in [C!Keys -> [on : BOOLEAN, seen : Nat, raced : BOOLEAN]]
      /\ account \in Nat
  BY DEF ClientInv, CacheInv, SeqInv
<1>1. UNCHANGED flow BY DEF txVars
<1> DEFINE Told(f) == f \in Flows /\ flow[f].answer = "success" /\ flow[f].surface \in Invalidating
<1>2. ASSUME NEW f, Told(f)
      PROVE  /\ Touched(f)' = Touched(f) /\ Touched(f) \subseteq C!Keys
             /\ flow[f].seq \in Nat /\ flow[f].seq <= account
  <2>1. flow[f].pc # "free" BY <1>2 DEF ClientInv, CallInv, CallOK
  <2>2. NamesPools(flow[f]) BY <1>2, <2>1 DEF ClientInv, NamesInv
  <2>3. Touched(f) \subseteq C!Keys BY <1>2, <2>2, TouchedDropped
  <2>4. Touched(f)' = Touched(f) BY <1>1 DEF Touched
  <2>5. QED BY <1>2, <2>3, <2>4, ToldBelow DEF ClientInv
<1>3. \A f : Told(f) => \A k \in Touched(f) :
        /\ store[k].held => Saw(store[k], flow[f])
        /\ \A j \in C!Keys : k \in C!Stored(j) /\ reads[j].on => Saw(reads[j], flow[f])
  BY DEF ClientInv, CacheInv
<1> DEFINE Fresh(f) == \A k \in Touched(f) :
        /\ store'[k].held => Saw(store'[k], flow[f])
        /\ \A j \in C!Keys : k \in C!Stored(j) /\ reads'[j].on => Saw(reads'[j], flow[f])
<1>4. ASSUME store' \in [C!Keys -> [held : BOOLEAN, seen : Nat, raced : BOOLEAN]],
             reads' \in [C!Keys -> [on : BOOLEAN, seen : Nat, raced : BOOLEAN]],
             \A f : Told(f) => Fresh(f)
      PROVE  CacheInv'
  BY <1>1, <1>2, <1>4 DEF CacheInv, Saw
<1>5. PICK i \in C!Keys : C!ReadStart(i) \/ C!ReadDone(i) \/ C!ReadFails(i) \/ C!Expire(i)
  BY DEF C!CacheNext
<1>6. CASE C!ReadStart(i)
  <2>1. /\ store' = store
        /\ reads' = [reads EXCEPT ![i] = [on |-> TRUE, seen |-> account, raced |-> FALSE]]
    BY <1>6 DEF C!ReadStart
  <2>2. reads' \in [C!Keys -> [on : BOOLEAN, seen : Nat, raced : BOOLEAN]] BY <1>0, <2>1
  <2>3. ASSUME NEW f, Told(f) PROVE Fresh(f)
    <3>1. reads'[i].seen = account BY <1>0, <2>1
    <3>2. \A j \in C!Keys \ {i} : reads'[j] = reads[j] BY <1>0, <2>1
    <3>3. Saw(reads'[i], flow[f]) BY <1>2, <2>3, <3>1 DEF Saw
    <3>4. QED BY <1>2, <1>3, <2>1, <2>3, <3>2, <3>3
  <2>4. QED BY <1>0, <1>4, <2>1, <2>2, <2>3
<1>7. CASE C!ReadDone(i)
  <2>1. /\ store' = [j \in C!Keys |-> IF j \in C!Stored(i) THEN C!Entry(reads[i]) ELSE store[j]]
        /\ reads' = [reads EXCEPT ![i] = C!NoRead] /\ reads[i].on
    BY <1>7 DEF C!ReadDone
  <2>2. reads' \in [C!Keys -> [on : BOOLEAN, seen : Nat, raced : BOOLEAN]] BY <1>0, <2>1 DEF C!NoRead
  <2>3. C!Entry(reads[i]) \in [held : BOOLEAN, seen : Nat, raced : BOOLEAN] BY <1>0 DEF C!Entry
  <2>4. store' \in [C!Keys -> [held : BOOLEAN, seen : Nat, raced : BOOLEAN]] BY <1>0, <2>1, <2>3
  <2>5. ASSUME NEW f, Told(f) PROVE Fresh(f)
    <3>1. ~reads'[i].on BY <1>0, <2>1 DEF C!NoRead
    <3>2. \A j \in C!Keys \ {i} : reads'[j] = reads[j] BY <1>0, <2>1
    <3>3. ASSUME NEW k \in Touched(f), k \in C!Stored(i) PROVE Saw(store'[k], flow[f])
      <4>1. store'[k] = C!Entry(reads[i]) BY <1>2, <2>1, <2>5, <3>3
      <4>2. Saw(reads[i], flow[f]) BY <1>3, <2>1, <2>5, <3>3
      <4>3. QED BY <4>1, <4>2 DEF C!Entry, Saw
    <3>4. ASSUME NEW k \in Touched(f), k \notin C!Stored(i) PROVE store'[k] = store[k]
      BY <1>2, <2>1, <2>5, <3>4
    <3>5. QED BY <1>3, <2>5, <3>1, <3>2, <3>3, <3>4
  <2>6. QED BY <1>4, <2>2, <2>4, <2>5
<1>8. CASE C!ReadFails(i)
  <2>1. store' = store /\ reads' = [reads EXCEPT ![i] = C!NoRead] BY <1>8 DEF C!ReadFails
  <2>2. reads' \in [C!Keys -> [on : BOOLEAN, seen : Nat, raced : BOOLEAN]] BY <1>0, <2>1 DEF C!NoRead
  <2>3. ASSUME NEW f, Told(f) PROVE Fresh(f)
    <3>1. ~reads'[i].on BY <1>0, <2>1 DEF C!NoRead
    <3>2. \A j \in C!Keys \ {i} : reads'[j] = reads[j] BY <1>0, <2>1
    <3>3. QED BY <1>3, <2>1, <2>3, <3>1, <3>2
  <2>4. QED BY <1>0, <1>4, <2>1, <2>2, <2>3
<1>9. CASE C!Expire(i)
  <2>1. reads' = reads /\ store' = [store EXCEPT ![i] = C!Absent] BY <1>9 DEF C!Expire
  <2>2. store' \in [C!Keys -> [held : BOOLEAN, seen : Nat, raced : BOOLEAN]] BY <1>0, <2>1 DEF C!Absent
  <2>3. ASSUME NEW f, Told(f) PROVE Fresh(f)
    <3>1. ~store'[i].held BY <1>0, <2>1 DEF C!Absent
    <3>2. \A j \in C!Keys \ {i} : store'[j] = store[j] BY <1>0, <2>1
    <3>3. QED BY <1>2, <1>3, <2>1, <2>3, <3>1, <3>2
  <2>4. QED BY <1>0, <1>4, <2>1, <2>2, <2>3
<1>10. QED BY <1>5, <1>6, <1>7, <1>8, <1>9

(* What the invalidation of a reported mutation leaves in the caches.      *)
LEMMA Invalidates ==
  ASSUME NEW ks, C!Invalidate(ks),
         store \in [C!Keys -> [held : BOOLEAN, seen : Nat, raced : BOOLEAN]],
         reads \in [C!Keys -> [on : BOOLEAN, seen : Nat, raced : BOOLEAN]]
  PROVE  /\ store' \in [C!Keys -> [held : BOOLEAN, seen : Nat, raced : BOOLEAN]]
         /\ reads' \in [C!Keys -> [on : BOOLEAN, seen : Nat, raced : BOOLEAN]]
         /\ \A k \in C!Keys : store'[k].held => k \notin ks /\ store'[k] = store[k]
         /\ \A j \in C!Keys :
              /\ reads'[j].on = reads[j].on /\ reads'[j].seen = reads[j].seen
              /\ reads[j].raced => reads'[j].raced
              /\ reads[j].on /\ C!Stored(j) \cap ks # {} => reads'[j].raced
<1>1. store' = [k \in C!Keys |-> IF k \in ks THEN C!Absent ELSE store[k]] BY DEF C!Invalidate
<1>2. ~C!Absent.held /\ C!Absent \in [held : BOOLEAN, seen : Nat, raced : BOOLEAN] BY DEF C!Absent
<1>3. store' \in [C!Keys -> [held : BOOLEAN, seen : Nat, raced : BOOLEAN]] BY <1>1, <1>2
<1>4. \A k \in C!Keys : store'[k].held => k \notin ks /\ store'[k] = store[k] BY <1>1, <1>2
<1> DEFINE Hit(j) == reads[j].raced \/ (reads[j].on /\ C!Stored(j) \cap ks # {})
<1>5. reads' = [j \in C!Keys |-> [reads[j] EXCEPT !.raced = Hit(j)]] BY DEF C!Invalidate
<1>6. ASSUME NEW j \in C!Keys
      PROVE  /\ reads'[j] \in [on : BOOLEAN, seen : Nat, raced : BOOLEAN]
             /\ reads'[j].on = reads[j].on /\ reads'[j].seen = reads[j].seen
             /\ reads'[j].raced = Hit(j)
  <2>1. Hit(j) \in BOOLEAN OBVIOUS
  <2>2. reads'[j] = [reads[j] EXCEPT !.raced = Hit(j)] BY <1>5
  <2> HIDE DEF Hit
  <2>3. QED BY <2>1, <2>2
<1>7. reads' \in [C!Keys -> [on : BOOLEAN, seen : Nat, raced : BOOLEAN]] BY <1>5, <1>6
<1>8. QED BY <1>3, <1>4, <1>6, <1>7

LEMMA CallsMoveCaches ==
  ASSUME ClaimAllMaxPools \in Nat \ {0}, ClientInv, TxNext,
         \/ \E f \in Flows : Succeeds(f) /\ C!Invalidate(Dropped(f))
         \/ ~(\E f \in Flows : Succeeds(f)) /\ UNCHANGED <<store, reads>>
  PROVE  CacheInv'
<1>0. /\ store \in [C!Keys -> [held : BOOLEAN, seen : Nat, raced : BOOLEAN]]
      /\ reads \in [C!Keys -> [on : BOOLEAN, seen : Nat, raced : BOOLEAN]]
      /\ CallInv /\ SeqInv /\ ToldInv /\ NamesInv
  BY DEF ClientInv, CacheInv
<1>1. KeepsTold /\ ToldInv' /\ NamesInv' /\ CallInv' /\ SeqInv'
  BY <1>0, TellsOne, NamesStay, StepMaps, NumbersMove
<1> DEFINE Told(f) == f \in Flows /\ flow[f].answer = "success" /\ flow[f].surface \in Invalidating
           Fresh(f) == \A k \in Touched(f) :
             /\ store[k].held => Saw(store[k], flow[f])
             /\ \A j \in C!Keys : k \in C!Stored(j) /\ reads[j].on => Saw(reads[j], flow[f])
<1>2. \A f : Told(f) => Fresh(f) BY DEF ClientInv, CacheInv
<1>3. ASSUME NEW f \in Flows, flow[f].pc # "free"
      PROVE  /\ Touched(f)' = Touched(f) /\ Dropped(f)' = Dropped(f)
             /\ flow'[f].surface = flow[f].surface
             /\ flow[f].surface \in Invalidating =>
                  Touched(f) \subseteq C!Keys /\ Touched(f) = Dropped(f)
  <2>1. flow'[f].surface = flow[f].surface /\ flow'[f].call = flow[f].call
    BY <1>1, <1>3 DEF KeepsTold
  <2>2. NamesPools(flow[f]) BY <1>0, <1>3 DEF NamesInv
  <2>3. Touched(f)' = Touched(f) BY <2>1 DEF Touched
  <2>4. Dropped(f)' = Dropped(f) BY <2>1 DEF Dropped
  <2>5. QED BY <2>1, <2>2, <2>3, <2>4, TouchedDropped
<1>4. ASSUME NEW f \in Flows, Told(f)
      PROVE  /\ Touched(f)' = Touched(f) /\ Touched(f) \subseteq C!Keys
             /\ flow'[f].seq = flow[f].seq /\ Told(f)'
  <2>1. flow[f].pc # "free" BY <1>0, <1>4 DEF CallInv, CallOK
  <2>2. QED BY <1>1, <1>3, <1>4, <2>1 DEF KeepsTold
<1>5. ASSUME NEW f \in Flows, Told(f)', ~Told(f)
      PROVE  Succeeds(f)
  <2>1. flow[f].answer = "success" => flow[f].pc # "free" BY <1>0 DEF CallInv, CallOK
  <2>2. QED BY <1>3, <1>5, <2>1 DEF Succeeds
<1>6. ASSUME store' \in [C!Keys -> [held : BOOLEAN, seen : Nat, raced : BOOLEAN]],
             reads' \in [C!Keys -> [on : BOOLEAN, seen : Nat, raced : BOOLEAN]],
             \A f \in Flows : Told(f)' => Fresh(f)'
      PROVE  CacheInv'
  BY <1>6 DEF CacheInv
<1>7. CASE ~(\E f \in Flows : Succeeds(f)) /\ UNCHANGED <<store, reads>>
  <2>1. ASSUME NEW f \in Flows, Told(f)' PROVE Fresh(f)'
    <3>1. Told(f) BY <1>5, <1>7, <2>1
    <3>2. QED BY <1>2, <1>4, <1>7, <3>1 DEF Saw
  <2>2. QED BY <1>0, <1>6, <1>7, <2>1
<1>8. ASSUME NEW g \in Flows, Succeeds(g), C!Invalidate(Dropped(g)) PROVE CacheInv'
  <2> DEFINE ks == Dropped(g)
  <2>1. /\ store' \in [C!Keys -> [held : BOOLEAN, seen : Nat, raced : BOOLEAN]]
        /\ reads' \in [C!Keys -> [on : BOOLEAN, seen : Nat, raced : BOOLEAN]]
        /\ \A k \in C!Keys : store'[k].held => k \notin ks /\ store'[k] = store[k]
        /\ \A j \in C!Keys :
             /\ reads'[j].on = reads[j].on /\ reads'[j].seen = reads[j].seen
             /\ reads[j].raced => reads'[j].raced
             /\ reads[j].on /\ C!Stored(j) \cap ks # {} => reads'[j].raced
    BY <1>0, <1>8, Invalidates
  <2>2. ASSUME NEW f \in Flows, Told(f)', Told(f) PROVE Fresh(f)'
    <3>1. ASSUME NEW k \in Touched(f)', store'[k].held PROVE Saw(store'[k], flow'[f])
      BY <1>2, <1>4, <2>1, <2>2, <3>1 DEF Saw
    <3>2. ASSUME NEW k \in Touched(f)', NEW j \in C!Keys, k \in C!Stored(j), reads'[j].on
          PROVE  Saw(reads'[j], flow'[f])
      BY <1>2, <1>4, <2>1, <2>2, <3>2 DEF Saw
    <3>3. QED BY <3>1, <3>2 DEF C!Stored, C!List, C!Pool
  <2>3. ASSUME NEW f \in Flows, Told(f)', ~Told(f) PROVE Fresh(f)'
    <3>1. f = g BY <1>1, <1>5, <1>8, <2>3 DEF KeepsTold
    <3>2. flow[f].pc # "free" BY <1>1, <1>5, <2>3 DEF KeepsTold
    <3>3. Touched(f)' = ks /\ ks \subseteq C!Keys BY <1>3, <2>3, <3>1, <3>2
    <3>4. \A k \in Touched(f)' : ~store'[k].held BY <2>1, <3>3
    <3>5. \A k \in Touched(f)', j \in C!Keys : k \in C!Stored(j) /\ reads'[j].on => reads'[j].raced
      BY <2>1, <3>3
    <3>6. QED BY <3>4, <3>5 DEF Saw, C!Stored, C!List, C!Pool
  <2>4. QED BY <1>6, <2>1, <2>2, <2>3
<1>9. QED BY <1>7, <1>8

(***************************************************************************)
(* The caches leave the calls as they are: with them, too, a call keeps    *)
(* the promise of ContractCalls.                                           *)
(***************************************************************************)
THEOREM ClientMakesCalls == ClientSpec => TxSpec
<1>1. ClientInit => TxInit BY DEF ClientInit
<1>2. [ClientNext]_clientVars => [TxNext]_txVars BY DEF ClientNext, clientVars, txVars
<1>3. QED BY <1>1, <1>2, PTL DEF ClientSpec, TxSpec

(***************************************************************************)
(* After a mutation is reported successful, an entry of the caches that it *)
(* touches was read from the chain with the mutation on it, whatever was   *)
(* read, dropped or expired before and since; only an entry that a read in *)
(* flight at the invalidation filled may be older.                         *)
(***************************************************************************)
THEOREM SuccessIsFresh ==
  ASSUME ClaimAllMaxPools \in Nat \ {0}
  PROVE  ClientSpec => []FreshAfterSuccess
<1>1. ClientInit => ClientInv
  <2> SUFFICES ASSUME ClientInit PROVE ClientInv OBVIOUS
  <2>1. CallInv BY CallsStart DEF ClientInit
  <2>2. flow = [f \in Flows |-> FreeFlow] /\ account = 0 BY DEF ClientInit, TxInit
  <2>3. FreeFlow.seq = 0 /\ FreeFlow.tx = "none" /\ FreeFlow.pc = "free" /\ FreeFlow.answer = "none"
    BY DEF FreeFlow
  <2>4. SeqInv /\ ToldInv /\ NamesInv BY <2>2, <2>3 DEF SeqInv, OnLedger, ToldInv, NamesInv
  <2>5. store = [k \in C!Keys |-> C!Absent] /\ reads = [k \in C!Keys |-> C!NoRead]
    BY DEF ClientInit, C!CacheInit
  <2>6. /\ C!Absent \in [held : BOOLEAN, seen : Nat, raced : BOOLEAN]
        /\ C!NoRead \in [on : BOOLEAN, seen : Nat, raced : BOOLEAN]
    BY DEF C!Absent, C!NoRead
  <2>7. CacheInv BY <2>2, <2>3, <2>5, <2>6 DEF CacheInv
  <2>8. QED BY <2>1, <2>4, <2>7 DEF ClientInv
<1>2. ClientInv /\ [ClientNext]_clientVars => ClientInv'
  <2> SUFFICES ASSUME ClientInv, [ClientNext]_clientVars PROVE ClientInv' OBVIOUS
  <2>1. CallInv /\ SeqInv /\ ToldInv /\ NamesInv BY DEF ClientInv
  <2>2. [TxNext]_txVars BY DEF ClientNext, clientVars, txVars
  <2>3. CallInv' /\ SeqInv' /\ ToldInv' /\ NamesInv'
    BY <2>1, <2>2, StepMaps, NumbersMove, TellsOne, NamesStay
  <2>4. CacheInv'
    <3>1. CASE UNCHANGED clientVars
      <4>1. CacheInv BY DEF ClientInv
      <4>2. UNCHANGED <<flow, store, reads>> BY <3>1 DEF clientVars
      <4>3. \A f \in Flows : Touched(f)' = Touched(f) BY <4>2 DEF Touched
      <4>4. QED BY <4>1, <4>2, <4>3 DEF CacheInv, Saw
    <3>2. CASE C!CacheNext /\ UNCHANGED txVars BY <3>2, CacheMoves
    <3>3. CASE /\ TxNext
               /\ \/ \E f \in Flows : Succeeds(f) /\ C!Invalidate(Dropped(f))
                  \/ ~(\E f \in Flows : Succeeds(f)) /\ UNCHANGED <<store, reads>>
      BY <3>3, CallsMoveCaches
    <3>4. QED BY <3>1, <3>2, <3>3 DEF ClientNext
  <2>5. QED BY <2>3, <2>4 DEF ClientInv
<1>3. ClientInv => FreshAfterSuccess
  BY DEF ClientInv, CacheInv, FreshAfterSuccess, Saw
<1>4. QED BY <1>1, <1>2, <1>3, PTL DEF ClientSpec

=============================================================================
