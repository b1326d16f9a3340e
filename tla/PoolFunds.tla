----------------------------- MODULE PoolFunds ------------------------------
(***************************************************************************)
(* What the market promises of the tokens it holds, in the terms of its    *)
(* bettors and without outcomes, fees, tiers, clocks or administrators: a  *)
(* fund per pool, what each account is due from it at this moment, and a   *)
(* treasury, on one token balance.                                         *)
(*                                                                         *)
(* A pool is open while its bettors are due their own stakes, settled when *)
(* the winners' shares replace them, and sharing once a winner was paid.   *)
(* It is outside of the promise while its operators have interfered with   *)
(* it: what is promised then is that the other pools do not notice.        *)
(***************************************************************************)
EXTENDS Sums

CONSTANTS NumAccounts, NumPools

Accounts == 0 .. NumAccounts - 1
Pools == 1 .. NumPools

VARIABLES
  fund,      \* what a pool holds
  due,       \* what an account would be paid out of a pool now
  phase,     \* "open", "settled", "sharing" or "outside"
  revenue,   \* the treasury
  held       \* the token balance

vars == <<fund, due, phase, revenue, held>>

Owing(d) == SumBelow(d, NumAccounts)
Dues == [Accounts -> Nat]

Init ==
  /\ fund = [p \in Pools |-> 0]
  /\ due = [p \in Pools |-> [u \in Accounts |-> 0]]
  /\ phase = [p \in Pools |-> "open"]
  /\ revenue = 0
  /\ held = 0

Only(p) ==
  /\ fund'[p] \in Int
  /\ \A q \in Pools \ {p} : fund'[q] = fund[q] /\ due'[q] = due[q] /\ phase'[q] = phase[q]

Earns == revenue' \in Nat /\ revenue' >= revenue

Inflow(p) == fund'[p] - fund[p]

Stays(p, ph) == phase[p] = ph /\ phase'[p] = ph

(* An account adds to its stake or takes some of it back.                  *)
MoveStake(p, u) ==
  /\ Stays(p, "open")
  /\ due'[p] = [due[p] EXCEPT ![u] = @ + Inflow(p)]
  /\ due'[p][u] >= 0
  /\ held' = held + Inflow(p)
  /\ UNCHANGED revenue
  /\ Only(p)

(* Some accounts are paid back all they are due.                           *)
Return(p) ==
  /\ Stays(p, "open")
  /\ \E who \in SUBSET Accounts :
       due'[p] = [u \in Accounts |-> IF u \in who THEN 0 ELSE due[p][u]]
  /\ Inflow(p) = Owing(due'[p]) - Owing(due[p])
  /\ held' = held + Inflow(p)
  /\ UNCHANGED revenue
  /\ Only(p)

(* A settlement divides the fund among the winners; a settlement disputed  *)
(* before the first claim gives the stakes back.  No token moves.          *)
Settle(p) ==
  /\ phase[p] = "open" /\ phase'[p] = "settled"
  /\ due'[p] \in Dues /\ Owing(due'[p]) <= fund[p]

Reopen(p) ==
  /\ phase[p] = "settled" /\ phase'[p] = "open"
  /\ due'[p] \in Dues /\ Owing(due'[p]) = fund[p]

Redivide(p) ==
  /\ Settle(p) \/ Reopen(p)
  /\ Inflow(p) = 0
  /\ UNCHANGED <<revenue, held>>
  /\ Only(p)

(* A winner is paid exactly what was due, whoever claimed before; the fee  *)
(* and what rounding left over go to the treasury.                         *)
Claim(p, u) ==
  /\ phase[p] \in {"settled", "sharing"} /\ phase'[p] = "sharing"
  /\ due'[p] = [due[p] EXCEPT ![u] = 0]
  /\ Earns
  /\ Inflow(p) = -(due[p][u] + (revenue' - revenue))
  /\ Owing(due'[p]) <= fund'[p]
  /\ held' = held - due[p][u]
  /\ Only(p)

(* The operator withdraws from the treasury, and from nothing else.        *)
Sweep ==
  /\ revenue' \in 0 .. revenue - 1
  /\ held' = held - (revenue - revenue')
  /\ UNCHANGED <<fund, due, phase>>

(* A pool outside of the promise still moves only its own fund, and comes  *)
(* back only when that is again exactly its stakes.                        *)
Outside(p) ==
  /\ "outside" \in {phase[p], phase'[p]} /\ phase'[p] \in {"open", "outside"}
  /\ due'[p] \in Dues
  /\ phase'[p] = "open" => Owing(due'[p]) = fund'[p]
  /\ Earns
  /\ held' = held + Inflow(p) + (revenue' - revenue)
  /\ Only(p)

Next ==
  \/ \E p \in Pools, u \in Accounts : MoveStake(p, u) \/ Claim(p, u)
  \/ \E p \in Pools : Return(p) \/ Redivide(p) \/ Outside(p)
  \/ Sweep

Spec == Init /\ [][Next]_vars

-----------------------------------------------------------------------------
(***************************************************************************)
(* What the promise amounts to: the balance is the treasury and the funds, *)
(* an open pool holds exactly what its bettors are due, and a settled one  *)
(* at least that, whatever was claimed so far and in whatever order.       *)
(***************************************************************************)
Covered ==
  /\ held = revenue + SumBelow([i \in 0 .. NumPools - 1 |-> fund[i + 1]], NumPools)
  /\ \A p \in Pools :
       /\ phase[p] = "open" => Owing(due[p]) = fund[p]
       /\ phase[p] \in {"settled", "sharing"} => Owing(due[p]) <= fund[p]

=============================================================================
