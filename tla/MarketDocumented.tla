-------------------------- MODULE MarketDocumented --------------------------
(***************************************************************************)
(* What the comments and the documentation of the contract say of it,      *)
(* written as properties of PredinexMarket.  Each is violated by the code; *)
(* the runs named finding_* show how.  The properties that hold are in     *)
(* PredinexMarket.                                                         *)
(***************************************************************************)
EXTENDS PredinexMarket

(***************************************************************************)
(* docs/contract-api.md, "Conservation invariant: treasury_credit +        *)
(* sum(payouts) == total_pool_balance".  Without tiers claim_winnings      *)
(* reads the protocol fee of its own time, so a fee change between two     *)
(* claims breaks it.                                                       *)
(***************************************************************************)
Conservation ==
  \A p \in Pools : status[p] = "Settled" /\ FullyClaimed(p) =>
    credited[p] + payout[p].paidOut = PoolTotal(p)

(***************************************************************************)
(* The rounding policy above claim_winnings: after the last claim what is  *)
(* left of the pool's money is its treasury credit, so the pool's own      *)
(* account ends at zero.  A pool settled after a claim_expired pays        *)
(* winnings out of stakes that were refunded: another pool's money.        *)
(***************************************************************************)
ClaimedPoolBalances ==
  \A p \in Pools : status[p] = "Settled" /\ FullyClaimed(p) => escrow[p] = 0

=============================================================================
