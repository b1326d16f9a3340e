---------------------------- MODULE MCMultiAsset ----------------------------
(***************************************************************************)
(* MultiAsset for TLC.  The run starts with one pool that accepts token 1  *)
(* and two bets of Amount in it, on the same outcome or on two: account    *)
(* 1's at rate 10, account 2's after the rate was set to 4.  AssetInit     *)
(* reaches this state by two calls of set_token_exchange_rate, one of      *)
(* create_multi_asset_pool and two of place_multi_asset_bet.               *)
(***************************************************************************)
EXTENDS MultiAsset

NoTiers == <<>>
NoTierCalls == {}
Unset == -1
OneToken == {{1}}
TokenOne == {1}
UpToTwo == {[min |-> 0, max |-> 2]}
NoLimits == {}

Amount == 3
Units == [u \in Accounts |-> IF u = 1 THEN 3 ELSE IF u = 2 THEN 1 ELSE 0]
ByPool(empty, first) == [p \in Pools |-> IF p = 1 THEN first ELSE empty]
NoTokens == [t \in Tokens |-> 0]

BetsPlaced ==
  \E second \in Outcomes :
    LET Placed(u, o) == IF (u = 1 /\ o = 0) \/ (u = 2 /\ o = second) THEN Units[u] ELSE 0
        Total(o) == Placed(1, o) + Placed(2, o)
    IN  /\ totals = ByPool([o \in Outcomes |-> 0], [o \in Outcomes |-> Total(o)])
        /\ sides = ByPool([a |-> 0, b |-> 0], [a |-> Total(0), b |-> Total(1)])
        /\ stake = ByPool([u \in Accounts |-> [o \in Outcomes |-> 0]],
                          [u \in Accounts |-> [o \in Outcomes |-> Placed(u, o)]])

Started ==
  /\ BetsPlaced
  /\ now = 0 /\ paused = FALSE /\ protocolFee \in FeeChoices
  /\ feeTiers = InitialTiers /\ minParticipants \in MinParticipantChoices
  /\ pool = ByPool(NewPool, [creator |-> 0, created |-> 0, expiry |-> 1, deadline |-> 1,
                             settler |-> NoAccount])
  /\ status = ByPool("None", "Open")
  /\ winner = [p \in Pools |-> NoOutcome] /\ coolingUntil = [p \in Pools |-> Never]
  /\ volume = ByPool(0, 4)
  /\ totalBet = ByPool([u \in Accounts |-> 0], Units)
  /\ hasBet = ByPool({}, {1, 2}) /\ bettors = hasBet /\ participants = ByPool(0, 2)
  /\ lockedFee = [p \in Pools |-> NoFee] /\ settleFee = lockedFee
  /\ settledAt = [p \in Pools |-> Never] /\ fresh = [p \in Pools |-> FALSE]
  /\ payout = [p \in Pools |-> NoPayout] /\ credited = [p \in Pools |-> 0]
  /\ treasury = 0 /\ withdrawn = NoWindow /\ balance = 0
  /\ escrow = [p \in Pools |-> 0]
  /\ LimitsInit
  /\ rate = Only(1, 4)
  /\ allowed = ByPool({}, {1})
  /\ tokenLimits = [p \in Pools |-> [t \in Tokens |-> [min |-> 0, max |-> 0]]]
  /\ deposit = ByPool(NoTokens, Only(1, 2 * Amount))
  /\ feePending = [p \in Pools |-> NoTokens] /\ spent = feePending /\ swept = feePending
  /\ tokenBalance = [t \in AltTokens |-> 2 * Amount]
  /\ interfered = {}

StartedSpec == Started /\ [][AssetNext]_assetSpecVars

=============================================================================
