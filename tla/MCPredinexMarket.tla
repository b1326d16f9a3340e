-------------------------- MODULE MCPredinexMarket --------------------------
(***************************************************************************)
(* Values for the constants of PredinexMarket that a .cfg cannot write.    *)
(***************************************************************************)
EXTENDS MarketDocumented

NoTiers == <<>>
OneTier == <<[threshold |-> 6, fee |-> 2]>>
TwoTiers == <<[threshold |-> 4, fee |-> 1], [threshold |-> 6, fee |-> 4]>>
NoTierCalls == {}
TierCalls == {NoTiers, TwoTiers}
Unset == -1

=============================================================================
