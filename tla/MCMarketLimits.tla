--------------------------- MODULE MCMarketLimits ---------------------------
(***************************************************************************)
(* MarketLimits for TLC, with the constants a .cfg cannot write.           *)
(***************************************************************************)
EXTENDS MarketLimits

NoTiers == <<>>
NoTierCalls == {}
Unset == -1

=============================================================================
