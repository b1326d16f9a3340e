------------------------------ MODULE WebClient ------------------------------
(***************************************************************************)
(* The contract calls of WebTransactions over the caches of WebCaches: the *)
(* handler that learns of a success drops the entries the mutation         *)
(* touches.  The version of the chain that a read sees is the number of    *)
(* the user's transactions executed so far.                                *)
(***************************************************************************)
EXTENDS WebTransactions

CONSTANT UserKinds

VARIABLES store, reads

C == INSTANCE WebCaches WITH chain <- account

clientVars == <<flow, ui, poolClaim, claimAll, account, store, reads>>

\* What the handlers invalidate once their call has succeeded: useSettlePool, the
\* liquidity dashboard and the dispute page invalidate nothing.
Dropped(f) ==
  LET s == flow[f].surface
      ps == {flow[f].call.pools[i] : i \in DOMAIN flow[f].call.pools}
  IN  CASE s = "bet" -> UNION {C!OnPlaceBet(p) : p \in ps}
        [] s \in {"claims", "claimButton", "claimAll"} -> UNION {C!OnClaimWinnings(p) : p \in ps}
        [] s = "create" -> C!OnCreatePool
        [] OTHER -> {}

Succeeds(f) == flow[f].answer # "success" /\ flow'[f].answer = "success"

ClientNext ==
  \/ /\ TxNext
     /\ \/ \E f \in Flows : Succeeds(f) /\ C!Invalidate(Dropped(f))
        \/ ~(\E f \in Flows : Succeeds(f)) /\ UNCHANGED <<store, reads>>
  \/ C!CacheNext /\ UNCHANGED txVars

ClientInit == TxInit /\ C!CacheInit

ClientSpec == ClientInit /\ [][ClientNext]_clientVars

\* The mutation table at the head of cache-invalidation.ts: every mutation shows in the
\* list, those of a pool in its entry, and the account's own also in the user caches.
Touched(f) ==
  LET pools == {flow[f].call.pools[i] : i \in DOMAIN flow[f].call.pools}
  IN  {C!List}
      \cup (IF flow[f].surface # "create" THEN {C!Pool(p) : p \in pools} ELSE {})
      \cup (IF flow[f].surface \in {"bet", "claims", "claimButton", "claimAll"} THEN C!UserKeys ELSE {})

\* Of the components that make calls, those whose handlers drop anything.
Invalidating == {"bet", "claims", "claimButton", "claimAll", "create"}

\* Once a mutation of theirs is reported successful, no cache entry it touches shows the
\* chain as it was before it, unless the read that filled the entry was in flight
\* when the entry was invalidated.
FreshAfterSuccess ==
  \A f \in Flows : flow[f].answer = "success" /\ flow[f].surface \in Invalidating =>
    \A k \in Touched(f) :
       store[k].held /\ ~store[k].raced => store[k].seen >= flow[f].seq

=============================================================================
