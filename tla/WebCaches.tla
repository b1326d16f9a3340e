------------------------------ MODULE WebCaches ------------------------------
(***************************************************************************)
(* The caches of the web client: the market list and the pools in          *)
(* localStorage (market-list-cache), a user's activity and bets in memory  *)
(* (cache.ts through cache-invalidation), and the reads that fill them.    *)
(*                                                                         *)
(* What a read returns is the version of the chain it saw.  A read in      *)
(* flight when its key is invalidated is marked raced: the code writes its *)
(* result all the same.  An entry may expire at any time, which stands for *)
(* its time to live.                                                       *)
(***************************************************************************)
EXTENDS Integers

CONSTANTS
  Pools,     \* pools on the page
  UserKinds  \* the user caches filled: "activity", "dashboard"

VARIABLES
  chain,     \* external: version of the contract's data
  store,     \* the cache entries, by key
  reads      \* the read in flight for a key

cacheVars == <<store, reads>>

\* "activity" and "dashboard" are keyed by the one connected account.
List == <<"list", 0>>
Pool(p) == <<"pool", p>>
UserKeys == UserKinds \X {0}
Keys == {List} \cup {Pool(p) : p \in Pools} \cup UserKeys

Absent == [held |-> FALSE, seen |-> 0, raced |-> FALSE]
Entry(r) == [held |-> TRUE, seen |-> r.seen, raced |-> r.raced]
NoRead == [on |-> FALSE, seen |-> 0, raced |-> FALSE]

CacheInit ==
  /\ store = [k \in Keys |-> Absent]
  /\ reads = [k \in Keys |-> NoRead]

(***************************************************************************)
(* Cached reads: a fresh entry is served; otherwise a read starts, and its *)
(* answer is stored when it comes.  The list's read is the shared promise  *)
(* of warmMarketListCache, which also stores every pool; getCachedPool and *)
(* the user hooks read one key.                                            *)
(***************************************************************************)
ReadStart(k) ==
  /\ ~store[k].held /\ ~reads[k].on
  /\ reads' = [reads EXCEPT ![k] = [on |-> TRUE, seen |-> chain, raced |-> FALSE]]
  /\ UNCHANGED store

Stored(k) == IF k = List THEN {List} \cup {Pool(p) : p \in Pools} ELSE {k}

ReadDone(k) ==
  /\ reads[k].on
  /\ store' = [j \in Keys |-> IF j \in Stored(k) THEN Entry(reads[k]) ELSE store[j]]
  /\ reads' = [reads EXCEPT ![k] = NoRead]

\* A read that fails, or a pool that is not found, writes nothing.
ReadFails(k) ==
  /\ reads[k].on
  /\ reads' = [reads EXCEPT ![k] = NoRead]
  /\ UNCHANGED store

\* cache.get and the localStorage readers drop an entry past its time to live.
Expire(k) ==
  /\ store[k].held
  /\ store' = [store EXCEPT ![k] = Absent]
  /\ UNCHANGED reads

CacheNext ==
  \/ \E k \in Keys : ReadStart(k) \/ ReadDone(k) \/ ReadFails(k) \/ Expire(k)

\* mutant: a bet leaves the entry of its pool
OnPlaceBetKeepingPool(p) == {List} \cup UserKeys

(***************************************************************************)
(* cache-invalidation: what each mutation drops.                           *)
(***************************************************************************)
OnPlaceBet(p) == {List, Pool(p)} \cup UserKeys
OnClaimWinnings(p) == {List, Pool(p)} \cup UserKeys
OnCreatePool == {List}
OnResolvePool(p) == {List, Pool(p)}

\* A read in flight is not stopped.
Invalidate(ks) ==
  /\ store' = [k \in Keys |-> IF k \in ks THEN Absent ELSE store[k]]
  /\ reads' = [k \in Keys |->
        [reads[k] EXCEPT !.raced = @ \/ (reads[k].on /\ Stored(k) \cap ks # {})]]

=============================================================================
