------------------------------- MODULE WebReads -------------------------------
(***************************************************************************)
(* Reads of the contracts.  A page of pools (enhanced-stacks-api) is read  *)
(* from the Stacks API: the count, the batch with retries, and pool by     *)
(* pool with bounded concurrency when the batch fails.  Everything else    *)
(* (soroban-read-api) goes through simulateContractRead and its decoder.   *)
(***************************************************************************)
EXTENDS Integers, Sequences, FiniteSets, SequencesExt, Ranks

CONSTANTS
  MaxPools,     \* bound on the pools of the contract
  FetchSize,    \* pageSize of fetchAllPools
  Concurrency,  \* DEFAULT_POOL_FETCH_CONCURRENCY
  LastPage      \* bound on the pages asked for

VARIABLES
  total,      \* pools in the contract, which only grows
  page,       \* page asked for, ids on it as computed from the count read
  fetch,      \* what fetchAllPools waits for
  unstarted, executing, inFlight,  \* ids of the individual reads
  answered,   \* pools pushed to results, in the order of the answers
  missing,    \* pools whose own read failed after its retries
  listed,     \* the page returned, and whether it came from the batch
  simulated   \* a read of the Soroban contract: function, reply, what is returned

fetchVars == <<total, page, fetch, unstarted, executing, inFlight, answered, missing, listed>>
readVars == <<fetchVars, simulated>>

NoPage == [asked |-> -1, ids |-> <<>>]
NotListed == [ids |-> <<>>, batch |-> FALSE]

Upto(n) == IF n > 0 THEN n ELSE 0

\* The ids of page p, oldest first; the page after the last one asks for pool 0.
PageIds(count, p) ==
  LET start == Upto(count - p * FetchSize)
      end == Upto(start - FetchSize + 1)
  IN  [i \in 1 .. start - end + 1 |-> end + i - 1]

FetchInit ==
  /\ total \in 0 .. MaxPools /\ page = NoPage /\ fetch = "idle"
  /\ unstarted = <<>> /\ executing = <<>> /\ inFlight = {} /\ answered = <<>> /\ missing = {}
  /\ listed = NotListed

FetchAllPools(p) ==
  /\ fetch = "idle" /\ page' = [asked |-> p, ids |-> <<>>]
  /\ fetch' = "count"
  /\ UNCHANGED <<total, unstarted, executing, inFlight, answered, missing, listed, simulated>>

\* The count, which is 0 when it cannot be read.
CountRead(count) ==
  /\ fetch = "count" /\ count \in {0, total}
  /\ IF count = 0
     THEN fetch' = "done" /\ UNCHANGED page
     ELSE fetch' = "batch" /\ page' = [page EXCEPT !.ids = PageIds(count, page.asked)]
  /\ UNCHANGED <<total, unstarted, executing, inFlight, answered, missing, listed, simulated>>

\* A page is sorted newest first; ids without a pool were dropped.
Listed(ids, batch) ==
  /\ fetch' = "done"
  /\ listed' = [ids |-> LargestFirst(ids, ids), batch |-> batch]

Exists(id) == id \in 1 .. total

BatchRead ==
  /\ fetch = "batch" /\ Listed(Kept(page.ids, {i \in DOMAIN page.ids : Exists(page.ids[i])}), TRUE)
  /\ UNCHANGED <<total, page, unstarted, executing, inFlight, answered, missing, simulated>>

\* getPoolsIndividually, when the batch fails or is not an array.
BatchFails ==
  /\ fetch = "batch" /\ fetch' = "launching"
  /\ unstarted' = page.ids
  /\ UNCHANGED <<total, page, executing, inFlight, answered, missing, listed, simulated>>

\* One turn of the loop: launch a read, wait for a race when there are too many.
Launch ==
  /\ fetch = "launching" /\ unstarted # <<>>
  /\ unstarted' = Tail(unstarted)
  /\ executing' = Append(executing, Head(unstarted))
  /\ inFlight' = inFlight \cup {Head(unstarted)}
  /\ fetch' = IF Len(executing') >= Concurrency THEN "racing" ELSE fetch
  /\ UNCHANGED <<total, page, answered, missing, listed, simulated>>

Settled(id) == id \notin inFlight

\* A read of the array has settled; the one removed is the one launched last, settled
\* or not, which nothing waits for from then on.
Raced ==
  /\ fetch = "racing" /\ \E i \in DOMAIN executing : Settled(executing[i])
  /\ executing' = Front(executing)
  /\ fetch' = "launching"
  /\ UNCHANGED <<total, page, unstarted, inFlight, answered, missing, listed, simulated>>

\* getEnhancedPool answers a pool, or null when there is none or its retries fail.
PoolRead(id, ok) ==
  /\ id \in inFlight /\ inFlight' = inFlight \ {id}
  /\ answered' = IF ok /\ Exists(id) THEN Append(answered, id) ELSE answered
  /\ missing' = IF ok THEN missing ELSE missing \cup {id}
  /\ UNCHANGED <<total, page, fetch, unstarted, executing, listed, simulated>>

\* A mutation: Promise.all is not awaited.
AllReadUnawaited ==
  /\ fetch = "launching" /\ unstarted = <<>>
  /\ Listed(answered, FALSE)
  /\ UNCHANGED <<total, page, unstarted, executing, inFlight, answered, missing, simulated>>

\* Promise.all waits for the reads still in the array.
AllRead ==
  /\ fetch = "launching" /\ unstarted = <<>>
  /\ \A i \in DOMAIN executing : Settled(executing[i])
  /\ Listed(answered, FALSE)
  /\ UNCHANGED <<total, page, unstarted, executing, inFlight, answered, missing, simulated>>

\* External: a pool is created.
PoolCreated ==
  /\ total < MaxPools /\ total' = total + 1
  /\ UNCHANGED <<page, fetch, unstarted, executing, inFlight, answered, missing, listed, simulated>>

-----------------------------------------------------------------------------
(***************************************************************************)
(* The Soroban reads.  A value of the contract arrives as XDR: its type in *)
(* four bytes, most significant first, then the value.                     *)
(***************************************************************************)
Null == [is |-> "null"]
False == [is |-> "boolean"]
Text == [is |-> "string"]
Address == [is |-> "address"]

\* What the readers of the contract answer: an option, a record, a number.
ContractValues == {Null, Address, [is |-> "number"], [is |-> "object"], [is |-> "array"]}

XdrType == [null |-> 1, number |-> 3, array |-> 16, object |-> 17, address |-> 18]

ScVal(v) == [head |-> <<0, 0, 0, XdrType[v.is]>>, value |-> v]

\* The first byte is taken for the type.
parseScVal(xdr) ==
  LET type == xdr.head[1]
  IN  CASE type = 0 -> IF xdr.head[2] = 0 THEN False ELSE [False EXCEPT !.is = "true"]
        [] type = 1 -> Null
        [] type \in {3, 4, 12, 16, 17, 18, 20, 21} -> xdr.value
        [] OTHER -> Text

Readers == {"get_pool", "get_user_bet", "get_pool_bet_limits", "get_pool_count", "get_pools_batch",
            "get_admin", "get_freeze_admin", "get_lp_position", "get_lp_stake",
            "get_pool_ext_metadata"}

\* An option arrives as a list of none or one, or as the record itself.
Record(v) == v.is \in {"object", "array"}
getPool(v) == IF Record(v) THEN v ELSE Null
getUserBet(v) == IF Record(v) THEN v ELSE Null
\* With anything but null and a record the limits are both 0: unset.
getPoolBetLimits(v) == IF Record(v) THEN v ELSE Null
getPoolCount(v) == IF v.is = "number" THEN v ELSE Null
getPoolsBatch(v) == IF v.is = "array" THEN v ELSE Null

getAdmin(v) == IF v = Address THEN v ELSE Null
getFreezeAdmin(v) == getAdmin(v)
getLpPosition(v) == IF Record(v) THEN v ELSE Null
getLpStake(v) == IF Record(v) THEN v ELSE Null
getPoolExtMetadata(v) == IF Record(v) THEN v ELSE Null

Returned(reader, v) ==
  CASE reader = "get_pool" -> getPool(v)
    [] reader = "get_user_bet" -> getUserBet(v)
    [] reader = "get_pool_bet_limits" -> getPoolBetLimits(v)
    [] reader = "get_pool_count" -> getPoolCount(v)
    [] reader = "get_pools_batch" -> getPoolsBatch(v)
    [] reader = "get_admin" -> getAdmin(v)
    [] reader = "get_freeze_admin" -> getFreezeAdmin(v)
    [] reader = "get_lp_position" -> getLpPosition(v)
    [] reader = "get_lp_stake" -> getLpStake(v)
    [] OTHER -> getPoolExtMetadata(v)

\* One read: an error of any kind is null.
simulateContractRead(reader, v) ==
  /\ \E raw \in {Null, parseScVal(ScVal(v))} :
       simulated' = [reader |-> reader, held |-> v, answered |-> raw # Null,
                     returned |-> Returned(reader, raw)]
  /\ UNCHANGED fetchVars

NoRead == [reader |-> "none", held |-> Null, answered |-> FALSE, returned |-> Null]

-----------------------------------------------------------------------------
ReadsInit == FetchInit /\ simulated = NoRead

\* The two kinds of reads have nothing in common: a behaviour looks at one.
ReadsNext ==
  \/ \E p \in 0 .. LastPage : simulated = NoRead /\ FetchAllPools(p)
  \/ \E count \in 0 .. MaxPools : CountRead(count)
  \/ BatchRead \/ BatchFails \/ Launch \/ Raced \/ AllRead \/ PoolCreated
  \/ \E id \in inFlight, ok \in BOOLEAN : PoolRead(id, ok)
  \/ \E reader \in Readers, v \in ContractValues : fetch = "idle" /\ simulateContractRead(reader, v)

ReadsSpec == ReadsInit /\ [][ReadsNext]_readVars

\* Every call of the API ends, with an answer or an error.
ReadsFair ==
  \/ \E count \in 0 .. MaxPools : CountRead(count)
  \/ BatchRead \/ BatchFails \/ Launch \/ Raced \/ AllRead
  \/ \E id \in inFlight, ok \in BOOLEAN : PoolRead(id, ok)

ReadsFairSpec == ReadsSpec /\ WF_readVars(ReadsFair)

-----------------------------------------------------------------------------
(***************************************************************************)
(* A page holds no pool twice, newest first, and only pools of its own     *)
(* range; the ranges of two pages of one count have no pool in common and  *)
(* together hold every pool, whatever is created between count and batch.  *)
(* A page read in one batch lists every pool of its range.  A page read    *)
(* pool by pool lists those among its first Concurrency - 1 whose own read *)
(* did not fail, and promises no more: every later read is taken out of    *)
(* the array as soon as some read of it has settled, Promise.all does not  *)
(* wait for it, and its pool is missing from the page unless it happened   *)
(* to answer in time.                                                      *)
(***************************************************************************)
PagesPartition ==
  /\ \A i, j \in DOMAIN listed.ids : i < j => listed.ids[i] > listed.ids[j]
  /\ \A i \in DOMAIN listed.ids : \E k \in DOMAIN page.ids : page.ids[k] = listed.ids[i]
  /\ \A id \in 1 .. total :
       Cardinality({p \in 0 .. MaxPools : \E k \in DOMAIN PageIds(total, p) : PageIds(total, p)[k] = id}) = 1
  /\ fetch = "done" =>
       \A k \in DOMAIN page.ids :
         page.ids[k] # 0 /\ page.ids[k] \notin missing /\ (listed.batch \/ k < Concurrency)
           => \E i \in DOMAIN listed.ids : listed.ids[i] = page.ids[k]

\* A page asked for is returned, in batch or pool by pool.
PageAwaited == fetch \notin {"idle", "done"}
PageEnds == PageAwaited ~> ~PageAwaited


=============================================================================
