----------------------------- MODULE WebSettings -----------------------------
(***************************************************************************)
(* The settings page (settings/page.tsx) and what it exports: the pools    *)
(* and the connected account's activity, both through stacks-api.  They    *)
(* are loaded together whenever the account changes; the load of an        *)
(* account left behind goes on, and its answer is dropped.                 *)
(*                                                                         *)
(* A read that fails answers with nothing and never rejects: the number of *)
(* pools, their batch and the activity each catch every failure of their   *)
(* own, so that the load, which has no catch, needs none.                  *)
(***************************************************************************)
EXTENDS Integers, Sequences, SequencesExt

CONSTANTS
  Accounts,      \* accounts of the wallet
  Transactions,  \* external: contract calls the transactions API lists
  Pools,         \* external: the pools of the contract, in the order of their ids
  BatchMax       \* external: most pools the contract answers in one batch

VARIABLES
  user,      \* the connected account
  loads,     \* loads in flight, the last one active
  data,      \* pools and activity of the page, and isLoadingData
  exported   \* the last file downloaded

settingsVars == <<user, loads, data, exported>>

Nobody == "nobody"
NoFile == [kind |-> "none", of |-> Nobody, rows |-> {}]

(***************************************************************************)
(* getMarkets: as many pools as there are, in one batch.                   *)
(***************************************************************************)
Batch(first, count) ==
  SubSeq(Pools, first, first + (IF count > BatchMax THEN BatchMax ELSE count) - 1)
GetMarkets(filter) ==
  LET raw == IF Len(Pools) = 0 THEN <<>> ELSE Batch(1, Len(Pools))
  IN  SelectSeq(raw, LAMBDA p : CASE filter = "active"  -> ~p.settled
                                  [] filter = "settled" -> p.settled
                                  [] OTHER -> TRUE)

(***************************************************************************)
(* getUserActivity: the account's calls of this contract, each described   *)
(* by the first event of a known name and by the arguments of the call; a  *)
(* figure of zero counts as missing.                                       *)
(***************************************************************************)
EventNames == {"bet-placed", "pool-created", "pool-settled", "winnings-claimed"}
NoEvent == [name |-> "", poolId |-> 0, amount |-> 0]
ParseContractEvents(tx) ==
  LET known == SelectSeq(tx.events, LAMBDA e : e.name \in EventNames)
  IN  IF known = <<>> THEN NoEvent ELSE known[1]

ActivityType(fn) ==
  CASE fn = "place_bet" -> "bet-placed"
    [] fn = "claim_winnings" -> "winnings-claimed"
    [] fn = "create_pool" -> "pool-created"
    [] OTHER -> "contract-call"
Or(a, b) == IF a = 0 THEN b ELSE a

Row(tx) ==
  LET event == ParseContractEvents(tx)
      amount == IF event.name \in {"bet-placed", "winnings-claimed"} THEN event.amount ELSE 0
  IN  [by |-> tx.by, type |-> ActivityType(tx.fn),
       amount |-> Or(amount, tx.args.amount), poolId |-> Or(event.poolId, tx.args.poolId)]
GetUserActivity(a) == {Row(tx) : tx \in {t \in Transactions : t.by = a /\ t.ours}}

(***************************************************************************)
(* The page.                                                               *)
(***************************************************************************)
Load(a, active) == [of |-> a, active |-> active]

SettingsInit ==
  /\ user = Nobody /\ loads = {Load(Nobody, TRUE)}
  /\ data = [pools |-> <<>>, activity |-> {}, loading |-> TRUE]
  /\ exported = NoFile

SettingsAccountChanges(a) ==
  /\ a # user /\ user' = a
  /\ loads' = {Load(l.of, FALSE) : l \in loads} \union {Load(a, TRUE)}
  /\ data' = [data EXCEPT !.loading = TRUE]
  /\ UNCHANGED exported

LoadAnswered(l) ==
  /\ loads' = loads \ {l}
  /\ IF ~l.active THEN UNCHANGED data
     ELSE \E pools \in {GetMarkets("all"), <<>>},
             activity \in {IF l.of = Nobody THEN {} ELSE GetUserActivity(l.of), {}} :
            data' = [pools |-> pools, activity |-> activity, loading |-> FALSE]
  /\ UNCHANGED <<user, exported>>

ExportPools ==
  /\ ~data.loading
  /\ exported' = [kind |-> "pools", of |-> user, rows |-> {p.id : p \in ToSet(data.pools)}]
  /\ UNCHANGED <<user, loads, data>>

ExportActivity ==
  /\ user # Nobody /\ ~data.loading
  /\ exported' = [kind |-> "activity", of |-> user, rows |-> data.activity]
  /\ UNCHANGED <<user, loads, data>>

SettingsNext ==
  \/ \E a \in Accounts \union {Nobody} : SettingsAccountChanges(a)
  \/ \E l \in loads : LoadAnswered(l)
  \/ ExportPools \/ ExportActivity

SettingsSpec == SettingsInit /\ [][SettingsNext]_settingsVars

------------------------------------------------------------------------------
\* A file of activity downloaded under an account holds that account's activity only,
\* however its loads and an earlier account's overlap (the active flag of the effect).
ExportIsMine ==
  exported.kind = "activity" => \A row \in exported.rows : row.by = exported.of
==============================================================================
