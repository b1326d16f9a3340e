----------------------------- MODULE WebUserData -----------------------------
(***************************************************************************)
(* The two hooks that show the connected account's data, useUserActivity   *)
(* and useActiveBets, while the account changes under them.  Each serves a *)
(* fresh cache entry of the account or starts a read; the first numbers    *)
(* its requests and drops the answer of any but the last, the second takes *)
(* every answer.                                                           *)
(***************************************************************************)
EXTENDS Integers

CONSTANT Addresses   \* accounts the user connects with

VARIABLES
  address,   \* the connected account
  cached,    \* user caches holding a fresh entry: <<"activity" or "dashboard", account>>
  activity,  \* useUserActivity: request number, loading, error, account shown, reads
  bets       \* useActiveBets

userVars == <<address, cached, activity, bets>>

NoOne == 0
QuietHook == [req |-> 0, shown |-> NoOne, loading |-> FALSE, error |-> FALSE, pending |-> {}]

UserInit ==
  /\ address = NoOne /\ cached = {}
  /\ activity = QuietHook /\ bets = QuietHook

Asked(h, a, req) ==
  [h EXCEPT !.req = req, !.loading = TRUE, !.error = FALSE,
            !.pending = @ \cup {[addr |-> a, req |-> req]}]

NextReq == (activity.req % 3) + 1   \* request numbers, reused once answered

\* The hook's state after fetchActivity for account a.
FetchedActivity(a) ==
  IF a = NoOne THEN [activity EXCEPT !.req = NextReq, !.shown = NoOne]
  ELSE IF <<"activity", a>> \in cached THEN [activity EXCEPT !.req = NextReq, !.shown = a]
  ELSE Asked(activity, a, NextReq)

FetchedBets(a) ==
  IF a = NoOne THEN [bets EXCEPT !.shown = NoOne]
  ELSE IF <<"dashboard", a>> \in cached
  THEN [bets EXCEPT !.shown = a, !.loading = FALSE, !.error = FALSE]
  ELSE Asked(bets, a, 0)

\* Bound: at most two reads of a hook are in flight.
CanFetchActivity ==
  /\ \A r \in activity.pending : r.req # NextReq
  /\ \A i, j \in activity.pending : i = j
CanFetchBets == \A i, j \in bets.pending : i = j

\* Polling, or refresh().
FetchActivity ==
  /\ address # NoOne /\ CanFetchActivity
  /\ activity' = FetchedActivity(address)
  /\ UNCHANGED <<cached, address, bets>>

\* mutant: every answer is taken
ActivityDoneAny(r) ==
  /\ r \in activity.pending
  /\ activity' = [activity EXCEPT !.shown = r.addr, !.loading = FALSE, !.pending = @ \ {r}]
  /\ cached' = cached \cup {<<"activity", r.addr>>}
  /\ UNCHANGED <<address, bets>>

FetchBets ==
  /\ address # NoOne /\ CanFetchBets
  /\ bets' = FetchedBets(address)
  /\ UNCHANGED <<cached, address, activity>>

ActivityDone(r) ==
  /\ r \in activity.pending
  /\ IF r.req = activity.req
     THEN /\ activity' = [activity EXCEPT !.shown = r.addr, !.loading = FALSE,
                                          !.pending = @ \ {r}]
          /\ cached' = cached \cup {<<"activity", r.addr>>}
     ELSE /\ activity' = [activity EXCEPT !.pending = @ \ {r}]
          /\ UNCHANGED cached
  /\ UNCHANGED <<address, bets>>

ActivityFails(r) ==
  /\ r \in activity.pending
  /\ activity' = IF r.req = activity.req
                 THEN [activity EXCEPT !.error = TRUE, !.loading = FALSE, !.pending = @ \ {r}]
                 ELSE [activity EXCEPT !.pending = @ \ {r}]
  /\ UNCHANGED <<cached, address, bets>>

BetsDone(r) ==
  /\ r \in bets.pending
  /\ bets' = [bets EXCEPT !.shown = r.addr, !.loading = FALSE, !.pending = @ \ {r}]
  /\ cached' = cached \cup {<<"dashboard", r.addr>>}
  /\ UNCHANGED <<address, activity>>

BetsFail(r) ==
  /\ r \in bets.pending
  /\ bets' = [bets EXCEPT !.error = TRUE, !.loading = FALSE, !.pending = @ \ {r}]
  /\ UNCHANGED <<cached, address, activity>>

\* The connected account changes: useUserActivity fetches for the new account at
\* once, useActiveBets only when its polling becomes enabled.
SwitchAccount(a) ==
  /\ a # address /\ CanFetchActivity /\ CanFetchBets
  /\ address' = a
  /\ activity' = FetchedActivity(a)
  /\ bets' = IF address = NoOne THEN FetchedBets(a) ELSE bets
  /\ UNCHANGED cached

\* Time to live passed, or a mutation invalidated the entry.
Expire(k) == k \in cached /\ cached' = cached \ {k} /\ UNCHANGED <<address, activity, bets>>

UserNext ==
  \/ FetchActivity \/ FetchBets
  \/ \E r \in activity.pending : ActivityDone(r) \/ ActivityFails(r)
  \/ \E r \in bets.pending : BetsDone(r) \/ BetsFail(r)
  \/ \E a \in Addresses \cup {NoOne} : SwitchAccount(a)
  \/ \E k \in cached : Expire(k)

UserSpec == UserInit /\ [][UserNext]_userVars

\* Another account's activity is on screen only while the account's own is being
\* read, or beside the error of that read: the answer to an overtaken request is
\* dropped, also after the account has changed.
ActivityHonest ==
  activity.shown \in {NoOne, address} \/ activity.loading \/ activity.error


=============================================================================
