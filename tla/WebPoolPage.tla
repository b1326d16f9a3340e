----------------------------- MODULE WebPoolPage -----------------------------
(***************************************************************************)
(* The page of one market (markets/[id]/page.tsx) with its BettingSection. *)
(* The page reads the pool once, the account's stakes when the account     *)
(* changes, and both again after a bet; a bet is added to the totals shown *)
(* before the ledger is read.  Requests are answered in any order, and a   *)
(* read that fails answers as if there were nothing: predinexReadApi logs  *)
(* and returns null.  Of the stakes only whose they are is kept.  The      *)
(* transaction of a bet, and the claim button, are WebTransactions'        *)
(* subject: here a bet ends in success or failure.                         *)
(***************************************************************************)
EXTENDS Integers, FiniteSets, Sequences, FiniteSetsExt

CONSTANTS
  Accounts,     \* accounts of the wallet
  MinBet, MaxBet, Balance,  \* limits of the pool (0: none) and the wallet's balance
  Entries,      \* amounts typed into the form
  FailingReads, \* kinds of request whose reads may fail
  MaxReads,     \* bound: reads in flight
  MaxBets,      \* bound: bets of this page
  MaxTotal      \* bound: stakes at which others stop betting

VARIABLES
  ledger,   \* external: totals and status of the pool
  user,     \* the connected account
  shown,    \* the page's state: pool, userBet, isLoading, isRefreshing
  reads,    \* requests in flight
  form,     \* betAmount of BettingSection
  bet,      \* the bet under way and how many were sent
  timers    \* refreshes due 3 s after a bet

pageVars == <<ledger, user, shown, reads, form, bet, timers>>

Nobody == "nobody"
Sides == {0, 1}
Nothing == [s \in Sides |-> 0]
NoPool == [totals |-> Nothing, status |-> "none", limited |-> FALSE]
NoBet == [phase |-> "none", side |-> 0, amount |-> 0, of |-> Nobody,
          refreshing |-> FALSE]

PoolOnLedger(limited) ==
  [totals |-> ledger.totals, status |-> ledger.status, limited |-> limited]

\* A request: what it asks for, on whose account, and the answer it carries.
Request(i, kind, a) ==
  [id |-> i, kind |-> kind, of |-> a, phase |-> "asked", pool |-> NoPool,
   userBet |-> Nobody]
FreeId == Min((1 .. MaxReads + 1) \ {r.id : r \in reads})
RoomToRead == FreeId <= MaxReads

PageInit ==
  /\ ledger = [totals |-> Nothing, status |-> "active"]
  /\ user = Nobody
  /\ shown = [pool |-> NoPool, userBet |-> Nobody, loading |-> TRUE, refreshing |-> FALSE]
  /\ reads = {Request(1, "load", Nobody)}
  /\ form = 0 /\ bet = [now |-> NoBet, sent |-> 0] /\ timers = <<>>

(***************************************************************************)
(* The ledger: others bet, and the pool stops being open.                  *)
(***************************************************************************)
OthersBet(s) ==
  /\ ledger.status = "active" /\ ledger.totals[0] + ledger.totals[1] < MaxTotal
  /\ ledger' = [ledger EXCEPT !.totals[s] = @ + 1]
  /\ UNCHANGED <<user, shown, reads, form, bet, timers>>

StatusMoves ==
  /\ ledger.status = "active"
  /\ ledger' = [ledger EXCEPT !.status = "expired"]
  /\ UNCHANGED <<user, shown, reads, form, bet, timers>>

(***************************************************************************)
(* The account changes: without one the stakes are cleared, with one they  *)
(* are asked for; a read already in flight is not cancelled.               *)
(***************************************************************************)
AccountChanges(a) ==
  /\ a # user /\ user' = a
  /\ IF a = Nobody
       THEN /\ shown' = [shown EXCEPT !.userBet = Nobody]
            /\ UNCHANGED reads
       ELSE /\ RoomToRead
            /\ reads' = reads \union {Request(FreeId, "stakes", a)}
            /\ UNCHANGED shown
  /\ UNCHANGED <<ledger, form, bet, timers>>

\* The RPC node answers from the ledger it sees; each read of a request may fail,
\* the pool's and its limits', or the stakes'.
MayFail(r, nothing) == IF r.kind \in FailingReads THEN {nothing} ELSE {}
PoolAnswers(r) ==
  IF r.kind = "stakes" THEN {NoPool}
  ELSE {PoolOnLedger(TRUE)} \union MayFail(r, NoPool) \union MayFail(r, PoolOnLedger(FALSE))
Serve(r) ==
  /\ r.phase = "asked"
  /\ \E pool \in PoolAnswers(r), userBet \in {r.of} \union MayFail(r, Nobody) :
       reads' = (reads \ {r}) \union
                {[r EXCEPT !.phase = "served", !.pool = pool, !.userBet = userBet]}
  /\ UNCHANGED <<ledger, user, shown, form, bet, timers>>

(***************************************************************************)
(* The answers.  The first read replaces the skeleton by the pool, or by   *)
(* "Pool Not Found"; the read of the stakes is shown whoever is connected. *)
(***************************************************************************)
LoadAnswered(r) ==
  /\ r.kind = "load" /\ r.phase = "served"
  /\ reads' = reads \ {r}
  /\ shown' = [shown EXCEPT !.pool = r.pool, !.loading = FALSE]
  /\ UNCHANGED <<ledger, user, form, bet, timers>>

StakesAnswered(r) ==
  /\ r.kind = "stakes" /\ r.phase = "served"
  /\ reads' = reads \ {r}
  /\ shown' = [shown EXCEPT !.userBet = r.userBet]
  /\ UNCHANGED <<ledger, user, form, bet, timers>>

(***************************************************************************)
(* refreshPoolData, as the render of view made it: its test of             *)
(* isRefreshing and its account are those of that render.                  *)
(***************************************************************************)
Refreshing(view) == [shown EXCEPT !.refreshing = @ \/ ~view.refreshing]
ReadsAfterRefresh(view) ==
  IF view.refreshing THEN reads ELSE reads \union {Request(FreeId, "refresh", view.of)}

\* mutant: whatever came replaces the pool
KeepWhatCame(r) == r.pool

\* The pool shown is replaced only by a pool, the stakes by whatever came.
KeepPool(r) == IF r.pool = NoPool THEN shown.pool ELSE r.pool
RefreshAnswered(r) ==
  /\ r.kind = "refresh" /\ r.phase = "served"
  /\ shown' = [shown EXCEPT !.pool = KeepPool(r), !.userBet = r.userBet,
                            !.refreshing = r.of # Nobody /\ @]
  /\ reads' = IF r.of = Nobody THEN reads \ {r}
              ELSE (reads \ {r}) \union {[r EXCEPT !.phase = "activity"]}
  /\ UNCHANGED <<ledger, user, form, bet, timers>>

\* The refresh of the activity it waited for is over.
RefreshEnds(r) ==
  /\ r.phase = "activity"
  /\ reads' = reads \ {r}
  /\ shown' = [shown EXCEPT !.refreshing = FALSE]
  /\ UNCHANGED <<ledger, user, form, bet, timers>>

(***************************************************************************)
(* What the page offers: BettingSection while the pool it shows is open.   *)
(***************************************************************************)
PoolShown == ~shown.loading /\ shown.pool # NoPool
NotFoundShown == ~shown.loading /\ shown.pool = NoPool
BettingShown == PoolShown /\ shown.pool.status = "active" /\ user # Nobody

(***************************************************************************)
(* BettingSection: the amount is checked as it is typed and again when the *)
(* button is pressed, against the limits and the balance it knows.         *)
(***************************************************************************)
HasMin == shown.pool.limited /\ MinBet > 0
HasMax == shown.pool.limited /\ MaxBet > 0
IsAmountInvalid ==
  \/ form = 0
  \/ HasMin /\ form < MinBet
  \/ HasMax /\ form > MaxBet
  \/ form > Balance
BelowMinBalance == HasMin /\ Balance < MinBet
IsBetting == bet.now.phase # "none"

EnterAmount(a) ==
  /\ BettingShown /\ ~IsBetting /\ ~BelowMinBalance
  /\ form' = a /\ form' # form
  /\ UNCHANGED <<ledger, user, shown, reads, bet, timers>>

QuickBet(pct) ==
  /\ BettingShown /\ ~IsBetting
  /\ form' = (Balance * pct) \div 100 /\ form' # form
  /\ UNCHANGED <<ledger, user, shown, reads, bet, timers>>

PlaceBet(s) ==
  /\ BettingShown /\ ~IsBetting
  /\ ~IsAmountInvalid /\ ~BelowMinBalance
  /\ bet.sent < MaxBets
  /\ bet' = [now |-> [phase |-> "sent", side |-> s, amount |-> form, of |-> user,
                      refreshing |-> shown.refreshing],
             sent |-> bet.sent + 1]
  /\ UNCHANGED <<ledger, user, shown, reads, form, timers>>

\* External: the contract takes the bet, or refuses it.
Accepts(b) ==
  /\ ledger.status = "active"
  /\ b.amount >= MinBet /\ (MaxBet = 0 \/ b.amount <= MaxBet)
BetLands ==
  /\ bet.now.phase = "sent" /\ Accepts(bet.now)
  /\ ledger' = [ledger EXCEPT !.totals[bet.now.side] = @ + bet.now.amount]
  /\ bet' = [bet EXCEPT !.now.phase = "landed"]
  /\ UNCHANGED <<user, shown, reads, form, timers>>

(***************************************************************************)
(* handleBetSuccess: the amount is added to the totals shown, the page is  *)
(* read at once and again after 3 s, both by the refreshPoolData of the    *)
(* render in which the button was pressed.                                 *)
(***************************************************************************)
Clicked == [refreshing |-> bet.now.refreshing, of |-> bet.now.of]
WithBet(pool) ==
  IF pool = NoPool THEN pool ELSE [pool EXCEPT !.totals[bet.now.side] = @ + bet.now.amount]
BetSucceeds ==
  /\ bet.now.phase = "landed" /\ RoomToRead
  /\ shown' = [Refreshing(Clicked) EXCEPT !.pool = WithBet(@)]
  /\ reads' = ReadsAfterRefresh(Clicked)
  /\ timers' = Append(timers, Clicked)
  /\ form' = 0 /\ bet' = [bet EXCEPT !.now = NoBet]
  /\ UNCHANGED <<ledger, user>>

\* The wallet, the network or the contract refuses, or the wait for the result
\* gives up although the bet is on the ledger.
BetFails ==
  /\ IsBetting
  /\ bet' = [bet EXCEPT !.now = NoBet]
  /\ UNCHANGED <<ledger, user, shown, reads, form, timers>>

TimerFires ==
  /\ timers # <<>> /\ RoomToRead
  /\ timers' = Tail(timers)
  /\ shown' = Refreshing(Head(timers)) /\ reads' = ReadsAfterRefresh(Head(timers))
  /\ UNCHANGED <<ledger, user, form, bet>>

Proceeds(r) ==
  Serve(r) \/ LoadAnswered(r) \/ StakesAnswered(r) \/ RefreshAnswered(r) \/ RefreshEnds(r)
PageReads == \E r \in reads : Proceeds(r)
PageNext ==
  \/ \E s \in Sides : OthersBet(s) \/ PlaceBet(s)
  \/ \E a \in Accounts \union {Nobody} : AccountChanges(a)
  \/ \E a \in Entries : EnterAmount(a)
  \/ \E pct \in {10, 25, 50, 100} : QuickBet(pct)
  \/ StatusMoves \/ PageReads \/ BetLands \/ BetSucceeds \/ BetFails
  \/ TimerFires

PageSpec == PageInit /\ [][PageNext]_pageVars

------------------------------------------------------------------------------
\* A market once shown stays on the page: a refresh that fails keeps it, where it
\* would read "Pool Not Found" under an open position (refreshPoolData).
KnownPoolStays == [][PoolShown => ~NotFoundShown']_pageVars


=============================================================================
