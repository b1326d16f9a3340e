------------------------------ MODULE WebSession ------------------------------
(***************************************************************************)
(* The wallet session of a page: createFreighterAdapter keeps the account, *)
(* WalletAdapterProvider mirrors it in React state and remembers in        *)
(* localStorage that the user was connected, WalletButton and AuthGuard    *)
(* start connections, useNetworkMismatch and useWalletConnect read the     *)
(* network and the balance once connected.  The Freighter extension is     *)
(* external: it may be missing when the page loads, it answers a request   *)
(* for the public key late, never, or with a refusal, and its user changes *)
(* account and network at will.  Other tabs of the site share localStorage *)
(* and write the flag when they connect and disconnect.                    *)
(***************************************************************************)
EXTENDS Integers, FiniteSets

CONSTANTS
  Accounts,     \* accounts of the extension
  MaxConnects   \* bound: requests for the key in flight

VARIABLES
  extension,  \* external: installed, active account, network matching the page's
  session,    \* address (of the adapter and of the context), isLoading
  connects,   \* calls of connect waiting for the key
  persisted,  \* the flag in localStorage; a ghost: the last write was this tab's
  network,    \* useNetworkMismatch: isMismatch, check in flight
  balance     \* useWalletConnect: account whose balance is shown, reads in flight

sessionVars == <<extension, session, connects, persisted, network, balance>>

Nobody == 0
NoSession == [address |-> Nobody, loading |-> FALSE]
Connected == session.address # Nobody

\* isMismatch, and the checks in flight with the answer each saw.
NoNetwork == [mismatch |-> FALSE, checks |-> {}]
\* The account whose read is not cancelled, and those of the cancelled reads.
NoBalance == [of |-> Nobody, live |-> Nobody, cancelled |-> {}]
Kept(flag) == [flag |-> flag, here |-> TRUE]

\* A first visit: nothing is remembered.
SessionInit ==
  /\ extension \in [installed : BOOLEAN, account : Accounts, matches : BOOLEAN]
  /\ session = NoSession /\ connects = 0
  /\ persisted = Kept(FALSE)
  /\ network = NoNetwork /\ balance = NoBalance

(***************************************************************************)
(* connect: the request for the key prompts the user.  Nothing disables    *)
(* the buttons meanwhile, and the 15 s of WalletButton only raise a toast. *)
(***************************************************************************)
AskKey ==
  /\ extension.installed /\ connects < MaxConnects
  /\ connects' = connects + 1
  /\ session' = [session EXCEPT !.loading = TRUE]

\* WalletButton shows Connect only while disconnected, and FreighterInstallPrompt
\* instead when the extension is missing; AuthGuard's button is the same call.
Connect ==
  /\ ~Connected /\ AskKey
  /\ UNCHANGED <<extension, persisted, network, balance>>

\* The effects that depend on isConnected and address run when they change: the
\* network is checked anew, the read of the balance under way is cancelled and one of
\* the new address begun; the balance shown goes only with the connection.
Effects(old, new) ==
  /\ network' = IF (old = Nobody) = (new = Nobody) THEN network
                ELSE IF new = Nobody THEN [network EXCEPT !.mismatch = FALSE]
                ELSE [network EXCEPT !.checks = @ \cup {~extension.matches}]
  /\ balance' = IF old = new THEN balance
                ELSE [of |-> IF new = Nobody THEN Nobody ELSE balance.of, live |-> new,
                      cancelled |-> balance.cancelled \cup ({balance.live} \ {Nobody})]

\* The wallet gives the key of its active account.
KeyGiven ==
  /\ connects > 0 /\ connects' = connects - 1
  /\ session' = [address |-> extension.account, loading |-> FALSE]
  /\ persisted' = Kept(TRUE)
  /\ Effects(session.address, extension.account)
  /\ UNCHANGED extension

\* The user refuses, or the wallet fails.
KeyRefused ==
  /\ connects > 0 /\ connects' = connects - 1
  /\ session' = NoSession
  /\ persisted' = Kept(FALSE)
  /\ Effects(session.address, Nobody)
  /\ UNCHANGED extension

Disconnect ==
  /\ Connected
  /\ session' = [session EXCEPT !.address = Nobody]
  /\ persisted' = Kept(FALSE)
  /\ Effects(session.address, Nobody)
  /\ UNCHANGED <<extension, connects>>

\* checkNetwork answers, or throws and leaves what is shown.
NetworkKnown(m) ==
  /\ m \in network.checks
  /\ \/ network' = [mismatch |-> m, checks |-> network.checks \ {m}]
     \/ network' = [network EXCEPT !.checks = @ \ {m}]
  /\ UNCHANGED <<extension, session, connects, persisted, balance>>

\* The balance of the account, or 0 when the read fails.
BalanceKnown ==
  /\ balance.live # Nobody
  /\ balance' = [balance EXCEPT !.of = balance.live, !.live = Nobody]
  /\ UNCHANGED <<extension, session, connects, persisted, network>>

\* A mutation: the answer of a cancelled read is shown as well.
CancelledShown(a) ==
  /\ a \in balance.cancelled
  /\ balance' = [balance EXCEPT !.of = a, !.cancelled = @ \ {a}]
  /\ UNCHANGED <<extension, session, connects, persisted, network>>

\* A cancelled read answers or fails, and is dropped.
CancelledAnswers(a) ==
  /\ a \in balance.cancelled
  /\ balance' = [balance EXCEPT !.cancelled = @ \ {a}]
  /\ UNCHANGED <<extension, session, connects, persisted, network>>

(***************************************************************************)
(* The page is loaded again: state is lost, the flag is not, and a         *)
(* remembered connection is asked for when the extension is there.         *)
(***************************************************************************)
Reload ==
  /\ LET restores == persisted.flag /\ extension.installed
     IN  /\ connects' = IF restores THEN 1 ELSE 0
         /\ session' = [NoSession EXCEPT !.loading = restores]
  /\ network' = NoNetwork /\ balance' = NoBalance
  /\ UNCHANGED <<extension, persisted>>

\* External: the extension's user, at any time.
Extension ==
  /\ extension' \in [installed : BOOLEAN, account : Accounts, matches : BOOLEAN]
  /\ extension'.installed \/ connects = 0
  /\ UNCHANGED <<session, connects, persisted, network, balance>>

\* External: another tab of the site connects or disconnects; this one is not told.
OtherTab ==
  /\ \E flag \in BOOLEAN : persisted' = [flag |-> flag, here |-> FALSE]
  /\ UNCHANGED <<extension, session, connects, network, balance>>

SessionNext ==
  \/ Connect \/ KeyGiven \/ KeyRefused \/ Disconnect \/ BalanceKnown \/ Reload
  \/ Extension \/ OtherTab
  \/ \E m \in BOOLEAN : NetworkKnown(m)
  \/ \E a \in Accounts : CancelledAnswers(a)

SessionSpec == SessionInit /\ [][SessionNext]_sessionVars

\* A connection is remembered, so that a reload asks for it again, exactly while
\* it lasts or is being restored: a refusal or a disconnect during any overlap of
\* connects forgets it.  (A connection remembered by a page that found no
\* extension is neither; and what another tab has written since is not this tab's:
\* its disconnect makes the next reload of a tab that stays connected forget.)
RememberedWhileConnected ==
  persisted.here =>
    /\ Connected => persisted.flag
    /\ persisted.flag /\ ~Connected /\ connects > 0 => session.loading

\* The balance on screen is the connected account's, once a read of it has answered,
\* however late the reads of other accounts answer; without a connection none is
\* shown.  The exception is in the code: the effect that begins the read of the new
\* address does not clear the balance, so the one of the account left behind stays
\* on screen while the read is under way.
BalanceOfAccount ==
  /\ Connected => balance.of = session.address \/ balance.live = session.address
  /\ ~Connected => balance.of = Nobody /\ balance.live = Nobody

=============================================================================
