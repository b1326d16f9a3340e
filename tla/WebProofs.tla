------------------------------ MODULE WebProofs ------------------------------
(***************************************************************************)
(* The parts of the web client, proved for every value of their constants. *)
(* The parts share no state, so that each has an inductive invariant of    *)
(* its own: a step of WebApp is a step of one part and leaves the others.  *)
(***************************************************************************)
EXTENDS WebApp, Ranks, SumProofs, SequenceTheorems, TLAPS

-----------------------------------------------------------------------------
(* Polling.  A poll in flight is what the flag of the hook stands for; the *)
(* stray timers are as many as were armed beside another.                  *)

LEMMA PollingStep == [AppNext]_appVars => [Polling!PollNext]_pollVars
BY DEF AppNext, Step, Still, appVars

PollInv ==
  /\ pollRunning \in Nat /\ pollStray \in Nat
  /\ pollRunningRef => pollRunning > 0
  /\ Polling!PollingAlive

LEMMA PollInvKept == PollInv /\ [Polling!PollNext]_pollVars => PollInv'
<1> SUFFICES ASSUME PollInv, [Polling!PollNext]_pollVars PROVE PollInv' OBVIOUS
<1> USE DEF PollInv, Polling!PollingAlive
<1>1. CASE Polling!PollEnds BY <1>1 DEF Polling!PollEnds
<1>2. CASE Polling!TimerFires BY <1>2 DEF Polling!TimerFires, Polling!RunPoll
<1>3. CASE Polling!StrayFires BY <1>3 DEF Polling!StrayFires, Polling!RunPoll
<1>4. CASE Polling!Hide BY <1>4 DEF Polling!Hide, Polling!NoPoll
<1>5. CASE Polling!Show BY <1>5 DEF Polling!Show, Polling!RunPoll, Polling!NoPoll
<1>6. CASE Polling!Enable BY <1>6 DEF Polling!Enable, Polling!RunPoll, Polling!NoPoll
<1>7. CASE Polling!Disable BY <1>7 DEF Polling!Disable, Polling!NoPoll
<1>8. CASE Polling!Unmount BY <1>8 DEF Polling!Unmount, Polling!NoPoll
<1>9. CASE UNCHANGED pollVars BY <1>9 DEF pollVars
<1>10. QED
  BY <1>1, <1>2, <1>3, <1>4, <1>5, <1>6, <1>7, <1>8, <1>9 DEF Polling!PollNext

(* A visible, enabled poller has a poll or a timer, however hiding,        *)
(* focusing, disabling and overlapping polls follow each other.            *)
THEOREM PollingNeverDies == AppSpec => []PollingAlive
<1>1. AppInit => PollInv
  BY DEF AppInit, Polling!PollInit, PollInv, Polling!PollingAlive
<1>2. PollInv /\ [AppNext]_appVars => PollInv' BY PollingStep, PollInvKept
<1>3. PollInv => PollingAlive BY DEF PollInv, PollingAlive
<1>4. QED BY <1>1, <1>2, <1>3, PTL DEF AppSpec

-----------------------------------------------------------------------------
(* The process around the bot.  Only the present cycle's delivery is open, *)
(* and a notice is given up by the delivery of its own cycle.              *)

LEMMA BotStep == [AppNext]_appVars => [Bot!ServiceNext]_botVars
BY DEF AppNext, Step, Still, appVars

BotInv ==
  /\ botPoller \in [running : BOOLEAN, does : {"nothing", "cycle", "notify", "sleep"}, cycles : Nat]
  /\ botWebhooks \in [received : SUBSET Nat, givenUp : SUBSET Nat, dead : SUBSET Nat,
                      unrecorded : SUBSET Nat]
  /\ \A c \in botWebhooks.givenUp : c <= botPoller.cycles
  /\ botPoller.does \in {"cycle", "notify"} => botPoller.cycles \notin botWebhooks.givenUp
  /\ botAttempt \in Nat /\ (botAttempt > 0 => botPoller.does = "notify")
  /\ botWebhooks.givenUp \subseteq botWebhooks.dead \cup botWebhooks.unrecorded
  /\ botProcess = "starting" =>
       botPoller.does = "nothing" /\ botAttempt = 0 /\ botWebhooks.givenUp = {}

LEMMA BotInvKept == BotInv /\ [Bot!ServiceNext]_botVars => BotInv'
<1> SUFFICES ASSUME BotInv, [Bot!ServiceNext]_botVars PROVE BotInv' OBVIOUS
<1> USE DEF BotInv
<1>1. ASSUME UNCHANGED <<botPoller, botAttempt, botWebhooks>>,
             botProcess' # "starting" \/ UNCHANGED botProcess
      PROVE  BotInv'
  BY <1>1
<1>2. CASE Bot!Main
  <2>1. CASE Bot!Exit BY <1>1, <2>1 DEF Bot!Exit
  <2>2. CASE botPoller' = [running |-> TRUE, does |-> "cycle", cycles |-> 1]
             /\ botProcess' = "up" /\ UNCHANGED <<botAttempt, botWebhooks>>
    <3>1. botWebhooks.givenUp = {} /\ botAttempt = 0 BY <1>2 DEF Bot!Main
    <3>2. botPoller' \in [running : BOOLEAN, does : {"nothing", "cycle", "notify", "sleep"}, cycles : Nat]
      BY <2>2
    <3>3. QED BY <2>2, <3>1, <3>2
  <2>3. QED BY <1>2, <2>1, <2>2 DEF Bot!Main
<1>3. ASSUME NEW b \in BOOLEAN, Bot!CycleDone(b) PROVE BotInv'
  BY <1>3 DEF Bot!CycleDone, Bot!Rest, Bot!Loop
<1>4. CASE Bot!Delivered
  BY <1>4 DEF Bot!Delivered, Bot!Rest, Bot!Loop, Bot!Received
<1>5. ASSUME NEW received \in BOOLEAN, NEW refused \in BOOLEAN, Bot!AttemptFails(received, refused)
      PROVE  BotInv'
  <2>1. ASSUME NEW written \in BOOLEAN, Bot!GiveUp(received, refused, written) PROVE BotInv'
    BY <1>5, <2>1 DEF Bot!AttemptFails, Bot!GiveUp, Bot!Rest, Bot!Loop, Bot!Received
  <2>2. CASE botAttempt' = botAttempt + 1
             /\ botWebhooks' = [botWebhooks EXCEPT !.received = Bot!Received(received)]
             /\ UNCHANGED <<botProcess, botPoller>>
    BY <1>5, <2>2 DEF Bot!AttemptFails, Bot!Received
  <2>3. QED BY <1>5, <2>1, <2>2 DEF Bot!AttemptFails
<1>6. CASE Bot!Wake
  <2>1. botPoller' = [botPoller EXCEPT !.does = "cycle", !.cycles = @ + 1]
        /\ UNCHANGED <<botProcess, botAttempt, botWebhooks>> /\ botPoller.does = "sleep"
    BY <1>6 DEF Bot!Wake
  <2>2. /\ botPoller' \in [running : BOOLEAN, does : {"nothing", "cycle", "notify", "sleep"}, cycles : Nat]
        /\ botPoller'.cycles = botPoller.cycles + 1
        /\ botPoller'.does = "cycle"
    <3> DEFINE woken == [botPoller EXCEPT !.does = "cycle"]
    <3>1. woken \in [running : BOOLEAN, does : {"nothing", "cycle", "notify", "sleep"}, cycles : Nat]
          /\ woken.does = "cycle" /\ woken.cycles = botPoller.cycles
      OBVIOUS
    <3>2. botPoller' = [woken EXCEPT !.cycles = botPoller.cycles + 1] BY <2>1
    <3> HIDE DEF woken
    <3>3. QED BY <3>1, <3>2
  <2>3. \A c \in botWebhooks.givenUp : c \in Nat /\ c < botPoller'.cycles BY <2>2
  <2>4. botProcess = "starting" => botPoller.does = "nothing" OBVIOUS
  <2>5. QED BY <2>1, <2>2, <2>3, <2>4
<1>7. CASE Bot!Shutdown BY <1>7 DEF Bot!Shutdown
<1>8. CASE \/ Bot!ServerClosed \/ Bot!EventLoopEmpty \/ Bot!HealthRequest \/ Bot!HealthAnswer
           \/ Bot!Uncaught \/ Bot!Killed
  BY <1>1, <1>8 DEF Bot!ServerClosed, Bot!EventLoopEmpty, Bot!HealthRequest, Bot!HealthAnswer,
                    Bot!Uncaught, Bot!Killed, Bot!Exit
<1>9. CASE UNCHANGED botVars BY <1>1, <1>9 DEF botVars
<1>10. QED BY <1>2, <1>3, <1>4, <1>5, <1>6, <1>7, <1>8, <1>9 DEF Bot!ServiceNext

(* A webhook given up is on record, unless the record could not be         *)
(* written, and no delivery of a cycle that was given up is still open.    *)
THEOREM NoticesAreKept == AppSpec => []NoticesKept
<1>1. AppInit => BotInv BY DEF AppInit, Bot!ServiceInit, BotInv
<1>2. BotInv /\ [AppNext]_appVars => BotInv' BY BotStep, BotInvKept
<1>3. BotInv => NoticesKept BY DEF BotInv, NoticesKept, Bot!NoticesKept
<1>4. QED BY <1>1, <1>2, <1>3, PTL DEF AppSpec

-----------------------------------------------------------------------------
(* The wallet session.  The flag is set with the address, a restored       *)
(* connection is loading until its last request is answered, and the read  *)
(* of a balance follows the address.                                       *)

LEMMA SessionStep == [AppNext]_appVars => [Session!SessionNext]_sessionVars
BY DEF AppNext, Step, Still, appVars

Extensions == [installed : BOOLEAN, account : SessionAccounts, matches : BOOLEAN]

\* A balance b beside the address a: a live read is of a, and a's balance is shown or
\* being read.
BalanceFollows(b, a) ==
  /\ b \in [of : SessionAccounts \cup {0}, live : SessionAccounts \cup {0},
            cancelled : SUBSET SessionAccounts]
  /\ b.live \in {0, a}
  /\ a # 0 => b.of = a \/ b.live = a
  /\ a = 0 => b.of = 0

SessionInv ==
  /\ sessionExtension \in Extensions
  /\ sessionSession \in [address : SessionAccounts \cup {0}, loading : BOOLEAN]
  /\ sessionConnects \in Nat /\ sessionPersisted \in [flag : BOOLEAN, here : BOOLEAN]
  /\ sessionPersisted.here /\ sessionSession.address # 0 => sessionPersisted.flag
  /\ sessionPersisted.here /\ sessionPersisted.flag /\ sessionSession.address = 0
       /\ sessionConnects > 0 => sessionSession.loading
  /\ BalanceFollows(sessionBalance, sessionSession.address)

LEMMA EffectsKeep ==
  ASSUME NEW old, NEW new \in SessionAccounts \cup {0}, Session!Effects(old, new),
         BalanceFollows(sessionBalance, old)
  PROVE  BalanceFollows(sessionBalance', new)
<1>1. CASE old = new BY <1>1 DEF Session!Effects
<1>2. CASE old # new
  BY <1>2 DEF Session!Effects, Session!Nobody, BalanceFollows
<1>3. QED BY <1>1, <1>2

LEMMA SessionInvKept == SessionInv /\ [Session!SessionNext]_sessionVars => SessionInv'
<1> SUFFICES ASSUME SessionInv, [Session!SessionNext]_sessionVars PROVE SessionInv' OBVIOUS
<1> USE DEF SessionInv, Session!Nobody, Session!Connected, Session!NoSession
<1>1. CASE Session!Connect
  <2>1. /\ sessionSession' = [sessionSession EXCEPT !.loading = TRUE]
        /\ sessionConnects' = sessionConnects + 1
        /\ UNCHANGED <<sessionExtension, sessionPersisted, sessionBalance>>
    BY <1>1 DEF Session!Connect, Session!AskKey
  <2>2. /\ sessionSession' \in [address : SessionAccounts \cup {0}, loading : BOOLEAN]
        /\ sessionSession'.address = sessionSession.address /\ sessionSession'.loading
    BY <2>1
  <2>3. QED BY <2>1, <2>2
<1>2. CASE Session!KeyGiven
  <2>1. sessionExtension.account \in SessionAccounts BY DEF Extensions
  <2>2. BalanceFollows(sessionBalance', sessionExtension.account)
    BY <1>2, <2>1, EffectsKeep DEF Session!KeyGiven
  <2>3. QED BY <1>2, <2>1, <2>2, AppAssumption DEF Session!KeyGiven, Session!Kept
<1>3. CASE Session!KeyRefused
  <2>1. BalanceFollows(sessionBalance', 0)
    BY <1>3, EffectsKeep DEF Session!KeyRefused
  <2>2. /\ sessionSession' = [address |-> 0, loading |-> FALSE] /\ sessionConnects' \in Nat
        /\ UNCHANGED sessionExtension /\ sessionPersisted' = [flag |-> FALSE, here |-> TRUE]
    BY <1>3 DEF Session!KeyRefused, Session!Kept
  <2>3. QED BY <2>1, <2>2
<1>4. CASE Session!Disconnect
  <2>1. BalanceFollows(sessionBalance', 0)
    BY <1>4, EffectsKeep DEF Session!Disconnect
  <2>2. QED BY <1>4, <2>1 DEF Session!Disconnect, Session!Kept
<1>5. CASE Session!BalanceKnown
  <2>1. BalanceFollows(sessionBalance', sessionSession.address)
    BY <1>5 DEF Session!BalanceKnown, BalanceFollows
  <2>2. QED BY <1>5, <2>1 DEF Session!BalanceKnown
<1>6. CASE Session!Reload
  <2> DEFINE restores == sessionPersisted.flag /\ sessionExtension.installed
  <2>1. /\ sessionConnects' = (IF restores THEN 1 ELSE 0)
        /\ sessionSession' = [address |-> 0, loading |-> restores]
        /\ sessionBalance' = [of |-> 0, live |-> 0, cancelled |-> {}]
        /\ UNCHANGED <<sessionExtension, sessionPersisted>>
    BY <1>6 DEF Session!Reload, Session!NoBalance
  <2>2. restores \in BOOLEAN OBVIOUS
  <2>3. sessionSession' \in [address : SessionAccounts \cup {0}, loading : BOOLEAN]
        /\ sessionSession'.address = 0 /\ (sessionConnects' > 0 => sessionSession'.loading)
    BY <2>1, <2>2
  <2>4. BalanceFollows(sessionBalance', 0) BY <2>1 DEF BalanceFollows
  <2>5. QED BY <2>1, <2>3, <2>4
<1>7. CASE Session!Extension BY <1>7 DEF Session!Extension, Extensions
<1>8. ASSUME NEW m \in BOOLEAN, Session!NetworkKnown(m) PROVE SessionInv'
  BY <1>8 DEF Session!NetworkKnown
<1>9. ASSUME NEW a \in SessionAccounts, Session!CancelledAnswers(a) PROVE SessionInv'
  <2>1. BalanceFollows(sessionBalance', sessionSession.address)
    BY <1>9 DEF Session!CancelledAnswers, BalanceFollows
  <2>2. QED BY <1>9, <2>1 DEF Session!CancelledAnswers
<1>10. CASE Session!OtherTab BY <1>10 DEF Session!OtherTab
<1>11. CASE UNCHANGED sessionVars BY <1>11 DEF sessionVars
<1>12. QED
  BY <1>1, <1>2, <1>3, <1>4, <1>5, <1>6, <1>7, <1>8, <1>9, <1>10, <1>11 DEF Session!SessionNext

LEMMA SessionInvariant == AppSpec => []SessionInv
<1>1. AppInit => SessionInv
  <2> SUFFICES ASSUME Session!SessionInit PROVE SessionInv BY DEF AppInit
  <2>1. /\ sessionExtension \in Extensions /\ sessionSession = [address |-> 0, loading |-> FALSE]
        /\ sessionConnects = 0 /\ sessionPersisted = [flag |-> FALSE, here |-> TRUE]
        /\ sessionBalance = [of |-> 0, live |-> 0, cancelled |-> {}]
    BY DEF Session!SessionInit, Extensions, Session!NoSession, Session!Nobody, Session!NoBalance,
           Session!Kept
  <2>2. QED BY <2>1 DEF SessionInv, BalanceFollows
<1>2. SessionInv /\ [AppNext]_appVars => SessionInv' BY SessionStep, SessionInvKept
<1>3. QED BY <1>1, <1>2, PTL DEF AppSpec

-----------------------------------------------------------------------------
(* The filters and the address.  Every filter is a trimmed text and a      *)
(* rest, none of them the absent navigation.                               *)

LEMMA AddressStep == [AppNext]_appVars => [Address!AddressNext]_addrVars
BY DEF AppNext, Step, Still, appVars

Typeable == AddrTexts \cup {""}
Trimmed == {Address!Trim(t) : t \in Typeable}
AnyFilters == [search : Trimmed, rest : AddrRests \cup {"all"}]

AddressInv ==
  /\ addrFilters \in AnyFilters /\ addrUrl \in AnyFilters
  /\ addrGoing \in AnyFilters \cup {Address!Nowhere}
  /\ addrBox \in Typeable \cup Trimmed
  /\ addrAt = "/markets" =>
       /\ addrGoing = Address!Nowhere => addrUrl = addrFilters
       /\ ~addrDebounce => Address!Trim(addrBox) = addrFilters.search

LEMMA Trims ==
  /\ \A t \in Trimmed : Address!Trim(t) = t
  /\ \A t \in Typeable \cup Trimmed : Address!Trim(t) \in Trimmed
  /\ "" \in Trimmed
BY DEF Trimmed, Typeable, Address!Trim

LEMMA NowhereIsNoFilter == Address!Nowhere \notin AnyFilters
BY AppAssumption DEF Address!Nowhere, AnyFilters

(* The hook and the box, when a change of the filters renders the page.    *)
LEMMA SetFiltersKeeps ==
  ASSUME AddressInv, NEW f \in AnyFilters, Address!SetFilters(f), UNCHANGED <<addrAt, addrUrl>>,
         \/ addrDebounce' = (addrDebounce \/ addrBox' # addrBox)
         \/ addrDebounce' = (addrBox' # addrBox) /\ f.search = Address!Trim(addrBox)
  PROVE  AddressInv'
<1>1. f.search \in Trimmed /\ addrFilters.search \in Trimmed BY DEF AddressInv, AnyFilters
<1>2. addrBox' \in Typeable \cup Trimmed BY <1>1 DEF AddressInv, Address!SetFilters
<1>3. addrGoing' \in AnyFilters \cup {Address!Nowhere}
      /\ (addrGoing' = Address!Nowhere => f = addrUrl)
  BY NowhereIsNoFilter DEF AddressInv, Address!SetFilters, Address!Mirrored
<1>4. ASSUME addrAt = "/markets", ~addrDebounce' PROVE Address!Trim(addrBox') = f.search
  <2>1. addrBox' = addrBox BY <1>4
  <2>2. CASE ~addrDebounce
    <3>1. Address!Trim(addrBox) = addrFilters.search BY <1>4, <2>2 DEF AddressInv
    <3>2. CASE f.search # addrFilters.search
      BY <1>1, <2>1, <3>1, <3>2, Trims DEF Address!SetFilters
    <3>3. QED BY <2>1, <3>1, <3>2
  <2>3. CASE f.search = Address!Trim(addrBox) BY <2>1, <2>3
  <2>4. QED BY <1>4, <2>2, <2>3
<1>5. addrFilters' = f BY DEF Address!SetFilters
<1>6. QED BY <1>2, <1>3, <1>4, <1>5 DEF AddressInv

LEMMA AddressInvKept == AddressInv /\ [Address!AddressNext]_addrVars => AddressInv'
<1> SUFFICES ASSUME AddressInv, [Address!AddressNext]_addrVars PROVE AddressInv' OBVIOUS
<1>1. Address!Filters \subseteq AnyFilters /\ Address!DefaultFilters \in AnyFilters
  <2>1. {Address!Trim(t) : t \in AddrTexts} \subseteq Trimmed BY DEF Trimmed, Typeable
  <2>2. QED BY <2>1, Trims DEF Address!Filters, Address!DefaultFilters, AnyFilters
<1>2. \A s \in Trimmed : /\ [addrFilters EXCEPT !.search = s] \in AnyFilters
                         /\ [addrFilters EXCEPT !.search = s].search = s
                         /\ [addrUrl EXCEPT !.search = s] \in AnyFilters
  BY DEF AddressInv, AnyFilters
<1>3. \A r \in AddrRests : /\ [addrFilters EXCEPT !.rest = r] \in AnyFilters
                           /\ [addrUrl EXCEPT !.rest = r] \in AnyFilters
  BY DEF AddressInv, AnyFilters
<1>4. ASSUME NEW f \in AnyFilters, Address!UpdateFilters(f) PROVE AddressInv'
  BY <1>4, SetFiltersKeeps DEF Address!UpdateFilters
<1>5. ASSUME NEW f \in AnyFilters, Address!SyncPools(f), addrBox' \in Typeable \cup Trimmed
      PROVE  AddressInv'
  BY <1>5 DEF Address!SyncPools, Address!Mirrored, AddressInv
<1>6. ASSUME NEW t \in AddrTexts, Address!TypeText(t) PROVE AddressInv'
  BY <1>6 DEF Address!TypeText, AddressInv, Typeable
<1>7. CASE Address!Debounced
  <2>1. Address!Trim(addrBox) \in Trimmed BY Trims DEF AddressInv
  <2>2. QED BY <1>2, <1>7, <2>1, SetFiltersKeeps DEF Address!Debounced
<1>8. CASE Address!ClearBox
  <2> DEFINE f == [addrFilters EXCEPT !.search = ""]
  <2>1. f \in AnyFilters BY <1>2, Trims
  <2> HIDE DEF f
  <2>2. /\ addrFilters' = f /\ addrGoing' = IF f # addrUrl THEN f ELSE addrGoing
        /\ addrBox' = "" /\ addrDebounce' /\ UNCHANGED <<addrAt, addrUrl>>
    BY <1>8 DEF Address!ClearBox, Address!Mirrored, f
  <2>3. QED BY <2>1, <2>2, NowhereIsNoFilter DEF AddressInv, Typeable
<1>9. CASE Address!Commit
  <2>1. addrGoing \in AnyFilters BY <1>9 DEF Address!Commit, AddressInv
  <2>2. addrGoing.search \in Trimmed BY <2>1 DEF AnyFilters
  <2>3. CASE addrAt = "/markets"
    <3>1. /\ addrUrl' = addrGoing /\ addrFilters' = addrGoing /\ addrAt' = addrAt
          /\ addrGoing' = IF addrFilters # addrGoing THEN addrFilters ELSE Address!Nowhere
          /\ addrBox' = IF addrGoing.search # addrFilters.search THEN addrGoing.search ELSE addrBox
          /\ addrDebounce' = (addrDebounce \/ addrBox' # addrBox)
      BY <1>9, <2>3 DEF Address!Commit
    <3>2. ASSUME ~addrDebounce' PROVE Address!Trim(addrBox') = addrGoing.search
      <4>1. addrBox' = addrBox /\ Address!Trim(addrBox) = addrFilters.search
        BY <2>3, <3>1, <3>2 DEF AddressInv
      <4>2. QED BY <2>2, <3>1, <4>1, Trims
    <3>3. addrGoing' \in AnyFilters \cup {Address!Nowhere} /\ addrBox' \in Typeable \cup Trimmed
      BY <2>2, <3>1 DEF AddressInv
    <3>4. QED BY <2>1, <3>1, <3>2, <3>3 DEF AddressInv
  <2>4. CASE addrAt # "/markets" BY <1>9, <2>1, <2>2, <2>4 DEF Address!Commit, AddressInv
  <2>5. QED BY <2>3, <2>4
<1>10. ASSUME NEW f \in AnyFilters, Address!FollowLink(f) PROVE AddressInv'
  BY <1>10, NowhereIsNoFilter DEF Address!FollowLink, AddressInv
<1>11. ASSUME NEW t \in AddrTexts, Address!CommitSearch(t) PROVE AddressInv'
  <2>1. t \in Typeable /\ Address!Trim(t) \in Trimmed BY Trims DEF Typeable
  <2>2. QED BY <1>2, <1>5, <1>11, <2>1 DEF Address!CommitSearch
<1>12. ASSUME NEW r \in AddrRests, Address!SetStatus(r) PROVE AddressInv'
  BY <1>3, <1>5, <1>12 DEF Address!SetStatus, AddressInv
<1>13. CASE Address!ClearFilters
  BY <1>1, <1>13 DEF Address!ClearFilters, AddressInv, Typeable
<1>14. CASE Address!Loaded \/ Address!RetryPools
  BY <1>14 DEF Address!Loaded, Address!RetryPools, AddressInv
<1>15. CASE UNCHANGED addrVars BY <1>15 DEF addrVars, AddressInv
<1>16. CASE Address!ResetFilters BY <1>1, <1>4, <1>16 DEF Address!ResetFilters
<1>17. ASSUME NEW r \in AddrRests, Address!SetRest(r) PROVE AddressInv'
  BY <1>3, <1>4, <1>17 DEF Address!SetRest
<1>18. ASSUME NEW f \in AnyFilters, Address!ApplyPreset(f) PROVE AddressInv'
  BY <1>4, <1>18 DEF Address!ApplyPreset
<1>19. QED
  BY <1>1, <1>6, <1>7, <1>8, <1>9, <1>10, <1>11, <1>12, <1>13, <1>14, <1>15, <1>16, <1>17, <1>18
  DEF Address!AddressNext

LEMMA AddressInvariant == AppSpec => []AddressInv
<1>1. AppInit => AddressInv
  <2> SUFFICES ASSUME Address!AddressInit PROVE AddressInv BY DEF AppInit
  <2>1. {Address!Trim(t) : t \in AddrTexts} \subseteq Trimmed BY DEF Trimmed, Typeable
  <2>2. addrUrl \in AnyFilters BY <2>1 DEF Address!AddressInit, Address!Filters, AnyFilters
  <2>3. addrUrl.search \in Trimmed BY <2>2 DEF AnyFilters
  <2>4. QED BY <2>2, <2>3 DEF Address!AddressInit, AddressInv
<1>2. AddressInv /\ [AppNext]_appVars => AddressInv' BY AddressStep, AddressInvKept
<1>3. QED BY <1>1, <1>2, PTL DEF AppSpec

-----------------------------------------------------------------------------
(* The account's activity.  A pending answer with the number of the last   *)
(* request was asked for the connected account.                            *)

LEMMA UserStep == [AppNext]_appVars => [UserData!UserNext]_userVars
BY DEF AppNext, Step, Still, appVars

Requests == [addr : UserAddresses \cup {0}, req : 0 .. 3]
Hooks == [req : 0 .. 3, shown : UserAddresses \cup {0}, loading : BOOLEAN, error : BOOLEAN,
          pending : SUBSET Requests]

ActivityInv ==
  /\ userAddress \in UserAddresses \cup {0}
  /\ userActivity \in Hooks
  /\ \A r \in userActivity.pending : r.req = userActivity.req => r.addr = userAddress
  /\ UserData!ActivityHonest

(* A request of the hook for account a, once it is the connected one.      *)
LEMMA FetchKeeps ==
  ASSUME ActivityInv, NEW a \in UserAddresses \cup {0}, UserData!CanFetchActivity,
         userActivity' = UserData!FetchedActivity(a), userAddress' = a
  PROVE  ActivityInv'
<1> DEFINE h == userActivity
           n == UserData!NextReq
<1>1. h \in Hooks /\ n \in 0 .. 3 BY DEF ActivityInv, Hooks, UserData!NextReq
<1>2. \A r \in h.pending : r.req # n BY DEF UserData!CanFetchActivity
<1> HIDE DEF n
<1>3. CASE userActivity' = [h EXCEPT !.req = n, !.shown = a]
  <2>1. /\ userActivity' \in Hooks /\ userActivity'.req = n /\ userActivity'.shown = a
        /\ userActivity'.pending = h.pending
    BY <1>1, <1>3 DEF Hooks
  <2>2. QED BY <1>2, <2>1 DEF ActivityInv, UserData!ActivityHonest
<1>4. CASE userActivity' = UserData!Asked(h, a, n)
  <2> DEFINE new == [addr |-> a, req |-> n]
  <2>1. new \in Requests BY <1>1 DEF Requests
  <2>2. /\ userActivity' \in Hooks /\ userActivity'.req = n /\ userActivity'.loading
        /\ userActivity'.pending = h.pending \cup {new}
    <3>1. userActivity' \in Hooks BY <1>1, <1>4, <2>1 DEF Hooks, UserData!Asked
    <3>2. /\ userActivity'.req = n /\ userActivity'.loading
          /\ userActivity'.pending = h.pending \cup {new}
      BY <1>1, <1>4 DEF Hooks, UserData!Asked
    <3>3. QED BY <3>1, <3>2
  <2>3. \A r \in userActivity'.pending : r.req = n => r.addr = a BY <1>2, <2>2
  <2>4. QED BY <2>2, <2>3 DEF ActivityInv, UserData!ActivityHonest
<1>5. QED
  BY <1>3, <1>4 DEF UserData!FetchedActivity, UserData!NoOne, n

LEMMA ActivityInvKept == ActivityInv /\ [UserData!UserNext]_userVars => ActivityInv'
<1> SUFFICES ASSUME ActivityInv, [UserData!UserNext]_userVars PROVE ActivityInv' OBVIOUS
<1>1. ASSUME UNCHANGED <<userAddress, userActivity>> PROVE ActivityInv'
  BY <1>1 DEF ActivityInv, UserData!ActivityHonest
<1>2. CASE UserData!FetchActivity
  BY <1>2, FetchKeeps DEF UserData!FetchActivity, ActivityInv
<1>3. ASSUME NEW r \in userActivity.pending, UserData!ActivityDone(r) \/ UserData!ActivityFails(r)
      PROVE  ActivityInv'
  <2>1. /\ userActivity \in Hooks /\ r \in Requests /\ UNCHANGED userAddress
        /\ \A q \in userActivity.pending : q.req = userActivity.req => q.addr = userAddress
    BY <1>3 DEF ActivityInv, Hooks, UserData!ActivityDone, UserData!ActivityFails
  <2> DEFINE rest == userActivity.pending \ {r}
  <2>2. CASE userActivity' = [userActivity EXCEPT !.pending = rest]
    <3>1. /\ userActivity' \in Hooks /\ userActivity'.pending = rest
          /\ userActivity'.req = userActivity.req /\ userActivity'.shown = userActivity.shown
          /\ userActivity'.loading = userActivity.loading /\ userActivity'.error = userActivity.error
      BY <2>1, <2>2 DEF Hooks
    <3>2. QED BY <2>1, <3>1 DEF ActivityInv, UserData!ActivityHonest
  <2>3. CASE r.req = userActivity.req
             /\ userActivity' = [userActivity EXCEPT !.shown = r.addr, !.loading = FALSE, !.pending = rest]
    <3>1. /\ userActivity' \in Hooks /\ userActivity'.pending = rest
          /\ userActivity'.req = userActivity.req /\ userActivity'.shown = r.addr
      BY <2>1, <2>3 DEF Hooks, Requests
    <3>2. r.addr = userAddress BY <2>1, <2>3
    <3>3. QED BY <2>1, <3>1, <3>2 DEF ActivityInv, UserData!ActivityHonest
  <2>4. CASE userActivity' = [userActivity EXCEPT !.error = TRUE, !.loading = FALSE, !.pending = rest]
    <3>1. /\ userActivity' \in Hooks /\ userActivity'.pending = rest
          /\ userActivity'.req = userActivity.req /\ userActivity'.error
      BY <2>1, <2>4 DEF Hooks
    <3>2. QED BY <2>1, <3>1 DEF ActivityInv, UserData!ActivityHonest
  <2>5. QED
    BY <1>3, <2>2, <2>3, <2>4 DEF UserData!ActivityDone, UserData!ActivityFails
<1>4. ASSUME NEW a \in UserAddresses \cup {0}, UserData!SwitchAccount(a) PROVE ActivityInv'
  BY <1>4, FetchKeeps DEF UserData!SwitchAccount
<1>5. CASE UserData!FetchBets BY <1>1, <1>5 DEF UserData!FetchBets
<1>6. ASSUME NEW r, UserData!BetsDone(r) \/ UserData!BetsFail(r) PROVE ActivityInv'
  BY <1>1, <1>6 DEF UserData!BetsDone, UserData!BetsFail
<1>7. ASSUME NEW k, UserData!Expire(k) PROVE ActivityInv' BY <1>1, <1>7 DEF UserData!Expire
<1>8. CASE UNCHANGED userVars BY <1>1, <1>8 DEF userVars
<1>9. QED
  BY <1>2, <1>3, <1>4, <1>5, <1>6, <1>7, <1>8 DEF UserData!UserNext, UserData!NoOne

LEMMA ActivityInvariant == AppSpec => []ActivityInv
<1>1. AppInit => ActivityInv
  <2> SUFFICES ASSUME UserData!UserInit PROVE ActivityInv BY DEF AppInit
  <2>1. userActivity = [req |-> 0, shown |-> 0, loading |-> FALSE, error |-> FALSE, pending |-> {}]
        /\ userAddress = 0
    BY DEF UserData!UserInit, UserData!QuietHook, UserData!NoOne
  <2>2. userActivity \in Hooks BY <2>1 DEF Hooks
  <2>3. QED BY <2>1, <2>2 DEF ActivityInv, UserData!ActivityHonest
<1>2. ActivityInv /\ [AppNext]_appVars => ActivityInv' BY UserStep, ActivityInvKept
<1>3. QED BY <1>1, <1>2, PTL DEF AppSpec

-----------------------------------------------------------------------------
(* The settings page.  Only the load of the present account is active, and *)
(* what a page that is not loading holds is that account's.                *)

LEMMA SettingsStep == [AppNext]_appVars => [Settings!SettingsNext]_setVars
BY DEF AppNext, Step, Still, appVars

RowsOf(a, rows) == \A row \in rows : row.by = a

SettingsInv ==
  /\ setLoads \subseteq [of : SetAccounts \cup {Settings!Nobody}, active : BOOLEAN]
  /\ \A l \in setLoads : l.active => l.of = setUser
  /\ setData = [pools |-> setData.pools, activity |-> setData.activity, loading |-> setData.loading]
  /\ ~setData.loading => RowsOf(setUser, setData.activity)
  /\ Settings!ExportIsMine

LEMMA ActivityIsOf == \A a : RowsOf(a, Settings!GetUserActivity(a))
<1> TAKE a
<1>1. \A tx : Settings!Row(tx).by = tx.by BY DEF Settings!Row
<1>2. QED BY <1>1 DEF RowsOf, Settings!GetUserActivity

LEMMA SettingsInvKept == SettingsInv /\ [Settings!SettingsNext]_setVars => SettingsInv'
<1> SUFFICES ASSUME SettingsInv, [Settings!SettingsNext]_setVars PROVE SettingsInv' OBVIOUS
<1> USE DEF SettingsInv, Settings!ExportIsMine
<1>1. ASSUME NEW a \in SetAccounts \cup {Settings!Nobody}, Settings!SettingsAccountChanges(a)
      PROVE  SettingsInv'
  <2>1. setLoads' = {Settings!Load(l.of, FALSE) : l \in setLoads} \union {Settings!Load(a, TRUE)}
    BY <1>1 DEF Settings!SettingsAccountChanges
  <2>2. \A l \in setLoads' : /\ l \in [of : SetAccounts \cup {Settings!Nobody}, active : BOOLEAN]
                             /\ l.active => l.of = a
    <3> SUFFICES ASSUME NEW l \in setLoads'
                 PROVE  /\ l \in [of : SetAccounts \cup {Settings!Nobody}, active : BOOLEAN]
                        /\ l.active => l.of = a
      OBVIOUS
    <3>1. CASE l = [of |-> a, active |-> TRUE] BY <3>1
    <3>2. ASSUME NEW old \in setLoads, l = [of |-> old.of, active |-> FALSE]
          PROVE  /\ l \in [of : SetAccounts \cup {Settings!Nobody}, active : BOOLEAN]
                 /\ l.active => l.of = a
      BY <3>2
    <3>3. l = [of |-> a, active |-> TRUE] \/ \E old \in setLoads : l = [of |-> old.of, active |-> FALSE]
      BY <2>1 DEF Settings!Load
    <3>4. QED BY <3>1, <3>2, <3>3
  <2>3. setData' = [pools |-> setData.pools, activity |-> setData.activity, loading |-> TRUE]
    BY <1>1 DEF Settings!SettingsAccountChanges
  <2>4. QED BY <1>1, <2>2, <2>3 DEF Settings!SettingsAccountChanges
<1>2. ASSUME NEW l \in setLoads, Settings!LoadAnswered(l) PROVE SettingsInv'
  <2>1. setLoads' = setLoads \ {l} /\ UNCHANGED <<setUser, setExported>>
    BY <1>2 DEF Settings!LoadAnswered
  <2>2. CASE ~l.active BY <1>2, <2>1, <2>2 DEF Settings!LoadAnswered
  <2>3. CASE l.active
    <3>1. l.of = setUser BY <2>3
    <3>2. PICK pools \in {Settings!GetMarkets("all"), <<>>},
               activity \in {IF l.of = Settings!Nobody THEN {} ELSE Settings!GetUserActivity(l.of), {}} :
            setData' = [pools |-> pools, activity |-> activity, loading |-> FALSE]
      BY <1>2, <2>3 DEF Settings!LoadAnswered
    <3>3. RowsOf(setUser, activity) BY <3>1, <3>2, ActivityIsOf DEF RowsOf
    <3>4. QED BY <2>1, <3>2, <3>3
  <2>4. QED BY <2>2, <2>3
<1>3. CASE Settings!ExportPools BY <1>3 DEF Settings!ExportPools
<1>4. CASE Settings!ExportActivity BY <1>4 DEF Settings!ExportActivity, RowsOf
<1>5. CASE UNCHANGED setVars BY <1>5 DEF setVars
<1>6. QED BY <1>1, <1>2, <1>3, <1>4, <1>5 DEF Settings!SettingsNext

LEMMA SettingsInvariant == AppSpec => []SettingsInv
<1>1. AppInit => SettingsInv
  BY DEF AppInit, Settings!SettingsInit, SettingsInv, Settings!Load, Settings!ExportIsMine,
         Settings!NoFile
<1>2. SettingsInv /\ [AppNext]_appVars => SettingsInv' BY SettingsStep, SettingsInvKept
<1>3. QED BY <1>1, <1>2, PTL DEF AppSpec

(* No answer asked for another account is shown, or exported, as the       *)
(* connected one's: neither activity, nor file, nor balance, except that   *)
(* the balance of the account before stays until the present one's first   *)
(* read of it ends.                                                        *)
THEOREM AnswersStayMine == AppSpec => []AnswersAreMine
<1>1. SessionInv /\ ActivityInv /\ SettingsInv => AnswersAreMine
  BY DEF SessionInv, BalanceFollows, ActivityInv, SettingsInv, AnswersAreMine,
         Session!BalanceOfAccount, Session!Connected, Session!Nobody
<1>2. QED BY <1>1, SessionInvariant, ActivityInvariant, SettingsInvariant, PTL

-----------------------------------------------------------------------------
(* The page of one market.  The one read that may answer "not found" is in *)
(* flight only while the page has shown nothing yet, and a pool that was   *)
(* read never looks like none.                                             *)

LEMMA PageStep == [AppNext]_appVars => [PoolPage!PageNext]_pageVars
BY DEF AppNext, Step, Still, appVars

IsPool(p) ==
  /\ p = [totals |-> p.totals, status |-> p.status, limited |-> p.limited]
  /\ p.status # "none"
PoolOrNone(p) == p = PoolPage!NoPool \/ IsPool(p)

ReadFields == {"id", "kind", "of", "phase", "pool", "userBet"}
IsRead(r) ==
  /\ r = [x \in ReadFields |-> r[x]]
  /\ PoolOrNone(r.pool)

PageInv ==
  /\ pageLedger = [totals |-> pageLedger.totals, status |-> pageLedger.status]
  /\ pageLedger.status \in {"active", "expired"}
  /\ pageShown = [pool |-> pageShown.pool, userBet |-> pageShown.userBet,
                  loading |-> pageShown.loading, refreshing |-> pageShown.refreshing]
  /\ PoolOrNone(pageShown.pool)
  /\ \A r \in pageReads : IsRead(r)
  /\ \A q, r \in pageReads : q.kind = "load" /\ r.kind = "load" => q = r
  /\ ~pageShown.loading => \A r \in pageReads : r.kind # "load"

KeepsKnown == PoolPage!PoolShown => ~PoolPage!NotFoundShown'

LEMMA PoolIsNotNone == \A p : IsPool(p) => p # PoolPage!NoPool
BY DEF IsPool, PoolPage!NoPool

LEMMA RequestIsRead ==
  \A i, kind, a : /\ IsRead(PoolPage!Request(i, kind, a))
                  /\ PoolPage!Request(i, kind, a).kind = kind
BY DEF PoolPage!Request, IsRead, ReadFields, PoolOrNone

LEMMA LedgerPool == PageInv => \A limited : IsPool(PoolPage!PoolOnLedger(limited))
BY DEF PageInv, IsPool, PoolPage!PoolOnLedger

(* A step that shows the same pool, or another one, and asks nothing anew  *)
(* but stakes and refreshes.                                               *)
LEMMA PageMoves ==
  ASSUME PageInv,
         pageLedger' = [totals |-> pageLedger'.totals, status |-> pageLedger'.status],
         pageLedger'.status \in {"active", "expired"},
         pageShown' = [pool |-> pageShown'.pool, userBet |-> pageShown'.userBet,
                       loading |-> pageShown'.loading, refreshing |-> pageShown'.refreshing],
         pageShown'.loading = pageShown.loading,
         pageShown'.pool = pageShown.pool \/ IsPool(pageShown'.pool),
         \A r \in pageReads' : r \notin pageReads => IsRead(r),
         \A r \in pageReads' : r.kind = "load" => \E q \in pageReads : q.kind = "load",
         \A q, r \in pageReads' : q.kind = "load" /\ r.kind = "load" => q = r
  PROVE  PageInv' /\ KeepsKnown
<1>1. PageInv' BY DEF PageInv, PoolOrNone
<1>2. KeepsKnown
  BY PoolIsNotNone DEF KeepsKnown, PageInv, PoolPage!PoolShown, PoolPage!NotFoundShown
<1>3. QED BY <1>1, <1>2

LEMMA PageInvKept == PageInv /\ [PoolPage!PageNext]_pageVars => PageInv' /\ KeepsKnown
<1> SUFFICES ASSUME PageInv, [PoolPage!PageNext]_pageVars PROVE PageInv' /\ KeepsKnown
  OBVIOUS
<1>1. ASSUME UNCHANGED <<pageLedger, pageShown, pageReads>> PROVE PageInv' /\ KeepsKnown
  BY <1>1, PageMoves DEF PageInv
<1>2. ASSUME NEW s, PoolPage!OthersBet(s) PROVE PageInv' /\ KeepsKnown
  BY <1>2, PageMoves DEF PageInv, PoolPage!OthersBet
<1>3. CASE PoolPage!StatusMoves BY <1>3, PageMoves DEF PageInv, PoolPage!StatusMoves
<1>4. ASSUME NEW a, PoolPage!AccountChanges(a) PROVE PageInv' /\ KeepsKnown
  <2>1. /\ pageShown' = [pageShown EXCEPT !.userBet = PoolPage!Nobody] \/ UNCHANGED pageShown
        /\ pageReads' = pageReads \cup {PoolPage!Request(PoolPage!FreeId, "stakes", a)}
             \/ UNCHANGED pageReads
        /\ UNCHANGED pageLedger
    BY <1>4 DEF PoolPage!AccountChanges
  <2>2. /\ pageShown'.loading = pageShown.loading /\ pageShown'.pool = pageShown.pool
        /\ pageShown' = [pool |-> pageShown'.pool, userBet |-> pageShown'.userBet,
                         loading |-> pageShown'.loading, refreshing |-> pageShown'.refreshing]
    BY <2>1 DEF PageInv
  <2>3. QED BY <2>1, <2>2, RequestIsRead, PageMoves DEF PageInv
<1>5. ASSUME NEW r \in pageReads, PoolPage!Serve(r) PROVE PageInv' /\ KeepsKnown
  <2>1. PICK pool \in PoolPage!PoolAnswers(r),
               userBet \in {r.of} \union PoolPage!MayFail(r, PoolPage!Nobody) :
          pageReads' = (pageReads \ {r}) \cup
                       {[r EXCEPT !.phase = "served", !.pool = pool, !.userBet = userBet]}
    BY <1>5 DEF PoolPage!Serve
  <2>2. PoolOrNone(pool)
    BY LedgerPool DEF PoolPage!PoolAnswers, PoolPage!MayFail, PoolOrNone
  <2> DEFINE q == [r EXCEPT !.phase = "served", !.pool = pool, !.userBet = userBet]
  <2>3. IsRead(q) /\ q.kind = r.kind BY <2>2 DEF PageInv, IsRead, ReadFields
  <2> HIDE DEF q
  <2>4. pageReads' = (pageReads \ {r}) \cup {q} BY <2>1 DEF q
  <2>5. UNCHANGED <<pageLedger, pageShown>> BY <1>5 DEF PoolPage!Serve
  <2>6. QED BY <2>3, <2>4, <2>5, PageMoves DEF PageInv
<1>6. ASSUME NEW r \in pageReads, PoolPage!LoadAnswered(r) PROVE PageInv' /\ KeepsKnown
  <2>1. pageShown.loading BY <1>6 DEF PageInv, PoolPage!LoadAnswered
  <2>2. KeepsKnown BY <2>1 DEF KeepsKnown, PoolPage!PoolShown
  <2>3. /\ pageShown' = [pageShown EXCEPT !.pool = r.pool, !.loading = FALSE]
        /\ pageReads' = pageReads \ {r} /\ UNCHANGED pageLedger
    BY <1>6 DEF PoolPage!LoadAnswered
  <2>4. /\ pageShown' = [pool |-> pageShown'.pool, userBet |-> pageShown'.userBet,
                         loading |-> pageShown'.loading, refreshing |-> pageShown'.refreshing]
        /\ pageShown'.pool = r.pool
    BY <2>3 DEF PageInv
  <2>5. \A q \in pageReads' : q.kind # "load" BY <1>6, <2>3 DEF PageInv, PoolPage!LoadAnswered
  <2>6. PageInv' BY <2>3, <2>4, <2>5 DEF PageInv, IsRead
  <2>7. QED BY <2>2, <2>6
<1>7. ASSUME NEW r \in pageReads, PoolPage!StakesAnswered(r) PROVE PageInv' /\ KeepsKnown
  <2>1. /\ pageShown' = [pageShown EXCEPT !.userBet = r.userBet]
        /\ pageReads' = pageReads \ {r} /\ UNCHANGED pageLedger
    BY <1>7 DEF PoolPage!StakesAnswered
  <2>2. QED BY <2>1, PageMoves DEF PageInv
<1>8. ASSUME NEW r \in pageReads, PoolPage!RefreshAnswered(r) PROVE PageInv' /\ KeepsKnown
  <2>1. PICK refreshing :
          pageShown' = [pageShown EXCEPT !.pool = PoolPage!KeepPool(r), !.userBet = r.userBet,
                                         !.refreshing = refreshing]
    BY <1>8 DEF PoolPage!RefreshAnswered
  <2>2. PoolPage!KeepPool(r) = pageShown.pool \/ IsPool(PoolPage!KeepPool(r))
    BY DEF PoolPage!KeepPool, PageInv, IsRead, PoolOrNone
  <2>3. /\ pageShown'.loading = pageShown.loading /\ pageShown'.pool = PoolPage!KeepPool(r)
        /\ pageShown' = [pool |-> pageShown'.pool, userBet |-> pageShown'.userBet,
                         loading |-> pageShown'.loading, refreshing |-> pageShown'.refreshing]
    BY <2>1 DEF PageInv
  <2> DEFINE q == [r EXCEPT !.phase = "activity"]
  <2>4. IsRead(q) /\ q.kind = r.kind BY DEF PageInv, IsRead, ReadFields
  <2>5. pageReads' \subseteq (pageReads \ {r}) \cup {q} /\ UNCHANGED pageLedger
    BY <1>8 DEF PoolPage!RefreshAnswered
  <2> HIDE DEF q
  <2>6. QED BY <2>2, <2>3, <2>4, <2>5, PageMoves DEF PageInv
<1>9. ASSUME NEW r \in pageReads, PoolPage!RefreshEnds(r) PROVE PageInv' /\ KeepsKnown
  <2>1. /\ pageShown' = [pageShown EXCEPT !.refreshing = FALSE]
        /\ pageReads' = pageReads \ {r} /\ UNCHANGED pageLedger
    BY <1>9 DEF PoolPage!RefreshEnds
  <2>2. QED BY <2>1, PageMoves DEF PageInv
<1>10. ASSUME NEW a, PoolPage!EnterAmount(a) PROVE PageInv' /\ KeepsKnown
  BY <1>1, <1>10 DEF PoolPage!EnterAmount
<1>11. ASSUME NEW pct, PoolPage!QuickBet(pct) PROVE PageInv' /\ KeepsKnown
  BY <1>1, <1>11 DEF PoolPage!QuickBet
<1>12. ASSUME NEW s, PoolPage!PlaceBet(s) PROVE PageInv' /\ KeepsKnown
  BY <1>1, <1>12 DEF PoolPage!PlaceBet
<1>13. CASE PoolPage!BetLands BY <1>13, PageMoves DEF PageInv, PoolPage!BetLands
(* What a refresh asks and shows besides.                                  *)
<1>14. ASSUME NEW view, NEW pool, pool = pageShown.pool \/ IsPool(pool),
              pageShown' = [PoolPage!Refreshing(view) EXCEPT !.pool = pool],
              pageReads' = PoolPage!ReadsAfterRefresh(view), UNCHANGED pageLedger
       PROVE  PageInv' /\ KeepsKnown
  <2>1. PICK refreshing : PoolPage!Refreshing(view) = [pageShown EXCEPT !.refreshing = refreshing]
    BY DEF PoolPage!Refreshing
  <2> DEFINE s == [pageShown EXCEPT !.refreshing = refreshing]
  <2>2. /\ s = [pool |-> pageShown.pool, userBet |-> pageShown.userBet,
                loading |-> pageShown.loading, refreshing |-> refreshing]
    BY DEF PageInv
  <2>3. pageShown' = [s EXCEPT !.pool = pool] BY <1>14, <2>1
  <2> HIDE DEF s
  <2>4. pageShown' = [pool |-> pool, userBet |-> pageShown.userBet,
                      loading |-> pageShown.loading, refreshing |-> refreshing]
    BY <2>2, <2>3
  <2>5. pageReads' \subseteq pageReads \cup {PoolPage!Request(PoolPage!FreeId, "refresh", view.of)}
    BY <1>14 DEF PoolPage!ReadsAfterRefresh
  <2>6. /\ \A r \in pageReads' : r \notin pageReads => IsRead(r) /\ r.kind = "refresh"
        /\ pageShown'.loading = pageShown.loading /\ pageShown'.pool = pool
        /\ pageShown' = [pool |-> pageShown'.pool, userBet |-> pageShown'.userBet,
                         loading |-> pageShown'.loading, refreshing |-> pageShown'.refreshing]
    BY <2>4, <2>5, RequestIsRead
  <2>7. QED BY <1>14, <2>6, PageMoves DEF PageInv
<1>15. CASE PoolPage!BetSucceeds
  <2> DEFINE pool == PoolPage!WithBet(pageShown.pool)
  <2>1. pool = pageShown.pool \/ IsPool(pool)
    BY DEF PageInv, PoolOrNone, IsPool, PoolPage!WithBet
  <2>2. PoolPage!Refreshing(PoolPage!Clicked).pool = pageShown.pool
    BY DEF PageInv, PoolPage!Refreshing
  <2>3. /\ pageShown' = [PoolPage!Refreshing(PoolPage!Clicked) EXCEPT !.pool = pool]
        /\ pageReads' = PoolPage!ReadsAfterRefresh(PoolPage!Clicked) /\ UNCHANGED pageLedger
    BY <1>15, <2>2 DEF PoolPage!BetSucceeds
  <2> HIDE DEF pool
  <2>4. QED BY <1>14, <2>1, <2>3
<1>16. CASE PoolPage!TimerFires
  <2> DEFINE view == Head(pageTimers)
  <2>1. /\ pageShown' = PoolPage!Refreshing(view) /\ UNCHANGED pageLedger
        /\ pageReads' = PoolPage!ReadsAfterRefresh(view)
    BY <1>16 DEF PoolPage!TimerFires
  <2>2. [PoolPage!Refreshing(view) EXCEPT !.pool = pageShown.pool] = PoolPage!Refreshing(view)
    BY DEF PageInv, PoolPage!Refreshing
  <2> HIDE DEF view
  <2>3. QED BY <1>14, <2>1, <2>2
<1>17. CASE PoolPage!BetFails BY <1>1, <1>17 DEF PoolPage!BetFails
<1>18. CASE UNCHANGED pageVars BY <1>1, <1>18 DEF pageVars
<1>19. QED
  BY <1>2, <1>3, <1>4, <1>5, <1>6, <1>7, <1>8, <1>9, <1>10, <1>11, <1>12, <1>13, <1>15, <1>16,
     <1>17, <1>18
  DEF PoolPage!PageNext, PoolPage!PageReads, PoolPage!Proceeds

(* A market once shown on its page is never taken for a missing one.       *)
THEOREM KnownPoolsStay == AppSpec => KnownPoolStays
<1>1. AppInit => PageInv
  <2> SUFFICES ASSUME PoolPage!PageInit PROVE PageInv BY DEF AppInit
  <2>1. /\ pageShown = [pool |-> PoolPage!NoPool, userBet |-> PoolPage!Nobody,
                        loading |-> TRUE, refreshing |-> FALSE]
        /\ pageReads = {PoolPage!Request(1, "load", PoolPage!Nobody)}
        /\ pageLedger = [totals |-> PoolPage!Nothing, status |-> "active"]
    BY DEF PoolPage!PageInit
  <2>2. QED BY <2>1, RequestIsRead DEF PageInv, PoolOrNone
<1>2. PageInv /\ [AppNext]_appVars => PageInv' /\ KeepsKnown BY PageStep, PageInvKept
<1>3. KeepsKnown => [PoolPage!PoolShown => ~PoolPage!NotFoundShown']_(PoolPage!pageVars)
  BY DEF KeepsKnown
<1>4. QED BY <1>1, <1>2, <1>3, PTL DEF AppSpec, KnownPoolStays, PoolPage!KnownPoolStays

-----------------------------------------------------------------------------
(* The lists of pools.  What any component holds, however stale, is a list *)
(* without repetition and within the limit, and a component writes one     *)
(* more change of what it holds: whichever write comes last, the stored    *)
(* list is such a list.                                                    *)

LEMMA SelectionsStep == [AppNext]_appVars => [Selections!SelectionsNext]_selVars
BY DEF AppNext, Step, Still, appVars

LEMMA SelFiltered == \A s, e : Selections!Filtered(s, e) = Filtered(s, e)
BY Zenon DEF Selections!Filtered, Selections!Kept, Selections!Ascending, Selections!Below,
   Selections!Cardinality, Filtered, Kept, Ascending, Below, Cardinality

LEMMA SelAscending == \A S : Selections!Ascending(S) = Ascending(S)
BY Zenon DEF Selections!Ascending, Selections!Below,
   Selections!Cardinality, Ascending, Below, Cardinality

GoodList(l, s) ==
  /\ s \in Seq(SelCards) /\ Apart(s)
  /\ l # "favorites" => Len(s) <= SelMaxSelected

SelectionsInv ==
  /\ GoodList(selList, selKept)
  /\ selHeld = [t \in SelTabs |-> selHeld[t]]
  /\ \A t \in SelTabs : /\ 0 \in DOMAIN selHeld[t]
                        /\ selHeld[t] = [c \in DOMAIN selHeld[t] |-> selHeld[t][c]]
                        /\ \A c \in DOMAIN selHeld[t] : GoodList(selList, selHeld[t][c])

LEMMA ListWithout ==
  ASSUME NEW s, GoodList(selList, s), NEW p PROVE GoodList(selList, Selections!Without(s, p))
<1>1. Selections!Without(s, p) = Filtered(s, p) BY SelFiltered, Zenon DEF Selections!Without
<1>2. s \in Seq(SelCards) /\ Apart(s) BY DEF GoodList
<1>3. Filtered(s, p) \in Seq(SelCards) /\ Len(Filtered(s, p)) <= Len(s) /\ Apart(Filtered(s, p))
  BY <1>2, FilteredList
<1>4. Len(s) \in Nat /\ Len(Filtered(s, p)) \in Nat BY <1>2, <1>3
<1>5. SelMaxSelected \in Int BY AppAssumption
<1>6. QED BY <1>1, <1>3, <1>4, <1>5 DEF GoodList

LEMMA ListAppended ==
  ASSUME NEW s, GoodList(selList, s), NEW p \in SelCards,
         ~Selections!Contains(s, p), ~Selections!AtCapacity(s)
  PROVE  GoodList(selList, Append(s, p))
<1>1. s \in Seq(SelCards) /\ Apart(s) BY DEF GoodList
<1>2. Len(s) \in Nat BY <1>1
<1>3. ~(Len(s) >= SelMaxSelected) BY DEF Selections!AtCapacity
<1>4. Len(s) + 1 <= SelMaxSelected BY <1>2, <1>3, AppAssumption
<1>5. \A i \in 1 .. Len(s) : s[i] # p BY DEF Selections!Contains
<1>6. /\ Append(s, p) \in Seq(SelCards) /\ Len(Append(s, p)) = Len(s) + 1
      /\ \A i \in 1 .. Len(s) : Append(s, p)[i] = s[i]
      /\ Append(s, p)[Len(s) + 1] = p
  BY <1>1, AppendProperties
<1>7. Apart(Append(s, p))
  <2> SUFFICES ASSUME NEW i \in 1 .. Len(s) + 1, NEW j \in 1 .. Len(s) + 1,
                      Append(s, p)[i] = Append(s, p)[j]
               PROVE  i = j
    BY <1>6 DEF Apart
  <2>1. CASE i \in 1 .. Len(s) /\ j \in 1 .. Len(s) BY <1>1, <1>6, <2>1 DEF Apart
  <2>2. CASE i = Len(s) + 1 /\ j \in 1 .. Len(s) BY <1>5, <1>6, <2>2
  <2>3. CASE i \in 1 .. Len(s) /\ j = Len(s) + 1 BY <1>5, <1>6, <2>3
  <2>4. QED BY <1>2, <2>1, <2>2, <2>3
<1>8. QED BY <1>4, <1>6, <1>7 DEF GoodList

LEMMA ListInserted ==
  ASSUME NEW s, GoodList(selList, s), NEW p \in SelCards, selList = "favorites"
  PROVE  GoodList(selList, Selections!Inserted(s, p))
<1> DEFINE S == Selections!ToSet(s) \cup {p}
<1>1. s \in Seq(SelCards) BY DEF GoodList
<1>2. Selections!ToSet(s) = {s[i] : i \in 1 .. Len(s)} /\ Len(s) \in Nat
  BY <1>1 DEF Selections!ToSet
<1>3. s \in Surjection(1 .. Len(s), Selections!ToSet(s)) BY <1>1, <1>2 DEF Surjection
<1>4. IsFiniteSet(1 .. Len(s)) BY <1>2, PositionsFinite
<1>5. IsFiniteSet(Selections!ToSet(s)) BY <1>3, <1>4, FS_Surjection
<1>6. IsFiniteSet(S) BY <1>5, FS_AddElement
<1>7. S \subseteq SelCards BY <1>1, <1>2
<1>8. S \in SUBSET Int BY <1>7, AppAssumption
<1>9. /\ Cardinality(S) \in Nat /\ Ascending(S) \in [1 .. Cardinality(S) -> S]
      /\ \A m, n \in 1 .. Cardinality(S) : Ascending(S)[m] = Ascending(S)[n] => m = n
  BY <1>6, <1>8, AscendingLists
<1>10. Selections!Inserted(s, p) = Ascending(S) BY SelAscending, Zenon DEF Selections!Inserted
<1> HIDE DEF S
<1>11. Ascending(S) \in [1 .. Cardinality(S) -> SelCards] BY <1>7, <1>9
<1>12. Ascending(S) \in Seq(SelCards) /\ Len(Ascending(S)) = Cardinality(S) BY <1>9, <1>11
<1>13. QED BY <1>9, <1>10, <1>12 DEF GoodList, Apart

LEMMA ListWritten ==
  ASSUME SelectionsInv, NEW t \in SelTabs, NEW c, NEW v, GoodList(selList, v),
         Selections!SetValue(t, c, v)
  PROVE  SelectionsInv'
<1>1. /\ selHeld' = [selHeld EXCEPT ![t][c] = v] /\ selKept' = v /\ selList' = selList
  BY DEF Selections!SetValue
<1>2. /\ selHeld' = [x \in SelTabs |-> selHeld'[x]]
      /\ \A x \in SelTabs \ {t} : selHeld'[x] = selHeld[x]
      /\ selHeld'[t] = [selHeld[t] EXCEPT ![c] = v]
  BY <1>1 DEF SelectionsInv
<1>3. selHeld[t] = [d \in DOMAIN selHeld[t] |-> selHeld[t][d]] BY DEF SelectionsInv
<1>4. /\ DOMAIN selHeld'[t] = DOMAIN selHeld[t]
      /\ selHeld'[t] = [d \in DOMAIN selHeld[t] |-> selHeld'[t][d]]
      /\ \A d \in DOMAIN selHeld[t] : selHeld'[t][d] = IF d = c THEN v ELSE selHeld[t][d]
  BY <1>2, <1>3
<1>5. \A x \in SelTabs : /\ 0 \in DOMAIN selHeld'[x]
                         /\ selHeld'[x] = [d \in DOMAIN selHeld'[x] |-> selHeld'[x][d]]
                         /\ \A d \in DOMAIN selHeld'[x] : GoodList(selList, selHeld'[x][d])
  <2> SUFFICES ASSUME NEW x \in SelTabs
               PROVE  /\ 0 \in DOMAIN selHeld'[x]
                      /\ selHeld'[x] = [d \in DOMAIN selHeld'[x] |-> selHeld'[x][d]]
                      /\ \A d \in DOMAIN selHeld'[x] : GoodList(selList, selHeld'[x][d])
    OBVIOUS
  <2>1. CASE x = t
    <3>1. 0 \in DOMAIN selHeld[t] /\ \A d \in DOMAIN selHeld[t] : GoodList(selList, selHeld[t][d])
      BY Zenon DEF SelectionsInv
    <3>2. \A d \in DOMAIN selHeld'[t] : GoodList(selList, selHeld'[t][d])
      BY <1>4, <3>1, Zenon
    <3>3. 0 \in DOMAIN selHeld'[t] BY <1>4, <3>1, Zenon
    <3>4. selHeld'[t] = [d \in DOMAIN selHeld'[t] |-> selHeld'[t][d]] BY <1>4, Zenon
    <3>5. QED BY <2>1, <3>2, <3>3, <3>4, Zenon
  <2>2. CASE x # t
    <3>1. selHeld'[x] = selHeld[x] BY <1>2, <2>2
    <3>2. QED BY <3>1, Zenon DEF SelectionsInv
  <2>3. QED BY <2>1, <2>2
<1>6. QED BY <1>1, <1>2, <1>5, Zenon DEF SelectionsInv

LEMMA SelectionsInvariant == AppSpec => []SelectionsInv
<1>1. AppInit => SelectionsInv
  <2> SUFFICES ASSUME AppInit PROVE SelectionsInv OBVIOUS
  <2>1. /\ selKept = <<>>
        /\ selHeld = [t \in SelTabs |-> Selections!Mount("markets", <<>>)]
    BY DEF AppInit, Selections!SelectionsInit
  <2>2. GoodList(selList, <<>>)
    <3>1. <<>> \in Seq(SelCards) /\ Len(<<>>) = 0 BY EmptySeq
    <3>2. QED BY <3>1, AppAssumption DEF GoodList, Apart
  <2>3. \A c \in DOMAIN Selections!Mount("markets", <<>>) :
          Selections!Mount("markets", <<>>)[c] = <<>>
    BY DEF Selections!Mount
  <2>4. 0 \in DOMAIN Selections!Mount("markets", <<>>)
    BY DEF Selections!Mount, Selections!Mounted, Selections!Page
  <2>5. Selections!Mount("markets", <<>>) =
          [c \in DOMAIN Selections!Mount("markets", <<>>) |-> Selections!Mount("markets", <<>>)[c]]
    BY DEF Selections!Mount
  <2> DEFINE m == Selections!Mount("markets", <<>>)
  <2> HIDE DEF m
  <2>6. selHeld = [t \in SelTabs |-> m] /\ 0 \in DOMAIN m /\ m = [c \in DOMAIN m |-> m[c]]
        /\ \A c \in DOMAIN m : m[c] = <<>>
    BY <2>1, <2>3, <2>4, <2>5, Zenon DEF m
  <2>7. \A t \in SelTabs : selHeld[t] = m BY <2>6
  <2>8. QED BY <2>1, <2>2, <2>6, <2>7, Zenon DEF SelectionsInv
<1>2. SelectionsInv /\ [Selections!SelectionsNext]_selVars => SelectionsInv'
  <2> SUFFICES ASSUME SelectionsInv, [Selections!SelectionsNext]_selVars PROVE SelectionsInv' OBVIOUS
  <2>1. CASE UNCHANGED selVars BY <2>1, Zenon DEF selVars, SelectionsInv
  <2>2. ASSUME NEW t \in SelTabs, NEW s, Selections!Visit(t, s) PROVE SelectionsInv'
    <3> DEFINE m == Selections!Mount(s, selKept)
    <3>1. /\ 0 \in DOMAIN m /\ m = [c \in DOMAIN m |-> m[c]] /\ \A c \in DOMAIN m : m[c] = selKept
      <4>1. m = [c \in Selections!Mounted(s, selKept) |-> selKept] BY DEF Selections!Mount
      <4>2. 0 \in Selections!Mounted(s, selKept) BY DEF Selections!Mounted, Selections!Page
      <4> DEFINE D == Selections!Mounted(s, selKept)
      <4> HIDE DEF m, D
      <4>3. m = [c \in D |-> selKept] /\ 0 \in D BY <4>1, <4>2, Zenon DEF D
      <4>4. QED BY <4>3
    <3>2. selHeld' = [selHeld EXCEPT ![t] = m] /\ selKept' = selKept /\ selList' = selList
      BY <2>2 DEF Selections!Visit
    <3> HIDE DEF m
    <3>3. /\ selHeld' = [x \in SelTabs |-> selHeld'[x]]
          /\ \A x \in SelTabs \ {t} : selHeld'[x] = selHeld[x]
          /\ selHeld'[t] = m
      BY <3>2 DEF SelectionsInv
    <3>5. \A x \in SelTabs : /\ 0 \in DOMAIN selHeld'[x]
                             /\ selHeld'[x] = [c \in DOMAIN selHeld'[x] |-> selHeld'[x][c]]
                             /\ \A c \in DOMAIN selHeld'[x] : GoodList(selList, selHeld'[x][c])
      <4>1. GoodList(selList, selKept) BY DEF SelectionsInv
      <4> SUFFICES ASSUME NEW x \in SelTabs
                   PROVE  /\ 0 \in DOMAIN selHeld'[x]
                          /\ selHeld'[x] = [c \in DOMAIN selHeld'[x] |-> selHeld'[x][c]]
                          /\ \A c \in DOMAIN selHeld'[x] : GoodList(selList, selHeld'[x][c])
        OBVIOUS
      <4>2. CASE x = t BY <3>1, <3>3, <4>1, <4>2, Zenon
      <4>3. CASE x # t
        <5>1. selHeld'[x] = selHeld[x] BY <3>3, <4>3
        <5>2. QED BY <5>1, Zenon DEF SelectionsInv
      <4>4. QED BY <4>2, <4>3
    <3>6. QED BY <3>2, <3>3, <3>5, Zenon DEF SelectionsInv
  <2>3. ASSUME NEW t \in SelTabs, Selections!ClearAll(t) PROVE SelectionsInv'
    <3>1. GoodList(selList, <<>>)
      <4>1. <<>> \in Seq(SelCards) /\ Len(<<>>) = 0 BY EmptySeq
      <4>2. QED BY <4>1, AppAssumption DEF GoodList, Apart
    <3>2. QED BY <2>3, <3>1, ListWritten DEF Selections!ClearAll
  <2>4. ASSUME NEW t \in SelTabs, NEW p \in SelCards,
               \/ Selections!Tick(t, p) \/ Selections!Star(t, p) \/ Selections!Unpin(t, p)
               \/ Selections!RemoveColumn(t, p) \/ Selections!SavePreset(t, p)
               \/ Selections!DeletePreset(t, p)
        PROVE  SelectionsInv'
    <3>0. Selections!Page \in DOMAIN selHeld[t] /\ \A c \in DOMAIN selHeld[t] : GoodList(selList, selHeld[t][c])
      BY DEF SelectionsInv, Selections!Page
    <3>1. ASSUME NEW ids, GoodList(selList, ids), selList = "favorites"
          PROVE  GoodList(selList, Selections!Starred(ids, p))
      BY <3>1, ListWithout, ListInserted DEF Selections!Starred
    <3>2. ASSUME NEW ids, GoodList(selList, ids) PROVE GoodList(selList, Selections!Compared(ids, p))
      BY <3>2, ListWithout, ListAppended DEF Selections!Compared
    <3>3. CASE Selections!Tick(t, p)
      BY <3>0, <3>2, <3>3, ListWritten DEF Selections!Tick
    <3>4. CASE Selections!Star(t, p)
      BY <3>0, <3>1, <3>4, ListWritten DEF Selections!Star
    <3>5. CASE Selections!Unpin(t, p)
      BY <3>0, <3>1, <3>5, ListWritten DEF Selections!Unpin
    <3>6. CASE Selections!RemoveColumn(t, p)
      BY <3>0, <3>6, ListWithout, ListWritten DEF Selections!RemoveColumn
    <3>7. CASE Selections!SavePreset(t, p)
      BY <3>0, <3>7, ListAppended, ListWritten DEF Selections!SavePreset
    <3>8. CASE Selections!DeletePreset(t, p)
      BY <3>0, <3>8, ListWithout, ListWritten DEF Selections!DeletePreset
    <3>9. QED BY <2>4, <3>3, <3>4, <3>5, <3>6, <3>7, <3>8
  <2>5. QED BY <2>1, <2>2, <2>3, <2>4 DEF Selections!SelectionsNext
<1>3. AppInit /\ [][AppNext]_appVars => []SelectionsInv BY <1>1, <1>2, SelectionsStep, PTL
<1>4. QED BY <1>3, PTL DEF AppSpec

LEMMA ListsStayBounded == SelectionsInv => Selections!ListsBounded
<1> SUFFICES ASSUME SelectionsInv PROVE Selections!ListsBounded OBVIOUS
<1>1. GoodList(selList, selKept) BY DEF SelectionsInv
<1>2. DOMAIN selKept = 1 .. Len(selKept) BY <1>1 DEF GoodList
<1>3. Selections!IsInjective(selKept) BY <1>1, <1>2 DEF GoodList, Apart, Selections!IsInjective
<1>4. QED BY <1>1, <1>3 DEF GoodList, Selections!ListsBounded

-----------------------------------------------------------------------------
(* The moderation page.  Its list and its log are always the stored ones,  *)
(* and a dialog asks about a creator of that list, or about one who is not *)
(* on it, however long it stays open: a confirmation never says twice what *)
(* the log says last.                                                      *)

LEMMA BansStep == [AppNext]_appVars => [Bans!BansNext]_bansVars
BY DEF AppNext, Step, Still, appVars

LEMMA BansFiltered == \A s, e : Bans!Filtered(s, e) = Filtered(s, e)
BY Zenon DEF Bans!Filtered, Bans!Kept, Bans!Ascending, Bans!Below,
   Bans!Cardinality, Filtered, Kept, Ascending, Below, Cardinality

LogEntry == [action : {"ban", "unban"}, address : BanCreators,
             performedBy : BanAccounts \cup {"nobody", "G-ADMIN"}]

\* The newest entry about c, the first of the log, is a ban.
BannedLast(log, c) ==
  \E i \in 1 .. Len(log) :
    /\ log[i].address = c /\ log[i].action = "ban"
    /\ \A j \in 1 .. Len(log) : log[j].address = c => i <= j

GoodRegister(r) ==
  /\ r = [set |-> TRUE, creators |-> r.creators, log |-> r.log]
  /\ r.creators \in Seq(BanCreators) /\ Apart(r.creators)
  /\ r.log \in Seq(LogEntry)
  /\ \A c \in BanCreators : Among(r.creators, c) <=> BannedLast(r.log, c)

BansInv ==
  /\ bansUser \in BanAccounts \cup {"nobody"}
  /\ \/ /\ bansStored = Bans!Unset /\ bansLists = Bans!Unset
        /\ bansUser = "nobody" /\ bansDialog = Bans!NoDialog
     \/ bansLists = bansStored /\ GoodRegister(bansStored)
  /\ bansDialog.asks = "ban" =>
       bansDialog.address \in BanCreators /\ ~Among(bansLists.creators, bansDialog.address)
  /\ bansDialog.asks = "unban" =>
       bansDialog.address \in BanCreators /\ Among(bansLists.creators, bansDialog.address)

LEMMA LogPrefixed ==
  ASSUME NEW log \in Seq(LogEntry), NEW e \in LogEntry
  PROVE  /\ <<e>> \o log \in Seq(LogEntry)
         /\ BannedLast(<<e>> \o log, e.address) <=> e.action = "ban"
         /\ \A c : c # e.address => (BannedLast(<<e>> \o log, c) <=> BannedLast(log, c))
<1> DEFINE new == <<e>> \o log
<1>1. <<e>> \in Seq(LogEntry) /\ Len(<<e>>) = 1 /\ <<e>>[1] = e OBVIOUS
<1>2. /\ new \in Seq(LogEntry) /\ Len(new) = 1 + Len(log) /\ Len(log) \in Nat
      /\ \A i \in 1 .. 1 + Len(log) : new[i] = IF i <= 1 THEN <<e>>[i] ELSE log[i - 1]
  BY <1>1, ConcatProperties
<1> HIDE DEF new
<1>3. new[1] = e BY <1>1, <1>2
<1>4. \A i \in 1 .. Len(log) : i + 1 \in 1 .. Len(new) /\ new[i + 1] = log[i] BY <1>2
<1>5. \A i \in 1 .. Len(new) : i = 1 \/ (i - 1 \in 1 .. Len(log) /\ new[i] = log[i - 1])
  BY <1>2
<1>6. BannedLast(new, e.address) <=> e.action = "ban"
  <2>1. ASSUME BannedLast(new, e.address) PROVE e.action = "ban"
    <3>1. PICK i \in 1 .. Len(new) : /\ new[i].action = "ban"
                                     /\ \A j \in 1 .. Len(new) : new[j].address = e.address => i <= j
      BY <2>1 DEF BannedLast
    <3>2. i <= 1 BY <1>2, <1>3, <3>1
    <3>3. i = 1 BY <1>2, <3>2
    <3>4. QED BY <1>3, <3>1, <3>3
  <2>2. ASSUME e.action = "ban" PROVE BannedLast(new, e.address)
    <3>1. 1 \in 1 .. Len(new) /\ \A j \in 1 .. Len(new) : 1 <= j BY <1>2
    <3>2. QED BY <1>3, <2>2, <3>1 DEF BannedLast
  <2>3. QED BY <2>1, <2>2
<1>7. ASSUME NEW c, c # e.address PROVE BannedLast(new, c) <=> BannedLast(log, c)
  <2>1. ASSUME BannedLast(new, c) PROVE BannedLast(log, c)
    <3>1. PICK i \in 1 .. Len(new) : /\ new[i].address = c /\ new[i].action = "ban"
                                     /\ \A j \in 1 .. Len(new) : new[j].address = c => i <= j
      BY <2>1 DEF BannedLast
    <3>2. i - 1 \in 1 .. Len(log) /\ new[i] = log[i - 1] BY <1>3, <1>5, <1>7, <3>1
    <3>3. \A j \in 1 .. Len(log) : log[j].address = c => i - 1 <= j
      <4>1. SUFFICES ASSUME NEW j \in 1 .. Len(log), log[j].address = c PROVE i - 1 <= j
        OBVIOUS
      <4>2. i <= j + 1 BY <1>4, <3>1, <4>1
      <4>3. QED BY <1>2, <4>2
    <3>4. QED BY <3>1, <3>2, <3>3 DEF BannedLast
  <2>2. ASSUME BannedLast(log, c) PROVE BannedLast(new, c)
    <3>1. PICK i \in 1 .. Len(log) : /\ log[i].address = c /\ log[i].action = "ban"
                                     /\ \A j \in 1 .. Len(log) : log[j].address = c => i <= j
      BY <2>2 DEF BannedLast
    <3>2. i + 1 \in 1 .. Len(new) /\ new[i + 1] = log[i] BY <1>4
    <3>3. \A j \in 1 .. Len(new) : new[j].address = c => i + 1 <= j
      <4>1. SUFFICES ASSUME NEW j \in 1 .. Len(new), new[j].address = c PROVE i + 1 <= j
        OBVIOUS
      <4>2. j - 1 \in 1 .. Len(log) /\ new[j] = log[j - 1] BY <1>3, <1>5, <1>7, <4>1
      <4>3. i <= j - 1 BY <3>1, <4>1, <4>2
      <4>4. QED BY <1>2, <4>3
    <3>4. QED BY <3>1, <3>2, <3>3 DEF BannedLast
  <2>3. QED BY <2>1, <2>2
<1>8. QED BY <1>2, <1>6, <1>7 DEF new

\* Opening the page, with or without a stored register, finds a good one.
LEMMA LoadedRegister ==
  ASSUME BansInv, NEW by \in BanAccounts \cup {"nobody"}, Bans!Load(by)
  PROVE  /\ bansLists' = bansStored' /\ GoodRegister(bansStored')
         /\ bansDialog.asks # "nothing" => bansLists' = bansLists
<1>1. CASE bansLists = bansStored /\ GoodRegister(bansStored)
  <2>1. bansStored.set = TRUE BY <1>1 DEF GoodRegister
  <2>2. QED BY <1>1, <2>1 DEF Bans!Load, Bans!Loaded
<1>2. CASE bansStored = Bans!Unset /\ bansDialog = Bans!NoDialog
  <2> DEFINE log == [i \in 1 .. Len(BanSamples) |-> Bans!Entry("ban", BanSamples[i], Bans!Bypass(by))]
             r == [set |-> TRUE, creators |-> BanSamples, log |-> log]
  <2>1. bansStored.set = FALSE BY <1>2 DEF Bans!Unset
  <2>2. bansStored' = r /\ bansLists' = r
    BY <2>1 DEF Bans!Load, Bans!Loaded
  <2>3. BanSamples \in Seq(BanCreators) /\ Len(BanSamples) \in Nat
        /\ \A i \in 1 .. Len(BanSamples) : BanSamples[i] \in BanCreators
    BY AppAssumption
  <2>4. Apart(BanSamples) BY <2>3, AppAssumption DEF Apart
  <2>5. \A i \in 1 .. Len(BanSamples) :
          /\ log[i] = [action |-> "ban", address |-> BanSamples[i], performedBy |-> Bans!Bypass(by)]
    BY DEF Bans!Entry
  <2>6. Bans!Bypass(by) \in BanAccounts \cup {"nobody", "G-ADMIN"} BY DEF Bans!Bypass
  <2>7. log \in Seq(LogEntry) /\ Len(log) = Len(BanSamples)
    <3>1. \A i \in 1 .. Len(BanSamples) : log[i] \in LogEntry
      <4> HIDE DEF log
      <4> SUFFICES ASSUME NEW i \in 1 .. Len(BanSamples) PROVE log[i] \in LogEntry OBVIOUS
      <4>1. log[i] = [action |-> "ban", address |-> BanSamples[i], performedBy |-> Bans!Bypass(by)]
        BY <2>5
      <4>2. BanSamples[i] \in BanCreators BY <2>3
      <4>3. QED BY <2>6, <4>1, <4>2 DEF LogEntry
    <3>2. log = [i \in 1 .. Len(BanSamples) |-> log[i]] OBVIOUS
    <3> HIDE DEF log
    <3>3. log \in [1 .. Len(BanSamples) -> LogEntry] BY <3>1, <3>2
    <3>4. QED BY <2>3, <3>3
  <2> HIDE DEF log
  <2>8. \A c \in BanCreators : Among(BanSamples, c) <=> BannedLast(log, c)
    <3> SUFFICES ASSUME NEW c \in BanCreators PROVE Among(BanSamples, c) <=> BannedLast(log, c)
      OBVIOUS
    <3>1. \A i \in 1 .. Len(BanSamples) : log[i].action = "ban" /\ log[i].address = BanSamples[i]
      <4> SUFFICES ASSUME NEW i \in 1 .. Len(BanSamples)
                   PROVE  log[i].action = "ban" /\ log[i].address = BanSamples[i]
        OBVIOUS
      <4>1. log[i] = [action |-> "ban", address |-> BanSamples[i], performedBy |-> Bans!Bypass(by)]
        BY <2>5
      <4>2. QED BY <4>1
    <3>2. ASSUME Among(BanSamples, c) PROVE BannedLast(log, c)
      <4>1. PICK i \in 1 .. Len(BanSamples) : BanSamples[i] = c BY <3>2 DEF Among
      <4>2. \A j \in 1 .. Len(BanSamples) : log[j].address = c => j = i
        BY <2>4, <3>1, <4>1 DEF Apart
      <4>3. QED BY <2>3, <2>7, <3>1, <4>1, <4>2 DEF BannedLast
    <3>3. ASSUME BannedLast(log, c) PROVE Among(BanSamples, c)
      BY <2>7, <3>1, <3>3 DEF BannedLast, Among
    <3>4. QED BY <3>2, <3>3
  <2>9. GoodRegister(r) BY <2>3, <2>4, <2>7, <2>8 DEF GoodRegister
  <2>10. bansDialog.asks = "nothing" BY <1>2 DEF Bans!NoDialog
  <2>11. QED BY <2>2, <2>9, <2>10, Zenon
<1>3. QED BY <1>1, <1>2 DEF BansInv

LEMMA BansInvariant == AppSpec => []BansInv
<1>1. AppInit => BansInv
  <2> SUFFICES ASSUME AppInit PROVE BansInv OBVIOUS
  <2>1. /\ bansStored = Bans!Unset /\ bansLists = Bans!Unset /\ bansUser = "nobody"
        /\ bansDialog = Bans!NoDialog
    BY DEF AppInit, Bans!BansInit, Bans!Nobody
  <2>2. bansDialog.asks = "nothing" BY <2>1 DEF Bans!NoDialog
  <2>3. QED BY <2>1, <2>2 DEF BansInv
<1>2. BansInv /\ [Bans!BansNext]_bansVars => BansInv'
  <2> SUFFICES ASSUME BansInv, [Bans!BansNext]_bansVars PROVE BansInv' OBVIOUS
  <2>0. ASSUME bansUser # "nobody" PROVE bansLists = bansStored /\ GoodRegister(bansStored)
    BY <2>0 DEF BansInv
  <2>1. CASE UNCHANGED <<bansStored, bansUser, bansLists, bansDialog>>
    BY <2>1, Zenon DEF BansInv
  <2>2. CASE UNCHANGED bansVars BY <2>1, <2>2 DEF bansVars
  <2>3. ASSUME NEW a \in BanAccounts \cup {"nobody"}, Bans!AccountChanges(a) PROVE BansInv'
    <3>1. bansUser' = a /\ bansDialog' = bansDialog /\ Bans!Load(a)
      BY <2>3 DEF Bans!AccountChanges
    <3>2. /\ bansLists' = bansStored' /\ GoodRegister(bansStored')
          /\ bansDialog.asks # "nothing" => bansLists' = bansLists
      BY <3>1, LoadedRegister
    <3>3. bansLists' = bansStored' /\ GoodRegister(bansStored)' BY <3>2, Zenon
    <3>4. QED BY <3>1, <3>2, <3>3 DEF BansInv
  <2>4. ASSUME NEW a \in BanAccounts, Bans!AccessAnswered(a) PROVE BansInv'
    BY <2>1, <2>4 DEF Bans!AccessAnswered
  <2>5. ASSUME NEW c, Bans!EnterAddress(c) PROVE BansInv'
    BY <2>1, <2>5 DEF Bans!EnterAddress
  <2>6. ASSUME NEW c \in BanCreators, Bans!HandleUnbanClick(c) PROVE BansInv'
    <3>1. /\ bansDialog' = [asks |-> "unban", address |-> c]
          /\ UNCHANGED <<bansStored, bansUser, bansLists>> /\ bansUser # "nobody"
          /\ Among(bansLists.creators, c)
      BY <2>6 DEF Bans!HandleUnbanClick, Bans!Usable, Bans!Administers, Bans!Nobody,
                  Bans!IsBanned, Bans!Contains, Among
    <3>2. bansDialog'.asks = "unban" /\ bansDialog'.address = c BY <3>1
    <3>3. bansLists' = bansStored' /\ GoodRegister(bansStored)' BY <2>0, <3>1, Zenon
    <3>4. QED BY <3>1, <3>2, <3>3 DEF BansInv
  <2>7. CASE Bans!Reopen
    <3>1. bansUser' = bansUser /\ bansDialog' = Bans!NoDialog /\ Bans!Load(bansUser)
          /\ bansUser \in BanAccounts \cup {"nobody"}
      BY <2>7 DEF Bans!Reopen, BansInv
    <3>2. bansLists' = bansStored' /\ GoodRegister(bansStored') BY <3>1, LoadedRegister
    <3>3. bansLists' = bansStored' /\ GoodRegister(bansStored)' BY <3>2, Zenon
    <3>4. bansDialog'.asks = "nothing" BY <3>1 DEF Bans!NoDialog
    <3>5. QED BY <3>1, <3>3, <3>4 DEF BansInv
  <2>8. CASE Bans!HandleBanSubmit
    <3>1. /\ bansDialog' = [asks |-> "ban", address |-> bansForm] /\ bansForm \in BanCreators
          /\ UNCHANGED <<bansStored, bansUser, bansLists>> /\ bansUser # "nobody"
          /\ ~Among(bansLists.creators, bansForm)
      BY <2>8 DEF Bans!HandleBanSubmit, Bans!Usable, Bans!Administers, Bans!Nobody,
                  Bans!IsBanned, Bans!Contains, Among
    <3>2. bansDialog'.asks = "ban" /\ bansDialog'.address = bansForm BY <3>1
    <3>3. bansLists' = bansStored' /\ GoodRegister(bansStored)' BY <2>0, <3>1, Zenon
    <3>4. QED BY <3>1, <3>2, <3>3 DEF BansInv
  <2>9. ASSUME NEW what \in {"ban", "unban"}, bansDialog.asks = what
        PROVE  /\ bansLists = bansStored /\ GoodRegister(bansStored)
               /\ bansDialog.address \in BanCreators
               /\ Bans!Bypass(bansUser) \in BanAccounts \cup {"nobody", "G-ADMIN"}
    <3>1. bansDialog # Bans!NoDialog BY <2>9 DEF Bans!NoDialog
    <3>2. Bans!Bypass(bansUser) \in BanAccounts \cup {"nobody", "G-ADMIN"}
      BY DEF BansInv, Bans!Bypass
    <3>3. QED BY <2>9, <3>1, <3>2 DEF BansInv
  <2>10. ASSUME NEW creators, NEW what \in {"ban", "unban"}, NEW by,
                by \in BanAccounts \cup {"nobody", "G-ADMIN"},
                NEW c \in BanCreators, GoodRegister(bansLists),
                creators \in Seq(BanCreators), Apart(creators),
                \A d : Among(creators, d) <=> IF d = c THEN what = "ban"
                                              ELSE Among(bansLists.creators, d),
                Bans!Save(creators, Bans!Entry(what, c, by)),
                bansUser' = bansUser, bansDialog' = Bans!NoDialog
         PROVE  BansInv'
    <3> DEFINE e == Bans!Entry(what, c, by)
               new == [set |-> TRUE, creators |-> creators, log |-> <<e>> \o bansLists.log]
    <3>1. bansLists' = new /\ bansStored' = new BY <2>10 DEF Bans!Save
    <3>2. e = [action |-> what, address |-> c, performedBy |-> by] BY DEF Bans!Entry
    <3>3. e \in LogEntry /\ e.address = c /\ e.action = what BY <2>10, <3>2 DEF LogEntry
    <3> HIDE DEF e
    <3>4. bansLists.log \in Seq(LogEntry) BY <2>10 DEF GoodRegister
    <3>5. /\ <<e>> \o bansLists.log \in Seq(LogEntry)
          /\ BannedLast(<<e>> \o bansLists.log, c) <=> what = "ban"
          /\ \A d : d # c => (BannedLast(<<e>> \o bansLists.log, d) <=> BannedLast(bansLists.log, d))
      BY <3>3, <3>4, LogPrefixed
    <3>6. \A d \in BanCreators : Among(creators, d) <=> BannedLast(<<e>> \o bansLists.log, d)
      BY <2>10, <3>5 DEF GoodRegister
    <3>7. GoodRegister(new) BY <2>10, <3>5, <3>6, Zenon DEF GoodRegister
    <3>8. bansLists' = bansStored' /\ GoodRegister(bansStored)' BY <3>1, <3>7, Zenon
    <3>9. bansDialog'.asks = "nothing" BY <2>10 DEF Bans!NoDialog
    <3>10. QED BY <2>10, <3>8, <3>9 DEF BansInv
  <2>11. CASE Bans!ExecuteBan
    <3> DEFINE c == bansDialog.address
               old == bansLists.creators
    <3>1. /\ bansDialog.asks = "ban" /\ bansUser' = bansUser /\ bansDialog' = Bans!NoDialog
          /\ Bans!Save(<<c>> \o old, Bans!Entry("ban", c, Bans!Bypass(bansUser)))
      BY <2>11 DEF Bans!ExecuteBan
    <3>2. /\ GoodRegister(bansLists) /\ c \in BanCreators /\ ~Among(old, c)
          /\ Bans!Bypass(bansUser) \in BanAccounts \cup {"nobody", "G-ADMIN"}
      BY <2>9, <3>1 DEF BansInv
    <3>3. old \in Seq(BanCreators) /\ Apart(old) BY <3>2 DEF GoodRegister
    <3> HIDE DEF c, old
    <3>4. /\ <<c>> \o old \in Seq(BanCreators) /\ Apart(<<c>> \o old)
          /\ \A d : Among(<<c>> \o old, d) <=> IF d = c THEN "ban" = "ban" ELSE Among(old, d)
      BY <3>2, <3>3, ListPrefixed
    <3>5. QED BY <2>10, <3>1, <3>2, <3>4 DEF c, old
  <2>12. CASE Bans!ExecuteUnban
    <3> DEFINE c == bansDialog.address
               old == bansLists.creators
    <3>1. /\ bansDialog.asks = "unban" /\ bansUser' = bansUser /\ bansDialog' = Bans!NoDialog
          /\ Bans!Save(Filtered(old, c), Bans!Entry("unban", c, Bans!Bypass(bansUser)))
      BY <2>12, BansFiltered DEF Bans!ExecuteUnban
    <3>2. /\ GoodRegister(bansLists) /\ c \in BanCreators
          /\ Bans!Bypass(bansUser) \in BanAccounts \cup {"nobody", "G-ADMIN"}
      BY <2>9, <3>1 DEF BansInv
    <3>3. old \in Seq(BanCreators) /\ Apart(old) BY <3>2 DEF GoodRegister
    <3> HIDE DEF c, old
    <3>4. /\ Filtered(old, c) \in Seq(BanCreators) /\ Apart(Filtered(old, c))
          /\ \A d : Among(Filtered(old, c), d) <=> Among(old, d) /\ d # c
      BY <3>3, FilteredList
    <3>5. \A d : Among(Filtered(old, c), d) <=> IF d = c THEN "unban" = "ban" ELSE Among(old, d)
      BY <3>4
    <3>6. QED BY <2>10, <3>1, <3>2, <3>4, <3>5 DEF c, old
  <2>13. CASE Bans!CancelBan \/ Bans!CancelUnban
    <3>1. bansDialog' = Bans!NoDialog /\ UNCHANGED <<bansStored, bansUser, bansLists>>
      BY <2>13 DEF Bans!CancelBan, Bans!CancelUnban
    <3>2. bansDialog'.asks = "nothing" BY <3>1 DEF Bans!NoDialog
    <3>3. (bansLists = bansStored /\ GoodRegister(bansStored))
            => (bansLists' = bansStored' /\ GoodRegister(bansStored)')
      BY <3>1, Zenon
    <3>4. QED BY <3>1, <3>2, <3>3 DEF BansInv
  <2>14. QED
    BY <2>2, <2>3, <2>4, <2>5, <2>6, <2>7, <2>8, <2>11, <2>12, <2>13
    DEF Bans!BansNext, Bans!Nobody
<1>3. AppInit /\ [][AppNext]_appVars => []BansInv BY <1>1, <1>2, BansStep, PTL
<1>4. QED BY <1>3, PTL DEF AppSpec

LEMMA BansAreLogged == BansInv => Bans!LogTellsBans
<1> SUFFICES ASSUME BansInv PROVE Bans!LogTellsBans OBVIOUS
<1>1. CASE bansStored = Bans!Unset
  <2>1. bansStored.creators = <<>> /\ bansStored.log = <<>> BY <1>1 DEF Bans!Unset
  <2>2. \A c : ~Bans!Contains(bansStored.creators, c) BY <2>1 DEF Bans!Contains
  <2>3. \A c : Bans!LastSaid(c) = "unban" BY <2>1 DEF Bans!LastSaid
  <2>4. Bans!IsInjective(bansStored.creators) BY <2>1 DEF Bans!IsInjective
  <2>5. QED BY <2>2, <2>3, <2>4 DEF Bans!LogTellsBans
<1>2. CASE GoodRegister(bansStored)
  <2> DEFINE log == bansStored.log
             creators == bansStored.creators
  <2>1. /\ creators \in Seq(BanCreators) /\ Apart(creators) /\ log \in Seq(LogEntry)
        /\ \A c \in BanCreators : Among(creators, c) <=> BannedLast(log, c)
    BY <1>2, Zenon DEF GoodRegister
  <2>2. Bans!IsInjective(creators) BY <2>1 DEF Bans!IsInjective, Apart
  <2>3. DOMAIN log = 1 .. Len(log) /\ Len(log) \in Nat
    <3> HIDE DEF log
    <3>1. QED BY <2>1
  <2>4. ASSUME NEW c \in BanCreators
        PROVE  Bans!Contains(creators, c) <=> Bans!LastSaid(c) = "ban"
    <3> DEFINE said == {i \in DOMAIN log : log[i].address = c}
    <3>1. Bans!Contains(creators, c) <=> BannedLast(log, c)
      BY <2>1, <2>4, Zenon DEF Bans!Contains, Among
    <3>2. Bans!LastSaid(c) = IF said = {} THEN "unban"
                             ELSE log[CHOOSE i \in said : \A j \in said : i <= j].action
      BY Zenon DEF Bans!LastSaid
    <3> HIDE DEF log, creators
    <3>3. CASE said = {}
      <4>1. ~BannedLast(log, c) BY <2>3, <3>3 DEF BannedLast
      <4>2. QED BY <3>1, <3>2, <3>3, <4>1
    <3>4. CASE said # {}
      <4>1. said \subseteq Nat BY <2>3
      <4>2. \E i \in said : \A j \in said : i <= j BY <3>4, <4>1, LeastNatural
      <4> DEFINE least == CHOOSE i \in said : \A j \in said : i <= j
      <4>3. least \in said /\ \A j \in said : least <= j BY <4>2
      <4>4. Bans!LastSaid(c) = log[least].action BY <3>2, <3>4
      <4> HIDE DEF least
      <4>5. least \in 1 .. Len(log) /\ log[least].address = c BY <2>3, <4>3
      <4>6. ASSUME BannedLast(log, c) PROVE log[least].action = "ban"
        <5>1. PICK i \in 1 .. Len(log) : /\ log[i].address = c /\ log[i].action = "ban"
                                         /\ \A j \in 1 .. Len(log) : log[j].address = c => i <= j
          BY <4>6 DEF BannedLast
        <5>2. i <= least /\ least <= i BY <2>3, <4>3, <4>5, <5>1
        <5>3. i = least BY <2>3, <4>5, <5>2
        <5>4. QED BY <5>1, <5>3
      <4>7. ASSUME log[least].action = "ban" PROVE BannedLast(log, c)
        BY <2>3, <4>3, <4>5, <4>7 DEF BannedLast
      <4>8. QED BY <3>1, <4>4, <4>6, <4>7
    <3>5. QED BY <3>3, <3>4
  <2>5. QED BY <2>2, <2>4, Zenon DEF Bans!LogTellsBans
<1>3. QED BY <1>1, <1>2 DEF BansInv

(* What the browser keeps agrees with what it shows: the address with the  *)
(* filters, the stored lists with their limits, the list of bans with its  *)
(* log, and the session with what is remembered of it.                     *)
THEOREM BrowserAgrees == AppSpec => []BrowserStateAgrees
<1>1. AddressInv /\ SessionInv /\ SelectionsInv /\ BansInv => BrowserStateAgrees
  <2> SUFFICES ASSUME AddressInv, SessionInv, SelectionsInv, BansInv PROVE BrowserStateAgrees
    OBVIOUS
  <2>1. Address!AddressMirrorsFilters BY DEF AddressInv, Address!AddressMirrorsFilters
  <2>2. Session!RememberedWhileConnected
    BY DEF SessionInv, Session!RememberedWhileConnected, Session!Connected, Session!Nobody
  <2>3. QED BY <2>1, <2>2, ListsStayBounded, BansAreLogged DEF BrowserStateAgrees
<1>2. QED
  BY <1>1, AddressInvariant, SessionInvariant, SelectionsInvariant, BansInvariant, PTL

-----------------------------------------------------------------------------
(* The create pages.  An edit touches the fields of the step it is made    *)
(* on, and a jump ahead stops at the first bad step, so that what lies     *)
(* behind the current step stays valid; a submission in flight is a draft  *)
(* that passed the checks of its page and is not touched by later edits.   *)

LEMMA CreateStep == [AppNext]_appVars => [Create!CreateNext]_createVars
BY DEF AppNext, Step, Still, appVars

TitleOk(d) == Create!validatePoolTitle(d.title)
DescriptionOk(d) == Create!validatePoolDescription(d.description)
OutcomesOk(d) == Create!validateOutcomesList(d.outcomes)
DurationOk(d) == Create!validateDuration(d.duration)
DeadlineOk(d) == Create!validateDepositDeadline(d.deadline, d.duration)
FeeOk(d) == Create!validateProtocolFeeBps(d.fee)

BasicsOk(d) == TitleOk(d) /\ DescriptionOk(d)
ParametersOk(d) == DurationOk(d) /\ DeadlineOk(d) /\ FeeOk(d)

\* No character takes less than one byte.
Measured(text) == text.chars \in Nat /\ text.bytes \in Nat /\ text.chars <= text.bytes

IsDraft(d) ==
  /\ d = [title |-> d.title, description |-> d.description, outcomes |-> d.outcomes,
          duration |-> d.duration, deadline |-> d.deadline, fee |-> d.fee,
          deposit |-> d.deposit]
  /\ Measured(d.description)

BehindOk(d, k) ==
  /\ k > 2 => BasicsOk(d)
  /\ k > 3 => OutcomesOk(d)
  /\ k > 4 => ParametersOk(d)

Sendable(s) ==
  /\ s.from \in {"wizard", "form"} /\ Measured(s.sent.description)
  /\ BasicsOk(s.sent) /\ OutcomesOk(s.sent) /\ DurationOk(s.sent)

GoodSubmission(s) ==
  /\ s = [stage |-> s.stage, sent |-> s.sent, from |-> s.from]
  /\ s.stage # "idle" => Sendable(s)

Composing(surface, k, d) ==
  /\ surface \in {"wizard", "form"} /\ k \in 1 .. 5 /\ IsDraft(d)
  /\ surface = "wizard" => BehindOk(d, k)

CreateInv ==
  Composing(createSurface, createStep, createDraft) /\ GoodSubmission(createSubmission)

LEMMA CheckedFields ==
  ASSUME NEW d
  PROVE  /\ Create!Checks(d)["title"] <=> TitleOk(d)
         /\ Create!Checks(d)["description"] <=> DescriptionOk(d)
         /\ Create!Checks(d)["outcomes"] <=> OutcomesOk(d)
         /\ Create!Checks(d)["duration"] <=> DurationOk(d)
         /\ Create!Checks(d)["deadline"] <=> DeadlineOk(d)
         /\ Create!Checks(d)["fee"] <=> FeeOk(d)
BY DEF Create!Checks, TitleOk, DescriptionOk, OutcomesOk, DurationOk, DeadlineOk, FeeOk

LEMMA BadStepsAre ==
  ASSUME NEW d
  PROVE  /\ 2 \in Create!BadSteps(d) <=> ~BasicsOk(d)
         /\ 3 \in Create!BadSteps(d) <=> ~OutcomesOk(d)
         /\ 4 \in Create!BadSteps(d) <=> ~ParametersOk(d)
         /\ Create!BadSteps(d) \subseteq {2, 3, 4}
<1>1. /\ Create!StepFields[1] = {} /\ Create!StepFields[2] = {"title", "description"}
      /\ Create!StepFields[3] = {"outcomes"}
      /\ Create!StepFields[4] = {"duration", "deadline", "fee"} /\ Create!StepFields[5] = {}
  BY DEF Create!StepFields
<1>3. Create!Bad(d, {"title", "description"}) = {} <=> BasicsOk(d)
  BY CheckedFields, Zenon DEF Create!Bad, BasicsOk
<1>4. Create!Bad(d, {"outcomes"}) = {} <=> OutcomesOk(d)
  BY CheckedFields, Zenon DEF Create!Bad
<1>5. Create!Bad(d, {"duration", "deadline", "fee"}) = {} <=> ParametersOk(d)
  BY CheckedFields, Zenon DEF Create!Bad, ParametersOk
<1>6. Create!Bad(d, {}) = {} BY DEF Create!Bad
<1>7. \A s \in 1 .. 5 : s \in Create!BadSteps(d) <=> Create!Bad(d, Create!StepFields[s]) # {}
  BY DEF Create!BadSteps
<1>8. Create!BadSteps(d) \subseteq 1 .. 5 BY DEF Create!BadSteps
<1>9. 1 \notin Create!BadSteps(d) /\ 5 \notin Create!BadSteps(d) BY <1>1, <1>6, <1>7
<1>10. QED BY <1>1, <1>3, <1>4, <1>5, <1>7, <1>8, <1>9

LEMMA BadStepsBehind ==
  ASSUME NEW d, NEW k \in 1 .. 5
  PROVE  BehindOk(d, k) <=> \A s \in Create!BadSteps(d) : s >= k
<1>1. ASSUME BehindOk(d, k), NEW s \in Create!BadSteps(d) PROVE s >= k
  <2>1. CASE s = 2 BY <1>1, <2>1, BadStepsAre DEF BehindOk
  <2>2. CASE s = 3 BY <1>1, <2>2, BadStepsAre DEF BehindOk
  <2>3. CASE s = 4 BY <1>1, <2>3, BadStepsAre DEF BehindOk
  <2>4. QED BY <2>1, <2>2, <2>3, BadStepsAre
<1>2. ASSUME \A s \in Create!BadSteps(d) : s >= k PROVE BehindOk(d, k)
  BY <1>2, BadStepsAre DEF BehindOk
<1>3. QED BY <1>1, <1>2

\* A jump lands where everything behind is valid.
LEMMA JumpsStop ==
  ASSUME CreateInv, createSurface = "wizard", NEW k \in 1 .. 5
  PROVE  Create!goTo(k) \in 1 .. 5 /\ BehindOk(createDraft, Create!goTo(k))
<1> DEFINE bad == {s \in Create!BadSteps(createDraft) : s < k}
<1>1. /\ createStep \in 1 .. 5
      /\ \A s \in Create!BadSteps(createDraft) : s >= createStep
  BY BadStepsBehind DEF CreateInv, Composing
<1>2. Create!BadSteps(createDraft) \subseteq 1 .. 5 BY BadStepsAre
<1>3. Create!goTo(k) = IF k <= createStep \/ bad = {} THEN k ELSE Create!Min(bad)
  BY Zenon DEF Create!goTo
<1>4. CASE k <= createStep \/ bad = {}
  <2>1. \A s \in Create!BadSteps(createDraft) : s >= k BY <1>1, <1>2, <1>4
  <2>2. QED BY <1>3, <1>4, <2>1, BadStepsBehind
<1>5. CASE bad # {} /\ ~(k <= createStep)
  <2>1. bad \subseteq Nat BY <1>2
  <2>2. \E x \in bad : \A y \in bad : x <= y BY <1>5, <2>1, LeastNatural
  <2>3. Create!Min(bad) \in bad /\ \A y \in bad : Create!Min(bad) <= y
    BY <2>2, Zenon DEF Create!Min
  <2>4. Create!Min(bad) \in 1 .. 5 BY <1>2, <2>3
  <2>5. \A s \in Create!BadSteps(createDraft) : s >= Create!Min(bad)
    BY <1>2, <2>3, <2>4
  <2>6. QED BY <1>3, <1>5, <2>4, <2>5, BadStepsBehind
<1>6. QED BY <1>4, <1>5

\* A draft with another value in one of its fields.
Altered(d, field, v) == [d EXCEPT ![field] = v]

LEMMA FieldsSet ==
  ASSUME NEW d, IsDraft(d), NEW v
  PROVE  /\ Altered(d, "title", v) =
              [title |-> v, description |-> d.description, outcomes |-> d.outcomes,
               duration |-> d.duration, deadline |-> d.deadline, fee |-> d.fee,
               deposit |-> d.deposit]
         /\ Altered(d, "description", v) =
              [title |-> d.title, description |-> v, outcomes |-> d.outcomes,
               duration |-> d.duration, deadline |-> d.deadline, fee |-> d.fee,
               deposit |-> d.deposit]
         /\ Altered(d, "outcomes", v) =
              [title |-> d.title, description |-> d.description, outcomes |-> v,
               duration |-> d.duration, deadline |-> d.deadline, fee |-> d.fee,
               deposit |-> d.deposit]
         /\ Altered(d, "duration", v) =
              [title |-> d.title, description |-> d.description, outcomes |-> d.outcomes,
               duration |-> v, deadline |-> d.deadline, fee |-> d.fee, deposit |-> d.deposit]
         /\ Altered(d, "deadline", v) =
              [title |-> d.title, description |-> d.description, outcomes |-> d.outcomes,
               duration |-> d.duration, deadline |-> v, fee |-> d.fee, deposit |-> d.deposit]
         /\ Altered(d, "fee", v) =
              [title |-> d.title, description |-> d.description, outcomes |-> d.outcomes,
               duration |-> d.duration, deadline |-> d.deadline, fee |-> v, deposit |-> d.deposit]
         /\ Altered(d, "deposit", v) =
              [title |-> d.title, description |-> d.description, outcomes |-> d.outcomes,
               duration |-> d.duration, deadline |-> d.deadline, fee |-> d.fee, deposit |-> v]
<1>1. /\ [d EXCEPT !.title = v] =
           [title |-> v, description |-> d.description, outcomes |-> d.outcomes,
            duration |-> d.duration, deadline |-> d.deadline, fee |-> d.fee,
            deposit |-> d.deposit]
      /\ [d EXCEPT !.description = v] =
           [title |-> d.title, description |-> v, outcomes |-> d.outcomes,
            duration |-> d.duration, deadline |-> d.deadline, fee |-> d.fee,
            deposit |-> d.deposit]
      /\ [d EXCEPT !.outcomes = v] =
           [title |-> d.title, description |-> d.description, outcomes |-> v,
            duration |-> d.duration, deadline |-> d.deadline, fee |-> d.fee,
            deposit |-> d.deposit]
      /\ [d EXCEPT !.duration = v] =
           [title |-> d.title, description |-> d.description, outcomes |-> d.outcomes,
            duration |-> v, deadline |-> d.deadline, fee |-> d.fee, deposit |-> d.deposit]
      /\ [d EXCEPT !.deadline = v] =
           [title |-> d.title, description |-> d.description, outcomes |-> d.outcomes,
            duration |-> d.duration, deadline |-> v, fee |-> d.fee, deposit |-> d.deposit]
      /\ [d EXCEPT !.fee = v] =
           [title |-> d.title, description |-> d.description, outcomes |-> d.outcomes,
            duration |-> d.duration, deadline |-> d.deadline, fee |-> v, deposit |-> d.deposit]
      /\ [d EXCEPT !.deposit = v] =
           [title |-> d.title, description |-> d.description, outcomes |-> d.outcomes,
            duration |-> d.duration, deadline |-> d.deadline, fee |-> d.fee, deposit |-> v]
  BY DEF IsDraft
<1>2. /\ Altered(d, "title", v) = [d EXCEPT !.title = v]
      /\ Altered(d, "description", v) = [d EXCEPT !.description = v]
      /\ Altered(d, "outcomes", v) = [d EXCEPT !.outcomes = v]
      /\ Altered(d, "duration", v) = [d EXCEPT !.duration = v]
      /\ Altered(d, "deadline", v) = [d EXCEPT !.deadline = v]
      /\ Altered(d, "fee", v) = [d EXCEPT !.fee = v]
      /\ Altered(d, "deposit", v) = [d EXCEPT !.deposit = v]
  BY Zenon DEF Altered
<1>3. QED BY <1>1, <1>2, Zenon

LEMMA RecordIsDraft ==
  ASSUME NEW title, NEW description, NEW outcomes, NEW duration, NEW deadline, NEW fee,
         NEW deposit, Measured(description)
  PROVE  IsDraft([title |-> title, description |-> description, outcomes |-> outcomes,
                  duration |-> duration, deadline |-> deadline, fee |-> fee,
                  deposit |-> deposit])
BY DEF IsDraft

\* An edit of the fields of step k leaves those of the steps before it.
LEMMA EditsKeepBehind ==
  ASSUME NEW d, IsDraft(d), NEW v
  PROVE  /\ IsDraft(Altered(d, "title", v)) /\ BehindOk(Altered(d, "title", v), 2)
         /\ Measured(v) =>
              IsDraft(Altered(d, "description", v)) /\ BehindOk(Altered(d, "description", v), 2)
         /\ IsDraft(Altered(d, "outcomes", v))
         /\ BehindOk(d, 3) => BehindOk(Altered(d, "outcomes", v), 3)
         /\ IsDraft(Altered(d, "duration", v)) /\ IsDraft(Altered(d, "deadline", v))
         /\ IsDraft(Altered(d, "fee", v)) /\ IsDraft(Altered(d, "deposit", v))
         /\ BehindOk(d, 4) => /\ BehindOk(Altered(d, "duration", v), 4)
                              /\ BehindOk(Altered(d, "deadline", v), 4)
                              /\ BehindOk(Altered(d, "fee", v), 4)
<1>1. /\ IsDraft(Altered(d, "title", v)) /\ IsDraft(Altered(d, "outcomes", v))
      /\ IsDraft(Altered(d, "duration", v)) /\ IsDraft(Altered(d, "deadline", v))
      /\ IsDraft(Altered(d, "fee", v)) /\ IsDraft(Altered(d, "deposit", v))
      /\ Measured(v) => IsDraft(Altered(d, "description", v))
  <2>1. Measured(d.description) BY DEF IsDraft
  <2>2. QED BY <2>1, FieldsSet, RecordIsDraft
<1>2. \A e : BehindOk(e, 2) BY DEF BehindOk
<1>3. BehindOk(d, 3) => BehindOk(Altered(d, "outcomes", v), 3)
  BY FieldsSet DEF BehindOk, BasicsOk, TitleOk, DescriptionOk
<1>4. BehindOk(d, 4) => /\ BehindOk(Altered(d, "duration", v), 4)
                        /\ BehindOk(Altered(d, "deadline", v), 4)
                        /\ BehindOk(Altered(d, "fee", v), 4)
  BY FieldsSet DEF BehindOk, BasicsOk, TitleOk, DescriptionOk, OutcomesOk
<1>5. QED BY <1>1, <1>2, <1>3, <1>4

LEMMA EmptyIsDraft ==
  IsDraft(Create!EmptyDraft) /\ \A d : BehindOk(d, 1) /\ BehindOk(d, 2)
<1>1. /\ Create!EmptyDraft.description = [chars |-> 0, bytes |-> 0, blank |-> TRUE]
      /\ Create!EmptyDraft =
           [title |-> Create!EmptyDraft.title, description |-> Create!EmptyDraft.description,
            outcomes |-> Create!EmptyDraft.outcomes, duration |-> Create!EmptyDraft.duration,
            deadline |-> Create!EmptyDraft.deadline, fee |-> Create!EmptyDraft.fee,
            deposit |-> Create!EmptyDraft.deposit]
  BY DEF Create!EmptyDraft, Create!NoText
<1>2. IsDraft(Create!EmptyDraft) BY <1>1 DEF IsDraft, Measured
<1>3. QED BY <1>2 DEF BehindOk

LEMMA SeedIsDraft ==
  ASSUME IsDraft(createDraft), NEW t \in CreateTemplates, NEW deadline, Create!Seeded(t, deadline)
  PROVE  IsDraft(createDraft')
<1>1. Measured(t.description) BY AppAssumption DEF Measured
<1>2. createDraft' = [createDraft EXCEPT !.title = t.title, !.description = t.description,
                        !.outcomes = t.outcomes, !.duration = t.duration, !.deadline = deadline]
  BY DEF Create!Seeded
<1>3. createDraft' = [title |-> t.title, description |-> t.description, outcomes |-> t.outcomes,
                      duration |-> t.duration, deadline |-> deadline, fee |-> createDraft.fee,
                      deposit |-> createDraft.deposit]
  BY <1>2 DEF IsDraft
<1>4. QED BY <1>1, <1>3 DEF IsDraft

\* What the checks of either page let through.
LEMMA SubmittedPass ==
  ASSUME NEW d, \/ Create!Bad(d, Create!WizardFields) = {} \/ Create!Bad(d, Create!FormFields) = {}
  PROVE  BasicsOk(d) /\ OutcomesOk(d) /\ DurationOk(d)
<1>1. ASSUME NEW fields, Create!Bad(d, fields) = {},
             {"title", "description", "outcomes", "duration"} \subseteq fields
      PROVE  BasicsOk(d) /\ OutcomesOk(d) /\ DurationOk(d)
  <2>1. \A f \in fields : Create!Checks(d)[f] BY <1>1, Zenon DEF Create!Bad
  <2>2. /\ "title" \in fields /\ "description" \in fields /\ "outcomes" \in fields
        /\ "duration" \in fields
    BY <1>1
  <2>3. QED BY <2>1, <2>2, CheckedFields, Zenon DEF BasicsOk
<1>2. /\ {"title", "description", "outcomes", "duration"} \subseteq Create!WizardFields
      /\ {"title", "description", "outcomes", "duration"} \subseteq Create!FormFields
  BY DEF Create!WizardFields, Create!FormFields
<1>3. QED BY <1>1, <1>2

LEMMA CreateInvKept == CreateInv /\ [Create!CreateNext]_createVars => CreateInv'
<1> SUFFICES ASSUME CreateInv, [Create!CreateNext]_createVars PROVE CreateInv' OBVIOUS
<1>0. /\ createSurface \in {"wizard", "form"} /\ createStep \in 1 .. 5 /\ IsDraft(createDraft)
      /\ createSurface = "wizard" => BehindOk(createDraft, createStep)
      /\ GoodSubmission(createSubmission)
  BY DEF CreateInv, Composing
<1>1. ASSUME UNCHANGED createSubmission, UNCHANGED createSurface, IsDraft(createDraft'),
             createStep' \in 1 .. 5,
             createSurface = "wizard" => BehindOk(createDraft', createStep')
      PROVE  CreateInv'
  BY <1>0, <1>1, Zenon DEF CreateInv, Composing
<1>2. ASSUME UNCHANGED <<createSurface, createDraft, createStep>>, GoodSubmission(createSubmission')
      PROVE  CreateInv'
  BY <1>0, <1>2, Zenon DEF CreateInv, Composing
<1>3. ASSUME UNCHANGED createSurface, IsDraft(createDraft'), createStep' \in 1 .. 2,
             GoodSubmission(createSubmission')
      PROVE  CreateInv'
  <2>1. createStep' \in 1 .. 5 /\ BehindOk(createDraft', createStep') BY <1>3, EmptyIsDraft
  <2>2. QED BY <1>0, <1>3, <2>1, Zenon DEF CreateInv, Composing
<1>4. GoodSubmission(Create!Idle)
  BY DEF Create!Idle, GoodSubmission
<1>5. CASE UNCHANGED createVars BY <1>0, <1>1, <1>5 DEF createVars
<1>6. CASE Create!EditBasics
  <2>1. \A t \in CreateDescriptions : Measured(t) BY AppAssumption DEF Measured
  <2>2. createStep = 2 /\ UNCHANGED <<createSurface, createStep, createSubmission>>
    BY <1>6 DEF Create!EditBasics, Create!OnStep, Create!Edited
  <2>3. \/ \E t \in CreateTitles : createDraft' = Altered(createDraft, "title", t)
        \/ \E t \in CreateDescriptions : createDraft' = Altered(createDraft, "description", t)
    BY <1>6, Zenon DEF Create!EditBasics, Create!Edited, Altered
  <2>4. IsDraft(createDraft') /\ BehindOk(createDraft', 2)
    BY <1>0, <2>1, <2>3, EditsKeepBehind
  <2>5. QED BY <1>0, <1>1, <2>2, <2>4
<1>7. CASE Create!EditParameters
  <2>1. createStep = 4 /\ createSurface = "wizard"
        /\ UNCHANGED <<createSurface, createStep, createSubmission>>
    BY <1>7 DEF Create!EditParameters, Create!OnStep, Create!Edited
  <2>2. \/ \E n \in CreateDurations : createDraft' = Altered(createDraft, "duration", n)
        \/ \E n \in CreateDeadlines : createDraft' = Altered(createDraft, "deadline", n)
        \/ \E n \in CreateFees : createDraft' = Altered(createDraft, "fee", n)
    BY <1>7, Zenon DEF Create!EditParameters, Create!Edited, Altered
  <2>3. BehindOk(createDraft, 4) BY <1>0, <2>1
  <2>4. IsDraft(createDraft') /\ BehindOk(createDraft', 4)
    BY <1>0, <2>2, <2>3, EditsKeepBehind
  <2>5. QED BY <1>0, <1>1, <2>1, <2>4
<1>8. ASSUME NEW v, createDraft' = Altered(createDraft, "outcomes", v), Create!OnStep(3),
             UNCHANGED <<createSurface, createStep, createSubmission>>
      PROVE  CreateInv'
  BY <1>0, <1>1, <1>8, EditsKeepBehind DEF Create!OnStep
<1>9. CASE Create!EditOutcomes \/ Create!AddOutcome
  <2>1. PICK v : createDraft' = Altered(createDraft, "outcomes", v)
    BY <1>9, Zenon DEF Create!EditOutcomes, Create!AddOutcome, Create!Edited, Altered
  <2>2. QED BY <1>8, <1>9, <2>1 DEF Create!EditOutcomes, Create!AddOutcome, Create!Edited
<1>10. ASSUME NEW i, Create!RemoveOutcome(i) PROVE CreateInv'
  <2>1. PICK v : createDraft' = Altered(createDraft, "outcomes", v)
    BY <1>10, Zenon DEF Create!RemoveOutcome, Altered
  <2>2. QED BY <1>8, <1>10, <2>1 DEF Create!RemoveOutcome
<1>11. ASSUME NEW k \in 1 .. 5, Create!Jump(k) \/ Create!ReviewEdit(k) PROVE CreateInv'
  BY <1>0, <1>1, <1>11, JumpsStop DEF Create!ReviewEdit, Create!Jump
<1>12. CASE Create!NextStep
  <2>1. createStep \in 1 .. 4 /\ createSurface = "wizard" BY <1>0, <1>12 DEF Create!NextStep
  <2>2. CASE createStep \in Create!BadSteps(createDraft)
    BY <1>0, <1>1, <1>12, <2>2 DEF Create!NextStep
  <2>3. CASE createStep \notin Create!BadSteps(createDraft)
    <3>1. createStep' = createStep + 1 /\ createStep + 1 \in 1 .. 5
      BY <1>12, <2>1, <2>3 DEF Create!NextStep
    <3>2. \A s \in Create!BadSteps(createDraft) : s >= createStep /\ s \in 2 .. 4
      BY <1>0, <2>1, BadStepsBehind, BadStepsAre
    <3>3. \A s \in Create!BadSteps(createDraft) : s >= createStep + 1 BY <2>1, <2>3, <3>2
    <3>4. BehindOk(createDraft, createStep + 1) BY <3>1, <3>3, BadStepsBehind
    <3>5. QED BY <1>0, <1>1, <1>12, <3>1, <3>4 DEF Create!NextStep
  <2>4. QED BY <2>2, <2>3
<1>13. CASE Create!PrevStep
  <2>1. createStep' = createStep - 1 /\ createStep - 1 \in 1 .. 5 /\ createSurface = "wizard"
    BY <1>0, <1>13 DEF Create!PrevStep
  <2>2. BehindOk(createDraft, createStep - 1) BY <1>0, <2>1 DEF BehindOk
  <2>3. QED BY <1>0, <1>1, <1>13, <2>1, <2>2 DEF Create!PrevStep
<1>14. CASE Create!ClearDraft
  BY <1>0, <1>3, <1>14, EmptyIsDraft DEF Create!ClearDraft
<1>15. CASE Create!DeepLinkArrives
  <2>1. CASE UNCHANGED <<createDraft, createStep>>
    BY <1>0, <1>1, <1>15, <2>1 DEF Create!DeepLinkArrives
  <2>2. ASSUME NEW t \in CreateTemplates, Create!LinkedTemplate(t), createStep' = 2 PROVE CreateInv'
    BY <1>0, <1>3, <1>15, <2>2, SeedIsDraft DEF Create!DeepLinkArrives, Create!LinkedTemplate
  <2>3. QED BY <1>15, <2>1, <2>2 DEF Create!DeepLinkArrives
<1>16. ASSUME NEW t \in CreateTemplates, Create!SelectTemplate(t) PROVE CreateInv'
  BY <1>0, <1>3, <1>16, SeedIsDraft DEF Create!SelectTemplate, Create!OnStep
<1>17. CASE Create!ReloadCreate
  BY <1>0, <1>3, <1>4, <1>17, EmptyIsDraft DEF Create!ReloadCreate
<1>18. ASSUME NEW d, Create!Typed(d), IsDraft(d) PROVE CreateInv'
  BY <1>0, <1>1, <1>18 DEF Create!Typed
<1>19. CASE \/ Create!EditName \/ Create!EditDescription \/ Create!EditDeposit \/ Create!EditExpiry
            \/ Create!EditFormOutcomes
  <2>1. \A t \in CreateDescriptions : Measured(t) BY AppAssumption DEF Measured
  <2>2. PICK d : /\ Create!Typed(d)
                 /\ \/ \E v : d = Altered(createDraft, "title", v)
                    \/ \E v \in CreateDescriptions : d = Altered(createDraft, "description", v)
                    \/ \E v : d = Altered(createDraft, "deposit", v)
                    \/ \E v : d = Altered(createDraft, "duration", v)
                    \/ \E v : d = Altered(createDraft, "outcomes", v)
    BY <1>19, Zenon DEF Create!EditName, Create!EditDescription, Create!EditDeposit,
                        Create!EditExpiry, Create!EditFormOutcomes, Altered
  <2>3. IsDraft(d) BY <1>0, <2>1, <2>2, EditsKeepBehind
  <2>4. QED BY <1>18, <2>2, <2>3
<1>20. CASE Create!ClearForm
  BY <1>0, <1>1, <1>20, EmptyIsDraft DEF Create!ClearForm
<1>21. CASE Create!SubmitWizard \/ Create!SubmitForm
  <2>1. UNCHANGED <<createSurface, createDraft, createStep>>
    BY <1>21 DEF Create!SubmitWizard, Create!SubmitForm
  <2>2. CASE createSubmission' = createSubmission BY <1>0, <1>2, <2>1, <2>2
  <2>3. CASE createSubmission' # createSubmission
    <3>1. PICK from \in {"wizard", "form"} :
            createSubmission' = [stage |-> "simulating", sent |-> createDraft, from |-> from]
      BY <1>21, <2>3 DEF Create!SubmitWizard, Create!SubmitForm
    <3>2. BasicsOk(createDraft) /\ OutcomesOk(createDraft) /\ DurationOk(createDraft)
      BY <1>21, <2>3, SubmittedPass DEF Create!SubmitWizard, Create!SubmitForm
    <3>3. Measured(createDraft.description) BY <1>0 DEF IsDraft
    <3>4. /\ createSubmission'.from \in {"wizard", "form"} /\ createSubmission'.sent = createDraft
          /\ createSubmission' = [stage |-> createSubmission'.stage,
                                  sent |-> createSubmission'.sent,
                                  from |-> createSubmission'.from]
      BY <3>1
    <3>5. GoodSubmission(createSubmission') BY <3>2, <3>3, <3>4, Zenon DEF GoodSubmission, Sendable
    <3>6. QED BY <1>2, <2>1, <3>5
  <2>4. QED BY <2>2, <2>3
<1>22. CASE Create!SimulationFails \/ Create!CreationFails
  BY <1>2, <1>4, <1>22 DEF Create!SimulationFails, Create!CreationFails
<1>23. CASE Create!FeeEstimated \/ Create!AcceptFee \/ Create!SendMetadata
  <2>1. PICK stage : createSubmission' = [createSubmission EXCEPT !.stage = stage]
    BY <1>23 DEF Create!FeeEstimated, Create!AcceptFee, Create!SendMetadata
  <2>2. createSubmission.stage # "idle" /\ UNCHANGED <<createSurface, createDraft, createStep>>
    BY <1>23 DEF Create!FeeEstimated, Create!AcceptFee, Create!SendMetadata
  <2>3. Sendable(createSubmission) BY <1>0, <2>2 DEF GoodSubmission
  <2>4. createSubmission' = [stage |-> stage, sent |-> createSubmission.sent,
                             from |-> createSubmission.from]
    BY <1>0, <2>1 DEF GoodSubmission
  <2>5. /\ createSubmission'.sent = createSubmission.sent
        /\ createSubmission'.from = createSubmission.from
        /\ createSubmission' = [stage |-> createSubmission'.stage,
                                sent |-> createSubmission'.sent,
                                from |-> createSubmission'.from]
    BY <2>4
  <2>6. GoodSubmission(createSubmission') BY <2>3, <2>5, Zenon DEF GoodSubmission, Sendable
  <2>7. QED BY <1>2, <2>2, <2>6
<1>24. CASE Create!Created
  BY <1>3, <1>4, <1>24, EmptyIsDraft DEF Create!Created
<1>25. QED
  BY <1>5, <1>6, <1>7, <1>9, <1>10, <1>11, <1>12, <1>13, <1>14, <1>15, <1>16, <1>17, <1>19,
     <1>20, <1>21, <1>22, <1>23, <1>24
  DEF Create!CreateNext

\* What passes the checks of a page passes those of the contract, if it is written
\* in single bytes.
LEMMA SendableAccepted ==
  ASSUME NEW s, Sendable(s), Create!SingleBytes(s) PROVE Create!FieldsAccepted(s)
<1>1. /\ s.sent.title.bytes = s.sent.title.chars
      /\ \A i \in DOMAIN s.sent.outcomes : s.sent.outcomes[i].bytes = s.sent.outcomes[i].chars
      /\ Create!DescriptionBytes(s) <= 1000
  BY Zenon DEF Create!SingleBytes, Create!MaxDescription
<1>2. ~s.sent.title.blank /\ s.sent.title.chars \in 5 .. 100
  BY DEF Sendable, BasicsOk, TitleOk, Create!validatePoolTitle, Create!MaxTitle
<1>3. ~s.sent.description.blank /\ s.sent.description.chars \in 10 .. 1000
  BY DEF Sendable, BasicsOk, DescriptionOk, Create!validatePoolDescription,
         Create!MaxDescription
<1>4. /\ Len(s.sent.outcomes) \in 2 .. CreateMaxOutcomes
      /\ \A i \in DOMAIN s.sent.outcomes :
           s.sent.outcomes[i].key # "" /\ s.sent.outcomes[i].chars \in 2 .. 50
      /\ \A i, j \in DOMAIN s.sent.outcomes :
           s.sent.outcomes[i].key = s.sent.outcomes[j].key => i = j
  BY Zenon DEF Sendable, OutcomesOk, Create!validateOutcomesList, Create!validateOutcome,
               Create!MaxLabel
<1>5. Create!validateDuration(s.sent.duration) BY Zenon DEF Sendable, DurationOk
<1>6. s.sent.duration \in Create!MIN_POOL_DURATION_SECS .. Create!MAX_POOL_DURATION_SECS
  <2>1. /\ Create!MinDuration \in Int /\ Create!MaxDuration \in Int
        /\ Create!MIN_POOL_DURATION_SECS \in Int /\ Create!MAX_POOL_DURATION_SECS \in Int
        /\ Create!MIN_POOL_DURATION_SECS <= Create!MinDuration
        /\ Create!MaxDuration <= Create!MAX_POOL_DURATION_SECS
    BY SMT DEF Create!MinDuration, Create!MaxDuration, Create!MIN_POOL_DURATION_SECS,
               Create!MAX_POOL_DURATION_SECS
  <2>2. s.sent.duration \in Create!MinDuration .. Create!MaxDuration
    BY <1>5, Zenon DEF Create!validateDuration
  <2>3. \A n \in Create!MinDuration .. Create!MaxDuration :
          n \in Create!MIN_POOL_DURATION_SECS .. Create!MAX_POOL_DURATION_SECS
    BY <2>1, SMT
  <2>4. QED BY <2>2, <2>3, Zenon
<1>7. Create!DescriptionBytes(s) \in 1 .. 1000
  <2> DEFINE added == IF s.from = "form" THEN CreateMetadataSize ELSE 0
             bytes == s.sent.description.bytes
             chars == s.sent.description.chars
  <2>1. bytes \in Nat /\ chars <= bytes BY DEF Sendable, Measured
  <2>2. Create!DescriptionBytes(s) = bytes + added BY Zenon DEF Create!DescriptionBytes
  <2>3. added \in Nat BY AppAssumption
  <2>4. chars \in 10 .. 1000 BY <1>3
  <2> HIDE DEF added, bytes, chars
  <2>5. QED BY <1>1, <2>1, <2>2, <2>3, <2>4
<1>8. Len(s.sent.outcomes) \in 2 .. 20
  <2> DEFINE n == Len(s.sent.outcomes)
  <2>1. n \in 2 .. CreateMaxOutcomes BY <1>4
  <2> HIDE DEF n
  <2>2. n \in 2 .. 20 BY <2>1, AppAssumption
  <2>3. QED BY <2>2, Zenon DEF n
<1>9. \A i \in DOMAIN s.sent.outcomes :
        s.sent.outcomes[i].key # "" /\ s.sent.outcomes[i].bytes <= 50
  <2> SUFFICES ASSUME NEW i \in DOMAIN s.sent.outcomes
               PROVE  s.sent.outcomes[i].key # "" /\ s.sent.outcomes[i].bytes <= 50
    OBVIOUS
  <2> DEFINE o == s.sent.outcomes[i]
  <2>1. o.key # "" /\ o.chars \in 2 .. 50 /\ o.bytes = o.chars BY <1>1, <1>4
  <2>2. ASSUME NEW n, n \in 2 .. 50 PROVE n <= 50 BY <2>2
  <2> HIDE DEF o
  <2>3. o.bytes <= 50 BY <2>1, <2>2, Zenon
  <2>4. QED BY <2>1, <2>3, Zenon DEF o
<1>10. \A i, j \in DOMAIN s.sent.outcomes :
         Create!Trimmed(s.sent.outcomes)[i] = Create!Trimmed(s.sent.outcomes)[j] => i = j
  BY <1>4 DEF Create!Trimmed
<1>11. s.sent.title.bytes \in 1 .. 100 BY <1>1, <1>2
<1>12. /\ s.sent.title.bytes \in 1 .. Create!MaxTitle
       /\ Create!DescriptionBytes(s) \in 1 .. Create!MaxDescription
       /\ \A i \in DOMAIN s.sent.outcomes :
            s.sent.outcomes[i].key # "" /\ s.sent.outcomes[i].bytes <= Create!MaxLabel
  BY <1>7, <1>9, <1>11 DEF Create!MaxTitle, Create!MaxDescription, Create!MaxLabel
<1>13. QED BY <1>2, <1>3, <1>6, <1>8, <1>10, <1>12, Zenon DEF Create!FieldsAccepted

LEMMA SentAccepted == CreateInv => Create!StepsBehindValid /\ Create!SentFieldsAccepted
<1> SUFFICES ASSUME CreateInv PROVE Create!StepsBehindValid /\ Create!SentFieldsAccepted OBVIOUS
<1>1. Create!StepsBehindValid
  BY BadStepsBehind DEF CreateInv, Composing, Create!StepsBehindValid
<1>2. ASSUME Create!Busy, Create!SingleBytes(createSubmission)
      PROVE  Create!FieldsAccepted(createSubmission)
  <2>1. Sendable(createSubmission) BY <1>2 DEF CreateInv, GoodSubmission, Create!Busy
  <2>2. QED BY <1>2, <2>1, SendableAccepted
<1>3. QED BY <1>1, <1>2 DEF Create!SentFieldsAccepted

(* What the create pages send passed every check of its steps as it stands *)
(* and keeps the contract's rules, in whatever order steps, templates,     *)
(* links and edits came.                                                   *)
THEOREM SentIsAccepted == AppSpec => []SentFieldsAccepted
<1>1. AppInit => CreateInv
  <2> SUFFICES ASSUME Create!CreateInit PROVE CreateInv BY DEF AppInit
  <2>1. GoodSubmission(Create!Idle) BY DEF Create!Idle, GoodSubmission
  <2>2. /\ createSurface \in {"wizard", "form"} /\ createStep = 1
        /\ createDraft = Create!EmptyDraft /\ createSubmission = Create!Idle
    BY DEF Create!CreateInit
  <2>3. createStep \in 1 .. 5 /\ BehindOk(createDraft, createStep) BY <2>2, EmptyIsDraft
  <2>4. QED BY <2>1, <2>2, <2>3, EmptyIsDraft DEF CreateInv, Composing
<1>2. CreateInv => SentFieldsAccepted BY SentAccepted DEF SentFieldsAccepted
<1>3. QED BY <1>1, <1>2, CreateStep, CreateInvKept, PTL DEF AppSpec

-----------------------------------------------------------------------------
(* Push notifications.  A request that no other overlapped is alone at the *)
(* server, so that what it read of the index is still the index when it    *)
(* writes it, and its entry is the last one written under its endpoint.    *)

LEMMA NotificationStep == [AppNext]_appVars => [Notifications!NotificationNext]_noteVars
BY DEF AppNext, Step, Still, appVars

NoteCopies == [mounted : BOOLEAN, enabled : BOOLEAN, prefs : NotePrefs,
               permission : {"default", "granted", "denied"}, due : BOOLEAN]

IsHandler(h) ==
  /\ h = [op |-> h.op, endpoint |-> h.endpoint, prefs |-> h.prefs, id |-> h.id, at |-> h.at,
          read |-> h.read, alone |-> h.alone]
  /\ h.op \in {"POST", "DELETE"} /\ h.endpoint \in Notifications!Endpoints
  /\ h.prefs \in NotePrefs

\* What a request that is alone has achieved so far.
Achieved(h, kv, listed) ==
  /\ h.op = "POST" /\ h.at \in {"stored", "index", "done"} => kv[h.endpoint] = h.prefs
  /\ h.op = "POST" /\ h.at = "index" => h.read = listed
  /\ h.op = "POST" /\ h.at = "done" => h.endpoint \in listed /\ h.read \subseteq listed
  /\ h.op = "DELETE" /\ h.at = "done" => listed = {}

CopiesOk ==
  /\ noteStored \in [enabled : BOOLEAN, prefs : NotePrefs, prompted : BOOLEAN]
  /\ noteGranted \in {"default", "granted", "denied"}
  /\ noteCopy \in [Notifications!Components -> NoteCopies]

HandlersOk(handlers, kv, listed) ==
  /\ kv = [e \in Notifications!Endpoints |-> kv[e]]
  /\ \A h \in handlers :
       /\ IsHandler(h)
       /\ h.alone => handlers = {h} /\ Achieved(h, kv, listed)

NoteInv == CopiesOk /\ HandlersOk(noteHandlers, noteKv, noteListed)

LEMMA Mounts == CopiesOk => Notifications!Mount \in NoteCopies /\ Notifications!Away \in NoteCopies
BY AppAssumption DEF CopiesOk, Notifications!Mount, Notifications!Away, Notifications!Normalize,
   NoteCopies

\* A request with another place, another reading, or no longer alone.
LEMMA Advanced ==
  ASSUME NEW h, IsHandler(h), NEW at, NEW read, NEW alone, NEW to
  PROVE  /\ to = [h EXCEPT !.at = at] =>
              /\ to = [op |-> h.op, endpoint |-> h.endpoint, prefs |-> h.prefs, id |-> h.id,
                       at |-> at, read |-> h.read, alone |-> h.alone]
              /\ IsHandler(to)
         /\ to = [h EXCEPT !.at = at, !.read = read] =>
              /\ to = [op |-> h.op, endpoint |-> h.endpoint, prefs |-> h.prefs, id |-> h.id,
                       at |-> at, read |-> read, alone |-> h.alone]
              /\ IsHandler(to)
         /\ to = [h EXCEPT !.alone = alone] =>
              /\ to = [op |-> h.op, endpoint |-> h.endpoint, prefs |-> h.prefs, id |-> h.id,
                       at |-> h.at, read |-> h.read, alone |-> alone]
              /\ IsHandler(to)
<1>1. ASSUME to = [h EXCEPT !.at = at]
      PROVE  to = [op |-> h.op, endpoint |-> h.endpoint, prefs |-> h.prefs, id |-> h.id,
                   at |-> at, read |-> h.read, alone |-> h.alone]
  BY <1>1 DEF IsHandler
<1>2. ASSUME to = [h EXCEPT !.at = at, !.read = read]
      PROVE  to = [op |-> h.op, endpoint |-> h.endpoint, prefs |-> h.prefs, id |-> h.id,
                   at |-> at, read |-> read, alone |-> h.alone]
  BY <1>2 DEF IsHandler
<1>3. ASSUME to = [h EXCEPT !.alone = alone]
      PROVE  to = [op |-> h.op, endpoint |-> h.endpoint, prefs |-> h.prefs, id |-> h.id,
                   at |-> h.at, read |-> h.read, alone |-> alone]
  BY <1>3 DEF IsHandler
<1>4. QED BY <1>1, <1>2, <1>3 DEF IsHandler

LEMMA Arrivals ==
  ASSUME HandlersOk(noteHandlers, noteKv, noteListed), NEW op \in {"POST", "DELETE"},
         NEW endpoint \in Notifications!Endpoints, NEW prefs \in NotePrefs,
         Notifications!Arrive(Notifications!Request(op, endpoint, prefs))
  PROVE  HandlersOk(noteHandlers', noteKv, noteListed)
<1> DEFINE r == Notifications!Request(op, endpoint, prefs)
           Late(h) == [h EXCEPT !.alone = FALSE]
<1>1. r = [op |-> op, endpoint |-> endpoint, prefs |-> prefs, id |-> noteSent + 1,
           at |-> "arrived", read |-> {}, alone |-> noteHandlers = {}]
  BY DEF Notifications!Request
<1>2. noteHandlers' = {Late(h) : h \in noteHandlers} \cup {r} BY Zenon DEF Notifications!Arrive
<1>3. IsHandler(r) /\ r.alone = (noteHandlers = {}) /\ r.at = "arrived"
  <2> DEFINE none == noteHandlers = {}
  <2> HIDE DEF none
  <2>1. r = [op |-> op, endpoint |-> endpoint, prefs |-> prefs, id |-> noteSent + 1,
             at |-> "arrived", read |-> {}, alone |-> none]
    BY <1>1, Zenon DEF none
  <2> HIDE DEF r
  <2>2. /\ r.op = op /\ r.endpoint = endpoint /\ r.prefs = prefs /\ r.at = "arrived"
        /\ r.alone = none
    BY <2>1, Zenon
  <2>3. r = [op |-> r.op, endpoint |-> r.endpoint, prefs |-> r.prefs, id |-> r.id, at |-> r.at,
             read |-> r.read, alone |-> r.alone]
    BY <2>1
  <2>4. QED BY <2>2, <2>3, Zenon DEF IsHandler, none
<1>4. ASSUME NEW h \in noteHandlers PROVE IsHandler(Late(h)) /\ ~Late(h).alone
  <2>1. IsHandler(h) BY DEF HandlersOk
  <2>2. /\ Late(h) = [op |-> h.op, endpoint |-> h.endpoint, prefs |-> h.prefs, id |-> h.id,
                      at |-> h.at, read |-> h.read, alone |-> FALSE]
        /\ IsHandler(Late(h))
    BY <2>1, Advanced, Zenon
  <2>3. QED BY <2>2
<1> HIDE DEF r, Late
<1>5. ASSUME NEW g \in noteHandlers', g.alone
      PROVE  noteHandlers' = {g} /\ Achieved(g, noteKv, noteListed)
  <2>1. g = r /\ noteHandlers = {} BY <1>2, <1>3, <1>4, <1>5
  <2>2. noteHandlers' = {r} BY <1>2, <2>1
  <2>3. QED BY <1>3, <2>1, <2>2 DEF Achieved
<1>6. QED BY <1>2, <1>3, <1>4, <1>5, Zenon DEF HandlersOk

LEMMA Advances ==
  ASSUME HandlersOk(noteHandlers, noteKv, noteListed), NEW h \in noteHandlers, NEW to,
         noteHandlers' = (noteHandlers \ {h}) \cup {to}, IsHandler(to), to.alone = h.alone,
         NEW kv, NEW listed, kv = [e \in Notifications!Endpoints |-> kv[e]],
         h.alone => Achieved(to, kv, listed)
  PROVE  HandlersOk(noteHandlers', kv, listed)
<1>1. ASSUME NEW g \in noteHandlers', g.alone
      PROVE  noteHandlers' = {g} /\ Achieved(g, kv, listed)
  <2>1. CASE h.alone
    <3>1. noteHandlers = {h} BY <2>1 DEF HandlersOk
    <3>2. noteHandlers' = {to} BY <3>1
    <3>3. QED BY <1>1, <2>1, <3>2
  <2>2. CASE ~h.alone
    <3>1. g # to BY <1>1, <2>2, Zenon
    <3>2. g \in noteHandlers /\ g # h BY <1>1, <3>1
    <3>3. noteHandlers = {g} BY <1>1, <3>2, Zenon DEF HandlersOk
    <3>4. QED BY <3>2, <3>3
  <2>3. QED BY <2>1, <2>2
<1>2. \A g \in noteHandlers' : IsHandler(g) BY Zenon DEF HandlersOk
<1>3. QED BY <1>1, <1>2, Zenon DEF HandlersOk

LEMMA CopiesKept ==
  ASSUME CopiesOk, Notifications!NotificationNext PROVE CopiesOk'
<1> USE DEF CopiesOk, Notifications!Components
<1>0. "page" \in Notifications!Components /\ "prompt" \in Notifications!Components OBVIOUS
<1>1. ASSUME NEW c \in {"prompt", "page"}, Notifications!RequestPermission(c) PROVE CopiesOk'
  <2>1. PICK answer \in {"default", "granted", "denied"} :
          /\ noteGranted' = answer
          /\ noteCopy' = [noteCopy EXCEPT ![c].permission = answer,
                                          ![c].enabled = @ \/ answer = "granted",
                                          ![c].due = @ \/ answer = "granted"]
          /\ noteStored' = [noteStored EXCEPT !.prompted = TRUE,
                                              !.enabled = @ \/ answer = "granted"]
    BY <1>1 DEF Notifications!RequestPermission
  <2>2. noteCopy' \in [{"prompt", "page"} -> NoteCopies]
    BY <2>1 DEF NoteCopies
  <2>3. noteStored' \in [enabled : BOOLEAN, prefs : NotePrefs, prompted : BOOLEAN]
    BY <2>1
  <2>4. QED BY <2>1, <2>2, <2>3
<1>2. CASE Notifications!EnablePrompt BY <1>1, <1>2 DEF Notifications!EnablePrompt
<1>3. CASE Notifications!EnablePush BY <1>1, <1>3 DEF Notifications!EnablePush
<1>4. CASE Notifications!DismissPrompt BY <1>4 DEF Notifications!DismissPrompt
<1>5. ASSUME NEW prefs \in NotePrefs,
             noteCopy' = [noteCopy EXCEPT !["page"].prefs = prefs,
                                          !["page"].due = @ \/ noteCopy["page"].enabled],
             noteStored' = [noteStored EXCEPT !.prefs = prefs], noteGranted' = noteGranted
      PROVE  CopiesOk'
  <2>1. noteCopy' \in [{"prompt", "page"} -> NoteCopies] BY <1>5 DEF NoteCopies
  <2>2. noteStored' \in [enabled : BOOLEAN, prefs : NotePrefs, prompted : BOOLEAN] BY <1>5
  <2>3. QED BY <1>5, <2>1, <2>2
<1>6. ASSUME NEW p \in NotePrefs, Notifications!HandleToggle(p) PROVE CopiesOk'
  BY <1>5, <1>6 DEF Notifications!HandleToggle
<1>7. CASE Notifications!HandleReset
  BY <1>5, <1>7, AppAssumption DEF Notifications!HandleReset
<1>8. CASE Notifications!Disable
  <2>1. noteCopy' = [noteCopy EXCEPT !["page"].enabled = FALSE,
                                     !["page"].permission = noteGranted, !["page"].due = FALSE]
        /\ noteStored' = [noteStored EXCEPT !.enabled = FALSE] /\ noteGranted' = noteGranted
    BY <1>8 DEF Notifications!Disable
  <2>2. noteCopy' \in [{"prompt", "page"} -> NoteCopies] BY <2>1 DEF NoteCopies
  <2>3. QED BY <2>1, <2>2
<1>9. CASE Notifications!OpenSettings \/ Notifications!LeaveSettings
  BY <1>9, Mounts DEF Notifications!OpenSettings, Notifications!LeaveSettings
<1>10. ASSUME NEW c \in {"prompt", "page"}, Notifications!SyncSubscription(c) PROVE CopiesOk'
  <2>1. noteCopy' = [noteCopy EXCEPT ![c].due = FALSE] /\ UNCHANGED <<noteStored, noteGranted>>
    BY <1>10 DEF Notifications!SyncSubscription
  <2>2. noteCopy' \in [{"prompt", "page"} -> NoteCopies] BY <2>1 DEF NoteCopies
  <2>3. QED BY <2>1, <2>2
<1>11. ASSUME NEW p, Notifications!OtherBrowserSaves(p) PROVE CopiesOk'
  BY <1>11 DEF Notifications!OtherBrowserSaves
<1>12. ASSUME NEW h, Notifications!Handle(h) PROVE CopiesOk'
  BY <1>12 DEF Notifications!Handle
<1>13. QED
  BY <1>2, <1>3, <1>4, <1>6, <1>7, <1>8, <1>9, <1>10, <1>11, <1>12
  DEF Notifications!NotificationNext

LEMMA HandledOk ==
  ASSUME HandlersOk(noteHandlers, noteKv, noteListed), NEW h \in noteHandlers,
         Notifications!Handle(h)
  PROVE  HandlersOk(noteHandlers', noteKv', noteListed')
<1>0. /\ IsHandler(h)
      /\ h.alone => Achieved(h, noteKv, noteListed)
      /\ noteKv = [e \in Notifications!Endpoints |-> noteKv[e]]
  BY DEF HandlersOk
<1>1. CASE Notifications!PostEntry(h)
  <2> DEFINE to == [h EXCEPT !.at = "stored"]
  <2>1. /\ to = [op |-> h.op, endpoint |-> h.endpoint, prefs |-> h.prefs, id |-> h.id,
                 at |-> "stored", read |-> h.read, alone |-> h.alone]
        /\ IsHandler(to)
    BY <1>0, Advanced, Zenon
  <2>2. /\ noteHandlers' = (noteHandlers \ {h}) \cup {to} /\ noteListed' = noteListed
        /\ noteKv' = [noteKv EXCEPT ![h.endpoint] = Notifications!Normalize(h.prefs)]
        /\ h.op = "POST"
    BY <1>1, Zenon DEF Notifications!PostEntry, Notifications!Advance
  <2>3. Notifications!Normalize(h.prefs) = h.prefs /\ h.endpoint \in Notifications!Endpoints
    BY <1>0 DEF IsHandler, Notifications!Normalize
  <2>4. /\ noteKv' = [e \in Notifications!Endpoints |-> noteKv'[e]]
        /\ noteKv'[h.endpoint] = h.prefs
    BY <1>0, <2>2, <2>3
  <2> HIDE DEF to
  <2>5. Achieved(to, noteKv', noteListed') BY <2>1, <2>2, <2>4 DEF Achieved
  <2>6. to.alone = h.alone BY <2>1, Zenon
  <2>7. QED BY <2>1, <2>2, <2>4, <2>5, <2>6, Advances, ZenonT(40)
<1>2. CASE Notifications!PostReadsIndex(h)
  <2> DEFINE to == [h EXCEPT !.at = "index", !.read = noteListed]
  <2>1. /\ to = [op |-> h.op, endpoint |-> h.endpoint, prefs |-> h.prefs, id |-> h.id,
                 at |-> "index", read |-> noteListed, alone |-> h.alone]
        /\ IsHandler(to)
    BY <1>0, Advanced, Zenon
  <2>2. /\ noteHandlers' = (noteHandlers \ {h}) \cup {to} /\ noteListed' = noteListed
        /\ noteKv' = noteKv /\ h.op = "POST" /\ h.at = "stored"
    BY <1>2, Zenon DEF Notifications!PostReadsIndex, Notifications!Advance
  <2> HIDE DEF to
  <2>3. h.alone => Achieved(to, noteKv', noteListed') BY <1>0, <2>1, <2>2 DEF Achieved
  <2>4. to.alone = h.alone BY <2>1, Zenon
  <2>5. QED BY <1>0, <2>1, <2>2, <2>3, <2>4, Advances
<1>3. CASE Notifications!PostIndex(h)
  <2> DEFINE to == [h EXCEPT !.at = "done"]
  <2>1. /\ to = [op |-> h.op, endpoint |-> h.endpoint, prefs |-> h.prefs, id |-> h.id,
                 at |-> "done", read |-> h.read, alone |-> h.alone]
        /\ IsHandler(to)
    BY <1>0, Advanced, Zenon
  <2>2. /\ noteHandlers' = (noteHandlers \ {h}) \cup {to}
        /\ noteListed' = IF h.endpoint \in h.read THEN noteListed ELSE h.read \cup {h.endpoint}
        /\ noteKv' = noteKv /\ h.op = "POST" /\ h.at = "index"
    BY <1>3, Zenon DEF Notifications!PostIndex, Notifications!Advance
  <2> HIDE DEF to
  <2>3. h.alone => Achieved(to, noteKv', noteListed') BY <1>0, <2>1, <2>2 DEF Achieved
  <2>4. to.alone = h.alone BY <2>1, Zenon
  <2>5. QED BY <1>0, <2>1, <2>2, <2>3, <2>4, Advances
<1>4. CASE Notifications!DeleteReadsIndex(h)
  <2> DEFINE to == [h EXCEPT !.at = "index", !.read = noteListed]
  <2>1. /\ to = [op |-> h.op, endpoint |-> h.endpoint, prefs |-> h.prefs, id |-> h.id,
                 at |-> "index", read |-> noteListed, alone |-> h.alone]
        /\ IsHandler(to)
    BY <1>0, Advanced, Zenon
  <2>2. /\ noteHandlers' = (noteHandlers \ {h}) \cup {to} /\ noteListed' = noteListed
        /\ noteKv' = noteKv /\ h.op = "DELETE"
    BY <1>4, Zenon DEF Notifications!DeleteReadsIndex, Notifications!Advance
  <2> HIDE DEF to
  <2>3. h.alone => Achieved(to, noteKv', noteListed') BY <2>1, <2>2 DEF Achieved
  <2>4. to.alone = h.alone BY <2>1, Zenon
  <2>5. QED BY <1>0, <2>1, <2>2, <2>3, <2>4, Advances
<1>5. ASSUME NEW e, Notifications!DeleteEntry(h, e)
      PROVE  HandlersOk(noteHandlers', noteKv', noteListed')
  <2> DEFINE left == h.read \ {e}
             to == [h EXCEPT !.read = left]
  <2>1. to = [op |-> h.op, endpoint |-> h.endpoint, prefs |-> h.prefs, id |-> h.id,
              at |-> h.at, read |-> left, alone |-> h.alone]
    BY <1>0 DEF IsHandler
  <2>2. /\ noteHandlers' = (noteHandlers \ {h}) \cup {to}
        /\ noteKv' = [noteKv EXCEPT ![e] = Notifications!NoEntry]
        /\ h.op = "DELETE" /\ h.at = "index"
    BY <1>5, Zenon DEF Notifications!DeleteEntry, Notifications!Advance
  <2>3. noteKv' = [f \in Notifications!Endpoints |-> noteKv'[f]] BY <1>0, <2>2
  <2> HIDE DEF to, left
  <2>4. IsHandler(to) BY <1>0, <2>1 DEF IsHandler
  <2>5. Achieved(to, noteKv', noteListed') BY <2>1, <2>2 DEF Achieved
  <2>6. to.alone = h.alone BY <2>1, Zenon
  <2>7. QED BY <2>2, <2>3, <2>4, <2>5, <2>6, Advances
<1>6. CASE Notifications!DeleteIndex(h)
  <2> DEFINE to == [h EXCEPT !.at = "done"]
  <2>1. /\ to = [op |-> h.op, endpoint |-> h.endpoint, prefs |-> h.prefs, id |-> h.id,
                 at |-> "done", read |-> h.read, alone |-> h.alone]
        /\ IsHandler(to)
    BY <1>0, Advanced, Zenon
  <2>2. /\ noteHandlers' = (noteHandlers \ {h}) \cup {to} /\ noteListed' = {}
        /\ noteKv' = noteKv /\ h.op = "DELETE"
    BY <1>6, Zenon DEF Notifications!DeleteIndex, Notifications!Advance
  <2> HIDE DEF to
  <2>3. Achieved(to, noteKv', noteListed') BY <2>1, <2>2 DEF Achieved
  <2>4. to.alone = h.alone BY <2>1, Zenon
  <2>5. QED BY <1>0, <2>1, <2>2, <2>3, <2>4, Advances
<1>7. CASE Notifications!Answer(h)
  <2>1. noteHandlers' = noteHandlers \ {h} /\ noteKv' = noteKv /\ noteListed' = noteListed
    BY <1>7 DEF Notifications!Answer
  <2>2. ASSUME NEW g \in noteHandlers', g.alone PROVE FALSE
    <3>1. g \in noteHandlers /\ g # h BY <2>1, <2>2
    <3>2. noteHandlers = {g} BY <2>2, <3>1, Zenon DEF HandlersOk
    <3>3. QED BY <3>1, <3>2
  <2>3. \A g \in noteHandlers' : IsHandler(g) BY <2>1, Zenon DEF HandlersOk
  <2>4. QED BY <1>0, <2>1, <2>2, <2>3, Zenon DEF HandlersOk
<1>8. QED
  BY <1>1, <1>2, <1>3, <1>4, <1>5, <1>6, <1>7 DEF Notifications!Handle

(* A save or a removal that no other request overlapped has, when it is    *)
(* answered, done what it said, whatever requests came before it.          *)
THEOREM LoneSavesAreListed == AppSpec => []LoneSaveIsListed
<1>1. AppInit => NoteInv
  <2> SUFFICES ASSUME Notifications!NotificationInit PROVE NoteInv BY DEF AppInit
  <2>1. /\ noteStored \in [enabled : BOOLEAN, prefs : NotePrefs, prompted : BOOLEAN]
        /\ noteGranted \in {"default", "granted", "denied"}
        /\ noteCopy = [c \in Notifications!Components |->
                         IF c = "prompt" THEN Notifications!Mount ELSE Notifications!Away]
        /\ noteHandlers = {} /\ noteKv = [e \in Notifications!Endpoints |-> Notifications!NoEntry]
    BY AppAssumption DEF Notifications!NotificationInit
  <2>2. Notifications!Mount \in NoteCopies /\ Notifications!Away \in NoteCopies
    BY <2>1, AppAssumption
    DEF Notifications!Mount, Notifications!Away, Notifications!Normalize, NoteCopies
  <2>3. noteCopy \in [Notifications!Components -> NoteCopies] BY <2>1, <2>2
  <2>4. noteKv = [e \in Notifications!Endpoints |-> noteKv[e]] BY <2>1
  <2>5. QED BY <2>1, <2>3, <2>4 DEF NoteInv, CopiesOk, HandlersOk
<1>2. NoteInv /\ [Notifications!NotificationNext]_noteVars => NoteInv'
  <2> SUFFICES ASSUME NoteInv, [Notifications!NotificationNext]_noteVars PROVE NoteInv' OBVIOUS
  <2>0. CopiesOk /\ HandlersOk(noteHandlers, noteKv, noteListed) BY DEF NoteInv
  <2>1. CASE UNCHANGED noteVars
    <3>1. CopiesOk' BY <2>0, <2>1, Zenon DEF noteVars, CopiesOk
    <3>2. QED BY <2>0, <2>1, <3>1, Zenon DEF noteVars, NoteInv
  <2>2. CASE Notifications!NotificationNext
    <3>1. CopiesOk' BY <2>0, <2>2, CopiesKept
    <3>2. \/ UNCHANGED <<noteHandlers, noteKv, noteListed>>
          \/ \E h \in noteHandlers : Notifications!Handle(h)
          \/ /\ UNCHANGED <<noteKv, noteListed>>
             /\ \E op \in {"POST", "DELETE"}, endpoint \in Notifications!Endpoints,
                   prefs \in NotePrefs :
                  Notifications!Arrive(Notifications!Request(op, endpoint, prefs))
      <4>1. "here" \in Notifications!Endpoints /\ "other" \in Notifications!Endpoints
            /\ NoteDefault \in NotePrefs
            /\ \A c \in Notifications!Components : noteCopy[c].prefs \in NotePrefs
        BY <2>0, AppAssumption DEF Notifications!Endpoints, CopiesOk, NoteCopies
      <4>2. CASE \/ Notifications!EnablePrompt \/ Notifications!DismissPrompt
                 \/ Notifications!EnablePush \/ Notifications!HandleReset
                 \/ Notifications!OpenSettings \/ Notifications!LeaveSettings
        BY <4>2 DEF Notifications!EnablePrompt, Notifications!DismissPrompt,
           Notifications!EnablePush, Notifications!HandleReset, Notifications!OpenSettings,
           Notifications!LeaveSettings, Notifications!RequestPermission
      <4>3. CASE Notifications!Disable
        BY <4>1, <4>3 DEF Notifications!Disable
      <4>4. ASSUME NEW c \in Notifications!Components, Notifications!SyncSubscription(c)
            PROVE  /\ UNCHANGED <<noteKv, noteListed>>
                   /\ \E op \in {"POST", "DELETE"}, endpoint \in Notifications!Endpoints,
                        prefs \in NotePrefs :
                       Notifications!Arrive(Notifications!Request(op, endpoint, prefs))
        BY <4>1, <4>4 DEF Notifications!SyncSubscription
      <4>5. ASSUME NEW p \in NotePrefs, Notifications!HandleToggle(p)
            PROVE  \/ UNCHANGED <<noteHandlers, noteKv, noteListed>>
                   \/ /\ UNCHANGED <<noteKv, noteListed>>
                      /\ Notifications!Arrive(Notifications!Request("POST", "here", p))
        BY <4>5 DEF Notifications!HandleToggle
      <4>6. ASSUME NEW p \in NotePrefs, Notifications!OtherBrowserSaves(p)
            PROVE  /\ UNCHANGED <<noteKv, noteListed>>
                   /\ Notifications!Arrive(Notifications!Request("POST", "other", p))
        BY <4>6 DEF Notifications!OtherBrowserSaves
      <4>7. QED BY <2>2, <4>1, <4>2, <4>3, <4>4, <4>5, <4>6 DEF Notifications!NotificationNext
    <3>3. HandlersOk(noteHandlers', noteKv', noteListed')
      <4>1. CASE UNCHANGED <<noteHandlers, noteKv, noteListed>> BY <2>0, <4>1, Zenon
      <4>2. CASE \E h \in noteHandlers : Notifications!Handle(h) BY <2>0, <4>2, HandledOk
      <4>3. ASSUME UNCHANGED <<noteKv, noteListed>>, NEW op \in {"POST", "DELETE"},
                   NEW endpoint \in Notifications!Endpoints, NEW prefs \in NotePrefs,
                   Notifications!Arrive(Notifications!Request(op, endpoint, prefs))
            PROVE  HandlersOk(noteHandlers', noteKv', noteListed')
        <5>1. HandlersOk(noteHandlers', noteKv, noteListed) BY <2>0, <4>3, Arrivals
        <5>2. QED BY <4>3, <5>1, Zenon
      <4>4. QED BY <3>2, <4>1, <4>2, <4>3
    <3>4. QED BY <3>1, <3>3, Zenon DEF NoteInv
  <2>3. QED BY <2>1, <2>2
<1>3. NoteInv => LoneSaveIsListed
  <2> SUFFICES ASSUME NoteInv, NEW h \in noteHandlers, h.at = "done", h.alone
               PROVE  IF h.op = "POST"
                      THEN /\ h.endpoint \in Notifications!Subscriptions
                           /\ noteKv[h.endpoint] = h.prefs /\ h.read \subseteq noteListed
                      ELSE Notifications!Subscriptions = {}
    BY DEF LoneSaveIsListed, Notifications!LoneSaveIsListed
  <2>1. IsHandler(h) /\ Achieved(h, noteKv, noteListed) BY Zenon DEF NoteInv, HandlersOk
  <2>2. h.op \in {"POST", "DELETE"} /\ h.prefs \in NotePrefs BY <2>1 DEF IsHandler
  <2>3. h.prefs # Notifications!NoEntry BY <2>2, AppAssumption DEF Notifications!NoEntry
  <2>4. CASE h.op = "POST" BY <2>1, <2>3, <2>4 DEF Achieved, Notifications!Subscriptions
  <2>5. CASE h.op = "DELETE" BY <2>1, <2>5 DEF Achieved, Notifications!Subscriptions
  <2>6. QED BY <2>2, <2>4, <2>5
<1>4. QED BY <1>1, <1>2, <1>3, NotificationStep, PTL DEF AppSpec

-----------------------------------------------------------------------------
(* The contract calls.  WebCallProofs proves them of any components and    *)
(* calls; its definitions over the state of a part are those of the part.  *)

ProvedCalls == INSTANCE WebCallProofs WITH
  Flows <- CallFlows, Surfaces <- CallSurfaces, Pools <- CallPools,
  TimeBound <- CallTimeBound, MaxAttempts <- CallMaxAttempts,
  ClaimAllMaxPools <- CallClaimAllMaxPools, Functions <- CallFunctions,
  UserKinds <- ClientUserKinds, flow <- callsFlow, ui <- callsUi,
  poolClaim <- callsPoolClaim, claimAll <- callsClaimAll, account <- callsAccount,
  store <- clientStore, reads <- clientReads

ProvedClient == INSTANCE WebCallProofs WITH
  Flows <- ClientFlows, Surfaces <- ClientSurfaces, Pools <- ClientPools,
  TimeBound <- ClientTimeBound, MaxAttempts <- ClientMaxAttempts,
  ClaimAllMaxPools <- ClientClaimAllMaxPools, Functions <- ClientFunctions,
  UserKinds <- ClientUserKinds, flow <- clientFlow, ui <- clientUi,
  poolClaim <- clientPoolClaim, claimAll <- clientClaimAll, account <- clientAccount,
  store <- clientStore, reads <- clientReads

LEMMA CallsAlike == Calls!TxNext <=> ProvedCalls!TxNext
<1>1. \A s, stage : Calls!Shown(s, stage) = ProvedCalls!Shown(s, stage)
  BY Zenon DEF Calls!StageToasts, ProvedCalls!StageToasts, Calls!Shown, ProvedCalls!Shown
<1>2. \A s, f, call : Calls!BeginOn(s, f, call) <=> ProvedCalls!BeginOn(s, f, call)
  BY Zenon DEF Calls!Call, ProvedCalls!Call, Calls!NoCall, ProvedCalls!NoCall, Calls!FreeFlow,
  ProvedCalls!FreeFlow, Calls!BeginOn, ProvedCalls!BeginOn
<1>3. \A f, tx : Calls!Answer(f, "success", tx, {}) <=> ProvedCalls!Answer(f, "success", tx, {})
  BY Zenon DEF Calls!Cardinality, ProvedCalls!Cardinality, Calls!NoFlow, ProvedCalls!NoFlow,
  Calls!OutcomeToasts, ProvedCalls!OutcomeToasts, Calls!ClaimedPools, ProvedCalls!ClaimedPools,
  Calls!ClaimAllAnswer, ProvedCalls!ClaimAllAnswer, Calls!Answer, ProvedCalls!Answer
<1>4. \A f, tx, shown : Calls!Answer(f, "failed", tx, shown) <=> ProvedCalls!Answer(f, "failed", tx, shown)
  BY Zenon DEF Calls!Cardinality, ProvedCalls!Cardinality, Calls!NoFlow, ProvedCalls!NoFlow,
  Calls!OutcomeToasts, ProvedCalls!OutcomeToasts, Calls!ClaimedPools, ProvedCalls!ClaimedPools,
  Calls!ClaimAllAnswer, ProvedCalls!ClaimAllAnswer, Calls!Answer, ProvedCalls!Answer
<1>5. \A f, tx : Calls!Answer(f, "cancelled", tx, {}) <=> ProvedCalls!Answer(f, "cancelled", tx, {})
  BY Zenon DEF Calls!Cardinality, ProvedCalls!Cardinality, Calls!NoFlow, ProvedCalls!NoFlow,
  Calls!OutcomeToasts, ProvedCalls!OutcomeToasts, Calls!ClaimedPools, ProvedCalls!ClaimedPools,
  Calls!ClaimAllAnswer, ProvedCalls!ClaimAllAnswer, Calls!Answer, ProvedCalls!Answer
<1>6. \A f, pc, stage : Calls!Advance(f, pc, stage) <=> ProvedCalls!Advance(f, pc, stage)
  BY <1>1, Zenon DEF Calls!Advance, ProvedCalls!Advance
<1>7. \A f, p : Calls!PlaceBet(f, p) <=> ProvedCalls!PlaceBet(f, p)
  BY <1>2, Zenon DEF Calls!Call, ProvedCalls!Call, Calls!placeBet, ProvedCalls!placeBet,
  Calls!ThrowsOnFailed, ProvedCalls!ThrowsOnFailed, Calls!placeBetSoroban,
  ProvedCalls!placeBetSoroban, Calls!PlaceBet, ProvedCalls!PlaceBet
<1>8. \A f, p : Calls!ClaimOnPoolPage(f, p) <=> ProvedCalls!ClaimOnPoolPage(f, p)
  BY <1>2, Zenon DEF Calls!Call, ProvedCalls!Call, Calls!claimWinnings, ProvedCalls!claimWinnings,
  Calls!ThrowsOnFailed, ProvedCalls!ThrowsOnFailed, Calls!claimWinningsSoroban,
  ProvedCalls!claimWinningsSoroban, Calls!ClaimOnPoolPage, ProvedCalls!ClaimOnPoolPage
<1>9. \A f, p : Calls!ClaimOnDashboard(f, p) <=> ProvedCalls!ClaimOnDashboard(f, p)
  BY <1>2, Zenon DEF Calls!Call, ProvedCalls!Call, Calls!claimWinnings, ProvedCalls!claimWinnings,
  Calls!ThrowsOnFailed, ProvedCalls!ThrowsOnFailed, Calls!claimWinningsSoroban,
  ProvedCalls!claimWinningsSoroban, Calls!ClaimOnDashboard, ProvedCalls!ClaimOnDashboard
<1>10. \A f, p : Calls!Settle(f, p) <=> ProvedCalls!Settle(f, p)
  BY <1>2, Zenon DEF Calls!Call, ProvedCalls!Call, Calls!settlePool, ProvedCalls!settlePool,
  Calls!ThrowsOnFailed, ProvedCalls!ThrowsOnFailed, Calls!settlePoolSoroban,
  ProvedCalls!settlePoolSoroban, Calls!Settle, ProvedCalls!Settle
<1>11. \A f, p : Calls!LpCall(f, p) <=> ProvedCalls!LpCall(f, p)
  BY <1>2, Zenon DEF Calls!Call, ProvedCalls!Call, Calls!depositLiquidity,
  ProvedCalls!depositLiquidity, Calls!withdrawLiquidity, ProvedCalls!withdrawLiquidity,
  Calls!stakeLp, ProvedCalls!stakeLp, Calls!claimLpRewards, ProvedCalls!claimLpRewards,
  Calls!ThrowsOnFailed, ProvedCalls!ThrowsOnFailed, Calls!depositLiquiditySoroban,
  ProvedCalls!depositLiquiditySoroban, Calls!withdrawLiquiditySoroban,
  ProvedCalls!withdrawLiquiditySoroban, Calls!stakeLpSoroban, ProvedCalls!stakeLpSoroban,
  Calls!claimLpRewardsSoroban, ProvedCalls!claimLpRewardsSoroban, Calls!LpBusy,
  ProvedCalls!LpBusy, Calls!LpCall, ProvedCalls!LpCall
<1>12. \A f, p : Calls!AdminAction(f, p) <=> ProvedCalls!AdminAction(f, p)
  BY <1>2, Zenon DEF Calls!Call, ProvedCalls!Call, Calls!freezePool, ProvedCalls!freezePool,
  Calls!disputePool, ProvedCalls!disputePool, Calls!unfreezePool, ProvedCalls!unfreezePool,
  Calls!ThrowsOnFailed, ProvedCalls!ThrowsOnFailed, Calls!freezePoolSoroban,
  ProvedCalls!freezePoolSoroban, Calls!disputePoolSoroban, ProvedCalls!disputePoolSoroban,
  Calls!unfreezePoolSoroban, ProvedCalls!unfreezePoolSoroban, Calls!AdminAction,
  ProvedCalls!AdminAction
<1>13. \A f, ps : Calls!ClaimAll(f, ps) <=> ProvedCalls!ClaimAll(f, ps)
  BY <1>2, Zenon DEF Calls!Call, ProvedCalls!Call, Calls!claimAllWinnings,
  ProvedCalls!claimAllWinnings, Calls!ThrowsOnFailed, ProvedCalls!ThrowsOnFailed,
  Calls!claimAllWinningsSoroban, ProvedCalls!claimAllWinningsSoroban, Calls!Batch,
  ProvedCalls!Batch, Calls!ClaimAll, ProvedCalls!ClaimAll
<1>14. \A f : Calls!CreatePool(f) <=> ProvedCalls!CreatePool(f)
  BY <1>2, Zenon DEF Calls!Call, ProvedCalls!Call, Calls!createMultiOutcomePool,
  ProvedCalls!createMultiOutcomePool, Calls!ThrowsOnFailed, ProvedCalls!ThrowsOnFailed,
  Calls!createMultiOutcomePoolSoroban, ProvedCalls!createMultiOutcomePoolSoroban,
  Calls!CreatePool, ProvedCalls!CreatePool
<1>15. \A f : Calls!Build(f) <=> ProvedCalls!Build(f)
  BY <1>1, Zenon DEF Calls!Build, ProvedCalls!Build
<1>16. \A f : Calls!Simulate(f) <=> ProvedCalls!Simulate(f)
  BY <1>6, Zenon DEF Calls!AsksFee, ProvedCalls!AsksFee, Calls!Simulate, ProvedCalls!Simulate
<1>17. \A f : Calls!Sign(f) <=> ProvedCalls!Sign(f)
  BY <1>6, Zenon DEF Calls!Sign, ProvedCalls!Sign
<1>18. \A f : Calls!Send(f) <=> ProvedCalls!Send(f)
  BY <1>1, Zenon DEF Calls!Send, ProvedCalls!Send
<1>19. \A f : Calls!PollResult(f) <=> ProvedCalls!PollResult(f)
  BY <1>3, <1>4, Zenon DEF Calls!PollResult, ProvedCalls!PollResult
<1>20. \A f : Calls!PollAgain(f) <=> ProvedCalls!PollAgain(f)
  BY Zenon DEF Calls!PollAgain, ProvedCalls!PollAgain
<1>21. \A f : Calls!PollGivesUp(f) <=> ProvedCalls!PollGivesUp(f)
  BY <1>4, Zenon DEF Calls!PollGivesUp, ProvedCalls!PollGivesUp
<1>22. \A f : Calls!Throws(f) <=> ProvedCalls!Throws(f)
  BY <1>4, Zenon DEF Calls!Throws, ProvedCalls!Throws
<1>23. \A f : Calls!ConfirmFee(f) <=> ProvedCalls!ConfirmFee(f)
  BY <1>1, Zenon DEF Calls!NoFlow, ProvedCalls!NoFlow, Calls!Mounted, ProvedCalls!Mounted,
  Calls!Confirming, ProvedCalls!Confirming, Calls!ConfirmFee, ProvedCalls!ConfirmFee
<1>24. \A f : Calls!CancelFee(f) <=> ProvedCalls!CancelFee(f)
  BY <1>5, Zenon DEF Calls!Mounted, ProvedCalls!Mounted, Calls!Confirming, ProvedCalls!Confirming,
  Calls!CancelFee, ProvedCalls!CancelFee
<1>25. \A f : Calls!Include(f) <=> ProvedCalls!Include(f)
  BY Zenon DEF Calls!Include, ProvedCalls!Include
<1>26. \A f : Calls!Drop(f) <=> ProvedCalls!Drop(f)
  BY Zenon DEF Calls!Drop, ProvedCalls!Drop
<1>27. Calls!CloseClaimAll <=> ProvedCalls!CloseClaimAll
  BY Zenon DEF Calls!NoFlow, ProvedCalls!NoFlow, Calls!NoClaimAll, ProvedCalls!NoClaimAll,
  Calls!CloseClaimAll, ProvedCalls!CloseClaimAll
<1>28. Calls!Tick <=> ProvedCalls!Tick
  BY Zenon DEF Calls!Live, ProvedCalls!Live, Calls!Tick, ProvedCalls!Tick
<1>29. \A f : Calls!Starts(f) <=> ProvedCalls!Starts(f)
  BY <1>7, <1>8, <1>9, <1>10, <1>11, <1>12, <1>13, <1>14 DEF Calls!Starts, ProvedCalls!Starts,
  Calls!PoolLists, ProvedCalls!PoolLists
<1>30. \A f : Calls!Service(f) <=> ProvedCalls!Service(f)
  BY <1>15, <1>16, <1>17, <1>18, <1>19, <1>20, <1>21 DEF Calls!Service, ProvedCalls!Service
<1>31. QED
  BY <1>22, <1>23, <1>24, <1>25, <1>26, <1>27, <1>28, <1>29, <1>30 DEF Calls!TxNext,
  ProvedCalls!TxNext

LEMMA CallsBeginAlike == Calls!TxInit <=> ProvedCalls!TxInit
BY DEF Calls!NoFlow, ProvedCalls!NoFlow, Calls!Call, ProvedCalls!Call, Calls!NoCall,
ProvedCalls!NoCall, Calls!FreeFlow, ProvedCalls!FreeFlow, Calls!QuietUi, ProvedCalls!QuietUi,
Calls!NoClaimAll, ProvedCalls!NoClaimAll, Calls!TxInit, ProvedCalls!TxInit

LEMMA CallsPromiseAlike == ProvedCalls!CallsKeepPromise => Calls!CallsKeepPromise
<1>1. ProvedCalls!Promise!CallInit => Calls!Promise!CallInit
  BY Zenon DEF ProvedCalls!Promise!CallInit, Calls!Promise!CallInit, Calls!Executed, ProvedCalls!Executed
<1>2. [ProvedCalls!Promise!CallNext]_(ProvedCalls!Promise!callVars)
        => [Calls!Promise!CallNext]_(Calls!Promise!callVars)
  BY Zenon DEF Calls!Promise!CallInit, ProvedCalls!Promise!CallInit, Calls!Promise!CallNext,
  ProvedCalls!Promise!CallNext, Calls!Promise!callVars, ProvedCalls!Promise!callVars,
  Calls!Promise!Make, ProvedCalls!Promise!Make, Calls!Promise!Execute,
  ProvedCalls!Promise!Execute, Calls!Promise!Tell, ProvedCalls!Promise!Tell,
  Calls!Promise!ExecutedCalls, ProvedCalls!Promise!ExecutedCalls, Calls!Promise!Results,
  ProvedCalls!Promise!Results, Calls!Promise!Answers, ProvedCalls!Promise!Answers, Calls!Executed,
  ProvedCalls!Executed
<1>3. QED BY <1>1, <1>2, PTL DEF Calls!CallsKeepPromise, ProvedCalls!CallsKeepPromise, Calls!Promise!CallSpec, ProvedCalls!Promise!CallSpec

LEMMA ClientAlike == Client!TxNext <=> ProvedClient!TxNext
<1>1. \A s, stage : Client!Shown(s, stage) = ProvedClient!Shown(s, stage)
  BY Zenon DEF Client!StageToasts, ProvedClient!StageToasts, Client!Shown, ProvedClient!Shown
<1>2. \A s, f, call : Client!BeginOn(s, f, call) <=> ProvedClient!BeginOn(s, f, call)
  BY Zenon DEF Client!Call, ProvedClient!Call, Client!NoCall, ProvedClient!NoCall,
  Client!FreeFlow, ProvedClient!FreeFlow, Client!BeginOn, ProvedClient!BeginOn
<1>3. \A f, tx : Client!Answer(f, "success", tx, {}) <=> ProvedClient!Answer(f, "success", tx, {})
  BY Zenon DEF Client!Cardinality, ProvedClient!Cardinality, Client!NoFlow, ProvedClient!NoFlow,
  Client!OutcomeToasts, ProvedClient!OutcomeToasts, Client!ClaimedPools,
  ProvedClient!ClaimedPools, Client!ClaimAllAnswer, ProvedClient!ClaimAllAnswer, Client!Answer,
  ProvedClient!Answer
<1>4. \A f, tx, shown : Client!Answer(f, "failed", tx, shown) <=> ProvedClient!Answer(f, "failed", tx, shown)
  BY Zenon DEF Client!Cardinality, ProvedClient!Cardinality, Client!NoFlow, ProvedClient!NoFlow,
  Client!OutcomeToasts, ProvedClient!OutcomeToasts, Client!ClaimedPools,
  ProvedClient!ClaimedPools, Client!ClaimAllAnswer, ProvedClient!ClaimAllAnswer, Client!Answer,
  ProvedClient!Answer
<1>5. \A f, tx : Client!Answer(f, "cancelled", tx, {}) <=> ProvedClient!Answer(f, "cancelled", tx, {})
  BY Zenon DEF Client!Cardinality, ProvedClient!Cardinality, Client!NoFlow, ProvedClient!NoFlow,
  Client!OutcomeToasts, ProvedClient!OutcomeToasts, Client!ClaimedPools,
  ProvedClient!ClaimedPools, Client!ClaimAllAnswer, ProvedClient!ClaimAllAnswer, Client!Answer,
  ProvedClient!Answer
<1>6. \A f, pc, stage : Client!Advance(f, pc, stage) <=> ProvedClient!Advance(f, pc, stage)
  BY <1>1, Zenon DEF Client!Advance, ProvedClient!Advance
<1>7. \A f, p : Client!PlaceBet(f, p) <=> ProvedClient!PlaceBet(f, p)
  BY <1>2, Zenon DEF Client!Call, ProvedClient!Call, Client!placeBet, ProvedClient!placeBet,
  Client!ThrowsOnFailed, ProvedClient!ThrowsOnFailed, Client!placeBetSoroban,
  ProvedClient!placeBetSoroban, Client!PlaceBet, ProvedClient!PlaceBet
<1>8. \A f, p : Client!ClaimOnPoolPage(f, p) <=> ProvedClient!ClaimOnPoolPage(f, p)
  BY <1>2, Zenon DEF Client!Call, ProvedClient!Call, Client!claimWinnings,
  ProvedClient!claimWinnings, Client!ThrowsOnFailed, ProvedClient!ThrowsOnFailed,
  Client!claimWinningsSoroban, ProvedClient!claimWinningsSoroban, Client!ClaimOnPoolPage,
  ProvedClient!ClaimOnPoolPage
<1>9. \A f, p : Client!ClaimOnDashboard(f, p) <=> ProvedClient!ClaimOnDashboard(f, p)
  BY <1>2, Zenon DEF Client!Call, ProvedClient!Call, Client!claimWinnings,
  ProvedClient!claimWinnings, Client!ThrowsOnFailed, ProvedClient!ThrowsOnFailed,
  Client!claimWinningsSoroban, ProvedClient!claimWinningsSoroban, Client!ClaimOnDashboard,
  ProvedClient!ClaimOnDashboard
<1>10. \A f, p : Client!Settle(f, p) <=> ProvedClient!Settle(f, p)
  BY <1>2, Zenon DEF Client!Call, ProvedClient!Call, Client!settlePool, ProvedClient!settlePool,
  Client!ThrowsOnFailed, ProvedClient!ThrowsOnFailed, Client!settlePoolSoroban,
  ProvedClient!settlePoolSoroban, Client!Settle, ProvedClient!Settle
<1>11. \A f, p : Client!LpCall(f, p) <=> ProvedClient!LpCall(f, p)
  BY <1>2, Zenon DEF Client!Call, ProvedClient!Call, Client!depositLiquidity,
  ProvedClient!depositLiquidity, Client!withdrawLiquidity, ProvedClient!withdrawLiquidity,
  Client!stakeLp, ProvedClient!stakeLp, Client!claimLpRewards, ProvedClient!claimLpRewards,
  Client!ThrowsOnFailed, ProvedClient!ThrowsOnFailed, Client!depositLiquiditySoroban,
  ProvedClient!depositLiquiditySoroban, Client!withdrawLiquiditySoroban,
  ProvedClient!withdrawLiquiditySoroban, Client!stakeLpSoroban, ProvedClient!stakeLpSoroban,
  Client!claimLpRewardsSoroban, ProvedClient!claimLpRewardsSoroban, Client!LpBusy,
  ProvedClient!LpBusy, Client!LpCall, ProvedClient!LpCall
<1>12. \A f, p : Client!AdminAction(f, p) <=> ProvedClient!AdminAction(f, p)
  BY <1>2, Zenon DEF Client!Call, ProvedClient!Call, Client!freezePool, ProvedClient!freezePool,
  Client!disputePool, ProvedClient!disputePool, Client!unfreezePool, ProvedClient!unfreezePool,
  Client!ThrowsOnFailed, ProvedClient!ThrowsOnFailed, Client!freezePoolSoroban,
  ProvedClient!freezePoolSoroban, Client!disputePoolSoroban, ProvedClient!disputePoolSoroban,
  Client!unfreezePoolSoroban, ProvedClient!unfreezePoolSoroban, Client!AdminAction,
  ProvedClient!AdminAction
<1>13. \A f, ps : Client!ClaimAll(f, ps) <=> ProvedClient!ClaimAll(f, ps)
  BY <1>2, Zenon DEF Client!Call, ProvedClient!Call, Client!claimAllWinnings,
  ProvedClient!claimAllWinnings, Client!ThrowsOnFailed, ProvedClient!ThrowsOnFailed,
  Client!claimAllWinningsSoroban, ProvedClient!claimAllWinningsSoroban, Client!Batch,
  ProvedClient!Batch, Client!ClaimAll, ProvedClient!ClaimAll
<1>14. \A f : Client!CreatePool(f) <=> ProvedClient!CreatePool(f)
  BY <1>2, Zenon DEF Client!Call, ProvedClient!Call, Client!createMultiOutcomePool,
  ProvedClient!createMultiOutcomePool, Client!ThrowsOnFailed, ProvedClient!ThrowsOnFailed,
  Client!createMultiOutcomePoolSoroban, ProvedClient!createMultiOutcomePoolSoroban,
  Client!CreatePool, ProvedClient!CreatePool
<1>15. \A f : Client!Build(f) <=> ProvedClient!Build(f)
  BY <1>1, Zenon DEF Client!Build, ProvedClient!Build
<1>16. \A f : Client!Simulate(f) <=> ProvedClient!Simulate(f)
  BY <1>6, Zenon DEF Client!AsksFee, ProvedClient!AsksFee, Client!Simulate, ProvedClient!Simulate
<1>17. \A f : Client!Sign(f) <=> ProvedClient!Sign(f)
  BY <1>6, Zenon DEF Client!Sign, ProvedClient!Sign
<1>18. \A f : Client!Send(f) <=> ProvedClient!Send(f)
  BY <1>1, Zenon DEF Client!Send, ProvedClient!Send
<1>19. \A f : Client!PollResult(f) <=> ProvedClient!PollResult(f)
  BY <1>3, <1>4, Zenon DEF Client!PollResult, ProvedClient!PollResult
<1>20. \A f : Client!PollAgain(f) <=> ProvedClient!PollAgain(f)
  BY Zenon DEF Client!PollAgain, ProvedClient!PollAgain
<1>21. \A f : Client!PollGivesUp(f) <=> ProvedClient!PollGivesUp(f)
  BY <1>4, Zenon DEF Client!PollGivesUp, ProvedClient!PollGivesUp
<1>22. \A f : Client!Throws(f) <=> ProvedClient!Throws(f)
  BY <1>4, Zenon DEF Client!Throws, ProvedClient!Throws
<1>23. \A f : Client!ConfirmFee(f) <=> ProvedClient!ConfirmFee(f)
  BY <1>1, Zenon DEF Client!NoFlow, ProvedClient!NoFlow, Client!Mounted, ProvedClient!Mounted,
  Client!Confirming, ProvedClient!Confirming, Client!ConfirmFee, ProvedClient!ConfirmFee
<1>24. \A f : Client!CancelFee(f) <=> ProvedClient!CancelFee(f)
  BY <1>5, Zenon DEF Client!Mounted, ProvedClient!Mounted, Client!Confirming,
  ProvedClient!Confirming, Client!CancelFee, ProvedClient!CancelFee
<1>25. \A f : Client!Include(f) <=> ProvedClient!Include(f)
  BY Zenon DEF Client!Include, ProvedClient!Include
<1>26. \A f : Client!Drop(f) <=> ProvedClient!Drop(f)
  BY Zenon DEF Client!Drop, ProvedClient!Drop
<1>27. Client!CloseClaimAll <=> ProvedClient!CloseClaimAll
  BY Zenon DEF Client!NoFlow, ProvedClient!NoFlow, Client!NoClaimAll, ProvedClient!NoClaimAll,
  Client!CloseClaimAll, ProvedClient!CloseClaimAll
<1>28. Client!Tick <=> ProvedClient!Tick
  BY Zenon DEF Client!Live, ProvedClient!Live, Client!Tick, ProvedClient!Tick
<1>29. \A f : Client!Starts(f) <=> ProvedClient!Starts(f)
  BY <1>7, <1>8, <1>9, <1>10, <1>11, <1>12, <1>13, <1>14 DEF Client!Starts, ProvedClient!Starts,
  Client!PoolLists, ProvedClient!PoolLists
<1>30. \A f : Client!Service(f) <=> ProvedClient!Service(f)
  BY <1>15, <1>16, <1>17, <1>18, <1>19, <1>20, <1>21 DEF Client!Service, ProvedClient!Service
<1>31. QED
  BY <1>22, <1>23, <1>24, <1>25, <1>26, <1>27, <1>28, <1>29, <1>30 DEF Client!TxNext,
  ProvedClient!TxNext

LEMMA ClientBeginAlike == Client!TxInit <=> ProvedClient!TxInit
BY DEF Client!NoFlow, ProvedClient!NoFlow, Client!Call, ProvedClient!Call, Client!NoCall,
ProvedClient!NoCall, Client!FreeFlow, ProvedClient!FreeFlow, Client!QuietUi, ProvedClient!QuietUi,
Client!NoClaimAll, ProvedClient!NoClaimAll, Client!TxInit, ProvedClient!TxInit

LEMMA ClientPromiseAlike == ProvedClient!CallsKeepPromise => Client!CallsKeepPromise
<1>1. ProvedClient!Promise!CallInit => Client!Promise!CallInit
  BY Zenon DEF ProvedClient!Promise!CallInit, Client!Promise!CallInit, Client!Executed, ProvedClient!Executed
<1>2. [ProvedClient!Promise!CallNext]_(ProvedClient!Promise!callVars)
        => [Client!Promise!CallNext]_(Client!Promise!callVars)
  BY Zenon DEF Client!Promise!CallInit, ProvedClient!Promise!CallInit, Client!Promise!CallNext,
  ProvedClient!Promise!CallNext, Client!Promise!callVars, ProvedClient!Promise!callVars,
  Client!Promise!Make, ProvedClient!Promise!Make, Client!Promise!Execute,
  ProvedClient!Promise!Execute, Client!Promise!Tell, ProvedClient!Promise!Tell,
  Client!Promise!ExecutedCalls, ProvedClient!Promise!ExecutedCalls, Client!Promise!Results,
  ProvedClient!Promise!Results, Client!Promise!Answers, ProvedClient!Promise!Answers,
  Client!Executed, ProvedClient!Executed
<1>3. QED BY <1>1, <1>2, PTL DEF Client!CallsKeepPromise, ProvedClient!CallsKeepPromise, Client!Promise!CallSpec, ProvedClient!Promise!CallSpec

LEMMA CallsStep == [AppNext]_appVars => [ProvedCalls!TxNext]_(ProvedCalls!txVars)
<1>1. [AppNext]_appVars => [Calls!TxNext]_callsVars
  BY DEF AppNext, Step, Still, appVars
<1>2. QED BY <1>1, CallsAlike DEF callsVars, ProvedCalls!txVars

LEMMA CallsProved == AppSpec => ProvedCalls!TxSpec
<1>1. AppInit => ProvedCalls!TxInit BY CallsBeginAlike DEF AppInit
<1>2. QED BY <1>1, CallsStep, PTL DEF AppSpec, ProvedCalls!TxSpec

LEMMA CachesAlike == Client!C!CacheNext <=> ProvedClient!C!CacheNext
BY Zenon DEF Client!C!CacheNext, Client!C!ReadStart, Client!C!ReadDone, Client!C!ReadFails,
   Client!C!Expire, Client!C!Keys, Client!C!List, Client!C!Pool, Client!C!UserKeys,
   Client!C!Stored, Client!C!Entry, Client!C!NoRead, Client!C!Absent,
   ProvedClient!C!CacheNext, ProvedClient!C!ReadStart, ProvedClient!C!ReadDone,
   ProvedClient!C!ReadFails, ProvedClient!C!Expire, ProvedClient!C!Keys, ProvedClient!C!List,
   ProvedClient!C!Pool, ProvedClient!C!UserKeys, ProvedClient!C!Stored, ProvedClient!C!Entry,
   ProvedClient!C!NoRead, ProvedClient!C!Absent

LEMMA DropsAlike ==
  \A f : Client!Succeeds(f) /\ Client!C!Invalidate(Client!Dropped(f))
           <=> ProvedClient!Succeeds(f) /\ ProvedClient!C!Invalidate(ProvedClient!Dropped(f))
BY Zenon DEF Client!Succeeds, Client!C!Invalidate, Client!Dropped, Client!C!Keys, Client!C!List,
   Client!C!Pool, Client!C!UserKeys, Client!C!Stored, Client!C!Absent, Client!C!OnPlaceBet,
   Client!C!OnClaimWinnings, Client!C!OnCreatePool,
   ProvedClient!Succeeds, ProvedClient!C!Invalidate, ProvedClient!Dropped, ProvedClient!C!Keys,
   ProvedClient!C!List, ProvedClient!C!Pool, ProvedClient!C!UserKeys, ProvedClient!C!Stored,
   ProvedClient!C!Absent, ProvedClient!C!OnPlaceBet, ProvedClient!C!OnClaimWinnings,
   ProvedClient!C!OnCreatePool

LEMMA ClientStep == [AppNext]_appVars => [ProvedClient!ClientNext]_(ProvedClient!clientVars)
<1>1. [AppNext]_appVars => [Client!ClientNext]_clientVars
  BY DEF AppNext, Step, Still, appVars
<1>2. \A f : Client!Succeeds(f) <=> ProvedClient!Succeeds(f)
  BY Zenon DEF Client!Succeeds, ProvedClient!Succeeds
<1>3. Client!ClientNext => ProvedClient!ClientNext
  BY <1>2, ClientAlike, CachesAlike, DropsAlike
  DEF Client!ClientNext, ProvedClient!ClientNext, Client!txVars, ProvedClient!txVars
<1>4. QED BY <1>1, <1>3 DEF clientVars, ProvedClient!clientVars

LEMMA ClientProved == AppSpec => ProvedClient!ClientSpec
<1>1. AppInit => ProvedClient!ClientInit
  <2>1. Client!C!CacheInit <=> ProvedClient!C!CacheInit
    BY Zenon DEF Client!C!CacheInit, Client!C!Keys, Client!C!List, Client!C!Pool, Client!C!UserKeys,
       Client!C!Absent, Client!C!NoRead, ProvedClient!C!CacheInit, ProvedClient!C!Keys,
       ProvedClient!C!List, ProvedClient!C!Pool, ProvedClient!C!UserKeys, ProvedClient!C!Absent,
       ProvedClient!C!NoRead
  <2>2. QED BY <2>1, ClientBeginAlike DEF AppInit, Client!ClientInit, ProvedClient!ClientInit
<1>2. QED BY <1>1, ClientStep, PTL DEF AppSpec, ProvedClient!ClientSpec

(* No two calls of a page are executed with one sequence number, and of    *)
(* those that can still land only one will, however late it is retried.    *)
THEOREM OneExecution == AppSpec => []OneExecutionPerSequence
<1>1. ProvedCalls!OneExecutionPerSequence => OneExecutionPerSequence
  BY Zenon DEF OneExecutionPerSequence, ProvedCalls!OneExecutionPerSequence,
     Calls!OneExecutionPerSequence, Calls!Executed, ProvedCalls!Executed,
     Calls!CanLand, ProvedCalls!CanLand
<1>2. QED BY <1>1, CallsProved, ProvedCalls!NoCallExecutedTwice, PTL

(* With and without the caches beside them, the calls of the client keep   *)
(* the promise of ContractCalls: success is told only of what the ledger   *)
(* has executed, and a cancelled call is never executed.                   *)
THEOREM PromiseIsKept == AppSpec => CallsKeepPromise
<1>1. AppSpec => Calls!CallsKeepPromise
  BY CallsProved, CallsPromiseAlike, ProvedCalls!CallsImplementPromise, PTL
<1>2. AppSpec => Client!CallsKeepPromise
  BY ClientProved, ClientPromiseAlike, ProvedClient!ClientMakesCalls,
     ProvedClient!CallsImplementPromise, PTL
<1>3. QED BY <1>1, <1>2, PTL DEF CallsKeepPromise

(* After a mutation is reported, what the caches show of it is not older,  *)
(* but for what a read in flight at its invalidation filled in.            *)
THEOREM CachesAreFresh == AppSpec => []FreshAfterSuccess
<1>1. ProvedClient!FreshAfterSuccess => FreshAfterSuccess
  BY Zenon DEF FreshAfterSuccess, Client!FreshAfterSuccess, Client!Invalidating, Client!Touched,
     Client!C!List, Client!C!Pool, Client!C!UserKeys,
     ProvedClient!FreshAfterSuccess, ProvedClient!Invalidating, ProvedClient!Touched,
     ProvedClient!C!List, ProvedClient!C!Pool, ProvedClient!C!UserKeys
<1>2. AppSpec => []ProvedClient!FreshAfterSuccess
  BY AppAssumption, ClientProved, ProvedClient!SuccessIsFresh, PTL
<1>3. QED BY <1>1, <1>2, PTL

=============================================================================
