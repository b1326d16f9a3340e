------------------------------ MODULE WebActivity ------------------------------
(***************************************************************************)
(* Contract events read by the web app: the timeline of a pool             *)
(* (usePoolActivity), the account's feed with its webhooks                 *)
(* (soroban-event-service), the activity page and its export.              *)
(*                                                                         *)
(* The events the chain will emit are a constant; a variable says how many *)
(* it has.  An event is [name, schema, tx, pool, user, outcome, day]; an   *)
(* outcome is 0, 1 or more, NoOutcome when the event has none.             *)
(***************************************************************************)
EXTENDS Integers, Sequences, FiniteSets, SequencesExt, Ranks

CONSTANTS
  Ledger,      \* sequence of events
  Accounts,
  ThisPool,    \* the pool whose page is open
  PageLoad,    \* INITIAL_LOAD_SIZE
  MaxEvents,   \* MAX_EVENTS
  ShownFirst,  \* maxInitialEvents
  ShownStep,   \* events that "Load more" adds; the count stops mattering at MaxEvents
  FeedLimit,   \* what the activity page asks for
  PageSize,    \* PAGE_SIZE
  PoolHooks,   \* pools with a webhook of their own
  GeneralHook, \* is there one for the others?
  MaxWindow,   \* EXPORT_MAX_WINDOW_DAYS
  Today,
  Dates        \* days that may be asked for; 0 is an empty field

VARIABLES
  emitted,   \* events of Ledger the chain has emitted
  route,     \* "market", "activity" or "elsewhere"
  timeline,  \* the hook's state and the count displayed
  asked,     \* timeline requests under way
  poolKept,  \* poolActivityCache's entry for ThisPool: at most one
  account,
  feed,      \* useUserActivity's list
  browse,    \* activity page: filter, from, to, page
  export,    \* the last file handed over, or NoExport
  notices    \* webhooks the last read of the feed sent: [event, id]

activityVars == <<emitted, route, timeline, asked, poolKept, account, feed, browse, export,
                  notices>>

NoOutcome == 99

\* toNumber drops what is not a number; only the binary outcomes survive the decoder.
Binary(outcome) == IF outcome \in {0, 1} THEN outcome ELSE NoOutcome

Decoded(e) ==
  /\ e.schema = "v1"
  /\ e.name \in {"create_pool", "place_bet", "settle_pool", "claim_winnings", "pool_frozen",
                 "pool_disputed", "pool_unfrozen"}

\* External: getEvents, the first `limit` events after the cursor with these names.
GetEvents(names, cursor, limit) ==
  LET asks == Ascending({i \in 1..emitted :
                           i > cursor /\ Ledger[i].name \in names /\ Ledger[i].schema = "v1"})
  IN  SubSeq(asks, 1, IF Len(asks) < limit THEN Len(asks) ELSE limit)

Where(list, P(_)) == Kept(list, {k \in DOMAIN list : P(list[k])})

\* The stable sort by descending time.
NewestFirst(events) ==
  LargestFirst(events, [k \in DOMAIN events |-> Ledger[events[k]].day])

Minimum(a, b) == IF a < b THEN a ELSE b

----------------------------------------------------------------------------
(* The timeline of a pool. *)

TimelineNames == {"create_pool", "place_bet", "settle_pool", "claim_winnings"}

FetchPoolActivity(cursor, limit) ==
  LET raw == GetEvents(TimelineNames, cursor, limit)
      mine == Where(raw, LAMBDA i : Decoded(Ledger[i]) /\ Ledger[i].pool = ThisPool)
  IN  [list |-> NewestFirst(mine), raw |-> Len(raw),
       cursor |-> IF raw = <<>> THEN cursor ELSE Last(raw)]

NewTimeline == [list |-> <<>>, cursor |-> 0, more |-> TRUE, busy |-> FALSE, error |-> FALSE,
                count |-> ShownFirst]

\* loadEvents takes an answer, of the chain or of the cache.
TakeFirstPage(res) ==
  [timeline EXCEPT !.list = res.list, !.cursor = res.cursor, !.busy = FALSE, !.error = FALSE,
                   !.more = res.raw >= PageLoad /\ Len(res.list) < MaxEvents]

OpenMarket ==
  /\ route = "elsewhere" /\ route' = "market"
  /\ IF poolKept # {}
     THEN timeline' = TakeFirstPage(CHOOSE k \in poolKept : TRUE) /\ UNCHANGED asked
     ELSE /\ timeline' = [NewTimeline EXCEPT !.busy = TRUE]
          /\ asked' = asked \cup {[kind |-> "first", limit |-> PageLoad, cursor |-> 0, live |-> TRUE]}
  /\ UNCHANGED <<emitted, poolKept, account, feed, browse, export, notices>>

\* A page load started before the reader left still fills the cache.
FirstPageAnswered ==
  \E r \in asked :
    LET res == FetchPoolActivity(0, r.limit) IN
    /\ r.kind = "first" /\ asked' = asked \ {r}
    /\ poolKept' = {res}
    /\ timeline' = IF r.live THEN TakeFirstPage(res) ELSE timeline
  /\ UNCHANGED <<emitted, route, account, feed, browse, export, notices>>

FirstPageFailed ==
  \E r \in asked :
    /\ r.kind = "first" /\ asked' = asked \ {r}
    /\ timeline' = IF r.live
                   THEN [timeline EXCEPT !.list = <<>>, !.more = FALSE, !.busy = FALSE, !.error = TRUE]
                   ELSE timeline
  /\ UNCHANGED <<emitted, route, poolKept, account, feed, browse, export, notices>>

\* What a row of the timeline tells; an outcome without a label is left out.
TimelineRow(i) == [type |-> Ledger[i].name, outcome |-> Binary(Ledger[i].outcome)]

TimelineShown == [k \in 1..Minimum(timeline.count, Len(timeline.list)) |-> TimelineRow(timeline.list[k])]

\* The skeleton, the empty state or the list, and the button under it.
OffersMore ==
  timeline.list # <<>> /\ (Len(TimelineShown) < Len(timeline.list) \/ timeline.more)

Counted == Minimum(timeline.count + ShownStep, MaxEvents)

ShowMore ==
  /\ route = "market" /\ OffersMore /\ ~timeline.busy
  /\ IF timeline.count < Len(timeline.list)
     THEN timeline' = [timeline EXCEPT !.count = Counted] /\ UNCHANGED asked
     ELSE \* loadMore, then the count
          IF Len(timeline.list) >= MaxEvents
          THEN timeline' = [timeline EXCEPT !.more = FALSE, !.count = Counted] /\ UNCHANGED asked
          ELSE /\ timeline' = [timeline EXCEPT !.busy = TRUE, !.count = Counted]
               /\ asked' = asked \cup
                    {[kind |-> "more", cursor |-> timeline.cursor, live |-> TRUE,
                      limit |-> Minimum(PageLoad, MaxEvents - Len(timeline.list))]}
  /\ UNCHANGED <<emitted, route, poolKept, account, feed, browse, export, notices>>

\* The mapped event's id is its transaction: a second event of a known one is dropped.
Fresh(res) ==
  Where(res.list, LAMBDA i :
    \A k \in DOMAIN timeline.list : Ledger[timeline.list[k]].tx # Ledger[i].tx)

MoreAnswered ==
  \E r \in asked :
    LET res == FetchPoolActivity(r.cursor, r.limit)
        all == timeline.list \o Fresh(res)
    IN
    /\ r.kind = "more" /\ asked' = asked \ {r}
    /\ timeline' = [timeline EXCEPT
         !.cursor = res.cursor, !.busy = FALSE, !.list = SubSeq(all, 1, Minimum(Len(all), MaxEvents)),
         !.more = res.raw >= r.limit /\ Len(all) < MaxEvents /\ Fresh(res) # <<>>]
  /\ UNCHANGED <<emitted, route, poolKept, account, feed, browse, export, notices>>

MoreFailed ==
  \E r \in asked :
    /\ r.kind = "more" /\ asked' = asked \ {r}
    /\ timeline' = [timeline EXCEPT !.busy = FALSE, !.error = TRUE]
  /\ UNCHANGED <<emitted, route, poolKept, account, feed, browse, export, notices>>

\* CACHE_TTL passes.
PoolKeptExpires ==
  /\ poolKept # {} /\ poolKept' = {}
  /\ UNCHANGED <<emitted, route, timeline, asked, account, feed, browse, export, notices>>

----------------------------------------------------------------------------
(* The account's feed, the webhooks its reading sends, and its export. *)

FeedNames == {"place_bet", "claim_winnings", "create_pool", "settle_pool"}

ActivityType(e) ==
  CASE e.name = "place_bet" -> "bet-placed"
    [] e.name = "claim_winnings" -> "winnings-claimed"
    [] e.name = "create_pool" -> "pool-created"
    [] OTHER -> "contract-call"

\* Pool creations and settlements are kept whoever made them.
IsUserEvent(e) == e.user = account \/ e.name \in {"create_pool", "settle_pool"}

FeedRead ==
  NewestFirst(Where(GetEvents(FeedNames, 0, FeedLimit),
                        LAMBDA i : Decoded(Ledger[i]) /\ IsUserEvent(Ledger[i])))

\* triggerWebhookNotification's guards.
Notifies(e) ==
  CASE e.name = "create_pool" -> TRUE
    [] e.name \in {"place_bet", "settle_pool"} -> Binary(e.outcome) # NoOutcome
    [] OTHER -> TRUE

GetWebhookConfig(pool) ==
  IF pool \in PoolHooks THEN "pool" ELSE IF GeneralHook THEN "general" ELSE "none"

\* buildBetPlacedPayload and its siblings: evt_${poolId}_${Date.now()}, in one loop that
\* does not wait: the same instant.
Notice(i) == [event |-> i, id |-> Ledger[i].pool, to |-> GetWebhookConfig(Ledger[i].pool)]

\* notifyPoolCreated and its siblings.
Notified(i) == IF GetWebhookConfig(Ledger[i].pool) = "none" THEN {} ELSE {Notice(i)}

\* Every read sends the webhooks of the events it keeps; a failed read is an empty feed.
ReadFeed ==
  /\ route = "activity"
  /\ \/ /\ feed' = FeedRead
        /\ notices' = UNION {Notified(i) : i \in {j \in ToSet(FeedRead) : Notifies(Ledger[j])}}
     \/ feed' = <<>> /\ notices' = {}
  /\ UNCHANGED <<emitted, route, timeline, asked, poolKept, account, browse, export>>

NoBrowse == [filter |-> "all", from |-> 0, to |-> 0, page |-> 1]

Matching ==
  Where(feed, LAMBDA i :
    /\ browse.filter \in {"all", ActivityType(Ledger[i])}
    /\ browse.from = 0 \/ Ledger[i].day >= browse.from
    /\ browse.to = 0 \/ Ledger[i].day <= browse.to)

TotalPages == IF Matching = <<>> THEN 1 ELSE (Len(Matching) + PageSize - 1) \div PageSize

\* A row names an outcome by telling 0 from everything else.
ActivityRow(i) ==
  [type |-> ActivityType(Ledger[i]),
   outcome |-> IF Binary(Ledger[i].outcome) = 0 THEN "Outcome A" ELSE "Outcome B"]

\* ActivityFeed: a list, or the state of an empty one.
ActivityFeed(items) ==
  IF items = <<>> THEN <<"No Activity Yet">> ELSE [k \in DOMAIN items |-> ActivityRow(items[k])]

\* The page: its slice of what matches, and the bar that turns pages.
ActivityPage ==
  [rows |-> ActivityFeed(SubSeq(Matching, (browse.page - 1) * PageSize + 1,
                                Minimum(browse.page * PageSize, Len(Matching)))),
   bar |-> Matching # <<>>]

Browse(b) ==
  /\ route = "activity" /\ browse' = b
  /\ UNCHANGED <<emitted, route, timeline, asked, poolKept, account, feed, export, notices>>

SetFilter(t) == Browse([browse EXCEPT !.filter = t, !.page = 1])
SetDates(from, to) ==
  /\ (from = browse.from) # (to = browse.to)
  /\ Browse([browse EXCEPT !.from = from, !.to = to, !.page = 1])

TurnPage ==
  /\ ActivityPage.bar
  /\ \/ browse.page # 1 /\ Browse([browse EXCEPT !.page = @ - 1])
     \/ browse.page # TotalPages /\ Browse([browse EXCEPT !.page = Minimum(TotalPages, @ + 1)])

\* resolveExportWindow: a missing bound has a default, a wide window loses its start.
ExportWindow ==
  LET to == IF browse.to = 0 THEN Today ELSE browse.to
      asksFrom == IF browse.from = 0 THEN to - MaxWindow ELSE browse.from
      from == Minimum(asksFrom, to)
  IN  [from |-> IF to - from > MaxWindow THEN to - MaxWindow ELSE from, to |-> to,
       clamped |-> to - from > MaxWindow]

FilterActivitiesForExport(list, window) ==
  Where(list, LAMBDA i : window.from <= Ledger[i].day /\ Ledger[i].day <= window.to)

\* A record keeps the event's fields; CSV and JSON write the same records.
ToExportRecords(list) ==
  [k \in DOMAIN list |-> [event |-> list[k], type |-> ActivityType(Ledger[list[k]])]]

NoExport == [records |-> <<>>, asked |-> <<>>, warned |-> FALSE, from |-> 0]

\* The button is disabled on an empty list; an empty scope only shows a toast.
HandleExport ==
  LET scoped == FilterActivitiesForExport(Matching, ExportWindow) IN
  /\ route = "activity" /\ Matching # <<>> /\ scoped # <<>>
  /\ export' = [records |-> ToExportRecords(scoped), asked |-> Matching, from |-> browse.from,
                warned |-> ExportWindow.clamped]
  /\ UNCHANGED <<emitted, route, timeline, asked, poolKept, account, feed, browse, notices>>

OpenActivity ==
  /\ route = "elsewhere" /\ route' = "activity"
  /\ UNCHANGED <<emitted, timeline, asked, poolKept, account, feed, browse, export, notices>>

\* Leaving unmounts the page: its state is gone and its requests go on unheard.
Leave ==
  /\ route # "elsewhere" /\ route' = "elsewhere"
  /\ timeline' = NewTimeline
  /\ asked' = {[r EXCEPT !.live = FALSE] : r \in {q \in asked : q.kind = "first"}}
  /\ feed' = <<>> /\ browse' = NoBrowse /\ export' = NoExport /\ notices' = {}
  /\ UNCHANGED <<emitted, poolKept, account>>

\* Another account connects: the page asks anew and keeps its place.
SwitchAccount(a) ==
  /\ route = "activity" /\ a # account /\ account' = a /\ feed' = <<>> /\ notices' = {}
  /\ UNCHANGED <<emitted, route, timeline, asked, poolKept, browse, export>>

Emit ==
  /\ emitted < Len(Ledger) /\ emitted' = emitted + 1
  /\ UNCHANGED <<route, timeline, asked, poolKept, account, feed, browse, export, notices>>

ActivityInit ==
  /\ emitted \in 0..Len(Ledger) /\ route = "elsewhere"
  /\ timeline = NewTimeline /\ asked = {} /\ poolKept = {}
  /\ account \in Accounts /\ feed = <<>> /\ browse = NoBrowse /\ export = NoExport
  /\ notices = {}

ActivityNext ==
  \/ Emit \/ OpenMarket \/ FirstPageAnswered \/ FirstPageFailed \/ ShowMore
  \/ MoreAnswered \/ MoreFailed \/ PoolKeptExpires
  \/ OpenActivity \/ ReadFeed \/ TurnPage \/ HandleExport \/ Leave
  \/ \E t \in {"all", "bet-placed", "winnings-claimed", "pool-created", "contract-call"} : SetFilter(t)
  \/ \E from, to \in Dates : SetDates(from, to)
  \/ \E a \in Accounts : SwitchAccount(a)

ActivitySpec == ActivityInit /\ [][ActivityNext]_activityVars

----------------------------------------------------------------------------

\* Whatever pages, answers of the cache and failures came in between, the timeline has
\* shown or still holds every transaction of its pool before the cursor, and no other's.
TimelineSkipsNothing ==
  LET mine == {i \in 1..timeline.cursor : Ledger[i].pool = ThisPool /\ Decoded(Ledger[i])
                                            /\ Ledger[i].name \in TimelineNames}
  IN  /\ {Ledger[i].tx : i \in ToSet(timeline.list)} = {Ledger[i].tx : i \in mine}
      /\ ToSet(timeline.list) \subseteq mine /\ Len(timeline.list) <= MaxEvents
      /\ IsInjective(timeline.list)

\* A file asked from a date on, and not announced as cut, holds all that the page listed.
ExportIsTheList ==
  export.from # 0 /\ ~export.warned =>
    [k \in DOMAIN export.records |-> export.records[k].event] = export.asked


=============================================================================
