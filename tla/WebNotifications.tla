--------------------------- MODULE WebNotifications ---------------------------
(***************************************************************************)
(* Push notifications: the components that ask for them in one browser     *)
(* (the prompt of the layout and the settings page, each with its own copy *)
(* of what local storage keeps), and the route that stores an account's    *)
(* subscriptions in a key-value store, its handlers interleaving at every  *)
(* await.  Another browser of the same account saves as well.              *)
(***************************************************************************)
EXTENDS Integers, FiniteSets

CONSTANTS
  Prefs,     \* the combinations of preferences
  Default,   \* DEFAULT_NOTIFICATION_PREFERENCES
  MaxSaves   \* bound: requests the browsers send

VARIABLES
  stored,    \* local storage: enabled, prefs, prompted
  granted,   \* window.Notification.permission
  copy,      \* per component: mounted, enabled, prefs, permission, is a save due?
  visible,   \* the prompt's state
  browser,   \* does the push manager hold a subscription?
  kv,        \* endpoint -> the entry under its key, or NoEntry
  listed,    \* the endpoints under the account's index key
  handlers,  \* requests at the server, each with its place and what it has read
  sent       \* requests sent so far

notificationVars == <<stored, granted, copy, visible, browser, kv, listed, handlers, sent>>

Components == {"prompt", "page"}
Endpoints == {"here", "other"}
NoEntry == "none"

\* normalizePreferences: a key that is missing or not a boolean takes its default.
Normalize(prefs) == IF prefs \in Prefs THEN prefs ELSE Default

\* The effects of mounting read the storage and the permission; the effect that saves the
\* subscription is due whenever the copy's enabled or preferences change.
Mount ==
  [mounted |-> TRUE, enabled |-> stored.enabled, prefs |-> Normalize(stored.prefs),
   permission |-> granted, due |-> stored.enabled]
Away == [mounted |-> FALSE, enabled |-> FALSE, prefs |-> Default, permission |-> "default",
         due |-> FALSE]

Request(op, endpoint, prefs) ==
  [op |-> op, endpoint |-> endpoint, prefs |-> prefs, id |-> sent + 1, at |-> "arrived",
   read |-> {}, alone |-> handlers = {}]

\* The request reaches the server; those already there are no longer alone.
Arrive(r) ==
  /\ sent < MaxSaves /\ sent' = sent + 1
  /\ handlers' = {[h EXCEPT !.alone = FALSE] : h \in handlers} \cup {r}

\* subscribeToPredinexPush and savePushSubscription, which the effect of a component runs.
SyncSubscription(c) ==
  /\ copy[c].due /\ copy[c].enabled /\ granted = "granted"
  /\ copy' = [copy EXCEPT ![c].due = FALSE]
  /\ browser' = TRUE
  /\ Arrive(Request("POST", "here", copy[c].prefs))
  /\ UNCHANGED <<stored, granted, visible, kv, listed>>

RequestPermission(c) ==
  /\ \E answer \in IF granted = "default" THEN {"default", "granted", "denied"} ELSE {granted} :
       /\ granted' = answer
       /\ copy' = [copy EXCEPT ![c].permission = answer,
                               ![c].enabled = @ \/ answer = "granted",
                               ![c].due = @ \/ answer = "granted"]
       /\ stored' = [stored EXCEPT !.prompted = TRUE, !.enabled = @ \/ answer = "granted"]
  /\ UNCHANGED <<browser, kv, listed, handlers, sent>>

\* The card of the layout is shown once, and only while the permission is open.
PromptVisible == visible /\ copy["prompt"].permission = "default"

EnablePrompt == PromptVisible /\ RequestPermission("prompt") /\ visible' = FALSE

DismissPrompt ==
  /\ PromptVisible /\ visible' = FALSE /\ stored' = [stored EXCEPT !.prompted = TRUE]
  /\ UNCHANGED <<granted, copy, browser, kv, listed, handlers, sent>>

\* The button of the settings page.
EnablePush ==
  /\ copy["page"].mounted /\ copy["page"].permission # "denied"
  /\ RequestPermission("page") /\ UNCHANGED visible

\* A switch: the copy and the storage change at once, the server when its save arrives.
HandleToggle(prefs) ==
  /\ copy["page"].mounted /\ prefs # copy["page"].prefs
  /\ copy' = [copy EXCEPT !["page"].prefs = prefs, !["page"].due = @ \/ copy["page"].enabled]
  /\ stored' = [stored EXCEPT !.prefs = prefs]
  /\ IF copy["page"].permission = "granted" /\ browser
     THEN Arrive(Request("POST", "here", prefs))
     ELSE UNCHANGED <<handlers, sent>>
  /\ UNCHANGED <<granted, visible, browser, kv, listed>>

\* The second click within three seconds; only the storage is cleared.
HandleReset ==
  /\ copy["page"].mounted /\ copy["page"].prefs # Default
  /\ copy' = [copy EXCEPT !["page"].prefs = Default, !["page"].due = @ \/ copy["page"].enabled]
  /\ stored' = [stored EXCEPT !.prefs = Default]
  /\ UNCHANGED <<granted, visible, browser, kv, listed, handlers, sent>>

\* unsubscribeFromPredinexPush, of the settings' switch.
Disable ==
  /\ copy["page"].mounted /\ copy["page"].enabled
  /\ copy' = [copy EXCEPT !["page"].enabled = FALSE, !["page"].permission = granted,
                          !["page"].due = FALSE]
  /\ stored' = [stored EXCEPT !.enabled = FALSE]
  /\ browser' = FALSE
  /\ Arrive(Request("DELETE", "here", Default))
  /\ UNCHANGED <<granted, visible, kv, listed>>

OpenSettings ==
  /\ ~copy["page"].mounted /\ copy' = [copy EXCEPT !["page"] = Mount]
  /\ UNCHANGED <<stored, granted, visible, browser, kv, listed, handlers, sent>>

LeaveSettings ==
  /\ copy["page"].mounted /\ copy' = [copy EXCEPT !["page"] = Away]
  /\ UNCHANGED <<stored, granted, visible, browser, kv, listed, handlers, sent>>

OtherBrowserSaves(prefs) ==
  /\ Arrive(Request("POST", "other", prefs))
  /\ UNCHANGED <<stored, granted, copy, visible, browser, kv, listed>>

----------------------------------------------------------------------------
(* The route. *)

Advance(h, to) == handlers' = (handlers \ {h}) \cup {to}

\* POST: the entry under its own key, then the index, read before it is written.
PostEntry(h) ==
  /\ h.op = "POST" /\ h.at = "arrived"
  /\ kv' = [kv EXCEPT ![h.endpoint] = Normalize(h.prefs)]
  /\ Advance(h, [h EXCEPT !.at = "stored"]) /\ UNCHANGED listed

\* mutant: the index is written anew
PostIndexAnew(h) ==
  /\ h.op = "POST" /\ h.at = "index"
  /\ listed' = {h.endpoint}
  /\ Advance(h, [h EXCEPT !.at = "done"]) /\ UNCHANGED kv

PostReadsIndex(h) ==
  /\ h.op = "POST" /\ h.at = "stored"
  /\ Advance(h, [h EXCEPT !.at = "index", !.read = listed])
  /\ UNCHANGED <<kv, listed>>

PostIndex(h) ==
  /\ h.op = "POST" /\ h.at = "index"
  /\ listed' = IF h.endpoint \in h.read THEN listed ELSE h.read \cup {h.endpoint}
  /\ Advance(h, [h EXCEPT !.at = "done"]) /\ UNCHANGED kv

DeleteReadsIndex(h) ==
  /\ h.op = "DELETE" /\ h.at = "arrived"
  /\ Advance(h, [h EXCEPT !.at = "index", !.read = listed])
  /\ UNCHANGED <<kv, listed>>

\* The endpoints read go one by one, each with its await; read keeps those left.
DeleteEntry(h, e) ==
  /\ h.op = "DELETE" /\ h.at = "index" /\ e \in h.read
  /\ kv' = [kv EXCEPT ![e] = NoEntry]
  /\ Advance(h, [h EXCEPT !.read = @ \ {e}]) /\ UNCHANGED listed

DeleteIndex(h) ==
  /\ h.op = "DELETE" /\ h.at = "index" /\ h.read = {}
  /\ listed' = {}
  /\ Advance(h, [h EXCEPT !.at = "done"]) /\ UNCHANGED kv

\* The answer leaves.
Answer(h) ==
  /\ h.at = "done" /\ handlers' = handlers \ {h}
  /\ UNCHANGED <<kv, listed>>

Handle(h) ==
  /\ \/ PostEntry(h) \/ PostReadsIndex(h) \/ PostIndex(h) \/ Answer(h)
     \/ DeleteReadsIndex(h) \/ DeleteIndex(h)
     \/ \E e \in Endpoints : DeleteEntry(h, e)
  /\ UNCHANGED <<stored, granted, copy, visible, browser, sent>>

\* GET: the listed endpoints whose entry is there.
Subscriptions == {e \in listed : kv[e] # NoEntry}

----------------------------------------------------------------------------

NotificationInit ==
  /\ stored \in [enabled : {FALSE}, prefs : {Default}, prompted : BOOLEAN]
  /\ granted \in {"default", "granted"}
  /\ copy = [c \in Components |-> IF c = "prompt" THEN Mount ELSE Away]
  /\ visible = (granted = "default" /\ ~stored.prompted)
  /\ browser = FALSE
  /\ kv = [e \in Endpoints |-> NoEntry] /\ listed = {} /\ handlers = {} /\ sent = 0

NotificationNext ==
  \/ EnablePrompt \/ DismissPrompt \/ EnablePush \/ HandleReset \/ Disable
  \/ OpenSettings \/ LeaveSettings
  \/ \E c \in Components : SyncSubscription(c)
  \/ \E p \in Prefs : HandleToggle(p) \/ OtherBrowserSaves(p)
  \/ \E h \in handlers : Handle(h)

NotificationSpec == NotificationInit /\ [][NotificationNext]_notificationVars

\* A save that no other request of the account overlapped leaves its endpoint where the
\* sender of pushes finds it, with the preferences it carried, and forgets no other.
LoneSaveIsListed ==
  \A h \in handlers :
    h.at = "done" /\ h.alone =>
      IF h.op = "POST"
      THEN h.endpoint \in Subscriptions /\ kv[h.endpoint] = h.prefs /\ h.read \subseteq listed
      ELSE Subscriptions = {}


=============================================================================
