----------------------------- MODULE WebSelections -----------------------------
(***************************************************************************)
(* The lists the web app keeps in localStorage: the pools to compare, the  *)
(* favourite pools and the saved filters (usePoolComparison,               *)
(* usePoolFavorites, useFilterPresets over useLocalStorage).  Every        *)
(* component that uses a list reads it once, when it is mounted, and then  *)
(* writes what it holds: nothing tells one component of another's write.   *)
(* A behaviour follows one of the three lists.                             *)
(***************************************************************************)
EXTENDS Integers, Sequences, FiniteSets, SequencesExt, Ranks

CONSTANTS
  Tabs,        \* tabs of the browser on the same storage
  Cards,       \* the pools with a card on the page of markets
  MaxSelected  \* POOL_COMPARISON_MAX (4), MAX_PRESETS (5)

VARIABLES
  list,        \* "compare", "favorites" or "presets"
  kept,        \* localStorage under its key
  screen,      \* per tab: the page it shows
  held         \* per tab: the copy of each mounted component

selectionVars == <<list, kept, screen, held>>

Screens == {"markets", "compare", "favorites", "dashboard"}

\* A card is a component with a copy of its own, and so is the page: the badge, the
\* preset bar, the comparison, the favourites page or the dashboard's card.
Page == 0
Mounted(s, stored) ==
  {Page} \cup CASE s = "markets" /\ list # "presets" -> Cards
                [] s = "favorites" /\ list = "favorites" -> ToSet(stored)
                [] OTHER -> {}

\* useLocalStorage reads the storage in its initial state.
Mount(s, stored) == [c \in Mounted(s, stored) |-> stored]

SelectionsInit ==
  /\ list \in {"compare", "favorites", "presets"}
  /\ kept = <<>>
  /\ screen = [t \in Tabs |-> "markets"]
  /\ held = [t \in Tabs |-> Mount("markets", <<>>)]

\* Navigation, a reload, or another page of the list.
Visit(t, s) ==
  /\ screen' = [screen EXCEPT ![t] = s]
  /\ held' = [held EXCEPT ![t] = Mount(s, kept)]
  /\ UNCHANGED <<list, kept>>

\* mutant: the list may be one too long
AtCapacityLate(ids) == Len(ids) > MaxSelected

\* setValue: the updater runs on the writer's own copy.
SetValue(t, c, value) ==
  /\ held' = [held EXCEPT ![t][c] = value]
  /\ kept' = value
  /\ UNCHANGED <<list, screen>>

AtCapacity(ids) == Len(ids) >= MaxSelected

Without(ids, p) == Filtered(ids, p)

\* Favourites are stored sorted.
Inserted(ids, p) == Ascending(ToSet(ids) \cup {p})

Compared(ids, p) ==
  IF Contains(ids, p) THEN Without(ids, p)
  ELSE IF AtCapacity(ids) THEN ids ELSE Append(ids, p)

Starred(ids, p) == IF Contains(ids, p) THEN Without(ids, p) ELSE Inserted(ids, p)

\* The checkbox of a card; it is disabled when the card's copy is full.
Tick(t, p) ==
  /\ list = "compare" /\ p \in DOMAIN held[t] /\ p # Page
  /\ Contains(held[t][p], p) \/ ~AtCapacity(held[t][p])
  /\ SetValue(t, p, Compared(held[t][p], p))

\* The star of a card.
Star(t, p) ==
  /\ list = "favorites" /\ p \in DOMAIN held[t] /\ p # Page
  /\ SetValue(t, p, Starred(held[t][p], p))

\* The star in the dashboard's list of favourites.
Unpin(t, p) ==
  /\ list = "favorites" /\ screen[t] = "dashboard" /\ Contains(held[t][Page], p)
  /\ SetValue(t, Page, Starred(held[t][Page], p))

\* The comparison shows its columns once two pools are selected.
Comparing(t) == list = "compare" /\ screen[t] = "compare" /\ Len(held[t][Page]) >= 2

RemoveColumn(t, p) ==
  /\ Comparing(t) /\ Contains(held[t][Page], p)
  /\ SetValue(t, Page, Without(held[t][Page], p))

\* removeValue.
ClearAll(t) == Comparing(t) /\ SetValue(t, Page, <<>>)

SavePreset(t, p) ==
  /\ list = "presets" /\ screen[t] = "markets"
  /\ ~Contains(held[t][Page], p) /\ ~Contains(kept, p)
  /\ ~AtCapacity(held[t][Page])
  /\ SetValue(t, Page, Append(held[t][Page], p))

DeletePreset(t, p) ==
  /\ list = "presets" /\ screen[t] = "markets" /\ Contains(held[t][Page], p)
  /\ SetValue(t, Page, Without(held[t][Page], p))

SelectionsNext ==
  \E t \in Tabs :
    \/ \E s \in Screens : Visit(t, s)
    \/ ClearAll(t)
    \/ \E p \in Cards :
         Tick(t, p) \/ Star(t, p) \/ Unpin(t, p) \/ RemoveColumn(t, p)
           \/ SavePreset(t, p) \/ DeletePreset(t, p)

SelectionsSpec == SelectionsInit /\ [][SelectionsNext]_selectionVars

\* Whatever stale copies tabs and cards write over each other, the stored list has
\* no pool twice, and the comparison and the presets stay within their limits.
ListsBounded ==
  /\ IsInjective(kept)
  /\ list # "favorites" => Len(kept) <= MaxSelected


=============================================================================
