------------------------------ MODULE WebAddress ------------------------------
(***************************************************************************)
(* The filters of the pages that browse markets and the address bar.  The  *)
(* page of markets keeps its filters in state and mirrors them with        *)
(* router.replace, its search box passing through a debounce; the page of  *)
(* pools reads its filters from the address, its box being the only state. *)
(*                                                                         *)
(* A filter is a search text and the rest.  A navigation is a transition:  *)
(* a later one supersedes it, and the page renders when it commits.        *)
(***************************************************************************)
EXTENDS Integers

CONSTANTS
  Texts,  \* what may be typed
  Rests   \* the other filters: status, asset, volumes, time range, sort

VARIABLES
  at,       \* "/markets" or "/pools"
  url,      \* the filters of the committed address
  going,    \* those of the navigation under way, or Nowhere
  filters,  \* useMarketDiscovery's filters (/markets)
  box,      \* SearchBar's localValue, or searchInput (/pools)
  debounce, \* SearchBar's timer is armed
  pools     \* /pools: what its body shows

addressVars == <<at, url, going, filters, box, debounce, pools>>

Nowhere == [search |-> "", rest |-> "nowhere"]

\* External: String.trim.
Trim(text) == IF text = "a " THEN "a" ELSE text

DefaultFilters == [search |-> "", rest |-> "all"]
Filters == [search : {Trim(t) : t \in Texts}, rest : Rests]

\* A link may carry filters; the hook starts from them.
AddressInit ==
  /\ at \in {"/markets", "/pools"}
  /\ url \in Filters /\ filters = url /\ box = url.search
  /\ going = Nowhere
  /\ debounce = (at = "/markets")
  /\ pools \in {"loading", "shown"}

\* The effect that mirrors the filters; nothing is replaced when the address has them.
Mirrored(f) == IF f # url THEN f ELSE going

\* A change of the filters renders the page: the box follows when their text changes,
\* which arms its timer.
SetFilters(f) ==
  /\ filters' = f /\ going' = Mirrored(f)
  /\ box' = IF f.search # filters.search THEN f.search ELSE box

UpdateFilters(patch) ==
  /\ at = "/markets"
  /\ SetFilters(patch)
  /\ debounce' = (debounce \/ box' # box)
  /\ UNCHANGED <<at, url, pools>>

SetRest(r) == UpdateFilters([filters EXCEPT !.rest = r])

\* The button is disabled while no filter is active.
ResetFilters == filters # DefaultFilters /\ UpdateFilters(DefaultFilters)

ApplyPreset(f) == UpdateFilters(f)

TypeText(t) ==
  /\ at = "/markets" /\ box # t
  /\ box' = t /\ debounce' = TRUE
  /\ UNCHANGED <<at, url, going, filters, pools>>

\* The timer of the box: onChange(localValue).
Debounced ==
  /\ at = "/markets" /\ debounce
  /\ SetFilters([filters EXCEPT !.search = Trim(box)])
  /\ debounce' = (box' # box)
  /\ UNCHANGED <<at, url, pools>>

ClearBox ==
  /\ at = "/markets" /\ box # ""
  /\ filters' = [filters EXCEPT !.search = ""] /\ going' = Mirrored(filters')
  /\ box' = "" /\ debounce' = TRUE
  /\ UNCHANGED <<at, url, pools>>

\* The navigation commits.  On the page of markets one effect takes the address's
\* filters and the next still mirrors those of the render before.
Commit ==
  /\ going # Nowhere
  /\ url' = going
  /\ IF at = "/markets"
     THEN /\ filters' = going
          /\ going' = IF filters # going THEN filters ELSE Nowhere
          /\ box' = IF going.search # filters.search THEN going.search ELSE box
          /\ debounce' = (debounce \/ box' # box)
     ELSE /\ filters' = going /\ going' = Nowhere
          /\ box' = IF going.search # url.search THEN going.search ELSE box
          /\ UNCHANGED debounce
  /\ UNCHANGED <<at, pools>>

\* A link of the navigation bar, or the browser's buttons.
FollowLink(f) ==
  /\ f # url /\ going' = f
  /\ UNCHANGED <<at, url, filters, box, debounce, pools>>

\* The page of pools: syncFiltersToUrl patches the filters of the committed address.
SyncPools(f) ==
  /\ at = "/pools" /\ going' = Mirrored(f)
  /\ UNCHANGED <<at, url, filters, debounce, pools>>

CommitSearch(t) == box' = t /\ SyncPools([url EXCEPT !.search = Trim(t)])

SetStatus(r) == SyncPools([url EXCEPT !.rest = r]) /\ UNCHANGED box

ClearFilters ==
  /\ at = "/pools" /\ url # DefaultFilters
  /\ box' = "" /\ going' = DefaultFilters
  /\ UNCHANGED <<at, url, filters, debounce, pools>>

\* load(): the list is asked once, and again by the button of the error.
Loaded ==
  /\ at = "/pools" /\ pools \in {"loading", "shown"}
  /\ pools' \in {"shown", "error"}
  /\ UNCHANGED <<at, url, going, filters, box, debounce>>

RetryPools ==
  /\ at = "/pools" /\ pools = "error" /\ pools' = "loading"
  /\ UNCHANGED <<at, url, going, filters, box, debounce>>

AddressNext ==
  \/ ResetFilters \/ Debounced \/ ClearBox \/ Commit \/ ClearFilters \/ Loaded \/ RetryPools
  \/ \E r \in Rests : SetRest(r) \/ SetStatus(r)
  \/ \E t \in Texts : TypeText(t) \/ CommitSearch(t)
  \/ \E f \in Filters : ApplyPreset(f) \/ FollowLink(f)

AddressSpec == AddressInit /\ [][AddressNext]_addressVars

\* On the page of markets, once no navigation and no timer is pending, the address,
\* the filters and the text of the box agree, however edits, presets, resets, links
\* and the debounce overlapped.
AddressMirrorsFilters ==
  at = "/markets" /\ going = Nowhere /\ ~debounce =>
    url = filters /\ Trim(box) = filters.search


=============================================================================
