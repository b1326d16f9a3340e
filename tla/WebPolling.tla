------------------------------ MODULE WebPolling ------------------------------
(***************************************************************************)
(* useVisibilityAwarePolling: one component polls while the document is    *)
(* visible and polling is enabled.  timeoutRef remembers one timer only,   *)
(* so that a poll ending beside another one leaves an armed timer that     *)
(* nothing can clear; it is counted in stray.                              *)
(*                                                                         *)
(* A callback that rejected would clear the flag and arm no timer.  None   *)
(* does: fetchMarkets, fetchActivity and fetchBets, the callbacks of the   *)
(* hook, handle their own failures.                                        *)
(***************************************************************************)
EXTENDS Integers

CONSTANT MaxPolls   \* bound: polls started beside callbacks and stray timers

VARIABLES
  visible,     \* external: the document is visible
  mounted,     \* the component is mounted
  enabled,     \* enabledRef
  runningRef,  \* the flag of the hook
  running,     \* callbacks in flight
  timer,       \* timeoutRef holds an armed timer
  stray        \* armed timers that timeoutRef no longer holds

pollVars == <<visible, mounted, enabled, runningRef, running, timer, stray>>

\* The component mounts and polls at once where the document is visible.
PollInit ==
  /\ visible \in BOOLEAN /\ mounted = TRUE /\ enabled = TRUE
  /\ runningRef = visible /\ running = IF visible THEN 1 ELSE 0
  /\ timer = FALSE /\ stray = 0

Room == running + stray < MaxPolls

\* runPoll up to the callback: the timer is cleared even when no poll follows.
RunPoll(wanted, strays) ==
  /\ timer' = FALSE /\ stray' = strays
  /\ IF wanted
     THEN runningRef' = TRUE /\ running' = running + 1
     ELSE UNCHANGED <<runningRef, running>>

NoPoll == UNCHANGED <<runningRef, running, stray>>

\* The callback has resolved: the next poll is scheduled if still wanted.
PollEnds ==
  /\ running > 0
  /\ runningRef' = FALSE /\ running' = running - 1
  /\ IF enabled /\ visible
     THEN timer' = TRUE /\ stray' = IF timer THEN stray + 1 ELSE stray
     ELSE UNCHANGED <<timer, stray>>
  /\ UNCHANGED <<visible, mounted, enabled>>

TimerFires == timer /\ RunPoll(enabled /\ visible, stray) /\ UNCHANGED <<visible, mounted, enabled>>

StrayFires ==
  /\ stray > 0 /\ RunPoll(enabled /\ visible, stray - 1)
  /\ UNCHANGED <<visible, mounted, enabled>>

\* mutant: coming back does not poll
ShowIdle ==
  /\ mounted /\ visible' = TRUE
  /\ NoPoll /\ UNCHANGED <<timer, mounted, enabled>>

\* handleVisibilityChange, on visibilitychange and on focus.
Hide ==
  /\ mounted /\ visible /\ visible' = FALSE
  /\ timer' = IF enabled THEN FALSE ELSE timer
  /\ NoPoll /\ UNCHANGED <<mounted, enabled>>

Show ==
  /\ mounted /\ visible' = TRUE
  /\ IF enabled /\ ~timer /\ ~runningRef
     THEN Room /\ RunPoll(TRUE, stray)
     ELSE NoPoll /\ UNCHANGED timer
  /\ UNCHANGED <<mounted, enabled>>

\* `enabled' follows its owner, for instance a connected address.
Enable ==
  /\ mounted /\ ~enabled /\ enabled' = TRUE
  /\ IF visible THEN Room /\ RunPoll(TRUE, stray) ELSE NoPoll /\ UNCHANGED timer
  /\ UNCHANGED <<visible, mounted>>

Disable ==
  /\ mounted /\ enabled /\ enabled' = FALSE
  /\ timer' = FALSE
  /\ NoPoll /\ UNCHANGED <<visible, mounted>>

\* The effect's cleanup leaves enabledRef as it was.
Unmount ==
  /\ mounted /\ mounted' = FALSE /\ timer' = FALSE
  /\ NoPoll /\ UNCHANGED <<visible, enabled>>

PollNext ==
  \/ PollEnds \/ TimerFires \/ StrayFires
  \/ Hide \/ Show \/ Enable \/ Disable \/ Unmount

PollSpec == PollInit /\ [][PollNext]_pollVars

\* A component that is visible and enabled always has a poll under way or a timer
\* armed, whatever hiding, focusing, disabling and overlapping polls have done before:
\* it never stops polling for good.
PollingAlive ==
  mounted /\ enabled /\ visible => running > 0 \/ timer \/ stray > 0

=============================================================================
