------------------------------- MODULE WebRetry -------------------------------
(***************************************************************************)
(* fetchHorizon: withRetry around a request that holds a permit of the     *)
(* shared HorizonRateLimiter, under a CircuitBreaker when one is given.    *)
(*                                                                         *)
(* Tick is the limiter's minimum interval passing.  acquire reads the      *)
(* counter and the time of the last request, sleeps what is left of the    *)
(* interval, and only then counts the request.                             *)
(***************************************************************************)
EXTENDS Integers, Sequences, FiniteSets

CONSTANTS
  Requests,          \* callers of fetchHorizon
  MaxConcurrent,     \* permits of the limiter (5)
  MaxAttempts,       \* attempts of withRetry (4)
  FailureThreshold,  \* failures that open the breaker (5)
  UsesBreaker        \* whether the callers pass a breaker

VARIABLES
  req,      \* req[r]: step, attempt and answer of the request
  active,   \* activeRequests
  queue,    \* callers waiting for a permit
  recent,   \* the last request is less than the interval ago
  breaker   \* state, consecutiveFailures, and whether resetTimeoutMs has passed

retryVars == <<req, active, queue, recent, breaker>>

Closed == [state |-> "CLOSED", failures |-> 0, cool |-> FALSE]
NotCalled == [pc |-> "idle", attempt |-> 0]

RetryInit ==
  /\ req = [r \in Requests |-> NotCalled]
  /\ active = 0 /\ queue = <<>> /\ recent = FALSE
  /\ breaker = Closed

(***************************************************************************)
(* CircuitBreaker.  getState turns OPEN into HALF_OPEN once the reset time *)
(* has passed; HALF_OPEN keeps the failure count.  Failures are counted up *)
(* to the threshold.                                                       *)
(***************************************************************************)
getState(b) == IF b.state = "OPEN" /\ b.cool THEN [b EXCEPT !.state = "HALF_OPEN"] ELSE b
canExecute(b) == ~UsesBreaker \/ getState(b).state # "OPEN"
onSuccess(b) == IF UsesBreaker THEN Closed ELSE b
onFailure(b) ==
  IF ~UsesBreaker THEN b
  ELSE IF b.failures + 1 >= FailureThreshold
       THEN [state |-> "OPEN", failures |-> FailureThreshold,
             cool |-> b.state = "OPEN" /\ b.cool]
       ELSE [b EXCEPT !.failures = @ + 1]

(***************************************************************************)
(* acquire and release.                                                    *)
(***************************************************************************)
At(r, pc) == req' = [req EXCEPT ![r].pc = pc]

Sending == {r \in Requests : req[r].pc = "sending"}

\* The part of acquire after the wait for a permit.
TakePermit(r) ==
  IF recent
  THEN At(r, "interval") /\ UNCHANGED <<active, recent>>
  ELSE At(r, "sending") /\ active' = active + 1 /\ recent' = TRUE

acquire(r) ==
  IF active >= MaxConcurrent
  THEN At(r, "queued") /\ queue' = Append(queue, r) /\ UNCHANGED <<active, recent>>
  ELSE TakePermit(r) /\ UNCHANGED queue

\* withRetry is called: it fails fast on an open breaker, else the first attempt
\* asks for a permit.
FetchHorizon(r) ==
  /\ req[r].pc = "idle"
  /\ breaker' = IF UsesBreaker THEN getState(breaker) ELSE breaker
  /\ IF canExecute(breaker) THEN acquire(r)
     ELSE At(r, "failed") /\ UNCHANGED <<active, queue, recent>>

Woken(r) == req[r].pc = "woken" /\ TakePermit(r) /\ UNCHANGED <<queue, breaker>>

\* The sleep is over: nothing is read again.
IntervalOver(r) ==
  /\ req[r].pc = "due"
  /\ At(r, "sending") /\ active' = active + 1 /\ recent' = TRUE
  /\ UNCHANGED <<queue, breaker>>

\* mutant: nobody is woken
releaseUnheard(r, pc) ==
  /\ active' = IF active > 0 THEN active - 1 ELSE 0
  /\ At(r, pc) /\ UNCHANGED queue

\* release, and what the request becomes: pc[r].
release(r, pc) ==
  /\ active' = IF active > 0 THEN active - 1 ELSE 0
  /\ IF queue = <<>>
     THEN At(r, pc) /\ UNCHANGED queue
     ELSE /\ req' = [req EXCEPT ![r].pc = pc, ![Head(queue)].pc = "woken"]
          /\ queue' = Tail(queue)

\* The answer: a status below 500 other than 429 is returned.
Response(r) ==
  /\ req[r].pc = "sending"
  /\ release(r, "done")
  /\ breaker' = onSuccess(breaker)
  /\ UNCHANGED recent

\* 429 (its Retry-After is slept with the permit held), 5xx or no answer: every
\* error is transient, so that only the attempts and the breaker end the call.
LastAttempt(r) == req[r].attempt + 1 = MaxAttempts

Failure(r) ==
  /\ req[r].pc = "sending"
  /\ LET b == onFailure(breaker)
     IN  /\ breaker' = IF LastAttempt(r) \/ ~UsesBreaker THEN b ELSE getState(b)
         /\ release(r, IF LastAttempt(r) \/ ~canExecute(b) THEN "failed" ELSE "backoff")
  /\ UNCHANGED recent

\* The backoff delay (anything from 0 to its cap) is over: the breaker is not
\* asked again.
Retry(r) ==
  /\ req[r].pc = "backoff"
  /\ LET next == [req EXCEPT ![r].attempt = @ + 1]
     IN  IF active >= MaxConcurrent
         THEN /\ req' = [next EXCEPT ![r].pc = "queued"] /\ queue' = Append(queue, r)
              /\ UNCHANGED <<active, recent>>
         ELSE IF recent
         THEN req' = [next EXCEPT ![r].pc = "interval"] /\ UNCHANGED <<active, queue, recent>>
         ELSE /\ req' = [next EXCEPT ![r].pc = "sending"]
              /\ active' = active + 1 /\ recent' = TRUE /\ UNCHANGED queue
  /\ UNCHANGED breaker

Tick ==
  /\ recent /\ recent' = FALSE
  /\ req' = [r \in Requests |->
               IF req[r].pc = "interval" THEN [req[r] EXCEPT !.pc = "due"] ELSE req[r]]
  /\ UNCHANGED <<active, queue, breaker>>

\* The breaker's reset time passes.
Cool ==
  /\ breaker.state = "OPEN" /\ ~breaker.cool
  /\ breaker' = [breaker EXCEPT !.cool = TRUE]
  /\ UNCHANGED <<req, active, queue, recent>>

Progress(r) == Woken(r) \/ IntervalOver(r) \/ Response(r) \/ Failure(r) \/ Retry(r)

RetryNext ==
  \/ \E r \in Requests : FetchHorizon(r) \/ Progress(r)
  \/ Tick \/ Cool

RetrySpec == RetryInit /\ [][RetryNext]_retryVars

\* Requests are answered one way or the other, and time passes.
RetryFairSpec ==
  RetrySpec /\ WF_retryVars(Tick) /\ \A r \in Requests : WF_retryVars(Progress(r))

(***************************************************************************)
(* Properties.                                                             *)
(***************************************************************************)
\* Every request ends, with an answer or an error: no release loses the wake-up
\* of a queued caller, and no path ends a request without giving its permit back.
RequestsWaiting == \E r \in Requests : req[r].pc \notin {"idle", "done", "failed"}
EveryRequestEnds == RequestsWaiting ~> ~RequestsWaiting

=============================================================================
