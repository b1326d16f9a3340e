------------------------------ MODULE BotService ------------------------------
(***************************************************************************)
(* The process around the settlement bot: loadConfig, the health server,   *)
(* the loop of cycles and sleeps, the delivery of each cycle's webhook     *)
(* with its retries and dead letters, and the shutdown.  What a cycle does *)
(* to the pools is SettlementBot's; here it ends with something to         *)
(* announce, without, or with an error.                                    *)
(***************************************************************************)
EXTENDS Integers, FiniteSets

CONSTANTS
  WebhookMaxRetries,  \* WEBHOOK_MAX_RETRIES
  MaxCycles           \* bound on the cycles run

\* external: the environment variables, by what loadConfig tells apart.
Environments ==
  [required : {"set", "missing"}, network : {"testnet", "mainnet", "other"},
   numbers : {"positive", "not"}, settleBatchSize : {0, 50, 51},
   defaultOutcome : {-1, 0, 2}, webhook : {"none", "url", "not a url"},
   webhookSecret : {"none", "short", "long"}, health : BOOLEAN]

VARIABLES
  env, process,   \* "starting", "up", "exiting" (200 ms to live), "gone"
  poller,         \* running, what the loop does, cycles begun
  server,         \* the health server: "off", "listening", "closing", "closed"
  requests,       \* health requests being answered, at most one
  attempt,        \* attempts made at the webhook of this cycle
  webhooks        \* history, cycles: received, given up, dead-lettered, unrecorded

serviceVars == <<env, process, poller, server, requests, attempt, webhooks>>

\* loadConfig: the first violated condition exits.
Accepted(e) ==
  /\ e.required = "set" /\ e.network # "other" /\ e.numbers = "positive"
  /\ e.settleBatchSize \in 1 .. 50 /\ e.defaultOutcome >= 0
  /\ e.webhook # "not a url" /\ e.webhookSecret # "short"

ServiceInit ==
  /\ env \in {e \in Environments : Accepted(e) \/ e.health}
  /\ process = "starting"
  /\ poller = [running |-> FALSE, does |-> "nothing", cycles |-> 0]
  /\ server = "off" /\ requests = 0 /\ attempt = 0
  /\ webhooks = [received |-> {}, givenUp |-> {}, dead |-> {}, unrecorded |-> {}]

Exit == process' = "gone" /\ UNCHANGED <<env, poller, server, requests, attempt, webhooks>>

\* main until the loop runs; the port of the health server may be taken.
Main ==
  /\ process = "starting"
  /\ \/ ~Accepted(env) /\ Exit
     \/ Accepted(env) /\ env.health /\ Exit
     \/ /\ Accepted(env) /\ process' = "up"
        /\ server' = IF env.health THEN "listening" ELSE "off"
        /\ poller' = [running |-> TRUE, does |-> "cycle", cycles |-> 1]
        /\ UNCHANGED <<env, requests, attempt, webhooks>>

Loop(does) == poller' = [poller EXCEPT !.does = does]

\* The end of a cycle: the loop sleeps, or returns and main exits.
Rest ==
  IF poller.running THEN Loop("sleep") /\ UNCHANGED process
  ELSE Loop("nothing") /\ process' = "gone"

CycleDone(announces) ==
  /\ process # "gone" /\ poller.does = "cycle"
  /\ IF announces /\ env.webhook = "url"
     THEN Loop("notify") /\ attempt' = 1 /\ UNCHANGED process
     ELSE Rest /\ UNCHANGED attempt
  /\ UNCHANGED <<env, server, requests, webhooks>>

(***************************************************************************)
(* notify: an attempt is received or not; independently of that, the       *)
(* answer is good, bad for good (4xx), or an error, a 5xx or a timeout.    *)
(***************************************************************************)
Received(yes) == IF yes THEN webhooks.received \cup {poller.cycles} ELSE webhooks.received

Delivered ==
  /\ process # "gone" /\ poller.does = "notify"
  /\ webhooks' = [webhooks EXCEPT !.received = Received(TRUE)]
  /\ attempt' = 0 /\ Rest
  /\ UNCHANGED <<env, server, requests>>

\* mutant: the dead letter is only written when the last answer was an error
GiveUpUnrefused(received, refused, written) ==
  /\ refused \/ attempt > WebhookMaxRetries
  /\ webhooks' = [received |-> Received(received), givenUp |-> webhooks.givenUp \cup {poller.cycles},
                  dead |-> IF written /\ ~refused THEN webhooks.dead \cup {poller.cycles} ELSE webhooks.dead,
                  unrecorded |-> IF written THEN webhooks.unrecorded
                                 ELSE webhooks.unrecorded \cup {poller.cycles}]
  /\ attempt' = 0 /\ Rest
  /\ UNCHANGED <<env, server, requests>>

\* persistDeadLetter may fail, and then only logs.
GiveUp(received, refused, written) ==
  /\ refused \/ attempt > WebhookMaxRetries
  /\ webhooks' = [received |-> Received(received), givenUp |-> webhooks.givenUp \cup {poller.cycles},
                  dead |-> IF written THEN webhooks.dead \cup {poller.cycles} ELSE webhooks.dead,
                  unrecorded |-> IF written THEN webhooks.unrecorded
                                 ELSE webhooks.unrecorded \cup {poller.cycles}]
  /\ attempt' = 0 /\ Rest
  /\ UNCHANGED <<env, server, requests>>

AttemptFails(received, refused) ==
  /\ process # "gone" /\ poller.does = "notify"
  /\ \/ \E written \in BOOLEAN : GiveUp(received, refused, written)
     \/ /\ ~refused /\ attempt <= WebhookMaxRetries
        /\ attempt' = attempt + 1
        /\ webhooks' = [webhooks EXCEPT !.received = Received(received)]
        /\ UNCHANGED <<env, process, poller, server, requests>>

\* The timer of the sleep fires.
Wake ==
  /\ process # "gone" /\ poller.does = "sleep" /\ poller.running /\ poller.cycles < MaxCycles
  /\ poller' = [poller EXCEPT !.does = "cycle", !.cycles = @ + 1]
  /\ UNCHANGED <<env, process, server, requests, attempt, webhooks>>

\* mutant: the health server stays open
ShutdownServing ==
  /\ process = "up" /\ poller.running
  /\ poller' = [poller EXCEPT !.running = FALSE]
  /\ UNCHANGED <<env, process, server, requests, attempt, webhooks>>

\* SIGINT or SIGTERM: stop() clears the timer of a sleep, whose promise is then
\* never settled, and aborts the cycle; the server closes once idle.
Shutdown ==
  /\ process = "up" /\ poller.running
  /\ poller' = [poller EXCEPT !.running = FALSE]
  /\ server' = IF server = "listening" THEN "closing" ELSE server
  /\ UNCHANGED <<env, process, requests, attempt, webhooks>>

ServerClosed ==
  /\ process # "gone" /\ server = "closing" /\ requests = 0 /\ server' = "closed"
  /\ UNCHANGED <<env, process, poller, requests, attempt, webhooks>>

\* With no timer, no request and no socket left, the event loop is empty.
EventLoopEmpty ==
  /\ process = "up" /\ poller.does = "sleep" /\ ~poller.running
  /\ server \in {"off", "closed"}
  /\ Exit

\* The health endpoints: /health/ready waits for the RPC server.
HealthRequest ==
  /\ process # "gone" /\ server = "listening" /\ requests = 0 /\ requests' = 1
  /\ UNCHANGED <<env, process, poller, server, attempt, webhooks>>

HealthAnswer ==
  /\ process # "gone" /\ requests > 0 /\ requests' = requests - 1
  /\ UNCHANGED <<env, process, poller, server, attempt, webhooks>>

\* An uncaught exception or rejection; 200 ms later the process is gone.
Uncaught ==
  /\ process = "up" /\ process' = "exiting"
  /\ UNCHANGED <<env, poller, server, requests, attempt, webhooks>>

Killed == process = "exiting" /\ Exit

ServiceNext ==
  \/ Main \/ Delivered \/ Wake \/ Shutdown \/ ServerClosed \/ EventLoopEmpty
  \/ HealthRequest \/ HealthAnswer \/ Uncaught \/ Killed
  \/ \E b \in BOOLEAN : CycleDone(b)
  \/ \E received, refused \in BOOLEAN : AttemptFails(received, refused)

\* Calls end: cycles and webhook attempts have bounded retries and timeouts, health
\* requests are answered, and Node ends a process that has nothing left to wait for.
LoopGoesOn ==
  Main \/ (\E b \in BOOLEAN : CycleDone(b)) \/ Delivered
    \/ (\E received, refused \in BOOLEAN : AttemptFails(received, refused))
ServerGoesOn == HealthAnswer \/ ServerClosed
ProcessGoes == EventLoopEmpty \/ Killed

ServiceFairness ==
  WF_serviceVars(LoopGoesOn) /\ WF_serviceVars(ServerGoesOn) /\ WF_serviceVars(ProcessGoes)

ServiceSpec == ServiceInit /\ [][ServiceNext]_serviceVars /\ ServiceFairness

(***************************************************************************)
(* A notice that was given up is in the dead-letter file, unless the file  *)
(* could not be written, and no cycle before the present one has its       *)
(* delivery still open: the attempts of two cycles never overlap.          *)
(***************************************************************************)
NoticesKept ==
  /\ webhooks.givenUp \subseteq webhooks.dead \cup webhooks.unrecorded
  /\ attempt > 0 => poller.does = "notify" /\ poller.cycles \notin webhooks.givenUp

(***************************************************************************)
(* A signal ends the process, whether it finds the loop in a cycle, in the *)
(* retries of a webhook or in a sleep whose timer it clears, and whatever  *)
(* health requests are open.                                               *)
(***************************************************************************)
Stopping == process = "up" /\ ~poller.running
ShutdownEnds == Stopping ~> process = "gone"

=============================================================================
