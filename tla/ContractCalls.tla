---------------------------- MODULE ContractCalls ----------------------------
(***************************************************************************)
(* What the web client promises of the contract calls of one account,      *)
(* whatever its buttons, prompts, requests and polls do in between:        *)
(*                                                                         *)
(*   - the ledger executes only calls the user has made, each at most      *)
(*     once, and numbers them without a gap;                               *)
(*   - each call is answered at most once;                                 *)
(*   - it is told to have succeeded only after the ledger executed it with *)
(*     success;                                                            *)
(*   - a call told to be cancelled is never executed, before or after.     *)
(*                                                                         *)
(* Nothing is promised of a call told to have failed: it may have been     *)
(* executed, and may still be.                                             *)
(***************************************************************************)
EXTENDS Integers

CONSTANT Calls

VARIABLES
  made,    \* the calls the user has made
  count,   \* transactions of the account executed so far
  ledger,  \* what was executed: [call, number, result]
  told     \* told[c]: the answer the user was given

callVars == <<made, count, ledger, told>>

Results == {"SUCCESS", "FAILED"}
Answers == {"success", "failed", "cancelled"}

ExecutedCalls == {entry.call : entry \in ledger}

CallInit ==
  /\ made = {} /\ count = 0 /\ ledger = {}
  /\ told = [c \in Calls |-> "none"]

Make(c) ==
  /\ c \notin made
  /\ made' = made \cup {c}
  /\ UNCHANGED <<count, ledger, told>>

Execute(c, result) ==
  /\ c \in made \ ExecutedCalls /\ told[c] # "cancelled"
  /\ count' = count + 1
  /\ ledger' = ledger \cup {[call |-> c, number |-> count', result |-> result]}
  /\ UNCHANGED <<made, told>>

Tell(c, answer) ==
  /\ c \in made /\ told[c] = "none"
  /\ answer = "success" =>
       \E entry \in ledger : entry.call = c /\ entry.result = "SUCCESS"
  /\ answer = "cancelled" => c \notin ExecutedCalls
  /\ told' = [told EXCEPT ![c] = answer]
  /\ UNCHANGED <<made, count, ledger>>

CallNext ==
  \E c \in Calls :
    \/ Make(c)
    \/ \E result \in Results : Execute(c, result)
    \/ \E answer \in Answers : Tell(c, answer)

CallSpec == CallInit /\ [][CallNext]_callVars

=============================================================================
