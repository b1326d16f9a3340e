------------------------------- MODULE WebCreate -------------------------------
(***************************************************************************)
(* The two ways to create a pool: the wizard (create/page, useCreateWizard *)
(* and its five steps) and the single form (CreatePoolForm), up to the     *)
(* call of create_multi_outcome_pool and its answer.  What a field may     *)
(* hold comes from the validators; what the contract accepts, from         *)
(* create_pool_internal.                                                   *)
(*                                                                         *)
(* A text is its number of characters, its number of bytes, and whether it *)
(* is only white space; a label also has the key that is left when it is   *)
(* trimmed and put in lower case.                                          *)
(***************************************************************************)
EXTENDS Integers, Sequences, SequencesExt, FiniteSetsExt

CONSTANTS
  Titles, Descriptions, Labels,        \* texts that may be typed
  Durations, Deadlines, Fees, Deposits, \* numbers that may be typed; 0 is no number
  MaxOutcomes,                         \* MAX_OUTCOMES (10)
  Templates,   \* public templates: title, description, outcomes, duration
  MetadataSize \* characters the form adds to the description

VARIABLES
  surface,   \* "wizard" or "form"
  draft,     \* the fields; the wizard's are kept in localStorage
  step,      \* of the wizard, 1 to 5
  deepLink,  \* template named in the address: none, waiting, done
  submission \* stage of the call, and what it submits

createVars == <<surface, draft, step, deepLink, submission>>

NoText == [chars |-> 0, bytes |-> 0, blank |-> TRUE]
NoLabel == [chars |-> 0, bytes |-> 0, key |-> ""]
MinDuration == 300
MaxDuration == 1000000
MaxTitle == 100
MaxDescription == 1000
MaxLabel == 50

EmptyDraft == [title |-> NoText, description |-> NoText, outcomes |-> <<NoLabel, NoLabel>>,
               duration |-> 0, deadline |-> 0, fee |-> 200, deposit |-> 0]

(***************************************************************************)
(* Validators.                                                             *)
(***************************************************************************)
validatePoolTitle(t) == ~t.blank /\ t.chars \in 5 .. MaxTitle
validatePoolDescription(t) == ~t.blank /\ t.chars \in 10 .. MaxDescription
validateOutcome(o) == o.key # "" /\ o.chars \in 2 .. MaxLabel
validateDuration(n) == n \in MinDuration .. MaxDuration
validateDepositDeadline(n, duration) == n >= MinDuration /\ n < duration
validateProtocolFeeBps(n) == n \in 0 .. 1000
\* Tenths of the asset: at least 0.1, at most 1 000 000.
validateDepositAmount(n) == n \in 1 .. 10000000

\* Between two and MaxOutcomes labels, each valid and different from those before it.
validateOutcomesList(os) ==
  /\ Len(os) \in 2 .. MaxOutcomes
  /\ \A i \in DOMAIN os : validateOutcome(os[i])
  /\ \A i, j \in DOMAIN os : os[i].key = os[j].key => i = j

Checks(d) ==
  [title |-> validatePoolTitle(d.title), description |-> validatePoolDescription(d.description),
   outcomes |-> validateOutcomesList(d.outcomes), duration |-> validateDuration(d.duration),
   deadline |-> validateDepositDeadline(d.deadline, d.duration),
   fee |-> validateProtocolFeeBps(d.fee), deposit |-> validateDepositAmount(d.deposit)]

WizardFields == {"title", "description", "outcomes", "duration", "deadline", "fee"}
FormFields == {"title", "description", "outcomes", "duration", "deposit"}
Bad(d, fields) == {f \in fields : ~Checks(d)[f]}

StepFields == <<{}, {"title", "description"}, {"outcomes"}, {"duration", "deadline", "fee"}, {}>>
BadSteps(d) == {s \in 1 .. 5 : Bad(d, StepFields[s]) # {}}

Idle == [stage |-> "idle", sent |-> EmptyDraft, from |-> "none"]
Busy == submission.stage # "idle"

CreateInit ==
  /\ surface \in {"wizard", "form"}
  /\ draft = EmptyDraft /\ step = 1
  /\ deepLink \in IF surface = "wizard" THEN {"none", "waiting"} ELSE {"none"}
  /\ submission = Idle

(***************************************************************************)
(* The wizard.  Every step shows its own fields only.                      *)
(***************************************************************************)
OnStep(k) == surface = "wizard" /\ step = k

\* setField, setOutcome.  The errors the wizard shows beside its fields, and which
\* of them were decide nothing and are left out.
Edited(d) ==
  /\ draft' = d
  /\ UNCHANGED <<surface, step, deepLink, submission>>

EditBasics ==
  /\ OnStep(2)
  /\ \/ \E t \in Titles : Edited([draft EXCEPT !.title = t])
     \/ \E t \in Descriptions : Edited([draft EXCEPT !.description = t])

EditParameters ==
  /\ OnStep(4)
  /\ \/ \E n \in Durations : Edited([draft EXCEPT !.duration = n])
     \/ \E n \in Deadlines : Edited([draft EXCEPT !.deadline = n])
     \/ \E n \in Fees : Edited([draft EXCEPT !.fee = n])

EditOutcomes ==
  /\ OnStep(3)
  /\ \E i \in DOMAIN draft.outcomes, o \in Labels :
       Edited([draft EXCEPT !.outcomes[i] = o])

AddOutcome ==
  /\ OnStep(3) /\ Len(draft.outcomes) < MaxOutcomes
  /\ draft' = [draft EXCEPT !.outcomes = Append(@, NoLabel)]
  /\ UNCHANGED <<surface, step, deepLink, submission>>

RemoveOutcome(i) ==
  /\ OnStep(3) /\ Len(draft.outcomes) > 2 /\ i \in DOMAIN draft.outcomes
  /\ draft' = [draft EXCEPT !.outcomes = RemoveAt(@, i)]
  /\ UNCHANGED <<surface, step, deepLink, submission>>

\* mutant: a jump ahead checks only the step that is left
goToUnchecked(k) == IF k <= step THEN k ELSE IF step \in BadSteps(draft) THEN step ELSE k

\* goTo: back at once; ahead through the checks of every step on the way.
goTo(k) ==
  LET bad == {s \in BadSteps(draft) : s < k}
  IN  IF k <= step \/ bad = {} THEN k ELSE Min(bad)

\* StepIndicator.
Jump(k) ==
  /\ surface = "wizard" /\ step' = goTo(k)
  /\ UNCHANGED <<surface, draft, deepLink, submission>>

\* The Edit links of StepReview.
ReviewEdit(k) == k < 5 /\ OnStep(5) /\ Jump(k)

NextStep ==
  /\ surface = "wizard" /\ step < 5 /\ ~Busy
  /\ step' = IF step \in BadSteps(draft) THEN step ELSE step + 1
  /\ UNCHANGED <<surface, draft, deepLink, submission>>

PrevStep ==
  /\ surface = "wizard" /\ step > 1 /\ ~Busy /\ step' = step - 1
  /\ UNCHANGED <<surface, draft, deepLink, submission>>

ClearDraft ==
  /\ surface = "wizard" /\ ~Busy
  /\ draft' = EmptyDraft /\ step' = 1
  /\ UNCHANGED <<surface, deepLink, submission>>

\* selectTemplate with a seed.
Seeded(t, deadline) ==
  /\ draft' = [draft EXCEPT !.title = t.title, !.description = t.description,
                            !.outcomes = t.outcomes, !.duration = t.duration, !.deadline = deadline]

\* The blank template keeps what was typed.
SelectTemplate(t) ==
  /\ OnStep(1)
  /\ Seeded(t, Max({MinDuration, (t.duration * 4) \div 5}))
  /\ UNCHANGED <<surface, step, deepLink, submission>>

LinkedTemplate(t) == Seeded(t, Min({t.duration - 60, t.duration \div 2}))

\* The template of the address arrives, or is not found.  The effect is run anew
\* after every change of the draft or the step, so it seeds what is there now.
DeepLinkArrives ==
  /\ deepLink = "waiting" /\ deepLink' = "done"
  /\ \/ \E t \in Templates : LinkedTemplate(t) /\ step' = 2
     \/ UNCHANGED <<draft, step>>
  /\ UNCHANGED <<surface, submission>>

\* The page is loaded again: the wizard's draft is in localStorage, and a link in
\* the address is followed once more, over what was typed since.
ReloadCreate ==
  /\ draft' = IF surface = "wizard" THEN draft ELSE EmptyDraft
  /\ step' = 1 /\ submission' = Idle
  /\ deepLink' = IF deepLink = "none" THEN "none" ELSE "waiting"
  /\ UNCHANGED surface

(***************************************************************************)
(* The single form.                                                        *)
(***************************************************************************)
Typed(d) ==
  /\ surface = "form" /\ draft' = d
  /\ UNCHANGED <<surface, step, deepLink, submission>>

EditName == \E t \in Titles : Typed([draft EXCEPT !.title = t])
EditDescription == \E t \in Descriptions : Typed([draft EXCEPT !.description = t])
EditDeposit == \E n \in Deposits : Typed([draft EXCEPT !.deposit = n])
EditExpiry == \E n \in Durations : Typed([draft EXCEPT !.duration = n])

EditFormOutcomes ==
  \/ \E i \in DOMAIN draft.outcomes, o \in Labels : Typed([draft EXCEPT !.outcomes[i] = o])
  \/ Len(draft.outcomes) < MaxOutcomes /\ Typed([draft EXCEPT !.outcomes = Append(@, NoLabel)])
  \/ /\ Len(draft.outcomes) > 2
     /\ \E i \in DOMAIN draft.outcomes : Typed([draft EXCEPT !.outcomes = RemoveAt(@, i)])

ClearForm ==
  /\ surface = "form" /\ ~Busy /\ draft' = EmptyDraft
  /\ UNCHANGED <<surface, step, deepLink, submission>>

(***************************************************************************)
(* The call.                                                               *)
(***************************************************************************)
SubmitWizard ==
  /\ OnStep(5) /\ ~Busy
  /\ submission' = IF Bad(draft, WizardFields) = {}
                   THEN [stage |-> "simulating", sent |-> draft, from |-> "wizard"]
                   ELSE submission
  /\ UNCHANGED <<surface, draft, step, deepLink>>

SubmitForm ==
  /\ surface = "form" /\ ~Busy
  /\ submission' = IF Bad(draft, FormFields) = {}
                   THEN [stage |-> "simulating", sent |-> draft, from |-> "form"]
                   ELSE submission
  /\ UNCHANGED <<surface, draft, step, deepLink>>

Trimmed(os) == [i \in DOMAIN os |-> os[i].key]

\* composePoolDescription: the form puts asset, deposit and expiry after the text.
DescriptionBytes(s) == s.sent.description.bytes + (IF s.from = "form" THEN MetadataSize ELSE 0)

\* The contract's own limits.
MIN_POOL_DURATION_SECS == 300
MAX_POOL_DURATION_SECS == 31536000

\* create_pool_internal on the texts, the labels and the duration.
FieldsAccepted(s) ==
  /\ s.sent.title.bytes \in 1 .. MaxTitle /\ ~s.sent.title.blank
  /\ DescriptionBytes(s) \in 1 .. MaxDescription /\ ~s.sent.description.blank
  /\ Len(s.sent.outcomes) \in 2 .. 20
  /\ \A i \in DOMAIN s.sent.outcomes : s.sent.outcomes[i].key # "" /\ s.sent.outcomes[i].bytes <= MaxLabel
  /\ \A i, j \in DOMAIN s.sent.outcomes : Trimmed(s.sent.outcomes)[i] = Trimmed(s.sent.outcomes)[j] => i = j
  /\ s.sent.duration \in MIN_POOL_DURATION_SECS .. MAX_POOL_DURATION_SECS

\* validate_metadata_uri wants https, ipfs or ar.  buildPoolMetadataUri makes a
\* predinex address of every draft; the form sends none.
UriScheme(s) == IF s.from = "wizard" THEN "predinex" ELSE "none"
UriAccepted(s) == UriScheme(s) \in {"none", "https", "ipfs", "ar"}

\* The simulation refuses what the contract would, or fails by itself.
SimulationFails ==
  /\ submission.stage = "simulating" /\ submission' = Idle
  /\ UNCHANGED <<surface, draft, step, deepLink>>

FeeEstimated ==
  /\ submission.stage = "simulating" /\ FieldsAccepted(submission) /\ UriAccepted(submission)
  /\ submission' = [submission EXCEPT !.stage = "prompt"]
  /\ UNCHANGED <<surface, draft, step, deepLink>>

AcceptFee ==
  /\ submission.stage = "prompt" /\ submission' = [submission EXCEPT !.stage = "sending"]
  /\ UNCHANGED <<surface, draft, step, deepLink>>

\* Cancelled at the prompt, by the wallet, or failed on the way.
CreationFails ==
  /\ submission.stage \in {"prompt", "sending"} /\ submission' = Idle
  /\ UNCHANGED <<surface, draft, step, deepLink>>

\* The wizard sends the links and the cover of the new pool in a call of their own.
\* They are no part of the draft here: there may be some or none.
SendMetadata ==
  /\ submission.stage = "sending" /\ submission.from = "wizard"
  /\ submission' = [submission EXCEPT !.stage = "metadata"]
  /\ UNCHANGED <<surface, draft, step, deepLink>>

\* The draft, or the form, is emptied, with all that was typed since the submit,
\* whether or not the metadata could be saved.
Created ==
  /\ submission.stage \in {"sending", "metadata"} /\ submission' = Idle
  /\ draft' = EmptyDraft /\ step' = 1
  /\ UNCHANGED <<surface, deepLink>>

CreateNext ==
  \/ EditBasics \/ EditParameters \/ EditOutcomes \/ AddOutcome \/ NextStep \/ PrevStep
  \/ ClearDraft \/ DeepLinkArrives \/ ReloadCreate
  \/ EditName \/ EditDescription \/ EditDeposit \/ EditExpiry \/ EditFormOutcomes \/ ClearForm
  \/ SubmitWizard \/ SubmitForm \/ SimulationFails \/ FeeEstimated \/ AcceptFee
  \/ CreationFails \/ SendMetadata \/ Created
  \/ \E i \in 1 .. MaxOutcomes : RemoveOutcome(i)
  \/ \E k \in 1 .. 5 : Jump(k) \/ ReviewEdit(k)
  \/ \E t \in Templates : SelectTemplate(t)

CreateSpec == CreateInit /\ [][CreateNext]_createVars

\* However the user moves between the steps, loads templates and edits, the steps
\* behind the current one are valid, so the review shows a pool that may be sent.
StepsBehindValid == surface = "wizard" => \A s \in BadSteps(draft) : s >= step

\* Every character of the title and the labels takes one byte, and the description
\* fits with what the form adds to it: the validators count characters.
SingleBytes(s) ==
  /\ s.sent.title.bytes = s.sent.title.chars
  /\ \A i \in DOMAIN s.sent.outcomes : s.sent.outcomes[i].bytes = s.sent.outcomes[i].chars
  /\ DescriptionBytes(s) <= MaxDescription

\* What either way sends keeps the contract's rules on texts of single bytes,
\* labels and duration, whatever was edited, loaded or jumped over before.
SentFieldsAccepted == Busy /\ SingleBytes(submission) => FieldsAccepted(submission)


=============================================================================
