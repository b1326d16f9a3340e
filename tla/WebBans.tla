------------------------------- MODULE WebBans -------------------------------
(***************************************************************************)
(* The page of creator bans (admin/bans/page.tsx).  The list and its audit *)
(* log live in the browser: the page reads them from local storage when it *)
(* opens and whenever the account changes, and writes each of them whole.  *)
(* Access is asked of the contract, one request per account; the dialogs   *)
(* that confirm are outside of the part that access guards.                *)
(***************************************************************************)
EXTENDS Integers, Sequences, SequencesExt, Ranks

CONSTANTS
  Accounts,   \* accounts of the wallet
  Admins,     \* external: the admin and the freeze admin of the contract
  Creators,   \* well-formed addresses of creators
  Samples,    \* the creators listed on the first visit
  Malformed,  \* an entry that is no Stellar address
  MaxLog      \* bound: entries of the audit log

VARIABLES
  stored,   \* local storage: the list and the log, unset before the first visit
  user,     \* the connected account
  access,   \* isAdmin, checkingAccess, and the checks in flight
  lists,    \* bannedCreators and auditLog of the page
  form,     \* newAddress
  dialog    \* confirmBan or confirmUnban

bansVars == <<stored, user, access, lists, form, dialog>>

Nobody == "nobody"
NoDialog == [asks |-> "nothing", address |-> Malformed]
Unset == [set |-> FALSE, creators |-> <<>>, log |-> <<>>]

Entry(action, c, by) == [action |-> action, address |-> c, performedBy |-> by]
Bypass(by) == IF by = Nobody THEN "G-ADMIN" ELSE by

\* Local storage as the page finds it: samples are stored on the first visit, the
\* account of that visit their author.
Loaded(by) ==
  IF stored.set THEN stored
  ELSE [set |-> TRUE, creators |-> Samples,
        log |-> [i \in 1 .. Len(Samples) |-> Entry("ban", Samples[i], Bypass(by))]]
Load(by) == stored' = Loaded(by) /\ lists' = Loaded(by)

\* Without an account access is refused at once, with one the contract is asked:
\* the check of an account left behind is not cancelled.
CheckAccess(a) ==
  access' = IF a = Nobody THEN [access EXCEPT !.isAdmin = FALSE, !.checking = FALSE]
            ELSE [access EXCEPT !.checking = TRUE, !.asked = @ \union {a}]

BansInit ==
  /\ stored = Unset /\ lists = Unset
  /\ user = Nobody
  /\ access = [isAdmin |-> FALSE, checking |-> TRUE, asked |-> {}]
  /\ form = "" /\ dialog = NoDialog

\* Bound: one check of an account is in flight at a time.
AccountChanges(a) ==
  /\ a # user /\ a \notin access.asked
  /\ user' = a
  /\ Load(a) /\ CheckAccess(a)
  /\ UNCHANGED <<form, dialog>>

\* The page is opened again: what it was doing is lost.
Reopen ==
  /\ Load(user)
  /\ access' = IF user = Nobody THEN [isAdmin |-> FALSE, checking |-> FALSE, asked |-> {}]
               ELSE [isAdmin |-> FALSE, checking |-> TRUE, asked |-> {user}]
  /\ form' = "" /\ dialog' = NoDialog
  /\ UNCHANGED user

\* The answer, or FALSE when the reads fail.
AccessAnswered(a) ==
  /\ a \in access.asked
  /\ \E allowed \in {(a \in Admins), FALSE} :
       access' = [isAdmin |-> allowed, checking |-> FALSE, asked |-> access.asked \ {a}]
  /\ UNCHANGED <<stored, user, lists, form, dialog>>

\* AuthGuard asks for a wallet, the page for the admin's; a dialog covers both.
Administers == user # Nobody /\ ~access.checking /\ access.isAdmin
Usable == Administers /\ dialog = NoDialog

IsBanned(c) == Contains(lists.creators, c)

EnterAddress(c) ==
  /\ Usable /\ form' = c /\ form' # form
  /\ UNCHANGED <<stored, user, access, lists, dialog>>

HandleBanSubmit ==
  /\ Usable
  /\ form \in Creators /\ ~IsBanned(form)
  /\ dialog' = [asks |-> "ban", address |-> form]
  /\ UNCHANGED <<stored, user, access, lists, form>>

HandleUnbanClick(c) ==
  /\ Usable /\ IsBanned(c)
  /\ dialog' = [asks |-> "unban", address |-> c]
  /\ UNCHANGED <<stored, user, access, lists, form>>

\* saveBannedCreators and saveAuditLog: the page's lists, and the stored ones.
Save(creators, entry) ==
  LET new == [set |-> TRUE, creators |-> creators, log |-> <<entry>> \o lists.log]
  IN  lists' = new /\ stored' = new

ExecuteBan ==
  /\ dialog.asks = "ban" /\ Len(lists.log) < MaxLog
  /\ Save(<<dialog.address>> \o lists.creators, Entry("ban", dialog.address, Bypass(user)))
  /\ form' = "" /\ dialog' = NoDialog
  /\ UNCHANGED <<user, access>>

ExecuteUnban ==
  /\ dialog.asks = "unban" /\ Len(lists.log) < MaxLog
  /\ Save(Filtered(lists.creators, dialog.address),
          Entry("unban", dialog.address, Bypass(user)))
  /\ dialog' = NoDialog
  /\ UNCHANGED <<user, access, form>>

CancelBan ==
  /\ dialog.asks = "ban" /\ dialog' = NoDialog
  /\ UNCHANGED <<stored, user, access, lists, form>>
CancelUnban ==
  /\ dialog.asks = "unban" /\ dialog' = NoDialog
  /\ UNCHANGED <<stored, user, access, lists, form>>

BansNext ==
  \/ \E a \in Accounts \union {Nobody} : AccountChanges(a)
  \/ \E a \in Accounts : AccessAnswered(a)
  \/ \E c \in Creators \union {Malformed} : EnterAddress(c)
  \/ \E c \in Creators : HandleUnbanClick(c)
  \/ Reopen \/ HandleBanSubmit \/ ExecuteBan \/ ExecuteUnban \/ CancelBan \/ CancelUnban

BansSpec == BansInit /\ [][BansNext]_bansVars

------------------------------------------------------------------------------
\* What the log says of a creator last.
LastSaid(c) ==
  LET said == {i \in DOMAIN stored.log : stored.log[i].address = c}
  IN  IF said = {} THEN "unban"
      ELSE stored.log[CHOOSE i \in said : \A j \in said : i <= j].action

\* The audit log accounts for the list: a creator is listed, once, exactly when the
\* last entry about it is a ban, over reloads, account changes and late confirmations.
LogTellsBans ==
  /\ IsInjective(stored.creators)
  /\ \A c \in Creators : Contains(stored.creators, c) <=> LastSaid(c) = "ban"
=============================================================================
