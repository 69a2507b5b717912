------------------------------- MODULE AccountData -------------------------------
(* What the device keeps for an account (settings documents with their backups,    *)
(* collection rows, custom posters) and its deletion: journalled, step by step,     *)
(* resumed at the next start.  The user signs in, signs out and asks for a deletion *)
(* one request at a time; the scheduler's refreshes and saves run beside them.      *)
EXTENDS Naturals, Sequences, FiniteSets

CONSTANTS Accounts,      \* the accounts that sign in on this device
          None,          \* no account
          MaxStepFaults, \* bound: steps of a deletion that fail
          MaxStarts,     \* bound: starts of the program
          MaxScopes      \* bound: saves that take their scope

AccountDataAssumption ==
  /\ None \notin Accounts
  /\ MaxStepFaults \in Nat /\ MaxStarts \in Nat /\ MaxScopes \in Nat

(* accounts.json and collections.json; playback-preferences.json is one more document *)
(* with the same code, saved and removed like accounts.json, and is left out.         *)
Docs == {"accounts", "collections"}

(* The order of complete_pending_deletion.  A document is saved without the account *)
(* ("doc") and then copied over its backup ("scrub").                               *)
Plan == << [do |-> "doc", at |-> "accounts"], [do |-> "scrub", at |-> "accounts"],
           [do |-> "doc", at |-> "collections"], [do |-> "scrub", at |-> "collections"],
           [do |-> "rows", at |-> "db"], [do |-> "posters", at |-> "art"],
           [do |-> "session", at |-> "db"], [do |-> "active", at |-> "memory"],
           [do |-> "finish", at |-> "journal"] >>

VARIABLES
  acct,       \* the signed-in account, which the database keeps over a restart
  deleting,   \* the session refuses requests: its account is being deleted
  active,     \* PreferencesService.active_account: whose appearance is shown
  doc,        \* [Docs -> SUBSET Accounts]: the accounts each document holds
  backup,     \* the same, of its backup file
  rows,       \* accounts with collection rows in the database
  posters,    \* accounts with custom posters on disk
  journal,    \* pending deletions: a function from accounts to "posters are named"
  auth,       \* the request of the user that runs: [op, acct, step]
  resuming,   \* pending deletions the start has still to resume: nothing else runs
  scope,      \* the account of a save's scope; None once the session moved on
  refresh,    \* a refresh of the scheduler or the end of an edit: [acct, stage, current]
  stepFaults, starts, scopes,
  erased,     \* history: accounts whose deletion finished, until they sign in again
  failedHere, \* history: accounts whose deletion failed since the program started
  misfiled,   \* history: an appearance was saved into another account's settings
  putBack     \* history: accounts a late edit put back, until they sign in again

accountVars == <<acct, deleting, active, doc, backup, rows, posters, journal, auth,
                 resuming, scope, refresh, stepFaults, starts, scopes, erased, failedHere,
                 misfiled, putBack>>
files == <<doc, backup, rows, posters>>
history == <<stepFaults, starts, scopes, erased, failedHere, misfiled, putBack>>

NoAuthWork == [op |-> "none", acct |-> None, step |-> 0]
NoRefresh == [acct |-> None, stage |-> "none", current |-> FALSE]

(* mutate of a document: the previous contents become the backup. *)
Saved(d, held) == /\ doc' = [doc EXCEPT ![d] = held]
                  /\ backup' = [backup EXCEPT ![d] = doc[d]]

(* scrub_backup; mutant: it is forgotten. *)
BackupKept(d) == backup' = backup
ReplaceBackupWithPrimary(d) == backup' = [backup EXCEPT ![d] = doc[d]]

(* The session's generation moves on: commit_if_current refuses the scopes taken     *)
(* before.                                                                           *)
EndScopes == scope' = None /\ refresh' = [refresh EXCEPT !.current = FALSE]

AccountTypeOK ==
  /\ acct \in Accounts \cup {None} /\ deleting \in BOOLEAN
  /\ active \in Accounts \cup {None}
  /\ doc \in [Docs -> SUBSET Accounts] /\ backup \in [Docs -> SUBSET Accounts]
  /\ rows \subseteq Accounts /\ posters \subseteq Accounts
  /\ DOMAIN journal \subseteq Accounts /\ \A a \in DOMAIN journal : journal[a] \in BOOLEAN
  /\ auth \in [op : {"none", "login", "logout", "delete"},
               acct : Accounts \cup {None}, step : 0 .. Len(Plan)]
  /\ resuming \subseteq Accounts /\ scope \in Accounts \cup {None}
  /\ refresh \in [acct : Accounts \cup {None}, stage : {"none", "fetching", "checked", "forgetting"},
                  current : BOOLEAN]
  /\ stepFaults \in 0 .. MaxStepFaults /\ starts \in 0 .. MaxStarts /\ scopes \in 0 .. MaxScopes
  /\ {erased, failedHere, putBack} \subseteq SUBSET Accounts /\ misfiled \in BOOLEAN

AccountInit ==
  /\ acct = None /\ deleting = FALSE /\ active = None
  /\ doc = [d \in Docs |-> {}] /\ backup = [d \in Docs |-> {}]
  /\ rows = {} /\ posters = {} /\ journal = << >>
  /\ auth = NoAuthWork /\ resuming = {} /\ scope = None /\ refresh = NoRefresh
  /\ stepFaults = 0 /\ starts = 0 /\ scopes = 0 /\ erased = {} /\ failedHere = {} /\ misfiled = FALSE
  /\ putBack = {}

Running == resuming = {}
BetweenRequests == Running /\ auth = NoAuthWork

-----------------------------------------------------------------------------------
(* Requests of the user: one at a time. *)

(* Session::login: the credentials are saved and the old scopes end. *)
Login(a) ==
  /\ BetweenRequests
  /\ acct' = a /\ deleting' = FALSE /\ EndScopes
  /\ auth' = [op |-> "login", acct |-> a, step |-> 0]
  /\ erased' = erased \ {a} /\ putBack' = putBack \ {a}
  /\ UNCHANGED <<active, files, journal, resuming, scopes, stepFaults, starts, failedHere, misfiled>>

(* auth_login goes on: the settings of the account that is signed in now. *)
ActivateAccountPreferences ==
  /\ auth.op = "login"
  /\ active' = acct /\ auth' = NoAuthWork
  /\ UNCHANGED <<acct, deleting, files, journal, resuming, scope, refresh, history>>

(* auth_logout: the session is cleared, then the settings of nobody are shown. *)
Logout ==
  /\ BetweenRequests /\ acct # None
  /\ acct' = None /\ deleting' = FALSE /\ EndScopes
  /\ auth' = [op |-> "logout", acct |-> acct, step |-> 0]
  /\ UNCHANGED <<active, files, journal, resuming, history>>

(* Mutant: auth_logout leaves the settings alone. *)
PreferencesKept ==
  /\ auth.op = "logout" /\ auth' = NoAuthWork
  /\ UNCHANGED <<acct, deleting, active, files, journal, resuming, scope, refresh, history>>

ClearAccountPreferences ==
  /\ auth.op = "logout"
  /\ active' = None /\ auth' = NoAuthWork
  /\ UNCHANGED <<acct, deleting, files, journal, resuming, scope, refresh, history>>

(* artwork_ids_for_account: posters are named by the document and by its backup. *)
NamesPosters(a) == a \in doc["collections"] \cup backup["collections"]

(* Mutant: the request is not refused when nobody is signed in. *)
SignedInAssumed == TRUE
SignedIn == acct # None

(* delete_local_account_data: the journal is written first, a second request for the *)
(* same account replacing the posters it names; then the session freezes.            *)
DeleteLocalAccountData ==
  /\ BetweenRequests /\ SignedIn
  /\ journal' = [a \in DOMAIN journal \cup {acct} |->
                   IF a = acct THEN NamesPosters(acct) ELSE journal[a]]
  /\ deleting' = TRUE /\ EndScopes
  /\ auth' = [op |-> "delete", acct |-> acct, step |-> 1]
  /\ UNCHANGED <<acct, active, files, resuming, history>>

-----------------------------------------------------------------------------------
(* complete_pending_deletion, for auth.acct. *)

At(what) == auth.op = "delete" /\ Plan[auth.step].do = what
Place == Plan[auth.step].at
Advance(n) == auth' = [auth EXCEPT !.step = @ + n]

RemoveFromDocument ==
  /\ At("doc")
  /\ Saved(Place, doc[Place] \ {auth.acct})
  /\ Advance(1)
  /\ UNCHANGED <<acct, deleting, active, rows, posters, journal, resuming, scope, refresh,
                 history>>

ScrubBackup ==
  /\ At("scrub")
  /\ ReplaceBackupWithPrimary(Place)
  /\ Advance(1)
  /\ UNCHANGED <<acct, deleting, active, doc, rows, posters, journal, resuming, scope,
                 refresh, history>>

RemoveRows ==
  /\ At("rows")
  /\ rows' = rows \ {auth.acct}
  /\ Advance(1)
  /\ UNCHANGED <<acct, deleting, active, doc, backup, posters, journal, resuming, scope,
                 refresh, history>>

RemovePosters ==
  /\ At("posters")
  /\ posters' = IF journal[auth.acct] THEN posters \ {auth.acct} ELSE posters
  /\ Advance(1)
  /\ UNCHANGED <<acct, deleting, active, doc, backup, rows, journal, resuming, scope,
                 refresh, history>>

(* The session is cleared only when it is still the deleted account's; mutant: any. *)
AnySession(a) == acct # None
OwnsSession(a) == acct = a

ClearSession ==
  /\ At("session")
  /\ IF OwnsSession(auth.acct)
     THEN acct' = None /\ deleting' = FALSE /\ EndScopes /\ Advance(1)
     ELSE Advance(2) /\ UNCHANGED <<acct, deleting, scope, refresh>>
  /\ UNCHANGED <<active, files, journal, resuming, history>>

ShowNobodysSettings ==
  /\ At("active")
  /\ active' = None
  /\ Advance(1)
  /\ UNCHANGED <<acct, deleting, files, journal, resuming, scope, refresh, history>>

FinishDeletion ==
  /\ At("finish")
  /\ journal' = [a \in DOMAIN journal \ {auth.acct} |-> journal[a]]
  /\ auth' = NoAuthWork
  /\ resuming' = resuming \ {auth.acct}
  /\ erased' = erased \cup {auth.acct}
  /\ UNCHANGED <<acct, deleting, active, files, scope, refresh, scopes, stepFaults, starts, failedHere,
                 misfiled, putBack>>

(* A step fails: the request is answered with the error, or the start logs it; the   *)
(* journal keeps the deletion.                                                       *)
DeletionFails ==
  /\ auth.op = "delete" /\ ~At("active") /\ stepFaults < MaxStepFaults
  /\ stepFaults' = stepFaults + 1
  /\ failedHere' = failedHere \cup {auth.acct}
  /\ auth' = NoAuthWork
  /\ resuming' = resuming \ {auth.acct}
  /\ UNCHANGED <<acct, deleting, active, files, journal, scope, refresh, scopes, starts, erased,
                 misfiled, putBack>>

(* resume_pending_deletions: the session freezes only if it is this account's. *)
ResumeDeletion(a) ==
  /\ a \in resuming /\ auth = NoAuthWork
  /\ deleting' = (deleting \/ acct = a)
  /\ IF acct = a THEN EndScopes ELSE UNCHANGED <<scope, refresh>>
  /\ auth' = [op |-> "delete", acct |-> a, step |-> 1]
  /\ UNCHANGED <<acct, active, files, journal, resuming, history>>

(* PendingDeletionService::pending; mutant: the journal is not read back. *)
NothingPending == {}
Pending == DOMAIN journal

(* The program ends at any point and starts again (open): the session and its        *)
(* settings come from disk, posters nothing names are collected once they are old.   *)
Start ==
  /\ starts < MaxStarts
  /\ starts' = starts + 1
  /\ deleting' = FALSE /\ active' = acct
  /\ auth' = NoAuthWork /\ scope' = None /\ refresh' = NoRefresh
  /\ resuming' = Pending /\ failedHere' = {}
  /\ \E old \in BOOLEAN :
       posters' = IF old THEN {a \in posters : NamesPosters(a)} ELSE posters
  /\ UNCHANGED <<acct, doc, backup, rows, journal, scopes, stepFaults, erased, misfiled, putBack>>

-----------------------------------------------------------------------------------
(* Saves: a request takes its scope, and commits under the session's gate. *)

TakeScope ==
  /\ BetweenRequests /\ scope = None /\ acct # None /\ ~deleting
  /\ scope' = acct /\ scopes < MaxScopes /\ scopes' = scopes + 1
  /\ UNCHANGED <<acct, deleting, active, files, journal, auth, resuming, refresh, stepFaults,
                 starts, erased, failedHere, misfiled, putBack>>

(* Viewing, browsing, home and Letterboxd settings, collection settings and playback *)
(* choices: account_mut puts a missing account back.                                 *)
SaveSettings(d) ==
  /\ scope # None
  /\ Saved(d, doc[d] \cup {scope}) /\ scope' = None
  /\ UNCHANGED <<acct, deleting, active, rows, posters, journal, auth, resuming, refresh,
                 history>>

(* patch_appearance saves for the active account, not for the scope's. *)
PatchAppearance ==
  /\ scope # None /\ active # None
  /\ Saved("accounts", doc["accounts"] \cup {active}) /\ scope' = None
  /\ misfiled' = (misfiled \/ active # scope)
  /\ UNCHANGED <<acct, deleting, active, rows, posters, journal, auth, resuming, refresh,
                 scopes, stepFaults, starts, erased, failedHere, putBack>>

(* edit: a profile that leaves Home is saved under the gate, and forgotten by Home      *)
(* outside of it, whoever is signed in by then; account_mut puts a missing account back. *)
EditLeavesHome ==
  /\ scope # None /\ refresh = NoRefresh
  /\ Saved("collections", doc["collections"] \cup {scope}) /\ scope' = None
  /\ refresh' = [acct |-> scope, stage |-> "forgetting", current |-> TRUE]
  /\ UNCHANGED <<acct, deleting, active, rows, posters, journal, auth, resuming, history>>

ForgetHomeCollection ==
  /\ refresh.stage = "forgetting" /\ refresh' = NoRefresh
  /\ Saved("accounts", doc["accounts"] \cup {refresh.acct})
  /\ putBack' = IF refresh.current THEN putBack ELSE putBack \cup {refresh.acct}
  /\ UNCHANGED <<acct, deleting, active, rows, posters, journal, auth, resuming, scope,
                 scopes, stepFaults, starts, erased, failedHere, misfiled>>

(* commit_result_profile, with the profile's poster or without. *)
CommitResultProfile ==
  /\ scope # None
  /\ rows' = rows \cup {scope}
  /\ Saved("collections", doc["collections"] \cup {scope}) /\ scope' = None
  /\ \E poster \in BOOLEAN : posters' = IF poster THEN posters \cup {scope} ELSE posters
  /\ UNCHANGED <<acct, deleting, active, journal, auth, resuming, refresh, history>>

(* The scheduler refreshes a profile of the account: the answer comes later, the     *)
(* profile is looked up again, and the rows are committed outside the gate.          *)
RefreshStarts ==
  /\ Running /\ refresh = NoRefresh /\ acct \in doc["collections"] /\ ~deleting
  /\ refresh' = [acct |-> acct, stage |-> "fetching", current |-> TRUE]
  /\ UNCHANGED <<acct, deleting, active, files, journal, auth, resuming, scope, history>>

(* save_failed_refresh keeps its row only for a scope that is still current. *)
RefreshFails ==
  /\ refresh.stage = "fetching"
  /\ rows' = IF refresh.current THEN rows \cup {refresh.acct} ELSE rows
  /\ refresh' = NoRefresh
  /\ UNCHANGED <<acct, deleting, active, doc, backup, posters, journal, auth, resuming,
                 scope, history>>

ProfileIsCurrent ==
  /\ refresh.stage = "fetching"
  /\ refresh' = IF refresh.acct \in doc["collections"]
                THEN [refresh EXCEPT !.stage = "checked"] ELSE NoRefresh
  /\ UNCHANGED <<acct, deleting, active, files, journal, auth, resuming, scope, history>>

CommitProfile ==
  /\ refresh.stage = "checked"
  /\ rows' = rows \cup {refresh.acct}
  /\ refresh' = NoRefresh
  /\ UNCHANGED <<acct, deleting, active, doc, backup, posters, journal, auth, resuming,
                 scope, history>>

-----------------------------------------------------------------------------------
DeletionStep ==
  \/ RemoveFromDocument \/ ScrubBackup \/ RemoveRows \/ RemovePosters
  \/ ClearSession \/ ShowNobodysSettings \/ FinishDeletion

AccountNext ==
  \/ \E a \in Accounts : Login(a) \/ ResumeDeletion(a)
  \/ ActivateAccountPreferences \/ Logout \/ ClearAccountPreferences
  \/ DeleteLocalAccountData \/ DeletionStep \/ DeletionFails \/ Start
  \/ TakeScope \/ (\E d \in Docs : SaveSettings(d)) \/ PatchAppearance
  \/ CommitResultProfile \/ EditLeavesHome \/ ForgetHomeCollection
  \/ RefreshStarts \/ RefreshFails \/ ProfileIsCurrent \/ CommitProfile

AccountSpec == AccountInit /\ [][AccountNext]_accountVars

-----------------------------------------------------------------------------------
(* Once a deletion has finished, and until the account signs in again, no settings   *)
(* document holds it, and no backup a later recovery could bring back; but an edit    *)
(* that ends late may put an entry back.                                            *)
NoSettingsAfterDeletion ==
  \A a \in erased \ putBack, d \in Docs : a \notin doc[d] \cup backup[d]

(* Between requests the settings shown are those of the signed-in account, also      *)
(* after a deletion that failed or was cut short, and no choice of appearance was    *)
(* ever saved into another account's settings.                                       *)
SettingsFollowTheSession ==
  /\ BetweenRequests => active = acct
  /\ ~misfiled

(* A deletion, resumed at a start or not, takes nothing of another account and does  *)
(* not sign another account out.                                                     *)
DeletionSparesOthers ==
  auth.op = "delete" /\ auth.step # auth'.step /\ starts' = starts =>
    \A b \in Accounts \ {auth.acct} :
      /\ \A d \in Docs : b \in doc[d] => b \in doc'[d]
      /\ b \in rows => b \in rows'
      /\ b \in posters => b \in posters'
      /\ acct = b => acct' = b /\ active' = active

(* No deletion is forgotten: one that the journal holds is being carried out, waits    *)
(* for its turn after a start, or failed since that start, which the next one resumes. *)
DeletionIsNotForgotten ==
  DOMAIN journal \subseteq
    resuming \cup failedHere \cup (IF auth.op = "delete" THEN {auth.acct} ELSE {})
===================================================================================
