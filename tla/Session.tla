------------------------------ MODULE Session ------------------------------
(***************************************************************************)
(* The signed-in Jellyfin account: src/jellyfin/session.rs over            *)
(* src/library/session_store.rs.                                           *)
(*                                                                         *)
(* Threads (local API handlers, the sync worker, the event socket, the     *)
(* collection scheduler) take a SessionScope, call Jellyfin without any    *)
(* lock, and come back with an answer or a failure for an account that may *)
(* have been replaced, signed out, expired or deleted meanwhile.  Every    *)
(* step the code runs under operation_gate is one action here; what it     *)
(* does without the gate (the HTTP call, the shell event, the reads before *)
(* a deletion's clear) is an action of its own.                            *)
(*                                                                         *)
(* The cache is kept as the set of accounts whose answers it holds rows    *)
(* of.  A storage failure leaves the disk as the failing call left it; a   *)
(* crash between two writes under the gate is such a failure followed by   *)
(* Restart.                                                                *)
(***************************************************************************)
EXTENDS Naturals

CONSTANTS Accounts,     \* AccountKey: a server id and a user id
          Threads,      \* threads of the app that use the session
          None,         \* no account
          MaxTokens,    \* bound on the access tokens the server issues
          MaxGen        \* bound on the session's generation

ASSUME NoneAssumption == None \notin Accounts
ASSUME BoundsAssumption == MaxTokens \in Nat \ {0} /\ MaxGen \in Nat \ {0}

VARIABLES
  acct, tok, gen, expired, deleting,  \* SessionState (tok: 0 when it has none)
  credAcct, credTok, owner, rows,     \* credentials row, cache owner, catalog rows
  issued, revoked,                    \* the server's access tokens
  pc, held, reply,                    \* per thread: step, what it holds, its answer
  uiAuthed, uiDue                     \* the UI's last status, and whether it must re-read

memory == <<acct, tok, gen, expired, deleting>>
disk   == <<credAcct, credTok, owner, rows>>
server == <<issued, revoked>>
threads == <<pc, held, reply>>
ui     == <<uiAuthed, uiDue>>
vars   == <<memory, disk, server, threads, ui>>

MaybeAccount == Accounts \cup {None}
Tokens == 1 .. MaxTokens

\* What a thread holds: the SessionScope it took, the Credentials a sign-in
\* got (gen is 0), or the account it deletes (tok is 0).
Holding == [gen : 0 .. MaxGen, acct : MaybeAccount, tok : 0 .. MaxTokens]
Nothing == [gen |-> 0, acct |-> None, tok |-> 0]

Steps == {"idle", "calling", "answered", "failed", "rejected", "pushing",
          "credentials", "logout", "signout", "journalled", "removing", "clearing"}
\* The steps at which held[t] is a SessionScope whose answer is still to come or to use.
Scoped == {"calling", "answered", "failed", "rejected"}
Replies == {"none", "shown", "committed", "unauthorized", "account_changed",
            "error", "storage", "signed_in", "signed_out", "deleted"}

DataType ==
  /\ acct \in MaybeAccount /\ tok \in 0 .. MaxTokens /\ gen \in 0 .. MaxGen
  /\ expired \in BOOLEAN /\ deleting \in BOOLEAN
  /\ credAcct \in MaybeAccount /\ credTok \in 0 .. MaxTokens
  /\ owner \in MaybeAccount /\ rows \subseteq Accounts
  /\ issued \in 0 .. MaxTokens /\ revoked \subseteq Tokens
  /\ uiAuthed \in BOOLEAN /\ uiDue \in BOOLEAN
ThreadsType ==
  /\ pc \in [Threads -> Steps] /\ held \in [Threads -> Holding]
  /\ reply \in [Threads -> Replies]
  /\ \A t \in Threads : pc[t] \in Scoped \cup {"credentials"} => held[t].acct \in Accounts
TypeOK == DataType /\ ThreadsType

---------------------------------------------------------------------------
(* SessionState's questions about itself and about a scope.                *)

IsAuthenticated == ~expired /\ ~deleting /\ acct # None

\* Mutant of IsCurrent: comparing the account alone.
IsCurrentByAccount(s) == s.acct = acct

IsCurrent(s) == ~expired /\ ~deleting /\ s.gen = gen /\ s.acct = acct

ExpiredItself(s) == expired /\ ~deleting /\ gen = s.gen + 1 /\ s.acct = acct

\* Mutant of OwnsFailure: comparing the account alone.
OwnsFailureByAccount(s) == s.acct = acct

OwnsFailure(s) == IsCurrent(s) \/ ExpiredItself(s)

\* next_generation; u64 wrap-around is out of any run's reach.
NextGeneration == gen < MaxGen /\ gen' = gen + 1

Goto(t, step) == pc' = [pc EXCEPT ![t] = step]
Hold(t, what) == held' = [held EXCEPT ![t] = what]
Answer(t, what) == reply' = [reply EXCEPT ![t] = what]
Finish(t, what) == Goto(t, "idle") /\ Hold(t, Nothing) /\ Answer(t, what)

---------------------------------------------------------------------------
(* Start-up: Session::restore reads the stored credentials.                *)

Restored(a) == IF a = None THEN 0 ELSE 1

\* A database an earlier run left: signed in or out, with the cache's owner
\* recorded or (an older version) not.
Init ==
  /\ \E a \in Accounts :
       /\ credAcct \in {None, a} /\ owner \in {None, a} /\ rows \in {{}, {a}}
  /\ credTok = Restored(credAcct) /\ issued = credTok /\ revoked = {}
  /\ acct = credAcct /\ tok = credTok /\ gen = Restored(credAcct)
  /\ expired = FALSE /\ deleting = FALSE
  /\ pc = [t \in Threads |-> "idle"] /\ held = [t \in Threads |-> Nothing]
  /\ reply = [t \in Threads |-> "none"]
  /\ uiAuthed = FALSE /\ uiDue = TRUE

\* The process ends at any point and a new one restores the session.
Restart ==
  /\ acct' = credAcct /\ tok' = credTok /\ gen' = Restored(credAcct)
  /\ expired' = FALSE /\ deleting' = FALSE
  /\ pc' = [t \in Threads |-> "idle"] /\ held' = [t \in Threads |-> Nothing]
  /\ reply' = [t \in Threads |-> "none"]
  /\ uiAuthed' = FALSE /\ uiDue' = TRUE
  /\ UNCHANGED <<disk, server>>

---------------------------------------------------------------------------
(* One call made as the signed-in account.                                 *)

\* Mutant of TheScope: the generation the session is about to reach.
TheScopeAhead == [gen |-> gen + 1, acct |-> acct, tok |-> tok]

TheScope == [gen |-> gen, acct |-> acct, tok |-> tok]

TakeScope(t) ==
  /\ pc[t] = "idle" /\ IsAuthenticated
  /\ Goto(t, "calling") /\ Hold(t, TheScope) /\ Answer(t, "none")
  /\ UNCHANGED <<memory, disk, server, ui>>

\* The server answers, fails, or rejects a token it revoked.
AnswerArrives(t) ==
  /\ pc[t] = "calling"
  /\ \/ Goto(t, "answered")
     \/ Goto(t, "failed")
     \/ held[t].tok \in revoked /\ Goto(t, "rejected")
  /\ UNCHANGED <<memory, disk, server, held, reply, ui>>

\* Session::confirm opens the sealed answer for the UI.
Confirm(t) ==
  /\ pc[t] = "answered"
  /\ Finish(t, IF IsCurrent(held[t]) THEN "shown"
               ELSE IF ExpiredItself(held[t]) THEN "unauthorized"
               ELSE "account_changed")
  /\ UNCHANGED <<memory, disk, server, ui>>

\* Session::commit_if_current: the writer runs under the gate, or not at all.
\* A walk goes on to its next page; the write itself may fail.
CommitIfCurrent(t) ==
  /\ pc[t] = "answered"
  /\ IF IsCurrent(held[t])
     THEN \/ /\ rows' = rows \cup {held[t].acct}
             /\ \/ Finish(t, "committed")
                \/ Goto(t, "calling") /\ Answer(t, "committed") /\ UNCHANGED held
          \/ Goto(t, "failed") /\ UNCHANGED <<rows, held, reply>>
     ELSE Finish(t, "account_changed") /\ UNCHANGED rows
  /\ UNCHANGED <<memory, credAcct, credTok, owner, server, ui>>

\* Session::scoped_error for a failure other than a rejected token.
ScopedFailure(t) ==
  /\ pc[t] = "failed"
  /\ Finish(t, IF OwnsFailure(held[t]) THEN "error" ELSE "account_changed")
  /\ UNCHANGED <<memory, disk, server, ui>>

\* Session::scoped_error for a rejected token: the first one expires the
\* session under the gate; the shell event follows outside it (PushExpired).
ScopedRejection(t) ==
  /\ pc[t] = "rejected"
  /\ \/ /\ ~OwnsFailure(held[t])
        /\ Finish(t, "account_changed") /\ UNCHANGED <<gen, expired>>
     \/ /\ OwnsFailure(held[t]) /\ expired
        /\ Finish(t, "unauthorized") /\ UNCHANGED <<gen, expired>>
     \/ /\ OwnsFailure(held[t]) /\ ~expired
        /\ expired' = TRUE /\ NextGeneration
        /\ Goto(t, "pushing") /\ Hold(t, Nothing) /\ Answer(t, "unauthorized")
  /\ UNCHANGED <<acct, tok, deleting, disk, server, ui>>

\* Mutant of PushExpired: the session expires and the shell is never told.
PushExpiredToNobody(t) ==
  /\ pc[t] = "pushing" /\ Goto(t, "idle")
  /\ UNCHANGED <<memory, disk, server, held, reply, ui>>

\* ShellBridge::session_expired
PushExpired(t) ==
  /\ pc[t] = "pushing"
  /\ Goto(t, "idle") /\ uiDue' = TRUE
  /\ UNCHANGED <<memory, disk, server, held, reply, uiAuthed>>

---------------------------------------------------------------------------
(* Signing in.                                                             *)

\* The server accepts a password or an approved Quick Connect code.
Authenticate(t, a) ==
  /\ pc[t] = "idle" /\ issued < MaxTokens
  /\ issued' = issued + 1
  /\ Goto(t, "credentials") /\ Answer(t, "none")
  /\ Hold(t, [gen |-> 0, acct |-> a, tok |-> issued + 1])
  /\ UNCHANGED <<memory, disk, revoked, ui>>

\* commit_credentials' cache_owner, else the previous credentials' pair.
CacheOwner == IF owner # None THEN owner ELSE credAcct

\* Mutant of SwitchedAccount: without the rows that have no recorded owner.
SwitchedKnownOwnerOnly(a) == CacheOwner # None /\ CacheOwner # a

SwitchedAccount(a) ==
  \/ CacheOwner # None /\ CacheOwner # a
  \/ CacheOwner = None /\ rows # {}

\* Library::clear_session's effect on the rows it keeps or forgets.  A kept
\* cache records its owner first.
ClearSession(forget) ==
  /\ credAcct' = None /\ credTok' = 0
  /\ rows' = IF forget THEN {} ELSE rows
  /\ owner' = IF forget THEN None ELSE IF credAcct # None THEN credAcct ELSE owner

\* Session::commit_credentials, all of it under the gate.
CommitCredentials(t) ==
  /\ pc[t] = "credentials"
  /\ credAcct' = held[t].acct /\ credTok' = held[t].tok /\ owner' = held[t].acct
  /\ rows' = IF SwitchedAccount(held[t].acct) THEN {} ELSE rows
  /\ acct' = held[t].acct /\ tok' = held[t].tok
  /\ expired' = FALSE /\ deleting' = FALSE /\ NextGeneration
  /\ Finish(t, "signed_in")
  /\ uiDue' = TRUE
  /\ UNCHANGED <<server, uiAuthed>>

\* The same when a write fails: the clear, or the save after a clear that held.
CommitCredentialsFails(t) ==
  /\ pc[t] = "credentials"
  /\ \/ SwitchedAccount(held[t].acct) /\ ClearSession(TRUE)
     \/ UNCHANGED disk
  /\ Finish(t, "storage")
  /\ UNCHANGED <<memory, server, ui>>

---------------------------------------------------------------------------
(* Signing out and deleting the local account data.                        *)

\* Session::logout takes a scope, if it can, for the server-side sign-out.
LogoutBegin(t) ==
  /\ pc[t] = "idle"
  /\ Goto(t, "logout") /\ Answer(t, "none")
  /\ Hold(t, IF IsAuthenticated THEN TheScope ELSE Nothing)
  /\ UNCHANGED <<memory, disk, server, ui>>

LogoutAnswered(t) ==
  /\ pc[t] = "logout"
  /\ \/ UNCHANGED revoked
     \/ held[t].tok # 0 /\ revoked' = revoked \cup {held[t].tok}
  /\ Goto(t, "signout")
  /\ UNCHANGED <<memory, disk, issued, held, reply, ui>>

\* Session::clear_local's write of the state, after Library::clear_session.
ClearState ==
  /\ acct' = None /\ tok' = 0
  /\ expired' = FALSE /\ deleting' = FALSE /\ NextGeneration

\* Mutant of ClearLocal: the account leaves memory even when the write failed.
ClearLocalAnyway(t, forget, done) ==
  /\ \/ ClearSession(forget) /\ Finish(t, done)
     \/ UNCHANGED disk /\ Finish(t, "storage")
  /\ ClearState /\ uiDue' = TRUE
  /\ UNCHANGED <<server, uiAuthed>>

ClearLocal(t, forget, done) ==
  /\ \/ ClearSession(forget) /\ ClearState /\ Finish(t, done) /\ uiDue' = TRUE
     \/ UNCHANGED <<disk, memory, uiDue>> /\ Finish(t, "storage")
  /\ UNCHANGED <<server, uiAuthed>>

SignOut(t, forget) == pc[t] = "signout" /\ ClearLocal(t, forget, "signed_out")

\* delete_local_account_data reads the account and journals the deletion.
JournalDeletion(t) ==
  /\ pc[t] = "idle" /\ acct # None
  /\ Goto(t, "journalled") /\ Answer(t, "none")
  /\ Hold(t, [gen |-> 0, acct |-> acct, tok |-> 0])
  /\ UNCHANGED <<memory, disk, server, ui>>

\* Session::begin_account_deletion; its caller ignores the result.
BeginAccountDeletion(t) ==
  /\ pc[t] = "journalled"
  /\ IF acct = held[t].acct
     THEN NextGeneration /\ deleting' = TRUE
     ELSE UNCHANGED <<gen, deleting>>
  /\ Goto(t, "removing")
  /\ UNCHANGED <<acct, tok, expired, disk, server, held, reply, ui>>

\* complete_pending_deletion removes the account's files, then clears the
\* session only when it still is that account's.  A failed removal stops here.
RemoveAccountFiles(t) ==
  /\ pc[t] = "removing"
  /\ \/ Finish(t, "storage")
     \/ IF acct = held[t].acct
        THEN Goto(t, "clearing") /\ UNCHANGED <<held, reply>>
        ELSE Finish(t, "deleted")
  /\ UNCHANGED <<memory, disk, server, ui>>

ClearDeletedAccount(t) == pc[t] = "clearing" /\ ClearLocal(t, TRUE, "deleted")

---------------------------------------------------------------------------
(* The server and the UI.                                                  *)

\* An administrator, a password change or another client revokes a token.
Revoke(k) ==
  /\ k \in 1 .. issued /\ revoked' = revoked \cup {k}
  /\ UNCHANGED <<memory, disk, issued, threads, ui>>

\* GET /api/status, which the UI reads again after each push and each answer
\* that changed the session.
UiReadStatus ==
  /\ uiDue /\ uiDue' = FALSE /\ uiAuthed' = IsAuthenticated
  /\ UNCHANGED <<memory, disk, server, threads>>

ThreadStep(t) ==
  \/ TakeScope(t) \/ AnswerArrives(t) \/ Confirm(t) \/ CommitIfCurrent(t)
  \/ ScopedFailure(t) \/ ScopedRejection(t) \/ PushExpired(t)
  \/ \E a \in Accounts : Authenticate(t, a)
  \/ CommitCredentials(t) \/ CommitCredentialsFails(t)
  \/ LogoutBegin(t) \/ LogoutAnswered(t)
  \/ \E forget \in BOOLEAN : SignOut(t, forget)
  \/ JournalDeletion(t) \/ BeginAccountDeletion(t)
  \/ RemoveAccountFiles(t) \/ ClearDeletedAccount(t)

Next ==
  \/ \E t \in Threads : ThreadStep(t)
  \/ \E k \in Tokens : Revoke(k)
  \/ UiReadStatus
  \/ Restart

Spec == Init /\ [][Next]_vars

\* The push runs on the thread that expired the session, and the UI's event
\* loop handles what was posted to it.
Fairness == /\ \A t \in Threads : WF_vars(PushExpired(t))
            /\ WF_vars(UiReadStatus)
LiveSpec == Spec /\ Fairness

---------------------------------------------------------------------------
(* Properties.                                                             *)

\* While an account is signed in, the catalog cache holds no row fetched for
\* another one: not after a switch, a kept cache, a database with no recorded
\* owner, or a sign-in whose save failed half-way (commit_credentials,
\* commit_if_current).
CacheIsTheAccounts == acct # None => rows \subseteq {acct}

\* The session is expired only when the server really rejected the token it
\* holds, never by a late rejection of a token an earlier sign-in held
\* (scoped_error).
ExpiredByItsOwnToken == expired => tok \in revoked

Uses == {"shown", "committed", "unauthorized"}

\* An answer is shown, cached, or turned into "sign in again" only for the
\* sign-in it was fetched for: the same account signed in again is another
\* sign-in (confirm, commit_if_current, scoped_error).
AnswersReachTheirSignIn ==
  [][\A t \in Threads :
       (pc[t] \in Scoped /\ reply'[t] # reply[t] /\ reply'[t] \in Uses)
         => held[t].tok = tok]_vars

\* From the start of a deletion until the session is cleared or signed in
\* again, no in-flight answer adds a row to the cache (begin_account_deletion).
DeletionFreezesCache == [][deleting /\ deleting' => rows' \subseteq rows]_vars

\* The stored credentials name the account in memory or nobody, through every
\* failed write: a restart never signs a signed-out account back in, nor
\* another account than the one that was in use (commit_credentials,
\* clear_local, restore).
RestartKeepsTheAccount == credAcct \in {acct, None}

\* When the session expires under a UI that shows signed-in screens, the UI
\* finds out (the push in scoped_error).
ExpiryReachesUi == []<>(~expired \/ ~uiAuthed)

\* A sign-out ends the sign-in it was asked for and no later one.
SignOutEndsItsOwnSignIn ==
  [][\A t \in Threads :
       (pc[t] = "signout" /\ reply'[t] = "signed_out" /\ held[t].tok # 0 /\ acct # None)
         => held[t].tok = tok]_vars

=============================================================================
