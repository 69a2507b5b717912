--------------------------- MODULE SessionProofs ---------------------------
(* What MCSession checks, for every value of the constants but those of the grids:     *)
(* the session for any accounts, threads and bounds; and that what is shown of the     *)
(* library is true, for any episodes and genres, any number of writes, pages of any    *)
(* size and any number of readers.                                                     *)
EXTENDS Session, CatalogRows, TitlePages, Listings, FiniteSetTheorems, TLAPS

-----------------------------------------------------------------------------
(* The session.  TypeOK is inductive by itself.  The safety properties rest on Inv,    *)
(* whose heart is ScopesKnowTheirSignIn: what a generation number says about the       *)
(* sign-in it was stamped on.                                                          *)

\* Whose rows the cache may hold, signed in and signed out.
CacheInv ==
  /\ credAcct \in {acct, None}
  /\ acct # None => owner \in {acct, None} /\ rows \subseteq {acct}
  /\ acct = None /\ owner # None => rows \subseteq {owner}

\* A scope of the present generation is of the present sign-in, and so is the
\* scope of the generation that the token's rejection ended.
KnowsItsSignIn(s) ==
  /\ s.gen \leq gen
  /\ s.gen = gen => s.acct = acct /\ s.tok = tok
  /\ s.gen + 1 = gen /\ expired /\ ~deleting => s.acct = acct /\ s.tok = tok

ScopesKnowTheirSignIn == \A t \in Threads : pc[t] \in Scoped => KnowsItsSignIn(held[t])

RejectionsAreReal == \A t \in Threads : pc[t] = "rejected" => held[t].tok \in revoked

Inv == /\ CacheInv /\ ScopesKnowTheirSignIn /\ RejectionsAreReal
       /\ ExpiredByItsOwnToken

---------------------------------------------------------------------------
\* The bounds are natural numbers, with room for the restored session's 1.
LEMMA Bounds == MaxTokens \in Nat /\ MaxGen \in Nat /\ 1 \leq MaxTokens /\ 1 \leq MaxGen
BY BoundsAssumption

LEMMA RestoredType ==
  ASSUME NEW a PROVE Restored(a) \in 0 .. MaxTokens /\ Restored(a) \in 0 .. MaxGen
BY Bounds DEF Restored

LEMMA NextGenerationType ==
  gen \in 0 .. MaxGen /\ NextGeneration => gen' \in 0 .. MaxGen /\ gen' = gen + 1
BY Bounds DEF NextGeneration

LEMMA NothingType == Nothing \in Holding
BY Bounds DEF Nothing, Holding, MaybeAccount

\* A step of one thread that leaves the others alone keeps the threads typed.
LEMMA ThreadStepType ==
  ASSUME ThreadsType, NEW t \in Threads, NEW step \in Steps, NEW what \in Holding,
         NEW answer \in Replies,
         step \in Scoped \cup {"credentials"} => what.acct \in Accounts,
         Goto(t, step),
         Hold(t, what) \/ (UNCHANGED held /\ what = held[t]),
         Answer(t, answer) \/ UNCHANGED reply
  PROVE  ThreadsType'
<1>1. /\ pc' \in [Threads -> Steps] /\ pc'[t] = step
      /\ \A u \in Threads \ {t} : pc'[u] = pc[u]
  BY DEF ThreadsType, Goto
<1>2. /\ held' \in [Threads -> Holding] /\ held'[t] = what
      /\ \A u \in Threads \ {t} : held'[u] = held[u]
  BY DEF ThreadsType, Hold
<1>3. reply' \in [Threads -> Replies]
  BY DEF ThreadsType, Answer
<1>4. QED
  BY <1>1, <1>2, <1>3 DEF ThreadsType

LEMMA FinishType ==
  ASSUME ThreadsType, NEW t \in Threads, NEW answer \in Replies, Finish(t, answer)
  PROVE  ThreadsType'
<1>1. "idle" \in Steps /\ "idle" \notin Scoped \cup {"credentials"}
  BY DEF Steps, Scoped
<1>2. QED
  BY <1>1, NothingType, ThreadStepType DEF Finish
LEMMA ClearLocalType ==
  ASSUME DataType, NEW t, NEW forget \in BOOLEAN, NEW done, ClearLocal(t, forget, done)
  PROVE  DataType'
<1>1. CASE UNCHANGED <<disk, memory, uiDue>>
  BY <1>1 DEF ClearLocal, DataType, disk, memory, server
<1>2. CASE ClearSession(forget) /\ ClearState /\ uiDue' = TRUE
  <2>1. credAcct' \in MaybeAccount /\ owner' \in MaybeAccount /\ rows' \subseteq Accounts
    BY <1>2 DEF ClearSession, DataType, MaybeAccount
  <2>2. credTok' \in 0 .. MaxTokens /\ tok' \in 0 .. MaxTokens
    BY <1>2, Bounds DEF ClearSession, ClearState
  <2>3. acct' \in MaybeAccount /\ gen' \in 0 .. MaxGen
        /\ expired' \in BOOLEAN /\ deleting' \in BOOLEAN
    BY <1>2, NextGenerationType DEF ClearState, DataType, MaybeAccount
  <2>4. QED
    BY <1>2, <2>1, <2>2, <2>3 DEF ClearLocal, DataType, server
<1>3. QED
  BY <1>1, <1>2 DEF ClearLocal

LEMMA TypeInit == Init => TypeOK
<1>1. Init => DataType
  <2> SUFFICES ASSUME Init PROVE DataType
    OBVIOUS
  <2>1. credTok \in 0 .. MaxTokens /\ gen \in 0 .. MaxGen
    BY RestoredType DEF Init
  <2>2. credAcct \in MaybeAccount /\ owner \in MaybeAccount /\ rows \subseteq Accounts
    BY DEF Init, MaybeAccount
  <2>3. QED
    BY <2>1, <2>2 DEF Init, DataType
<1>2. Init => ThreadsType
  BY NothingType DEF Init, ThreadsType, Steps, Scoped, Replies
<1>3. QED
  BY <1>1, <1>2 DEF TypeOK

LEMMA TypeStep == TypeOK /\ [Next]_vars => TypeOK'
<1> SUFFICES ASSUME DataType, ThreadsType, [Next]_vars PROVE TypeOK'
  BY DEF TypeOK
<1>1. ASSUME NEW t \in Threads, TakeScope(t) PROVE TypeOK'
  <2>1. DataType'
    BY <1>1, Bounds, NextGenerationType
    DEF TakeScope, DataType, MaybeAccount, Tokens, memory, disk, server, ui
  <2>2. ThreadsType'
    BY <1>1, ThreadStepType DEF TakeScope, IsAuthenticated, TheScope, DataType, Holding, MaybeAccount, Steps, Replies
  <2>3. QED
    BY <2>1, <2>2 DEF TypeOK
<1>2. ASSUME NEW t \in Threads, AnswerArrives(t) PROVE TypeOK'
  <2>1. DataType'
    BY <1>2, Bounds, NextGenerationType
    DEF AnswerArrives, DataType, MaybeAccount, Tokens, memory, disk, server, ui
  <2>2. ThreadsType'
    BY <1>2 DEF AnswerArrives, Goto, Steps, Scoped, ThreadsType
  <2>3. QED
    BY <2>1, <2>2 DEF TypeOK
<1>3. ASSUME NEW t \in Threads, Confirm(t) PROVE TypeOK'
  <2>1. DataType'
    BY <1>3, Bounds, NextGenerationType
    DEF Confirm, DataType, MaybeAccount, Tokens, memory, disk, server, ui
  <2>2. ThreadsType'
    BY <1>3, FinishType DEF Confirm, Replies
  <2>3. QED
    BY <2>1, <2>2 DEF TypeOK
<1>4. ASSUME NEW t \in Threads, CommitIfCurrent(t) PROVE TypeOK'
  <2>1. DataType'
    BY <1>4, Bounds, NextGenerationType
    DEF CommitIfCurrent, IsCurrent, ThreadsType, Scoped, DataType, MaybeAccount, Tokens, memory, disk, server, ui
  <2>2. ThreadsType'
    <3>1. CASE pc'[t] = "idle"
      BY <1>4, <3>1, FinishType DEF CommitIfCurrent, Goto, ThreadsType, Replies
    <3>2. CASE pc'[t] # "idle"
      BY <1>4, <3>2 DEF CommitIfCurrent, Finish, Goto, Answer, ThreadsType, Steps, Scoped, Replies
    <3>3. QED
      BY <3>1, <3>2
  <2>3. QED
    BY <2>1, <2>2 DEF TypeOK
<1>5. ASSUME NEW t \in Threads, ScopedFailure(t) PROVE TypeOK'
  <2>1. DataType'
    BY <1>5, Bounds, NextGenerationType
    DEF ScopedFailure, DataType, MaybeAccount, Tokens, memory, disk, server, ui
  <2>2. ThreadsType'
    BY <1>5, FinishType DEF ScopedFailure, Replies
  <2>3. QED
    BY <2>1, <2>2 DEF TypeOK
<1>6. ASSUME NEW t \in Threads, ScopedRejection(t) PROVE TypeOK'
  <2>1. DataType'
    BY <1>6, Bounds, NextGenerationType
    DEF ScopedRejection, DataType, MaybeAccount, Tokens, memory, disk, server, ui
  <2>2. ThreadsType'
    BY <1>6, FinishType, ThreadStepType, NothingType DEF ScopedRejection, Replies, Steps, Scoped
  <2>3. QED
    BY <2>1, <2>2 DEF TypeOK
<1>7. ASSUME NEW t \in Threads, PushExpired(t) PROVE TypeOK'
  <2>1. DataType'
    BY <1>7, Bounds, NextGenerationType
    DEF PushExpired, DataType, MaybeAccount, Tokens, memory, disk, server, ui
  <2>2. ThreadsType'
    BY <1>7 DEF PushExpired, Goto, Steps, Scoped, ThreadsType
  <2>3. QED
    BY <2>1, <2>2 DEF TypeOK
<1>8. ASSUME NEW t \in Threads, NEW a \in Accounts, Authenticate(t, a) PROVE TypeOK'
  <2>1. DataType'
    BY <1>8, Bounds, NextGenerationType
    DEF Authenticate, DataType, MaybeAccount, Tokens, memory, disk, server, ui
  <2>2. ThreadsType'
    BY <1>8, ThreadStepType, Bounds DEF Authenticate, DataType, Holding, MaybeAccount, Steps, Replies
  <2>3. QED
    BY <2>1, <2>2 DEF TypeOK
<1>9. ASSUME NEW t \in Threads, CommitCredentials(t) PROVE TypeOK'
  <2>1. DataType'
    BY <1>9, Bounds, NextGenerationType
    DEF CommitCredentials, ThreadsType, Holding, MaybeAccount, DataType, MaybeAccount, Tokens, memory, disk, server, ui
  <2>2. ThreadsType'
    BY <1>9, FinishType DEF CommitCredentials, Replies
  <2>3. QED
    BY <2>1, <2>2 DEF TypeOK
<1>10. ASSUME NEW t \in Threads, CommitCredentialsFails(t) PROVE TypeOK'
  <2>1. DataType'
    BY <1>10, Bounds, NextGenerationType
    DEF CommitCredentialsFails, ClearSession, DataType, MaybeAccount, Tokens, memory, disk, server, ui
  <2>2. ThreadsType'
    BY <1>10, FinishType DEF CommitCredentialsFails, Replies
  <2>3. QED
    BY <2>1, <2>2 DEF TypeOK
<1>11. ASSUME NEW t \in Threads, LogoutBegin(t) PROVE TypeOK'
  <2>1. DataType'
    BY <1>11, Bounds, NextGenerationType
    DEF LogoutBegin, DataType, MaybeAccount, Tokens, memory, disk, server, ui
  <2>2. ThreadsType'
    BY <1>11, ThreadStepType, NothingType DEF LogoutBegin, TheScope, DataType, Holding, MaybeAccount, Steps, Scoped, Replies
  <2>3. QED
    BY <2>1, <2>2 DEF TypeOK
<1>12. ASSUME NEW t \in Threads, LogoutAnswered(t) PROVE TypeOK'
  <2>1. DataType'
    <3>1. held[t].tok # 0 => held[t].tok \in Tokens
      <4>1. held[t].tok \in 0 .. MaxTokens
        BY DEF ThreadsType, Holding
      <4>2. QED
        BY <4>1, Bounds DEF Tokens
    <3>2. revoked' \subseteq Tokens
      BY <1>12, <3>1 DEF LogoutAnswered, DataType
    <3>3. QED
      BY <1>12, <3>2 DEF LogoutAnswered, DataType, memory, disk, ui
  <2>2. ThreadsType'
    BY <1>12 DEF LogoutAnswered, Goto, Steps, Scoped, ThreadsType
  <2>3. QED
    BY <2>1, <2>2 DEF TypeOK
<1>13. ASSUME NEW t \in Threads, NEW forget \in BOOLEAN, SignOut(t, forget) PROVE TypeOK'
  <2>1. DataType'
    BY <1>13, ClearLocalType DEF SignOut
  <2>2. ThreadsType'
    BY <1>13, FinishType DEF SignOut, ClearLocal, Replies
  <2>3. QED
    BY <2>1, <2>2 DEF TypeOK
<1>14. ASSUME NEW t \in Threads, JournalDeletion(t) PROVE TypeOK'
  <2>1. DataType'
    BY <1>14, Bounds, NextGenerationType
    DEF JournalDeletion, DataType, MaybeAccount, Tokens, memory, disk, server, ui
  <2>2. ThreadsType'
    BY <1>14, ThreadStepType, Bounds DEF JournalDeletion, DataType, Holding, MaybeAccount, Steps, Scoped, Replies
  <2>3. QED
    BY <2>1, <2>2 DEF TypeOK
<1>15. ASSUME NEW t \in Threads, BeginAccountDeletion(t) PROVE TypeOK'
  <2>1. DataType'
    BY <1>15, Bounds, NextGenerationType
    DEF BeginAccountDeletion, DataType, MaybeAccount, Tokens, memory, disk, server, ui
  <2>2. ThreadsType'
    BY <1>15 DEF BeginAccountDeletion, Goto, Steps, Scoped, ThreadsType
  <2>3. QED
    BY <2>1, <2>2 DEF TypeOK
<1>16. ASSUME NEW t \in Threads, RemoveAccountFiles(t) PROVE TypeOK'
  <2>1. DataType'
    BY <1>16, Bounds, NextGenerationType
    DEF RemoveAccountFiles, DataType, MaybeAccount, Tokens, memory, disk, server, ui
  <2>2. ThreadsType'
    <3>1. CASE pc'[t] = "idle"
      BY <1>16, <3>1, FinishType DEF RemoveAccountFiles, Goto, ThreadsType, Replies
    <3>2. CASE pc'[t] # "idle"
      BY <1>16, <3>2 DEF RemoveAccountFiles, Finish, Goto, Answer, ThreadsType, Steps, Scoped, Replies
    <3>3. QED
      BY <3>1, <3>2
  <2>3. QED
    BY <2>1, <2>2 DEF TypeOK
<1>17. ASSUME NEW t \in Threads, ClearDeletedAccount(t) PROVE TypeOK'
  <2>1. DataType'
    BY <1>17, ClearLocalType DEF ClearDeletedAccount
  <2>2. ThreadsType'
    BY <1>17, FinishType DEF ClearDeletedAccount, ClearLocal, Replies
  <2>3. QED
    BY <2>1, <2>2 DEF TypeOK
<1>18. ASSUME NEW k \in Tokens, Revoke(k) PROVE TypeOK'
  BY <1>18 DEF Revoke, DataType, ThreadsType, Tokens, TypeOK, memory, disk, threads, ui
<1>19. CASE UiReadStatus
  BY <1>19 DEF UiReadStatus, IsAuthenticated, DataType, ThreadsType, TypeOK,
                memory, disk, server, threads
<1>20. CASE Restart
  <2>1. DataType'
    BY <1>20, RestoredType DEF Restart, DataType, disk, server
  <2>2. ThreadsType'
    BY <1>20, NothingType DEF Restart, ThreadsType, Steps, Scoped, Replies
  <2>3. QED
    BY <2>1, <2>2 DEF TypeOK
<1>21. CASE UNCHANGED vars
  BY <1>21 DEF vars, memory, disk, server, threads, ui, DataType, ThreadsType, TypeOK
<1>22. QED
  BY <1>1, <1>2, <1>3, <1>4, <1>5, <1>6, <1>7, <1>8, <1>9, <1>10, <1>11, <1>12, <1>13, <1>14, <1>15, <1>16, <1>17, <1>18, <1>19, <1>20, <1>21 DEF Next, ThreadStep

\* Every state the session reaches is of the declared types: the bounds of
\* tokens and generations hold because every step that makes one is guarded,
\* and every scope in use names an account (restore, scope, next_generation).
THEOREM TypeCorrect == Spec => []TypeOK
<1>1. QED BY TypeInit, TypeStep, PTL DEF Spec

---------------------------------------------------------------------------
(* Whose rows the cache holds.                                             *)

LEMMA CacheInit == Init => CacheInv
BY NoneAssumption DEF Init, CacheInv

LEMMA ClearSessionKeepsCache ==
  ASSUME CacheInv, NEW forget \in BOOLEAN, ClearSession(forget), acct' \in {acct, None}
  PROVE  CacheInv'
BY DEF CacheInv, ClearSession

LEMMA ClearLocalKeepsCache ==
  ASSUME CacheInv, NEW t, NEW forget \in BOOLEAN, NEW done, ClearLocal(t, forget, done)
  PROVE  CacheInv'
<1>1. CASE UNCHANGED <<disk, memory, uiDue>>
  BY <1>1 DEF CacheInv, disk, memory
<1>2. CASE ClearSession(forget) /\ ClearState
  BY <1>2, ClearSessionKeepsCache DEF ClearState
<1>3. QED
  BY <1>1, <1>2 DEF ClearLocal

LEMMA CacheStep == TypeOK /\ CacheInv /\ [Next]_vars => CacheInv'
<1> SUFFICES ASSUME TypeOK, CacheInv, [Next]_vars PROVE CacheInv'
  OBVIOUS
<1>1. CASE UNCHANGED <<acct, credAcct, owner, rows>>
  BY <1>1 DEF CacheInv
<1>2. ASSUME NEW t \in Threads,
             \/ TakeScope(t) \/ AnswerArrives(t) \/ Confirm(t) \/ ScopedFailure(t)
             \/ ScopedRejection(t) \/ PushExpired(t)
             \/ \E a \in Accounts : Authenticate(t, a)
             \/ LogoutBegin(t) \/ LogoutAnswered(t) \/ JournalDeletion(t)
             \/ BeginAccountDeletion(t) \/ RemoveAccountFiles(t)
      PROVE  UNCHANGED <<acct, credAcct, owner, rows>>
  BY <1>2 DEF TakeScope, AnswerArrives, Confirm, ScopedFailure, ScopedRejection,
       PushExpired, Authenticate, LogoutBegin, LogoutAnswered, JournalDeletion,
       BeginAccountDeletion, RemoveAccountFiles, memory, disk
<1>3. ASSUME NEW t \in Threads, CommitIfCurrent(t) PROVE CacheInv'
  <2>1. CASE IsCurrent(held[t]) /\ rows' = rows \cup {held[t].acct}
    <3>1. held[t].acct = acct /\ acct # None
      BY <1>3, <2>1, NoneAssumption
      DEF CommitIfCurrent, IsCurrent, TypeOK, ThreadsType, Scoped
    <3>2. QED
      BY <1>3, <2>1, <3>1 DEF CommitIfCurrent, CacheInv, memory
  <2>2. CASE UNCHANGED rows
    BY <1>3, <2>2 DEF CommitIfCurrent, CacheInv, memory
  <2>3. QED
    BY <1>3, <2>1, <2>2 DEF CommitIfCurrent
<1>4. ASSUME NEW t \in Threads, CommitCredentials(t) PROVE CacheInv'
  <2> DEFINE a == held[t].acct
  <2>1. a # None
    BY <1>4, NoneAssumption DEF CommitCredentials, TypeOK, ThreadsType
  <2>2. rows' \subseteq {a}
    <3>1. CASE SwitchedAccount(a)
      BY <1>4, <3>1 DEF CommitCredentials
    <3>2. CASE ~SwitchedAccount(a)
      <4>1. rows' = rows
        BY <1>4, <3>2 DEF CommitCredentials
      <4>2. rows = {} \/ CacheOwner = a
        BY <3>2 DEF SwitchedAccount
      <4>3. CacheOwner = a => rows \subseteq {a}
        BY <2>1 DEF CacheOwner, CacheInv
      <4>4. QED
        BY <4>1, <4>2, <4>3
    <3>3. QED
      BY <3>1, <3>2
  <2>3. QED
    BY <1>4, <2>1, <2>2 DEF CommitCredentials, CacheInv
<1>5. ASSUME NEW t \in Threads, CommitCredentialsFails(t) PROVE CacheInv'
  BY <1>5, ClearSessionKeepsCache DEF CommitCredentialsFails, CacheInv, memory, disk
<1>6. ASSUME NEW t \in Threads, NEW forget \in BOOLEAN, SignOut(t, forget) PROVE CacheInv'
  BY <1>6, ClearLocalKeepsCache DEF SignOut
<1>7. ASSUME NEW t \in Threads, ClearDeletedAccount(t) PROVE CacheInv'
  BY <1>7, ClearLocalKeepsCache DEF ClearDeletedAccount
<1>8. ASSUME (\E k \in Tokens : Revoke(k)) \/ UiReadStatus \/ UNCHANGED vars
      PROVE  UNCHANGED <<acct, credAcct, owner, rows>>
  BY <1>8 DEF Revoke, UiReadStatus, vars, memory, disk
<1>9. CASE Restart
  BY <1>9 DEF Restart, CacheInv, disk
<1>10. QED
  BY <1>1, <1>2, <1>3, <1>4, <1>5, <1>6, <1>7, <1>8, <1>9 DEF Next, ThreadStep

\* The cache holds rows of the signed-in account alone, whatever sign-ins,
\* sign-outs, deletions, failed writes and restarts came before
\* (commit_credentials, clear_session, commit_if_current).
THEOREM CacheCorrect == Spec => []CacheIsTheAccounts
<1>1. CacheInv => CacheIsTheAccounts
  BY DEF CacheInv, CacheIsTheAccounts
<1>2. QED
  BY <1>1, TypeInit, TypeStep, CacheInit, CacheStep, PTL DEF Spec

\* A restart finds the credentials of the account in memory, or none.
THEOREM RestartCorrect == Spec => []RestartKeepsTheAccount
<1>1. CacheInv => RestartKeepsTheAccount
  BY DEF CacheInv, RestartKeepsTheAccount
<1>2. QED
  BY <1>1, TypeInit, TypeStep, CacheInit, CacheStep, PTL DEF Spec

---------------------------------------------------------------------------
(* What a scope's generation says.                                         *)

\* The ways a step changes what SessionState knows of its sign-in: not at
\* all, by replacing or clearing it, by starting its deletion, by expiring it.
Replaced == NextGeneration /\ expired' = FALSE
Deleted  == NextGeneration /\ deleting' = TRUE
Expired  == NextGeneration /\ UNCHANGED <<acct, tok, deleting>> /\ ~expired

LEMMA MemorySteps ==
  Next => UNCHANGED memory \/ Replaced \/ Deleted \/ Expired \/ Restart
<1>1. ASSUME NEW t \in Threads,
             \/ TakeScope(t) \/ AnswerArrives(t) \/ Confirm(t) \/ CommitIfCurrent(t)
             \/ ScopedFailure(t) \/ PushExpired(t)
             \/ \E a \in Accounts : Authenticate(t, a)
             \/ CommitCredentialsFails(t) \/ LogoutBegin(t) \/ LogoutAnswered(t)
             \/ JournalDeletion(t) \/ RemoveAccountFiles(t)
      PROVE  UNCHANGED memory
  BY <1>1 DEF TakeScope, AnswerArrives, Confirm, CommitIfCurrent, ScopedFailure,
       PushExpired, Authenticate, CommitCredentialsFails, LogoutBegin, LogoutAnswered,
       JournalDeletion, RemoveAccountFiles
<1>2. ASSUME NEW t \in Threads, ScopedRejection(t) PROVE UNCHANGED memory \/ Expired
  BY <1>2 DEF ScopedRejection, Expired, memory
<1>3. ASSUME NEW t \in Threads, CommitCredentials(t) PROVE Replaced
  BY <1>3 DEF CommitCredentials, Replaced
<1>4. ASSUME NEW t \in Threads, BeginAccountDeletion(t) PROVE UNCHANGED memory \/ Deleted
  BY <1>4 DEF BeginAccountDeletion, Deleted, memory
<1>5. ASSUME NEW t \in Threads, NEW forget \in BOOLEAN,
             SignOut(t, forget) \/ ClearDeletedAccount(t)
      PROVE  UNCHANGED memory \/ Replaced
  BY <1>5 DEF SignOut, ClearDeletedAccount, ClearLocal, ClearState, Replaced
<1>6. ASSUME (\E k \in Tokens : Revoke(k)) \/ UiReadStatus PROVE UNCHANGED memory
  BY <1>6 DEF Revoke, UiReadStatus
<1>7. QED
  BY <1>1, <1>2, <1>3, <1>4, <1>5, <1>6 DEF Next, ThreadStep

\* A thread that has a scope after a step had it before, or has just taken it.
LEMMA ScopeSteps ==
  ASSUME ThreadsType, Next, NEW u \in Threads, pc'[u] \in Scoped
  PROVE  \/ pc[u] \in Scoped /\ held'[u] = held[u]
         \/ held'[u] = TheScope /\ UNCHANGED memory
<1>1. ASSUME NEW t \in Threads, TakeScope(t) PROVE ~(t = u) => pc[u] \in Scoped /\ held'[u] = held[u]
  BY <1>1 DEF TakeScope, Goto, Hold, ThreadsType
<1>2. ASSUME NEW t \in Threads, TakeScope(t), t = u PROVE held'[u] = TheScope /\ UNCHANGED memory
  BY <1>2 DEF TakeScope, Hold, ThreadsType
<1>3. ASSUME NEW t \in Threads,
             \/ AnswerArrives(t) \/ Confirm(t) \/ CommitIfCurrent(t) \/ ScopedFailure(t)
             \/ ScopedRejection(t) \/ PushExpired(t)
      PROVE  pc[u] \in Scoped /\ held'[u] = held[u]
  BY <1>3 DEF AnswerArrives, Confirm, CommitIfCurrent, ScopedFailure, ScopedRejection,
       PushExpired, Finish, Goto, Hold, ThreadsType, Scoped, Steps
<1>4. ASSUME NEW t \in Threads,
             \/ \E a \in Accounts : Authenticate(t, a)
             \/ CommitCredentials(t) \/ CommitCredentialsFails(t)
             \/ LogoutBegin(t) \/ LogoutAnswered(t) \/ JournalDeletion(t)
             \/ BeginAccountDeletion(t) \/ RemoveAccountFiles(t)
             \/ ClearDeletedAccount(t)
             \/ \E forget \in BOOLEAN : SignOut(t, forget)
      PROVE  pc[u] \in Scoped /\ held'[u] = held[u]
  BY <1>4 DEF Authenticate, CommitCredentials, CommitCredentialsFails, LogoutBegin,
       LogoutAnswered, JournalDeletion, BeginAccountDeletion, RemoveAccountFiles,
       ClearDeletedAccount, SignOut, ClearLocal, Finish, Goto, Hold, ThreadsType, Scoped, Steps
<1>5. ASSUME (\E k \in Tokens : Revoke(k)) \/ UiReadStatus
      PROVE  pc[u] \in Scoped /\ held'[u] = held[u]
  BY <1>5 DEF Revoke, UiReadStatus, threads
<1>6. ~Restart
  BY DEF Restart, Scoped
<1>7. QED
  BY <1>1, <1>2, <1>3, <1>4, <1>5, <1>6 DEF Next, ThreadStep

\* What a scope's generation says stays true as the session changes: it only
\* grows, and it grows with every change of sign-in.
LEMMA KnowsStep ==
  ASSUME TypeOK, NEW s \in Holding, KnowsItsSignIn(s),
         UNCHANGED memory \/ Replaced \/ Deleted \/ Expired
  PROVE  s.gen \leq gen' /\ (s.gen = gen' => s.acct = acct' /\ s.tok = tok')
         /\ (s.gen + 1 = gen' /\ expired' /\ ~deleting' => s.acct = acct' /\ s.tok = tok')
<1>1. gen \in Nat /\ s.gen \in Nat
  BY Bounds DEF TypeOK, DataType, Holding
<1>2. CASE UNCHANGED memory
  BY <1>2 DEF KnowsItsSignIn, memory
<1>3. CASE Replaced \/ Deleted
  BY <1>1, <1>3 DEF KnowsItsSignIn, Replaced, Deleted, NextGeneration
<1>4. CASE Expired
  BY <1>1, <1>4 DEF KnowsItsSignIn, Expired, NextGeneration
<1>5. QED
  BY <1>2, <1>3, <1>4

LEMMA ScopesStep == TypeOK /\ ScopesKnowTheirSignIn /\ [Next]_vars => ScopesKnowTheirSignIn'
<1> SUFFICES ASSUME TypeOK, ScopesKnowTheirSignIn, [Next]_vars, NEW u \in Threads,
                    pc'[u] \in Scoped
             PROVE  KnowsItsSignIn(held[u])'
  BY DEF ScopesKnowTheirSignIn
<1>1. CASE UNCHANGED vars
  BY <1>1 DEF vars, memory, threads, ScopesKnowTheirSignIn, KnowsItsSignIn
<1>2. CASE Next
  <2>1. UNCHANGED memory \/ Replaced \/ Deleted \/ Expired
    BY <1>2, MemorySteps DEF Restart, Scoped
  <2>2. CASE pc[u] \in Scoped /\ held'[u] = held[u]
    <3>1. held[u] \in Holding /\ KnowsItsSignIn(held[u])
      BY <2>2 DEF TypeOK, ThreadsType, ScopesKnowTheirSignIn
    <3>2. QED
      BY <2>1, <2>2, <3>1, KnowsStep DEF KnowsItsSignIn
  <2>3. CASE held'[u] = TheScope /\ UNCHANGED memory
    <3>1. gen \in Nat
      BY Bounds DEF TypeOK, DataType
    <3>2. QED
      BY <2>3, <3>1 DEF TheScope, KnowsItsSignIn, memory
  <2>4. QED
    BY <1>2, <2>2, <2>3, ScopeSteps DEF TypeOK
<1>3. QED
  BY <1>1, <1>2

\* The server never un-revokes a token.
LEMMA RevokedGrows == [Next]_vars => revoked \subseteq revoked'
<1>1. ASSUME NEW t \in Threads, LogoutAnswered(t) PROVE revoked \subseteq revoked'
  BY <1>1 DEF LogoutAnswered
<1>2. ASSUME NEW t \in Threads,
             \/ TakeScope(t) \/ AnswerArrives(t) \/ Confirm(t) \/ CommitIfCurrent(t)
             \/ ScopedFailure(t) \/ ScopedRejection(t) \/ PushExpired(t)
             \/ \E a \in Accounts : Authenticate(t, a)
             \/ CommitCredentials(t) \/ CommitCredentialsFails(t) \/ LogoutBegin(t)
             \/ \E forget \in BOOLEAN : SignOut(t, forget)
             \/ JournalDeletion(t) \/ BeginAccountDeletion(t)
             \/ RemoveAccountFiles(t) \/ ClearDeletedAccount(t)
      PROVE  revoked' = revoked
  BY <1>2 DEF TakeScope, AnswerArrives, Confirm, CommitIfCurrent, ScopedFailure,
       ScopedRejection, PushExpired, Authenticate, CommitCredentials,
       CommitCredentialsFails, LogoutBegin, SignOut, ClearLocal, JournalDeletion,
       BeginAccountDeletion, RemoveAccountFiles, ClearDeletedAccount, server
<1>3. ASSUME (\E k \in Tokens : Revoke(k)) \/ UiReadStatus \/ Restart
      PROVE  revoked \subseteq revoked'
  BY <1>3 DEF Revoke, UiReadStatus, Restart, server
<1>4. QED
  BY <1>1, <1>2, <1>3 DEF Next, ThreadStep, vars, server

\* A rejection stays justified.
LEMMA RejectionsStep == TypeOK /\ RejectionsAreReal /\ [Next]_vars => RejectionsAreReal'
<1> SUFFICES ASSUME TypeOK, RejectionsAreReal, [Next]_vars, NEW u \in Threads,
                    pc'[u] = "rejected"
             PROVE  held'[u].tok \in revoked'
  BY DEF RejectionsAreReal
<1>1. CASE UNCHANGED vars
  BY <1>1 DEF vars, server, threads, RejectionsAreReal
<1>2. CASE Next
  <2>1. revoked \subseteq revoked'
    BY RevokedGrows
  <2>2. CASE \E t \in Threads : AnswerArrives(t)
    BY <2>1, <2>2 DEF AnswerArrives, Goto, RejectionsAreReal, TypeOK, ThreadsType
  <2>3. CASE ~ \E t \in Threads : AnswerArrives(t)
    <3>1. pc[u] = "rejected" /\ held'[u] = held[u]
      <4>1. ASSUME NEW t \in Threads,
                   \/ TakeScope(t) \/ Confirm(t) \/ CommitIfCurrent(t) \/ ScopedFailure(t)
                   \/ ScopedRejection(t) \/ PushExpired(t)
                   \/ \E a \in Accounts : Authenticate(t, a)
                   \/ CommitCredentials(t) \/ CommitCredentialsFails(t)
            PROVE  pc[u] = "rejected" /\ held'[u] = held[u]
        BY <4>1 DEF TakeScope, Confirm, CommitIfCurrent, ScopedFailure, ScopedRejection,
             PushExpired, Authenticate, CommitCredentials, CommitCredentialsFails,
             Finish, Goto, Hold, TypeOK, ThreadsType
      <4>2. ASSUME NEW t \in Threads,
                   \/ LogoutBegin(t) \/ LogoutAnswered(t) \/ JournalDeletion(t)
                   \/ BeginAccountDeletion(t) \/ RemoveAccountFiles(t)
                   \/ ClearDeletedAccount(t)
                   \/ \E forget \in BOOLEAN : SignOut(t, forget)
            PROVE  pc[u] = "rejected" /\ held'[u] = held[u]
        BY <4>2 DEF LogoutBegin, LogoutAnswered, JournalDeletion, BeginAccountDeletion,
             RemoveAccountFiles, ClearDeletedAccount, SignOut, ClearLocal,
             Finish, Goto, Hold, TypeOK, ThreadsType
      <4>3. ASSUME (\E k \in Tokens : Revoke(k)) \/ UiReadStatus
            PROVE  pc[u] = "rejected" /\ held'[u] = held[u]
        BY <4>3 DEF Revoke, UiReadStatus, threads
      <4>4. ~Restart
        BY DEF Restart
      <4>5. QED
        BY <1>2, <2>3, <4>1, <4>2, <4>3, <4>4 DEF Next, ThreadStep
    <3>2. QED
      BY <2>1, <3>1 DEF RejectionsAreReal
  <2>4. QED
    BY <2>2, <2>3
<1>3. QED
  BY <1>1, <1>2

LEMMA ExpiredStep ==
  TypeOK /\ ScopesKnowTheirSignIn /\ RejectionsAreReal /\ ExpiredByItsOwnToken /\ [Next]_vars
  => ExpiredByItsOwnToken'
<1> SUFFICES ASSUME TypeOK, ScopesKnowTheirSignIn, RejectionsAreReal, ExpiredByItsOwnToken,
                    [Next]_vars, expired'
             PROVE  tok' \in revoked'
  BY DEF ExpiredByItsOwnToken
<1>1. CASE expired /\ tok' = tok
  BY <1>1, RevokedGrows DEF ExpiredByItsOwnToken
<1>2. ASSUME NEW t \in Threads, ScopedRejection(t), ~expired PROVE tok' \in revoked'
  <2>1. OwnsFailure(held[t]) /\ pc[t] = "rejected" /\ UNCHANGED <<tok, revoked>>
    BY <1>2 DEF ScopedRejection, server
  <2>2. held[t].tok = tok
    BY <1>2, <2>1 DEF OwnsFailure, IsCurrent, ExpiredItself, ScopesKnowTheirSignIn,
                  KnowsItsSignIn, Scoped
  <2>3. QED
    BY <2>1, <2>2 DEF RejectionsAreReal
<1>3. (expired /\ tok' = tok) \/ \E t \in Threads : ScopedRejection(t) /\ ~expired
  <2>1. ASSUME NEW t \in Threads,
               \/ TakeScope(t) \/ AnswerArrives(t) \/ Confirm(t) \/ CommitIfCurrent(t)
               \/ ScopedFailure(t) \/ PushExpired(t)
               \/ \E a \in Accounts : Authenticate(t, a)
               \/ CommitCredentialsFails(t) \/ LogoutBegin(t) \/ LogoutAnswered(t)
               \/ JournalDeletion(t) \/ BeginAccountDeletion(t) \/ RemoveAccountFiles(t)
        PROVE  expired /\ tok' = tok
    BY <2>1 DEF TakeScope, AnswerArrives, Confirm, CommitIfCurrent, ScopedFailure,
         PushExpired, Authenticate, CommitCredentialsFails, LogoutBegin, LogoutAnswered,
         JournalDeletion, BeginAccountDeletion, RemoveAccountFiles, memory
  <2>2. ASSUME NEW t \in Threads, ScopedRejection(t) PROVE tok' = tok
    BY <2>2 DEF ScopedRejection
  <2>3. ASSUME NEW t \in Threads, NEW forget \in BOOLEAN,
               SignOut(t, forget) \/ ClearDeletedAccount(t)
        PROVE  expired /\ tok' = tok
    BY <2>3 DEF SignOut, ClearDeletedAccount, ClearLocal, ClearState, memory
  <2>4. ASSUME NEW t \in Threads, CommitCredentials(t) PROVE FALSE
    BY <2>4 DEF CommitCredentials
  <2>5. CASE (\E k \in Tokens : Revoke(k)) \/ UiReadStatus \/ UNCHANGED vars
    BY <2>5 DEF Revoke, UiReadStatus, vars, memory
  <2>6. ~Restart
    BY DEF Restart
  <2>7. expired = TRUE \/ expired = FALSE
    BY DEF TypeOK, DataType
  <2>8. QED
    BY <2>1, <2>2, <2>3, <2>4, <2>5, <2>6, <2>7 DEF Next, ThreadStep
<1>4. QED
  BY <1>1, <1>2, <1>3

LEMMA InvInit == Init => Inv
BY CacheInit DEF Init, Inv, ScopesKnowTheirSignIn, RejectionsAreReal, ExpiredByItsOwnToken, Scoped

LEMMA InvStep == TypeOK /\ Inv /\ [Next]_vars => Inv'
BY CacheStep, ScopesStep, RejectionsStep, ExpiredStep DEF Inv

LEMMA Invariant == Spec => [](TypeOK /\ Inv)
BY TypeInit, TypeStep, InvInit, InvStep, PTL DEF Spec

\* Only the server's rejection of the very token the session holds expires it
\* (scoped_error).
THEOREM ExpiryCorrect == Spec => []ExpiredByItsOwnToken
<1>1. Inv => ExpiredByItsOwnToken
  BY DEF Inv
<1>2. QED
  BY <1>1, Invariant, PTL

---------------------------------------------------------------------------
(* What a step may never do.                                               *)

\* A step that uses an answer is Confirm, CommitIfCurrent or ScopedRejection
\* of its thread, and each holds the answer's scope against the session.
LEMMA UseStep ==
  ASSUME TypeOK, Inv, [Next]_vars, NEW u \in Threads,
         pc[u] \in Scoped, reply'[u] # reply[u], reply'[u] \in Uses
  PROVE  held[u].tok = tok
<1>1. KnowsItsSignIn(held[u])
  BY DEF Inv, ScopesKnowTheirSignIn
<1>2. SUFFICES IsCurrent(held[u]) \/ ExpiredItself(held[u])
  BY <1>1, <1>2 DEF KnowsItsSignIn, IsCurrent, ExpiredItself
<1>3. ASSUME NEW t \in Threads,
             \/ TakeScope(t) \/ AnswerArrives(t) \/ ScopedFailure(t) \/ PushExpired(t)
             \/ \E a \in Accounts : Authenticate(t, a)
             \/ CommitCredentials(t) \/ CommitCredentialsFails(t)
      PROVE  FALSE
  BY <1>3 DEF TakeScope, AnswerArrives, ScopedFailure, PushExpired, Authenticate,
       CommitCredentials, CommitCredentialsFails, Finish, Goto, Answer, Uses, Scoped,
       TypeOK, ThreadsType
<1>4. ASSUME NEW t \in Threads,
             \/ LogoutBegin(t) \/ LogoutAnswered(t) \/ JournalDeletion(t)
             \/ BeginAccountDeletion(t) \/ RemoveAccountFiles(t)
             \/ ClearDeletedAccount(t)
             \/ \E forget \in BOOLEAN : SignOut(t, forget)
      PROVE  FALSE
  BY <1>4 DEF LogoutBegin, LogoutAnswered, JournalDeletion, BeginAccountDeletion,
       RemoveAccountFiles, ClearDeletedAccount, SignOut, ClearLocal, Finish, Goto, Answer,
       Uses, Scoped, TypeOK, ThreadsType
<1>5. ASSUME (\E k \in Tokens : Revoke(k)) \/ UiReadStatus \/ Restart \/ UNCHANGED vars
      PROVE  FALSE
  BY <1>5 DEF Revoke, UiReadStatus, Restart, vars, threads, Uses
<1>6. ASSUME NEW t \in Threads, Confirm(t) \/ CommitIfCurrent(t)
      PROVE  IsCurrent(held[u]) \/ ExpiredItself(held[u])
  BY <1>6 DEF Confirm, CommitIfCurrent, Finish, Answer, Uses, TypeOK, ThreadsType
<1>7. ASSUME NEW t \in Threads, ScopedRejection(t)
      PROVE  IsCurrent(held[u]) \/ ExpiredItself(held[u])
  BY <1>7 DEF ScopedRejection, OwnsFailure, Finish, Answer, Uses, TypeOK, ThreadsType
<1>8. QED
  BY <1>3, <1>4, <1>5, <1>6, <1>7 DEF Next, ThreadStep

\* An answer is shown, cached or reported as a rejection only while the sign-in
\* it was fetched for is the session's (confirm, commit_if_current,
\* scoped_error).
THEOREM AnswersCorrect == Spec => AnswersReachTheirSignIn
<1>1. TypeOK /\ Inv /\ [Next]_vars =>
        [\A t \in Threads :
           (pc[t] \in Scoped /\ reply'[t] # reply[t] /\ reply'[t] \in Uses)
             => held[t].tok = tok]_vars
  BY UseStep
<1>2. QED
  BY <1>1, Invariant, PTL DEF Spec, AnswersReachTheirSignIn

\* Rows are added by commit_if_current alone, which a deletion holds off.
THEOREM DeletionCorrect == Spec => DeletionFreezesCache
<1>1. [Next]_vars => [deleting /\ deleting' => rows' \subseteq rows]_vars
  <2> SUFFICES ASSUME Next, deleting PROVE rows' \subseteq rows
    OBVIOUS
  <2>1. ASSUME NEW t \in Threads,
               \/ TakeScope(t) \/ AnswerArrives(t) \/ Confirm(t)
               \/ ScopedFailure(t) \/ ScopedRejection(t) \/ PushExpired(t)
               \/ \E a \in Accounts : Authenticate(t, a)
               \/ LogoutBegin(t) \/ LogoutAnswered(t)
               \/ JournalDeletion(t) \/ BeginAccountDeletion(t) \/ RemoveAccountFiles(t)
        PROVE  rows' = rows
    BY <2>1 DEF TakeScope, AnswerArrives, Confirm, ScopedFailure, ScopedRejection,
         PushExpired, Authenticate, LogoutBegin, LogoutAnswered, JournalDeletion,
         BeginAccountDeletion, RemoveAccountFiles, disk
  <2>2. ASSUME NEW t \in Threads, CommitIfCurrent(t) PROVE rows' = rows
    BY <2>2 DEF CommitIfCurrent, IsCurrent
  <2>3. ASSUME NEW t \in Threads, CommitCredentials(t) \/ CommitCredentialsFails(t)
        PROVE  rows' \subseteq rows
    BY <2>3 DEF CommitCredentials, CommitCredentialsFails, ClearSession, disk
  <2>4. ASSUME NEW t \in Threads, NEW forget \in BOOLEAN,
               SignOut(t, forget) \/ ClearDeletedAccount(t)
        PROVE  rows' \subseteq rows
    BY <2>4 DEF SignOut, ClearDeletedAccount, ClearLocal, ClearSession, disk
  <2>5. ASSUME (\E k \in Tokens : Revoke(k)) \/ UiReadStatus \/ Restart PROVE rows' = rows
    BY <2>5 DEF Revoke, UiReadStatus, Restart, disk
  <2>6. QED
    BY <2>1, <2>2, <2>3, <2>4, <2>5 DEF Next, ThreadStep
<1>2. QED
  BY <1>1, PTL DEF Spec, DeletionFreezesCache

--------------------------------------------------------------------------------
(* Rows.  A row id may be taken again after its row was deleted, so what keeps   *)
(* the genre table true is that no two rows have one id at a time (RowsDiffer),  *)
(* and that the table is exactly that of the rows that are there (GenresFollow). *)

RowsFresh == \A i \in ItemIds : itemRows[i].row <= writes
RowsDiffer == \A i, j \in ItemIds : Present(i) /\ itemRows[i].row = itemRows[j].row => i = j
Holds(i, p) == Present(i) /\ p[1] \in itemRows[i].genres /\ p[2] = itemRows[i].row
GenresFollow == genreRows = {p \in GenreNames \X RowIds : \E i \in ItemIds : Holds(i, p)}
RowsInv == RowsTypeOK /\ RowsFresh /\ RowsDiffer /\ GenresFollow

\* What a row is.
LEMMA RowFacts ==
  ASSUME RowsTypeOK, NEW i \in ItemIds
  PROVE  /\ itemRows[i].row \in 0 .. MaxWrites
         /\ Present(i) <=> itemRows[i].row # 0
         /\ Present(i) => itemRows[i] \in Rows /\ itemRows[i].row \in RowIds /\ itemRows[i].genres \subseteq GenreNames
<1>0. MaxWrites \in Nat
  BY CatalogRowsAssumption
<1>1. itemRows[i] \in Rows \cup {Absent}
  BY DEF RowsTypeOK
<1>2. CASE itemRows[i] \in Rows
  <2>1. PICK r \in RowIds, d \in Dtos : itemRows[i] = [row |-> r, genres |-> d.genres, virtual |-> d.virtual]
    BY <1>2 DEF Rows
  <2>2. itemRows[i].row = r /\ r \in 1 .. MaxWrites /\ itemRows[i].genres \subseteq GenreNames
    BY <2>1 DEF RowIds, Dtos
  <2>3. Absent.row = 0
    BY DEF Absent
  <2> QED
    BY <1>0, <1>2, <2>2, <2>3 DEF Present, RowIds
<1>3. CASE itemRows[i] = Absent
  BY <1>0, <1>3 DEF Absent, Present
<1> QED
  BY <1>1, <1>2, <1>3

\* The id of a new row is above those there are, and no greater than the number of
\* writes.
LEMMA FreeRowIsFree ==
  ASSUME RowsTypeOK, RowsFresh
  PROVE  FreeRow \in 1 .. writes + 1 /\ \A i \in ItemIds : itemRows[i].row < FreeRow
<1> DEFINE S == {itemRows[i].row : i \in ItemIds}
<1>1. writes \in Nat
  BY CatalogRowsAssumption DEF RowsTypeOK
<1>2. \A i \in ItemIds : itemRows[i].row \in 0 .. writes
  BY <1>1, RowFacts, CatalogRowsAssumption DEF RowsFresh
<1>3. S \in SUBSET (0 .. writes) /\ S # {}
  BY <1>2 DEF ItemIds
<1>4. \E m \in S : \A x \in S : m >= x
  <2>1. PICK m \in S : \A x \in S : x <= m
    BY <1>1, <1>3, GreatestExists
  <2>2. \A x \in S : x \in Nat /\ m \in Nat
    BY <1>3
  <2> QED
    BY <2>1, <2>2
<1>5. Max(S) \in S /\ \A x \in S : Max(S) >= x
  BY <1>4 DEF Max
<1>6. FreeRow = 1 + Max(S)
  BY DEF FreeRow
<1>7. \A i \in ItemIds : itemRows[i].row \in S
  OBVIOUS
<1> HIDE DEF S
<1>8. Max(S) \in 0 .. writes
  BY <1>3, <1>5
<1>9. ASSUME NEW i \in ItemIds PROVE itemRows[i].row < FreeRow
  BY <1>1, <1>2, <1>5, <1>6, <1>7, <1>8
<1> QED
  BY <1>1, <1>6, <1>8, <1>9

\* A row that is written keeps its id, or has one that no other row has.
LEMMA UpsertedIsFree ==
  ASSUME RowsInv, writes < MaxWrites, NEW i \in ItemIds, NEW dto \in Dtos
  PROVE  /\ Upserted(i, dto) \in Rows /\ Upserted(i, dto) # Absent
         /\ Upserted(i, dto).row \in RowIds /\ Upserted(i, dto).row <= writes + 1
         /\ Upserted(i, dto).genres \subseteq GenreNames
         /\ Present(i) => Upserted(i, dto).row = itemRows[i].row
         /\ \A j \in ItemIds \ {i} : itemRows[j].row # Upserted(i, dto).row
<1> DEFINE new == Upserted(i, dto)
<1>1. writes \in Nat /\ MaxWrites \in Nat
  BY CatalogRowsAssumption DEF RowsInv, RowsTypeOK
<1>2. FreeRow \in 1 .. writes + 1 /\ \A j \in ItemIds : itemRows[j].row < FreeRow
  BY FreeRowIsFree DEF RowsInv
<1>3. \A j \in ItemIds : itemRows[j].row \in 0 .. MaxWrites /\ (Present(j) => itemRows[j].row \in RowIds)
  BY RowFacts DEF RowsInv
<1>4. \A j \in ItemIds : itemRows[j].row <= writes
  BY DEF RowsInv, RowsFresh
<1>5. /\ new.row = IF Present(i) THEN itemRows[i].row ELSE FreeRow
      /\ new = [row |-> new.row, genres |-> dto.genres, virtual |-> dto.virtual]
      /\ new.genres = dto.genres
  BY DEF Upserted
<1> HIDE DEF new
<1>6. new.row \in RowIds /\ new.row <= writes + 1
  <2>1. RowIds = 1 .. MaxWrites
    BY DEF RowIds
  <2>2. itemRows[i].row \in 0 .. MaxWrites /\ itemRows[i].row <= writes /\ (Present(i) => itemRows[i].row \in RowIds)
    BY <1>3, <1>4
  <2> QED
    BY <1>1, <1>2, <1>5, <2>1, <2>2
<1>7. new \in Rows /\ new.genres \subseteq GenreNames
  BY <1>5, <1>6 DEF Rows, Dtos
<1>8. new # Absent
  <2>1. new.row # 0 /\ Absent.row = 0
    BY <1>6 DEF Absent, RowIds
  <2> QED
    BY <2>1
<1>9. ASSUME NEW j \in ItemIds \ {i} PROVE itemRows[j].row # new.row
  <2>1. CASE Present(i)
    BY <1>5, <2>1 DEF RowsInv, RowsDiffer
  <2>2. CASE ~Present(i)
    BY <1>2, <1>3, <1>5, <2>2
  <2> QED
    BY <2>1, <2>2
<1> QED
  BY <1>5, <1>6, <1>7, <1>8, <1>9 DEF new

\* A row written and some deleted: the table of the rows and that of their genres.
LEMMA RowsWritten ==
  ASSUME RowsInv, Writes, NEW i \in ItemIds, NEW dto \in Dtos, NEW gone \in SUBSET (ItemIds \ {i}),
         itemRows' = [j \in ItemIds |-> IF j \in gone THEN Absent ELSE IF j = i THEN Upserted(i, dto) ELSE itemRows[j]],
         genreRows' = GenresDeleted(GenresUpserted(itemRows[i], Upserted(i, dto)), gone)
  PROVE  /\ RowsFresh' /\ RowsDiffer' /\ GenresFollow' /\ writes' \in 0 .. MaxWrites
         /\ itemRows' \in [ItemIds -> Rows \cup {Absent}]
<1> DEFINE new == Upserted(i, dto)
           Upserts == GenresUpserted(itemRows[i], new)
<1>1. writes \in Nat /\ MaxWrites \in Nat /\ writes < MaxWrites /\ writes' = writes + 1
  BY CatalogRowsAssumption DEF RowsInv, RowsTypeOK, Writes
<1>2. /\ new \in Rows /\ new # Absent /\ new.row \in RowIds /\ new.row <= writes + 1 /\ new.genres \subseteq GenreNames
      /\ Present(i) => new.row = itemRows[i].row
      /\ \A j \in ItemIds \ {i} : itemRows[j].row # new.row
  BY <1>1, UpsertedIsFree
<1>3. \A j \in ItemIds : /\ itemRows[j].row \in 0 .. MaxWrites /\ (Present(j) <=> itemRows[j].row # 0)
                         /\ Present(j) => itemRows[j].row \in RowIds /\ itemRows[j].genres \subseteq GenreNames
  BY RowFacts DEF RowsInv
<1>4. /\ \A j \in gone : itemRows'[j] = Absent
      /\ itemRows'[i] = new
      /\ \A j \in ItemIds : j # i /\ j \notin gone => itemRows'[j] = itemRows[j]
  OBVIOUS
<1>5. Absent.row = 0
  BY DEF Absent
<1>6. \A p : p \in genreRows <=> p \in GenreNames \X RowIds /\ \E j \in ItemIds : Holds(j, p)
  BY DEF RowsInv, GenresFollow
<1>7. \A j, k \in ItemIds : Present(j) /\ itemRows[j].row = itemRows[k].row => j = k
  BY DEF RowsInv, RowsDiffer
<1>8. itemRows' \in [ItemIds -> Rows \cup {Absent}]
  BY <1>2 DEF RowsInv, RowsTypeOK
<1>9. genreRows' = {p \in Upserts : p[2] \notin {itemRows[j].row : j \in gone}}
  BY DEF GenresDeleted
<1>10. \A j \in ItemIds : Present(j)' <=> (j \notin gone /\ (j = i \/ Present(j)))
  BY <1>2, <1>4 DEF Present
<1>11. \A p : p \in Upserts <=>
         /\ p \in GenreNames \X RowIds
         /\ \/ p[1] \in new.genres /\ p[2] = new.row
            \/ \E j \in ItemIds \ {i} : Holds(j, p)
  <2> DEFINE own == {<<g, new.row>> : g \in new.genres}
  <2>1. \A p : p \in own <=> p \in GenreNames \X RowIds /\ p[2] = new.row /\ p[1] \in new.genres
    <3> HIDE DEF new
    <3> QED
      BY <1>2
  <2>2. Upserts = IF itemRows[i] = Absent THEN genreRows \cup own
                  ELSE IF itemRows[i].genres = new.genres THEN genreRows
                  ELSE {p \in genreRows : p[2] # new.row} \cup own
    BY DEF GenresUpserted
  <2> HIDE DEF new, own, Upserts
  <2>3. CASE ~Present(i)
    BY <1>6, <2>1, <2>2, <2>3 DEF Present, Holds
  <2>4. CASE Present(i) /\ itemRows[i].genres = new.genres
    <3>1. Upserts = genreRows
      BY <2>2, <2>4 DEF Present
    <3>2. \A p : Holds(i, p) <=> p[1] \in new.genres /\ p[2] = new.row
      BY <1>2, <2>4 DEF Holds
    <3> QED
      BY <1>6, <3>1, <3>2
  <2>5. CASE Present(i) /\ itemRows[i].genres # new.genres
    <3>1. Upserts = {p \in genreRows : p[2] # new.row} \cup own
      BY <2>2, <2>5 DEF Present
    <3>2. \A p : Holds(i, p) => p[2] = new.row
      BY <1>2, <2>5 DEF Holds
    <3>3. \A p : \A j \in ItemIds \ {i} : Holds(j, p) => p[2] # new.row
      BY <1>2 DEF Holds
    <3> QED
      BY <1>6, <2>1, <3>1, <3>2, <3>3
  <2> QED
    BY <2>3, <2>4, <2>5
<1>12. GenresFollow'
  <2> HIDE DEF new, Upserts
  <2>1. \A p : \A j \in ItemIds : Holds(j, p)' <=>
          j \notin gone /\ (IF j = i THEN p[1] \in new.genres /\ p[2] = new.row ELSE Holds(j, p))
    BY <1>4, <1>10 DEF Holds
  <2>2. ASSUME NEW p \in GenreNames \X RowIds
        PROVE  p \in genreRows' <=> \E j \in ItemIds : Holds(j, p)'
    <3>1. p[2] # 0
      BY DEF RowIds
    <3>2. CASE p[2] \in {itemRows[j].row : j \in gone}
      <4>1. PICK j \in gone : p[2] = itemRows[j].row
        BY <3>2
      <4>2. Present(j) /\ j \in ItemIds /\ j # i
        BY <1>3, <3>1, <4>1
      <4>3. \A k \in ItemIds : Holds(k, p) => k = j
        BY <1>7, <4>1, <4>2 DEF Holds
      <4>4. p[2] # new.row
        BY <1>2, <4>1, <4>2
      <4> QED
        BY <1>9, <2>1, <3>2, <4>2, <4>3, <4>4
    <3>3. CASE p[2] \notin {itemRows[j].row : j \in gone}
      <4>1. \A k \in gone : ~Holds(k, p)
        BY <3>3 DEF Holds
      <4>2. p \in genreRows' <=> p \in Upserts
        BY <1>9, <3>3
      <4> QED
        BY <1>11, <2>1, <4>1, <4>2
    <3> QED
      BY <3>2, <3>3
  <2>3. genreRows' \subseteq GenreNames \X RowIds
    BY <1>9, <1>11
  <2> QED
    BY <2>2, <2>3 DEF GenresFollow
<1>13. RowsFresh'
  <2> HIDE DEF new
  <2>1. ASSUME NEW j \in ItemIds PROVE itemRows'[j].row <= writes + 1
    <3>1. itemRows[j].row \in 0 .. MaxWrites /\ itemRows[j].row <= writes
      BY <1>3 DEF RowsInv, RowsFresh
    <3> QED
      BY <1>1, <1>2, <1>4, <1>5, <3>1
  <2> QED
    BY <1>1, <2>1 DEF RowsFresh
<1>14. RowsDiffer'
  <2> HIDE DEF new
  <2> SUFFICES ASSUME NEW j \in ItemIds, NEW k \in ItemIds, Present(j)', itemRows'[j].row = itemRows'[k].row
               PROVE  j = k
    BY DEF RowsDiffer
  <2>1. j \notin gone /\ (j = i \/ Present(j))
    BY <1>10
  <2>2. itemRows'[j].row # 0
    BY <1>2, <1>3, <1>4, <2>1 DEF RowIds
  <2>3. k \notin gone
    BY <1>4, <1>5, <2>2
  <2> QED
    BY <1>2, <1>4, <1>7, <2>1, <2>3
<1> QED
  BY <1>1, <1>8, <1>12, <1>13, <1>14

\* The same for rows that are deleted.
LEMMA RowsDeleted ==
  ASSUME RowsInv, Writes, NEW gone \in SUBSET ItemIds,
         itemRows' = [j \in ItemIds |-> IF j \in gone THEN Absent ELSE itemRows[j]],
         genreRows' = GenresDeleted(genreRows, gone)
  PROVE  /\ RowsFresh' /\ RowsDiffer' /\ GenresFollow' /\ writes' \in 0 .. MaxWrites
         /\ itemRows' \in [ItemIds -> Rows \cup {Absent}]
<1>1. writes \in Nat /\ MaxWrites \in Nat /\ writes < MaxWrites /\ writes' = writes + 1
  BY CatalogRowsAssumption DEF RowsInv, RowsTypeOK, Writes
<1>2. \A j \in ItemIds : itemRows[j].row \in 0 .. MaxWrites /\ (Present(j) <=> itemRows[j].row # 0)
  BY RowFacts DEF RowsInv
<1>3. /\ \A j \in gone : itemRows'[j] = Absent
      /\ \A j \in ItemIds : j \notin gone => itemRows'[j] = itemRows[j]
  OBVIOUS
<1>4. Absent.row = 0
  BY DEF Absent
<1>5. \A j \in ItemIds : Present(j)' <=> j \notin gone /\ Present(j)
  BY <1>3 DEF Present
<1>6. itemRows' \in [ItemIds -> Rows \cup {Absent}]
  BY DEF RowsInv, RowsTypeOK
<1>7. \A j, k \in ItemIds : Present(j) /\ itemRows[j].row = itemRows[k].row => j = k
  BY DEF RowsInv, RowsDiffer
<1>8. GenresFollow'
  <2>1. \A p : \A j \in ItemIds : Holds(j, p)' <=> j \notin gone /\ Holds(j, p)
    BY <1>3, <1>5 DEF Holds
  <2>2. \A p : p \in genreRows <=> p \in GenreNames \X RowIds /\ \E j \in ItemIds : Holds(j, p)
    BY DEF RowsInv, GenresFollow
  <2>3. genreRows' = {p \in genreRows : p[2] \notin {itemRows[j].row : j \in gone}}
    BY DEF GenresDeleted
  <2>4. ASSUME NEW p \in GenreNames \X RowIds
        PROVE  p \in genreRows' <=> \E j \in ItemIds : Holds(j, p)'
    <3>1. p[2] # 0
      BY DEF RowIds
    <3>2. CASE p[2] \in {itemRows[j].row : j \in gone}
      <4>1. PICK j \in gone : p[2] = itemRows[j].row
        BY <3>2
      <4>2. Present(j) /\ j \in ItemIds
        BY <1>2, <3>1, <4>1
      <4>3. \A k \in ItemIds : Holds(k, p) => k = j
        BY <1>7, <4>1, <4>2 DEF Holds
      <4> QED
        BY <2>1, <2>3, <3>2, <4>3
    <3>3. CASE p[2] \notin {itemRows[j].row : j \in gone}
      <4>1. \A k \in gone : ~Holds(k, p)
        BY <3>3 DEF Holds
      <4> QED
        BY <2>1, <2>2, <2>3, <3>3, <4>1
    <3> QED
      BY <3>2, <3>3
  <2>5. genreRows' \subseteq GenreNames \X RowIds
    BY <2>2, <2>3
  <2> QED
    BY <2>4, <2>5 DEF GenresFollow
<1>9. RowsFresh'
  <2>1. ASSUME NEW j \in ItemIds PROVE itemRows'[j].row <= writes + 1
    <3>1. itemRows[j].row \in 0 .. MaxWrites /\ itemRows[j].row <= writes
      BY <1>2 DEF RowsInv, RowsFresh
    <3> QED
      BY <1>1, <1>3, <1>4, <3>1
  <2> QED
    BY <1>1, <2>1 DEF RowsFresh
<1>10. RowsDiffer'
  <2> SUFFICES ASSUME NEW j \in ItemIds, NEW k \in ItemIds, Present(j)', itemRows'[j].row = itemRows'[k].row
               PROVE  j = k
    BY DEF RowsDiffer
  <2>1. j \notin gone /\ Present(j) /\ itemRows'[j].row # 0
    BY <1>2, <1>3, <1>5
  <2>2. k \notin gone
    BY <1>3, <1>4, <2>1
  <2> QED
    BY <1>3, <1>7, <2>1, <2>2
<1> QED
  BY <1>1, <1>6, <1>8, <1>9, <1>10

\* A page that is read writes one item and deletes none.
LEMMA IngestWrites ==
  ASSUME RowsInv, NEW i \in ItemIds, NEW dto \in Dtos, NEW data \in UserData \cup {NoData}, IngestPage(i, dto, data)
  PROVE  /\ RowsFresh' /\ RowsDiffer' /\ GenresFollow' /\ writes' \in 0 .. MaxWrites
         /\ itemRows' \in [ItemIds -> Rows \cup {Absent}]
<1>1. itemRows' = [j \in ItemIds |-> IF j \in {} THEN Absent ELSE IF j = i THEN Upserted(i, dto) ELSE itemRows[j]]
  BY DEF IngestPage, RowsInv, RowsTypeOK
<1>2. genreRows' = GenresDeleted(GenresUpserted(itemRows[i], Upserted(i, dto)), {})
  BY DEF IngestPage, GenresDeleted
<1>3. Writes /\ {} \in SUBSET (ItemIds \ {i})
  BY DEF IngestPage
<1> QED
  BY <1>1, <1>2, <1>3, RowsWritten

\* Of an empty catalog all this is true.
LEMMA RowsBegin ==
  ASSUME RowsInit
  PROVE  RowsInv
<1>1. \A i \in ItemIds : itemRows[i] = Absent /\ ~Present(i) /\ itemRows[i].row = 0
  BY DEF RowsInit, Present, Absent
<1>2. RowsTypeOK
  BY CatalogRowsAssumption DEF RowsInit, RowsTypeOK, Batch
<1>3. RowsFresh /\ RowsDiffer
  BY <1>1 DEF RowsInit, RowsFresh, RowsDiffer
<1>4. GenresFollow
  BY <1>1 DEF RowsInit, GenresFollow, Holds
<1> QED
  BY <1>2, <1>3, <1>4 DEF RowsInv

\* Every write keeps the tables as they have to be.
LEMMA RowsStep ==
  ASSUME RowsInv, [RowsNext]_rowVars
  PROVE  RowsInv'
<1>1. /\ itemRows \in [ItemIds -> Rows \cup {Absent}] /\ userData \in [ItemIds -> UserData \cup {NoData}]
      /\ genreRows \subseteq GenreNames \X RowIds /\ writes \in 0 .. MaxWrites /\ MaxWrites \in Nat
  BY CatalogRowsAssumption DEF RowsInv, RowsTypeOK
<1>2. ASSUME NEW items \in SUBSET ItemIds, NEW by \in {"server", "toggle"}, NEW contexts \in SUBSET ItemIds
      PROVE  Batch(by, items, contexts) \in [by : {"server", "toggle"}, items : SUBSET ItemIds, contexts : SUBSET ItemIds]
  BY DEF Batch
<1>3. \A i \in ItemIds : Contexts(i) \in SUBSET ItemIds
  BY DEF Contexts, ItemIds
<1> DEFINE Named == [by : {"server", "toggle"}, items : SUBSET ItemIds, contexts : SUBSET ItemIds]
<1>4. ASSUME RowsFresh', RowsDiffer', GenresFollow', writes' \in 0 .. MaxWrites,
             itemRows' \in [ItemIds -> Rows \cup {Absent}], userData' \in [ItemIds -> UserData \cup {NoData}],
             named' \in Named
      PROVE  RowsInv'
  <2>1. genreRows' \subseteq GenreNames \X RowIds
    BY <1>4 DEF GenresFollow
  <2> QED
    BY <1>4, <2>1 DEF RowsInv, RowsTypeOK
<1> HIDE DEF Named
<1>5. ASSUME itemRows' = itemRows, genreRows' = genreRows, writes' \in Nat, writes' >= writes
      PROVE  RowsFresh' /\ RowsDiffer' /\ GenresFollow'
  <2>1. \A i \in ItemIds : itemRows[i].row \in 0 .. MaxWrites /\ itemRows[i].row <= writes
    BY RowFacts DEF RowsInv, RowsFresh
  <2>2. RowsFresh'
    BY <1>1, <1>5, <2>1 DEF RowsFresh
  <2>3. RowsDiffer' /\ GenresFollow'
    BY <1>5 DEF RowsInv, RowsDiffer, GenresFollow, Holds, Present
  <2> QED
    BY <2>2, <2>3
<1>6. ASSUME Writes PROVE writes' \in 0 .. MaxWrites /\ writes' \in Nat /\ writes' >= writes
  BY <1>1, <1>6 DEF Writes
<1>7. CASE UNCHANGED rowVars
  BY <1>7 DEF rowVars, RowsInv, RowsTypeOK, RowsFresh, RowsDiffer, GenresFollow, Holds, Present
<1>8. ASSUME NEW i \in ItemIds, NEW dto \in Dtos, NEW data \in UserData \cup {NoData}, IngestPage(i, dto, data)
      PROVE  RowsInv'
  <2>1. userData' \in [ItemIds -> UserData \cup {NoData}]
    BY <1>1, <1>8 DEF IngestPage
  <2>2. named' \in Named
    <3>1. named' = Batch("server", {i}, Contexts(i)) \/ named' = Batch("server", {}, {})
      BY <1>8 DEF IngestPage
    <3>2. {i} \in SUBSET ItemIds /\ {} \in SUBSET ItemIds /\ Contexts(i) \in SUBSET ItemIds
      BY <1>3
    <3>3. Batch("server", {i}, Contexts(i)) \in Named /\ Batch("server", {}, {}) \in Named
      BY <1>2, <3>2 DEF Named
    <3> QED
      BY <3>1, <3>3
  <2> QED
    BY <1>4, <1>8, <2>1, <2>2, IngestWrites
<1>9. ASSUME NEW i \in EpisodeIds, NEW dto \in Dtos, NEW data \in UserData \cup {NoData},
             ReconcileChildren(i, dto, data)
      PROVE  RowsInv'
  <2> DEFINE gone == {e \in EpisodeIds \ {i} : Present(e)}
             changed == gone \cup (IF Moved(i, Upserted(i, dto), data) THEN {i} ELSE {})
  <2>1. i \in ItemIds /\ gone \in SUBSET (ItemIds \ {i}) /\ changed \in SUBSET ItemIds
    BY DEF ItemIds
  <2>2. /\ Writes
        /\ itemRows' = [j \in ItemIds |-> IF j \in gone THEN Absent ELSE IF j = i THEN Upserted(i, dto) ELSE itemRows[j]]
        /\ genreRows' = GenresDeleted(GenresUpserted(itemRows[i], Upserted(i, dto)), gone)
        /\ userData' = [j \in ItemIds |-> IF j \in gone THEN NoData ELSE IF j = i /\ data.stored THEN data ELSE userData[j]]
        /\ named' = Batch("server", changed, UNION {Contexts(j) : j \in changed})
    BY <1>9 DEF ReconcileChildren
  <2> HIDE DEF gone, changed
  <2>3. userData' \in [ItemIds -> UserData \cup {NoData}]
    BY <1>1, <2>2
  <2>4. UNION {Contexts(j) : j \in changed} \in SUBSET ItemIds
    BY <1>3, <2>1
  <2>5. named' \in Named
    BY <1>2, <2>1, <2>2, <2>4 DEF Named
  <2> QED
    BY <1>4, <2>1, <2>2, <2>3, <2>5, RowsWritten
<1>10. ASSUME NEW i \in ItemIds, NEW data \in UserData, ApplyUserData(i, data) PROVE RowsInv'
  <2>1. userData' \in [ItemIds -> UserData \cup {NoData}]
    BY <1>1, <1>10 DEF ApplyUserData
  <2>2. named' \in Named
    <3>1. named' = Batch("server", {i}, Contexts(i)) \/ named' = Batch("server", {}, {})
      BY <1>10 DEF ApplyUserData
    <3> QED
      BY <1>2, <1>3, <3>1 DEF Named
  <2> QED
    BY <1>1, <1>4, <1>5, <1>6, <1>10, <2>1, <2>2 DEF ApplyUserData
<1>11. ASSUME NEW ids \in SUBSET ItemIds, Delete(ids) PROVE RowsInv'
  <2> DEFINE gone == {i \in ids : Present(i)}
  <2>1. userData' \in [ItemIds -> UserData \cup {NoData}]
    BY <1>1, <1>11 DEF Delete
  <2>2. named' = Batch("server", gone, UNION {Contexts(i) : i \in gone}) /\ gone \in SUBSET ItemIds
    BY <1>11 DEF Delete
  <2> HIDE DEF gone
  <2>3. UNION {Contexts(j) : j \in gone} \in SUBSET ItemIds
    BY <1>3, <2>2
  <2>4. named' \in Named
    BY <1>2, <2>2, <2>3 DEF Named
  <2>5. /\ Writes /\ itemRows' = [j \in ItemIds |-> IF j \in ids THEN Absent ELSE itemRows[j]]
        /\ genreRows' = GenresDeleted(genreRows, ids)
    BY <1>11 DEF Delete
  <2> QED
    BY <1>4, <2>1, <2>4, <2>5, RowsDeleted
<1>12. ASSUME NEW i \in ItemIds, NEW played \in BOOLEAN, SetLocalPlayed(i, played) PROVE RowsInv'
  <2>1. userData' \in [ItemIds -> UserData \cup {NoData}]
    BY <1>1, <1>12 DEF SetLocalPlayed, UserData
  <2>2. named' \in Named
    BY <1>2, <1>12 DEF SetLocalPlayed, Named
  <2> QED
    BY <1>1, <1>4, <1>5, <1>6, <1>12, <2>1, <2>2 DEF SetLocalPlayed
<1> QED
  BY <1>7, <1>8, <1>9, <1>10, <1>11, <1>12 DEF RowsNext

\* A card moves with its item; that of the series also with an episode.
Same(i) == itemRows'[i] = itemRows[i] /\ (Present(i) => userData'[i] = userData[i])

LEMMA CardsFollow ==
  ASSUME NEW i \in ItemIds, Card(i)' # Card(i)
  PROVE  ~Same(i) \/ (i = "series" /\ \E e \in EpisodeIds : ~Same(e))
<1> SUFFICES ASSUME Same(i), i # "series" \/ \A e \in EpisodeIds : Same(e)
             PROVE  Card(i)' = Card(i)
  OBVIOUS
<1>1. i = "series" => UnplayedCount' = UnplayedCount
  <2> SUFFICES ASSUME i = "series" PROVE UnplayedCount' = UnplayedCount
    OBVIOUS
  <2>1. \A e \in EpisodeIds : itemRows'[e] = itemRows[e] /\ (Present(e)' <=> Present(e))
    BY DEF Same, Present
  <2>2. PresentEpisodes' = PresentEpisodes
    BY <2>1 DEF PresentEpisodes
  <2>3. \A e \in PresentEpisodes : userData'[e] = userData[e]
    BY DEF Same, PresentEpisodes
  <2>4. {e \in PresentEpisodes' : ~userData'[e].played} = {e \in PresentEpisodes : ~userData[e].played}
    BY <2>2, <2>3
  <2> QED
    BY <2>4 DEF UnplayedCount
<1>2. (Present(i)' <=> Present(i)) /\ itemRows'[i] = itemRows[i] /\ (Present(i) => userData'[i] = userData[i])
  BY DEF Same, Present
<1> HIDE DEF Present, UnplayedCount
<1> QED
  BY <1>1, <1>2, Zenon DEF Card

\* A server's write tells the pages of every item it changed.
Names(i) == i \in named'.items /\ (i \in EpisodeIds => "series" \in named'.contexts)

LEMMA WritesAreNamed ==
  ASSUME RowsInv, RowsNext, named'.by = "server", NEW k \in ItemIds, ~Same(k)
  PROVE  Names(k)
<1>0. /\ itemRows \in [ItemIds -> Rows \cup {Absent}] /\ userData \in [ItemIds -> UserData \cup {NoData}]
  BY DEF RowsInv, RowsTypeOK
<1>1. ASSUME NEW i \in ItemIds, NEW dto \in Dtos, NEW data \in UserData \cup {NoData}, IngestPage(i, dto, data)
      PROVE  Names(k)
  <2>1. k = i /\ Moved(i, Upserted(i, dto), data)
    BY <1>0, <1>1 DEF IngestPage, Same, Moved
  <2>2. named' = Batch("server", {i}, Contexts(i))
    BY <1>1, <2>1 DEF IngestPage
  <2> QED
    BY <2>1, <2>2 DEF Names, Batch, Contexts
<1>2. ASSUME NEW i \in EpisodeIds, NEW dto \in Dtos, NEW data \in UserData \cup {NoData},
             ReconcileChildren(i, dto, data)
      PROVE  Names(k)
  <2> DEFINE gone == {e \in EpisodeIds \ {i} : Present(e)}
             changed == gone \cup (IF Moved(i, Upserted(i, dto), data) THEN {i} ELSE {})
  <2>1. /\ itemRows' = [j \in ItemIds |-> IF j \in gone THEN Absent ELSE IF j = i THEN Upserted(i, dto) ELSE itemRows[j]]
        /\ userData' = [j \in ItemIds |-> IF j \in gone THEN NoData ELSE IF j = i /\ data.stored THEN data ELSE userData[j]]
        /\ named' = Batch("server", changed, UNION {Contexts(j) : j \in changed})
    BY <1>2 DEF ReconcileChildren
  <2>2. CASE k \notin gone
    <3>1. /\ itemRows'[k] = IF k = i THEN Upserted(i, dto) ELSE itemRows[k]
          /\ userData'[k] = IF k = i /\ data.stored THEN data ELSE userData[k]
      BY <2>1, <2>2
    <3>2. k = i /\ Moved(i, Upserted(i, dto), data)
      BY <3>1 DEF Same, Moved
    <3>3. k \in changed /\ "series" \in Contexts(k)
      BY <3>2 DEF Contexts
    <3> HIDE DEF changed
    <3> QED
      BY <2>1, <3>3 DEF Names, Batch
  <2>3. CASE k \in gone
    <3>1. k \in changed /\ "series" \in Contexts(k)
      BY <2>3 DEF Contexts
    <3> HIDE DEF changed
    <3> QED
      BY <2>1, <3>1 DEF Names, Batch
  <2> QED
    BY <2>2, <2>3
<1>3. ASSUME NEW i \in ItemIds, NEW data \in UserData, ApplyUserData(i, data) PROVE Names(k)
  <2>1. k = i /\ Present(i) /\ data # userData[i]
    BY <1>0, <1>3 DEF ApplyUserData, Same
  <2>2. named' = Batch("server", {i}, Contexts(i))
    BY <1>3, <2>1 DEF ApplyUserData
  <2> QED
    BY <2>1, <2>2 DEF Names, Batch, Contexts
<1>4. ASSUME NEW ids \in SUBSET ItemIds, Delete(ids) PROVE Names(k)
  <2> DEFINE gone == {i \in ids : Present(i)}
  <2>1. /\ itemRows' = [i \in ItemIds |-> IF i \in ids THEN Absent ELSE itemRows[i]]
        /\ userData' = [i \in ItemIds |-> IF i \in ids THEN NoData ELSE userData[i]]
        /\ named' = Batch("server", gone, UNION {Contexts(i) : i \in gone})
    BY <1>4 DEF Delete
  <2>2. k \in gone
    BY <2>1 DEF Same, Present
  <2>3. k \in EpisodeIds => "series" \in Contexts(k)
    BY DEF Contexts
  <2> HIDE DEF gone
  <2> QED
    BY <2>1, <2>2, <2>3 DEF Names, Batch
<1>5. ASSUME NEW i \in ItemIds, NEW played \in BOOLEAN, SetLocalPlayed(i, played) PROVE Names(k)
  <2>1. named'.by = "toggle"
    BY <1>5 DEF SetLocalPlayed, Batch
  <2> QED
    BY <2>1
<1> QED
  BY <1>1, <1>2, <1>3, <1>4, <1>5 DEF RowsNext

\* A series in progress has an episode to watch by the count on its card.
LEMMA ProgressIsCounted ==
  ASSUME Present("series"), InProgress("series")
  PROVE  Card("series").unplayed > 0
<1> DEFINE S == {e \in PresentEpisodes : ~userData[e].played}
<1>1. S # {}
  BY DEF InProgress, HasUnwatched
<1>2. IsFiniteSet(S)
  <2>1. S \subseteq EpisodeIds
    BY DEF PresentEpisodes
  <2> QED
    BY <2>1, CatalogRowsAssumption, FS_Subset
<1>3. Cardinality(S) \in Nat /\ Cardinality(S) # 0
  BY <1>1, <1>2, FS_CardinalityType, FS_EmptySet
<1>4. Card("series").unplayed = Cardinality(S)
  BY DEF Card, UnplayedCount
<1> QED
  BY <1>3, <1>4

\* Grids and facets by genre are what the rows say.
LEMMA GenresAreRows ==
  ASSUME RowsInv
  PROVE  /\ \A g \in GenreNames : WithGenre(g) = {i \in ItemIds : Present(i) /\ g \in itemRows[i].genres}
         /\ FacetValues = UNION {itemRows[i].genres : i \in {j \in ItemIds : Present(j)}}
<1>1. \A p : p \in genreRows <=> p \in GenreNames \X RowIds /\ \E j \in ItemIds : Holds(j, p)
  BY DEF RowsInv, GenresFollow
<1>2. \A j \in ItemIds : Present(j) => itemRows[j].row \in RowIds /\ itemRows[j].genres \subseteq GenreNames
  BY RowFacts DEF RowsInv
<1>3. \A j, k \in ItemIds : Present(j) /\ itemRows[j].row = itemRows[k].row => j = k
  BY DEF RowsInv, RowsDiffer
<1>4. ASSUME NEW g \in GenreNames, NEW i \in ItemIds, Present(i)
      PROVE  <<g, itemRows[i].row>> \in genreRows <=> g \in itemRows[i].genres
  <2> DEFINE p == <<g, itemRows[i].row>>
  <2>1. p \in GenreNames \X RowIds /\ p[1] = g /\ p[2] = itemRows[i].row
    BY <1>2, <1>4
  <2> HIDE DEF p
  <2>2. \A j \in ItemIds : Holds(j, p) => j = i
    BY <1>3, <1>4, <2>1 DEF Holds
  <2>3. Holds(i, p) <=> g \in itemRows[i].genres
    BY <1>4, <2>1 DEF Holds
  <2>4. p \in genreRows <=> g \in itemRows[i].genres
    BY <1>1, <2>1, <2>2, <2>3
  <2> QED
    BY <2>4 DEF p
<1>5. \A g \in GenreNames : WithGenre(g) = {i \in ItemIds : Present(i) /\ g \in itemRows[i].genres}
  BY <1>4 DEF WithGenre
<1>6. ASSUME NEW g \in FacetValues PROVE \E i \in ItemIds : Present(i) /\ g \in itemRows[i].genres
  <2>1. PICK p \in genreRows : g = p[1]
    BY DEF FacetValues
  <2> QED
    BY <1>1, <2>1 DEF Holds
<1>7. ASSUME NEW i \in ItemIds, Present(i), NEW g \in itemRows[i].genres PROVE g \in FacetValues
  <2>1. <<g, itemRows[i].row>> \in genreRows
    BY <1>2, <1>4, <1>7
  <2> QED
    BY <2>1 DEF FacetValues
<1>8. FacetValues = UNION {itemRows[i].genres : i \in {j \in ItemIds : Present(j)}}
  BY <1>6, <1>7
<1> QED
  BY <1>5, <1>8

(* The tables of the catalog keep their types. *)
THEOREM RowsTypes == RowsSpec => []RowsTypeOK
<1>1. RowsInit => RowsInv
  BY RowsBegin
<1>2. RowsInv /\ [RowsNext]_rowVars => RowsInv'
  BY RowsStep
<1>3. RowsInv => RowsTypeOK
  BY DEF RowsInv
<1> QED
  BY <1>1, <1>2, <1>3, PTL DEF RowsSpec

(* What is shown of the rows is theirs: lists and facets by genre, though row ids are    *)
(* taken again; pages hear of every card a write changes; a series in progress has an   *)
(* episode left (ingest_page, delete_items_from_transaction, query_base).               *)
THEOREM RowsCorrect == RowsSpec => RowsAreSound
<1> DEFINE Sound ==
             /\ \A g \in GenreNames : WithGenre(g) = {i \in ItemIds : Present(i) /\ g \in itemRows[i].genres}
             /\ FacetValues = UNION {itemRows[i].genres : i \in {j \in ItemIds : Present(j)}}
             /\ Present("series") /\ InProgress("series") => Card("series").unplayed > 0
           Told == named'.by = "server" =>
                     \A i \in ItemIds : Card(i)' # Card(i) => i \in named'.items \cup named'.contexts
<1>1. RowsInit => RowsInv
  BY RowsBegin
<1>2. RowsInv /\ [RowsNext]_rowVars => RowsInv'
  BY RowsStep
<1>3. RowsInv => Sound
  BY GenresAreRows, ProgressIsCounted
<1>4. RowsInv /\ [RowsNext]_rowVars => [Told]_rowVars
  <2> SUFFICES ASSUME RowsInv, RowsNext, named'.by = "server", NEW i \in ItemIds, Card(i)' # Card(i)
               PROVE  i \in named'.items \cup named'.contexts
    OBVIOUS
  <2>1. CASE ~Same(i)
    <3>1. Names(i)
      BY <2>1, WritesAreNamed
    <3> QED
      BY <3>1 DEF Names
  <2>2. CASE i = "series" /\ \E e \in EpisodeIds : ~Same(e)
    <3>1. PICK e \in EpisodeIds : ~Same(e)
      BY <2>2
    <3>2. e \in ItemIds
      BY DEF ItemIds
    <3>3. Names(e)
      BY <3>1, <3>2, WritesAreNamed
    <3> QED
      BY <2>2, <3>3 DEF Names
  <2> QED
    BY <2>1, <2>2, CardsFollow
<1> QED
  BY <1>1, <1>2, <1>3, <1>4, PTL DEF RowsSpec, RowsAreSound

--------------------------------------------------------------------------------
(* Title pages.  A reader keeps what the server had and lacked since it began    *)
(* (History).  While it walks a list, what the server has and the walk neither   *)
(* listed nor knows as lacked or slid is still before it (Walk): a page takes    *)
(* all the places up to the next one, and a removal brings one title past it at  *)
(* most, which is the one that slides.  So a list that is whole leaves out only  *)
(* what was lacked or slid (ListAnswer).                                             *)

Known(r) == reader[r].list \cup reader[r].lacked \cup reader[r].slid
History(r) == onServer \subseteq reader[r].had /\ Episodes \ onServer \subseteq reader[r].lacked
Walk(r) == Walks(r) => \A e \in onServer : e \in Known(r) \/ Rank(e) >= reader[r].offset
ListAnswer(r) ==
  /\ reader[r].list \subseteq reader[r].had
  /\ reader[r].op = "children" /\ reader[r].at = "answered" => Episodes \subseteq Known(r)
  /\ reader[r].op # "children" => \E e \in Episodes : reader[r].of = {e}
  /\ reader[r].op # "children" /\ reader[r].at = "answered" =>
       /\ reader[r].list \subseteq reader[r].of
       /\ reader[r].of \subseteq reader[r].list \cup reader[r].lacked
ReaderOK(r) == ~Idle(r) => History(r) /\ Walk(r) /\ ListAnswer(r)
PagesInv == TitlePagesTypeOK /\ \A r \in Readers : ReaderOK(r)

\* What is listed is finite, and made of numbers.
LEMMA EpisodesAreFinite ==
  ASSUME NEW S \in SUBSET Episodes
  PROVE  IsFiniteSet(S) /\ S \in SUBSET Nat
BY TitlePagesAssumption, FS_Subset

\* A page holds no more than its size, and one that is not full is the last.
LEMMA PageFacts ==
  ASSUME onServer \subseteq Episodes, NEW from \in Nat
  PROVE  /\ Page(from) \subseteq onServer
         /\ Cardinality(Page(from)) \in Nat
         /\ \A e \in onServer : Rank(e) >= from =>
              \/ e \in Page(from)
              \/ Rank(e) >= from + Cardinality(Page(from)) /\ Cardinality(Page(from)) >= ChildrenPageSize
<1> DEFINE r == [e \in onServer |-> Rank(e)]
<1>1. IsFiniteSet(onServer) /\ onServer \in SUBSET Nat
  BY EpisodesAreFinite
<1>2. r \in Injection(onServer, 0 .. Cardinality(onServer) - 1)
  BY <1>1, RanksArePlaces DEF Rank
<1>3. ChildrenPageSize \in Nat \ {0}
  BY TitlePagesAssumption
<1>4. /\ Page(from) \in SUBSET onServer
      /\ \A e \in onServer : e \in Page(from) <=> r[e] \in from .. from + ChildrenPageSize - 1
  BY DEF Page
<1>5. \A e \in onServer : r[e] = Rank(e) /\ Rank(e) \in Nat
  <2>1. \A e \in onServer : IsFiniteSet({x \in onServer : x < e})
    BY <1>1, FS_Subset
  <2> QED
    BY <2>1, FS_CardinalityType DEF Rank
<1> HIDE DEF r
<1>6. /\ Cardinality(Page(from)) \in Nat /\ Cardinality(Page(from)) <= ChildrenPageSize
      /\ Cardinality(Page(from)) < ChildrenPageSize => \A e \in onServer : r[e] < from + ChildrenPageSize
  BY <1>1, <1>2, <1>3, <1>4, Places
<1> DEFINE c == Cardinality(Page(from))
<1>7. ASSUME NEW e \in onServer, Rank(e) >= from, e \notin Page(from)
      PROVE  Rank(e) >= from + c /\ c >= ChildrenPageSize
  <2>1. Rank(e) \in Nat /\ r[e] = Rank(e) /\ c \in Nat /\ c <= ChildrenPageSize
    BY <1>5, <1>6
  <2>2. Rank(e) >= from + ChildrenPageSize
    BY <1>3, <1>4, <1>7, <2>1
  <2>3. ~(c < ChildrenPageSize)
    BY <1>3, <1>6, <2>1, <2>2
  <2> HIDE DEF c
  <2> QED
    BY <1>3, <2>1, <2>2, <2>3
<1> QED
  BY <1>4, <1>6, <1>7

\* A removal moves what comes after it one place down, an addition one up.
LEMMA ChangeMovesOne ==
  ASSUME onServer \subseteq Episodes, NEW e \in Episodes, NEW x \in Episodes,
         onServer' = IF e \in onServer THEN onServer \ {e} ELSE onServer \cup {e}
  PROVE  /\ Rank(x) \in Nat /\ Rank(x)' \in Nat
         /\ e \notin onServer => Rank(x)' >= Rank(x)
         /\ e \in onServer => Rank(x)' = IF e < x THEN Rank(x) - 1 ELSE Rank(x)
<1> DEFINE B == {y \in onServer : y < x}
           L == {y \in onServer' : y < x}
<1>1. IsFiniteSet(B) /\ IsFiniteSet(L) /\ Rank(x) = Cardinality(B) /\ Rank(x)' = Cardinality(L)
  BY EpisodesAreFinite DEF Rank
<1>2. Cardinality(B) \in Nat /\ Cardinality(L) \in Nat
  BY <1>1, FS_CardinalityType
<1>3. CASE e \notin onServer
  <2>1. B \subseteq L
    BY <1>3
  <2>2. Cardinality(B) <= Cardinality(L)
    BY <1>1, <2>1, FS_Subset
  <2> QED
    BY <1>1, <1>2, <1>3, <2>2
<1>4. CASE e \in onServer
  <2>1. L = B \ {e} /\ (e \in B <=> e < x)
    BY <1>4
  <2>2. Cardinality(L) = IF e \in B THEN Cardinality(B) - 1 ELSE Cardinality(B)
    <3>1. L = B \ {e} /\ IsFiniteSet(B)
      BY <1>1, <2>1
    <3> HIDE DEF B, L
    <3> QED
      BY <3>1, FS_RemoveElement
  <2> QED
    BY <1>1, <1>2, <1>4, <2>1, <2>2
<1> QED
  BY <1>3, <1>4

\* What a reader is, and that one that begins or ends is one.
LEMMA ReaderTypes ==
  ASSUME TitlePagesTypeOK
  PROVE  /\ reader \in [Readers -> ReaderStates] /\ onServer \subseteq Episodes /\ cachedEps \subseteq Episodes
         /\ pageSignIn \in 1 .. MaxPageSignIns /\ NoReader \in ReaderStates
         /\ \A of \in SUBSET Episodes : /\ Reader("children", of) \in ReaderStates
                                       /\ Reader("title", of) \in ReaderStates
                                       /\ Reader("synopsis", of) \in ReaderStates
<1>1. NoReader \in ReaderStates
  BY TitlePagesAssumption DEF NoReader, ReaderStates
<1>2. pageSignIn \in 0 .. MaxPageSignIns /\ onServer \in SUBSET Episodes /\ Episodes \ onServer \in SUBSET Episodes
  BY TitlePagesAssumption DEF TitlePagesTypeOK
<1>3. ASSUME NEW of \in SUBSET Episodes, NEW op \in {"children", "title", "synopsis"}
      PROVE  Reader(op, of) \in ReaderStates
  BY <1>2 DEF Reader, ReaderStates
<1> QED
  BY <1>1, <1>3 DEF TitlePagesTypeOK

\* At first nobody reads.
LEMMA PagesBegin ==
  ASSUME TitlePagesInit
  PROVE  PagesInv
<1>1. NoReader \in ReaderStates
  BY TitlePagesAssumption DEF NoReader, ReaderStates
<1>2. /\ 0 \in 0 .. MaxServerChanges /\ 0 \in 0 .. MaxPageFaults /\ 1 \in 1 .. MaxPageSignIns
  BY TitlePagesAssumption
<1>3. TitlePagesTypeOK
  BY <1>1, <1>2 DEF TitlePagesInit, TitlePagesTypeOK
<1>4. \A r \in Readers : Idle(r)
  BY DEF TitlePagesInit, Idle, NoReader
<1> QED
  BY <1>3, <1>4 DEF PagesInv, ReaderOK

\* The reader that moves; the others stay, and so does what the server has.
LEMMA OneReader ==
  ASSUME PagesInv, TitlePagesTypeOK', NEW r \in Readers, ReaderOK(r)', onServer' = onServer,
         \A q \in Readers \ {r} : reader'[q] = reader[q]
  PROVE  PagesInv'
<1>1. ASSUME NEW q \in Readers \ {r} PROVE ReaderOK(q)'
  <2>1. ReaderOK(q)
    BY DEF PagesInv
  <2>2. \A e \in onServer : Rank(e)' = Rank(e)
    BY DEF Rank
  <2>3. reader'[q] = reader[q]
    OBVIOUS
  <2> HIDE DEF Rank
  <2> QED
    BY <2>1, <2>2, <2>3 DEF ReaderOK, Idle, Walks, History, Walk, ListAnswer, Known
<1> QED
  BY <1>1 DEF PagesInv

\* The server's list changes under the walks.
LEMMA ChangeKeepsPages ==
  ASSUME PagesInv, NEW e \in Episodes, ServerChanges(e)
  PROVE  PagesInv'
<1>1. /\ TitlePagesTypeOK /\ reader \in [Readers -> ReaderStates] /\ onServer \subseteq Episodes
      /\ serverChanges \in 0 .. MaxServerChanges /\ MaxServerChanges \in Nat
  BY ReaderTypes, TitlePagesAssumption DEF PagesInv, TitlePagesTypeOK
<1>2. /\ onServer' = IF e \in onServer THEN onServer \ {e} ELSE onServer \cup {e}
      /\ onServer' \subseteq Episodes /\ serverChanges' \in 0 .. MaxServerChanges
  <2>1. onServer' = IF e \in onServer THEN onServer \ {e} ELSE onServer \cup {e}
    BY DEF ServerChanges
  <2>2. serverChanges < MaxServerChanges /\ serverChanges' = serverChanges + 1
    BY DEF ServerChanges
  <2> QED
    BY <1>1, <2>1, <2>2
<1> DEFINE S(r) == IF e \in onServer /\ Walks(r) THEN Slides(r, e) ELSE {}
<1>3. ASSUME NEW r \in Readers PROVE S(r) \in SUBSET Episodes
  BY <1>1 DEF Slides
<1>4. ASSUME NEW r \in Readers, Idle(r) PROVE reader'[r] = reader[r]
  BY <1>4 DEF ServerChanges
<1>5. ASSUME NEW r \in Readers, ~Idle(r)
      PROVE  /\ reader'[r] \in ReaderStates
             /\ reader'[r].op = reader[r].op /\ reader'[r].at = reader[r].at
             /\ reader'[r].of = reader[r].of /\ reader'[r].list = reader[r].list
             /\ reader'[r].offset = reader[r].offset
             /\ reader'[r].had = reader[r].had \cup onServer'
             /\ reader'[r].lacked = reader[r].lacked \cup (Episodes \ onServer')
             /\ reader'[r].slid = reader[r].slid \cup S(r)
  <2> DEFINE had == reader[r].had \cup onServer'
             lacked == reader[r].lacked \cup (Episodes \ onServer')
             slid == reader[r].slid \cup S(r)
             old == reader[r]
  <2>1. reader'[r] = [old EXCEPT !.had = had, !.lacked = lacked, !.slid = slid]
    <3>1. reader' = [q \in Readers |->
            IF Idle(q) THEN reader[q]
            ELSE [reader[q] EXCEPT !.had = reader[q].had \cup onServer',
                                   !.lacked = reader[q].lacked \cup (Episodes \ onServer'),
                                   !.slid = reader[q].slid \cup S(q)]]
      BY <1>1 DEF ServerChanges
    <3> HIDE DEF S
    <3> QED
      BY <1>5, <3>1
  <2>2. old \in ReaderStates /\ had \in SUBSET Episodes /\ lacked \in SUBSET Episodes /\ slid \in SUBSET Episodes
    <3>1. S(r) \in SUBSET Episodes
      BY <1>3
    <3> HIDE DEF S
    <3> QED
      BY <1>1, <1>2, <3>1 DEF ReaderStates
  <2> HIDE DEF had, lacked, slid, old
  <2>3. reader'[r] \in ReaderStates
    BY <2>1, <2>2 DEF ReaderStates
  <2>4. /\ reader'[r].op = old.op /\ reader'[r].at = old.at /\ reader'[r].of = old.of
        /\ reader'[r].list = old.list /\ reader'[r].offset = old.offset
        /\ reader'[r].had = had /\ reader'[r].lacked = lacked /\ reader'[r].slid = slid
    BY <2>1, <2>2 DEF ReaderStates
  <2> QED
    BY <2>3, <2>4 DEF had, lacked, slid, old
<1>6. ASSUME NEW r \in Readers PROVE ReaderOK(r)'
  <2>1. CASE Idle(r)
    BY <1>4, <2>1 DEF ReaderOK, Idle
  <2>2. CASE ~Idle(r)
    <3>1. History(r) /\ Walk(r) /\ ListAnswer(r)
      BY <2>2 DEF PagesInv, ReaderOK
    <3>2. History(r)'
      BY <1>5, <2>2 DEF History
    <3>3. Known(r) \subseteq Known(r)' /\ reader[r].had \subseteq reader'[r].had
      BY <1>5, <2>2 DEF Known
    <3>4. ListAnswer(r)'
      BY <1>5, <2>2, <3>1, <3>3 DEF ListAnswer
    <3>5. ASSUME Walks(r)', NEW x \in onServer' PROVE x \in Known(r)' \/ Rank(x)' >= reader'[r].offset
      <4>1. Walks(r) /\ x \in Episodes /\ reader[r].offset \in Nat
        BY <1>1, <1>2, <1>5, <2>2, <3>5 DEF Walks, ReaderStates
      <4>2. /\ Rank(x) \in Nat /\ Rank(x)' \in Nat
            /\ e \notin onServer => Rank(x)' >= Rank(x)
            /\ e \in onServer => Rank(x)' = IF e < x THEN Rank(x) - 1 ELSE Rank(x)
        BY <1>1, <1>2, <4>1, ChangeMovesOne
      <4>3. CASE x \notin onServer
        <5>1. x \in reader[r].lacked
          BY <3>1, <4>1, <4>3 DEF History
        <5> QED
          BY <3>3, <5>1 DEF Known
      <4>4. CASE x \in onServer /\ Rank(x) >= reader[r].offset
        <5>1. CASE e \in onServer /\ e < x /\ Rank(x) = reader[r].offset
          <6>1. x \in S(r)
            BY <4>1, <4>4, <5>1 DEF Slides
          <6> HIDE DEF S
          <6> QED
            BY <1>5, <2>2, <6>1 DEF Known
        <5>2. CASE ~(e \in onServer /\ e < x /\ Rank(x) = reader[r].offset)
          <6>1. Rank(x)' >= reader[r].offset
            BY <4>1, <4>2, <4>4, <5>2
          <6> QED
            BY <1>5, <2>2, <6>1
        <5> QED
          BY <5>1, <5>2
      <4> QED
        BY <3>1, <3>3, <4>1, <4>3, <4>4 DEF Walk
    <3> QED
      BY <3>2, <3>4, <3>5 DEF ReaderOK, Walk
  <2> QED
    BY <2>1, <2>2
<1>7. reader' \in [Readers -> ReaderStates]
  <2>1. \A r \in Readers : reader'[r] \in ReaderStates
    BY <1>1, <1>4, <1>5
  <2> QED
    BY <2>1 DEF ServerChanges
<1>8. TitlePagesTypeOK'
  BY <1>1, <1>2, <1>7 DEF TitlePagesTypeOK, ServerChanges
<1> QED
  BY <1>6, <1>8 DEF PagesInv

\* A page of the list comes in.
LEMMA FetchKeepsPages ==
  ASSUME PagesInv, NEW r \in Readers, FetchChildren(r)
  PROVE  PagesInv'
<1> DEFINE page == Page(reader[r].offset)
<1>1. /\ TitlePagesTypeOK /\ reader \in [Readers -> ReaderStates] /\ onServer \subseteq Episodes
      /\ reader[r] \in ReaderStates /\ reader[r].offset \in Nat
  BY ReaderTypes DEF PagesInv, ReaderStates
<1>2. ~Idle(r) /\ History(r) /\ Walk(r) /\ ListAnswer(r) /\ Walks(r)
  BY DEF PagesInv, ReaderOK, FetchChildren, Walks, Idle
<1>3. /\ page \subseteq onServer /\ Cardinality(page) \in Nat
      /\ \A e \in onServer : Rank(e) >= reader[r].offset =>
           \/ e \in page
           \/ Rank(e) >= reader[r].offset + Cardinality(page) /\ Cardinality(page) >= ChildrenPageSize
  BY <1>1, PageFacts
<1>4. reader' = [reader EXCEPT ![r] = [reader[r] EXCEPT
        !.list = reader[r].list \cup page, !.offset = reader[r].offset + Cardinality(page),
        !.at = IF Cardinality(page) < ChildrenPageSize THEN "answered" ELSE "asked"]]
  BY <1>1 DEF FetchChildren
<1> HIDE DEF page
<1>5. /\ reader'[r] \in ReaderStates
      /\ reader'[r].op = "children"
      /\ reader'[r].at = IF Cardinality(page) < ChildrenPageSize THEN "answered" ELSE "asked"
      /\ reader'[r].list = reader[r].list \cup page
      /\ reader'[r].offset = reader[r].offset + Cardinality(page)
      /\ reader'[r].had = reader[r].had /\ reader'[r].lacked = reader[r].lacked /\ reader'[r].slid = reader[r].slid
      /\ \A q \in Readers \ {r} : reader'[q] = reader[q]
  <2> DEFINE old == reader[r]
             list == old.list \cup page
             offset == old.offset + Cardinality(page)
             at == IF Cardinality(page) < ChildrenPageSize THEN "answered" ELSE "asked"
  <2>1. page \subseteq Episodes /\ old.op = "children"
    BY <1>1, <1>2, <1>3 DEF Walks
  <2>2. list \in SUBSET Episodes /\ offset \in Nat /\ at \in {"asked", "answered"}
    BY <1>1, <1>3, <2>1 DEF ReaderStates
  <2>3. /\ old \in ReaderStates /\ reader'[r] = [old EXCEPT !.list = list, !.offset = offset, !.at = at]
        /\ \A q \in Readers \ {r} : reader'[q] = reader[q]
    BY <1>1, <1>4
  <2> HIDE DEF old, list, offset, at
  <2>4. reader'[r] \in ReaderStates
    BY <2>2, <2>3 DEF ReaderStates
  <2>5. /\ reader'[r].op = old.op /\ reader'[r].at = at /\ reader'[r].list = list /\ reader'[r].offset = offset
        /\ reader'[r].had = old.had /\ reader'[r].lacked = old.lacked /\ reader'[r].slid = old.slid
    BY <2>3 DEF ReaderStates
  <2> QED
    BY <2>1, <2>3, <2>4, <2>5 DEF old, list, offset, at
<1>6. onServer' = onServer /\ \A e \in onServer : Rank(e)' = Rank(e) /\ Rank(e) \in Nat
  <2>1. onServer' = onServer
    BY DEF FetchChildren
  <2>2. ASSUME NEW e \in onServer PROVE Rank(e) \in Nat
    <3>1. IsFiniteSet({x \in onServer : x < e})
      BY <1>1, EpisodesAreFinite
    <3> QED
      BY <3>1, FS_CardinalityType DEF Rank
  <2> QED
    BY <2>1, <2>2 DEF Rank
<1>7. ChildrenPageSize \in Nat
  BY TitlePagesAssumption
<1>8. \A e \in onServer :
        \/ e \in Known(r)'
        \/ Rank(e) >= reader'[r].offset /\ Cardinality(page) >= ChildrenPageSize
  BY <1>1, <1>2, <1>3, <1>5, <1>6 DEF Walk, Known
<1>9. Walk(r)'
  BY <1>6, <1>8 DEF Walk
<1>10. History(r)'
  BY <1>2, <1>5, <1>6 DEF History
<1>11. ListAnswer(r)'
  <2>1. reader'[r].list \subseteq reader'[r].had
    BY <1>2, <1>3, <1>5 DEF ListAnswer, History
  <2>2. reader'[r].at = "answered" => Episodes \subseteq Known(r)'
    BY <1>1, <1>2, <1>3, <1>5, <1>7, <1>8 DEF History, Known
  <2> QED
    BY <2>1, <2>2, <1>5 DEF ListAnswer
<1>12. TitlePagesTypeOK'
  <2>1. reader' \in [Readers -> ReaderStates]
    BY <1>1, <1>4, <1>5
  <2> QED
    BY <2>1, <1>1 DEF TitlePagesTypeOK, FetchChildren
<1> QED
  BY <1>6, <1>5, <1>9, <1>10, <1>11, <1>12, OneReader DEF ReaderOK

\* A reader that ends keeps nothing.
LEMMA EndKeepsPages ==
  ASSUME PagesInv, NEW r \in Readers, Ends(r), onServer' = onServer, pageSignIn' = pageSignIn,
         cachedEps' \subseteq Episodes, claim' = claim, serverChanges' = serverChanges,
         pageFaults' \in 0 .. MaxPageFaults
  PROVE  PagesInv'
<1>1. TitlePagesTypeOK /\ reader \in [Readers -> ReaderStates] /\ NoReader \in ReaderStates
  BY ReaderTypes DEF PagesInv
<1>2. reader'[r] = NoReader /\ \A q \in Readers \ {r} : reader'[q] = reader[q]
  BY <1>1 DEF Ends
<1>3. ReaderOK(r)'
  BY <1>2 DEF ReaderOK, Idle, NoReader
<1>4. reader' \in [Readers -> ReaderStates]
  BY <1>1 DEF Ends
<1>5. TitlePagesTypeOK'
  BY <1>1, <1>4 DEF TitlePagesTypeOK
<1> QED
  BY <1>2, <1>3, <1>5, OneReader

\* A reader that begins knows what the server has, and nothing of what it listed.
LEMMA BeginKeepsPages ==
  ASSUME PagesInv, NEW r \in Readers, NEW op \in {"children", "title", "synopsis"}, NEW of \in SUBSET Episodes,
         reader' = [reader EXCEPT ![r] = Reader(op, of)], op # "children" => \E e \in Episodes : of = {e},
         onServer' = onServer, pageSignIn' = pageSignIn,
         cachedEps' = cachedEps, claim' \in BOOLEAN, serverChanges' = serverChanges, pageFaults' = pageFaults
  PROVE  PagesInv'
<1>1. /\ TitlePagesTypeOK /\ reader \in [Readers -> ReaderStates] /\ onServer \subseteq Episodes
      /\ Reader(op, of) \in ReaderStates
  BY ReaderTypes DEF PagesInv
<1>2. reader'[r] = Reader(op, of) /\ \A q \in Readers \ {r} : reader'[q] = reader[q]
  BY <1>1
<1>3. /\ reader'[r].op = op /\ reader'[r].at = "asked" /\ reader'[r].of = of /\ reader'[r].list = {}
      /\ reader'[r].offset = 0 /\ reader'[r].had = onServer /\ reader'[r].lacked = Episodes \ onServer
      /\ reader'[r].slid = {}
  BY <1>2 DEF Reader
<1>4. Walk(r)'
  <2> SUFFICES ASSUME NEW e \in onServer PROVE Rank(e)' >= 0
    BY <1>3 DEF Walk
  <2>1. IsFiniteSet({x \in onServer : x < e})
    BY <1>1, EpisodesAreFinite
  <2> QED
    BY <2>1, FS_CardinalityType DEF Rank
<1>5. History(r)' /\ ListAnswer(r)'
  BY <1>1, <1>3 DEF History, ListAnswer
<1>6. reader' \in [Readers -> ReaderStates]
  BY <1>1
<1>7. TitlePagesTypeOK'
  BY <1>1, <1>6 DEF TitlePagesTypeOK
<1> QED
  BY <1>2, <1>4, <1>5, <1>7, OneReader DEF ReaderOK

\* The answer of a title says whether the server has it.
LEMMA AnswerKeepsPages ==
  ASSUME PagesInv, NEW r \in Readers, AnswerTitle(r)
  PROVE  PagesInv'
<1>1. /\ TitlePagesTypeOK /\ reader \in [Readers -> ReaderStates] /\ onServer \subseteq Episodes
      /\ reader[r] \in ReaderStates
  BY ReaderTypes DEF PagesInv
<1>2. ~Idle(r) /\ History(r) /\ ListAnswer(r) /\ reader[r].op # "children"
  BY DEF PagesInv, ReaderOK, AnswerTitle, Idle
<1>3. reader' = [reader EXCEPT ![r] = [reader[r] EXCEPT !.at = "answered", !.list = reader[r].of \cap onServer]]
  BY <1>1 DEF AnswerTitle
<1>4. /\ reader'[r] \in ReaderStates
      /\ reader'[r].op = reader[r].op /\ reader'[r].at = "answered" /\ reader'[r].of = reader[r].of
      /\ reader'[r].list = reader[r].of \cap onServer
      /\ reader'[r].had = reader[r].had /\ reader'[r].lacked = reader[r].lacked
      /\ \A q \in Readers \ {r} : reader'[q] = reader[q]
  BY <1>1, <1>3 DEF ReaderStates
<1>5. onServer' = onServer
  BY DEF AnswerTitle
<1>6. History(r)' /\ Walk(r)'
  BY <1>2, <1>4, <1>5 DEF History, Walk, Walks
<1>7. ListAnswer(r)'
  BY <1>1, <1>2, <1>4 DEF ListAnswer, History, ReaderStates
<1>8. TitlePagesTypeOK'
  <2>1. reader' \in [Readers -> ReaderStates]
    BY <1>1, <1>3, <1>4
  <2> QED
    BY <2>1, <1>1 DEF TitlePagesTypeOK, AnswerTitle
<1> QED
  BY <1>4, <1>5, <1>6, <1>7, <1>8, OneReader DEF ReaderOK

\* Every step of a page, the server, the socket and the user keeps what readers know.
LEMMA PagesStep ==
  ASSUME PagesInv, [TitlePagesNext]_titlePageVars
  PROVE  PagesInv'
<1>0. /\ TitlePagesTypeOK /\ onServer \subseteq Episodes /\ cachedEps \subseteq Episodes
      /\ pageSignIn \in 1 .. MaxPageSignIns /\ pageFaults \in 0 .. MaxPageFaults /\ MaxPageFaults \in Nat
      /\ MaxPageSignIns \in Nat
  BY TitlePagesAssumption DEF PagesInv, TitlePagesTypeOK
<1>1. ASSUME TitlePagesTypeOK', onServer' = onServer, reader' = reader PROVE PagesInv'
  <2>1. \A r \in Readers : ReaderOK(r)
    BY DEF PagesInv
  <2>2. \A r \in Readers : ReaderOK(r)'
    BY <1>1, <2>1 DEF ReaderOK, Idle, Walks, History, Walk, ListAnswer, Known, Rank
  <2> QED
    BY <1>1, <2>2 DEF PagesInv
<1>2. CASE UNCHANGED titlePageVars
  BY <1>0, <1>1, <1>2 DEF TitlePagesTypeOK, titlePageVars
<1>3. ASSUME NEW e \in Episodes, SocketTells(e) PROVE PagesInv'
  <2>1. cachedEps' \subseteq Episodes
    BY <1>0, <1>3 DEF SocketTells
  <2> QED
    BY <1>0, <1>1, <1>3, <2>1 DEF SocketTells, TitlePagesTypeOK
<1>4. CASE SignInAgain
  <2>1. pageSignIn' \in 1 .. MaxPageSignIns /\ cachedEps' = {}
    BY <1>0, <1>4 DEF SignInAgain
  <2> QED
    BY <1>0, <1>1, <1>4, <2>1 DEF SignInAgain, TitlePagesTypeOK
<1>5. CASE ClaimEnds
  BY <1>0, <1>1, <1>5 DEF ClaimEnds, TitlePagesTypeOK
<1>6. ASSUME NEW r \in Readers, OpenChildren(r) PROVE PagesInv'
  <2>1. CASE cachedEps = {} \/ ~claim
    <3>1. /\ reader' = [reader EXCEPT ![r] = Reader("children", {})] /\ claim' \in BOOLEAN
          /\ UNCHANGED <<onServer, cachedEps, pageSignIn, serverChanges, pageFaults>>
      BY <1>6, <2>1 DEF OpenChildren
    <3>2. {} \in SUBSET Episodes /\ "children" \in {"children", "title", "synopsis"}
      OBVIOUS
    <3> QED
      BY <3>1, <3>2, BeginKeepsPages
  <2>2. CASE ~(cachedEps = {} \/ ~claim)
    BY <1>0, <1>1, <1>6, <2>2 DEF OpenChildren, TitlePagesTypeOK
  <2> QED
    BY <2>1, <2>2
<1>7. ASSUME NEW r \in Readers, FetchFails(r) PROVE PagesInv'
  <2>1. Ends(r) /\ pageFaults' \in 0 .. MaxPageFaults
    BY <1>0, <1>7 DEF FetchFails, PageFails, GivesUp
  <2> QED
    BY <1>0, <1>7, <2>1, EndKeepsPages DEF FetchFails
<1>8. ASSUME NEW r \in Readers, CommitChildren(r) \/ CommitTitle(r) PROVE PagesInv'
  <2>1. reader \in [Readers -> ReaderStates]
    BY <1>0, ReaderTypes
  <2>2. reader[r].list \subseteq Episodes /\ reader[r].of \subseteq Episodes
    BY <2>1 DEF ReaderStates
  <2>3. cachedEps' \subseteq Episodes
    BY <1>0, <1>8, <2>2 DEF CommitChildren, CommitTitle
  <2> QED
    BY <1>0, <1>8, <2>3, EndKeepsPages DEF CommitChildren, CommitTitle
<1>9. ASSUME NEW r \in Readers, NEW e \in Episodes, OpenTitle(r, e) PROVE PagesInv'
  <2>1. {e} \in SUBSET Episodes
    OBVIOUS
  <2>2. claim' \in BOOLEAN
    BY <1>0, <1>9 DEF OpenTitle, TitlePagesTypeOK
  <2>3. CASE e \in cachedEps
    <3>1. reader' = [reader EXCEPT ![r] = Reader("synopsis", {e})]
      BY <1>9, <2>3 DEF OpenTitle
    <3> QED
      BY <1>9, <2>1, <2>2, <3>1, BeginKeepsPages DEF OpenTitle
  <2>4. CASE e \notin cachedEps
    <3>1. reader' = [reader EXCEPT ![r] = Reader("title", {e})]
      BY <1>9, <2>4 DEF OpenTitle
    <3> QED
      BY <1>9, <2>1, <2>2, <3>1, BeginKeepsPages DEF OpenTitle
  <2> QED
    BY <2>3, <2>4
<1> QED
  BY <1>2, <1>3, <1>4, <1>5, <1>6, <1>7, <1>8, <1>9, ChangeKeepsPages, FetchKeepsPages, AnswerKeepsPages
     DEF TitlePagesNext

(* Cache, claim and readers keep their types. *)
THEOREM PagesTypes == TitlePagesSpec => []TitlePagesTypeOK
<1>1. TitlePagesInit => PagesInv
  BY PagesBegin
<1>2. PagesInv /\ [TitlePagesNext]_titlePageVars => PagesInv'
  BY PagesStep
<1>3. PagesInv => TitlePagesTypeOK
  BY DEF PagesInv
<1> QED
  BY <1>1, <1>2, <1>3, PTL DEF TitlePagesSpec

(* An episode leaves the cache with a page only if the server lacked it while the page   *)
(* was asking, or a removal slid it past its page; what a page adds the server had; and  *)
(* it writes for the sign-in it asked under (reconcile_children, item_detail).            *)
THEOREM PagesCorrect == TitlePagesSpec => PagesWriteWhatWasSaid
<1> DEFINE Said(r) ==
      PageWrites(r) /\ cachedEps' # cachedEps =>
        /\ reader[r].signIn = pageSignIn
        /\ cachedEps' \ cachedEps \subseteq reader[r].had
        /\ cachedEps \ cachedEps' \subseteq reader[r].lacked \cup reader[r].slid
<1>1. TitlePagesInit => PagesInv
  BY PagesBegin
<1>2. PagesInv /\ [TitlePagesNext]_titlePageVars => PagesInv'
  BY PagesStep
<1>3. PagesInv /\ [TitlePagesNext]_titlePageVars => [\A r \in Readers : Said(r)]_titlePageVars
  <2> SUFFICES ASSUME PagesInv, TitlePagesNext, NEW r \in Readers, PageWrites(r), cachedEps' # cachedEps
               PROVE  /\ reader[r].signIn = pageSignIn
                      /\ cachedEps' \ cachedEps \subseteq reader[r].had
                      /\ cachedEps \ cachedEps' \subseteq reader[r].lacked \cup reader[r].slid
    OBVIOUS
  <2>1. /\ reader \in [Readers -> ReaderStates] /\ onServer \subseteq Episodes /\ cachedEps \subseteq Episodes
        /\ reader[r] \in ReaderStates
    BY ReaderTypes DEF PagesInv
  <2>2. reader[r].at = "answered" /\ reader'[r] # reader[r]
    BY DEF PageWrites, NoReader
  <2>3. PICK q \in Readers : CommitChildren(q) \/ CommitTitle(q)
    BY <2>2 DEF TitlePagesNext, ServerChanges, SocketTells, SignInAgain, ClaimEnds, OpenChildren, FetchChildren,
                FetchFails, AnswerTitle, OpenTitle
  <2>4. q = r /\ MayWrite(r)
    <3>1. reader' = [reader EXCEPT ![q] = NoReader]
      BY <2>3 DEF CommitChildren, CommitTitle, Ends
    <3>2. q = r
      BY <2>1, <2>2, <3>1
    <3>3. MayWrite(q)
      BY <2>3 DEF CommitChildren, CommitTitle
    <3> QED
      BY <3>2, <3>3
  <2>5. ~Idle(r) /\ History(r) /\ ListAnswer(r)
    BY <2>3, <2>4 DEF PagesInv, ReaderOK, CommitChildren, CommitTitle, Idle
  <2>6. CASE CommitChildren(r)
    BY <2>1, <2>2, <2>4, <2>5, <2>6 DEF CommitChildren, MayWrite, Current, ListAnswer, Known
  <2>7. CASE CommitTitle(r)
    <3>1. PICK e \in Episodes : reader[r].of = {e}
      BY <2>5, <2>7 DEF ListAnswer, CommitTitle
    <3>2. reader[r].list \subseteq {e} /\ reader[r].list \subseteq reader[r].had /\ {e} \subseteq reader[r].list \cup reader[r].lacked
      BY <2>2, <2>5, <2>7, <3>1 DEF ListAnswer, CommitTitle
    <3> QED
      BY <2>4, <2>7, <3>1, <3>2 DEF CommitTitle, MayWrite, Current
  <2> QED
    BY <2>3, <2>4, <2>6, <2>7
<1> QED
  BY <1>1, <1>2, <1>3, PTL DEF TitlePagesSpec, PagesWriteWhatWasSaid
=============================================================================
