-------------------------------- MODULE MCLive --------------------------------
(* What the catalog and the session have to get done.  A behaviour moves one of the two,  *)
(* the `focus`, and leaves the other as it starts; as the focus never changes, a fairness *)
(* condition that names a step of each is that of the part's own specification.           *)
EXTENDS Integers, FiniteSets

VARIABLE focus

CONSTANTS MaxTitle, Date, Libs, LibOf, PageSize, IdPageSize, MaxBootPages,
          MaxIncrementalPages, MaxIdPages, ConfirmGap, ConfirmAge, MaxNow, MaxFaults
VARIABLES listed, next, views, cache, done, offset, wm, wmIds, owed, emptyAt,
          stored, everDone, failed, bootDue, sweepDue, now, pc, cy, sock, missed,
          stable, unseen, empties, covered, faults
C == INSTANCE CatalogSync
catalogVars == <<listed, next, views, cache, done, offset, wm, wmIds, owed,
    emptyAt, stored, everDone, failed, bootDue, sweepDue, now, pc, cy, sock, missed,
    stable, unseen, empties, covered, faults>>

CONSTANTS t1, t2, Accounts, Threads, None, MaxTokens, MaxGen
VARIABLES credAcct, credTok, owner, rows, acct, tok, gen, expired, deleting, pcS,
          held, reply, issued, revoked, uiAuthed, uiDue
S == INSTANCE Session WITH pc <- pcS
sessionVars == <<credAcct, credTok, owner, rows, acct, tok, gen, expired, deleting,
    pcS, held, reply, issued, revoked, uiAuthed, uiDue>>

MCDate == [t \in 1 .. MaxTitle |-> 1]
MCLibOf == [t \in 1 .. MaxTitle |-> CHOOSE l \in Libs : TRUE]

(* When the server is left alone, the cache ends up with its titles (sync/cycle.rs). *)
Settles == C!Settles

(* Screens that cannot work any more are left, or the session replaced (session.rs). *)
ExpiryReachesUi == S!ExpiryReachesUi

Parts == {"cycle", "session"}
allVars == <<focus, catalogVars, sessionVars>>

Init ==
  /\ focus \in Parts
  /\ C!Init /\ (focus # "cycle" => listed = {})
  /\ S!Init /\ (focus # "session" => credAcct = None /\ owner = None /\ rows = {})

(* A step A of a part. *)
In(part, A) ==
  /\ focus = part /\ A
  /\ IF part = "cycle" THEN TRUE ELSE UNCHANGED catalogVars
  /\ IF part = "session" THEN TRUE ELSE UNCHANGED sessionVars
  /\ UNCHANGED focus

(* The server removes at most one title. *)
OneRemoval == next' - 1 - Cardinality(listed') <= 1

Next ==
  \/ In("cycle", C!Next /\ OneRemoval)
  \/ In("session", S!Next)

Fairness ==
  /\ WF_allVars(In("cycle", C!Start) \/ In("session", S!UiReadStatus))
  /\ WF_allVars(In("cycle", C!CycleStep) \/ In("session", S!PushExpired(t1)))
  /\ WF_allVars(In("cycle", C!OtherIngests) \/ In("session", S!PushExpired(t2)))
  /\ SF_allVars(In("cycle", C!DayPasses))
  /\ SF_allVars(In("cycle", C!HourPasses))

Spec == Init /\ [][Next]_allVars /\ Fairness

(* The state of the part that moves is of its type. *)
TypesOK ==
  CASE focus = "cycle" -> C!TypeOK
    [] focus = "session" -> S!TypeOK
    [] OTHER -> TRUE
================================================================================
