---------------------------- MODULE CatalogSync ----------------------------
(***************************************************************************)
(* The library sync cycle: src/library/sync/cycle.rs over the writers of   *)
(* src/library/catalog.rs.                                                 *)
(*                                                                         *)
(* One worker mirrors the server's titles in pages while the server adds   *)
(* and removes them, the event socket writes the same cache, and the       *)
(* process may end anywhere.  Every commit runs under the session's        *)
(* operation_gate, so it is one action; a commit of several statements is  *)
(* also cut short, by an action that ends the process after its first      *)
(* statement.  A page is the set of its titles: their order inside a page  *)
(* decides nothing.  A title's DateCreated is fixed when it is added and   *)
(* not before those of the titles already there, as the cycle assumes of a *)
(* server; ties are possible, and the server breaks them by identity.      *)
(* What a catalog row holds besides the title's identity is left out, and  *)
(* so are the notifications to the UI.                                     *)
(***************************************************************************)
EXTENDS Integers, FiniteSets, FiniteSetsExt

CONSTANTS
  MaxTitle,         \* titles are 1 .. MaxTitle, added in this order
  Date,             \* DateCreated of each title; never falls, never 0
  Libs, LibOf,      \* the catalog libraries, and the one of each title
  PageSize,         \* PAGE_SIZE
  IdPageSize,       \* IDENTITY_PAGE_SIZE
  MaxBootPages, MaxIncrementalPages, MaxIdPages,
  ConfirmGap, ConfirmAge,  \* MIN_CONFIRM_GAP, MAX_CONFIRM_AGE
  MaxNow,           \* bound on the clock
  MaxFaults         \* bound on failed requests, cancellations and crashes

Titles == 1 .. MaxTitle

ASSUME SizesAssumption ==
  /\ MaxTitle \in Nat \ {0} /\ PageSize \in Nat \ {0} /\ IdPageSize \in Nat \ {0}
  /\ MaxBootPages \in Nat \ {0} /\ MaxIncrementalPages \in Nat \ {0}
  /\ MaxIdPages \in Nat \ {0} /\ MaxNow \in Nat /\ MaxFaults \in Nat
  /\ ConfirmGap \in Nat /\ ConfirmAge \in Nat
ASSUME DateAssumption ==
  /\ Date \in [Titles -> Nat \ {0}] /\ LibOf \in [Titles -> Libs]
  /\ \A t, u \in Titles : t < u => Date[t] <= Date[u]

VARIABLES
  listed, next, views,           \* the server: titles, the next one, libraries
  cache, done, offset, wm, wmIds, \* catalog rows, bootstrap and watermark meta
  owed, emptyAt, stored, everDone, failed,  \* sweep meta, library list, ...
  bootDue, sweepDue, now,        \* daily and hourly timers, wall clock
  pc, cy,                        \* the worker: step and the cycle's locals
  sock,                          \* titles another thread fetched and did not write
  missed, stable, unseen, empties, covered, \* history: see the properties
  faults

server == <<listed, next, views>>
boot   == <<done, offset, everDone>>
mark   == <<wm, wmIds>>
sweep  == <<owed, emptyAt>>
timers == <<bootDue, sweepDue, now>>
walk   == <<stable, unseen>>
ghosts == <<missed, walk, empties, covered>>
vars == <<server, cache, boot, mark, sweep, stored, failed, timers, pc, cy, sock, ghosts, faults>>

Never == -1     \* emptyAt: no observation
Steps == {"idle", "list", "restart", "bootFetch", "bootCommit", "bootMark",
          "bootCapped", "bootFinish", "incFetch", "incCommit", "incMark", "sweepGate",
          "idFetch", "idCommit", "verdict", "swept", "success"}
BootWalk == {"bootFetch", "bootCommit"}
IncWalk  == {"incFetch", "incCommit"}
IdWalk   == {"idFetch", "idCommit"}
Answers == {"none", "incomplete", "listed", "zero", "notCounted"}

\* The locals of run_cycle_inner and of the walk it is in.
Cycle == [initial : BOOLEAN, forced : BOOLEAN, noCat : BOOLEAN,
          pages : Nat, at : 0 .. MaxTitle, page : SUBSET Titles, total : 0 .. MaxTitle,
          w : Nat, wIds : SUBSET Titles, seen : SUBSET Titles, answer : Answers]
NoCycle == [initial |-> FALSE, forced |-> FALSE, noCat |-> FALSE,
            pages |-> 0, at |-> 0, page |-> {}, total |-> 0,
            w |-> 0, wIds |-> {}, seen |-> {}, answer |-> "none"]

TypeOK ==
  /\ listed \subseteq Titles /\ next \in 1 .. MaxTitle + 1 /\ views \subseteq Libs
  /\ cache \subseteq Titles /\ done \in BOOLEAN /\ offset \in 0 .. MaxTitle
  /\ wm \in Nat /\ wmIds \subseteq Titles
  /\ owed \in BOOLEAN /\ emptyAt \in {Never} \cup 0 .. MaxNow /\ stored \subseteq Libs
  /\ everDone \in BOOLEAN /\ failed \in BOOLEAN
  /\ bootDue \in BOOLEAN /\ sweepDue \in BOOLEAN /\ now \in 0 .. MaxNow
  /\ pc \in Steps /\ cy \in Cycle /\ sock \subseteq Titles
  /\ missed \subseteq Titles /\ stable \subseteq Titles /\ unseen \subseteq Titles /\ covered \subseteq Titles
  /\ empties \subseteq 0 .. MaxNow
  /\ faults \in 0 .. MaxFaults

---------------------------------------------------------------------------
(* The server's listings, and what a removal does to a walk under way.     *)

Rank(S, t) == Cardinality({u \in S : u < t})       \* DateCreated ascending
RankDown(S, t) == Cardinality({u \in S : u > t})   \* DateCreated descending

Page(from, size) == {t \in listed : Rank(listed, t) \in from .. from + size - 1}
PageDown(from, size) == {t \in listed : RankDown(listed, t) \in from .. from + size - 1}

\* The position the walk under way asks for next.
NextAt == cy.at + Cardinality(cy.page)

\* Titles that lie in the walk's read part, unread, once the server's titles
\* become S: moved there by a removal, or added there after one.
SlidUp(from, S) == {t \in S : Rank(S, t) < from /\ (t \in listed => Rank(listed, t) >= from)}
SlidDown(from, S) == {t \in S \cap listed : RankDown(listed, t) >= from /\ RankDown(S, t) < from}

\* Titles of S that a bootstrap resumed from its stored offset leaves out.
Behind(S) == {t \in S : Rank(listed, t) < offset}

\* A bootstrap may also have to resume from its stored offset.
BootMisses(S) ==
  (IF ~done THEN SlidUp(offset, S) ELSE {})
  \cup (IF pc \in BootWalk THEN SlidUp(NextAt, S) ELSE {})
IncMisses(S) == IF pc \in IncWalk THEN SlidDown(NextAt, S) ELSE {}
UnseenTo(S) == IF pc \in IdWalk THEN SlidUp(NextAt, S) \cap listed ELSE {}

ServerBecomes(S) ==
  /\ listed' = S
  /\ missed' = (missed \cup ((BootMisses(S) \cup IncMisses(S)) \ cache)) \cap S
  /\ covered' = covered \cup BootMisses(S)
  /\ stable' = (stable \cap S) \ UnseenTo(S)
  /\ unseen' = (unseen \cup UnseenTo(S)) \cap S

AddTitle ==
  /\ next <= MaxTitle /\ LibOf[next] \in views
  /\ next' = next + 1 /\ ServerBecomes(listed \cup {next})
  /\ UNCHANGED <<views, cache, boot, mark, sweep, stored, failed, timers, pc, cy, sock,
                 empties, faults>>

RemoveTitle(t) ==
  /\ t \in listed /\ ServerBecomes(listed \ {t})
  /\ UNCHANGED <<next, views, cache, boot, mark, sweep, stored, failed, timers, pc, cy,
                 sock, empties, faults>>

RemoveLibrary(l) ==
  /\ l \in views /\ views' = views \ {l}
  /\ ServerBecomes({t \in listed : LibOf[t] # l})
  /\ UNCHANGED <<next, cache, boot, mark, sweep, stored, failed, timers, pc, cy, sock,
                 empties, faults>>

---------------------------------------------------------------------------
(* Another thread: the event socket, an opened title, a 404.               *)

\* handle_message and title_children fetch titles the server has, and write
\* them later; the cycle may be anywhere.
OtherFetches(t) ==
  /\ sock = {} /\ t \in listed /\ sock' = {t}
  /\ UNCHANGED <<server, cache, boot, mark, sweep, stored, failed, timers, pc, cy, ghosts, faults>>

Ingest(S) == cache' = cache \cup S /\ missed' = missed \ S

OtherIngests ==
  /\ sock # {} /\ Ingest(sock) /\ sock' = {}
  /\ UNCHANGED <<server, boot, mark, sweep, stored, failed, timers, pc, cy, walk, empties,
                 covered, faults>>

\* Library::forget, for a title the server reports removed.
OtherForgets(t) ==
  /\ sock = {} /\ t \in cache \ listed /\ cache' = cache \ {t}
  /\ UNCHANGED <<server, boot, mark, sweep, stored, failed, timers, pc, cy, sock, ghosts, faults>>

---------------------------------------------------------------------------
(* The cycle: run_cycle_inner.                                             *)

outside == <<server, sock, now, faults>>

Go(step, locals) == pc' = step /\ cy' = locals

\* first_catalog_download
FirstDownload == ~done /\ ~everDone

Start ==
  /\ pc = "idle"
  /\ \E trigger \in BOOLEAN :
       Go("list", [NoCycle EXCEPT !.initial = FirstDownload, !.forced = trigger])
  /\ UNCHANGED <<outside, cache, boot, mark, sweep, stored, failed, bootDue, sweepDue, ghosts>>

\* list_libraries is best effort.  replace_libraries owes a sweep when a
\* library left the list.
ListLibraries ==
  /\ pc = "list"
  /\ \/ /\ stored' = views /\ owed' = (owed \/ ~(stored \subseteq views))
        /\ Go("restart", [cy EXCEPT !.noCat = (views = {})]) /\ UNCHANGED faults
     \/ /\ faults < MaxFaults /\ faults' = faults + 1
        /\ Go("restart", cy) /\ UNCHANGED <<stored, owed>>
  /\ UNCHANGED <<server, sock, now, cache, boot, mark, emptyAt, failed, bootDue, sweepDue, ghosts>>

\* Where the cycle goes on with an offset to bootstrap from, and without one.
\* Both walks read the watermark as they begin.
AtBootstrap(from) == [cy EXCEPT !.at = from, !.w = wm, !.wIds = wmIds]
AtIncremental(w, ids) == [cy EXCEPT !.at = 0, !.pages = 0, !.w = w, !.wIds = ids]

\* Mutant of RestartOffset: the finished walk's offset stays.
RestartOffsetAtTheEnd == offset

RestartOffset == 0

\* full_bootstrap_due, restart_bootstrap, and the start of bootstrap, which
\* goes on from the stored offset.
RestartBootstrap ==
  /\ pc = "restart"
  /\ \/ /\ done /\ bootDue
        /\ done' = FALSE /\ offset' = RestartOffset /\ Go("bootFetch", AtBootstrap(offset'))
     \/ ~done /\ Go("bootFetch", AtBootstrap(offset)) /\ UNCHANGED <<done, offset>>
     \/ done /\ ~bootDue /\ Go("incFetch", AtIncremental(wm, wmIds)) /\ UNCHANGED <<done, offset>>
  /\ UNCHANGED <<outside, cache, everDone, mark, sweep, stored, failed, bootDue, sweepDue, ghosts>>

\* The cycle's locals after a walk of its returns.
Left(c) == [NoCycle EXCEPT !.initial = c.initial, !.forced = c.forced, !.noCat = c.noCat]

\* advance_watermark_with_ids over a page
Newest(w, S) == Max({w} \cup {Date[t] : t \in S})
Advanced(c, S) ==
  LET w == Newest(c.w, S)
      ids == {t \in S : Date[t] = w}
  IN  [c EXCEPT !.w = w, !.wIds = IF w > c.w THEN ids ELSE c.wIds \cup ids]

BootFetch ==
  /\ pc = "bootFetch"
  /\ LET S == Page(cy.at, PageSize)
     IN  IF cy.pages >= MaxBootPages THEN Go("bootCapped", cy)
         ELSE IF S = {} THEN Go("bootMark", cy)
         ELSE Go("bootCommit", [Advanced(cy, S) EXCEPT !.page = S, !.total = Cardinality(listed)])
  /\ UNCHANGED <<outside, cache, boot, mark, sweep, stored, failed, bootDue, sweepDue, ghosts>>

\* Mutant of StoredOffset: the place of the next title counted from one.
StoredOffsetFromOne == cy.at + Cardinality(cy.page) + 1

StoredOffset == cy.at + Cardinality(cy.page)

\* commit_catalog_page
BootCommit ==
  /\ pc = "bootCommit"
  /\ Ingest(cy.page) /\ offset' = StoredOffset /\ covered' = covered \cup cy.page
  /\ LET last == NextAt >= cy.total \/ Cardinality(cy.page) < PageSize
         c == [cy EXCEPT !.at = NextAt, !.page = {}, !.pages = @ + 1, !.total = 0]
     IN  Go(IF last THEN "bootMark" ELSE "bootFetch", c)
  /\ UNCHANGED <<outside, done, everDone, mark, sweep, stored, failed, bootDue, sweepDue,
                 walk, empties>>

\* commit_bootstrap_watermark.  A walk that stopped at its page cap is not
\* finished: the next cycle resumes it.
BootMark ==
  /\ pc \in {"bootMark", "bootCapped"}
  /\ IF cy.w = 0 THEN UNCHANGED mark ELSE wm' = cy.w /\ wmIds' = cy.wIds
  /\ IF pc = "bootMark" THEN Go("bootFinish", cy) ELSE Go("incFetch", AtIncremental(wm', wmIds'))
  /\ UNCHANGED <<outside, cache, boot, sweep, stored, failed, bootDue, sweepDue, ghosts>>

\* finish_bootstrap
BootFinish ==
  /\ pc = "bootFinish"
  /\ done' = TRUE /\ everDone' = TRUE /\ bootDue' = FALSE /\ covered' = {}
  /\ Go("incFetch", AtIncremental(wm, wmIds))
  /\ UNCHANGED <<outside, cache, offset, mark, sweep, stored, failed, sweepDue,
                 missed, walk, empties>>

(* incremental, newest first.                                              *)

\* Mutant of Candidate: without the titles of the watermark's own instant.
CandidateNewer(t) == Date[t] > wm

\* is_incremental_candidate
Candidate(t) == Date[t] > wm \/ (Date[t] = wm /\ t \notin wmIds)

IncFetch ==
  /\ pc = "incFetch"
  /\ LET S == PageDown(cy.at, PageSize)
         capped == cy.pages >= MaxIncrementalPages
     IN  /\ IF capped \/ S = {}
            THEN Go("incMark", cy)
            ELSE Go("incCommit", [Advanced(cy, S) EXCEPT !.page = S])
         /\ missed' = IF capped THEN missed \cup {t \in listed \ cache : RankDown(listed, t) >= cy.at}
                      ELSE missed
  /\ UNCHANGED <<outside, cache, boot, mark, sweep, stored, failed, bootDue, sweepDue,
                 walk, empties, covered>>

IncCommit ==
  /\ pc = "incCommit"
  /\ Ingest({t \in cy.page : Candidate(t)})
  /\ LET reached == \E t \in cy.page : wm # 0 /\ Date[t] < wm
         last == reached \/ Cardinality(cy.page) < PageSize
         c == [cy EXCEPT !.at = NextAt, !.page = {}, !.pages = @ + 1]
     IN  Go(IF last THEN "incMark" ELSE "incFetch", c)
  /\ UNCHANGED <<outside, boot, mark, sweep, stored, failed, bootDue, sweepDue,
                 walk, empties, covered>>

IncMark ==
  /\ pc = "incMark"
  /\ IF cy.w = 0 THEN UNCHANGED mark ELSE wm' = cy.w /\ wmIds' = cy.wIds
  /\ Go("sweepGate", Left(cy))
  /\ UNCHANGED <<outside, cache, boot, sweep, stored, failed, bootDue, sweepDue, ghosts>>

(* sweep_identity: walk_identity, sweep_verdict, apply_sweep_verdict.      *)

\* Mutant of SweepWanted: a sweep that a removed library owes waits its hour.
SweepWantedByTheHour == cy.forced \/ sweepDue

SweepWanted == cy.forced \/ owed \/ sweepDue

\* A first download has nothing to sweep.  `stable` begins to follow the
\* titles that a walk is bound to meet.
SweepGate ==
  /\ pc = "sweepGate"
  /\ IF cy.initial \/ ~SweepWanted
     THEN /\ sweepDue' = (sweepDue /\ ~cy.initial)
          /\ Go("success", cy) /\ UNCHANGED walk
     ELSE /\ Go("idFetch", cy)
          /\ stable' = listed /\ unseen' = {} /\ UNCHANGED sweepDue
  /\ UNCHANGED <<outside, cache, boot, mark, sweep, stored, failed, bootDue,
                 missed, empties, covered>>

\* Mutant of AtTheCap: what was seen so far passes for the whole.
AtTheCapListed == IF cy.seen = {} THEN "notCounted" ELSE "listed"

AtTheCap == "incomplete"

IdFetch ==
  /\ pc = "idFetch"
  /\ LET S == Page(cy.at, IdPageSize)
         ended == IF cy.seen # {} THEN "listed"
                  ELSE IF listed = {} THEN "zero" ELSE "notCounted"
     IN  IF cy.pages >= MaxIdPages THEN Go("verdict", [cy EXCEPT !.answer = AtTheCap])
         ELSE IF S = {} THEN Go("verdict", [cy EXCEPT !.answer = ended])
         ELSE Go("idCommit", [cy EXCEPT !.page = S, !.seen = @ \cup S])
  /\ UNCHANGED <<outside, cache, boot, mark, sweep, stored, failed, bootDue, sweepDue, ghosts>>

\* apply_user_data writes watch state alone.
IdCommit ==
  /\ pc = "idCommit"
  /\ LET c == [cy EXCEPT !.at = NextAt, !.page = {}, !.pages = @ + 1]
     IN  IF Cardinality(cy.page) < IdPageSize
         THEN Go("verdict", [c EXCEPT !.answer = "listed"])
         ELSE Go("idFetch", c)
  /\ UNCHANGED <<outside, cache, boot, mark, sweep, stored, failed, bootDue, sweepDue, ghosts>>

Observed == emptyAt # Never /\ now >= emptyAt
Age == now - emptyAt

\* Mutant of EmptyVerdict: the second empty answer deletes however soon it comes.
EmptyVerdictAtOnce == IF Observed /\ Age <= ConfirmAge THEN "delete" ELSE "observe"

EmptyVerdict ==
  IF ~Observed THEN "observe"
  ELSE IF Age < ConfirmGap THEN "wait"
  ELSE IF Age <= ConfirmAge THEN "delete" ELSE "observe"

SweepVerdict ==
  CASE cy.answer \in {"incomplete", "notCounted"} -> "forget"
    [] cy.answer = "listed" -> "delete"
    [] cy.answer = "zero" -> IF cy.noCat THEN "delete" ELSE EmptyVerdict

\* apply_sweep_verdict.  retain_ids_setting_meta deletes and clears the marks
\* in one transaction.
ApplyVerdict ==
  /\ pc = "verdict"
  /\ \/ /\ SweepVerdict = "delete"
        /\ cache' = cache \cap cy.seen /\ owed' = FALSE /\ emptyAt' = Never
        /\ missed' = missed \cup unseen \cup (IF done THEN {} ELSE Behind((listed \cap cache) \ cy.seen))
     \/ /\ SweepVerdict = "forget" /\ emptyAt' = Never /\ UNCHANGED <<cache, owed, missed>>
     \/ /\ SweepVerdict = "observe" /\ emptyAt' = now /\ UNCHANGED <<cache, owed, missed>>
     \/ /\ SweepVerdict = "wait" /\ UNCHANGED <<cache, owed, emptyAt, missed>>
  /\ empties' = IF cy.answer = "zero" /\ SweepVerdict # "delete" THEN empties \cup {now} ELSE {}
  /\ Go("swept", [Left(cy) EXCEPT !.answer = cy.answer]) /\ stable' = {} /\ unseen' = {}
  /\ UNCHANGED <<outside, boot, mark, stored, failed, bootDue, sweepDue, covered>>

TouchSweep ==
  /\ pc = "swept" /\ sweepDue' = FALSE /\ Go("success", cy)
  /\ UNCHANGED <<outside, cache, boot, mark, sweep, stored, failed, bootDue, ghosts>>

\* record_success
Success ==
  /\ pc = "success" /\ failed' = FALSE /\ Go("idle", NoCycle)
  /\ UNCHANGED <<outside, cache, boot, mark, sweep, stored, bootDue, sweepDue, ghosts>>

---------------------------------------------------------------------------
(* What ends a cycle early, and the passing of time.                       *)

Fault == faults < MaxFaults /\ faults' = faults + 1

\* A request or a write fails, or the app is stopping: an identity walk that
\* fails forgets the empty observation, and record_failure follows.
CycleFails ==
  /\ pc \notin {"idle", "list"} /\ Fault
  /\ failed' = TRUE /\ Go("idle", NoCycle) /\ stable' = {} /\ unseen' = {}
  /\ IF pc \in IdWalk THEN emptyAt' = Never /\ empties' = {} ELSE UNCHANGED <<emptyAt, empties>>
  /\ UNCHANGED <<server, sock, now, cache, boot, mark, owed, stored, bootDue, sweepDue,
                 missed, covered>>

\* The session moved on (every later commit is refused), or the process ended.
CycleEnds ==
  /\ Fault /\ Go("idle", NoCycle) /\ sock' = {} /\ stable' = {} /\ unseen' = {}
  /\ UNCHANGED <<server, now, cache, boot, mark, sweep, stored, failed, bootDue, sweepDue,
                 missed, empties, covered>>

\* The process ends, or the storage gives out, after the first statement of a
\* commit that has several.
EndsMidCommit ==
  /\ Fault /\ Go("idle", NoCycle) /\ sock' = {} /\ stable' = {} /\ unseen' = {}
  /\ \/ /\ pc = "restart" /\ done /\ bootDue /\ done' = FALSE
        /\ missed' = missed \cup Behind(listed \ cache)
        /\ UNCHANGED <<cache, offset, mark>>
     \/ /\ pc = "bootCommit" /\ Ingest(cy.page) /\ UNCHANGED <<done, offset, mark>>
     \/ /\ pc \in {"bootMark", "bootCapped", "incMark"} /\ cy.w # 0 /\ wm' = cy.w
        /\ UNCHANGED <<cache, done, offset, missed, wmIds>>
     \/ /\ pc = "bootFinish" /\ done' = TRUE /\ UNCHANGED <<cache, offset, missed, mark>>
  /\ UNCHANGED <<server, now, everDone, sweep, stored, failed, bootDue, sweepDue,
                 empties, covered>>

\* Library::clear_session(true): another account signed in, or the library
\* was forgotten.  The running cycle's commits are refused from here on.
ForgetLibrary ==
  /\ Fault /\ Go("idle", NoCycle) /\ sock' = {} /\ stable' = {} /\ unseen' = {}
  /\ cache' = {} /\ done' = FALSE /\ offset' = 0 /\ everDone' = FALSE
  /\ wm' = 0 /\ wmIds' = {} /\ owed' = FALSE /\ emptyAt' = Never /\ stored' = {}
  /\ failed' = FALSE /\ bootDue' = TRUE /\ sweepDue' = TRUE
  /\ missed' = {} /\ empties' = {} /\ covered' = {}
  /\ UNCHANGED <<server, now>>

\* due(): a day since the last bootstrap, an hour since the last sweep.  A
\* cycle reads each once before it resets it, so that the moment inside a
\* cycle makes no difference: they fall between two.
DayPasses ==
  /\ pc = "idle" /\ ~bootDue /\ bootDue' = TRUE
  /\ UNCHANGED <<outside, cache, boot, mark, sweep, stored, failed, sweepDue, pc, cy, ghosts>>
HourPasses ==
  /\ pc = "idle" /\ ~sweepDue /\ sweepDue' = TRUE
  /\ UNCHANGED <<outside, cache, boot, mark, sweep, stored, failed, bootDue, pc, cy, ghosts>>

\* now_unix reads the wall clock, which may also be set back.
ClockMoves ==
  /\ \E n \in 0 .. MaxNow : n # now /\ now' = n
  /\ UNCHANGED <<server, sock, faults, cache, boot, mark, sweep, stored, failed, bootDue,
                 sweepDue, pc, cy, ghosts>>

---------------------------------------------------------------------------
\* The server has the titles 1 .. n, and the app has not seen it before.
Init ==
  /\ \E n \in 0 .. MaxTitle : listed = 1 .. n /\ next = n + 1
  /\ views = Libs
  /\ cache = {} /\ done = FALSE /\ offset = 0 /\ wm = 0 /\ wmIds = {}
  /\ owed = FALSE /\ emptyAt = Never /\ stored = {} /\ everDone = FALSE /\ failed = FALSE
  /\ bootDue = TRUE /\ sweepDue = TRUE /\ now = 0
  /\ pc = "idle" /\ cy = NoCycle /\ sock = {}
  /\ missed = {} /\ stable = {} /\ unseen = {} /\ empties = {} /\ covered = {} /\ faults = 0

CycleStep ==
  \/ ListLibraries \/ RestartBootstrap \/ BootFetch \/ BootCommit
  \/ BootMark \/ BootFinish \/ IncFetch \/ IncCommit \/ IncMark
  \/ SweepGate \/ IdFetch \/ IdCommit \/ ApplyVerdict \/ TouchSweep \/ Success
Interruption == CycleFails \/ CycleEnds \/ EndsMidCommit \/ ForgetLibrary
ServerStep == \/ AddTitle \/ \E t \in Titles : RemoveTitle(t)
              \/ \E l \in Libs : RemoveLibrary(l)
OtherStep == \/ \E t \in Titles : OtherFetches(t) \/ OtherForgets(t)
             \/ OtherIngests
TimePasses == DayPasses \/ HourPasses \/ ClockMoves

Next == Start \/ CycleStep \/ Interruption \/ ServerStep \/ OtherStep \/ TimePasses

Spec == Init /\ [][Next]_vars

\* The worker's timer starts cycle after cycle, and a request the server
\* answers ends.  Days and hours pass, however often cycles start between (the
\* reason for strong fairness: time passes inside a cycle too).  Faults stop
\* because they are bounded.
Fairness == /\ WF_vars(Start) /\ WF_vars(CycleStep) /\ WF_vars(OtherIngests)
            /\ SF_vars(DayPasses) /\ SF_vars(HourPasses)
LiveSpec == Spec /\ Fairness

---------------------------------------------------------------------------
(* Properties.                                                             *)

\* Every title the server lists is in the cache, or some walk will still
\* fetch it: the incremental one because it is past the watermark, the
\* bootstrap because it is past the stored offset.  Until a later bootstrap,
\* `missed` holds what can be lost: a title that a removal slid under a walk
\* in progress or behind the stored offset, the rest of an incremental walk
\* that stops at its page cap, and what a crash between the two statements
\* that begin a new bootstrap leaves out; no other crash, cap, tie of dates
\* or failed page can (bootstrap, incremental, commit_bootstrap_watermark).
Accounted ==
  \A t \in listed \ cache :
    Candidate(t) \/ (~done /\ Rank(listed, t) >= offset) \/ t \in missed

\* A title the server listed at every request of an identity walk survives
\* its sweep, whatever is added, removed or written meanwhile (walk_identity,
\* apply_sweep_verdict).
SweepKeepsStable == [][pc = "verdict" /\ pc' = "swept" => stable \cap cache \subseteq cache']_vars

\* An empty answer empties the cache only if no catalog library is listed, or
\* an earlier empty answer within the window agrees and no walk in between
\* contradicted it (sweep_verdict).
ConfirmedWipe ==
  [][(pc = "verdict" /\ pc' = "swept" /\ cy.answer = "zero" /\ ~cy.noCat /\ cache' # cache)
       => \E e \in empties : now - e \in ConfirmGap .. ConfirmAge]_vars

\* A cycle that succeeds leaves a sweep owed only if it swept and could not
\* trust the answer (run_cycle_inner, replace_libraries).
OwedSweepIsNotSkipped ==
  [][(pc = "success" /\ pc' = "idle" /\ failed' = FALSE /\ ~cy.initial /\ owed')
       => cy.answer \notin {"none", "listed"}]_vars

\* A sweep spares what the server listed all along, empties the cache only on
\* a confirmed answer, and none that is owed is passed over (sync/cycle.rs).
SweepsAreTrue == SweepKeepsStable /\ ConfirmedWipe /\ OwedSweepIsNotSkipped

\* A bootstrap that finishes has fetched every title of the server's, save
\* those a removal slid past it and those still ahead of the watermark.
FinishedBootstrapCovers ==
  [][(pc = "bootFinish" /\ pc' = "incFetch")
       => \A t \in listed : t \in covered \/ Candidate(t)]_vars

\* When the server is left alone, the cache ends up with its titles.
Settles == <>[](cache = listed)

\* No sweep deletes a title that the server still lists because another
\* title's removal moved it from a page not yet read to one already read.
SweepKeepsSlid == [][pc = "verdict" /\ pc' = "swept" => unseen \cap cache \subseteq cache']_vars
=============================================================================
