---------------------------- MODULE PlaybackEvents ----------------------------
(* What the player does reaches the pages, and the library's cache (shell/cef/events.rs).*)
(* The bridge thread keeps only the newest state for up to 100 ms and posts it to the    *)
(* UI thread, which runs scripts in the pages.  For each playback that stopped the UI    *)
(* thread starts another one: it waits until the reports queued so far are sent, fetches *)
(* the item and writes it into the cache.  A player that is replaced in the settings     *)
(* goes on sending into the same channel until it is shut down.                          *)
EXTENDS Naturals, Sequences, FiniteSets

CONSTANTS
  MaxPlayerEvents, MaxStops, MaxSignIns   \* bounds

EventsAssumption == MaxPlayerEvents \in Nat /\ MaxStops \in Nat /\ MaxSignIns \in Nat

Stops == 1 .. MaxStops

VARIABLES
  emitted,      \* the player's events so far, in the order of the channel
  taken,        \* how many of them the bridge has received
  pendingState, \* pending_state: the event it holds back, or none
  deadline,     \* state_deadline is set
  uiTasks,      \* playback events posted to the UI thread
  heard,        \* history: the events the page was told of
  reports,      \* of the playbacks that stopped: is its last report sent
  progress,     \* what the server knows of the item
  cached,       \* what the cache has
  mirrors,      \* the threads of mirror_playback_progress, one for each stop
  signIns,      \* the session's generation
  cycleAsked    \* services.sync was requested

bridge == <<emitted, taken, pendingState, deadline>>
library == <<reports, progress, cached, signIns, cycleAsked>>
eventVars == <<bridge, uiTasks, heard, library, mirrors>>

NoState == 0
NoMirror == [at |-> "none", item |-> 0, session |-> 0, known |-> 0]
Outcomes == {"refreshed", "deferred"}
StopsIn(n) == Cardinality({i \in 1 .. n : emitted[i] = "stopped"})

EventsTypeOK ==
  /\ emitted \in Seq({"state", "stopped", "failed"}) /\ taken \in 0 .. Len(emitted)
  /\ pendingState \in 0 .. taken /\ deadline \in BOOLEAN
  /\ uiTasks \in Seq(1 .. taken) /\ heard \in Seq(1 .. taken)
  /\ reports \in 0 .. MaxStops /\ progress \in 0 .. MaxStops /\ cached \in 0 .. MaxStops
  /\ mirrors \in [Stops -> [at : {"none", "flushing", "fetching", "storing"} \cup Outcomes,
                            item : 0 .. MaxStops, session : 0 .. MaxSignIns, known : 0 .. MaxStops]]
  /\ signIns \in 0 .. MaxSignIns /\ cycleAsked \in BOOLEAN

EventsInit ==
  /\ emitted = << >> /\ taken = 0 /\ pendingState = NoState /\ deadline = FALSE
  /\ uiTasks = << >> /\ heard = << >>
  /\ reports = 0 /\ progress = 0 /\ cached = 0 /\ mirrors = [s \in Stops |-> NoMirror]
  /\ signIns = 0 /\ cycleAsked = FALSE

---------------------------------------------------------------------------------------
(* The player's side and the bridge thread.                                              *)

(* publish_snapshot, notify_playback_stopped, report_playback_failure; the report of a     *)
(* stop is queued before.                                                                *)
PlayerSends(kind) ==
  /\ Len(emitted) < MaxPlayerEvents
  /\ kind = "stopped" => StopsIn(Len(emitted)) < MaxStops
  /\ emitted' = Append(emitted, kind)
  /\ UNCHANGED <<taken, pendingState, deadline, uiTasks, heard, library, mirrors>>

BridgeTakesState ==
  /\ taken < Len(emitted) /\ emitted[taken + 1] = "state"
  /\ taken' = taken + 1 /\ pendingState' = taken + 1 /\ deadline' = TRUE
  /\ UNCHANGED <<emitted, uiTasks, heard, library, mirrors>>

(* What goes before an event that is no state.  Mutant: nothing. *)
HeldLonger == << >>
HeldBack == IF pendingState = NoState THEN << >> ELSE <<pendingState>>

BridgeTakesOther ==
  /\ taken < Len(emitted) /\ emitted[taken + 1] # "state"
  /\ taken' = taken + 1 /\ uiTasks' = uiTasks \o HeldBack \o <<taken + 1>>
  /\ pendingState' = IF HeldBack = << >> THEN pendingState ELSE NoState
  /\ deadline' = FALSE
  /\ UNCHANGED <<emitted, heard, library, mirrors>>

DeadlinePassed ==
  /\ deadline /\ deadline' = FALSE
  /\ uiTasks' = uiTasks \o (IF pendingState = NoState THEN << >> ELSE <<pendingState>>)
  /\ pendingState' = NoState
  /\ UNCHANGED <<emitted, taken, heard, library, mirrors>>

---------------------------------------------------------------------------------------
(* The UI thread and the threads that refresh the cache.                                 *)

(* dispatch_playback_event, mirror_playback_progress; a thread that cannot be started     *)
(* leaves the cache to the next cycle.                                                   *)
DispatchPlaybackEvent(started) ==
  LET n == Head(uiTasks)
      s == StopsIn(n) IN
  /\ uiTasks # << >> /\ uiTasks' = Tail(uiTasks) /\ heard' = Append(heard, n)
  /\ mirrors' = IF emitted[n] # "stopped" THEN mirrors
                ELSE [mirrors EXCEPT ![s].at = IF started THEN "flushing" ELSE "deferred"]
  /\ UNCHANGED <<bridge, library>>

(* The reporter sends the next report; it may not arrive. *)
ReportSent(arrives) ==
  /\ reports < StopsIn(Len(emitted)) /\ reports' = reports + 1
  /\ progress' = IF arrives THEN reports + 1 ELSE progress
  /\ UNCHANGED <<bridge, uiTasks, heard, cached, signIns, cycleAsked, mirrors>>

Ends(s, outcome) == mirrors' = [mirrors EXCEPT ![s].at = outcome]
AskForCycle(s) == cycleAsked' = TRUE /\ Ends(s, "deferred")

(* flush_playstate_reports, and what its caller does when it runs out of time.  Mutant:    *)
(* it does not wait.                                                                     *)
FlushedAnyway(s) == TRUE
Flushed(s) == reports >= s

FlushEnds(s) ==
  /\ mirrors[s].at = "flushing"
  /\ \/ /\ Flushed(s)
        /\ mirrors' = [mirrors EXCEPT ![s] = [at |-> "fetching", item |-> 0, session |-> signIns,
                                              known |-> progress]]
        /\ UNCHANGED cycleAsked
     \/ AskForCycle(s)
  /\ UNCHANGED <<bridge, uiTasks, heard, reports, progress, cached, signIns>>

(* The item as the server has it; an answer in time, or an error.  (The session's scope    *)
(* was taken before.)                                                                    *)
FetchItem(s) ==
  /\ mirrors[s].at = "fetching"
  /\ \/ /\ mirrors' = [mirrors EXCEPT ![s].at = "storing", ![s].item = progress]
        /\ UNCHANGED cycleAsked
     \/ AskForCycle(s)
  /\ UNCHANGED <<bridge, uiTasks, heard, reports, progress, cached, signIns>>

(* commit_if_current: written under the session it was fetched under.  Mutant: any. *)
AnySessionNow(s) == TRUE
SameSession(s) == mirrors[s].session = signIns

StoreItem(s) ==
  /\ mirrors[s].at = "storing"
  /\ \/ ~SameSession(s) /\ Ends(s, "deferred") /\ UNCHANGED <<cached, cycleAsked>>
     \/ /\ SameSession(s)
        /\ \/ cached' = mirrors[s].item /\ Ends(s, "refreshed") /\ UNCHANGED cycleAsked
           \/ AskForCycle(s) /\ UNCHANGED cached   \* absent, or storage failed
  /\ UNCHANGED <<bridge, uiTasks, heard, reports, progress, signIns>>

(* Another user signs in: the cache starts over. *)
NextSignIn ==
  /\ signIns < MaxSignIns /\ signIns' = signIns + 1 /\ cached' = 0 /\ cycleAsked' = TRUE
  /\ UNCHANGED <<bridge, uiTasks, heard, reports, progress, mirrors>>

EventsNext ==
  \/ \E kind \in {"state", "stopped", "failed"} : PlayerSends(kind)
  \/ BridgeTakesState \/ BridgeTakesOther \/ DeadlinePassed
  \/ \E yes \in BOOLEAN : DispatchPlaybackEvent(yes) \/ ReportSent(yes)
  \/ \E s \in Stops : FlushEnds(s) \/ FetchItem(s) \/ StoreItem(s)
  \/ NextSignIn

EventsSpec == EventsInit /\ [][EventsNext]_eventVars

(* A page hears of things in the order they happened, of every stop and failure, and in   *)
(* the end of the last state (start_playback_event_bridge).                                *)
PageFollowsPlayer ==
  LET told == heard \o uiTasks
  IN  /\ \A i, j \in DOMAIN heard : i < j => heard[i] < heard[j]
      /\ \A i \in 1 .. taken : emitted[i] # "state" => \E k \in DOMAIN told : told[k] = i
      /\ taken > 0 => pendingState = taken \/ told[Len(told)] = taken
      /\ pendingState # NoState => deadline

(* A stop that is announced as refreshed left in the cache what the server knew after the  *)
(* stop's report, in the session it was fetched under; and a thread that leaves it to a    *)
(* cycle has asked for one (mirror_playback_progress).                                     *)
MirrorsFollowReports ==
  \A s \in Stops :
    /\ mirrors'[s].at = "refreshed" /\ mirrors[s].at # "refreshed" =>
         cached' >= mirrors[s].known /\ signIns = mirrors[s].session /\ reports >= s
    /\ mirrors'[s].at = "deferred" =>
         cycleAsked' \/ mirrors[s].at \in {"none", "deferred"}
=============================================================================
