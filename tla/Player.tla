-------------------------------- MODULE Player --------------------------------
(***************************************************************************)
(* The mpv controller (src/players/mpv/controller.rs and below): one       *)
(* thread that takes commands of the app, events of mpv and timeouts one   *)
(* at a time, over an mpv process that plays, ends files, stops and dies   *)
(* on its own, and over the reporter thread of PlaystateReporter.          *)
(*                                                                         *)
(* Commands of the app are taken when the thread is ready for the next     *)
(* message.  A load is two steps, because mpv goes on while the controller *)
(* waits for the answer to `loadfile`.  Playbacks are numbered in the      *)
(* order they were asked for; no load repeats an earlier one within the    *)
(* debounce time.                                                          *)
(***************************************************************************)
EXTENDS PlaystateReporter

CONSTANTS
  Silent,        \* the playbacks that have no Jellyfin session to report to
  MaxQueue,      \* no progress is reported into a longer channel
  MaxFaults,     \* exits, crashes, lost pipes, failed starts, rejections, new paths
  MaxTimeouts    \* handoff, pending and flush deadlines that pass

ASSUME PlayerAssumption ==
  /\ Playbacks \subseteq Nat \ {0}
  /\ Silent \subseteq Playbacks
  /\ MaxQueue \in Nat /\ MaxFaults \in Nat /\ MaxTimeouts \in Nat

VARIABLES
  ctl,        \* the controller's state
  pc,         \* ready, loadfile, flushing, done
  incoming,   \* the load whose `loadfile` is being sent
  mpv,        \* the runtime that the controller holds
  events,     \* mpv's events on their way to the controller
  asked,      \* the playbacks asked for so far
  exiting,    \* `shutdown_requested`
  faults, timeouts,
  misled      \* history: another file's event passed for the pending load's own, or
              \* mpv was restarted under a playback that was not finished

env == <<asked, exiting, faults, timeouts, misled>>
vars == <<ctl, pc, incoming, mpv, events, env, reporter>>

NoPlayback == 0
NoSession == 0

\* `wired`: commands can be sent; `heard`: events arrive (two connections).
NoMpv == [session |-> NoSession, alive |-> FALSE, wired |-> FALSE, heard |-> FALSE,
          file |-> NoPlayback, opened |-> FALSE]

NoLoad == [load |-> NoPlayback, replacing |-> FALSE, retried |-> FALSE]

Idle == [phase |-> "idle", load |-> NoPlayback, active |-> FALSE, replaced |-> FALSE,
         handoff |-> FALSE, session |-> NoSession, nextId |-> 1]

Reasons == {"eof", "watched", "stop", "quit", "error"}

TypeOK ==
  /\ ReporterType
  /\ ctl \in [phase : {"idle", "loading", "playing"}, load : Playbacks \cup {NoPlayback},
              active : BOOLEAN, replaced : BOOLEAN, handoff : BOOLEAN,
              session : Nat, nextId : Nat \ {0}]
  /\ (ctl.phase = "idle") = (ctl.load = NoPlayback)
  /\ ctl.session = mpv.session /\ ctl.session < ctl.nextId
  /\ pc \in {"ready", "loadfile", "flushing", "done"}
  /\ incoming \in [load : Playbacks \cup {NoPlayback}, replacing : BOOLEAN, retried : BOOLEAN]
  /\ mpv \in [session : Nat, alive : BOOLEAN, wired : BOOLEAN, heard : BOOLEAN,
              file : Playbacks \cup {NoPlayback}, opened : BOOLEAN]
  /\ events \in Seq([kind : {"loaded", "end", "shutdown", "gone"}, session : Nat,
                     reason : Reasons \cup {"none"}, of : Playbacks \cup {NoPlayback}])
  /\ asked \subseteq Playbacks
  /\ exiting \in BOOLEAN
  /\ faults \in 0..MaxFaults
  /\ timeouts \in 0..MaxTimeouts
  /\ misled \in BOOLEAN

Init ==
  /\ ReporterInit
  /\ ctl = Idle
  /\ pc = "ready"
  /\ incoming = NoLoad
  /\ mpv = NoMpv
  /\ events = <<>>
  /\ asked = {}
  /\ exiting = FALSE
  /\ faults = 0
  /\ timeouts = 0
  /\ misled = FALSE

-------------------------------------------------------------------------------
(* Reports and the end of a playback *)

Post(reports) == rx' = rx \o reports /\ UNCHANGED <<batch, turn, flush, told>>

About(c, kind) == IF c.load \in Silent THEN <<>> ELSE <<Report(kind, c.load)>>

\* Mutant of Ignores: only the handoff of an episode protects the next load.
IgnoresInHandoff(c, reason) ==
  /\ c.phase = "loading"
  /\ reason = "stop"
  /\ c.handoff

\* An end that belongs to the file a pending load replaced.
Ignores(c, reason) ==
  /\ c.phase = "loading"
  /\ reason = "stop"
  /\ c.replaced \/ c.handoff

FinishReports(c, reason) ==
  IF \/ c.phase = "idle"
     \/ Ignores(c, reason)
     \/ c.phase = "loading" /\ reason \notin {"error", "eof", "watched"}
  THEN <<>>
  ELSE About(c, "stopped")

Ended(c, reason) ==
  [c EXCEPT !.phase = "idle", !.load = NoPlayback, !.active = FALSE, !.replaced = FALSE,
            !.handoff = \/ reason = "eof" /\ (c.active \/ c.phase # "idle")
                        \/ c.phase # "loading" /\ c.handoff]

Finished(c, reason) ==
  IF Ignores(c, reason) THEN [c EXCEPT !.replaced = FALSE] ELSE Ended(c, reason)

\* Mutant of Reset: the session that was reset still counts as current.
ResetKeepsSession(c) ==
  [c EXCEPT !.replaced = FALSE, !.active = c.active /\ c.phase # "idle"]

Reset(c) ==
  [c EXCEPT !.replaced = FALSE, !.session = NoSession,
            !.active = c.active /\ c.phase # "idle"]

-------------------------------------------------------------------------------
(* Starting mpv *)

Usable(m) == m.alive /\ m.wired

\* What ensure_mpv can come to: the controller, the runtime, the reports made
\* on the way and the faults spent on it.
Ensured(c, m, moved) ==
  LET keep  == [ctl |-> c, mpv |-> m, reports |-> <<>>, ok |-> TRUE, cost |-> 0]
      clean == IF m.alive THEN Reset(Finished(c, "quit")) ELSE Reset(c)
      fresh == [NoMpv EXCEPT !.session = c.nextId, !.alive = TRUE, !.wired = TRUE,
                             !.heard = TRUE]
      ended == [ctl |-> clean, mpv |-> NoMpv, ok |-> FALSE, cost |-> 1,
                reports |-> IF m.alive THEN FinishReports(c, "quit") ELSE <<>>]
      begun == [ended EXCEPT !.mpv = fresh, !.ok = TRUE, !.cost = 0,
                             !.ctl = [clean EXCEPT !.session = c.nextId, !.nextId = @ + 1]]
  IN  IF exiting THEN {[keep EXCEPT !.ok = FALSE]}
      ELSE IF Usable(m) /\ ~moved THEN {keep}
      ELSE {begun, ended}

Spend(cost) == faults + cost <= MaxFaults /\ faults' = faults + cost

\* Mutant of Lost: mpv is restarted, its playback is not finished.
LostUnfinished ==
  \E o \in Ensured(Reset(ctl), NoMpv, FALSE) :
    /\ ctl' = o.ctl
    /\ mpv' = o.mpv
    /\ Spend(o.cost)
    /\ Post(o.reports)

\* finish_active(Quit), reset_mpv, restart_configured_mpv
Lost ==
  \E o \in Ensured(Reset(Finished(ctl, "quit")), NoMpv, FALSE) :
    /\ ctl' = o.ctl
    /\ mpv' = o.mpv
    /\ Spend(o.cost)
    /\ Post(FinishReports(ctl, "quit") \o o.reports)

\* ensure_mpv resets a runtime that has died, and leaves its playback as it is.
Abandons == ~mpv.alive /\ ctl.phase # "idle"

\* Mutant of Preflight: only a runtime that was started is polled.
PreflightOfStarted ==
  /\ pc = "ready"
  /\ ~Usable(mpv)
  /\ mpv.session # NoSession
  /\ ~exiting
  /\ \E o \in Ensured(ctl, mpv, FALSE) :
       /\ ctl' = o.ctl
       /\ mpv' = o.mpv
       /\ Spend(o.cost)
       /\ Post(o.reports)
  /\ misled' = (misled \/ Abandons)
  /\ UNCHANGED <<pc, incoming, events, asked, exiting, timeouts>>

\* The scheduled poll, and the preflight of every control.
Preflight ==
  /\ pc = "ready"
  /\ ~Usable(mpv)
  /\ ~exiting
  /\ \E o \in Ensured(ctl, mpv, FALSE) :
       /\ ctl' = o.ctl
       /\ mpv' = o.mpv
       /\ Spend(o.cost)
       /\ Post(o.reports)
  /\ misled' = (misled \/ Abandons)
  /\ UNCHANGED <<pc, incoming, events, asked, exiting, timeouts>>

\* warm with another executable
WarmElsewhere ==
  /\ pc = "ready"
  /\ ~exiting
  /\ \E o \in Ensured(ctl, mpv, TRUE) :
       /\ ctl' = o.ctl
       /\ mpv' = o.mpv
       /\ Spend(o.cost + 1)
       /\ Post(o.reports)
  /\ misled' = (misled \/ Abandons)
  /\ UNCHANGED <<pc, incoming, events, asked, exiting, timeouts>>

PollRuntime ==
  /\ pc = "ready"
  /\ mpv.session # NoSession
  /\ ~mpv.alive
  /\ Lost
  /\ UNCHANGED <<pc, incoming, events, asked, exiting, timeouts, misled>>

\* A command that is sent without a preflight: a property, a seek, a subtitle.
CommandLost ==
  /\ pc = "ready"
  /\ mpv.session # NoSession
  /\ ~Usable(mpv)
  /\ Lost
  /\ UNCHANGED <<pc, incoming, events, asked, exiting, timeouts, misled>>

-------------------------------------------------------------------------------
(* Loading *)

\* Mutant of ReplacedReports: the playback that is replaced is only forgotten.
ReplacedUnreported(c) == <<>>

\* The playback a load replaces is reported stopped before `loadfile` is sent.
ReplacedReports(c) == IF c.phase = "playing" THEN About(c, "stopped") ELSE <<>>

Load(p) ==
  /\ pc = "ready"
  /\ p \in Playbacks \ asked
  /\ \A q \in Playbacks \ asked : p <= q
  /\ asked' = asked \cup {p}
  /\ ctl.phase # "loading"
  /\ \E moved \in BOOLEAN : \E o \in Ensured(ctl, mpv, moved) :
       /\ mpv' = o.mpv
       /\ Spend(o.cost + (IF moved THEN 1 ELSE 0))
       /\ IF o.ok
          THEN /\ pc' = "loadfile"
               /\ incoming' = [NoLoad EXCEPT !.load = p,
                                 !.replacing = o.ctl.active \/ o.ctl.phase = "playing"]
               /\ ctl' = [o.ctl EXCEPT !.phase = "idle", !.load = NoPlayback]
               /\ Post(o.reports \o ReplacedReports(o.ctl))
          ELSE ctl' = o.ctl /\ Post(o.reports) /\ UNCHANGED <<pc, incoming>>
  /\ UNCHANGED <<events, exiting, timeouts, misled>>

\* What mpv says of the file it has, if the controller hears it.
Says(kind, reason) ==
  IF mpv.heard /\ mpv.file # NoPlayback
  THEN <<[kind |-> kind, session |-> mpv.session, reason |-> reason, of |-> mpv.file]>>
  ELSE <<>>

Farewell(kind) ==
  IF mpv.heard
  THEN <<[kind |-> kind, session |-> mpv.session, reason |-> "none", of |-> NoPlayback]>>
  ELSE <<>>

\* mpv takes the file: the one it has, if any, ends with `stop`.
Accepted ==
  /\ pc = "loadfile"
  /\ Usable(mpv)
  /\ pc' = "ready"
  /\ ctl' = [ctl EXCEPT !.phase = "loading", !.load = incoming.load, !.active = TRUE,
                        !.replaced = incoming.replacing]
  /\ mpv' = [mpv EXCEPT !.file = incoming.load, !.opened = FALSE]
  /\ events' = events \o Says("end", "stop")
  /\ incoming' = NoLoad
  /\ UNCHANGED <<env, reporter>>

Rejected ==
  /\ pc = "loadfile"
  /\ Usable(mpv)
  /\ Spend(1)
  /\ pc' = "ready"
  /\ LET c == [ctl EXCEPT !.active = FALSE]
     IN  IF incoming.replacing
         THEN ctl' = Reset(c) /\ mpv' = NoMpv
         ELSE ctl' = c /\ UNCHANGED mpv
  /\ incoming' = NoLoad
  /\ UNCHANGED <<events, asked, exiting, timeouts, misled, reporter>>

\* The first loss restarts mpv and sends the command again.
LoadfileLost ==
  /\ pc = "loadfile"
  /\ ~Usable(mpv)
  /\ ~incoming.retried
  /\ incoming' = [incoming EXCEPT !.retried = TRUE]
  /\ \E o \in Ensured(Reset(ctl), NoMpv, FALSE) :
       /\ ctl' = o.ctl
       /\ mpv' = o.mpv
       /\ Spend(o.cost)
       /\ Post(o.reports)
  /\ UNCHANGED <<pc, events, asked, exiting, timeouts, misled>>

RetryLost ==
  /\ pc = "loadfile"
  /\ ~Usable(mpv)
  /\ incoming.retried
  /\ pc' = "ready"
  /\ incoming' = NoLoad
  /\ Lost
  /\ UNCHANGED <<events, asked, exiting, timeouts, misled>>

-------------------------------------------------------------------------------
(* Events of mpv *)

Activated(c) ==
  IF c.phase # "loading" THEN c
  ELSE [c EXCEPT !.phase = IF c.load \in Silent THEN "idle" ELSE "playing",
                 !.load = IF c.load \in Silent THEN NoPlayback ELSE @,
                 !.active = TRUE, !.replaced = FALSE, !.handoff = FALSE]

\* Mutant of IsCurrent: events are not matched with the session they come from.
IsAnySession(event) == TRUE

IsCurrent(event) == event.session = ctl.session

\* An event of an mpv session that was reset is dropped.
TakeStale ==
  /\ pc = "ready"
  /\ events # <<>>
  /\ ~IsCurrent(Head(events))
  /\ events' = Tail(events)
  /\ UNCHANGED <<ctl, pc, incoming, mpv, env, reporter>>

\* Whose end or start it is, an event of mpv does not say.
Misleads(event) ==
  /\ ctl.phase = "loading"
  /\ event.of \notin {ctl.load, NoPlayback}
  /\ event.reason # "stop"

TakeEvent ==
  /\ pc = "ready"
  /\ events # <<>>
  /\ events' = Tail(events)
  /\ LET e == Head(events)
     IN  /\ IsCurrent(e)
         /\ misled' = (misled \/ Misleads(e))
         /\ \/ /\ e.kind = "loaded"
               /\ ctl' = Activated(ctl)
               /\ Post(IF ctl.phase = "loading" THEN About(ctl, "start") ELSE <<>>)
               /\ UNCHANGED <<mpv, faults>>
            \/ /\ e.kind = "end"
               /\ ctl' = Finished(ctl, e.reason)
               /\ Post(FinishReports(ctl, e.reason))
               /\ UNCHANGED <<mpv, faults>>
            \/ /\ e.kind \in {"shutdown", "gone"}
               /\ Lost
  /\ UNCHANGED <<pc, incoming, asked, exiting, timeouts>>

-------------------------------------------------------------------------------
(* Controls and timeouts *)

EndFile(reason) ==
  /\ mpv.file # NoPlayback
  /\ mpv' = [mpv EXCEPT !.file = NoPlayback, !.opened = FALSE]
  /\ events' = events \o Says("end", reason)

\* Stop with a usable mpv; without one, the preflight comes first.
Stop ==
  /\ pc = "ready"
  /\ ~exiting
  /\ Usable(mpv)
  /\ ~(ctl.phase = "loading" /\ ctl.handoff)
  /\ EndFile("stop")
  /\ UNCHANGED <<ctl, pc, incoming, env, reporter>>

MarkWatchedAndPlayNext ==
  /\ pc = "ready"
  /\ ctl.phase # "idle" \/ ctl.active
  /\ ctl' = [Finished(ctl, "watched") EXCEPT !.handoff = TRUE]
  /\ Post(FinishReports(ctl, "watched"))
  /\ UNCHANGED <<pc, incoming, mpv, events, env>>

ReportProgress ==
  /\ pc = "ready"
  /\ ctl.phase = "playing"
  /\ Len(rx) < MaxQueue
  /\ Post(About(ctl, "progress"))
  /\ UNCHANGED <<ctl, pc, incoming, mpv, events, env>>

TimesOut == timeouts < MaxTimeouts /\ timeouts' = timeouts + 1

PendingTimesOut ==
  /\ pc = "ready"
  /\ ctl.phase = "loading"
  /\ TimesOut
  /\ ctl' = Finished(ctl, "error")
  /\ Post(FinishReports(ctl, "error"))
  /\ UNCHANGED <<pc, incoming, mpv, events, asked, exiting, faults, misled>>

HandoffExpires ==
  /\ ctl.handoff
  /\ TimesOut
  /\ ctl' = [ctl EXCEPT !.handoff = FALSE]
  /\ UNCHANGED <<pc, incoming, mpv, events, asked, exiting, faults, misled, reporter>>

-------------------------------------------------------------------------------
(* The application exits *)

RequestExit ==
  /\ ~exiting
  /\ exiting' = TRUE
  /\ UNCHANGED <<ctl, pc, incoming, mpv, events, asked, faults, timeouts, misled, reporter>>

\* finish_active(Quit), quit or terminate mpv, reset_mpv, queue the flush
Shutdown ==
  /\ pc = "ready"
  /\ exiting
  /\ pc' = "flushing"
  /\ ctl' = Reset(Finished(ctl, "quit"))
  /\ mpv' = NoMpv
  /\ Post(Append(FinishReports(ctl, "quit"), Flush))
  /\ UNCHANGED <<incoming, events, env>>

FlushEnds ==
  /\ pc = "flushing"
  /\ pc' = "done"
  /\ \/ flush = "acked" /\ UNCHANGED timeouts
     \/ flush # "acked" /\ TimesOut
  /\ UNCHANGED <<ctl, incoming, mpv, events, asked, exiting, faults, misled, reporter>>

-------------------------------------------------------------------------------
(* mpv on its own *)

FileLoads ==
  /\ mpv.file # NoPlayback
  /\ ~mpv.opened
  /\ mpv' = [mpv EXCEPT !.opened = TRUE]
  /\ events' = events \o Says("loaded", "none")
  /\ UNCHANGED <<ctl, pc, incoming, env, reporter>>

\* At its end, at an error, or stopped from mpv's own window.
FileEnds ==
  /\ \E reason \in {"eof", "stop", "error"} :
       /\ reason = "eof" => mpv.opened
       /\ EndFile(reason)
  /\ UNCHANGED <<ctl, pc, incoming, env, reporter>>

\* mpv quits or crashes, its event connection closes, or a command gets no answer
\* and its connection is given up.
MpvFails ==
  /\ mpv.alive
  /\ Spend(1)
  /\ \/ /\ mpv' = [NoMpv EXCEPT !.session = mpv.session]
        /\ \/ events' = events \o Says("end", "quit") \o Farewell("shutdown") \o Farewell("gone")
           \/ events' = events \o Farewell("gone")
     \/ /\ mpv.heard
        /\ mpv' = [mpv EXCEPT !.heard = FALSE]
        /\ events' = events \o Farewell("gone")
     \/ /\ mpv.wired
        /\ mpv' = [mpv EXCEPT !.wired = FALSE]
        /\ UNCHANGED events
  /\ UNCHANGED <<ctl, pc, incoming, asked, exiting, timeouts, misled, reporter>>

-------------------------------------------------------------------------------
Supervise == Preflight \/ PollRuntime \/ CommandLost \/ WarmElsewhere

LoadStep == Accepted \/ Rejected \/ LoadfileLost \/ RetryLost

TakeMessage == TakeStale \/ TakeEvent

Command ==
  \/ \E p \in Playbacks : Load(p)
  \/ Stop
  \/ MarkWatchedAndPlayNext

Timeout == PendingTimesOut \/ HandoffExpires

Exit == RequestExit \/ Shutdown \/ FlushEnds

MpvStep == FileLoads \/ FileEnds \/ MpvFails

\* The process has exited: nothing more is sent.
ReporterRuns ==
  /\ pc # "done"
  /\ ReporterStep
  /\ UNCHANGED <<ctl, pc, incoming, mpv, events, env>>

Next ==
  \/ Supervise \/ Command \/ LoadStep \/ TakeMessage \/ ReportProgress \/ Timeout
  \/ Exit \/ MpvStep \/ ReporterRuns

\* The controller's loop takes what there is to take and polls mpv, an answer to
\* `loadfile` or its loss comes, and the reporter's requests have a time limit.
Fairness ==
  /\ WF_vars(Preflight)
  /\ WF_vars(LoadStep)
  /\ WF_vars(TakeMessage)
  /\ WF_vars(Shutdown)
  /\ WF_vars(ReporterRuns)

Spec == Init /\ [][Next]_vars
FairSpec == Spec /\ Fairness

-------------------------------------------------------------------------------
(* Properties *)

\* Whatever mpv, the user and the clock do, the server is told of playbacks in
\* order: start, progress and one stop, none of two at a time
\* (playback_transition.rs, playback_reporter.rs).
Reports == INSTANCE ReportingSession
  WITH Playbacks <- Playbacks, started <- started, stopped <- stopped, last <- last
SessionsInOrder == Reports!Spec

\* The `stop` of a file that was replaced does not end the load that replaced it,
\* however many ends are on their way (playback_transition.rs:382-397), as long as
\* no deadline has passed and no other event has passed for the load's own.
OldStopSparesLoad ==
  /\ events # <<>> /\ events' = Tail(events)
  /\ Head(events).kind = "end" /\ Head(events).reason = "stop"
  /\ ctl.phase = "loading" /\ Head(events).of # ctl.load
  /\ timeouts = 0 /\ ~misled
  => ctl'.load = ctl.load
OldStopSpares == [][OldStopSparesLoad]_vars

\* A playback that is reported as playing is the one mpv has, or its end is on its
\* way, or mpv is about to be found lost (playback_transition.rs:197-367, session.rs:
\* 386-402): whatever else is loaded, refused, ended or restarted meanwhile.
PlayingIsOpen ==
  ctl.phase = "playing" /\ ~misled
  => \/ mpv.file = ctl.load
     \/ ~(Usable(mpv) /\ mpv.heard)
     \/ \E i \in DOMAIN events : events[i].kind = "end" /\ events[i].of = ctl.load

\* No event takes a working mpv down: what an earlier mpv said of its own end does
\* not count against the one that replaced it (events.rs:33-54).
HealthyMpvStays ==
  [][ /\ events # <<>> /\ events' = Tail(events)
      /\ Usable(mpv) /\ mpv.heard
      => mpv'.session = mpv.session ]_vars

\* After an exit whose flush was answered in time, no playback is left open at the
\* server and no report is left behind (session.rs:594-617).
ExitLeavesNothingOpen ==
  pc = "done" /\ flush = "acked" => started \subseteq stopped /\ rx = <<>> /\ batch = <<>>

\* What is reported to be open is open, and nothing is left open (session.rs:386-402, 594-617).
ReportsAreClosed == PlayingIsOpen /\ ExitLeavesNothingOpen

\* Until the application exits, an mpv that is heard and obeys is always had again
\* (session.rs:404-437).
PlayerComesBack == []<>(exiting \/ (Usable(mpv) /\ mpv.heard))

\* The file that was replaced came to its own end meanwhile: that, too, is not the
\* end of the load that replaced it (CHANGELOG.md:283, "preserving incoming pending
\* playback when mpv emits the replaced file's stale `end-file` event").
OldEofSpares ==
  [][ /\ events # <<>> /\ events' = Tail(events)
      /\ Head(events).kind = "end" /\ Head(events).reason = "eof"
      /\ ctl.phase = "loading" /\ Head(events).of # ctl.load
      => ctl'.load = ctl.load ]_vars

\* A playback whose file mpv no longer has is not reported as playing for ever
\* (README.md:30).
LostPlaybackEnds ==
  (ctl.phase = "playing" /\ mpv.file # ctl.load) ~> (ctl.phase # "playing" \/ exiting)

===============================================================================
