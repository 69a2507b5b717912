----------------------------- MODULE SegmentSkip -----------------------------
(* Intros, credits, recaps and commercials are skipped while mpv plays                  *)
(* (controller/segment_skip.rs, playback/segments.rs): after a countdown, or when the   *)
(* user accepts a prompt by seeking forward out of the segment.  The controller knows   *)
(* only the positions mpv reports, any at any time; mpv says that it seeks in two       *)
(* events that come in either order, also when it opens a file or resyncs.              *)
(*                                                                                      *)
(* A position is a place on the time line, a tick of the clock a part of the delay      *)
(* before an automatic skip.  What is drawn on the screen is left out.                  *)
EXTENDS Naturals, Sequences

CONSTANTS
  SkipFiles,       \* playbacks, numbered in the order they are asked for
  FileSegments,    \* of each: the segments its media server has, by start
  StartOf,         \* of each: where it starts or is resumed
  EndOfFile,       \* the last position
  AutoSkipDelay,   \* AUTO_SKIP_DELAY
  MaxSkipTime, MaxModeChanges   \* bounds

SegmentKinds == {"intro", "outro"}

SegmentAssumption ==
  /\ SkipFiles \subseteq Nat \ {0} /\ StartOf \in [SkipFiles -> 0 .. EndOfFile]
  /\ FileSegments \in [SkipFiles -> Seq([kind : SegmentKinds, from : Nat, to : Nat])]
  /\ \A f \in SkipFiles : \A i \in DOMAIN FileSegments[f] :
       FileSegments[f][i].from < FileSegments[f][i].to
  /\ EndOfFile \in Nat /\ AutoSkipDelay \in Nat \ {0} /\ MaxSkipTime \in Nat

SkipModes == {"Hidden", "Disabled", "Prompt", "Always"}
Nowhere == EndOfFile + 1
NeverStayed == MaxSkipTime + 1
Indexes == UNION {DOMAIN FileSegments[f] : f \in SkipFiles}

VARIABLES
  skipMode,       \* segment_skip_config
  file, phase,    \* playback_identity; idle, loading or playing
  fetching,       \* playbacks whose segments are being fetched
  listOf, used,   \* skip_segments: the file they are of, those that are `triggered`
  place,          \* last_state.position_ticks
  startupSeek,    \* the position to resume at, until it is reached
  seekFrom,       \* seek_started_at_ticks
  waiting,        \* pending_auto_skip: the segment and when it is due
  handled,        \* a message was handled, the rest of the loop is still to come
  skipClock, modeChanges,
  skips, stayed   \* history: how often each was skipped, and since when the position is
                  \* in one that is to be skipped

skipList == <<listOf, used, waiting, seekFrom>>
playback == <<file, phase, startupSeek>>
segmentVars == <<skipMode, playback, fetching, skipList, place, handled, skipClock,
                 modeChanges, skips, stayed>>

NotWaiting == [of |-> 0, due |-> 0]

SegmentTypeOK ==
  /\ skipMode \in [SegmentKinds -> SkipModes] /\ phase \in {"idle", "loading", "playing"}
  /\ {file, listOf} \subseteq SkipFiles \cup {0} /\ fetching \subseteq SkipFiles
  /\ used \subseteq Indexes /\ place \in 0 .. EndOfFile
  /\ {startupSeek, seekFrom} \subseteq 0 .. Nowhere /\ handled \in BOOLEAN
  /\ waiting.of \in Indexes \cup {0} /\ waiting.due \in 0 .. MaxSkipTime + AutoSkipDelay
  /\ skips \in [Indexes -> Nat] /\ stayed \in [Indexes -> 0 .. NeverStayed]

SegmentInit ==
  /\ skipMode \in [SegmentKinds -> {"Prompt", "Always"}]
  /\ file = 0 /\ phase = "idle" /\ startupSeek = Nowhere /\ fetching = {}
  /\ listOf = 0 /\ used = {} /\ waiting = NotWaiting /\ seekFrom = Nowhere
  /\ place = 0 /\ handled = FALSE /\ skipClock = 0 /\ modeChanges = 0
  /\ skips = [i \in Indexes |-> 0] /\ stayed = [i \in Indexes |-> NeverStayed]

---------------------------------------------------------------------------------------
(* playback/segments.rs: the segments that cover a position.                             *)

Segments(list) == IF list = 0 THEN << >> ELSE FileSegments[list]
Covers(list, spent, i, at) ==
  i \notin spent /\ Segments(list)[i].from <= at /\ at < Segments(list)[i].to
Within(list, spent, mode, wanted, at) ==
  {i \in DOMAIN Segments(list) : Covers(list, spent, i, at)
                                 /\ mode[Segments(list)[i].kind] \in wanted}
Earliest(indexes) == CHOOSE i \in indexes : \A j \in indexes : i <= j
AllHidden(mode) == \A k \in SegmentKinds : mode[k] = "Hidden"
PromptAt(at) == Within(listOf, used, skipMode, {"Prompt"}, at)

(* When a countdown that begins now is due.  Mutant: a moment earlier. *)
DueSooner == skipClock + AutoSkipDelay - 1
Due == skipClock + AutoSkipDelay

(* SegmentSkipState::update: the countdown after `at` was reported while `w` ran.        *)
Update(list, spent, mode, at, w) ==
  LET shown == Within(list, spent, mode, SkipModes \ {"Hidden"}, at)
      i == Earliest(shown) IN
  IF shown = {} \/ mode[Segments(list)[i].kind] # "Always" THEN NotWaiting
  ELSE IF w.of = i THEN w ELSE [of |-> i, due |-> Due]

ClearSkipSegmentState == listOf' = 0 /\ used' = {} /\ waiting' = NotWaiting /\ seekFrom' = Nowhere

(* What a skip does to a segment when mpv takes its seek; when it does not, the segment  *)
(* can still be skipped.  Mutant: it can be skipped again.                               *)
NotSpent(i) == used
Spent(i) == used \cup {i}

(* skip_segment at a position, outside of the countdown, which is over either way.  mpv   *)
(* takes the seek, refuses it, or is lost.                                               *)
Passed(i, at) == used' = Spent(i) /\ Segments(listOf)[i].to <= at /\ UNCHANGED <<listOf, skips>>
Skipped(i, at) ==
  /\ Segments(listOf)[i].to > at
  /\ used' = Spent(i) /\ skips' = [skips EXCEPT ![i] = @ + 1] /\ UNCHANGED listOf
Refused(i, at) == Segments(listOf)[i].to > at /\ UNCHANGED <<listOf, used, skips>>
MpvLost ==
  ClearSkipSegmentState /\ phase' = "idle" /\ startupSeek' = Nowhere /\ UNCHANGED <<file, skips>>

---------------------------------------------------------------------------------------
(* Playbacks and their segments.                                                         *)

(* `load`; a file mpv does not accept leaves mpv reset. *)
LoadFile(f, accepted) ==
  /\ phase # "loading" /\ f > file /\ \A g \in SkipFiles : g > file => f <= g
  /\ file' = f /\ startupSeek' = Nowhere /\ ClearSkipSegmentState
  /\ phase' = IF accepted THEN "loading" ELSE "idle"
  /\ place' = IF accepted THEN StartOf[f] ELSE place
  /\ fetching' = IF accepted /\ ~AllHidden(skipMode) THEN fetching \cup {f} ELSE fetching
  /\ UNCHANGED <<skipMode, modeChanges, skips>>

(* activate_pending, kick_start_playback: a resumed file is opened, then sought.         *)
FileLoaded ==
  /\ phase = "loading" /\ phase' = "playing" /\ place' = StartOf[file]
  /\ startupSeek' = IF StartOf[file] = 0 THEN Nowhere ELSE StartOf[file]
  /\ UNCHANGED <<skipMode, file, fetching, skipList, modeChanges, skips>>

(* end-file, or mpv is lost.  The end of a replaced file may leave its successor alone;   *)
(* a file that was played to its end leaves the position there.                          *)
FileIsOver(atEnd, ignored) ==
  /\ startupSeek' = Nowhere /\ (ignored => phase = "loading" /\ ~atEnd)
  /\ IF ignored THEN UNCHANGED <<phase, skipList>> ELSE phase' = "idle" /\ ClearSkipSegmentState
  /\ place' = IF atEnd THEN EndOfFile ELSE place
  /\ UNCHANGED <<skipMode, file, fetching, modeChanges, skips>>

(* handle_media_segments_fetched: an answer is used for the current playback only.
   Mutant: for any. *)
ForAny(f) == TRUE
ForCurrent(f) == phase # "idle" /\ file = f

SegmentsArrive(f, ok) ==
  /\ f \in fetching /\ fetching' = fetching \ {f}
  /\ IF ok /\ ForCurrent(f) /\ ~AllHidden(skipMode)
     THEN /\ listOf' = f /\ used' = {} /\ skips' = [i \in Indexes |-> 0]
          /\ waiting' = Update(f, {}, skipMode, place, NotWaiting)
     ELSE UNCHANGED <<listOf, used, waiting, skips>>
  /\ UNCHANGED <<skipMode, playback, place, seekFrom, modeChanges>>

(* apply_preferences *)
ChangeModes(mode) ==
  /\ modeChanges < MaxModeChanges /\ mode # skipMode
  /\ skipMode' = mode /\ modeChanges' = modeChanges + 1
  /\ IF AllHidden(mode) THEN ClearSkipSegmentState
     ELSE waiting' = Update(listOf, used, mode, place, NotWaiting) /\ UNCHANGED <<listOf, used, seekFrom>>
  /\ UNCHANGED <<playback, fetching, place, skips>>

---------------------------------------------------------------------------------------
(* Positions and seeks.                                                                  *)

(* maybe_accept_pending_native_seek at `at`: a seek out of a prompt's segment, forward,    *)
(* is over; when none is accepted `update` runs, where the code runs it.  `resuming` is   *)
(* the position to resume at that is left.                                               *)
AcceptsSeek(at) == seekFrom # Nowhere /\ at > seekFrom /\ PromptAt(seekFrom) # {}

AfterSeek(at, updates, resuming) ==
  LET i == Earliest(PromptAt(seekFrom))
      Updated(spent, w) == IF updates THEN Update(listOf, spent, skipMode, at, w) ELSE w IN
  \/ /\ AcceptsSeek(at) /\ (Skipped(i, at) \/ Passed(i, at) \/ Refused(i, at))
     /\ waiting' = IF skips' # skips THEN NotWaiting ELSE Updated(used', NotWaiting)
     /\ seekFrom' = Nowhere /\ startupSeek' = resuming /\ UNCHANGED <<file, phase>>
  \/ AcceptsSeek(at) /\ Segments(listOf)[i].to > at /\ MpvLost
  \/ /\ ~AcceptsSeek(at)
     /\ seekFrom' = IF at # seekFrom THEN Nowhere ELSE seekFrom
     /\ waiting' = Updated(used, waiting)
     /\ startupSeek' = resuming /\ UNCHANGED <<file, phase, listOf, used, skips>>

(* time-pos, playback-time; a position before the one to resume at is held back. *)
TimePos(at) ==
  /\ startupSeek = Nowhere \/ at >= startupSeek
  /\ place' = at /\ AfterSeek(at, TRUE, Nowhere)
  /\ UNCHANGED <<skipMode, fetching, modeChanges>>

(* The seek event, the seeking property. *)
SeekEvent ==
  /\ PromptAt(place) # {} /\ seekFrom' = place
  /\ UNCHANGED <<skipMode, playback, fetching, listOf, used, waiting, place, modeChanges, skips>>

SeekingProperty(seeking) ==
  /\ IF seeking
     THEN /\ seekFrom' = IF seekFrom = Nowhere THEN place ELSE seekFrom
          /\ UNCHANGED <<playback, listOf, used, waiting, skips>>
     ELSE AfterSeek(place, FALSE, startupSeek)
  /\ UNCHANGED <<skipMode, fetching, place, modeChanges>>

(* handle_prompt_skip_control: the web page seeks forward.  A seek that is not taken for   *)
(* a skip is sent to mpv.                                                                *)
SeekControl(to) ==
  LET i == Earliest(PromptAt(place)) IN
  /\ to > place /\ PromptAt(place) # {}
  /\ \/ /\ Skipped(i, place) \/ Refused(i, place)
        /\ waiting' = NotWaiting /\ UNCHANGED <<seekFrom, playback>>
     \/ MpvLost
  /\ UNCHANGED <<skipMode, fetching, place, modeChanges>>

(* maybe_update_auto_skip_countdown, in the rest of every loop. *)
Countdown ==
  LET i == waiting.of
      valid == i \in Within(listOf, used, skipMode, {"Always"}, place) IN
  /\ IF waiting = NotWaiting THEN UNCHANGED <<playback, skipList, skips>>
     ELSE IF ~valid \/ skipClock < waiting.due
     THEN /\ waiting' = IF valid THEN waiting ELSE NotWaiting
          /\ UNCHANGED <<playback, listOf, used, seekFrom, skips>>
     ELSE \/ /\ Skipped(i, place) \/ Refused(i, place)
             /\ waiting' = NotWaiting /\ UNCHANGED <<seekFrom, playback>>
          \/ MpvLost
  /\ UNCHANGED <<skipMode, fetching, place, modeChanges>>

Message ==
  \/ \E f \in SkipFiles, yes \in BOOLEAN : LoadFile(f, yes) \/ SegmentsArrive(f, yes)
  \/ FileLoaded
  \/ \E atEnd, ignored \in BOOLEAN : FileIsOver(atEnd, ignored)
  \/ \E mode \in [SegmentKinds -> SkipModes] : ChangeModes(mode)
  \/ \E at \in 0 .. EndOfFile : TimePos(at) \/ SeekControl(at)
  \/ SeekEvent
  \/ \E seeking \in BOOLEAN : SeekingProperty(seeking)

ClockTicks ==
  /\ ~handled /\ skipClock < MaxSkipTime /\ skipClock' = skipClock + 1
  /\ UNCHANGED <<skipMode, playback, fetching, skipList, place, handled, modeChanges, skips>>

SegmentNext ==
  /\ \/ ~handled /\ Message /\ handled' = TRUE /\ UNCHANGED skipClock
     \/ Countdown /\ handled' = FALSE /\ UNCHANGED skipClock
     \/ ClockTicks
  /\ stayed' = [i \in Indexes |->
       IF listOf' # 0 /\ i \in Within(listOf', used', skipMode', {"Always"}, place')
       THEN IF listOf = listOf' /\ stayed[i] # NeverStayed THEN stayed[i] ELSE skipClock'
       ELSE NeverStayed]

SegmentSpec == SegmentInit /\ [][SegmentNext]_segmentVars

(* What is skipped is a segment of what plays, once (segment_skip.rs).                     *)
SkippedOnce == listOf \in {0, file} /\ \A i \in Indexes : skips[i] <= 1

(* A prompt's segment is skipped when a seek accepts it, any other only after the position *)
(* stayed inside it for the whole delay while it was to be skipped; and a segment whose    *)
(* seek failed is not used up (segment_skip.rs).                                           *)
SkipsAreWanted ==
  \A i \in Indexes :
    /\ skips'[i] > skips[i] => \/ skipMode[Segments(listOf)[i].kind] = "Prompt"
                               \/ skipClock >= stayed[i] + AutoSkipDelay
    /\ i \in used' \ used => skips'[i] > skips[i] \/ Segments(listOf)[i].to <= place'
=============================================================================
