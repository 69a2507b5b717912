----------------------------- MODULE PlayerProofs -----------------------------
(***************************************************************************)
(* Proofs about Player for every set of playbacks and every bound.  Every  *)
(* step of the controller is first brought to one of the few things it can *)
(* do to a playback and to the reports (StepShape): leave them alone, give *)
(* the playback up, ask for the next one, have it accepted, have it start, *)
(* report its progress, or shut down.  On these shapes rest FlushInv, what *)
(* the flush waits for, and ReportsInv, that what is on its way to the     *)
(* server may be told in its order.  MpvInv is about the other side: what  *)
(* mpv has said and the controller has not heard yet, and StopInv about    *)
(* the ends among it: whose they are, and which the controller expects.    *)
(*                                                                         *)
(* Then about what is around the player: Installs (updates and the setup   *)
(* of mpv), Shell (the desktop program), PlayerSettings (the settings the  *)
(* player runs by) and SegmentSkip (the segments of a file that are        *)
(* skipped), each with an inductive invariant of its own.                  *)
(***************************************************************************)
EXTENDS Player, Shell, Installs, PlayerSettings, SegmentSkip, SequenceTheorems,
        WellFoundedInduction, TLAPS

Ctl == [phase : {"idle", "loading", "playing"}, load : Playbacks \cup {NoPlayback},
        active : BOOLEAN, replaced : BOOLEAN, handoff : BOOLEAN,
        session : Nat, nextId : Nat \ {0}]
Runtime == [session : Nat, alive : BOOLEAN, wired : BOOLEAN, heard : BOOLEAN,
            file : Playbacks \cup {NoPlayback}, opened : BOOLEAN]
Event == [kind : {"loaded", "end", "shutdown", "gone"}, session : Nat,
          reason : Reasons \cup {"none"}, of : Playbacks \cup {NoPlayback}]
Reported == [kind : Kinds, of : Playbacks]

\* A controller state that makes sense by itself.
CtlOK(c) ==
  /\ c \in Ctl
  /\ (c.phase = "idle") = (c.load = NoPlayback)
  /\ c.session < c.nextId

LEMMA Parameters ==
  /\ Playbacks \subseteq Nat \ {0} /\ Silent \subseteq Playbacks
  /\ MaxQueue \in Nat /\ MaxFaults \in Nat /\ MaxTimeouts \in Nat
  /\ NoPlayback \notin Playbacks
BY PlayerAssumption DEF NoPlayback

LEMMA AboutType ==
  ASSUME NEW c, CtlOK(c), c.phase # "idle", NEW kind \in Kinds
  PROVE  About(c, kind) \in Seq(Reported)
<1>1. c.load \in Playbacks
  BY DEF CtlOK, Ctl
<1>2. Report(kind, c.load) \in Reported
  BY <1>1 DEF Reported, Report
<1>3. QED
  BY <1>2 DEF About

LEMMA FinishReportsType ==
  ASSUME NEW c, CtlOK(c), NEW reason PROVE FinishReports(c, reason) \in Seq(Reported)
BY AboutType DEF FinishReports, Kinds

LEMMA EndedOK ==
  ASSUME NEW c, CtlOK(c), NEW reason
  PROVE  LET d == Ended(c, reason) IN
         /\ CtlOK(d) /\ d.phase = "idle" /\ d.load = NoPlayback
         /\ d.session = c.session /\ d.nextId = c.nextId
BY DEF Ended, CtlOK, Ctl

LEMMA FinishedOK ==
  ASSUME NEW c, CtlOK(c), NEW reason
  PROVE  LET d == Finished(c, reason) IN
         /\ CtlOK(d) /\ d.session = c.session /\ d.nextId = c.nextId
         /\ IF Ignores(c, reason) THEN d.phase = "loading" /\ d.load = c.load
                                  ELSE d.phase = "idle" /\ d.load = NoPlayback
<1>1. CASE Ignores(c, reason)
  BY <1>1 DEF Finished, CtlOK, Ctl, Ignores
<1>2. CASE ~Ignores(c, reason)
  BY <1>2, EndedOK DEF Finished
<1>3. QED
  BY <1>1, <1>2

LEMMA ResetOK ==
  ASSUME NEW c, CtlOK(c)
  PROVE  LET d == Reset(c) IN
         /\ CtlOK(d) /\ d.session = NoSession /\ d.nextId = c.nextId
         /\ d.phase = c.phase /\ d.load = c.load
<1>1. c \in Ctl
  BY DEF CtlOK
<1>2. Reset(c) \in Ctl
  BY <1>1 DEF Ctl, Reset, NoSession
<1>3. /\ Reset(c).session = NoSession /\ Reset(c).nextId = c.nextId
      /\ Reset(c).phase = c.phase /\ Reset(c).load = c.load
  BY <1>1 DEF Ctl, Reset
<1>4. NoSession < c.nextId
  BY <1>1 DEF Ctl, NoSession
<1>5. QED
  BY <1>2, <1>3, <1>4 DEF CtlOK

\* Nothing but the next load is spared by its replacing another file.
LEMMA QuitIsNotIgnored == ASSUME NEW c PROVE ~Ignores(c, "quit")
BY DEF Ignores

\* An mpv that has just been started, and none.
Started(c) == [NoMpv EXCEPT !.session = c.nextId, !.alive = TRUE, !.wired = TRUE,
                            !.heard = TRUE]

\* What ensure_mpv leaves when it does not keep the mpv it found.
Renewed(c, m, o) ==
  /\ CtlOK(o.ctl) /\ o.ctl.session = o.mpv.session /\ c.nextId =< o.ctl.nextId
  /\ o.ctl.phase = (IF m.alive THEN "idle" ELSE c.phase)
  /\ o.ctl.load = (IF m.alive THEN NoPlayback ELSE c.load)
  /\ o.reports = (IF m.alive THEN FinishReports(c, "quit") ELSE <<>>)
  /\ o.mpv \in Runtime /\ o.mpv.file = NoPlayback
  /\ \/ o.mpv = NoMpv /\ ~o.ok /\ o.cost = 1
     \/ o.mpv = Started(c) /\ o.ok /\ o.cost = 0

Kept(c, m, o) == o.ctl = c /\ o.mpv = m /\ o.reports = <<>> /\ o.cost = 0

LEMMA NoMpvType ==
  /\ NoMpv \in Runtime /\ NoMpv.session = NoSession /\ NoMpv.file = NoPlayback
  /\ ~NoMpv.alive /\ ~Usable(NoMpv)
BY DEF NoMpv, Runtime, NoSession, NoPlayback, Usable

LEMMA StartedType ==
  ASSUME NEW c \in Ctl
  PROVE  /\ Started(c) \in Runtime /\ Started(c).session = c.nextId
         /\ Started(c).file = NoPlayback
BY DEF Started, NoMpv, Runtime, Ctl, NoSession, NoPlayback

LEMMA RenumberedOK ==
  ASSUME NEW c, CtlOK(c)
  PROVE  LET d == [c EXCEPT !.session = c.nextId, !.nextId = @ + 1] IN
         /\ CtlOK(d) /\ d.session = c.nextId /\ d.nextId = c.nextId + 1
         /\ d.phase = c.phase /\ d.load = c.load
<1> DEFINE d == [c EXCEPT !.session = c.nextId, !.nextId = @ + 1]
<1>1. c \in Ctl
  BY DEF CtlOK
<1>2. d \in Ctl
  <2>1. c.nextId \in Nat /\ c.nextId + 1 \in Nat \ {0}
    BY <1>1 DEF Ctl
  <2>2. QED
    BY <1>1, <2>1 DEF Ctl
<1>3. d.session = c.nextId /\ d.nextId = c.nextId + 1 /\ d.phase = c.phase /\ d.load = c.load
  BY <1>1 DEF Ctl
<1>4. c.nextId < c.nextId + 1
  BY <1>1 DEF Ctl
<1>5. QED
  BY <1>2, <1>3, <1>4 DEF CtlOK

LEMMA CleanOK ==
  ASSUME NEW c, CtlOK(c), NEW m
  PROVE  LET d == IF m.alive THEN Reset(Finished(c, "quit")) ELSE Reset(c) IN
         /\ CtlOK(d) /\ d.session = NoSession /\ d.nextId = c.nextId
         /\ d.phase = (IF m.alive THEN "idle" ELSE c.phase)
         /\ d.load = (IF m.alive THEN NoPlayback ELSE c.load)
BY FinishedOK, ResetOK, QuitIsNotIgnored

LEMMA EnsuredOK ==
  ASSUME NEW c, CtlOK(c), NEW m \in Runtime, NEW moved, NEW o \in Ensured(c, m, moved)
  PROVE  \/ Kept(c, m, o) /\ (o.ok => Usable(m))
         \/ Renewed(c, m, o)
<1> DEFINE clean == IF m.alive THEN Reset(Finished(c, "quit")) ELSE Reset(c)
           reports == IF m.alive THEN FinishReports(c, "quit") ELSE <<>>
           renumbered == [clean EXCEPT !.session = c.nextId, !.nextId = @ + 1]
<1>1. CASE o = [ctl |-> c, mpv |-> m, reports |-> <<>>, ok |-> TRUE, cost |-> 0] /\ Usable(m)
  BY <1>1 DEF Kept
<1>2. CASE o = [ctl |-> c, mpv |-> m, reports |-> <<>>, ok |-> FALSE, cost |-> 0]
  BY <1>2 DEF Kept
<1>3. CASE o = [ctl |-> clean, mpv |-> NoMpv, ok |-> FALSE, cost |-> 1, reports |-> reports]
  <2>1. o.ctl = clean /\ o.mpv = NoMpv /\ o.ok = FALSE /\ o.cost = 1 /\ o.reports = reports
    BY <1>3
  <2>2. c.nextId =< c.nextId
    BY DEF CtlOK, Ctl
  <2>3. /\ CtlOK(clean) /\ clean.session = NoSession /\ clean.nextId = c.nextId
        /\ clean.phase = (IF m.alive THEN "idle" ELSE c.phase)
        /\ clean.load = (IF m.alive THEN NoPlayback ELSE c.load)
    BY CleanOK
  <2> HIDE DEF clean
  <2>4. QED
    BY <2>1, <2>2, <2>3, NoMpvType DEF Renewed
<1>4. CASE o = [ctl |-> renumbered, mpv |-> Started(c), ok |-> TRUE, cost |-> 0, reports |-> reports]
  <2>1. /\ o.ctl = renumbered /\ o.mpv = Started(c) /\ o.ok = TRUE /\ o.cost = 0
        /\ o.reports = reports
    BY <1>4
  <2>2. /\ CtlOK(clean) /\ clean.nextId = c.nextId
        /\ clean.phase = (IF m.alive THEN "idle" ELSE c.phase)
        /\ clean.load = (IF m.alive THEN NoPlayback ELSE c.load)
    BY CleanOK
  <2> HIDE DEF clean
  <2>3. /\ CtlOK(renumbered) /\ renumbered.session = c.nextId
        /\ renumbered.nextId = c.nextId + 1
        /\ renumbered.phase = clean.phase /\ renumbered.load = clean.load
    BY <2>2, RenumberedOK
  <2>4. c \in Ctl /\ c.nextId =< c.nextId + 1
    BY DEF CtlOK, Ctl
  <2> HIDE DEF renumbered
  <2>5. QED
    BY <2>1, <2>2, <2>3, <2>4, StartedType DEF Renewed
<1>5. QED
  BY <1>1, <1>2, <1>3, <1>4 DEF Ensured, Started
-------------------------------------------------------------------------------
(* Types *)

\* The controller and the mpv it holds.
Machine(c, m) == CtlOK(c) /\ m \in Runtime /\ c.session = m.session

Bounded == faults \in 0..MaxFaults /\ timeouts \in 0..MaxTimeouts

OtherType ==
  /\ pc \in {"ready", "loadfile", "flushing", "done"}
  /\ incoming \in [load : Playbacks \cup {NoPlayback}, replacing : BOOLEAN, retried : BOOLEAN]
  /\ events \in Seq(Event)
  /\ asked \subseteq Playbacks
  /\ exiting \in BOOLEAN
  /\ misled \in BOOLEAN

LEMMA TypeParts == TypeOK <=> ReporterType /\ Machine(ctl, mpv) /\ Bounded /\ OtherType
BY DEF TypeOK, Machine, CtlOK, Ctl, Runtime, Event, Bounded, OtherType

LEMMA EnsuredMachine ==
  ASSUME NEW c, NEW m, Machine(c, m), NEW moved, NEW o \in Ensured(c, m, moved)
  PROVE  /\ Machine(o.ctl, o.mpv) /\ c.nextId =< o.ctl.nextId
         /\ o.reports \in Seq(Reported) /\ o.cost \in {0, 1}
<1>1. CtlOK(c) /\ m \in Runtime /\ c.nextId \in Nat
  BY DEF Machine, CtlOK, Ctl
<1>2. CASE Kept(c, m, o)
  BY <1>1, <1>2 DEF Kept, Machine
<1>3. CASE Renewed(c, m, o)
  BY <1>1, <1>3, FinishReportsType DEF Renewed, Machine
<1>4. QED
  BY <1>1, <1>2, <1>3, EnsuredOK

LEMMA SpendType ==
  ASSUME faults \in 0..MaxFaults, NEW cost \in Nat, Spend(cost)
  PROVE  faults' \in 0..MaxFaults
BY Parameters DEF Spend

LEMMA TimesOutType ==
  ASSUME timeouts \in 0..MaxTimeouts, TimesOut PROVE timeouts' \in 0..MaxTimeouts
BY Parameters DEF TimesOut

LEMMA PostType ==
  ASSUME ReporterType, NEW reports \in Seq(Reported \cup {Flush}), Post(reports)
  PROVE  ReporterType'
BY DEF ReporterType, Post, told, Reported

LEMMA PostToldType ==
  ASSUME ReporterType, NEW reports \in Seq(Reported), Post(reports) PROVE ReporterType'
<1>1. reports \in Seq(Reported \cup {Flush})
  OBVIOUS
<1>2. QED
  BY <1>1, PostType

LEMMA ReporterUnchanged == ReporterType /\ UNCHANGED reporter => ReporterType'
BY DEF ReporterType, reporter, told, OneProgressEach

\* mpv is lost: whatever was played has ended, and mpv is another one or none.
LEMMA LostOK ==
  ASSUME TypeOK, Lost
  PROVE  /\ Machine(ctl', mpv') /\ ctl'.phase = "idle" /\ ctl.nextId =< ctl'.nextId
         /\ Post(FinishReports(ctl, "quit")) /\ ReporterType' /\ faults' \in 0..MaxFaults
         /\ mpv' = NoMpv \/ mpv'.session = ctl.nextId
<1> DEFINE c == Reset(Finished(ctl, "quit"))
<1>1. CtlOK(ctl) /\ ReporterType /\ faults \in 0..MaxFaults
  BY TypeParts DEF Machine, Bounded
<1>2. CtlOK(c) /\ c.session = NoSession /\ c.nextId = ctl.nextId /\ c.phase = "idle"
  BY <1>1, FinishedOK, ResetOK, QuitIsNotIgnored
<1>3. Machine(c, NoMpv)
  BY <1>2, NoMpvType DEF Machine
<1>4. PICK o \in Ensured(c, NoMpv, FALSE) :
        /\ ctl' = o.ctl /\ mpv' = o.mpv /\ Spend(o.cost)
        /\ Post(FinishReports(ctl, "quit") \o o.reports)
  BY DEF Lost
<1> HIDE DEF c
<1>5. Machine(o.ctl, o.mpv) /\ c.nextId =< o.ctl.nextId /\ o.cost \in {0, 1}
  BY <1>3, EnsuredMachine
<1>6. o.reports = <<>> /\ o.ctl.phase = "idle" /\ (o.mpv = NoMpv \/ o.mpv.session = c.nextId)
  <2>1. CASE Kept(c, NoMpv, o)
    BY <2>1, <1>2 DEF Kept
  <2>2. CASE Renewed(c, NoMpv, o)
    <3>1. c \in Ctl
      BY <1>2 DEF CtlOK
    <3>2. QED
      BY <2>2, <1>2, <3>1, NoMpvType, StartedType DEF Renewed
  <2>3. QED
    BY <1>2, <2>1, <2>2, EnsuredOK, NoMpvType
<1>7. FinishReports(ctl, "quit") \in Seq(Reported)
  BY <1>1, FinishReportsType
<1>8. FinishReports(ctl, "quit") \o o.reports = FinishReports(ctl, "quit")
  BY <1>6, <1>7
<1>9. Post(FinishReports(ctl, "quit"))
  BY <1>4, <1>8
<1>10. QED
  BY <1>1, <1>2, <1>4, <1>5, <1>6, <1>7, <1>9, SpendType, PostToldType

LEMMA TypeFromParts ==
  ReporterType' /\ Machine(ctl', mpv') /\ Bounded' /\ OtherType' => TypeOK'
BY DEF TypeOK, Machine, CtlOK, Ctl, Runtime, Event, Bounded, OtherType

LEMMA SaysType ==
  ASSUME mpv \in Runtime, NEW kind \in {"loaded", "end"}, NEW reason \in Reasons \cup {"none"}
  PROVE  /\ Says(kind, reason) \in Seq(Event)
         /\ Farewell("shutdown") \in Seq(Event) /\ Farewell("gone") \in Seq(Event)
<1> DEFINE said == [kind |-> kind, session |-> mpv.session, reason |-> reason, of |-> mpv.file]
           left(k) == [kind |-> k, session |-> mpv.session, reason |-> "none", of |-> NoPlayback]
<1>1. said \in Event
  BY DEF Event, Runtime
<1>2. left("shutdown") \in Event /\ left("gone") \in Event
  BY DEF Event, Runtime
<1> HIDE DEF said
<1>3. Says(kind, reason) \in Seq(Event)
  BY <1>1 DEF Says, said
<1>4. Farewell("shutdown") \in Seq(Event) /\ Farewell("gone") \in Seq(Event)
  BY <1>2 DEF Farewell
<1>5. QED
  BY <1>3, <1>4

\* The end of a playback, for whatever reason.
LEMMA FinishType ==
  ASSUME TypeOK, NEW reason, Post(FinishReports(ctl, reason)),
         ctl' = Finished(ctl, reason), UNCHANGED mpv
  PROVE  ReporterType' /\ Machine(ctl', mpv')
<1>1. ReporterType /\ Machine(ctl, mpv)
  BY TypeParts
<1>2. ReporterType'
  BY <1>1, FinishReportsType, PostToldType DEF Machine
<1>3. Machine(ctl', mpv')
  BY <1>1, FinishedOK DEF Machine
<1>4. QED
  BY <1>2, <1>3

LEMMA EnsureStepType ==
  ASSUME TypeOK, NEW moved, NEW more \in {0, 1}, NEW o \in Ensured(ctl, mpv, moved),
         ctl' = o.ctl, mpv' = o.mpv, Spend(o.cost + more), Post(o.reports)
  PROVE  ReporterType' /\ Machine(ctl', mpv') /\ faults' \in 0..MaxFaults
<1>1. ReporterType /\ Machine(ctl, mpv) /\ faults \in 0..MaxFaults
  BY TypeParts DEF Bounded
<1>2. Machine(o.ctl, o.mpv) /\ o.reports \in Seq(Reported) /\ o.cost \in {0, 1}
  BY <1>1, EnsuredMachine
<1>3. o.cost + more \in Nat
  BY <1>2
<1>4. QED
  BY <1>1, <1>2, <1>3, SpendType, PostToldType

LEMMA SuperviseType ==
  ASSUME TypeOK, Supervise PROVE TypeOK'
<1>1. Bounded /\ OtherType /\ faults \in 0..MaxFaults /\ timeouts \in 0..MaxTimeouts
  BY TypeParts DEF Bounded
<1>2. CASE Preflight
  <2>1. PICK o \in Ensured(ctl, mpv, FALSE) :
          ctl' = o.ctl /\ mpv' = o.mpv /\ Spend(o.cost) /\ Post(o.reports)
    BY <1>2 DEF Preflight
  <2>2. o.cost \in {0, 1}
    BY TypeParts, EnsuredMachine
  <2>3. Spend(o.cost + 0)
    BY <2>1, <2>2
  <2>4. ReporterType' /\ Machine(ctl', mpv') /\ faults' \in 0..MaxFaults
    BY <2>1, <2>3, EnsureStepType
  <2>5. OtherType' /\ timeouts' = timeouts
    BY <1>1, <1>2 DEF Preflight, OtherType
  <2>6. QED
    BY <1>1, <2>4, <2>5, TypeFromParts DEF Bounded
<1>3. CASE WarmElsewhere
  <2>1. PICK o \in Ensured(ctl, mpv, TRUE) :
          ctl' = o.ctl /\ mpv' = o.mpv /\ Spend(o.cost + 1) /\ Post(o.reports)
    BY <1>3 DEF WarmElsewhere
  <2>2. ReporterType' /\ Machine(ctl', mpv') /\ faults' \in 0..MaxFaults
    BY <2>1, EnsureStepType
  <2>3. OtherType' /\ timeouts' = timeouts
    BY <1>1, <1>3 DEF WarmElsewhere, OtherType
  <2>4. QED
    BY <1>1, <2>2, <2>3, TypeFromParts DEF Bounded
<1>4. CASE PollRuntime \/ CommandLost
  <2>1. Lost /\ UNCHANGED <<pc, incoming, events, asked, exiting, timeouts, misled>>
    BY <1>4 DEF PollRuntime, CommandLost
  <2>2. OtherType' /\ timeouts' = timeouts
    BY <1>1, <2>1 DEF OtherType
  <2>3. QED
    BY <1>1, <2>1, <2>2, LostOK, TypeFromParts DEF Bounded
<1>5. QED
  BY <1>2, <1>3, <1>4 DEF Supervise

LEMMA LoadType ==
  ASSUME TypeOK, NEW p \in Playbacks, Load(p) PROVE TypeOK'
<1>1. /\ ReporterType /\ Machine(ctl, mpv) /\ OtherType
      /\ faults \in 0..MaxFaults /\ timeouts \in 0..MaxTimeouts
  BY TypeParts DEF Bounded
<1>2. PICK moved \in BOOLEAN : \E o \in Ensured(ctl, mpv, moved) :
         /\ mpv' = o.mpv
         /\ Spend(o.cost + (IF moved THEN 1 ELSE 0))
         /\ IF o.ok
            THEN /\ pc' = "loadfile"
                 /\ incoming' = [NoLoad EXCEPT !.load = p,
                                   !.replacing = o.ctl.active \/ o.ctl.phase = "playing"]
                 /\ ctl' = [o.ctl EXCEPT !.phase = "idle", !.load = NoPlayback]
                 /\ Post(o.reports \o ReplacedReports(o.ctl))
            ELSE ctl' = o.ctl /\ Post(o.reports) /\ UNCHANGED <<pc, incoming>>
  BY DEF Load
<1>3. PICK o \in Ensured(ctl, mpv, moved) :
         /\ mpv' = o.mpv
         /\ Spend(o.cost + (IF moved THEN 1 ELSE 0))
         /\ IF o.ok
            THEN /\ pc' = "loadfile"
                 /\ incoming' = [NoLoad EXCEPT !.load = p,
                                   !.replacing = o.ctl.active \/ o.ctl.phase = "playing"]
                 /\ ctl' = [o.ctl EXCEPT !.phase = "idle", !.load = NoPlayback]
                 /\ Post(o.reports \o ReplacedReports(o.ctl))
            ELSE ctl' = o.ctl /\ Post(o.reports) /\ UNCHANGED <<pc, incoming>>
  BY <1>2
<1>4. Machine(o.ctl, o.mpv) /\ o.reports \in Seq(Reported) /\ o.cost \in {0, 1}
  BY <1>1, EnsuredMachine
<1>5. faults' \in 0..MaxFaults
  <2>1. o.cost + (IF moved THEN 1 ELSE 0) \in Nat
    BY <1>4
  <2>2. QED
    BY <1>1, <1>3, <2>1, SpendType
<1>6. UNCHANGED <<events, exiting, timeouts, misled>> /\ asked' = asked \cup {p}
  BY DEF Load
<1>7. CASE o.ok
  <2>1. ReplacedReports(o.ctl) \in Seq(Reported)
    BY <1>4, AboutType DEF ReplacedReports, Machine, Kinds
  <2>2. o.reports \o ReplacedReports(o.ctl) \in Seq(Reported)
    BY <1>4, <2>1
  <2>3. ReporterType'
    BY <1>1, <1>3, <1>7, <2>2, PostToldType
  <2>4. Machine(ctl', mpv')
    <3>1. o.ctl \in Ctl /\ o.ctl.session < o.ctl.nextId /\ o.ctl.session = o.mpv.session
      BY <1>4 DEF Machine, CtlOK
    <3>2. ctl' \in Ctl /\ ctl'.phase = "idle" /\ ctl'.load = NoPlayback
          /\ ctl'.session = o.ctl.session /\ ctl'.nextId = o.ctl.nextId
      BY <1>3, <1>7, <3>1 DEF Ctl
    <3>3. QED
      BY <1>3, <1>4, <3>1, <3>2 DEF Machine, CtlOK
  <2>5. OtherType'
    <3>1. (o.ctl.active \/ o.ctl.phase = "playing") \in BOOLEAN
      OBVIOUS
    <3>2. incoming' \in [load : Playbacks \cup {NoPlayback}, replacing : BOOLEAN, retried : BOOLEAN]
      BY <1>3, <1>7, <3>1 DEF NoLoad
    <3>3. QED
      BY <1>1, <1>3, <1>6, <1>7, <3>2 DEF OtherType
  <2>6. QED
    BY <1>1, <1>5, <1>6, <2>3, <2>4, <2>5, TypeFromParts DEF Bounded
<1>8. CASE ~o.ok
  <2>1. ReporterType' /\ Machine(ctl', mpv')
    BY <1>1, <1>3, <1>4, <1>8, PostToldType
  <2>2. OtherType'
    BY <1>1, <1>3, <1>6, <1>8 DEF OtherType
  <2>3. QED
    BY <1>1, <1>5, <1>6, <2>1, <2>2, TypeFromParts DEF Bounded
<1>9. QED
  BY <1>7, <1>8
\* What is being loaded is a playback: without it, TypeOK is not inductive.
Incoming == pc = "loadfile" => incoming.load \in Playbacks

LEMMA LoadStepType ==
  ASSUME TypeOK, Incoming, LoadStep PROVE TypeOK'
<1>1. /\ ReporterType /\ Machine(ctl, mpv) /\ OtherType
      /\ faults \in 0..MaxFaults /\ timeouts \in 0..MaxTimeouts
  BY TypeParts DEF Bounded
<1>2. /\ ctl \in Ctl /\ ctl.session < ctl.nextId /\ ctl.session = mpv.session /\ mpv \in Runtime
      /\ (ctl.phase = "idle") = (ctl.load = NoPlayback) /\ CtlOK(ctl)
  BY <1>1 DEF Machine, CtlOK
<1>3. incoming \in [load : Playbacks \cup {NoPlayback}, replacing : BOOLEAN, retried : BOOLEAN]
  BY <1>1 DEF OtherType
<1>4. NoLoad \in [load : Playbacks \cup {NoPlayback}, replacing : BOOLEAN, retried : BOOLEAN]
  BY DEF NoLoad
<1>5. CASE Accepted
  <2>1. Machine(ctl', mpv')
    <3>1. /\ ctl' = [ctl EXCEPT !.phase = "loading", !.load = incoming.load, !.active = TRUE,
                                !.replaced = incoming.replacing]
          /\ mpv' = [mpv EXCEPT !.file = incoming.load, !.opened = FALSE]
      BY <1>5 DEF Accepted
    <3>2. /\ ctl' \in Ctl /\ ctl'.phase = "loading" /\ ctl'.load = incoming.load
          /\ ctl'.session = ctl.session /\ ctl'.nextId = ctl.nextId
      BY <1>2, <1>3, <3>1 DEF Ctl
    <3>3. mpv' \in Runtime /\ mpv'.session = mpv.session
      BY <1>2, <1>3, <3>1 DEF Runtime
    <3>4. incoming.load # NoPlayback
      BY <1>5, Parameters DEF Accepted, Incoming
    <3>5. QED
      BY <1>2, <3>2, <3>3, <3>4 DEF Machine, CtlOK
  <2>2. Says("end", "stop") \in Seq(Event)
    BY <1>2, SaysType DEF Reasons
  <2>3. OtherType'
    BY <1>1, <1>4, <1>5, <2>2 DEF OtherType, Accepted, env
  <2>4. QED
    BY <1>1, <1>5, <2>1, <2>3, ReporterUnchanged, TypeFromParts DEF Accepted, env, Bounded
<1>6. CASE Rejected
  <2> DEFINE c == [ctl EXCEPT !.active = FALSE]
  <2>1. CtlOK(c) /\ c.session = ctl.session
    BY <1>2 DEF Ctl, CtlOK
  <2>2. \/ ctl' = Reset(c) /\ mpv' = NoMpv
        \/ ctl' = c /\ mpv' = mpv
    BY <1>6 DEF Rejected
  <2> HIDE DEF c
  <2>3. Machine(ctl', mpv')
    BY <1>2, <2>1, <2>2, ResetOK, NoMpvType DEF Machine
  <2>4. faults' \in 0..MaxFaults
    BY <1>1, <1>6, SpendType DEF Rejected
  <2>5. OtherType'
    BY <1>1, <1>4, <1>6 DEF OtherType, Rejected
  <2>6. QED
    BY <1>1, <1>6, <2>3, <2>4, <2>5, ReporterUnchanged, TypeFromParts DEF Rejected, Bounded
<1>7. CASE LoadfileLost
  <2>1. CtlOK(Reset(ctl)) /\ Reset(ctl).session = NoSession
    BY <1>2, ResetOK
  <2>2. Machine(Reset(ctl), NoMpv)
    BY <2>1, NoMpvType DEF Machine
  <2>3. PICK o \in Ensured(Reset(ctl), NoMpv, FALSE) :
          ctl' = o.ctl /\ mpv' = o.mpv /\ Spend(o.cost) /\ Post(o.reports)
    BY <1>7 DEF LoadfileLost
  <2>4. Machine(o.ctl, o.mpv) /\ o.reports \in Seq(Reported) /\ o.cost \in {0, 1}
    BY <2>2, EnsuredMachine
  <2>5. faults' \in 0..MaxFaults
    BY <1>1, <2>3, <2>4, SpendType
  <2>6. OtherType'
    <3>1. incoming' \in [load : Playbacks \cup {NoPlayback}, replacing : BOOLEAN, retried : BOOLEAN]
      BY <1>3, <1>7 DEF LoadfileLost
    <3>2. QED
      BY <1>1, <1>7, <3>1 DEF OtherType, LoadfileLost
  <2>7. QED
    BY <1>1, <1>7, <2>3, <2>4, <2>5, <2>6, PostToldType, TypeFromParts DEF LoadfileLost, Bounded
<1>8. CASE RetryLost
  <2>1. Lost /\ UNCHANGED <<events, asked, exiting, timeouts, misled>>
        /\ pc' = "ready" /\ incoming' = NoLoad
    BY <1>8 DEF RetryLost
  <2>2. OtherType'
    BY <1>1, <1>4, <2>1 DEF OtherType
  <2>3. QED
    BY <1>1, <2>1, <2>2, LostOK, TypeFromParts DEF Bounded
<1>9. QED
  BY <1>5, <1>6, <1>7, <1>8 DEF LoadStep

LEMMA TakeMessageType ==
  ASSUME TypeOK, TakeMessage PROVE TypeOK'
<1>1. ReporterType /\ Machine(ctl, mpv) /\ OtherType /\ Bounded
  BY TypeParts
<1>2. events' \in Seq(Event) /\ Head(events) \in Event
  BY <1>1 DEF TakeMessage, TakeStale, TakeEvent, OtherType
<1>3. CASE TakeStale
  BY <1>1, <1>2, <1>3, ReporterUnchanged, TypeFromParts
  DEF TakeStale, env, OtherType, Bounded, Machine
<1>4. CASE TakeEvent
  <2> DEFINE e == Head(events)
  <2>1. UNCHANGED <<pc, incoming, asked, exiting, timeouts>>
    BY <1>4 DEF TakeEvent
  <2>2. misled' \in BOOLEAN
    <3>1. misled' = (misled \/ Misleads(e))
      BY <1>4 DEF TakeEvent
    <3>2. (misled \/ Misleads(e)) \in BOOLEAN
      OBVIOUS
    <3>3. QED
      BY <3>1, <3>2
  <2>3. OtherType'
    BY <1>1, <1>2, <2>1, <2>2 DEF OtherType
  <2>4. CASE ctl' = Activated(ctl) /\ UNCHANGED <<mpv, faults>>
             /\ Post(IF ctl.phase = "loading" THEN About(ctl, "start") ELSE <<>>)
    <3>1. (IF ctl.phase = "loading" THEN About(ctl, "start") ELSE <<>>) \in Seq(Reported)
      BY <1>1, AboutType DEF Machine, Kinds
    <3>2. CtlOK(Activated(ctl)) /\ Activated(ctl).session = ctl.session
      BY <1>1 DEF Machine, CtlOK, Ctl, Activated
    <3>3. QED
      BY <1>1, <2>1, <2>3, <2>4, <3>1, <3>2, PostToldType, TypeFromParts DEF Machine, Bounded
  <2>5. CASE /\ ctl' = Finished(ctl, e.reason) /\ Post(FinishReports(ctl, e.reason))
             /\ UNCHANGED <<mpv, faults>>
    BY <1>1, <2>1, <2>3, <2>5, FinishType, TypeFromParts DEF Bounded
  <2>6. CASE Lost
    BY <1>1, <2>1, <2>3, <2>6, LostOK, TypeFromParts DEF Bounded
  <2>7. QED
    BY <1>4, <2>4, <2>5, <2>6 DEF TakeEvent
<1>5. QED
  BY <1>3, <1>4 DEF TakeMessage

\* mpv's own steps, and Stop, change nothing but mpv and its events.
LEMMA MpvStepType ==
  ASSUME TypeOK, MpvStep \/ Stop PROVE TypeOK'
<1>1. ReporterType /\ Machine(ctl, mpv) /\ OtherType /\ Bounded
  BY TypeParts
<1>2. /\ ctl' = ctl /\ UNCHANGED <<pc, incoming, asked, exiting, misled, timeouts, reporter>>
      /\ faults' \in 0..MaxFaults
  BY <1>1, SpendType DEF MpvStep, Stop, FileLoads, FileEnds, MpvFails, env, Bounded
<1>3. mpv' \in Runtime /\ mpv'.session = mpv.session
  <2>1. mpv \in Runtime
    BY <1>1 DEF Machine
  <2>2. CASE mpv' = [NoMpv EXCEPT !.session = mpv.session]
    BY <2>1, <2>2, NoMpvType DEF Runtime
  <2>3. CASE mpv' # [NoMpv EXCEPT !.session = mpv.session]
    BY <2>1, <2>3 DEF MpvStep, Stop, FileLoads, FileEnds, MpvFails, EndFile, Runtime, NoPlayback
  <2>4. QED
    BY <2>2, <2>3
<1>4. events' \in Seq(Event)
  <2> HIDE DEF Reasons
  <2>1. mpv \in Runtime /\ events \in Seq(Event)
    BY <1>1 DEF Machine, OtherType
  <2>2. {"eof", "stop", "error", "quit", "none"} \subseteq Reasons \cup {"none"}
    BY DEF Reasons
  <2>3. CASE FileLoads
    BY <2>1, <2>2, <2>3, SaysType DEF FileLoads
  <2>4. CASE FileEnds \/ Stop
    <3>1. PICK reason \in {"eof", "stop", "error"} : EndFile(reason)
      BY <2>4 DEF FileEnds, Stop
    <3>2. Says("end", reason) \in Seq(Event)
      BY <2>1, <2>2, SaysType
    <3>3. QED
      BY <2>1, <3>1, <3>2 DEF EndFile
  <2>5. CASE MpvFails
    <3>1. /\ Says("end", "quit") \in Seq(Event)
          /\ Farewell("shutdown") \in Seq(Event) /\ Farewell("gone") \in Seq(Event)
      BY <2>1, <2>2, SaysType
    <3>2. /\ events \o Farewell("gone") \in Seq(Event)
          /\ events \o Says("end", "quit") \o Farewell("shutdown") \o Farewell("gone") \in Seq(Event)
      BY <2>1, <3>1
    <3>3. \/ events' = events \o Farewell("gone") \/ events' = events
          \/ events' = events \o Says("end", "quit") \o Farewell("shutdown") \o Farewell("gone")
      BY <2>5 DEF MpvFails
    <3>4. QED
      BY <2>1, <3>2, <3>3
  <2>6. QED
    BY <2>3, <2>4, <2>5 DEF MpvStep
<1>5. QED
  BY <1>1, <1>2, <1>3, <1>4, ReporterUnchanged, TypeFromParts DEF Machine, Bounded, OtherType

LEMMA ControlType ==
  ASSUME TypeOK, Stop \/ MarkWatchedAndPlayNext \/ ReportProgress \/ Timeout \/ Exit
  PROVE  TypeOK'
<1>1. ReporterType /\ Machine(ctl, mpv) /\ OtherType /\ Bounded
  BY TypeParts
<1>2. CtlOK(ctl)
  BY <1>1 DEF Machine
<1>3. CASE MarkWatchedAndPlayNext
  <2> DEFINE c == Finished(ctl, "watched")
  <2>1. CtlOK(c) /\ c.session = ctl.session
    BY <1>2, FinishedOK
  <2>2. ctl' = [c EXCEPT !.handoff = TRUE] /\ mpv' = mpv
    BY <1>3 DEF MarkWatchedAndPlayNext
  <2> HIDE DEF c
  <2>3. Machine(ctl', mpv')
    BY <1>1, <2>1, <2>2 DEF Machine, CtlOK, Ctl
  <2>4. ReporterType'
    BY <1>1, <1>2, <1>3, FinishReportsType, PostToldType DEF MarkWatchedAndPlayNext
  <2>5. OtherType' /\ Bounded'
    BY <1>1, <1>3 DEF MarkWatchedAndPlayNext, env, OtherType, Bounded
  <2>6. QED
    BY <2>3, <2>4, <2>5, TypeFromParts
<1>4. CASE ReportProgress
  <2>1. About(ctl, "progress") \in Seq(Reported)
    BY <1>2, <1>4, AboutType DEF ReportProgress, Kinds
  <2>2. ReporterType'
    BY <1>1, <1>4, <2>1, PostToldType DEF ReportProgress
  <2>3. OtherType' /\ Bounded' /\ Machine(ctl', mpv')
    BY <1>1, <1>4 DEF ReportProgress, env, OtherType, Bounded, Machine
  <2>4. QED
    BY <2>2, <2>3, TypeFromParts
<1>5. CASE PendingTimesOut
  <2>1. OtherType' /\ Bounded'
    BY <1>1, <1>5, TimesOutType DEF PendingTimesOut, OtherType, Bounded
  <2>2. QED
    BY <1>5, <2>1, FinishType, TypeFromParts DEF PendingTimesOut
<1>6. CASE HandoffExpires
  <2>1. OtherType' /\ Bounded'
    BY <1>1, <1>6, TimesOutType DEF HandoffExpires, OtherType, Bounded
  <2>2. Machine(ctl', mpv')
    BY <1>1, <1>6 DEF HandoffExpires, Machine, CtlOK, Ctl
  <2>3. QED
    BY <1>1, <1>6, <2>1, <2>2, ReporterUnchanged, TypeFromParts DEF HandoffExpires
<1>7. CASE RequestExit
  BY <1>1, <1>7, ReporterUnchanged, TypeFromParts DEF RequestExit, OtherType, Bounded, Machine
<1>8. CASE Shutdown
  <2> DEFINE c == Finished(ctl, "quit")
             r == FinishReports(ctl, "quit")
  <2>1. CtlOK(c) /\ ctl' = Reset(c) /\ mpv' = NoMpv
    BY <1>2, <1>8, FinishedOK DEF Shutdown
  <2> HIDE DEF c
  <2>2. Machine(ctl', mpv')
    BY <2>1, ResetOK, NoMpvType DEF Machine
  <2>3. r \in Seq(Reported)
    BY <1>2, FinishReportsType
  <2>4. Post(Append(r, Flush))
    BY <1>8 DEF Shutdown
  <2> HIDE DEF r
  <2>5. Append(r, Flush) \in Seq(Reported \cup {Flush})
    BY <2>3
  <2>6. ReporterType'
    BY <1>1, <2>4, <2>5, PostType
  <2>7. OtherType' /\ Bounded'
    BY <1>1, <1>8 DEF Shutdown, env, OtherType, Bounded
  <2>8. QED
    BY <2>2, <2>6, <2>7, TypeFromParts
<1>9. CASE FlushEnds
  <2>1. timeouts' \in 0..MaxTimeouts
    BY <1>1, <1>9, TimesOutType DEF FlushEnds, Bounded
  <2>2. QED
    BY <1>1, <1>9, <2>1, ReporterUnchanged, TypeFromParts DEF FlushEnds, OtherType, Bounded, Machine
<1>10. QED
  BY <1>3, <1>4, <1>5, <1>6, <1>7, <1>8, <1>9, MpvStepType DEF Timeout, Exit

-------------------------------------------------------------------------------
(* The reporter's batch *)

\* What retain leaves: the queue, or the queue without one progress report.
LEMMA RetainedIs ==
  ASSUME NEW queue, NEW report
  PROVE  \/ Superseded(queue, report) = {} /\ Retained(queue, report) = queue
         \/ \E i \in Superseded(queue, report) : Retained(queue, report) = Without(queue, i)
BY DEF Retained

LEMMA WithoutIs ==
  ASSUME NEW S, NEW queue \in Seq(S), NEW i \in DOMAIN queue
  PROVE  LET rest == Without(queue, i) IN
         /\ rest \in Seq(S) /\ Len(rest) = Len(queue) - 1
         /\ \A n \in 1 .. Len(rest) : rest[n] = queue[IF n < i THEN n ELSE n + 1]
<1>1. Len(queue) \in Nat /\ Len(queue) >= 1 /\ i \in 1 .. Len(queue)
  OBVIOUS
<1>2. \A n \in 1 .. Len(queue) - 1 : queue[IF n < i THEN n ELSE n + 1] \in S
  BY <1>1
<1>3. Without(queue, i) \in [1 .. Len(queue) - 1 -> S]
  BY <1>2 DEF Without
<1>4. Without(queue, i) \in Seq(S) /\ Len(Without(queue, i)) = Len(queue) - 1
  BY <1>1, <1>3
<1>5. QED
  BY <1>4 DEF Without

\* A batch of reports in which no playback has two progress reports stays one.
LEMMA EnqueueType ==
  ASSUME NEW queue \in Seq(Reported), OneProgressEach(queue), NEW report \in Reported
  PROVE  Enqueue(queue, report) \in Seq(Reported) /\ OneProgressEach(Enqueue(queue, report))
<1> DEFINE rest == Retained(queue, report)
<1>1. CASE Superseded(queue, report) = {}
  <2>1. rest = queue
    BY <1>1 DEF Retained
  <2>2. \A i \in DOMAIN queue : ~Supersedes(report, queue[i])
    BY <1>1 DEF Superseded
  <2>3. QED
    BY <2>1, <2>2 DEF Enqueue, OneProgressEach, Supersedes, Reported
<1>2. ASSUME NEW i \in Superseded(queue, report), rest = Without(queue, i)
      PROVE  Enqueue(queue, report) \in Seq(Reported) /\ OneProgressEach(Enqueue(queue, report))
  <2>1. i \in DOMAIN queue /\ Supersedes(report, queue[i])
    BY <1>2 DEF Superseded
  <2>2. /\ rest \in Seq(Reported) /\ Len(rest) = Len(queue) - 1
        /\ \A n \in 1 .. Len(rest) : rest[n] = queue[IF n < i THEN n ELSE n + 1]
    BY <1>2, <2>1, WithoutIs
  <2>3. Len(queue) \in Nat /\ DOMAIN queue = 1 .. Len(queue) /\ DOMAIN rest = 1 .. Len(rest)
    BY <2>2
  <2> HIDE DEF rest
  <2>4. \A n \in DOMAIN rest : rest[n].kind = "progress" => rest[n] # report
    <3>1. SUFFICES ASSUME NEW n \in DOMAIN rest, rest[n].kind = "progress", rest[n] = report
                   PROVE  FALSE
      OBVIOUS
    <3>2. PICK k \in DOMAIN queue : k # i /\ rest[n] = queue[k]
      BY <2>1, <2>2, <2>3, SMTT(30)
    <3>3. queue[k] = queue[i]
      <4>1. queue[i] \in Reported /\ queue[k] \in Reported
        BY <2>1
      <4>2. queue[i].kind = queue[k].kind /\ queue[i].of = queue[k].of
        BY <2>1, <3>1, <3>2 DEF Supersedes
      <4>3. QED
        BY <4>1, <4>2 DEF Reported
    <3>4. QED
      BY <2>1, <3>1, <3>2, <3>3 DEF OneProgressEach
  <2>5. OneProgressEach(rest)
    BY <2>1, <2>2, <2>3 DEF OneProgressEach
  <2>6. Enqueue(queue, report) = Append(rest, report)
    BY DEF Enqueue, rest
  <2>7. QED
    BY <2>2, <2>4, <2>5, <2>6 DEF OneProgressEach
<1>3. QED
  BY <1>1, <1>2, RetainedIs

LEMMA ReporterRunsType == ASSUME TypeOK, ReporterRuns PROVE TypeOK'
<1>1. ReporterType /\ Machine(ctl, mpv) /\ OtherType /\ Bounded
  BY TypeParts
<1>2. OtherType' /\ Bounded' /\ Machine(ctl', mpv')
  BY <1>1 DEF ReporterRuns, env, OtherType, Bounded, Machine
<1>3. ASSUME Take /\ Head(rx) # Flush
      PROVE  ReporterType'
  <2>1. /\ Head(rx) \in Reported /\ rx' \in Seq(Reported \cup {Flush})
        /\ batch' = Enqueue(batch, Head(rx)) /\ UNCHANGED <<turn, flush, told>>
    BY <1>1, <1>3 DEF Take, ReporterType, Reported
  <2>2. batch \in Seq(Reported) /\ OneProgressEach(batch)
    BY <1>1 DEF ReporterType, Reported
  <2>3. batch' \in Seq(Reported) /\ OneProgressEach(batch')
    BY <2>1, <2>2, EnqueueType
  <2>4. QED
    BY <1>1, <2>1, <2>3 DEF ReporterType, Reported, told, OneProgressEach
<1>4. ASSUME Take /\ Head(rx) = Flush
      PROVE  ReporterType'
  BY <1>1, <1>4 DEF Take, ReporterType, told, OneProgressEach
<1>5. ASSUME Send
      PROVE  ReporterType'
  <2>1. /\ batch # <<>> /\ batch' = Tail(batch) /\ UNCHANGED <<rx, turn, flush>>
        /\ last' = Head(batch)
    BY <1>5 DEF Send
  <2>a. batch \in Seq(Reported)
    BY <1>1 DEF ReporterType, Reported
  <2>b. Head(batch) \in Reported /\ batch' \in Seq(Reported)
    BY <2>1, <2>a
  <2>2. OneProgressEach(batch')
    BY <1>1, <1>5 DEF Send, ReporterType, OneProgressEach
  <2>3. Head(batch).of \in Playbacks
    BY <2>b DEF Reported
  <2>4. started' \subseteq Playbacks /\ stopped' \subseteq Playbacks
    BY <1>1, <1>5, <2>3 DEF Send, ReporterType
  <2>5. QED
    BY <1>1, <2>1, <2>2, <2>4, <2>b DEF ReporterType, Reported, OneProgressEach
<1>6. ASSUME TakenAll \/ BatchEnds
      PROVE  ReporterType'
  BY <1>1, <1>6 DEF TakenAll, BatchEnds, ReporterType, told, OneProgressEach
<1>7. ReporterType'
  BY <1>3, <1>4, <1>5, <1>6 DEF ReporterRuns, ReporterStep
<1>8. QED
  BY <1>2, <1>7, TypeFromParts

-------------------------------------------------------------------------------
(* The types of every reachable state *)

LEMMA IncomingStep ==
  ASSUME TypeOK, Incoming, [Next]_vars PROVE Incoming'
<1>1. CASE \E p \in Playbacks : Load(p)
  BY <1>1 DEF Load, Incoming, NoLoad
<1>2. CASE LoadStep
  <2>1. incoming \in [load : Playbacks \cup {NoPlayback}, replacing : BOOLEAN, retried : BOOLEAN]
    BY TypeParts DEF OtherType
  <2>2. QED
    BY <1>2, <2>1 DEF LoadStep, Accepted, Rejected, LoadfileLost, RetryLost, Incoming
<1>3. CASE \/ Supervise \/ Stop \/ MarkWatchedAndPlayNext \/ TakeMessage \/ ReportProgress
           \/ Timeout \/ Exit \/ MpvStep \/ ReporterRuns \/ UNCHANGED vars
  BY <1>3 DEF Supervise, Preflight, PollRuntime, CommandLost, WarmElsewhere, Stop,
    MarkWatchedAndPlayNext, TakeMessage, TakeStale, TakeEvent, ReportProgress, Timeout,
    PendingTimesOut, HandoffExpires, Exit, RequestExit, Shutdown, FlushEnds, MpvStep,
    FileLoads, FileEnds, MpvFails, ReporterRuns, vars, env, Incoming
<1>4. QED
  BY <1>1, <1>2, <1>3 DEF Next, Command

LEMMA TypeStep ==
  ASSUME TypeOK, Incoming, [Next]_vars PROVE TypeOK'
<1>1. CASE UNCHANGED vars
  <2>1. ReporterType /\ Machine(ctl, mpv) /\ OtherType /\ Bounded
    BY TypeParts
  <2>2. OtherType' /\ Bounded' /\ Machine(ctl', mpv') /\ ReporterType'
    BY <1>1, <2>1, ReporterUnchanged DEF vars, env, OtherType, Bounded, Machine
  <2>3. QED
    BY <2>2, TypeFromParts
<1>2. QED
  BY <1>1, SuperviseType, LoadType, LoadStepType, TakeMessageType, MpvStepType, ControlType,
     ReporterRunsType DEF Next, Command

LEMMA InitType == Init => TypeOK /\ Incoming
<1>1. SUFFICES ASSUME Init PROVE TypeOK /\ Incoming
  OBVIOUS
<1>2. ReporterType
  BY <1>1 DEF Init, ReporterInit, ReporterType, OneProgressEach
<1>3. CtlOK(Idle) /\ Idle.session = NoSession
  BY DEF Idle, CtlOK, Ctl, NoPlayback, NoSession
<1>4. Machine(ctl, mpv)
  BY <1>1, <1>3, NoMpvType DEF Init, Machine
<1>5. NoLoad \in [load : Playbacks \cup {NoPlayback}, replacing : BOOLEAN, retried : BOOLEAN]
  BY DEF NoLoad
<1>6. OtherType /\ Incoming
  <2>1. /\ pc = "ready" /\ incoming = NoLoad /\ events = <<>> /\ asked = {}
        /\ exiting = FALSE /\ misled = FALSE
    BY <1>1 DEF Init
  <2>2. events \in Seq(Event)
    BY <2>1
  <2>3. asked \subseteq Playbacks
    BY <2>1
  <2>4. incoming \in [load : Playbacks \cup {NoPlayback}, replacing : BOOLEAN, retried : BOOLEAN]
    BY <1>5, <2>1
  <2>5. QED
    BY <2>1, <2>2, <2>3, <2>4 DEF OtherType, Incoming
<1>8. Bounded
  BY <1>1, Parameters DEF Init, Bounded
<1>7. QED
  BY <1>2, <1>4, <1>6, <1>8, TypeParts

\* The controller, the runtime it holds, the events it has not taken and the reports it
\* has made keep their types and stay in step: the session that counts as current is the
\* one of the runtime, and a load is pending or playing exactly when there is one.
THEOREM PlayerTypes == Spec => []TypeOK
<1>1. Init => TypeOK /\ Incoming
  BY InitType
<1>2. TypeOK /\ Incoming /\ [Next]_vars => (TypeOK /\ Incoming)'
  BY TypeStep, IncomingStep
<1>3. QED
  BY <1>1, <1>2, PTL DEF Spec

-------------------------------------------------------------------------------
(* What a step of the controller does to the playback and to the reports *)

ReporterRest == UNCHANGED <<batch, turn, flush, told>>

Stays == rx' = rx /\ ctl'.phase = ctl.phase /\ ctl'.load = ctl.load

\* The playback is given up.  One that was reported as playing is reported stopped, one
\* that was not may be.
Idles ==
  /\ ctl'.phase = "idle" /\ ctl'.load = NoPlayback
  /\ \/ rx' = rx /\ ctl.phase # "playing"
     \/ rx' = rx \o About(ctl, "stopped") /\ ctl.phase # "idle"

Continues == Stays \/ Idles

PcStays == pc' = pc /\ incoming'.load = incoming.load

Asks(p) ==
  /\ pc = "ready" /\ ctl.phase # "loading"
  /\ p \in Playbacks \ asked /\ \A q \in Playbacks \ asked : p =< q
  /\ asked' = asked \cup {p}
  /\ \/ pc' = "loadfile" /\ incoming'.load = p /\ Idles
     \/ PcStays /\ Continues

Accepts ==
  /\ pc = "loadfile" /\ pc' = "ready" /\ rx' = rx /\ asked' = asked
  /\ ctl'.phase = "loading" /\ ctl'.load = incoming.load

Activates ==
  /\ pc = "ready" /\ PcStays /\ asked' = asked /\ ctl.phase = "loading"
  /\ \/ /\ ctl.load \in Silent /\ rx' = rx
        /\ ctl'.phase = "idle" /\ ctl'.load = NoPlayback
     \/ /\ ctl.load \notin Silent /\ rx' = rx \o <<Report("start", ctl.load)>>
        /\ ctl'.phase = "playing" /\ ctl'.load = ctl.load

Progresses ==
  /\ pc = "ready" /\ PcStays /\ asked' = asked /\ ctl.phase = "playing" /\ ctl' = ctl
  /\ rx' = rx \o About(ctl, "progress")

Shuts ==
  /\ pc = "ready" /\ pc' = "flushing" /\ asked' = asked
  /\ ctl'.phase = "idle" /\ ctl'.load = NoPlayback
  /\ \/ rx' = Append(rx, Flush) /\ ctl.phase # "playing"
     \/ rx' = Append(rx \o About(ctl, "stopped"), Flush) /\ ctl.phase # "idle"

\* A step in which the thread takes a message, or in which nothing is reported.
Turns ==
  /\ asked' = asked
  /\ \/ pc = "ready" /\ PcStays /\ Continues
     \/ pc = "loadfile" /\ PcStays /\ Stays
     \/ pc = "loadfile" /\ pc' = "ready" /\ Continues
     \/ PcStays /\ Stays
     \/ pc = "flushing" /\ pc' = "done" /\ Stays

LEMMA RxType == TypeOK => rx \in Seq(Reported \cup {Flush})
BY DEF TypeOK, ReporterType, Reported

LEMMA PostNothing ==
  ASSUME TypeOK, Post(<<>>) PROVE rx' = rx /\ ReporterRest
BY RxType DEF Post, ReporterRest

LEMMA FinishShape ==
  ASSUME TypeOK, NEW reason, Post(FinishReports(ctl, reason)),
         ctl'.phase = Finished(ctl, reason).phase, ctl'.load = Finished(ctl, reason).load
  PROVE  Continues /\ ReporterRest
<1>1. CtlOK(ctl)
  BY TypeParts DEF Machine
<1>2. CASE FinishReports(ctl, reason) = <<>>
  <2>1. rx' = rx /\ ReporterRest
    BY <1>2, PostNothing
  <2>2. Ignores(ctl, reason) \/ ctl.phase = "idle" \/ ctl.phase = "loading" \/ About(ctl, "stopped") = <<>>
    BY <1>2 DEF FinishReports
  <2>3. rx = rx \o <<>>
    BY RxType
  <2>4. QED
    BY <1>1, <2>1, <2>2, <2>3, FinishedOK DEF Continues, Stays, Idles, Ignores
<1>3. CASE FinishReports(ctl, reason) # <<>>
  <2>1. ctl.phase # "idle" /\ ~Ignores(ctl, reason) /\ FinishReports(ctl, reason) = About(ctl, "stopped")
    BY <1>3 DEF FinishReports
  <2>2. QED
    BY <1>1, <2>1, FinishedOK DEF Continues, Idles, Post, ReporterRest
<1>4. QED
  BY <1>2, <1>3

LEMMA LostShape ==
  ASSUME TypeOK, Lost PROVE Idles /\ ReporterRest
<1>1. /\ CtlOK(ctl) /\ Machine(ctl', mpv') /\ ctl'.phase = "idle"
      /\ Post(FinishReports(ctl, "quit"))
  BY LostOK, TypeParts DEF Machine
<1>2. ctl'.load = NoPlayback
  BY <1>1 DEF Machine, CtlOK
<1>3. Finished(ctl, "quit").phase = "idle" /\ Finished(ctl, "quit").load = NoPlayback
  BY <1>1, FinishedOK, QuitIsNotIgnored
<1>4. Continues /\ ReporterRest
  BY <1>1, <1>2, <1>3, FinishShape
<1>5. QED
  BY <1>1, <1>2, <1>4 DEF Continues, Stays, Idles

LEMMA EnsureShape ==
  ASSUME TypeOK, NEW moved, NEW o \in Ensured(ctl, mpv, moved), ctl' = o.ctl, Post(o.reports)
  PROVE  Continues /\ ReporterRest
<1>1. CtlOK(ctl) /\ mpv \in Runtime
  BY TypeParts DEF Machine
<1>2. CASE o.reports = <<>> /\ o.ctl.phase = ctl.phase /\ o.ctl.load = ctl.load
  BY <1>2, PostNothing DEF Continues, Stays
<1>3. CASE mpv.alive /\ Renewed(ctl, mpv, o)
  <2>1. o.reports = FinishReports(ctl, "quit") /\ o.ctl.phase = "idle" /\ o.ctl.load = NoPlayback
    BY <1>3 DEF Renewed
  <2>2. QED
    BY <1>1, <2>1, FinishedOK, QuitIsNotIgnored, FinishShape
<1>4. QED
  BY <1>1, <1>2, <1>3, EnsuredOK DEF Kept, Renewed

LEMMA LoadShape ==
  ASSUME TypeOK, NEW p \in Playbacks, Load(p) PROVE Asks(p) /\ ReporterRest
<1>1. CtlOK(ctl) /\ mpv \in Runtime /\ rx \in Seq(Reported \cup {Flush})
  BY TypeParts, RxType DEF Machine
<1>2. /\ pc = "ready" /\ ctl.phase # "loading" /\ asked' = asked \cup {p}
      /\ p \in Playbacks \ asked /\ \A q \in Playbacks \ asked : p =< q
  BY DEF Load
<1>3. PICK moved \in BOOLEAN : \E o \in Ensured(ctl, mpv, moved) :
         IF o.ok
         THEN /\ pc' = "loadfile"
              /\ incoming' = [NoLoad EXCEPT !.load = p,
                                !.replacing = o.ctl.active \/ o.ctl.phase = "playing"]
              /\ ctl' = [o.ctl EXCEPT !.phase = "idle", !.load = NoPlayback]
              /\ Post(o.reports \o ReplacedReports(o.ctl))
         ELSE ctl' = o.ctl /\ Post(o.reports) /\ UNCHANGED <<pc, incoming>>
  BY DEF Load
<1>4. PICK o \in Ensured(ctl, mpv, moved) :
         IF o.ok
         THEN /\ pc' = "loadfile"
              /\ incoming' = [NoLoad EXCEPT !.load = p,
                                !.replacing = o.ctl.active \/ o.ctl.phase = "playing"]
              /\ ctl' = [o.ctl EXCEPT !.phase = "idle", !.load = NoPlayback]
              /\ Post(o.reports \o ReplacedReports(o.ctl))
         ELSE ctl' = o.ctl /\ Post(o.reports) /\ UNCHANGED <<pc, incoming>>
  BY <1>3
<1>5. CASE ~o.ok
  BY <1>2, <1>4, <1>5, EnsureShape DEF Asks, PcStays
<1>6. CASE o.ok
  <2>1. o.ctl \in Ctl /\ CtlOK(o.ctl)
    BY <1>1, EnsuredOK DEF Kept, Renewed, CtlOK
  <2>2. incoming'.load = p /\ ctl'.phase = "idle" /\ ctl'.load = NoPlayback /\ pc' = "loadfile"
    BY <1>4, <1>6, <2>1 DEF NoLoad, Ctl
  <2>3. FinishReports(ctl, "quit") = (IF ctl.phase = "idle" THEN <<>> ELSE About(ctl, "stopped"))
    BY <1>2 DEF FinishReports, Ignores
  <2>4. \/ o.reports = <<>> /\ o.ctl.phase = ctl.phase /\ o.ctl.load = ctl.load
        \/ /\ o.ctl.phase = "idle"
           /\ o.reports = (IF ctl.phase = "idle" THEN <<>> ELSE About(ctl, "stopped"))
    BY <1>1, <2>3, EnsuredOK DEF Kept, Renewed
  <2>5. ctl.phase \in {"idle", "playing"}
    BY <1>1, <1>2 DEF CtlOK, Ctl
  <2>6. ctl.phase = "playing" => About(ctl, "stopped") \in Seq(Reported)
    BY <1>1, AboutType DEF Kinds
  <2>7. o.reports \o ReplacedReports(o.ctl)
          = (IF ctl.phase = "idle" THEN <<>> ELSE About(ctl, "stopped"))
    <3>1. CASE o.reports = <<>> /\ o.ctl.phase = ctl.phase /\ o.ctl.load = ctl.load
      <4>1. ReplacedReports(o.ctl) = (IF ctl.phase = "idle" THEN <<>> ELSE About(ctl, "stopped"))
        BY <2>5, <3>1 DEF ReplacedReports, About
      <4>2. QED
        BY <2>5, <2>6, <3>1, <4>1
    <3>2. CASE /\ o.ctl.phase = "idle"
               /\ o.reports = (IF ctl.phase = "idle" THEN <<>> ELSE About(ctl, "stopped"))
      <4>1. ReplacedReports(o.ctl) = <<>>
        BY <3>2 DEF ReplacedReports
      <4>2. QED
        BY <2>5, <2>6, <3>2, <4>1
    <3>3. QED
      BY <2>4, <3>1, <3>2
  <2>8. Idles /\ ReporterRest
    BY <1>1, <1>4, <1>6, <2>2, <2>5, <2>7 DEF Idles, Post, ReporterRest
  <2>9. QED
    BY <1>2, <2>2, <2>8 DEF Asks
<1>7. QED
  BY <1>5, <1>6

LEMMA SuperviseShape ==
  ASSUME TypeOK, Supervise PROVE Turns /\ ReporterRest
<1>1. pc = "ready" /\ UNCHANGED <<pc, incoming, asked>>
  BY DEF Supervise, Preflight, WarmElsewhere, PollRuntime, CommandLost
<1>2. CASE PollRuntime \/ CommandLost
  BY <1>1, <1>2, LostShape DEF PollRuntime, CommandLost, Turns, PcStays, Continues
<1>3. CASE Preflight \/ WarmElsewhere
  <2>1. PICK moved \in BOOLEAN :
          \E o \in Ensured(ctl, mpv, moved) : ctl' = o.ctl /\ Post(o.reports)
    BY <1>3 DEF Preflight, WarmElsewhere
  <2>2. PICK o \in Ensured(ctl, mpv, moved) : ctl' = o.ctl /\ Post(o.reports)
    BY <2>1
  <2>3. QED
    BY <1>1, <2>2, EnsureShape DEF Turns, PcStays
<1>4. QED
  BY <1>2, <1>3 DEF Supervise

LEMMA LoadStepShape ==
  ASSUME TypeOK, LoadStep PROVE (Turns \/ Accepts) /\ ReporterRest
<1>1. ctl \in Ctl /\ CtlOK(ctl)
  BY TypeParts DEF Machine, CtlOK
<1>2. CASE Accepted
  BY <1>1, <1>2 DEF Accepted, Accepts, ReporterRest, reporter, env, Ctl
<1>3. CASE Rejected
  <2> DEFINE c == [ctl EXCEPT !.active = FALSE]
  <2>1. CtlOK(c) /\ c.phase = ctl.phase /\ c.load = ctl.load
    BY <1>1 DEF Ctl, CtlOK
  <2>2. ctl' = Reset(c) \/ ctl' = c
    BY <1>3 DEF Rejected
  <2> HIDE DEF c
  <2>3. Stays
    BY <1>3, <2>1, <2>2, ResetOK DEF Rejected, Stays, reporter
  <2>4. QED
    BY <1>3, <2>3 DEF Rejected, Turns, Continues, ReporterRest, reporter
<1>4. CASE LoadfileLost
  <2>1. PICK o \in Ensured(Reset(ctl), NoMpv, FALSE) : ctl' = o.ctl /\ Post(o.reports)
    BY <1>4 DEF LoadfileLost
  <2>2. CtlOK(Reset(ctl)) /\ Reset(ctl).phase = ctl.phase /\ Reset(ctl).load = ctl.load
    BY <1>1, ResetOK
  <2>3. o.reports = <<>> /\ o.ctl.phase = ctl.phase /\ o.ctl.load = ctl.load
    <3>1. Kept(Reset(ctl), NoMpv, o) \/ Renewed(Reset(ctl), NoMpv, o)
      BY <2>2, NoMpvType, EnsuredOK
    <3>2. QED
      BY <2>2, <3>1, NoMpvType DEF Kept, Renewed
  <2>4. Stays /\ ReporterRest
    BY <2>1, <2>3, PostNothing DEF Stays
  <2>5. incoming \in [load : Playbacks \cup {NoPlayback}, replacing : BOOLEAN, retried : BOOLEAN]
    BY TypeParts DEF OtherType
  <2>6. QED
    BY <1>4, <2>4, <2>5 DEF LoadfileLost, Turns, PcStays
<1>5. CASE RetryLost
  BY <1>5, LostShape DEF RetryLost, Turns, Continues
<1>6. QED
  BY <1>2, <1>3, <1>4, <1>5 DEF LoadStep

LEMMA TakeMessageShape ==
  ASSUME TypeOK, TakeMessage PROVE (Turns \/ Activates) /\ ReporterRest
<1>1. ctl \in Ctl /\ CtlOK(ctl) /\ rx \in Seq(Reported \cup {Flush})
  BY TypeParts, RxType DEF Machine, CtlOK
<1>2. CASE TakeStale
  BY <1>2 DEF TakeStale, Turns, PcStays, Stays, Continues, env, ReporterRest, reporter
<1>3. CASE TakeEvent
  <2> DEFINE e == Head(events)
  <2>1. pc = "ready" /\ PcStays /\ asked' = asked
    BY <1>3 DEF TakeEvent, PcStays
  <2>2. CASE ctl.phase # "loading" /\ ctl' = Activated(ctl) /\ Post(<<>>)
    BY <2>1, <2>2, PostNothing DEF Activated, Turns, Stays, Continues
  <2>3. CASE ctl.phase = "loading" /\ ctl' = Activated(ctl) /\ Post(About(ctl, "start"))
    <3>1. rx' = rx \o About(ctl, "start") /\ ReporterRest
      BY <2>3 DEF Post, ReporterRest
    <3>2. CASE ctl.load \in Silent
      <4>1. About(ctl, "start") = <<>> /\ rx \o <<>> = rx
        BY <1>1, <3>2 DEF About
      <4>2. ctl'.phase = "idle" /\ ctl'.load = NoPlayback
        BY <1>1, <2>3, <3>2 DEF Activated, Ctl
      <4>3. QED
        BY <2>1, <2>3, <3>1, <3>2, <4>1, <4>2 DEF Activates
    <3>3. CASE ctl.load \notin Silent
      <4>1. About(ctl, "start") = <<Report("start", ctl.load)>>
        BY <3>3 DEF About
      <4>2. ctl'.phase = "playing" /\ ctl'.load = ctl.load
        BY <1>1, <2>3, <3>3 DEF Activated, Ctl
      <4>3. QED
        BY <2>1, <2>3, <3>1, <3>3, <4>1, <4>2 DEF Activates
    <3>4. QED
      BY <3>2, <3>3
  <2>4. CASE ctl' = Finished(ctl, e.reason) /\ Post(FinishReports(ctl, e.reason))
    BY <2>1, <2>4, FinishShape DEF Turns
  <2>5. CASE Lost
    BY <2>1, <2>5, LostShape DEF Turns, Continues
  <2>6. QED
    BY <1>3, <2>2, <2>3, <2>4, <2>5 DEF TakeEvent
<1>4. QED
  BY <1>2, <1>3 DEF TakeMessage

LEMMA ControlShape ==
  ASSUME TypeOK,
         Stop \/ MarkWatchedAndPlayNext \/ ReportProgress \/ Timeout \/ Exit \/ MpvStep
  PROVE  (Turns \/ Progresses \/ Shuts) /\ ReporterRest
<1>1. ctl \in Ctl /\ CtlOK(ctl) /\ rx \in Seq(Reported \cup {Flush})
  BY TypeParts, RxType DEF Machine, CtlOK
<1>2. CASE MarkWatchedAndPlayNext
  <2> DEFINE c == Finished(ctl, "watched")
  <2>1. CtlOK(c) /\ ctl' = [c EXCEPT !.handoff = TRUE]
    BY <1>1, <1>2, FinishedOK DEF MarkWatchedAndPlayNext
  <2> HIDE DEF c
  <2>2. ctl'.phase = c.phase /\ ctl'.load = c.load
    BY <2>1 DEF CtlOK, Ctl
  <2> USE DEF c
  <2>3. Continues /\ ReporterRest
    BY <1>2, <2>2, FinishShape DEF MarkWatchedAndPlayNext
  <2>4. QED
    BY <1>2, <2>3 DEF MarkWatchedAndPlayNext, Turns, PcStays, env
<1>3. CASE ReportProgress
  BY <1>3 DEF ReportProgress, Progresses, PcStays, Post, ReporterRest, env
<1>4. CASE PendingTimesOut
  <2>1. Continues /\ ReporterRest
    BY <1>4, FinishShape DEF PendingTimesOut
  <2>2. QED
    BY <1>4, <2>1 DEF PendingTimesOut, Turns, PcStays
<1>5. CASE HandoffExpires \/ RequestExit \/ FlushEnds \/ Stop \/ MpvStep
  <2>1. Stays /\ ReporterRest /\ asked' = asked /\ incoming' = incoming
    BY <1>1, <1>5 DEF Stays, ReporterRest, reporter, HandoffExpires, RequestExit, FlushEnds, Stop,
      MpvStep, FileLoads, FileEnds, MpvFails, env, Ctl
  <2>2. pc' = pc \/ (pc = "flushing" /\ pc' = "done")
    BY <1>5 DEF HandoffExpires, RequestExit, FlushEnds, Stop, MpvStep, FileLoads, FileEnds, MpvFails
  <2>3. QED
    BY <2>1, <2>2 DEF Turns, PcStays
<1>6. CASE Shutdown
  <2> DEFINE c == Finished(ctl, "quit")
  <2>1. CtlOK(c) /\ c.phase = "idle" /\ c.load = NoPlayback
    BY <1>1, FinishedOK, QuitIsNotIgnored
  <2>2. ctl'.phase = "idle" /\ ctl'.load = NoPlayback
    BY <1>6, <2>1, ResetOK DEF Shutdown
  <2>3. rx' = rx \o Append(FinishReports(ctl, "quit"), Flush) /\ ReporterRest
    BY <1>6 DEF Shutdown, Post, ReporterRest
  <2>4. CASE FinishReports(ctl, "quit") = <<>>
    <3>1. rx' = Append(rx, Flush)
      BY <1>1, <2>3, <2>4
    <3>2. ctl.phase # "playing" \/ About(ctl, "stopped") = <<>>
      BY <2>4 DEF FinishReports, Ignores
    <3>3. rx = rx \o <<>>
      BY <1>1
    <3>4. QED
      BY <1>6, <2>2, <2>3, <3>1, <3>2, <3>3 DEF Shutdown, Shuts, env
  <2>5. CASE FinishReports(ctl, "quit") # <<>>
    <3>1. FinishReports(ctl, "quit") = About(ctl, "stopped") /\ ctl.phase # "idle"
      BY <2>5 DEF FinishReports
    <3>2. About(ctl, "stopped") \in Seq(Reported)
      BY <1>1, <3>1, AboutType DEF Kinds
    <3>3. rx' = Append(rx \o About(ctl, "stopped"), Flush)
      BY <1>1, <2>3, <3>1, <3>2
    <3>4. QED
      BY <1>6, <2>2, <2>3, <3>1, <3>3 DEF Shutdown, Shuts, env
  <2>6. QED
    BY <2>4, <2>5
<1>7. QED
  BY <1>2, <1>3, <1>4, <1>5, <1>6 DEF Timeout, Exit

ControllerTurn ==
  Turns \/ (\E p \in Playbacks : Asks(p)) \/ Accepts \/ Activates \/ Progresses \/ Shuts

LEMMA StepShape ==
  ASSUME TypeOK, [Next]_vars
  PROVE  \/ ControllerTurn /\ ReporterRest
         \/ ReporterRuns
<1>1. CASE UNCHANGED vars
  BY <1>1 DEF vars, env, reporter, Turns, PcStays, Stays, Continues, ReporterRest, ControllerTurn
<1>2. QED
  BY <1>1, SuperviseShape, LoadShape, LoadStepShape, TakeMessageShape, ControlShape
  DEF Next, Command, ControllerTurn

-------------------------------------------------------------------------------
(* The flush: the last message there is, and acknowledged when nothing is left *)

NoFlush(q) == \A i \in DOMAIN q : q[i] # Flush

FlushInv ==
  /\ pc \in {"ready", "loadfile"} => flush = "none" /\ NoFlush(rx)
  /\ pc \in {"flushing", "done"} => ctl.phase = "idle"
  /\ \A i \in DOMAIN rx : rx[i] = Flush => i = Len(rx)
  /\ flush # "none" => rx = <<>>
  /\ flush = "asked" => turn = "sending"
  /\ flush = "acked" => batch = <<>>

LEMMA ReportIsNoFlush == \A r \in Reported : r # Flush
BY DEF Reported, Flush, Report, Kinds

LEMMA NoFlushPost ==
  ASSUME NEW q \in Seq(Reported \cup {Flush}), NoFlush(q), NEW more \in Seq(Reported)
  PROVE  NoFlush(q \o more)
BY ReportIsNoFlush DEF NoFlush

\* The controller sends no flush but its last message.
LEMMA TurnPosts ==
  ASSUME TypeOK, Incoming, FlushInv, ControllerTurn
  PROVE  \/ rx' = rx
         \/ /\ pc \in {"ready", "loadfile"}
            /\ \E more \in Seq(Reported) : rx' = rx \o more \/ (rx' = Append(rx \o more, Flush) /\ Shuts)
<1>1. CtlOK(ctl) /\ rx \in Seq(Reported \cup {Flush})
  BY TypeParts, RxType DEF Machine
<1>2. \A kind \in Kinds : ctl.phase # "idle" => About(ctl, kind) \in Seq(Reported)
  BY <1>1, AboutType
<1>3. ctl.phase = "loading" => Report("start", ctl.load) \in Reported
  BY <1>1 DEF CtlOK, Ctl, Report, Reported, Kinds
<1>4. <<>> \in Seq(Reported) /\ rx \o <<>> = rx
  BY <1>1
<1>5. CASE Idles /\ pc \in {"ready", "loadfile"}
  BY <1>2, <1>5 DEF Idles, Kinds
<1>6. CASE Shuts
  BY <1>2, <1>4, <1>6 DEF Shuts, Kinds
<1>7. CASE Activates
  <2>1. ctl.load \notin Silent => <<Report("start", ctl.load)>> \in Seq(Reported)
    BY <1>3, <1>7 DEF Activates
  <2>2. QED
    BY <1>7, <2>1 DEF Activates
<1>8. CASE Progresses
  BY <1>2, <1>8 DEF Progresses, Kinds
<1>9. QED
  BY <1>5, <1>6, <1>7, <1>8 DEF ControllerTurn, Turns, Asks, Accepts, Continues, Stays

LEMMA FlushStep ==
  ASSUME TypeOK, Incoming, FlushInv, [Next]_vars PROVE FlushInv'
<1>1. /\ rx \in Seq(Reported \cup {Flush}) /\ batch \in Seq(Reported)
      /\ flush \in {"none", "asked", "acked"} /\ pc \in {"ready", "loadfile", "flushing", "done"}
  BY TypeParts DEF ReporterType, Reported, OtherType
<1>2. ASSUME ControllerTurn, ReporterRest PROVE FlushInv'
  <2>1. /\ pc' \in {"ready", "loadfile"} => pc \in {"ready", "loadfile"}
        /\ pc' \in {"flushing", "done"} => pc \in {"flushing", "done"} \/ Shuts
    BY <1>1, <1>2 DEF ControllerTurn, Turns, Asks, Accepts, Activates, Progresses, Shuts, PcStays
  <2>2. pc' \in {"flushing", "done"} => ctl'.phase = "idle"
    BY <1>2, <2>1 DEF FlushInv, ControllerTurn, Turns, Asks, Accepts, Activates, Progresses, Shuts,
      PcStays, Continues, Stays, Idles
  <2>3. CASE rx' = rx
    BY <1>2, <2>1, <2>2, <2>3 DEF FlushInv, NoFlush, ReporterRest
  <2>4. ASSUME pc \in {"ready", "loadfile"}, NEW more \in Seq(Reported), rx' = rx \o more
        PROVE  FlushInv'
    <3>1. NoFlush(rx') /\ flush' = "none"
      BY <1>1, <1>2, <2>4, NoFlushPost DEF FlushInv, ReporterRest
    <3>2. QED
      BY <2>2, <3>1 DEF FlushInv, NoFlush
  <2>5. ASSUME pc \in {"ready", "loadfile"}, Shuts, NEW more \in Seq(Reported),
               rx' = Append(rx \o more, Flush)
        PROVE  FlushInv'
    <3>1. NoFlush(rx \o more) /\ flush' = "none" /\ pc' = "flushing"
      BY <1>1, <1>2, <2>5, NoFlushPost DEF FlushInv, ReporterRest, Shuts
    <3>2. rx \o more \in Seq(Reported \cup {Flush})
      BY <1>1
    <3>3. \A i \in DOMAIN rx' : rx'[i] = Flush => i = Len(rx')
      BY <2>5, <3>1, <3>2 DEF NoFlush
    <3>4. QED
      BY <2>2, <3>1, <3>3 DEF FlushInv
  <2>6. QED
    BY <1>2, <2>3, <2>4, <2>5, TurnPosts
<1>3. ASSUME ReporterRuns PROVE FlushInv'
  <2>1. UNCHANGED <<ctl, pc>>
    BY <1>3 DEF ReporterRuns
  <2>2. CASE Take /\ Head(rx) # Flush
    BY <1>1, <2>1, <2>2 DEF FlushInv, NoFlush, Take
  <2>3. CASE Take /\ Head(rx) = Flush
    <3>1. rx # <<>> /\ rx[1] = Flush /\ 1 \in DOMAIN rx /\ rx' = Tail(rx)
      BY <1>1, <2>3 DEF Take
    <3>2. Len(rx) = 1
      BY <3>1 DEF FlushInv
    <3>3. rx' = <<>> /\ pc' \notin {"ready", "loadfile"}
      BY <1>1, <2>1, <3>1, <3>2 DEF FlushInv, NoFlush
    <3>4. QED
      BY <2>1, <2>3, <3>3 DEF FlushInv, Take
  <2>4. CASE Send \/ TakenAll \/ BatchEnds
    BY <1>1, <2>1, <2>4 DEF FlushInv, NoFlush, Send, TakenAll, BatchEnds
  <2>5. QED
    BY <1>3, <2>2, <2>3, <2>4 DEF ReporterRuns, ReporterStep
<1>4. QED
  BY <1>2, <1>3, StepShape

-------------------------------------------------------------------------------
(* A stream of reports that will tell the server of playbacks in order.  q is what   *)
(* is still to be sent, open the playback that goes on or NoPlayback, A the playbacks *)
(* asked for, S and T those the server was told have started and have stopped.       *)

Starts(q, p) == \E k \in DOMAIN q : q[k] = Report("start", p)
Stops(q, p) == \E k \in DOMAIN q : q[k] = Report("stopped", p)

\* What the server is told next is news about no earlier playback than it knows of, a
\* progress has its start and whatever is told of a playback that is over has its stop.
GoodReport(q, r, open, A, S, T) ==
  /\ r.of \in A \ T
  /\ r.kind = "start" => r.of \notin S
  /\ \A p \in S \cup T : p =< r.of
  /\ r.kind = "progress" => r.of \in S \/ Starts(q, r.of)
  /\ r.kind # "stopped" => r.of = open \/ Stops(q, r.of)

GoodReports(q, open, A, S, T) ==
  \A i \in DOMAIN q : q[i] # Flush => GoodReport(q, q[i], open, A, S, T)

\* A stop is the last report of a playback, a start is the first.
Follows(r, s) ==
  /\ r.of =< s.of
  /\ r.of = s.of => r.kind # "stopped" /\ s.kind # "start"

Ordered(q) ==
  \A i, j \in DOMAIN q : i < j /\ q[i] # Flush /\ q[j] # Flush => Follows(q[i], q[j])

\* The playback that goes on is the latest of all and has not been stopped.
GoesOn(q, open, A, S, T) ==
  /\ open \in A \ T
  /\ open \in S \/ Starts(q, open)
  /\ \A i \in DOMAIN q : q[i] # Flush => q[i].of =< open /\ q[i] # Report("stopped", open)
  /\ \A p \in S \cup T : p =< open

Sound(q, open, A, S, T) ==
  /\ S \cup T \subseteq A
  /\ GoodReports(q, open, A, S, T)
  /\ Ordered(q)
  /\ \A p \in S \ T : p = open \/ Stops(q, p)
  /\ open # NoPlayback => GoesOn(q, open, A, S, T)

\* Nothing was or will be told of p so far, nor of a later playback.
Unheard(q, p, A, S, T) ==
  /\ p \in A
  /\ \A i \in DOMAIN q : q[i] # Flush => q[i].of < p
  /\ \A x \in S \cup T : x < p

Stream(q) == q \in Seq(Reported \cup {Flush})

Worlds(A, S, T) == A \subseteq Playbacks /\ S \subseteq Playbacks /\ T \subseteq Playbacks

LEMMA AppendedIs ==
  ASSUME NEW q, Stream(q), NEW r \in Reported \cup {Flush}
  PROVE  LET w == Append(q, r) IN
         /\ Stream(w) /\ Len(w) = Len(q) + 1 /\ Len(q) \in Nat
         /\ DOMAIN q = 1 .. Len(q) /\ DOMAIN w = 1 .. Len(q) + 1
         /\ w[Len(q) + 1] = r /\ \A i \in DOMAIN q : w[i] = q[i]
BY DEF Stream

\* The playback that goes on, or one that nothing was told of, is stopped.
LEMMA SoundStop ==
  ASSUME NEW A, NEW S, NEW T, Worlds(A, S, T), NEW q, Stream(q), NEW p \in Playbacks,
         NEW open, Sound(q, open, A, S, T),
         open = p \/ (open = NoPlayback /\ Unheard(q, p, A, S, T))
  PROVE  Sound(Append(q, Report("stopped", p)), NoPlayback, A, S, T)
<1> DEFINE r == Report("stopped", p)
           w == Append(q, r)
<1>1. r \in Reported /\ r.of = p /\ r.kind = "stopped" /\ r # Flush
  BY DEF Report, Reported, Kinds, Flush
<1>2. /\ Stream(w) /\ Len(w) = Len(q) + 1 /\ Len(q) \in Nat
      /\ DOMAIN q = 1 .. Len(q) /\ DOMAIN w = 1 .. Len(q) + 1
      /\ w[Len(q) + 1] = r /\ \A i \in DOMAIN q : w[i] = q[i]
  BY <1>1, AppendedIs
<1>3. p \in Nat /\ p # NoPlayback /\ A \subseteq Nat /\ S \cup T \subseteq Nat
  BY Parameters DEF Worlds
<1>4. \A i \in DOMAIN q : q[i] \in Reported \cup {Flush}
  BY DEF Stream
<1>5. /\ p \in A \ T
      /\ \A x \in S \cup T : x =< p
      /\ \A i \in DOMAIN q : q[i] # Flush => q[i].of =< p /\ (q[i].of = p => q[i].kind # "stopped")
  <2>1. CASE open = p
    <3>1. GoesOn(q, p, A, S, T)
      BY <1>3, <2>1 DEF Sound
    <3>2. ASSUME NEW i \in DOMAIN q, q[i] # Flush, q[i].of = p, q[i].kind = "stopped" PROVE FALSE
      <4>1. q[i] = Report("stopped", p)
        BY <1>4, <3>2 DEF Reported, Report
      <4>2. QED
        BY <3>1, <3>2, <4>1 DEF GoesOn
    <3>3. QED
      BY <3>1, <3>2 DEF GoesOn
  <2>2. CASE Unheard(q, p, A, S, T)
    <3>1. \A i \in DOMAIN q : q[i] # Flush => q[i].of \in Nat
      BY <1>3, <1>4 DEF Reported, Worlds, Sound, GoodReports, GoodReport
    <3>2. QED
      BY <1>3, <2>2, <3>1 DEF Unheard
  <2>3. QED
    BY <2>1, <2>2
<1> HIDE DEF r, w
<1>6. Stops(w, p) /\ \A x : Stops(q, x) => Stops(w, x)
  BY <1>2 DEF Stops, r
<1>7. \A x : Starts(q, x) => Starts(w, x)
  BY <1>2 DEF Starts
<1>8. GoodReports(w, NoPlayback, A, S, T)
  <2>1. SUFFICES ASSUME NEW i \in DOMAIN w, w[i] # Flush
                 PROVE  GoodReport(w, w[i], NoPlayback, A, S, T)
    BY DEF GoodReports
  <2>2. CASE i \in DOMAIN q
    <3>1. GoodReport(q, q[i], open, A, S, T) /\ w[i] = q[i]
      BY <1>2, <2>1, <2>2 DEF Sound, GoodReports
    <3>2. open = p \/ open = NoPlayback
      OBVIOUS
    <3>3. q[i].kind # "stopped" => Stops(w, q[i].of)
      <4>1. q[i].of # NoPlayback
        BY <3>1, Parameters DEF GoodReport, Worlds
      <4>2. QED
        BY <1>6, <3>1, <3>2, <4>1 DEF GoodReport
    <3>4. QED
      BY <1>7, <3>1, <3>3 DEF GoodReport
  <2>3. CASE i = Len(q) + 1
    BY <1>1, <1>2, <1>5, <2>3 DEF GoodReport
  <2>4. QED
    BY <1>2, <2>2, <2>3
<1>9. Ordered(w)
  <2>1. SUFFICES ASSUME NEW i \in DOMAIN w, NEW j \in DOMAIN w, i < j, w[i] # Flush, w[j] # Flush
                 PROVE  Follows(w[i], w[j])
    BY DEF Ordered
  <2>2. i \in DOMAIN q
    BY <1>2, <2>1
  <2>3. CASE j \in DOMAIN q
    BY <1>2, <2>1, <2>2, <2>3 DEF Sound, Ordered
  <2>4. CASE j = Len(q) + 1
    BY <1>1, <1>2, <1>5, <2>1, <2>2, <2>4 DEF Follows
  <2>5. QED
    BY <1>2, <2>3, <2>4
<1>10. \A x \in S \ T : Stops(w, x)
  BY <1>6, Parameters DEF Sound, Worlds
<1>11. QED
  BY <1>8, <1>9, <1>10 DEF Sound, r, w

\* A start of a playback that nothing was told of, or progress of the one that goes on.
LEMMA SoundSay ==
  ASSUME NEW A, NEW S, NEW T, Worlds(A, S, T), NEW q, Stream(q), NEW p \in Playbacks,
         NEW open, Sound(q, open, A, S, T), NEW r \in Reported, r.of = p,
         \/ r.kind = "start" /\ open = NoPlayback /\ Unheard(q, p, A, S, T) /\ p \notin T
         \/ r.kind = "progress" /\ open = p
  PROVE  Sound(Append(q, r), p, A, S, T)
<1> DEFINE w == Append(q, r)
<1>1. r # Flush /\ r.kind # "stopped" /\ r # Report("stopped", p)
  BY ReportIsNoFlush DEF Report
<1>2. /\ Stream(w) /\ Len(w) = Len(q) + 1 /\ Len(q) \in Nat
      /\ DOMAIN q = 1 .. Len(q) /\ DOMAIN w = 1 .. Len(q) + 1
      /\ w[Len(q) + 1] = r /\ \A i \in DOMAIN q : w[i] = q[i]
  BY AppendedIs
<1>3. p \in Nat /\ p # NoPlayback /\ A \subseteq Nat /\ S \cup T \subseteq Nat
  BY Parameters DEF Worlds
<1>4. \A i \in DOMAIN q : q[i] \in Reported \cup {Flush}
  BY DEF Stream
<1>5. \A i \in DOMAIN q : q[i] # Flush => q[i].of \in Nat
  BY <1>3, <1>4 DEF Sound, GoodReports, GoodReport
<1>6. /\ p \in A \ T
      /\ \A x \in S \cup T : x =< p
      /\ \A i \in DOMAIN q : q[i] # Flush =>
           /\ q[i].of =< p /\ q[i] # Report("stopped", p)
           /\ q[i].of = p => q[i].kind # "stopped" /\ r.kind # "start"
  <2>1. CASE open = p
    <3>1. GoesOn(q, p, A, S, T) /\ r.kind = "progress"
      BY <1>3, <2>1 DEF Sound
    <3>2. ASSUME NEW i \in DOMAIN q, q[i] # Flush, q[i].of = p, q[i].kind = "stopped" PROVE FALSE
      <4>1. q[i] = Report("stopped", p)
        BY <1>4, <3>2 DEF Reported, Report
      <4>2. QED
        BY <3>1, <3>2, <4>1 DEF GoesOn
    <3>3. QED
      BY <3>1, <3>2 DEF GoesOn
  <2>2. CASE Unheard(q, p, A, S, T) /\ p \notin T
    <3>1. ASSUME NEW i \in DOMAIN q, q[i] # Flush
          PROVE  q[i].of =< p /\ q[i].of # p /\ q[i] # Report("stopped", p)
      BY <1>3, <1>5, <2>2, <3>1 DEF Unheard, Report
    <3>2. QED
      BY <1>3, <2>2, <3>1 DEF Unheard
  <2>3. QED
    BY <1>3, <2>1, <2>2
<1> HIDE DEF w
<1>7. \A x : (Starts(q, x) => Starts(w, x)) /\ (Stops(q, x) => Stops(w, x))
  BY <1>2 DEF Starts, Stops
<1>8. p \in S \/ Starts(w, p)
  <2>1. CASE r.kind = "start"
    <3>1. r = Report("start", p)
      BY <2>1 DEF Report, Reported
    <3>2. QED
      BY <1>2, <3>1 DEF Starts
  <2>2. CASE open = p
    BY <1>3, <1>7, <2>2 DEF Sound, GoesOn
  <2>3. QED
    BY <2>1, <2>2
<1>9. open = p \/ open = NoPlayback
  OBVIOUS
<1>10. r.kind = "start" => p \notin S
  BY <1>3 DEF Unheard
<1>11. GoodReports(w, p, A, S, T)
  <2>1. SUFFICES ASSUME NEW i \in DOMAIN w, w[i] # Flush
                 PROVE  GoodReport(w, w[i], p, A, S, T)
    BY DEF GoodReports
  <2>2. CASE i \in DOMAIN q
    <3>1. GoodReport(q, q[i], open, A, S, T) /\ w[i] = q[i]
      BY <1>2, <2>1, <2>2 DEF Sound, GoodReports
    <3>2. q[i].of # NoPlayback
      BY <3>1, Parameters DEF GoodReport, Worlds
    <3>3. QED
      BY <1>7, <1>9, <3>1, <3>2 DEF GoodReport
  <2>3. CASE i = Len(q) + 1
    BY <1>1, <1>2, <1>6, <1>8, <1>10, <2>3 DEF GoodReport
  <2>4. QED
    BY <1>2, <2>2, <2>3
<1>12. Ordered(w)
  <2>1. SUFFICES ASSUME NEW i \in DOMAIN w, NEW j \in DOMAIN w, i < j, w[i] # Flush, w[j] # Flush
                 PROVE  Follows(w[i], w[j])
    BY DEF Ordered
  <2>2. i \in DOMAIN q
    BY <1>2, <2>1
  <2>3. CASE j \in DOMAIN q
    BY <1>2, <2>1, <2>2, <2>3 DEF Sound, Ordered
  <2>4. CASE j = Len(q) + 1
    BY <1>2, <1>6, <2>1, <2>2, <2>4 DEF Follows
  <2>5. QED
    BY <1>2, <2>3, <2>4
<1>13. \A x \in S \ T : x = p \/ Stops(w, x)
  BY <1>7, <1>9, Parameters DEF Sound, Worlds
<1>14. GoesOn(w, p, A, S, T)
  <2>1. \A i \in DOMAIN w : w[i] # Flush => w[i].of =< p /\ w[i] # Report("stopped", p)
    BY <1>1, <1>2, <1>3, <1>6
  <2>2. QED
    BY <1>6, <1>8, <2>1 DEF GoesOn
<1>15. QED
  BY <1>11, <1>12, <1>13, <1>14 DEF Sound, w

LEMMA SoundFlush ==
  ASSUME NEW A, NEW S, NEW T, NEW q, Stream(q), NEW open, Sound(q, open, A, S, T)
  PROVE  Sound(Append(q, Flush), open, A, S, T)
<1> DEFINE w == Append(q, Flush)
<1>1. /\ Stream(w) /\ Len(w) = Len(q) + 1 /\ Len(q) \in Nat
      /\ DOMAIN q = 1 .. Len(q) /\ DOMAIN w = 1 .. Len(q) + 1
      /\ w[Len(q) + 1] = Flush /\ \A i \in DOMAIN q : w[i] = q[i]
  BY AppendedIs
<1> HIDE DEF w
<1>2. \A x : (Starts(q, x) => Starts(w, x)) /\ (Stops(q, x) => Stops(w, x))
  BY <1>1 DEF Starts, Stops
<1>3. \A i \in DOMAIN w : w[i] # Flush => i \in DOMAIN q /\ w[i] = q[i]
  BY <1>1
<1>4. GoodReports(w, open, A, S, T)
  <2>1. SUFFICES ASSUME NEW i \in DOMAIN w, w[i] # Flush
                 PROVE  GoodReport(w, w[i], open, A, S, T)
    BY DEF GoodReports
  <2>2. GoodReport(q, w[i], open, A, S, T)
    BY <1>3, <2>1 DEF Sound, GoodReports
  <2>3. QED
    BY <1>2, <2>2 DEF GoodReport
<1>5. Ordered(w)
  BY <1>3 DEF Sound, Ordered
<1>6. open # NoPlayback => GoesOn(w, open, A, S, T)
  BY <1>2, <1>3 DEF Sound, GoesOn
<1>7. QED
  BY <1>2, <1>4, <1>5, <1>6 DEF Sound, w

LEMMA SoundAsk ==
  ASSUME NEW A, NEW S, NEW T, NEW q, NEW open, Sound(q, open, A, S, T), NEW B, A \subseteq B
  PROVE  Sound(q, open, B, S, T)
<1>1. GoodReports(q, open, B, S, T)
  BY DEF Sound, GoodReports, GoodReport
<1>2. open # NoPlayback => GoesOn(q, open, B, S, T)
  BY DEF Sound, GoesOn
<1>3. QED
  BY <1>1, <1>2 DEF Sound

\* A progress report is superseded, or a flush taken.
LEMMA SoundWithout ==
  ASSUME NEW A, NEW S, NEW T, NEW q, Stream(q), NEW open, Sound(q, open, A, S, T),
         NEW i \in DOMAIN q, q[i].kind \notin {"start", "stopped"}
  PROVE  Sound(Without(q, i), open, A, S, T) /\ Stream(Without(q, i))
<1> DEFINE w == Without(q, i)
           at(n) == IF n < i THEN n ELSE n + 1
<1>1. /\ Stream(w) /\ Len(w) = Len(q) - 1
      /\ \A n \in 1 .. Len(w) : w[n] = q[IF n < i THEN n ELSE n + 1]
  BY WithoutIs DEF Stream
<1>2. /\ Len(q) \in Nat /\ i \in 1 .. Len(q) /\ DOMAIN q = 1 .. Len(q) /\ DOMAIN w = 1 .. Len(q) - 1
      /\ \A n \in DOMAIN w : at(n) \in DOMAIN q /\ w[n] = q[at(n)]
  BY <1>1 DEF Stream
<1> HIDE DEF w
<1>3. ASSUME NEW k \in DOMAIN q, k # i PROVE \E n \in DOMAIN w : w[n] = q[k]
  <2>1. CASE k < i
    <3>1. k \in DOMAIN w /\ w[k] = q[k]
      BY <1>2, <2>1
    <3>2. QED
      BY <3>1
  <2>2. CASE k > i
    <3>1. k - 1 \in DOMAIN w /\ w[k - 1] = q[k]
      BY <1>2, <2>2
    <3>2. QED
      BY <3>1
  <2>3. QED
    BY <1>2, <1>3, <2>1, <2>2
<1>4. \A x : (Starts(q, x) => Starts(w, x)) /\ (Stops(q, x) => Stops(w, x))
  BY <1>3 DEF Starts, Stops, Report
<1>5. GoodReports(w, open, A, S, T)
  <2>1. SUFFICES ASSUME NEW n \in DOMAIN w, w[n] # Flush
                 PROVE  GoodReport(w, w[n], open, A, S, T)
    BY DEF GoodReports
  <2>2. GoodReport(q, w[n], open, A, S, T)
    BY <1>2, <2>1 DEF Sound, GoodReports
  <2>3. QED
    BY <1>4, <2>2 DEF GoodReport
<1>6. Ordered(w)
  <2>1. SUFFICES ASSUME NEW n \in DOMAIN w, NEW m \in DOMAIN w, n < m, w[n] # Flush, w[m] # Flush
                 PROVE  Follows(w[n], w[m])
    BY DEF Ordered
  <2>2. at(n) < at(m)
    BY <1>2, <2>1
  <2>3. QED
    BY <1>2, <2>1, <2>2 DEF Sound, Ordered
<1>7. open # NoPlayback => GoesOn(w, open, A, S, T)
  BY <1>2, <1>4 DEF Sound, GoesOn
<1>8. QED
  BY <1>1, <1>4, <1>5, <1>6, <1>7 DEF Sound, w

LEMMA TailIs ==
  ASSUME NEW q, Stream(q), q # <<>>
  PROVE  /\ Stream(Tail(q)) /\ Len(q) \in Nat /\ Len(q) >= 1 /\ DOMAIN q = 1 .. Len(q)
         /\ DOMAIN Tail(q) = 1 .. Len(q) - 1 /\ Head(q) = q[1]
         /\ \A i \in DOMAIN Tail(q) : Tail(q)[i] = q[i + 1] /\ i + 1 \in DOMAIN q
BY DEF Stream

\* What the first report makes of what the server was told.
NowStarted(S, r) == IF r.kind = "start" THEN S \cup {r.of} ELSE S
NowStopped(T, r) == IF r.kind = "stopped" THEN T \cup {r.of} ELSE T

\* The first report is one that the server may be given now.
LEMMA SoundHead ==
  ASSUME NEW A, NEW S, NEW T, Worlds(A, S, T), NEW q, Stream(q), q # <<>>,
         NEW open, Sound(q, open, A, S, T), NEW r \in Reported, r = Head(q)
  PROVE  /\ r.kind = "start" => r.of \notin S \cup T /\ S \ T = {}
         /\ r.kind = "progress" => r.of \in S \ T
         /\ r.kind = "stopped" => r.of \notin T /\ S \ T \subseteq {r.of}
<1>1. /\ Len(q) \in Nat /\ 1 \in DOMAIN q /\ q[1] = r /\ DOMAIN q = 1 .. Len(q) /\ r # Flush
  BY TailIs, ReportIsNoFlush
<1>2. GoodReport(q, r, open, A, S, T)
  BY <1>1 DEF Sound, GoodReports
<1>3. r.of \in Nat /\ S \subseteq Nat /\ T \subseteq Nat
  BY Parameters DEF Reported, Worlds
<1>4. \A k \in DOMAIN q : k # 1 /\ q[k] # Flush => Follows(r, q[k])
  BY <1>1 DEF Sound, Ordered
<1>5. ASSUME NEW x \in S \ T PROVE x = r.of
  <2>1. x =< r.of /\ x \in Playbacks /\ x # NoPlayback
    BY <1>2, Parameters DEF GoodReport, Worlds
  <2>2. CASE x = open
    <3>1. GoesOn(q, x, A, S, T)
      BY <2>1, <2>2 DEF Sound
    <3>2. QED
      BY <1>1, <1>3, <2>1, <3>1 DEF GoesOn
  <2>3. CASE Stops(q, x)
    <3>1. PICK k \in DOMAIN q : q[k] = Report("stopped", x)
      BY <2>3 DEF Stops
    <3>2. q[k].of = x /\ q[k] # Flush
      BY <3>1 DEF Report, Flush
    <3>3. r.of =< x
      BY <1>1, <1>3, <1>4, <3>2 DEF Follows
    <3>4. QED
      BY <1>3, <2>1, <3>3
  <2>4. QED
    BY <2>2, <2>3 DEF Sound
<1>6. ASSUME r.kind = "start" PROVE r.of \notin S \cup T /\ S \ T = {}
  BY <1>2, <1>5, <1>6 DEF GoodReport
<1>7. ASSUME r.kind = "progress" PROVE r.of \in S \ T
  <2>1. ~Starts(q, r.of)
    <3>1. SUFFICES ASSUME NEW k \in DOMAIN q, q[k] = Report("start", r.of) PROVE FALSE
      BY DEF Starts
    <3>2. q[k].of = r.of /\ q[k].kind = "start" /\ q[k] # Flush
      BY <3>1 DEF Report, Flush
    <3>3. QED
      BY <1>1, <1>4, <1>7, <3>2 DEF Follows
  <2>2. QED
    BY <1>2, <1>7, <2>1 DEF GoodReport
<1>8. ASSUME r.kind = "stopped" PROVE r.of \notin T /\ S \ T \subseteq {r.of}
  BY <1>2, <1>5 DEF GoodReport
<1>9. QED
  BY <1>6, <1>7, <1>8

LEMMA SoundSend ==
  ASSUME NEW A, NEW S, NEW T, Worlds(A, S, T), NEW q, Stream(q), q # <<>>,
         NEW open, Sound(q, open, A, S, T), NEW r \in Reported, r = Head(q)
  PROVE  Sound(Tail(q), open, A, NowStarted(S, r), NowStopped(T, r))
<1> DEFINE w == Tail(q)
           S1 == NowStarted(S, r)
           T1 == NowStopped(T, r)
<1>1. /\ Len(q) \in Nat /\ 1 \in DOMAIN q /\ q[1] = r /\ DOMAIN q = 1 .. Len(q) /\ r # Flush
      /\ DOMAIN w = 1 .. Len(q) - 1 /\ \A i \in DOMAIN w : w[i] = q[i + 1] /\ i + 1 \in DOMAIN q
  BY TailIs, ReportIsNoFlush
<1>2. GoodReport(q, r, open, A, S, T)
  BY <1>1 DEF Sound, GoodReports
<1>3. /\ r.of \in Nat /\ S \subseteq Nat /\ T \subseteq Nat /\ r.of \in A
      /\ S \subseteq A /\ T \subseteq A
  BY <1>2, Parameters DEF Reported, Worlds, Sound, GoodReport
<1>4. \A i \in DOMAIN w : w[i] # Flush => Follows(r, w[i])
  BY <1>1 DEF Sound, Ordered
<1>5. /\ S \subseteq S1 /\ S1 \subseteq S \cup {r.of} /\ (r.kind # "start" => S1 = S)
      /\ T \subseteq T1 /\ T1 \subseteq T \cup {r.of} /\ (r.kind # "stopped" => T1 = T)
      /\ (r.kind = "start" => r.of \in S1) /\ (r.kind = "stopped" => r.of \in T1)
  BY DEF NowStarted, NowStopped
<1> HIDE DEF w, S1, T1
<1>6. ASSUME NEW x, Starts(q, x) PROVE Starts(w, x) \/ (r.kind = "start" /\ r.of = x)
  <2>1. PICK k \in DOMAIN q : q[k] = Report("start", x)
    BY <1>6 DEF Starts
  <2>2. CASE k = 1
    BY <1>1, <2>1, <2>2 DEF Report
  <2>3. CASE k # 1
    <3>1. k - 1 \in DOMAIN w /\ w[k - 1] = q[k]
      BY <1>1, <2>3
    <3>2. QED
      BY <2>1, <3>1 DEF Starts
  <2>4. QED
    BY <2>2, <2>3
<1>7. ASSUME NEW x, Stops(q, x) PROVE Stops(w, x) \/ (r.kind = "stopped" /\ r.of = x)
  <2>1. PICK k \in DOMAIN q : q[k] = Report("stopped", x)
    BY <1>7 DEF Stops
  <2>2. CASE k = 1
    BY <1>1, <2>1, <2>2 DEF Report
  <2>3. CASE k # 1
    <3>1. k - 1 \in DOMAIN w /\ w[k - 1] = q[k]
      BY <1>1, <2>3
    <3>2. QED
      BY <2>1, <3>1 DEF Stops
  <2>4. QED
    BY <2>2, <2>3
<1>8. GoodReports(w, open, A, S1, T1)
  <2>1. SUFFICES ASSUME NEW i \in DOMAIN w, w[i] # Flush
                 PROVE  GoodReport(w, w[i], open, A, S1, T1)
    BY DEF GoodReports
  <2> DEFINE s == w[i]
  <2>2. GoodReport(q, s, open, A, S, T) /\ Follows(r, s)
    BY <1>1, <1>4, <2>1 DEF Sound, GoodReports
  <2> HIDE DEF s
  <2>3. s.of \in A \ T1
    BY <1>5, <2>2 DEF GoodReport, Follows
  <2>4. s.kind = "start" => s.of \notin S1
    BY <1>5, <2>2 DEF GoodReport, Follows
  <2>5. \A p \in S1 \cup T1 : p =< s.of
    BY <1>5, <2>2 DEF GoodReport, Follows
  <2>6. s.kind = "progress" => s.of \in S1 \/ Starts(w, s.of)
    BY <1>5, <1>6, <2>2 DEF GoodReport
  <2>7. s.kind # "stopped" => s.of = open \/ Stops(w, s.of)
    BY <1>7, <2>2 DEF GoodReport, Follows
  <2>8. QED
    BY <2>3, <2>4, <2>5, <2>6, <2>7 DEF GoodReport, s
<1>9. Ordered(w)
  BY <1>1 DEF Sound, Ordered
<1>10. ASSUME NEW x \in S1 \ T1 PROVE x = open \/ Stops(w, x)
  <2>1. CASE x \in S
    BY <1>5, <1>7, <1>10, <2>1 DEF Sound
  <2>2. CASE r.kind = "start" /\ x = r.of
    BY <1>2, <1>7, <2>2 DEF GoodReport
  <2>3. QED
    BY <1>5, <1>10, <2>1, <2>2
<1>11. ASSUME open # NoPlayback PROVE GoesOn(w, open, A, S1, T1)
  <2>1. GoesOn(q, open, A, S, T)
    BY <1>11 DEF Sound
  <2>2. r.of =< open /\ r # Report("stopped", open)
    BY <1>1, <2>1 DEF GoesOn
  <2>3. ~(r.kind = "stopped" /\ r.of = open)
    BY <2>2 DEF Reported, Report
  <2>4. open \in A \ T1
    BY <1>5, <2>1, <2>3 DEF GoesOn
  <2>5. open \in S1 \/ Starts(w, open)
    BY <1>5, <1>6, <2>1 DEF GoesOn
  <2>6. \A p \in S1 \cup T1 : p =< open
    BY <1>5, <2>1, <2>2 DEF GoesOn
  <2>7. QED
    BY <1>1, <2>1, <2>4, <2>5, <2>6 DEF GoesOn
<1>12. S1 \cup T1 \subseteq A
  BY <1>3, <1>5
<1>13. QED
  BY <1>8, <1>9, <1>10, <1>11, <1>12 DEF Sound, w, S1, T1

\* Nothing is told of a playback by what is told of earlier ones.
LEMMA UnheardSend ==
  ASSUME NEW A, NEW S, NEW T, NEW q, Stream(q), q # <<>>, NEW p, Unheard(q, p, A, S, T),
         NEW r \in Reported, r = Head(q)
  PROVE  Unheard(Tail(q), p, A, NowStarted(S, r), NowStopped(T, r))
<1>1. r.of < p
  BY TailIs, ReportIsNoFlush DEF Unheard
<1>2. \A i \in DOMAIN Tail(q) : Tail(q)[i] # Flush => Tail(q)[i].of < p
  BY TailIs DEF Unheard
<1>3. QED
  BY <1>1, <1>2 DEF Unheard, NowStarted, NowStopped

LEMMA UnheardWithout ==
  ASSUME NEW A, NEW S, NEW T, NEW q, Stream(q), NEW p, Unheard(q, p, A, S, T), NEW i \in DOMAIN q
  PROVE  Unheard(Without(q, i), p, A, S, T)
<1>1. /\ Len(Without(q, i)) = Len(q) - 1 /\ Stream(Without(q, i))
      /\ \A n \in 1 .. Len(Without(q, i)) : Without(q, i)[n] = q[IF n < i THEN n ELSE n + 1]
  BY WithoutIs DEF Stream
<1>2. \A n \in DOMAIN Without(q, i) :
        (IF n < i THEN n ELSE n + 1) \in DOMAIN q /\ Without(q, i)[n] = q[IF n < i THEN n ELSE n + 1]
  BY <1>1 DEF Stream
<1>3. QED
  BY <1>2 DEF Unheard

-------------------------------------------------------------------------------
(* Everything the server is told stays in order *)

Pending == batch \o rx

Playing == IF ctl.phase = "playing" THEN ctl.load ELSE NoPlayback

\* A playback is heard of only when it has been asked for and mpv has its file, so nothing
\* is on its way about the one that is being loaded or about a later one.
ReportsInv ==
  /\ Sound(Pending, Playing, asked, started, stopped)
  /\ Playing \notin Silent
  /\ \A a \in asked : \A u \in Playbacks \ asked : a < u
  /\ ctl.phase = "loading" => Unheard(Pending, ctl.load, asked, started, stopped)
  /\ pc = "loadfile" =>
       ctl.phase = "idle" /\ Unheard(Pending, incoming.load, asked, started, stopped)

LEMMA PendingType ==
  TypeOK => /\ batch \in Seq(Reported) /\ rx \in Seq(Reported \cup {Flush}) /\ Stream(Pending)
            /\ Worlds(asked, started, stopped) /\ ctl \in Ctl /\ CtlOK(ctl)
            /\ OneProgressEach(batch)
<1>1. SUFFICES ASSUME TypeOK
               PROVE  /\ batch \in Seq(Reported) /\ rx \in Seq(Reported \cup {Flush}) /\ Stream(Pending)
                      /\ Worlds(asked, started, stopped) /\ ctl \in Ctl /\ CtlOK(ctl)
                      /\ OneProgressEach(batch)
  OBVIOUS
<1>2. ReporterType /\ CtlOK(ctl) /\ asked \subseteq Playbacks
  BY <1>1, TypeParts DEF Machine, OtherType
<1>3. batch \in Seq(Reported) /\ rx \in Seq(Reported \cup {Flush}) /\ OneProgressEach(batch)
  BY <1>2 DEF ReporterType, Reported
<1>4. Stream(Pending)
  BY <1>3 DEF Stream, Pending
<1>5. QED
  BY <1>2, <1>3, <1>4 DEF Worlds, ReporterType, CtlOK

\* Whether it is reported or not, a playback that is given up leaves what is on its way sound.
LEMMA SoundIdle ==
  ASSUME TypeOK, ReportsInv, NEW q,
         \/ q = Pending /\ ctl.phase # "playing"
         \/ q = Pending \o About(ctl, "stopped") /\ ctl.phase # "idle"
  PROVE  Sound(q, NoPlayback, asked, started, stopped) /\ Stream(q)
<1>1. Stream(Pending) /\ Worlds(asked, started, stopped) /\ CtlOK(ctl)
  BY PendingType
<1>2. CASE q = Pending /\ ctl.phase # "playing"
  BY <1>1, <1>2 DEF ReportsInv, Playing
<1>3. CASE q = Pending \o About(ctl, "stopped") /\ ctl.phase # "idle"
  <2>1. CASE ctl.load \in Silent
    <3>1. q = Pending /\ ctl.phase # "playing"
      BY <1>1, <1>3, <2>1 DEF About, ReportsInv, Playing, Stream
    <3>2. QED
      BY <1>2, <3>1
  <2>2. CASE ctl.load \notin Silent
    <3>1. ctl.load \in Playbacks /\ ctl.phase \in {"loading", "playing"}
      BY <1>1, <1>3 DEF CtlOK, Ctl
    <3>2. Report("stopped", ctl.load) \in Reported
      BY <3>1 DEF Report, Reported, Kinds
    <3>3. q = Append(Pending, Report("stopped", ctl.load)) /\ Stream(q)
      BY <1>1, <1>3, <2>2, <3>2 DEF About, Stream
    <3>4. \/ Playing = ctl.load
          \/ Playing = NoPlayback /\ Unheard(Pending, ctl.load, asked, started, stopped)
      BY <3>1 DEF Playing, ReportsInv
    <3>5. QED
      BY <1>1, <3>1, <3>3, <3>4, SoundStop DEF ReportsInv
  <2>3. QED
    BY <2>1, <2>2
<1>4. QED
  BY <1>2, <1>3

LEMMA PendingPosts ==
  ASSUME TypeOK, ReporterRest
  PROVE  /\ started' = started /\ stopped' = stopped
         /\ rx' = rx => Pending' = Pending
         /\ \A m \in Seq(Reported) :
              /\ rx' = rx \o m => Pending' = Pending \o m
              /\ rx' = Append(rx \o m, Flush) => Pending' = Append(Pending \o m, Flush)
         /\ rx' = Append(rx, Flush) => Pending' = Append(Pending, Flush)
<1>1. batch \in Seq(Reported) /\ rx \in Seq(Reported \cup {Flush}) /\ batch' = batch
  BY PendingType DEF ReporterRest
<1>2. ASSUME NEW m \in Seq(Reported), rx' = rx \o m PROVE Pending' = Pending \o m
  BY <1>1, <1>2 DEF Pending
<1>3. ASSUME NEW m \in Seq(Reported), rx' = Append(rx \o m, Flush)
      PROVE  Pending' = Append(Pending \o m, Flush)
  BY <1>1, <1>3, SMTT(30) DEF Pending
<1>4. rx' = Append(rx, Flush) => Pending' = Append(Pending, Flush)
  BY <1>1 DEF Pending
<1>5. rx' = rx => Pending' = Pending
  BY <1>1 DEF Pending
<1>6. QED
  BY <1>2, <1>3, <1>4, <1>5 DEF ReporterRest, told

LEMMA AboutIsReported ==
  ASSUME TypeOK, ctl.phase # "idle", NEW kind \in Kinds PROVE About(ctl, kind) \in Seq(Reported)
BY PendingType, AboutType

\* What a step that gives the playback up or leaves it alone keeps.
LEMMA SoundContinues ==
  ASSUME TypeOK, ReportsInv, Continues, ReporterRest
  PROVE  /\ Sound(Pending', Playing', asked, started', stopped') /\ Playing' \notin Silent
         /\ ctl'.phase = "loading" => Unheard(Pending', ctl'.load, asked, started', stopped')
<1>1. CASE Stays
  <2>1. Pending' = Pending /\ Playing' = Playing /\ started' = started /\ stopped' = stopped
    BY <1>1, PendingPosts DEF Stays, Playing
  <2>2. ctl'.phase = ctl.phase /\ ctl'.load = ctl.load
    BY <1>1 DEF Stays
  <2>3. QED
    BY <2>1, <2>2 DEF ReportsInv
<1>2. CASE Idles
  <2>1. Playing' = NoPlayback /\ NoPlayback \notin Silent /\ ctl'.phase = "idle"
    BY <1>2, Parameters DEF Idles, Playing
  <2>2. \/ Pending' = Pending /\ ctl.phase # "playing"
        \/ Pending' = Pending \o About(ctl, "stopped") /\ ctl.phase # "idle"
    BY <1>2, PendingPosts, AboutIsReported DEF Idles, Kinds
  <2>3. Sound(Pending', NoPlayback, asked, started, stopped)
    BY <2>2, SoundIdle
  <2>4. QED
    BY <2>1, <2>3, PendingPosts
<1>3. QED
  BY <1>1, <1>2 DEF Continues

LEMMA TurnsSound ==
  ASSUME TypeOK, ReportsInv, Turns, ReporterRest PROVE ReportsInv'
<1>1. Continues /\ asked' = asked
  BY DEF Turns, Continues
<1>2. /\ Sound(Pending', Playing', asked, started', stopped') /\ Playing' \notin Silent
      /\ ctl'.phase = "loading" => Unheard(Pending', ctl'.load, asked, started', stopped')
  BY <1>1, SoundContinues
<1>3. ASSUME pc' = "loadfile"
      PROVE  ctl'.phase = "idle" /\ Unheard(Pending', incoming'.load, asked, started', stopped')
  <2>1. pc = "loadfile" /\ incoming'.load = incoming.load /\ Stays
    BY <1>3 DEF Turns, PcStays
  <2>2. Pending' = Pending /\ started' = started /\ stopped' = stopped
    BY <2>1, PendingPosts DEF Stays
  <2>3. QED
    BY <2>1, <2>2 DEF ReportsInv, Stays
<1>4. QED
  BY <1>1, <1>2, <1>3 DEF ReportsInv

LEMMA AsksSound ==
  ASSUME TypeOK, ReportsInv, NEW p \in Playbacks, Asks(p), ReporterRest PROVE ReportsInv'
<1>1. /\ pc = "ready" /\ ctl.phase # "loading" /\ p \in Playbacks \ asked
      /\ \A q \in Playbacks \ asked : p =< q
      /\ asked' = asked \cup {p} /\ Continues
  BY DEF Asks, Continues
<1>2. Sound(Pending', Playing', asked, started', stopped') /\ Playing' \notin Silent
  BY <1>1, SoundContinues
<1>3. Sound(Pending', Playing', asked', started', stopped')
  BY <1>1, <1>2, SoundAsk
<1>4. \A a \in asked' : \A u \in Playbacks \ asked' : a < u
  BY <1>1, Parameters DEF ReportsInv
<1>5. ctl'.phase # "loading"
  BY <1>1 DEF Continues, Stays, Idles
<1>6. ASSUME pc' = "loadfile"
      PROVE  ctl'.phase = "idle" /\ Unheard(Pending', incoming'.load, asked', started', stopped')
  <2>1. ctl'.phase = "idle" /\ incoming'.load = p
    BY <1>1, <1>6 DEF Asks, PcStays, Idles
  <2>2. \A i \in DOMAIN Pending' : Pending'[i] # Flush => Pending'[i].of \in asked
    BY <1>2 DEF Sound, GoodReports, GoodReport
  <2>3. started' \cup stopped' \subseteq asked
    BY <1>2 DEF Sound
  <2>4. \A a \in asked : a < p
    BY <1>1 DEF ReportsInv
  <2>5. QED
    BY <1>1, <2>1, <2>2, <2>3, <2>4 DEF Unheard
<1>7. QED
  BY <1>2, <1>3, <1>4, <1>5, <1>6 DEF ReportsInv

LEMMA ActivatesSound ==
  ASSUME TypeOK, ReportsInv, Activates, ReporterRest PROVE ReportsInv'
<1>1. /\ pc' = "ready" /\ asked' = asked /\ ctl.phase = "loading"
      /\ Playing = NoPlayback /\ Unheard(Pending, ctl.load, asked, started, stopped)
  BY DEF Activates, PcStays, Playing, ReportsInv
<1>2. /\ Stream(Pending) /\ Worlds(asked, started, stopped)
      /\ ctl.load \in Playbacks /\ started' = started /\ stopped' = stopped
  BY <1>1, PendingType, PendingPosts DEF CtlOK, Ctl
<1>3. CASE ctl.load \in Silent
  <2>1. Pending' = Pending /\ Playing' = NoPlayback /\ ctl'.phase = "idle"
    BY <1>3, PendingPosts DEF Activates, Playing
  <2>2. QED
    BY <1>1, <1>2, <2>1, Parameters DEF ReportsInv
<1>4. CASE ctl.load \notin Silent
  <2> DEFINE r == Report("start", ctl.load)
  <2>1. r \in Reported /\ r.kind = "start" /\ r.of = ctl.load /\ <<r>> \in Seq(Reported)
    BY <1>2 DEF Report, Reported, Kinds
  <2>2. Pending' = Append(Pending, r) /\ Playing' = ctl.load /\ ctl'.phase = "playing"
    <3>1. rx' = rx \o <<r>> /\ Playing' = ctl.load /\ ctl'.phase = "playing"
      BY <1>4 DEF Activates, Playing
    <3> HIDE DEF r
    <3>2. Pending' = Pending \o <<r>>
      BY <2>1, <3>1, PendingPosts
    <3>3. QED
      BY <1>2, <2>1, <3>1, <3>2 DEF Stream
  <2>3. ctl.load \notin stopped
    <3>1. ctl.load \in Nat
      BY <1>2, Parameters
    <3>2. QED
      BY <1>1, <3>1 DEF Unheard
  <2> HIDE DEF r
  <2>4. Sound(Pending', Playing', asked, started, stopped)
    BY <1>1, <1>2, <2>1, <2>2, <2>3, SoundSay DEF ReportsInv
  <2>5. QED
    BY <1>1, <1>2, <1>4, <2>2, <2>4 DEF ReportsInv
<1>5. QED
  BY <1>3, <1>4

LEMMA ProgressesSound ==
  ASSUME TypeOK, ReportsInv, Progresses, ReporterRest PROVE ReportsInv'
<1>1. /\ pc' = "ready" /\ asked' = asked /\ ctl.phase = "playing" /\ ctl' = ctl
      /\ Playing = ctl.load /\ Playing' = ctl.load /\ ctl.load \notin Silent
  BY DEF Progresses, PcStays, Playing, ReportsInv
<1>2. /\ Stream(Pending) /\ Worlds(asked, started, stopped)
      /\ ctl.load \in Playbacks /\ started' = started /\ stopped' = stopped
  BY <1>1, PendingType, PendingPosts DEF CtlOK, Ctl
<1> DEFINE r == Report("progress", ctl.load)
<1>3. r \in Reported /\ r.kind = "progress" /\ r.of = ctl.load /\ <<r>> \in Seq(Reported)
  BY <1>2 DEF Report, Reported, Kinds
<1>4. About(ctl, "progress") = <<r>>
  BY <1>1 DEF About
<1> HIDE DEF r
<1>5. Pending' = Append(Pending, r)
  <2>1. rx' = rx \o <<r>>
    BY <1>4 DEF Progresses
  <2>2. Pending' = Pending \o <<r>>
    BY <1>3, <2>1, PendingPosts
  <2>3. QED
    BY <1>2, <1>3, <2>2 DEF Stream
<1>6. Sound(Pending', Playing', asked, started, stopped)
  BY <1>1, <1>2, <1>3, <1>5, SoundSay DEF ReportsInv
<1>7. QED
  BY <1>1, <1>2, <1>6 DEF ReportsInv

LEMMA ShutsSound ==
  ASSUME TypeOK, ReportsInv, Shuts, ReporterRest PROVE ReportsInv'
<1> DEFINE q == IF rx' = Append(rx, Flush) /\ ctl.phase # "playing" THEN Pending
                ELSE Pending \o About(ctl, "stopped")
<1>1. /\ Pending' = Append(q, Flush)
      /\ \/ q = Pending /\ ctl.phase # "playing"
         \/ q = Pending \o About(ctl, "stopped") /\ ctl.phase # "idle"
  BY PendingPosts, AboutIsReported DEF Shuts, Kinds
<1> HIDE DEF q
<1>2. Sound(q, NoPlayback, asked, started, stopped) /\ Stream(q)
  BY <1>1, SoundIdle
<1>3. Sound(Pending', NoPlayback, asked, started, stopped)
  BY <1>1, <1>2, SoundFlush
<1>4. /\ Playing' = NoPlayback /\ NoPlayback \notin Silent /\ ctl'.phase = "idle"
      /\ pc' = "flushing" /\ asked' = asked
  BY Parameters DEF Shuts, Playing
<1>5. QED
  BY <1>3, <1>4, PendingPosts DEF ReportsInv

LEMMA AcceptsSound ==
  ASSUME TypeOK, ReportsInv, Accepts, ReporterRest PROVE ReportsInv'
<1>1. /\ pc = "loadfile" /\ pc' = "ready" /\ asked' = asked /\ Pending' = Pending
      /\ started' = started /\ stopped' = stopped
      /\ ctl'.phase = "loading" /\ ctl'.load = incoming.load
  BY PendingPosts DEF Accepts
<1>2. Playing = NoPlayback /\ Playing' = NoPlayback
  BY <1>1 DEF ReportsInv, Playing
<1>3. QED
  BY <1>1, <1>2 DEF ReportsInv

LEMMA ConcatIs ==
  ASSUME NEW X, NEW q \in Seq(X), NEW w \in Seq(X)
  PROVE  /\ q \o w \in Seq(X) /\ Len(q \o w) = Len(q) + Len(w) /\ Len(q) \in Nat /\ Len(w) \in Nat
         /\ DOMAIN (q \o w) = 1 .. Len(q) + Len(w)
OBVIOUS

LEMMA SameSequence ==
  ASSUME NEW X, NEW q \in Seq(X), NEW w \in Seq(X), Len(q) = Len(w),
         \A i \in 1 .. Len(q) : q[i] = w[i]
  PROVE  q = w
OBVIOUS

\* Taking a report leaves the stream as it is, or without a progress report.
LEMMA TakeReport ==
  ASSUME TypeOK, Take, Head(rx) # Flush
  PROVE  \/ Pending' = Pending
         \/ \E i \in DOMAIN Pending :
              Pending[i].kind = "progress" /\ Pending' = Without(Pending, i)
<1> DEFINE h == Head(rx)
<1>1. batch \in Seq(Reported) /\ rx \in Seq(Reported \cup {Flush})
  BY PendingType
<1>2. /\ rx # <<>> /\ rx' = Tail(rx) /\ h \in Reported /\ batch' = Enqueue(batch, h)
      /\ rx' \in Seq(Reported \cup {Flush})
  BY <1>1 DEF Take
<1>3. rx = <<h>> \o Tail(rx)
  BY <1>1, <1>2
<1> HIDE DEF h
<1>4. CASE Retained(batch, h) = batch
  <2>1. batch' = Append(batch, h)
    BY <1>2, <1>4 DEF Enqueue
  <2>2. Append(batch, h) \o Tail(rx) = batch \o (<<h>> \o Tail(rx))
    BY <1>1, <1>2
  <2>3. QED
    BY <1>2, <1>3, <2>1, <2>2 DEF Pending
<1>5. ASSUME NEW i \in Superseded(batch, h), Retained(batch, h) = Without(batch, i)
      PROVE  \E k \in DOMAIN Pending :
               Pending[k].kind = "progress" /\ Pending' = Without(Pending, k)
  <2> DEFINE rest == Without(batch, i)
  <2>1. i \in DOMAIN batch /\ batch[i].kind = "progress"
    BY <1>5 DEF Superseded, Supersedes
  <2>2. /\ rest \in Seq(Reported) /\ Len(rest) = Len(batch) - 1
        /\ \A n \in 1 .. Len(rest) : rest[n] = batch[IF n < i THEN n ELSE n + 1]
    BY <1>1, <2>1, WithoutIs
  <2> HIDE DEF rest
  <2>3. Pending' = Append(rest, h) \o Tail(rx)
    BY <1>2, <1>5 DEF Enqueue, Pending, rest
  <2>4. /\ Pending \in Seq(Reported \cup {Flush}) /\ Len(Pending) = Len(batch) + Len(rx)
        /\ i \in DOMAIN Pending /\ Pending[i] = batch[i]
        /\ \A n \in 1 .. Len(batch) + Len(rx) :
             Pending[n] = IF n <= Len(batch) THEN batch[n] ELSE rx[n - Len(batch)]
    BY <1>1, <2>1 DEF Pending
  <2> DEFINE w == Without(Pending, i)
  <2>5. /\ w \in Seq(Reported \cup {Flush}) /\ Len(w) = Len(Pending) - 1
        /\ \A n \in 1 .. Len(w) : w[n] = Pending[IF n < i THEN n ELSE n + 1]
    BY <2>4, WithoutIs
  <2> HIDE DEF w
  <2>6. /\ Len(rx) \in Nat /\ Len(rx) >= 1 /\ Len(batch) \in Nat /\ i \in 1 .. Len(batch)
        /\ Len(Tail(rx)) = Len(rx) - 1 /\ rx[1] = h
        /\ \A n \in 1 .. Len(rx) - 1 : Tail(rx)[n] = rx[n + 1]
    BY <1>1, <1>2, <2>1 DEF h
  <2>7. /\ Pending' \in Seq(Reported \cup {Flush}) /\ Len(Pending') = Len(w)
    <3>1. Append(rest, h) \in Seq(Reported \cup {Flush}) /\ Len(Append(rest, h)) = Len(batch)
      BY <1>2, <2>2, <2>6
    <3>2. Tail(rx) \in Seq(Reported \cup {Flush})
      BY <1>2
    <3>3. /\ Pending' \in Seq(Reported \cup {Flush})
          /\ Len(Pending') = Len(batch) + (Len(rx) - 1)
      <4>1. /\ Append(rest, h) \o Tail(rx) \in Seq(Reported \cup {Flush})
            /\ Len(Append(rest, h) \o Tail(rx)) = Len(Append(rest, h)) + Len(Tail(rx))
        BY <3>1, <3>2, ConcatIs
      <4>2. QED
        BY <2>3, <2>6, <3>1, <4>1
    <3>4. Len(w) = Len(batch) + Len(rx) - 1
      BY <2>4, <2>5
    <3>5. QED
      BY <2>6, <3>3, <3>4
  <2>8. ASSUME NEW n \in 1 .. Len(w) PROVE Pending'[n] = w[n]
    <3>1. w[n] = Pending[IF n < i THEN n ELSE n + 1] /\ n \in 1 .. Len(batch) + Len(rx) - 1
      BY <2>4, <2>5, <2>6
    <3>2. CASE n < Len(batch)
      <4>1. Pending'[n] = rest[n]
        BY <1>2, <2>2, <2>3, <2>6, <3>1, <3>2
      <4>2. QED
        BY <2>2, <2>4, <2>6, <3>1, <3>2, <4>1
    <3>3. CASE n = Len(batch)
      <4>1. Pending'[n] = h
        BY <1>2, <2>2, <2>3, <2>6, <3>1, <3>3
      <4>2. QED
        BY <2>4, <2>6, <3>1, <3>3, <4>1
    <3>4. CASE n > Len(batch)
      <4>1. Pending'[n] = Tail(rx)[n - Len(batch)]
        BY <1>2, <2>2, <2>3, <2>6, <3>1, <3>4
      <4>2. QED
        BY <2>4, <2>6, <3>1, <3>4, <4>1
    <3>5. QED
      BY <2>6, <3>1, <3>2, <3>3, <3>4
  <2>9. Pending' = w
    BY <2>5, <2>7, <2>8, SameSequence
  <2>10. QED
    BY <2>1, <2>4, <2>9 DEF w
<1>6. QED
  BY <1>4, <1>5, RetainedIs

LEMMA WithoutSound ==
  ASSUME TypeOK, ReportsInv, UNCHANGED <<ctl, pc, incoming, asked, told>>,
         NEW i \in DOMAIN Pending, Pending[i].kind \notin {"start", "stopped"},
         Pending' = Without(Pending, i)
  PROVE  ReportsInv'
<1>1. Stream(Pending)
  BY PendingType
<1>2. /\ Playing' = Playing /\ asked' = asked /\ started' = started /\ stopped' = stopped
      /\ ctl' = ctl /\ pc' = pc /\ incoming' = incoming
  BY DEF Playing, told
<1>3. Sound(Pending', Playing, asked, started, stopped)
  BY <1>1, SoundWithout DEF ReportsInv
<1>4. \A p : Unheard(Pending, p, asked, started, stopped)
               => Unheard(Pending', p, asked, started, stopped)
  BY <1>1, UnheardWithout
<1>5. QED
  BY <1>2, <1>3, <1>4 DEF ReportsInv

LEMMA SendsHead ==
  ASSUME TypeOK, Send
  PROVE  /\ Pending # <<>> /\ Head(batch) = Head(Pending) /\ Head(batch) \in Reported
         /\ Pending' = Tail(Pending) /\ last' = Head(batch)
         /\ started' = NowStarted(started, Head(batch))
         /\ stopped' = NowStopped(stopped, Head(batch))
<1>1. batch \in Seq(Reported) /\ rx \in Seq(Reported \cup {Flush})
  BY PendingType
<1>2. batch # <<>> /\ batch' = Tail(batch) /\ rx' = rx
  BY DEF Send
<1>3. Pending # <<>> /\ Head(batch) = Head(Pending) /\ Head(batch) \in Reported
  BY <1>1, <1>2 DEF Pending
<1>4. Tail(batch) \o rx = Tail(batch \o rx)
  <2>1. Tail(batch) \in Seq(Reported \cup {Flush}) /\ Tail(batch \o rx) \in Seq(Reported \cup {Flush})
    BY <1>1, <1>2
  <2>2. Tail(batch) \o rx \in Seq(Reported \cup {Flush})
    BY <1>1, <2>1
  <2>3. Len(Tail(batch) \o rx) = Len(Tail(batch \o rx))
    BY <1>1, <1>2
  <2>4. \A i \in 1 .. Len(Tail(batch) \o rx) : (Tail(batch) \o rx)[i] = Tail(batch \o rx)[i]
    BY <1>1, <1>2
  <2>5. QED
    BY <2>1, <2>2, <2>3, <2>4, SameSequence
<1>5. QED
  BY <1>2, <1>3, <1>4 DEF Pending, Send, NowStarted, NowStopped

LEMMA ReporterSound ==
  ASSUME TypeOK, FlushInv, ReportsInv, ReporterRuns PROVE ReportsInv'
<1>1. UNCHANGED <<ctl, pc, incoming, asked>> /\ ReporterStep
  BY DEF ReporterRuns, env
<1>2. /\ Stream(Pending) /\ Worlds(asked, started, stopped)
      /\ batch \in Seq(Reported) /\ rx \in Seq(Reported \cup {Flush})
  BY PendingType
<1>3. CASE Take /\ Head(rx) # Flush
  <2>1. UNCHANGED told
    BY <1>3 DEF Take
  <2>2. CASE Pending' = Pending
    BY <1>1, <2>1, <2>2 DEF ReportsInv, Playing, told
  <2>3. ASSUME NEW i \in DOMAIN Pending, Pending[i].kind = "progress", Pending' = Without(Pending, i)
        PROVE  ReportsInv'
    BY <1>1, <2>1, <2>3, WithoutSound
  <2>4. QED
    BY <1>3, <2>2, <2>3, TakeReport
<1>4. CASE Take /\ Head(rx) = Flush
  <2>1. rx # <<>> /\ rx[1] = Flush /\ Len(rx) = 1 /\ rx' = <<>> /\ batch' = batch /\ UNCHANGED told
    <3>1. rx # <<>> /\ rx' = Tail(rx) /\ Head(rx) = Flush /\ batch' = batch /\ UNCHANGED told
      BY <1>4 DEF Take
    <3>2. 1 \in DOMAIN rx /\ rx[1] = Flush
      BY <1>2, <3>1
    <3>3. Len(rx) = 1
      BY <3>2 DEF FlushInv
    <3>4. QED
      BY <1>2, <3>1, <3>2, <3>3
  <2> DEFINE i == Len(batch) + 1
  <2>2. /\ i \in DOMAIN Pending /\ Pending[i] = Flush /\ Len(Pending) = Len(batch) + 1
        /\ \A n \in 1 .. Len(batch) : Pending[n] = batch[n]
    <3>1. Len(batch) \in Nat /\ Len(Pending) = Len(batch) + 1 /\ DOMAIN Pending = 1 .. Len(batch) + 1
      <4>1. batch \in Seq(Reported \cup {Flush})
        BY <1>2
      <4>2. /\ Len(batch \o rx) = Len(batch) + Len(rx) /\ Len(batch) \in Nat
            /\ DOMAIN (batch \o rx) = 1 .. Len(batch) + Len(rx)
        BY <1>2, <4>1, ConcatIs
      <4>3. QED
        BY <2>1, <4>2 DEF Pending
    <3>2. Pending[Len(batch) + 1] = rx[1]
      BY <1>2, <2>1 DEF Pending
    <3>3. \A n \in 1 .. Len(batch) : Pending[n] = batch[n]
      BY <1>2, <2>1 DEF Pending
    <3>4. QED
      BY <2>1, <3>1, <3>2, <3>3
  <2>3. /\ Without(Pending, i) \in Seq(Reported \cup {Flush}) /\ Len(Without(Pending, i)) = Len(batch)
        /\ \A n \in 1 .. Len(batch) : Without(Pending, i)[n] = batch[n]
    <3>1. Pending \in Seq(Reported \cup {Flush}) /\ Len(batch) \in Nat
      BY <1>2 DEF Stream
    <3> HIDE DEF i
    <3>2. /\ Without(Pending, i) \in Seq(Reported \cup {Flush})
          /\ Len(Without(Pending, i)) = Len(Pending) - 1
          /\ \A n \in 1 .. Len(Without(Pending, i)) :
               Without(Pending, i)[n] = Pending[IF n < i THEN n ELSE n + 1]
      BY <2>2, <3>1, WithoutIs
    <3> USE DEF i
    <3>3. QED
      BY <2>2, <3>1, <3>2
  <2>4. Pending' = batch /\ batch \in Seq(Reported \cup {Flush})
    BY <1>2, <2>1 DEF Pending
  <2>5. Pending' = Without(Pending, i)
    BY <2>3, <2>4, SameSequence
  <2>6. Pending[i].kind \notin {"start", "stopped"}
    BY <2>2 DEF Flush, Report
  <2>7. QED
    BY <1>1, <2>1, <2>2, <2>5, <2>6, WithoutSound
<1>5. CASE TakenAll \/ BatchEnds
  BY <1>1, <1>5 DEF TakenAll, BatchEnds, ReportsInv, Pending, Playing, told
<1>6. CASE Send
  <2> DEFINE r == Head(batch)
  <2>1. /\ Pending # <<>> /\ r = Head(Pending) /\ r \in Reported /\ Pending' = Tail(Pending)
        /\ started' = NowStarted(started, r) /\ stopped' = NowStopped(stopped, r)
    BY <1>6, SendsHead
  <2> HIDE DEF r
  <2>2. Sound(Pending', Playing, asked, started', stopped')
    BY <1>2, <2>1, SoundSend DEF ReportsInv
  <2>3. \A p : Unheard(Pending, p, asked, started, stopped)
                 => Unheard(Pending', p, asked, started', stopped')
    BY <1>2, <2>1, UnheardSend
  <2>4. Playing' = Playing /\ asked' = asked /\ ctl' = ctl /\ pc' = pc /\ incoming' = incoming
    BY <1>1 DEF Playing
  <2>5. QED
    BY <2>2, <2>3, <2>4 DEF ReportsInv
<1>7. QED
  BY <1>1, <1>3, <1>4, <1>5, <1>6 DEF ReporterStep

LEMMA ReportsStep ==
  ASSUME TypeOK, FlushInv, ReportsInv, [Next]_vars PROVE ReportsInv'
BY StepShape, TurnsSound, AsksSound, AcceptsSound, ActivatesSound, ProgressesSound, ShutsSound,
   ReporterSound DEF ControllerTurn

-------------------------------------------------------------------------------
(* The promise to the server is kept *)

PlayerInv == TypeOK /\ Incoming /\ FlushInv /\ ReportsInv

LEMMA PlayerInvHolds == Spec => []PlayerInv
<1>1. Init => PlayerInv
  <2>1. SUFFICES ASSUME Init PROVE FlushInv /\ ReportsInv
    BY InitType DEF PlayerInv
  <2>2. /\ rx = <<>> /\ batch = <<>> /\ flush = "none" /\ started = {} /\ stopped = {} /\ asked = {}
        /\ pc = "ready" /\ ctl.phase = "idle"
    BY <2>1 DEF Init, ReporterInit, Idle
  <2>3. FlushInv
    BY <2>2 DEF FlushInv, NoFlush
  <2>4. Pending = <<>> /\ DOMAIN Pending = {} /\ Playing = NoPlayback
    BY <2>2 DEF Pending, Playing
  <2>5. Sound(Pending, Playing, asked, started, stopped)
    BY <2>2, <2>4 DEF Sound, GoodReports, Ordered
  <2>6. QED
    BY <2>2, <2>3, <2>4, <2>5, Parameters DEF ReportsInv
<1>2. PlayerInv /\ [Next]_vars => PlayerInv'
  BY TypeStep, IncomingStep, FlushStep, ReportsStep DEF PlayerInv
<1>3. QED
  BY <1>1, <1>2, PTL DEF Spec

\* Only the reporter tells the server anything, and what it tells may be told now.
LEMMA SendRefines ==
  ASSUME PlayerInv, [Next]_vars PROVE [Reports!Next]_(Reports!session)
<1>1. TypeOK /\ FlushInv /\ ReportsInv
  BY DEF PlayerInv
<1>2. CASE Send
  <2> DEFINE r == Head(batch)
  <2>1. /\ Pending # <<>> /\ r = Head(Pending) /\ r \in Reported /\ last' = r
        /\ started' = NowStarted(started, r) /\ stopped' = NowStopped(stopped, r)
    BY <1>1, <1>2, SendsHead
  <2> HIDE DEF r
  <2>2. Stream(Pending) /\ Worlds(asked, started, stopped)
    BY <1>1, PendingType
  <2>3. /\ r.kind = "start" => r.of \notin started \cup stopped /\ started \ stopped = {}
        /\ r.kind = "progress" => r.of \in started \ stopped
        /\ r.kind = "stopped" => r.of \notin stopped /\ started \ stopped \subseteq {r.of}
    BY <1>1, <2>1, <2>2, SoundHead DEF ReportsInv
  <2>4. r.of \in Playbacks /\ r.kind \in Kinds /\ r = [kind |-> r.kind, of |-> r.of]
    BY <2>1 DEF Reported
  <2>5. CASE r.kind = "start"
    BY <2>1, <2>3, <2>4, <2>5
    DEF NowStarted, NowStopped, Reports!Next, Reports!Start, Reports!Open
  <2>6. CASE r.kind = "progress"
    BY <2>1, <2>3, <2>4, <2>6
    DEF NowStarted, NowStopped, Reports!Next, Reports!Progress, Reports!Open
  <2>7. CASE r.kind = "stopped"
    BY <2>1, <2>3, <2>4, <2>7
    DEF NowStarted, NowStopped, Reports!Next, Reports!Stop, Reports!Open
  <2>8. QED
    BY <2>4, <2>5, <2>6, <2>7 DEF Kinds
<1>3. CASE ~Send
  <2>1. UNCHANGED told
    BY <1>1, <1>3, StepShape DEF ReporterRest, ReporterRuns, ReporterStep, Take, TakenAll, BatchEnds, told
  <2>2. QED
    BY <2>1 DEF told, Reports!session
<1>4. QED
  BY <1>2, <1>3

\* Whatever mpv, the user and the clock do, the server is told of playbacks in order: no
\* playback is started or reported on while another one is open, none is stopped twice,
\* and nothing is told of a playback that is over.
THEOREM ServerIsToldInOrder == Spec => SessionsInOrder
<1>1. Init => Reports!Init
  BY DEF Init, ReporterInit, Reports!Init, Reports!Nothing, Report
<1>2. PlayerInv /\ [Next]_vars => [Reports!Next]_(Reports!session)
  BY SendRefines
<1>3. QED
  BY <1>1, <1>2, PlayerInvHolds, PTL DEF Spec, SessionsInOrder, Reports!Spec

-------------------------------------------------------------------------------
(* What mpv has said and the controller has not heard yet.  es are the events on    *)
(* their way, m is the mpv that the controller holds.                               *)

Obeys(m) == Usable(m) /\ m.heard

\* An event comes from a session that was started, and the end of the session that counts
\* as current is on its way only if that mpv is dead or its connection closed.
EventOK(e, m, next) ==
  /\ e.session \in 1 .. next - 1
  /\ e.kind \in {"loaded", "end"} => e.of \in Playbacks
  /\ e.kind = "loaded" => e.reason = "none"
  /\ e.session = m.session /\ e.kind \in {"shutdown", "gone"} => ~(m.alive /\ m.heard)

EventsOK(es, m, next) == \A i \in DOMAIN es : EventOK(es[i], m, next)

EndsAfter(es, s, n, p) ==
  \E j \in DOMAIN es : j > n /\ es[j].session = s /\ es[j].kind = "end" /\ es[j].of = p

\* mpv has p open, or says later than the n-th event that it ended, or is about to be found lost.
OpenAfter(es, m, n, p) == m.file = p \/ ~Obeys(m) \/ EndsAfter(es, m.session, n, p)

LoadedOpen(es, m) ==
  \A i \in DOMAIN es :
    es[i].session = m.session /\ es[i].kind = "loaded" => OpenAfter(es, m, i, es[i].of)

LEMMA EventsTail ==
  ASSUME NEW es \in Seq(Event), es # <<>>, NEW m, NEW next, EventsOK(es, m, next), LoadedOpen(es, m)
  PROVE  /\ EventsOK(Tail(es), m, next) /\ LoadedOpen(Tail(es), m)
         /\ \A p : OpenAfter(es, m, 1, p) => OpenAfter(Tail(es), m, 0, p)
         /\ \A p : /\ OpenAfter(es, m, 0, p)
                   /\ ~(es[1].session = m.session /\ es[1].kind = "end" /\ es[1].of = p)
                   => OpenAfter(Tail(es), m, 0, p)
<1> DEFINE t == Tail(es)
<1>1. /\ Len(es) \in Nat /\ Len(es) >= 1 /\ DOMAIN es = 1 .. Len(es) /\ DOMAIN t = 1 .. Len(es) - 1
      /\ \A i \in DOMAIN t : t[i] = es[i + 1] /\ i + 1 \in DOMAIN es
  OBVIOUS
<1> HIDE DEF t
<1>2. ASSUME NEW s, NEW n \in Nat, NEW p, EndsAfter(es, s, n + 1, p) PROVE EndsAfter(t, s, n, p)
  <2>1. PICK j \in DOMAIN es :
          j > n + 1 /\ es[j].session = s /\ es[j].kind = "end" /\ es[j].of = p
    BY <1>2 DEF EndsAfter
  <2>2. j - 1 \in DOMAIN t /\ j - 1 > n /\ t[j - 1] = es[j]
    BY <1>1, <2>1
  <2>3. QED
    BY <2>1, <2>2 DEF EndsAfter
<1>3. ASSUME NEW n \in Nat, NEW p, OpenAfter(es, m, n + 1, p) PROVE OpenAfter(t, m, n, p)
  BY <1>2, <1>3 DEF OpenAfter
<1>4. EventsOK(t, m, next)
  BY <1>1 DEF EventsOK
<1>5. LoadedOpen(t, m)
  <2>1. SUFFICES ASSUME NEW i \in DOMAIN t, t[i].session = m.session, t[i].kind = "loaded"
                 PROVE  OpenAfter(t, m, i, t[i].of)
    BY DEF LoadedOpen
  <2>2. OpenAfter(es, m, i + 1, es[i + 1].of) /\ t[i] = es[i + 1] /\ i \in Nat
    BY <1>1, <2>1 DEF LoadedOpen
  <2>3. QED
    BY <1>3, <2>2
<1>6. ASSUME NEW p, OpenAfter(es, m, 0, p),
             ~(es[1].session = m.session /\ es[1].kind = "end" /\ es[1].of = p)
      PROVE  OpenAfter(t, m, 0, p)
  <2>1. CASE EndsAfter(es, m.session, 0, p)
    <3>1. EndsAfter(es, m.session, 0 + 1, p)
      BY <1>1, <1>6, <2>1 DEF EndsAfter
    <3>2. QED
      BY <1>2, <3>1 DEF OpenAfter
  <2>2. QED
    BY <1>6, <2>1 DEF OpenAfter
<1>7. ASSUME NEW p, OpenAfter(es, m, 1, p) PROVE OpenAfter(t, m, 0, p)
  <2>1. OpenAfter(es, m, 0 + 1, p)
    BY <1>7
  <2>2. QED
    BY <1>3, <2>1
<1>8. QED
  BY <1>4, <1>5, <1>6, <1>7 DEF t

\* Nothing that is on its way comes from an mpv that has just been started, or from none.
LEMMA EventsRenew ==
  ASSUME NEW es \in Seq(Event), NEW m, NEW next \in Nat, EventsOK(es, m, next),
         NEW w, NEW more \in Nat, next =< more, w.session = NoSession \/ w.session = next
  PROVE  EventsOK(es, w, more) /\ LoadedOpen(es, w)
<1>1. \A i \in DOMAIN es : EventOK(es[i], m, next) /\ es[i] \in Event
  BY DEF EventsOK
<1>2. \A i \in DOMAIN es : es[i].session # w.session /\ es[i].session \in 1 .. more - 1
  BY <1>1 DEF EventOK, NoSession, Event
<1>3. \A i \in DOMAIN es : EventOK(es[i], w, more)
  BY <1>1, <1>2 DEF EventOK
<1>4. QED
  BY <1>2, <1>3 DEF EventsOK, LoadedOpen

\* mpv goes on to another file or to none, and says so if it is heard.
LEMMA EventsEnd ==
  ASSUME NEW es \in Seq(Event), NEW m \in Runtime, NEW next, EventsOK(es, m, next), LoadedOpen(es, m),
         NEW w \in Runtime, w.session = m.session, w.alive = m.alive, w.wired = m.wired, w.heard = m.heard,
         m.heard => m.session \in 1 .. next - 1, NEW e \in Event, e.session = m.session, e.kind = "end", e.of = m.file,
         NEW f, f = IF m.heard /\ m.file # NoPlayback THEN es \o <<e>> ELSE es
  PROVE  /\ EventsOK(f, w, next) /\ LoadedOpen(f, w)
         /\ \A p \in Playbacks : OpenAfter(es, m, 0, p) => OpenAfter(f, w, 0, p)
<1>1. /\ DOMAIN es \subseteq DOMAIN f /\ \A i \in DOMAIN es : f[i] = es[i] /\ i < Len(es) + 1
      /\ \A i \in DOMAIN f : i \in DOMAIN es \/ (f[i] = e /\ m.file # NoPlayback /\ m.heard)
      /\ m.heard /\ m.file # NoPlayback => Len(es) + 1 \in DOMAIN f /\ f[Len(es) + 1] = e
  <2>1. CASE f = es \o <<e>> /\ m.file # NoPlayback /\ m.heard
    BY <2>1
  <2>2. CASE f = es /\ ~(m.heard /\ m.file # NoPlayback)
    BY <2>2
  <2>3. QED
    BY <2>1, <2>2
<1>2. Obeys(w) = Obeys(m)
  BY DEF Obeys, Usable
<1>3. ASSUME NEW p \in Playbacks, NEW n, n < Len(es) + 1, OpenAfter(es, m, n, p) PROVE OpenAfter(f, w, n, p)
  <2>1. CASE EndsAfter(es, m.session, n, p)
    <3>1. EndsAfter(f, w.session, n, p)
      BY <1>1, <2>1 DEF EndsAfter
    <3>2. QED
      BY <3>1 DEF OpenAfter
  <2>2. CASE ~Obeys(m)
    BY <1>2, <2>2 DEF OpenAfter
  <2>3. CASE Obeys(m) /\ m.file = p
    <3>1. m.heard /\ m.file # NoPlayback
      BY <2>3, Parameters DEF Obeys
    <3>2. EndsAfter(f, w.session, n, p)
      BY <1>1, <1>3, <2>3, <3>1 DEF EndsAfter
    <3>3. QED
      BY <3>2 DEF OpenAfter
  <2>4. QED
    BY <1>3, <2>1, <2>2, <2>3 DEF OpenAfter
<1>4. EventsOK(f, w, next)
  <2>1. m.file # NoPlayback => m.file \in Playbacks
    BY DEF Runtime
  <2>2. \A i \in DOMAIN es : EventOK(es[i], w, next)
    BY DEF EventsOK, EventOK
  <2>3. m.file # NoPlayback /\ m.heard => EventOK(e, w, next)
    BY <2>1 DEF EventOK
  <2>4. QED
    BY <1>1, <2>2, <2>3 DEF EventsOK
<1>5. LoadedOpen(f, w)
  <2>1. SUFFICES ASSUME NEW i \in DOMAIN f, f[i].session = w.session, f[i].kind = "loaded"
                 PROVE  OpenAfter(f, w, i, f[i].of)
    BY DEF LoadedOpen
  <2>2. i \in DOMAIN es /\ f[i] = es[i] /\ i < Len(es) + 1
    BY <1>1, <2>1
  <2>3. OpenAfter(es, m, i, f[i].of) /\ f[i].of \in Playbacks
    BY <2>1, <2>2 DEF LoadedOpen, EventsOK, EventOK
  <2>4. QED
    BY <1>3, <2>2, <2>3
<1>6. \A p \in Playbacks : OpenAfter(es, m, 0, p) => OpenAfter(f, w, 0, p)
  BY <1>3
<1>7. QED
  BY <1>4, <1>5, <1>6

LEMMA EventsLoaded ==
  ASSUME NEW es \in Seq(Event), NEW m \in Runtime, NEW next, EventsOK(es, m, next), LoadedOpen(es, m),
         NEW w \in Runtime, w = [m EXCEPT !.opened = TRUE], m.heard => m.session \in 1 .. next - 1,
         m.file # NoPlayback, NEW e \in Event, e.session = m.session, e.kind = "loaded", e.of = m.file,
         e.reason = "none",
         NEW f, f = IF m.heard THEN es \o <<e>> ELSE es
  PROVE  /\ EventsOK(f, w, next) /\ LoadedOpen(f, w)
         /\ \A p : OpenAfter(es, m, 0, p) => OpenAfter(f, w, 0, p)
<1>1. /\ DOMAIN es \subseteq DOMAIN f /\ \A i \in DOMAIN es : f[i] = es[i]
      /\ \A i \in DOMAIN f : i \in DOMAIN es \/ (f[i] = e /\ m.heard)
  <2>1. CASE f = es \o <<e>> /\ m.heard
    BY <2>1
  <2>2. CASE f = es
    BY <2>2
  <2>3. QED
    BY <2>1, <2>2
<1>2. /\ w.session = m.session /\ w.file = m.file /\ w.alive = m.alive /\ w.heard = m.heard
      /\ Obeys(w) = Obeys(m) /\ m.file \in Playbacks
  BY DEF Obeys, Usable, Runtime
<1>3. ASSUME NEW p, NEW n, OpenAfter(es, m, n, p) PROVE OpenAfter(f, w, n, p)
  BY <1>1, <1>2, <1>3 DEF OpenAfter, EndsAfter
<1>4. EventsOK(f, w, next)
  <2>1. \A i \in DOMAIN es : EventOK(es[i], w, next)
    BY <1>2 DEF EventsOK, EventOK
  <2>2. m.heard => EventOK(e, w, next)
    BY <1>2 DEF EventOK
  <2>3. QED
    BY <1>1, <2>1, <2>2 DEF EventsOK
<1>5. LoadedOpen(f, w)
  <2>1. SUFFICES ASSUME NEW i \in DOMAIN f, f[i].session = w.session, f[i].kind = "loaded"
                 PROVE  OpenAfter(f, w, i, f[i].of)
    BY DEF LoadedOpen
  <2>2. CASE i \in DOMAIN es
    BY <1>1, <1>2, <1>3, <2>1, <2>2 DEF LoadedOpen
  <2>3. CASE f[i] = e
    BY <1>2, <2>3 DEF OpenAfter
  <2>4. QED
    BY <1>1, <2>2, <2>3
<1>6. QED
  BY <1>3, <1>4, <1>5

\* mpv fails and says so, or says nothing.
LEMMA EventsFail ==
  ASSUME NEW es \in Seq(Event), NEW m, NEW next, EventsOK(es, m, next),
         NEW w, w.session = m.session, ~Obeys(w), w.alive /\ w.heard => m.alive /\ m.heard,
         NEW more \in Seq(Event), \A i \in DOMAIN more : EventOK(more[i], w, next)
  PROVE  EventsOK(es \o more, w, next) /\ LoadedOpen(es \o more, w)
<1> DEFINE f == es \o more
<1>1. \A i \in DOMAIN es : EventOK(es[i], w, next)
  BY DEF EventsOK, EventOK
<1>2. \A i \in DOMAIN f : \/ i \in DOMAIN es /\ f[i] = es[i]
                          \/ i - Len(es) \in DOMAIN more /\ f[i] = more[i - Len(es)]
  OBVIOUS
<1> HIDE DEF f
<1>3. QED
  BY <1>1, <1>2 DEF EventsOK, LoadedOpen, OpenAfter, f

-------------------------------------------------------------------------------
(* The controller, its mpv and the events between them *)

\* None counts as alive or as heard, so a session that speaks has been started.
MpvInv ==
  /\ mpv.session = NoSession => ~mpv.alive /\ ~mpv.heard
  /\ EventsOK(events, mpv, ctl.nextId)
  /\ LoadedOpen(events, mpv)
  /\ ctl.phase = "playing" /\ ~misled => OpenAfter(events, mpv, 0, ctl.load)

\* mpv is restarted, or given up; nothing is played then that is not known to be lost.
Renews ==
  /\ \/ mpv'.session = NoSession /\ ~mpv'.alive /\ ~mpv'.heard
     \/ mpv'.session = ctl.nextId
  /\ ctl.nextId =< ctl'.nextId
  /\ ctl'.phase = "playing" /\ ~misled' => ~mpv'.alive

PlaysOn ==
  ctl'.phase = "playing" /\ ~misled' => ctl.phase = "playing" /\ ctl'.load = ctl.load /\ ~misled

Keeps == mpv' = mpv /\ ctl'.nextId = ctl.nextId /\ PlaysOn

LEMMA MpvInvParts ==
  TypeOK => /\ events \in Seq(Event) /\ mpv \in Runtime /\ ctl \in Ctl /\ CtlOK(ctl)
            /\ ctl.nextId \in Nat \ {0} /\ ctl.session = mpv.session /\ mpv.session < ctl.nextId
            /\ mpv.session \in Nat
<1>1. SUFFICES ASSUME TypeOK
               PROVE  /\ events \in Seq(Event) /\ mpv \in Runtime /\ ctl \in Ctl /\ CtlOK(ctl)
                      /\ ctl.nextId \in Nat \ {0} /\ ctl.session = mpv.session
                      /\ mpv.session < ctl.nextId /\ mpv.session \in Nat
  OBVIOUS
<1>2. events \in Seq(Event) /\ mpv \in Runtime /\ CtlOK(ctl) /\ ctl.session = mpv.session
  BY <1>1, TypeParts DEF Machine, OtherType
<1>3. QED
  BY <1>2 DEF CtlOK, Ctl, Runtime

LEMMA RenewsOK ==
  ASSUME TypeOK, TypeOK', MpvInv, Renews, events' = events PROVE MpvInv'
<1>1. /\ events \in Seq(Event) /\ ctl.nextId \in Nat \ {0} /\ ctl'.nextId \in Nat
  BY MpvInvParts DEF TypeOK
<1>2. EventsOK(events', mpv', ctl'.nextId) /\ LoadedOpen(events', mpv')
  BY <1>1, EventsRenew DEF Renews, MpvInv
<1>3. ctl'.phase = "playing" /\ ~misled' => ~Obeys(mpv')
  BY DEF Renews, Obeys, Usable
<1>4. mpv'.session = NoSession => ~mpv'.alive /\ ~mpv'.heard
  BY <1>1 DEF Renews, NoSession
<1>5. QED
  BY <1>2, <1>3, <1>4 DEF MpvInv, OpenAfter

LEMMA RenewsTailOK ==
  ASSUME TypeOK, TypeOK', MpvInv, Renews, events # <<>>, events' = Tail(events) PROVE MpvInv'
<1>1. /\ events \in Seq(Event) /\ ctl.nextId \in Nat \ {0} /\ ctl'.nextId \in Nat
      /\ Tail(events) \in Seq(Event)
  BY MpvInvParts DEF TypeOK
<1>2. EventsOK(Tail(events), mpv, ctl.nextId)
  BY <1>1, EventsTail DEF MpvInv
<1>3. EventsOK(events', mpv', ctl'.nextId) /\ LoadedOpen(events', mpv')
  BY <1>1, <1>2, EventsRenew DEF Renews
<1>4. ctl'.phase = "playing" /\ ~misled' => ~Obeys(mpv')
  BY DEF Renews, Obeys, Usable
<1>5. mpv'.session = NoSession => ~mpv'.alive /\ ~mpv'.heard
  BY <1>1 DEF Renews, NoSession
<1>6. QED
  BY <1>3, <1>4, <1>5 DEF MpvInv, OpenAfter

LEMMA KeepsOK ==
  ASSUME MpvInv, Keeps, events' = events PROVE MpvInv'
BY DEF MpvInv, Keeps, PlaysOn

LEMMA LostRenews ==
  ASSUME TypeOK, Lost PROVE Renews
<1>1. /\ ctl'.phase = "idle" /\ ctl.nextId =< ctl'.nextId
      /\ mpv' = NoMpv \/ mpv'.session = ctl.nextId
  BY LostOK
<1>2. QED
  BY <1>1, NoMpvType DEF Renews, NoMpv

LEMMA EnsureRenews ==
  ASSUME TypeOK, NEW moved, NEW o \in Ensured(ctl, mpv, moved),
         mpv' = o.mpv, ctl'.nextId = o.ctl.nextId, ctl'.phase = "idle" \/ ctl' = o.ctl
  PROVE  \/ Kept(ctl, mpv, o)
         \/ /\ mpv' = NoMpv \/ (mpv'.session = ctl.nextId /\ o.ok)
            /\ ctl.nextId =< ctl'.nextId
            /\ ctl'.phase = "playing" => ctl.phase = "playing" /\ ~mpv.alive
<1>1. ctl \in Ctl /\ CtlOK(ctl) /\ mpv \in Runtime
  BY MpvInvParts
<1>2. CASE Renewed(ctl, mpv, o)
  BY <1>1, <1>2, StartedType DEF Renewed
<1>3. QED
  BY <1>1, <1>2, EnsuredOK

LEMMA NoMpvRenews ==
  ASSUME mpv' = NoMpv, ctl.nextId =< ctl'.nextId PROVE Renews
BY NoMpvType DEF Renews, NoMpv

LEMMA SuperviseMpv ==
  ASSUME TypeOK, TypeOK', MpvInv, Supervise PROVE MpvInv'
<1>1. events' = events
  BY DEF Supervise, Preflight, WarmElsewhere, PollRuntime, CommandLost
<1>2. CASE PollRuntime \/ CommandLost
  BY <1>1, <1>2, LostRenews, RenewsOK DEF PollRuntime, CommandLost
<1>3. CASE Preflight \/ WarmElsewhere
  <2>1. PICK moved \in BOOLEAN :
          \E o \in Ensured(ctl, mpv, moved) : ctl' = o.ctl /\ mpv' = o.mpv
    BY <1>3 DEF Preflight, WarmElsewhere
  <2>2. PICK o \in Ensured(ctl, mpv, moved) : ctl' = o.ctl /\ mpv' = o.mpv
    BY <2>1
  <2>3. misled' = (misled \/ Abandons)
    BY <1>3 DEF Preflight, WarmElsewhere
  <2>4. CASE Kept(ctl, mpv, o)
    BY <1>1, <2>2, <2>3, <2>4, KeepsOK DEF Kept, Keeps, PlaysOn
  <2>5. CASE /\ mpv' = NoMpv \/ (mpv'.session = ctl.nextId /\ o.ok)
             /\ ctl.nextId =< ctl'.nextId
             /\ ctl'.phase = "playing" => ctl.phase = "playing" /\ ~mpv.alive
    BY <1>1, <2>3, <2>5, NoMpvRenews, RenewsOK DEF Renews, Abandons
  <2>6. QED
    BY <2>2, <2>4, <2>5, EnsureRenews
<1>4. QED
  BY <1>2, <1>3 DEF Supervise

LEMMA LoadMpv ==
  ASSUME TypeOK, TypeOK', MpvInv, NEW p \in Playbacks, Load(p) PROVE MpvInv'
<1>1. events' = events /\ misled' = misled /\ CtlOK(ctl) /\ mpv \in Runtime
  BY MpvInvParts DEF Load
<1>2. PICK moved \in BOOLEAN : \E o \in Ensured(ctl, mpv, moved) :
         /\ mpv' = o.mpv
         /\ IF o.ok THEN ctl' = [o.ctl EXCEPT !.phase = "idle", !.load = NoPlayback]
                    ELSE ctl' = o.ctl
  BY DEF Load
<1>3. PICK o \in Ensured(ctl, mpv, moved) :
         /\ mpv' = o.mpv
         /\ IF o.ok THEN ctl' = [o.ctl EXCEPT !.phase = "idle", !.load = NoPlayback]
                    ELSE ctl' = o.ctl
  BY <1>2
<1>4. o.ctl \in Ctl
  BY <1>1, EnsuredOK DEF Kept, Renewed, CtlOK
<1>5. /\ ctl'.nextId = o.ctl.nextId
      /\ ctl'.phase = "idle" \/ ctl' = o.ctl
      /\ o.ok => ctl'.phase = "idle"
  BY <1>3, <1>4 DEF Ctl
<1>6. CASE Kept(ctl, mpv, o)
  BY <1>1, <1>3, <1>5, <1>6, KeepsOK DEF Kept, Keeps, PlaysOn
<1>7. CASE /\ mpv' = NoMpv \/ (mpv'.session = ctl.nextId /\ o.ok)
           /\ ctl.nextId =< ctl'.nextId
  BY <1>1, <1>5, <1>7, NoMpvRenews, RenewsOK DEF Renews
<1>8. QED
  BY <1>3, <1>5, <1>6, <1>7, EnsureRenews

LEMMA LoadStepMpv ==
  ASSUME TypeOK, TypeOK', Incoming, ReportsInv, MpvInv, LoadStep PROVE MpvInv'
<1>1. /\ events \in Seq(Event) /\ mpv \in Runtime /\ ctl \in Ctl /\ CtlOK(ctl)
      /\ ctl.nextId \in Nat \ {0} /\ mpv.session < ctl.nextId /\ mpv.session \in Nat
  BY MpvInvParts
<1>2. pc = "loadfile" /\ ctl.phase = "idle" /\ incoming.load \in Playbacks
  BY DEF LoadStep, Accepted, Rejected, LoadfileLost, RetryLost, ReportsInv, Incoming
<1>3. CASE Accepted
  <2>1. /\ ctl' = [ctl EXCEPT !.phase = "loading", !.load = incoming.load, !.active = TRUE,
                              !.replaced = incoming.replacing]
        /\ mpv' = [mpv EXCEPT !.file = incoming.load, !.opened = FALSE]
        /\ events' = events \o Says("end", "stop")
    BY <1>3 DEF Accepted
  <2>2. /\ ctl'.phase = "loading" /\ ctl'.nextId = ctl.nextId
        /\ mpv' \in Runtime /\ mpv'.session = mpv.session /\ mpv'.alive = mpv.alive
        /\ mpv'.wired = mpv.wired /\ mpv'.heard = mpv.heard
    BY <1>1, <1>2, <2>1 DEF Ctl, Runtime
  <2> DEFINE e == [kind |-> "end", session |-> mpv.session, reason |-> "stop", of |-> mpv.file]
  <2>3. e \in Event /\ e.session = mpv.session /\ e.kind = "end" /\ e.of = mpv.file
    BY <1>1 DEF Event, Runtime, Reasons
  <2>4. events' = IF mpv.heard /\ mpv.file # NoPlayback THEN events \o <<e>> ELSE events
    BY <1>1, <2>1 DEF Says
  <2>5. mpv.heard => mpv.session \in 1 .. ctl.nextId - 1
    BY <1>1 DEF MpvInv, NoSession
  <2> HIDE DEF e
  <2>6. EventsOK(events', mpv', ctl.nextId) /\ LoadedOpen(events', mpv')
    BY <1>1, <2>2, <2>3, <2>4, <2>5, EventsEnd DEF MpvInv
  <2>7. QED
    BY <2>2, <2>6 DEF MpvInv
<1>4. CASE Rejected
  <2>1. events' = events /\ misled' = misled
    BY <1>4 DEF Rejected
  <2> DEFINE c == [ctl EXCEPT !.active = FALSE]
  <2>2. CtlOK(c) /\ c.nextId = ctl.nextId /\ c.phase = "idle"
    BY <1>1, <1>2 DEF Ctl, CtlOK
  <2>3. \/ ctl' = Reset(c) /\ mpv' = NoMpv
        \/ ctl' = c /\ mpv' = mpv
    BY <1>4 DEF Rejected
  <2> HIDE DEF c
  <2>4. CASE ctl' = Reset(c) /\ mpv' = NoMpv
    BY <1>1, <2>1, <2>2, <2>4, ResetOK, NoMpvRenews, RenewsOK
  <2>5. CASE ctl' = c /\ mpv' = mpv
    BY <2>1, <2>2, <2>5, KeepsOK DEF Keeps, PlaysOn
  <2>6. QED
    BY <2>3, <2>4, <2>5
<1>5. CASE LoadfileLost
  <2>1. PICK o \in Ensured(Reset(ctl), NoMpv, FALSE) : ctl' = o.ctl /\ mpv' = o.mpv
    BY <1>5 DEF LoadfileLost
  <2>2. CtlOK(Reset(ctl)) /\ Reset(ctl).nextId = ctl.nextId /\ Reset(ctl).phase = "idle"
    BY <1>1, <1>2, ResetOK
  <2>3. Kept(Reset(ctl), NoMpv, o) \/ Renewed(Reset(ctl), NoMpv, o)
    BY <2>2, NoMpvType, EnsuredOK
  <2>4. Reset(ctl) \in Ctl
    BY <2>2 DEF CtlOK
  <2>5. /\ mpv' = NoMpv \/ mpv'.session = ctl.nextId
        /\ ctl.nextId =< ctl'.nextId /\ ctl'.phase = "idle"
    <3>1. CASE Kept(Reset(ctl), NoMpv, o)
      BY <1>1, <2>1, <2>2, <3>1 DEF Kept
    <3>2. CASE Renewed(Reset(ctl), NoMpv, o)
      BY <2>1, <2>2, <2>4, <3>2, NoMpvType, StartedType DEF Renewed
    <3>3. QED
      BY <2>3, <3>1, <3>2
  <2>6. events' = events
    BY <1>5 DEF LoadfileLost
  <2>7. QED
    BY <2>5, <2>6, NoMpvRenews, RenewsOK DEF Renews
<1>6. CASE RetryLost
  BY <1>6, LostRenews, RenewsOK DEF RetryLost
<1>7. QED
  BY <1>3, <1>4, <1>5, <1>6 DEF LoadStep

LEMMA TakeMessageMpv ==
  ASSUME TypeOK, TypeOK', MpvInv, TakeMessage PROVE MpvInv'
<1>1. /\ events \in Seq(Event) /\ mpv \in Runtime /\ ctl \in Ctl /\ CtlOK(ctl)
      /\ ctl.session = mpv.session /\ ctl.nextId \in Nat
  BY MpvInvParts
<1>2. events # <<>> /\ events' = Tail(events)
  BY DEF TakeMessage, TakeStale, TakeEvent
<1> DEFINE e == Head(events)
<1>3. /\ e = events[1] /\ 1 \in DOMAIN events /\ EventOK(e, mpv, ctl.nextId) /\ e \in Event
  BY <1>1, <1>2 DEF MpvInv, EventsOK
<1>4. /\ EventsOK(events', mpv, ctl.nextId) /\ LoadedOpen(events', mpv)
      /\ \A p : OpenAfter(events, mpv, 1, p) => OpenAfter(events', mpv, 0, p)
      /\ \A p : /\ OpenAfter(events, mpv, 0, p)
                /\ ~(e.session = mpv.session /\ e.kind = "end" /\ e.of = p)
                => OpenAfter(events', mpv, 0, p)
  BY <1>1, <1>2, <1>3, EventsTail DEF MpvInv
<1>5. CASE TakeStale
  <2>1. ctl' = ctl /\ mpv' = mpv /\ misled' = misled /\ e.session # mpv.session
    BY <1>1, <1>5 DEF TakeStale, IsCurrent, env
  <2>2. QED
    BY <1>4, <2>1 DEF MpvInv
<1>6. CASE TakeEvent
  <2>1. misled' = (misled \/ Misleads(e)) /\ e.session = mpv.session
    BY <1>1, <1>6 DEF TakeEvent, IsCurrent
  <2>2. CASE Lost
    BY <1>2, <2>2, LostRenews, RenewsTailOK
  <2>3. CASE e.kind = "loaded" /\ ctl' = Activated(ctl) /\ mpv' = mpv
    <3>1. ctl'.nextId = ctl.nextId
      BY <1>1, <2>3 DEF Activated, Ctl
    <3>2. ASSUME ctl'.phase = "playing", ~misled' PROVE OpenAfter(events', mpv', 0, ctl'.load)
      <4>1. ~misled /\ ~Misleads(e)
        BY <2>1, <3>2
      <4>2. CASE ctl.phase # "loading"
        <5>1. ctl' = ctl
          BY <2>3, <4>2 DEF Activated
        <5>2. OpenAfter(events, mpv, 0, ctl.load)
          BY <3>2, <4>1, <5>1 DEF MpvInv
        <5>3. QED
          BY <1>4, <2>3, <5>1, <5>2
      <4>3. CASE ctl.phase = "loading"
        <5>1. ctl'.load = ctl.load
          BY <1>1, <2>3, <3>2, <4>3 DEF Activated, Ctl
        <5>2. e.of \in Playbacks /\ e.reason = "none"
          BY <1>3, <2>3 DEF EventOK
        <5>3. e.of = ctl.load
          BY <4>1, <4>3, <5>2, Parameters DEF Misleads
        <5>4. OpenAfter(events, mpv, 1, e.of)
          BY <1>3, <2>1, <2>3 DEF MpvInv, LoadedOpen
        <5>5. QED
          BY <1>4, <2>3, <5>1, <5>3, <5>4
      <4>4. QED
        BY <4>2, <4>3
    <3>3. QED
      BY <1>4, <2>3, <3>1, <3>2 DEF MpvInv
  <2>4. CASE ctl' = Finished(ctl, e.reason) /\ mpv' = mpv
    <3>1. ctl'.nextId = ctl.nextId /\ ctl'.phase # "playing"
      BY <1>1, <2>4, FinishedOK
    <3>2. QED
      BY <1>4, <2>4, <3>1 DEF MpvInv
  <2>5. QED
    BY <1>6, <2>2, <2>3, <2>4 DEF TakeEvent
<1>7. QED
  BY <1>5, <1>6 DEF TakeMessage

LEMMA ControlMpv ==
  ASSUME TypeOK, TypeOK', MpvInv,
         MarkWatchedAndPlayNext \/ ReportProgress \/ Timeout \/ Exit \/ ReporterRuns
  PROVE  MpvInv'
<1>1. ctl \in Ctl /\ CtlOK(ctl)
  BY MpvInvParts
<1>2. events' = events /\ misled' = misled
  BY DEF MarkWatchedAndPlayNext, ReportProgress, Timeout, PendingTimesOut, HandoffExpires, Exit,
    RequestExit, Shutdown, FlushEnds, ReporterRuns, env
<1>3. CASE MarkWatchedAndPlayNext
  <2> DEFINE c == Finished(ctl, "watched")
  <2>1. CtlOK(c) /\ ctl' = [c EXCEPT !.handoff = TRUE] /\ c.nextId = ctl.nextId /\ c.phase # "playing"
    BY <1>1, <1>3, FinishedOK DEF MarkWatchedAndPlayNext
  <2> HIDE DEF c
  <2>2. ctl'.nextId = ctl.nextId /\ ctl'.phase # "playing" /\ mpv' = mpv
    BY <1>3, <2>1 DEF MarkWatchedAndPlayNext, CtlOK, Ctl
  <2>3. QED
    BY <1>2, <2>2, KeepsOK DEF Keeps, PlaysOn
<1>4. CASE PendingTimesOut
  <2>1. ctl'.nextId = ctl.nextId /\ ctl'.phase # "playing" /\ mpv' = mpv
    BY <1>1, <1>4, FinishedOK DEF PendingTimesOut
  <2>2. QED
    BY <1>2, <2>1, KeepsOK DEF Keeps, PlaysOn
<1>5. CASE Shutdown
  <2> DEFINE c == Finished(ctl, "quit")
  <2>1. CtlOK(c) /\ c.nextId = ctl.nextId /\ ctl' = Reset(c) /\ mpv' = NoMpv
    BY <1>1, <1>5, FinishedOK DEF Shutdown
  <2> HIDE DEF c
  <2>2. ctl.nextId =< ctl'.nextId
    BY <1>1, <2>1, ResetOK DEF Ctl
  <2>3. QED
    BY <1>2, <2>1, <2>2, NoMpvRenews, RenewsOK
<1>6. CASE ReportProgress \/ HandoffExpires \/ RequestExit \/ FlushEnds \/ ReporterRuns
  <2>1. mpv' = mpv /\ ctl'.phase = ctl.phase /\ ctl'.load = ctl.load /\ ctl'.nextId = ctl.nextId
    BY <1>1, <1>6 DEF ReportProgress, HandoffExpires, RequestExit, FlushEnds, ReporterRuns, Ctl
  <2>2. QED
    BY <1>2, <2>1, KeepsOK DEF Keeps, PlaysOn
<1>7. QED
  BY <1>3, <1>4, <1>5, <1>6 DEF Timeout, Exit

LEMMA EndFileMpv ==
  ASSUME TypeOK, MpvInv, NEW reason \in {"eof", "stop", "error"}, EndFile(reason),
         ctl' = ctl, misled' = misled
  PROVE  MpvInv'
<1>1. /\ events \in Seq(Event) /\ mpv \in Runtime /\ ctl \in Ctl /\ CtlOK(ctl)
      /\ ctl.nextId \in Nat \ {0} /\ mpv.session < ctl.nextId /\ mpv.session \in Nat
  BY MpvInvParts
<1>2. /\ mpv' = [mpv EXCEPT !.file = NoPlayback, !.opened = FALSE]
      /\ events' = events \o Says("end", reason)
  BY DEF EndFile
<1>3. /\ mpv' \in Runtime /\ mpv'.session = mpv.session /\ mpv'.alive = mpv.alive
      /\ mpv'.wired = mpv.wired /\ mpv'.heard = mpv.heard
  BY <1>1, <1>2 DEF Runtime
<1> DEFINE e == [kind |-> "end", session |-> mpv.session, reason |-> reason, of |-> mpv.file]
<1>4. e \in Event /\ e.session = mpv.session /\ e.kind = "end" /\ e.of = mpv.file
  BY <1>1 DEF Event, Runtime, Reasons
<1>5. events' = IF mpv.heard /\ mpv.file # NoPlayback THEN events \o <<e>> ELSE events
  BY <1>1, <1>2 DEF Says
<1>6. mpv.heard => mpv.session \in 1 .. ctl.nextId - 1
  BY <1>1 DEF MpvInv, NoSession
<1> HIDE DEF e
<1>7. /\ EventsOK(events', mpv', ctl.nextId) /\ LoadedOpen(events', mpv')
      /\ \A p \in Playbacks : OpenAfter(events, mpv, 0, p) => OpenAfter(events', mpv', 0, p)
  BY <1>1, <1>3, <1>4, <1>5, <1>6, EventsEnd DEF MpvInv
<1>8. ctl.phase = "playing" => ctl.load \in Playbacks
  BY <1>1 DEF CtlOK, Ctl
<1>9. QED
  BY <1>3, <1>7, <1>8 DEF MpvInv

LEMMA FarewellIs ==
  ASSUME TypeOK, MpvInv, NEW w, w.session = mpv.session, ~(w.alive /\ w.heard)
  PROVE  /\ \A kind \in {"shutdown", "gone"} : \A i \in DOMAIN Farewell(kind) :
              EventOK(Farewell(kind)[i], w, ctl.nextId)
         /\ \A i \in DOMAIN Says("end", "quit") : EventOK(Says("end", "quit")[i], w, ctl.nextId)
<1>1. /\ mpv \in Runtime /\ ctl.nextId \in Nat \ {0} /\ mpv.session < ctl.nextId /\ mpv.session \in Nat
  BY MpvInvParts
<1>2. mpv.heard => mpv.session \in 1 .. ctl.nextId - 1
  BY <1>1 DEF MpvInv, NoSession
<1>3. mpv.file # NoPlayback => mpv.file \in Playbacks
  BY <1>1 DEF Runtime
<1>4. ASSUME NEW kind \in {"shutdown", "gone"}, NEW i \in DOMAIN Farewell(kind)
      PROVE  EventOK(Farewell(kind)[i], w, ctl.nextId)
  <2>1. mpv.heard /\ Farewell(kind)[i]
          = [kind |-> kind, session |-> mpv.session, reason |-> "none", of |-> NoPlayback]
    BY <1>4 DEF Farewell
  <2>2. QED
    BY <1>2, <2>1 DEF EventOK
<1>5. ASSUME NEW i \in DOMAIN Says("end", "quit")
      PROVE  EventOK(Says("end", "quit")[i], w, ctl.nextId)
  <2>1. mpv.heard /\ mpv.file # NoPlayback /\ Says("end", "quit")[i]
          = [kind |-> "end", session |-> mpv.session, reason |-> "quit", of |-> mpv.file]
    BY <1>5 DEF Says
  <2>2. QED
    BY <1>2, <1>3, <2>1 DEF EventOK
<1>6. QED
  BY <1>4, <1>5

LEMMA MpvFailsMpv ==
  ASSUME TypeOK, MpvInv, MpvFails PROVE MpvInv'
<1>1. /\ events \in Seq(Event) /\ mpv \in Runtime /\ mpv.alive
      /\ ctl' = ctl /\ misled' = misled
  BY MpvInvParts DEF MpvFails
<1>2. mpv.session # NoSession
  BY <1>1 DEF MpvInv
<1>3. /\ Says("end", "quit") \in Seq(Event)
      /\ Farewell("shutdown") \in Seq(Event) /\ Farewell("gone") \in Seq(Event)
  BY <1>1, SaysType DEF Reasons
<1>4. ASSUME mpv'.session = mpv.session, ~Obeys(mpv'), mpv'.alive /\ mpv'.heard => mpv.alive /\ mpv.heard,
             NEW more \in Seq(Event), \A i \in DOMAIN more : EventOK(more[i], mpv', ctl.nextId),
             events' = events \o more
      PROVE  MpvInv'
  <2>1. EventsOK(events', mpv', ctl.nextId) /\ LoadedOpen(events', mpv')
    BY <1>1, <1>4, EventsFail DEF MpvInv
  <2>2. QED
    BY <1>1, <1>2, <1>4, <2>1 DEF MpvInv, OpenAfter
<1>5. CASE mpv' = [NoMpv EXCEPT !.session = mpv.session] /\ events' = events \o Farewell("gone")
  <2>1. mpv'.session = mpv.session /\ ~mpv'.alive /\ ~Obeys(mpv')
    BY <1>5, NoMpvType DEF Obeys, Usable, Runtime
  <2>2. QED
    BY <1>3, <1>4, <1>5, <2>1, FarewellIs
<1>6. CASE /\ mpv' = [NoMpv EXCEPT !.session = mpv.session]
           /\ events' = events \o Says("end", "quit") \o Farewell("shutdown") \o Farewell("gone")
  <2>1. mpv'.session = mpv.session /\ ~mpv'.alive /\ ~Obeys(mpv')
    BY <1>6, NoMpvType DEF Obeys, Usable, Runtime
  <2> DEFINE more == Says("end", "quit") \o Farewell("shutdown") \o Farewell("gone")
  <2>2. more \in Seq(Event) /\ events' = events \o more
    BY <1>1, <1>3, <1>6, SMTT(30)
  <2>3. \A i \in DOMAIN more : EventOK(more[i], mpv', ctl.nextId)
    <3>1. \A i \in DOMAIN more :
            \/ \E k \in DOMAIN Says("end", "quit") : more[i] = Says("end", "quit")[k]
            \/ \E k \in DOMAIN Farewell("shutdown") : more[i] = Farewell("shutdown")[k]
            \/ \E k \in DOMAIN Farewell("gone") : more[i] = Farewell("gone")[k]
      BY <1>3, SMTT(30)
    <3>2. QED
      BY <2>1, <3>1, FarewellIs
  <2> HIDE DEF more
  <2>4. QED
    BY <1>4, <2>1, <2>2, <2>3
<1>7. CASE mpv' = [mpv EXCEPT !.heard = FALSE] /\ events' = events \o Farewell("gone")
  <2>1. mpv'.session = mpv.session /\ ~mpv'.heard /\ ~Obeys(mpv')
    BY <1>1, <1>7 DEF Obeys, Usable, Runtime
  <2>2. QED
    BY <1>3, <1>4, <1>7, <2>1, FarewellIs
<1>8. CASE mpv' = [mpv EXCEPT !.wired = FALSE] /\ events' = events
  <2>1. /\ mpv'.session = mpv.session /\ ~mpv'.wired /\ ~Obeys(mpv')
        /\ mpv'.alive = mpv.alive /\ mpv'.heard = mpv.heard
    BY <1>1, <1>8 DEF Obeys, Usable, Runtime
  <2>2. events' = events \o <<>> /\ <<>> \in Seq(Event) /\ DOMAIN <<>> = {}
    BY <1>1, <1>8
  <2>3. QED
    BY <1>4, <2>1, <2>2
<1>9. QED
  BY <1>5, <1>6, <1>7, <1>8 DEF MpvFails

LEMMA MpvStepMpv ==
  ASSUME TypeOK, TypeOK', MpvInv, MpvStep \/ Stop PROVE MpvInv'
<1>1. /\ events \in Seq(Event) /\ mpv \in Runtime /\ ctl \in Ctl
      /\ ctl.nextId \in Nat \ {0} /\ mpv.session < ctl.nextId /\ mpv.session \in Nat
  BY MpvInvParts
<1>2. CASE FileEnds \/ Stop
  <2>1. PICK reason \in {"eof", "stop", "error"} : EndFile(reason)
    BY <1>2 DEF FileEnds, Stop
  <2>2. ctl' = ctl /\ misled' = misled
    BY <1>2 DEF FileEnds, Stop, env
  <2>3. QED
    BY <2>1, <2>2, EndFileMpv
<1>3. CASE FileLoads
  <2>1. /\ mpv.file # NoPlayback /\ mpv' = [mpv EXCEPT !.opened = TRUE]
        /\ events' = events \o Says("loaded", "none") /\ ctl' = ctl /\ misled' = misled
    BY <1>3 DEF FileLoads, env
  <2> DEFINE e == [kind |-> "loaded", session |-> mpv.session, reason |-> "none", of |-> mpv.file]
  <2>2. e \in Event /\ e.session = mpv.session /\ e.kind = "loaded" /\ e.of = mpv.file /\ e.reason = "none"
    BY <1>1 DEF Event, Runtime
  <2>3. events' = IF mpv.heard THEN events \o <<e>> ELSE events
    BY <1>1, <2>1 DEF Says
  <2>4. mpv.heard => mpv.session \in 1 .. ctl.nextId - 1
    BY <1>1 DEF MpvInv, NoSession
  <2>5. mpv' \in Runtime
    BY <1>1, <2>1 DEF Runtime
  <2> HIDE DEF e
  <2>6. /\ EventsOK(events', mpv', ctl.nextId) /\ LoadedOpen(events', mpv')
        /\ \A p : OpenAfter(events, mpv, 0, p) => OpenAfter(events', mpv', 0, p)
    BY <1>1, <2>1, <2>2, <2>3, <2>4, <2>5, EventsLoaded DEF MpvInv
  <2>7. mpv'.session = mpv.session /\ mpv'.alive = mpv.alive /\ mpv'.heard = mpv.heard
    BY <1>1, <2>1 DEF Runtime
  <2>8. QED
    BY <2>1, <2>6, <2>7 DEF MpvInv
<1>4. CASE MpvFails
  BY <1>4, MpvFailsMpv
<1>5. QED
  BY <1>2, <1>3, <1>4 DEF MpvStep

LEMMA MpvInvStep ==
  ASSUME PlayerInv, MpvInv, [Next]_vars PROVE MpvInv'
<1>1. TypeOK /\ TypeOK' /\ Incoming /\ ReportsInv
  BY TypeStep DEF PlayerInv
<1>2. CASE UNCHANGED vars
  BY <1>2, KeepsOK DEF vars, env, Keeps, PlaysOn
<1>3. QED
  BY <1>1, <1>2, SuperviseMpv, LoadMpv, LoadStepMpv, TakeMessageMpv, ControlMpv, MpvStepMpv
  DEF Next, Command

AllInv == PlayerInv /\ MpvInv

LEMMA AllInvHolds == Spec => []AllInv
<1>1. Init => MpvInv
  <2>1. SUFFICES ASSUME Init PROVE MpvInv
    OBVIOUS
  <2>2. events = <<>> /\ DOMAIN events = {} /\ mpv = NoMpv /\ ctl.phase = "idle"
    BY <2>1 DEF Init, Idle
  <2>3. QED
    BY <2>2 DEF MpvInv, EventsOK, LoadedOpen, NoMpv
<1>2. PlayerInv /\ MpvInv /\ [Next]_vars => MpvInv'
  BY MpvInvStep
<1>3. QED
  BY <1>1, <1>2, PlayerInvHolds, PTL DEF Spec, AllInv

\* After an exit whose flush was acknowledged nothing is on its way, and whatever is not on
\* its way and does not go on has been stopped.
LEMMA InvCloses == AllInv => ReportsAreClosed
<1>1. SUFFICES ASSUME AllInv PROVE PlayingIsOpen /\ ExitLeavesNothingOpen
  BY DEF ReportsAreClosed
<1>2. TypeOK /\ FlushInv /\ ReportsInv /\ MpvInv
  BY <1>1 DEF AllInv, PlayerInv
<1>3. PlayingIsOpen
  <2>1. SUFFICES ASSUME ctl.phase = "playing", ~misled
                 PROVE  \/ mpv.file = ctl.load
                        \/ ~(Usable(mpv) /\ mpv.heard)
                        \/ \E i \in DOMAIN events : events[i].kind = "end" /\ events[i].of = ctl.load
    BY DEF PlayingIsOpen
  <2>2. OpenAfter(events, mpv, 0, ctl.load)
    BY <1>2, <2>1 DEF MpvInv
  <2>3. QED
    BY <2>2 DEF OpenAfter, EndsAfter, Obeys
<1>4. ExitLeavesNothingOpen
  <2>1. SUFFICES ASSUME pc = "done", flush = "acked"
                 PROVE  started \subseteq stopped /\ rx = <<>> /\ batch = <<>>
    BY DEF ExitLeavesNothingOpen
  <2>2. rx = <<>> /\ batch = <<>> /\ Playing = NoPlayback
    BY <1>2, <2>1 DEF FlushInv, Playing
  <2>3. \A p : ~Stops(Pending, p)
    BY <2>2 DEF Stops, Pending
  <2>4. started \subseteq Playbacks
    BY <1>2, PendingType DEF Worlds
  <2>5. QED
    BY <1>2, <2>2, <2>3, <2>4, Parameters DEF ReportsInv, Sound
<1>5. QED
  BY <1>3, <1>4

\* A playback that is reported as playing is the one mpv has open, or its end is on its way,
\* or mpv is about to be found lost; and an exit whose flush was answered in time leaves no
\* playback open at the server and no report behind.
THEOREM WhatIsOpenIsReported == Spec => []ReportsAreClosed
BY AllInvHolds, InvCloses, PTL

\* Only a message is taken from the queue of events; everything else leaves or adds to it.
LEMMA EventsGrow ==
  ASSUME TypeOK, [Next]_vars, events # <<>>, events' = Tail(events) PROVE TakeMessage
<1>1. events \in Seq(Event) /\ mpv \in Runtime
  BY MpvInvParts
<1>2. Len(events') < Len(events)
  BY <1>1
<1>3. ASSUME \E more \in Seq(Event) : events' = events \o more PROVE FALSE
  BY <1>1, <1>2, <1>3
<1>4. events' # events
  BY <1>1, <1>2
<1>5. \A kind \in {"loaded", "end"} : \A reason \in {"eof", "stop", "error", "quit", "none"} :
         Says(kind, reason) \in Seq(Event)
  BY <1>1, SaysType DEF Reasons
<1>6. Farewell("shutdown") \in Seq(Event) /\ Farewell("gone") \in Seq(Event)
  BY <1>1, SaysType
<1>7. ~Accepted /\ ~FileLoads /\ ~FileEnds /\ ~Stop
  BY <1>3, <1>5 DEF Accepted, FileLoads, FileEnds, Stop, EndFile
<1>8. ~MpvFails
  <2>1. ASSUME NEW q \in Seq(Event), NEW more \in Seq(Event)
        PROVE  q \o more \in Seq(Event) /\ Len(q \o more) >= Len(q) /\ Len(q) \in Nat
    BY ConcatIs
  <2> DEFINE bye == events \o Says("end", "quit")
             shut == bye \o Farewell("shutdown")
             gone == shut \o Farewell("gone")
  <2>2. bye \in Seq(Event) /\ Len(bye) >= Len(events)
    BY <1>1, <1>5, <2>1
  <2> HIDE DEF bye
  <2>3. shut \in Seq(Event) /\ Len(shut) >= Len(bye)
    BY <1>6, <2>1, <2>2
  <2> HIDE DEF shut
  <2>4. Len(gone) >= Len(shut) /\ Len(events) \in Nat /\ Len(bye) \in Nat /\ Len(shut) \in Nat
    BY <1>1, <1>6, <2>1, <2>2, <2>3
  <2>5. events' # gone
    BY <1>1, <1>2, <2>2, <2>3, <2>4
  <2>6. QED
    BY <1>3, <1>4, <1>6, <2>5 DEF MpvFails, gone, shut, bye
<1>9. CASE TakeMessage
  BY <1>9
<1>10. CASE \/ UNCHANGED vars \/ Supervise \/ (\E p \in Playbacks : Load(p)) \/ Rejected \/ LoadfileLost
            \/ RetryLost \/ MarkWatchedAndPlayNext \/ ReportProgress \/ Timeout \/ Exit \/ ReporterRuns
  BY <1>4, <1>10 DEF vars, Supervise, Preflight, PollRuntime, CommandLost, WarmElsewhere, Load,
    Rejected, LoadfileLost, RetryLost, MarkWatchedAndPlayNext, ReportProgress, Timeout,
    PendingTimesOut, HandoffExpires, Exit, RequestExit, Shutdown, FlushEnds, ReporterRuns
<1>11. QED
  BY <1>7, <1>8, <1>9, <1>10 DEF Next, Command, LoadStep, MpvStep

\* No event takes a working mpv down: the shutdown that is on its way is either that of an
\* earlier session, which is dropped, or that of an mpv which no longer works.
THEOREM WorkingMpvStays == Spec => HealthyMpvStays
<1> DEFINE Taken == events # <<>> /\ events' = Tail(events)
           Stays1 == Taken /\ Usable(mpv) /\ mpv.heard => mpv'.session = mpv.session
<1>1. AllInv /\ [Next]_vars => Stays1
  <2>1. SUFFICES ASSUME AllInv, [Next]_vars, Taken, Usable(mpv), mpv.heard
                 PROVE  mpv'.session = mpv.session
    OBVIOUS
  <2>2. TypeOK /\ MpvInv
    BY <2>1 DEF AllInv, PlayerInv
  <2>3. TakeMessage
    BY <2>1, <2>2, EventsGrow
  <2>4. events \in Seq(Event) /\ ctl.session = mpv.session
    BY <2>2, MpvInvParts
  <2>5. EventOK(Head(events), mpv, ctl.nextId)
    BY <2>1, <2>2, <2>4 DEF MpvInv, EventsOK
  <2>6. CASE TakeStale
    BY <2>6 DEF TakeStale
  <2>7. CASE TakeEvent
    <3>1. Head(events).session = mpv.session
      BY <2>4, <2>7 DEF TakeEvent, IsCurrent
    <3>2. Head(events).kind \notin {"shutdown", "gone"}
      BY <2>1, <2>5, <3>1 DEF EventOK, Usable
    <3>3. QED
      BY <2>7, <3>2 DEF TakeEvent
  <2>8. QED
    BY <2>3, <2>6, <2>7 DEF TakeMessage
<1>2. QED
  BY <1>1, AllInvHolds, PTL DEF Spec, HealthyMpvStays

-------------------------------------------------------------------------------
(* Which files mpv still has something to say of.  es are the events on their way   *)
(* and m the mpv that the controller holds; a file is one that mpv was given.       *)
FromNow(es, m) == {i \in DOMAIN es : es[i].session = m.session /\ es[i].kind \in {"loaded", "end"}}
EndsIn(es, m) == {i \in FromNow(es, m) : es[i].kind = "end"}
\* What mpv has or speaks of was asked for.
WasAsked(es, m, a) ==
  /\ m.file \in a \cup {NoPlayback}
  /\ \A i \in DOMAIN es : es[i].of \in a \cup {NoPlayback}
IsNew(es, m, p) == m.file # p /\ \A i \in DOMAIN es : es[i].of # p
\* A file ends once, and then mpv no longer has it.
EndsOnce(es, m) ==
  \A i \in EndsIn(es, m) :
    es[i].of # m.file /\ \A j \in EndsIn(es, m) : es[i].of = es[j].of => i = j
\* mpv has been given p last: what it said of other files it said before.
OldFirst(es, m, p) ==
  /\ m.file \in {p, NoPlayback}
  /\ \A i, j \in FromNow(es, m) : es[i].of # p /\ es[j].of = p => i < j
OneEnd(es, m) == \A i \in EndsIn(es, m) : m.file = NoPlayback /\ \A j \in EndsIn(es, m) : i = j
NoEnd(es, m) == m.file = NoPlayback /\ EndsIn(es, m) = {}
\* At most one end of another file than p is on its way, and it is waited for.
OneOldEnd(es, m, p, waited) ==
  \A i \in EndsIn(es, m) : es[i].of # p =>
    waited = TRUE /\ \A j \in EndsIn(es, m) : es[j].of # p => i = j

LEMMA StopRenewed ==
  ASSUME NEW es, NEW m, m.file = NoPlayback, \A i \in DOMAIN es : es[i].session # m.session
  PROVE  /\ EndsOnce(es, m) /\ OneEnd(es, m) /\ NoEnd(es, m)
         /\ \A p : OldFirst(es, m, p) /\ \A r : OneOldEnd(es, m, p, r)
<1>1. FromNow(es, m) = {} /\ EndsIn(es, m) = {}
  BY DEF FromNow, EndsIn
<1>2. QED
  BY <1>1 DEF EndsOnce, OneEnd, NoEnd, OldFirst, OneOldEnd

\* mpv says something of the file it has, and may have it no longer.
LEMMA StopExtended ==
  ASSUME NEW es, NEW m, NEW f, NEW w, w.session = m.session, w.file \in {m.file, NoPlayback},
         DOMAIN es \subseteq DOMAIN f, \A i \in DOMAIN es : f[i] = es[i],
         \A i \in DOMAIN f \ DOMAIN es : \A j \in DOMAIN es : j < i /\ ~(i < j),
         \A i \in FromNow(f, w) \ DOMAIN es : f[i].of = m.file /\ m.file # NoPlayback,
         \A i \in EndsIn(f, w) \ DOMAIN es :
           w.file = NoPlayback /\ \A j \in EndsIn(f, w) \ DOMAIN es : i = j,
         \A i \in EndsIn(es, m) : es[i].of # NoPlayback
  PROVE  /\ EndsOnce(es, m) => EndsOnce(f, w)
         /\ OneEnd(es, m) => OneEnd(f, w)
         /\ NoEnd(es, m) => NoEnd(f, w)
         /\ \A p : OldFirst(es, m, p) => OldFirst(f, w, p)
         /\ \A p, r : OldFirst(es, m, p) /\ OneOldEnd(es, m, p, r) => OneOldEnd(f, w, p, r)
<1>1. \A i \in DOMAIN es : /\ i \in FromNow(f, w) <=> i \in FromNow(es, m)
                           /\ i \in EndsIn(f, w) <=> i \in EndsIn(es, m)
  BY DEF FromNow, EndsIn
<1>2. /\ FromNow(es, m) \subseteq DOMAIN es /\ EndsIn(es, m) \subseteq FromNow(es, m)
      /\ EndsIn(f, w) \subseteq FromNow(f, w)
  BY DEF FromNow, EndsIn
<1>3. EndsOnce(es, m) => EndsOnce(f, w)
  <2>1. SUFFICES ASSUME EndsOnce(es, m), NEW i \in EndsIn(f, w)
                 PROVE  /\ f[i].of # w.file
                        /\ \A j \in EndsIn(f, w) : f[i].of = f[j].of => i = j
    BY DEF EndsOnce
  <2>2. CASE i \in DOMAIN es
    BY <1>1, <1>2, <2>1, <2>2 DEF EndsOnce
  <2>3. CASE i \notin DOMAIN es
    BY <1>1, <1>2, <2>1, <2>3 DEF EndsOnce
  <2>4. QED
    BY <2>2, <2>3
<1>4. OneEnd(es, m) => OneEnd(f, w)
  BY <1>1, <1>2 DEF OneEnd
<1>5. NoEnd(es, m) => NoEnd(f, w)
  BY <1>1, <1>2 DEF NoEnd
<1>6. ASSUME NEW p, OldFirst(es, m, p) PROVE OldFirst(f, w, p)
  <2>1. ASSUME NEW i \in FromNow(f, w), NEW j \in FromNow(f, w), f[i].of # p, f[j].of = p
        PROVE  i < j
    <3>1. i \in DOMAIN es
      BY <1>6, <2>1 DEF OldFirst
    <3>2. CASE j \in DOMAIN es
      BY <1>1, <1>2, <1>6, <2>1, <3>1, <3>2 DEF OldFirst
    <3>3. CASE j \notin DOMAIN es
      BY <2>1, <3>1, <3>3 DEF FromNow
    <3>4. QED
      BY <3>2, <3>3
  <2>2. QED
    BY <1>6, <2>1 DEF OldFirst
<1>7. ASSUME NEW p, NEW r, OldFirst(es, m, p), OneOldEnd(es, m, p, r) PROVE OneOldEnd(f, w, p, r)
  <2>1. \A i \in EndsIn(f, w) : f[i].of # p => i \in EndsIn(es, m) /\ es[i].of = f[i].of
    BY <1>1, <1>2, <1>7 DEF OldFirst
  <2>2. QED
    BY <1>7, <2>1 DEF OneOldEnd
<1>8. QED
  BY <1>3, <1>4, <1>5, <1>6, <1>7

\* mpv takes a file it never had: the one it has ends.
LEMMA StopAccepted ==
  ASSUME NEW es, NEW m, NEW f, NEW w, NEW q, IsNew(es, m, q), w.session = m.session, w.file = q,
         DOMAIN es \subseteq DOMAIN f, \A i \in DOMAIN es : f[i] = es[i],
         \A i \in DOMAIN f \ DOMAIN es : f[i].of = m.file /\ m.file # NoPlayback,
         \A i, j \in DOMAIN f \ DOMAIN es : i = j,
         EndsOnce(es, m)
  PROVE  /\ EndsOnce(f, w) /\ OldFirst(f, w, q)
         /\ OneEnd(es, m) => OneOldEnd(f, w, q, TRUE)
         /\ \A r : NoEnd(es, m) => OneOldEnd(f, w, q, r)
<1>1. \A i \in DOMAIN es : i \in EndsIn(f, w) <=> i \in EndsIn(es, m)
  BY DEF FromNow, EndsIn
<1>2. /\ FromNow(f, w) \subseteq DOMAIN f /\ EndsIn(f, w) \subseteq FromNow(f, w)
      /\ EndsIn(es, m) \subseteq DOMAIN es
  BY DEF FromNow, EndsIn
<1>3. \A i \in DOMAIN f : f[i].of # q
  BY DEF IsNew
<1>4. EndsOnce(f, w)
  BY <1>1, <1>2, <1>3 DEF EndsOnce
<1>5. OldFirst(f, w, q)
  BY <1>2, <1>3 DEF OldFirst
<1>6. OneEnd(es, m) => OneOldEnd(f, w, q, TRUE)
  BY <1>1, <1>2 DEF OneEnd, OneOldEnd
<1>7. ASSUME NEW r, NoEnd(es, m) PROVE OneOldEnd(f, w, q, r)
  BY <1>1, <1>2, <1>7 DEF NoEnd, OneOldEnd
<1>8. QED
  BY <1>4, <1>5, <1>6, <1>7

\* What the first event leaves, whatever it is and when it is a file's.
LEMMA StopTail ==
  ASSUME NEW es \in Seq(Event), es # <<>>, NEW m, NEW t, t = Tail(es)
  PROVE  /\ EndsOnce(es, m) => EndsOnce(t, m)
         /\ OneEnd(es, m) => OneEnd(t, m)
         /\ NoEnd(es, m) => NoEnd(t, m)
         /\ \A p : OldFirst(es, m, p) => OldFirst(t, m, p)
         /\ \A p, r : OneOldEnd(es, m, p, r) => OneOldEnd(t, m, p, r)
         /\ 1 \in EndsIn(es, m) /\ OneEnd(es, m) => NoEnd(t, m)
         /\ \A p, r : 1 \in EndsIn(es, m) /\ es[1].of # p /\ OneOldEnd(es, m, p, r)
                        => r = TRUE /\ OneOldEnd(t, m, p, FALSE)
         /\ \A p : 1 \in FromNow(es, m) /\ es[1].of = p /\ OldFirst(es, m, p)
                        => /\ m.file \in {p, NoPlayback}
                           /\ \A i \in FromNow(t, m) : t[i].of = p
         /\ \A p : 1 \in EndsIn(es, m) /\ EndsOnce(es, m) /\ es[1].of = p
                     => m.file # p /\ \A i \in EndsIn(t, m) : t[i].of # p
<1>1. /\ Len(es) \in Nat /\ Len(es) >= 1 /\ DOMAIN es = 1 .. Len(es) /\ DOMAIN t = 1 .. Len(es) - 1
      /\ \A i \in DOMAIN t : t[i] = es[i + 1]
  OBVIOUS
<1>2. \A i \in DOMAIN t : /\ i \in Nat /\ i + 1 \in DOMAIN es /\ i + 1 # 1
                          /\ i \in FromNow(t, m) <=> i + 1 \in FromNow(es, m)
                          /\ i \in EndsIn(t, m) <=> i + 1 \in EndsIn(es, m)
  BY <1>1 DEF FromNow, EndsIn
<1>3. /\ FromNow(t, m) \subseteq DOMAIN t /\ EndsIn(t, m) \subseteq FromNow(t, m)
      /\ EndsIn(es, m) \subseteq FromNow(es, m) /\ FromNow(es, m) \subseteq Nat
  BY <1>1 DEF FromNow, EndsIn
<1>4. \A i, j \in DOMAIN t : i + 1 = j + 1 => i = j
  BY <1>1
<1>5. \A i, j \in DOMAIN t : i + 1 < j + 1 => i < j
  BY <1>1
<1>6. \A i \in DOMAIN t : ~(i + 1 < 1)
  BY <1>1
<1>7. EndsOnce(es, m) => EndsOnce(t, m)
  BY <1>1, <1>2, <1>3, <1>4 DEF EndsOnce
<1>8. OneEnd(es, m) => OneEnd(t, m)
  BY <1>1, <1>2, <1>3, <1>4 DEF OneEnd
<1>9. NoEnd(es, m) => NoEnd(t, m)
  BY <1>1, <1>2, <1>3 DEF NoEnd
<1>10. ASSUME NEW p, OldFirst(es, m, p) PROVE OldFirst(t, m, p)
  BY <1>1, <1>2, <1>3, <1>5, <1>10 DEF OldFirst
<1>11. ASSUME NEW p, NEW r, OneOldEnd(es, m, p, r) PROVE OneOldEnd(t, m, p, r)
  BY <1>1, <1>2, <1>3, <1>4, <1>11 DEF OneOldEnd
<1>12. ASSUME 1 \in EndsIn(es, m), OneEnd(es, m) PROVE NoEnd(t, m)
  BY <1>1, <1>2, <1>3, <1>12 DEF OneEnd, NoEnd
<1>13. ASSUME NEW p, NEW r, 1 \in EndsIn(es, m), es[1].of # p, OneOldEnd(es, m, p, r)
       PROVE  r = TRUE /\ OneOldEnd(t, m, p, FALSE)
  <2>1. r = TRUE /\ \A j \in EndsIn(es, m) : es[j].of # p => 1 = j
    BY <1>13 DEF OneOldEnd
  <2>2. \A i \in EndsIn(t, m) : t[i].of = p
    BY <1>1, <1>2, <1>3, <2>1
  <2>3. QED
    BY <2>1, <2>2 DEF OneOldEnd
<1>14. ASSUME NEW p, 1 \in FromNow(es, m), es[1].of = p, OldFirst(es, m, p)
       PROVE  m.file \in {p, NoPlayback} /\ \A i \in FromNow(t, m) : t[i].of = p
  BY <1>1, <1>2, <1>3, <1>6, <1>14 DEF OldFirst
<1>15. ASSUME NEW p, 1 \in EndsIn(es, m), EndsOnce(es, m), es[1].of = p
       PROVE  m.file # p /\ \A i \in EndsIn(t, m) : t[i].of # p
  BY <1>1, <1>2, <1>3, <1>15 DEF EndsOnce
<1>16. QED
  BY <1>7, <1>8, <1>9, <1>10, <1>11, <1>12, <1>13, <1>14, <1>15

-------------------------------------------------------------------------------
(* The stop of a replaced file *)
\* No deadline has passed, no event was taken for another file's, no handoff is on.
Undisturbed == misled = FALSE /\ timeouts = 0 /\ ctl.handoff = FALSE
\* The controller has no file, and none to replace.
Bare == ctl.phase = "idle" /\ (IF pc = "loadfile" THEN incoming.replacing ELSE ctl.active) = FALSE
\* While nothing disturbs, no end is on its way but that of the file mpv had last; a load
\* finds at most that one, and waits for it.
StopInv ==
  /\ WasAsked(events, mpv, asked)
  /\ EndsOnce(events, mpv)
  /\ pc = "loadfile" => incoming.load \in asked /\ IsNew(events, mpv, incoming.load)
  /\ ctl.phase = "loading" => OldFirst(events, mpv, ctl.load)
  /\ Undisturbed /\ ctl.phase = "loading" => OneOldEnd(events, mpv, ctl.load, ctl.replaced)
  /\ Undisturbed /\ ctl.phase # "loading" => OneEnd(events, mpv)
  /\ Undisturbed /\ Bare => NoEnd(events, mpv)
\* A load under way goes on with a file that mpv has not had.
LoadGoesOn == pc' = "loadfile" => incoming'.load \in asked' /\ IsNew(events', mpv', incoming'.load)

LEMMA StopRenews ==
  ASSUME TypeOK, MpvInv, StopInv, mpv'.file = NoPlayback,
         mpv'.session = NoSession \/ mpv'.session = ctl.nextId,
         \A i \in DOMAIN events' : \E j \in DOMAIN events : events'[i] = events[j],
         asked \subseteq asked', LoadGoesOn
  PROVE  StopInv'
<1>1. \A j \in DOMAIN events : events[j].session # mpv'.session
  BY MpvInvParts DEF MpvInv, EventsOK, EventOK, NoSession
<1>2. \A i \in DOMAIN events' : events'[i].session # mpv'.session
  BY <1>1
<1>3. /\ EndsOnce(events', mpv') /\ OneEnd(events', mpv') /\ NoEnd(events', mpv')
      /\ \A p : OldFirst(events', mpv', p) /\ \A r : OneOldEnd(events', mpv', p, r)
  BY <1>2, StopRenewed
<1>4. WasAsked(events', mpv', asked')
  BY DEF StopInv, WasAsked
<1>5. QED
  BY <1>3, <1>4 DEF StopInv, LoadGoesOn

LEMMA StopKeeps ==
  ASSUME StopInv, mpv' = mpv, events' = events, asked \subseteq asked', LoadGoesOn,
         ctl'.phase = "loading" => ctl.phase = "loading" /\ ctl'.load = ctl.load,
         Undisturbed' => /\ Undisturbed /\ (Bare' => Bare)
                         /\ ctl'.phase = "loading" => ctl'.replaced = ctl.replaced
                         /\ ctl'.phase # "loading" => ctl.phase # "loading"
  PROVE  StopInv'
<1>1. WasAsked(events', mpv', asked')
  BY DEF StopInv, WasAsked
<1>2. EndsOnce(events', mpv') /\ (ctl'.phase = "loading" => OldFirst(events', mpv', ctl'.load))
  BY DEF StopInv
<1>3. /\ Undisturbed' /\ ctl'.phase = "loading" => OneOldEnd(events', mpv', ctl'.load, ctl'.replaced)
      /\ Undisturbed' /\ ctl'.phase # "loading" => OneEnd(events', mpv')
      /\ Undisturbed' /\ Bare' => NoEnd(events', mpv')
  BY DEF StopInv
<1>4. QED
  BY <1>1, <1>2, <1>3 DEF StopInv, LoadGoesOn

\* What mpv says by itself: the controller has not heard it yet.
LEMMA StopSaid ==
  ASSUME TypeOK, MpvInv, StopInv, UNCHANGED <<ctl, pc, incoming, asked, timeouts, misled>>,
         mpv'.session = mpv.session, mpv'.file \in {mpv.file, NoPlayback},
         NEW more \in Seq(Event), events' = events \o more,
         \A i \in DOMAIN more : more[i].of \in {mpv.file, NoPlayback},
         \A i \in DOMAIN more : more[i].kind \in {"loaded", "end"}
            => mpv.file # NoPlayback /\ more[i].of = mpv.file,
         \A i \in DOMAIN more : more[i].kind = "end"
            => mpv'.file = NoPlayback /\ \A j \in DOMAIN more : more[j].kind = "end" => i = j
  PROVE  StopInv'
<1>1. events \in Seq(Event)
  BY MpvInvParts
<1>2. /\ DOMAIN events \subseteq DOMAIN events' /\ \A i \in DOMAIN events : events'[i] = events[i]
      /\ \A i \in DOMAIN events' \ DOMAIN events : \A j \in DOMAIN events : j < i /\ ~(i < j)
      /\ \A i \in DOMAIN events' \ DOMAIN events :
           i - Len(events) \in DOMAIN more /\ events'[i] = more[i - Len(events)]
      /\ \A i, j \in DOMAIN events' \ DOMAIN events : i - Len(events) = j - Len(events) => i = j
  BY <1>1
<1>3. \A i \in FromNow(events', mpv') \ DOMAIN events :
        events'[i].of = mpv.file /\ mpv.file # NoPlayback
  BY <1>2 DEF FromNow
<1>4. \A i \in EndsIn(events', mpv') \ DOMAIN events :
        mpv'.file = NoPlayback /\ \A j \in EndsIn(events', mpv') \ DOMAIN events : i = j
  <2>1. EndsIn(events', mpv') \subseteq DOMAIN events'
        /\ \A i \in EndsIn(events', mpv') : events'[i].kind = "end"
    BY DEF EndsIn, FromNow
  <2>2. QED
    BY <1>2, <2>1
<1>5. \A i \in EndsIn(events, mpv) : events[i].of # NoPlayback
  BY Parameters DEF EndsIn, FromNow, MpvInv, EventsOK, EventOK
<1>6. /\ EndsOnce(events, mpv) => EndsOnce(events', mpv')
      /\ OneEnd(events, mpv) => OneEnd(events', mpv')
      /\ NoEnd(events, mpv) => NoEnd(events', mpv')
      /\ \A p : OldFirst(events, mpv, p) => OldFirst(events', mpv', p)
      /\ \A p, r : OldFirst(events, mpv, p) /\ OneOldEnd(events, mpv, p, r)
                      => OneOldEnd(events', mpv', p, r)
  BY <1>2, <1>3, <1>4, <1>5, StopExtended
<1>7. WasAsked(events', mpv', asked')
  BY <1>2 DEF StopInv, WasAsked
<1>8. pc' = "loadfile" => incoming'.load \in asked' /\ IsNew(events', mpv', incoming'.load)
  <2>1. SUFFICES ASSUME pc = "loadfile" PROVE incoming.load \in asked /\ IsNew(events', mpv', incoming.load)
    OBVIOUS
  <2>2. incoming.load \in asked /\ IsNew(events, mpv, incoming.load) /\ incoming.load # NoPlayback
    BY <2>1, Parameters DEF StopInv, TypeOK
  <2>3. QED
    BY <1>2, <2>2 DEF IsNew
<1>9. (Undisturbed' <=> Undisturbed) /\ (Bare' <=> Bare) /\ ctl' = ctl
  BY DEF Undisturbed, Bare
<1>10. QED
  BY <1>6, <1>7, <1>8, <1>9 DEF StopInv

LEMMA MpvStepStop ==
  ASSUME TypeOK, MpvInv, StopInv, MpvStep \/ Stop PROVE StopInv'
<1>1. UNCHANGED <<ctl, pc, incoming, asked, timeouts, misled>> /\ mpv \in Runtime
      /\ events \in Seq(Event)
  BY MpvInvParts DEF MpvStep, Stop, FileLoads, FileEnds, MpvFails, env
<1>2. /\ \A kind \in {"loaded", "end"} : \A reason \in {"eof", "stop", "error", "quit", "none"} :
            Says(kind, reason) \in Seq(Event)
      /\ Farewell("shutdown") \in Seq(Event) /\ Farewell("gone") \in Seq(Event)
  BY <1>1, SaysType DEF Reasons
<1>3. /\ \A kind, reason : \A i \in DOMAIN Says(kind, reason) :
            /\ i = 1 /\ mpv.file # NoPlayback /\ Says(kind, reason)[i].kind = kind
            /\ Says(kind, reason)[i].of = mpv.file
      /\ \A kind : \A i \in DOMAIN Farewell(kind) :
            Farewell(kind)[i].kind = kind /\ Farewell(kind)[i].of = NoPlayback
  BY DEF Says, Farewell
<1>4. CASE FileEnds \/ Stop
  <2>1. PICK reason \in {"eof", "stop", "error"} : EndFile(reason)
    BY <1>4 DEF FileEnds, Stop
  <2> DEFINE more == Says("end", reason)
  <2>2. /\ mpv'.session = mpv.session /\ mpv'.file = NoPlayback
        /\ events' = events \o more /\ more \in Seq(Event)
    BY <1>1, <1>2, <2>1 DEF EndFile, Runtime
  <2>3. \A i \in DOMAIN more : i = 1 /\ mpv.file # NoPlayback /\ more[i].of = mpv.file
    BY <1>3
  <2> HIDE DEF more
  <2>4. QED
    BY <1>1, <2>2, <2>3, StopSaid
<1>5. CASE FileLoads
  <2> DEFINE more == Says("loaded", "none")
  <2>1. /\ mpv'.session = mpv.session /\ mpv'.file = mpv.file
        /\ events' = events \o more /\ more \in Seq(Event)
    BY <1>1, <1>2, <1>5 DEF FileLoads, Runtime
  <2>2. \A i \in DOMAIN more : /\ mpv.file # NoPlayback /\ more[i].of = mpv.file
                               /\ more[i].kind # "end"
    BY <1>3
  <2> HIDE DEF more
  <2>3. QED
    BY <1>1, <2>1, <2>2, StopSaid
<1>6. CASE MpvFails
  <2>1. mpv'.session = mpv.session /\ mpv'.file \in {mpv.file, NoPlayback}
    BY <1>1, <1>6, NoMpvType DEF MpvFails, Runtime
  <2>2. ASSUME NEW more \in Seq(Event), events' = events \o more,
               \A i \in DOMAIN more : more[i].kind \notin {"loaded", "end"} /\ more[i].of = NoPlayback
        PROVE  StopInv'
    BY <1>1, <2>1, <2>2, StopSaid
  <2>3. CASE events' = events \o Farewell("gone")
    <3> DEFINE more == Farewell("gone")
    <3>1. more \in Seq(Event) /\ events' = events \o more
      BY <1>2, <2>3
    <3>2. \A i \in DOMAIN more : more[i].kind \notin {"loaded", "end"} /\ more[i].of = NoPlayback
      BY <1>3
    <3> HIDE DEF more
    <3>3. QED
      BY <2>2, <3>1, <3>2
  <2>4. CASE events' = events
    <3>1. events' = events \o <<>> /\ <<>> \in Seq(Event) /\ DOMAIN <<>> = {}
      BY <1>1, <2>4
    <3>2. QED
      BY <2>2, <3>1
  <2>5. CASE /\ mpv' = [NoMpv EXCEPT !.session = mpv.session]
             /\ events' = events \o Says("end", "quit") \o Farewell("shutdown") \o Farewell("gone")
    <3> DEFINE bye == Says("end", "quit")
               shut == Farewell("shutdown")
               gone == Farewell("gone")
               more == bye \o shut \o gone
    <3>1. mpv'.file = NoPlayback
      BY <2>5, NoMpvType DEF Runtime
    <3>2. /\ bye \in Seq(Event) /\ shut \in Seq(Event) /\ gone \in Seq(Event)
          /\ events' = events \o bye \o shut \o gone
      BY <1>2, <2>5
    <3>3. /\ \A i \in DOMAIN bye : i = 1 /\ mpv.file # NoPlayback /\ bye[i].of = mpv.file
          /\ \A i \in DOMAIN shut : shut[i].kind \notin {"loaded", "end"} /\ shut[i].of = NoPlayback
          /\ \A i \in DOMAIN gone : gone[i].kind \notin {"loaded", "end"} /\ gone[i].of = NoPlayback
      BY <1>3
    <3> HIDE DEF bye, shut, gone
    <3>4. \A i \in DOMAIN more :
            \/ i \in DOMAIN bye /\ more[i] = bye[i]
            \/ \E k \in DOMAIN shut : more[i] = shut[k]
            \/ \E k \in DOMAIN gone : more[i] = gone[k]
      BY <3>2
    <3>5. more \in Seq(Event) /\ events' = events \o more
      <4>1. bye \o shut \in Seq(Event) /\ more \in Seq(Event)
        BY <3>2, ConcatIs
      <4>2. \A q, r, w \in Seq(Event) : (q \o r) \o w = q \o (r \o w)
        BY ConcatAssociative
      <4> HIDE DEF more
      <4>3. more = (bye \o shut) \o gone
        BY DEF more
      <4>4. events' = ((events \o bye) \o shut) \o gone
        BY <3>2
      <4>5. events' = (events \o (bye \o shut)) \o gone
        BY <1>1, <3>2, <4>2, <4>4, Zenon
      <4>6. events' = events \o ((bye \o shut) \o gone)
        BY <1>1, <3>2, <4>1, <4>2, <4>5, Zenon
      <4>7. events' = events \o more
        BY <4>3, <4>6, Zenon
      <4> QED
        BY <4>1, <4>7
    <3> HIDE DEF more
    <3>6. \A i \in DOMAIN more :
            \/ i = 1 /\ mpv.file # NoPlayback /\ more[i].of = mpv.file
            \/ more[i].kind \notin {"loaded", "end"} /\ more[i].of = NoPlayback
      BY <3>3, <3>4
    <3>7. QED
      BY <1>1, <2>1, <3>1, <3>5, <3>6, StopSaid
  <2>6. QED
    BY <1>6, <2>3, <2>4, <2>5 DEF MpvFails
<1>7. QED
  BY <1>4, <1>5, <1>6 DEF MpvStep

\* An mpv that was restarted or given up has no file.
LEMMA LostStop ==
  ASSUME TypeOK, Lost
  PROVE  mpv'.file = NoPlayback /\ (mpv'.session = NoSession \/ mpv'.session = ctl.nextId)
<1> DEFINE c == Reset(Finished(ctl, "quit"))
<1>1. CtlOK(ctl)
  BY MpvInvParts
<1>2. CtlOK(c)
  BY <1>1, FinishedOK, ResetOK
<1>3. PICK o \in Ensured(c, NoMpv, FALSE) : mpv' = o.mpv
  BY DEF Lost
<1> HIDE DEF c
<1>4. Kept(c, NoMpv, o) \/ Renewed(c, NoMpv, o)
  BY <1>2, <1>3, EnsuredOK, NoMpvType
<1>5. mpv'.file = NoPlayback
  BY <1>3, <1>4, NoMpvType DEF Kept, Renewed
<1>6. QED
  BY <1>5, LostOK, NoMpvType

LEMMA EnsureStop ==
  ASSUME TypeOK, NEW moved, NEW o \in Ensured(ctl, mpv, moved), mpv' = o.mpv
  PROVE  \/ Kept(ctl, mpv, o)
         \/ /\ mpv'.file = NoPlayback
            /\ mpv'.session = NoSession \/ mpv'.session = ctl.nextId
<1>1. ctl \in Ctl /\ CtlOK(ctl) /\ mpv \in Runtime
  BY MpvInvParts
<1>2. CASE Renewed(ctl, mpv, o)
  BY <1>1, <1>2, StartedType, NoMpvType DEF Renewed
<1>3. QED
  BY <1>1, <1>2, EnsuredOK

LEMMA SuperviseStop ==
  ASSUME TypeOK, MpvInv, StopInv, Supervise PROVE StopInv'
<1>1. events' = events /\ asked' = asked /\ pc = "ready" /\ pc' = pc /\ LoadGoesOn
  BY DEF Supervise, Preflight, WarmElsewhere, PollRuntime, CommandLost, LoadGoesOn
<1>2. CASE PollRuntime \/ CommandLost
  BY <1>1, <1>2, LostStop, StopRenews DEF PollRuntime, CommandLost
<1>3. CASE Preflight \/ WarmElsewhere
  <2>1. PICK moved \in BOOLEAN :
          \E o \in Ensured(ctl, mpv, moved) : ctl' = o.ctl /\ mpv' = o.mpv
    BY <1>3 DEF Preflight, WarmElsewhere
  <2>2. PICK o \in Ensured(ctl, mpv, moved) : ctl' = o.ctl /\ mpv' = o.mpv
    BY <2>1
  <2>3. misled' = (misled \/ Abandons) /\ timeouts' = timeouts /\ incoming' = incoming
    BY <1>3 DEF Preflight, WarmElsewhere
  <2>4. CASE Kept(ctl, mpv, o)
    <3>1. mpv' = mpv /\ ctl' = ctl
      BY <2>2, <2>4 DEF Kept
    <3>2. Undisturbed' => Undisturbed
      BY <2>3, <3>1 DEF Undisturbed, TypeOK
    <3>3. Bare' => Bare
      BY <1>1, <3>1 DEF Bare
    <3>4. QED
      BY <1>1, <3>1, <3>2, <3>3, StopKeeps
  <2>5. QED
    BY <1>1, <2>2, <2>4, EnsureStop, StopRenews
<1>4. QED
  BY <1>2, <1>3 DEF Supervise

LEMMA LoadStop ==
  ASSUME TypeOK, MpvInv, StopInv, NEW p \in Playbacks, Load(p) PROVE StopInv'
<1> DEFINE Loads(o) ==
             /\ mpv' = o.mpv
             /\ IF o.ok THEN /\ pc' = "loadfile"
                             /\ incoming' = [NoLoad EXCEPT !.load = p,
                                               !.replacing = o.ctl.active \/ o.ctl.phase = "playing"]
                             /\ ctl' = [o.ctl EXCEPT !.phase = "idle", !.load = NoPlayback]
                        ELSE ctl' = o.ctl /\ UNCHANGED <<pc, incoming>>
<1>1. /\ pc = "ready" /\ events' = events /\ misled' = misled /\ timeouts' = timeouts
      /\ asked' = asked \cup {p} /\ p \notin asked /\ ctl.phase # "loading"
      /\ ctl \in Ctl /\ CtlOK(ctl) /\ mpv \in Runtime /\ p # NoPlayback
  BY MpvInvParts, Parameters DEF Load
<1>2. PICK moved \in BOOLEAN : \E o \in Ensured(ctl, mpv, moved) : Loads(o)
  BY DEF Load
<1>3. PICK o \in Ensured(ctl, mpv, moved) : Loads(o)
  BY <1>2
<1>4. mpv'.file \in {mpv.file, NoPlayback}
  BY <1>3, EnsureStop DEF Kept
<1>5. IsNew(events', mpv', p)
  BY <1>1, <1>4 DEF StopInv, WasAsked, IsNew
<1>6. LoadGoesOn
  <2>1. o.ok => incoming'.load = p
    BY <1>3 DEF NoLoad
  <2>2. QED
    BY <1>1, <1>3, <1>5, <2>1 DEF LoadGoesOn
<1>7. CASE Kept(ctl, mpv, o)
  <2>1. o.ctl = ctl /\ mpv' = mpv
    BY <1>3, <1>7 DEF Kept
  <2>2. ctl'.phase # "loading" /\ ctl'.handoff = ctl.handoff
    BY <1>1, <1>3, <2>1 DEF Ctl
  <2>3. Undisturbed' => Undisturbed
    BY <1>1, <2>2 DEF Undisturbed
  <2>4. Bare' => Bare
    <3>1. CASE o.ok
      <4>1. incoming'.replacing = (ctl.active \/ ctl.phase = "playing") /\ pc' = "loadfile"
        BY <1>3, <2>1, <3>1 DEF NoLoad
      <4>2. ctl.active \in BOOLEAN /\ ctl.phase \in {"idle", "playing"}
        BY <1>1 DEF Ctl
      <4>3. QED
        BY <1>1, <4>1, <4>2 DEF Bare
    <3>2. CASE ~o.ok
      BY <1>1, <1>3, <2>1, <3>2 DEF Bare
    <3>3. QED
      BY <3>1, <3>2
  <2>5. QED
    BY <1>1, <1>6, <2>1, <2>2, <2>3, <2>4, StopKeeps
<1>8. QED
  BY <1>1, <1>3, <1>6, <1>7, EnsureStop, StopRenews

LEMMA LoadStepStop ==
  ASSUME TypeOK, ReportsInv, MpvInv, StopInv, LoadStep PROVE StopInv'
<1>1. /\ events \in Seq(Event) /\ mpv \in Runtime /\ ctl \in Ctl /\ CtlOK(ctl)
      /\ misled' = misled /\ timeouts' = timeouts /\ asked' = asked
  BY MpvInvParts DEF LoadStep, Accepted, Rejected, LoadfileLost, RetryLost, env
<1>2. /\ pc = "loadfile" /\ ctl.phase = "idle" /\ incoming.load \in asked
      /\ IsNew(events, mpv, incoming.load) /\ incoming.load # NoPlayback
  BY Parameters DEF LoadStep, Accepted, Rejected, LoadfileLost, RetryLost, ReportsInv, StopInv, TypeOK
<1>3. CASE Accepted
  <2> DEFINE q == incoming.load
             e == [kind |-> "end", session |-> mpv.session, reason |-> "stop", of |-> mpv.file]
  <2>1. /\ ctl' = [ctl EXCEPT !.phase = "loading", !.load = q, !.active = TRUE,
                              !.replaced = incoming.replacing]
        /\ mpv' = [mpv EXCEPT !.file = q, !.opened = FALSE] /\ pc' = "ready"
        /\ events' = events \o Says("end", "stop")
    BY <1>3 DEF Accepted
  <2>2. /\ ctl'.phase = "loading" /\ ctl'.load = q /\ ctl'.replaced = incoming.replacing
        /\ ctl'.handoff = ctl.handoff /\ mpv'.session = mpv.session /\ mpv'.file = q
    BY <1>1, <2>1 DEF Ctl, Runtime
  <2>3. (events' = events \o <<e>> /\ mpv.file # NoPlayback) \/ events' = events
    BY <1>1, <2>1 DEF Says
  <2>4. e.of = mpv.file
    OBVIOUS
  <2> HIDE DEF e
  <2>5. /\ DOMAIN events \subseteq DOMAIN events' /\ \A i \in DOMAIN events : events'[i] = events[i]
        /\ \A i \in DOMAIN events' \ DOMAIN events : events'[i].of = mpv.file /\ mpv.file # NoPlayback
        /\ \A i, j \in DOMAIN events' \ DOMAIN events : i = j
    <3>1. CASE events' = events \o <<e>> /\ mpv.file # NoPlayback
      BY <1>1, <2>4, <3>1
    <3>2. CASE events' = events
      BY <3>2
    <3>3. QED
      BY <2>3, <3>1, <3>2
  <2>6. EndsOnce(events, mpv)
    BY DEF StopInv
  <2>7. /\ EndsOnce(events', mpv') /\ OldFirst(events', mpv', q)
        /\ OneEnd(events, mpv) => OneOldEnd(events', mpv', q, TRUE)
        /\ \A r : NoEnd(events, mpv) => OneOldEnd(events', mpv', q, r)
    BY <1>2, <2>2, <2>5, <2>6, StopAccepted
  <2>8. WasAsked(events', mpv', asked')
    BY <1>1, <1>2, <2>2, <2>5 DEF StopInv, WasAsked
  <2>9. Undisturbed' => OneOldEnd(events', mpv', q, incoming.replacing)
    <3>1. SUFFICES ASSUME Undisturbed' PROVE OneOldEnd(events', mpv', q, incoming.replacing)
      OBVIOUS
    <3>2. Undisturbed
      BY <1>1, <2>2, <3>1 DEF Undisturbed
    <3>3. incoming.replacing \in BOOLEAN
      BY DEF TypeOK
    <3>4. CASE incoming.replacing = TRUE
      BY <1>2, <2>7, <3>2, <3>4 DEF StopInv
    <3>5. CASE incoming.replacing = FALSE
      <4>1. Bare
        BY <1>2, <3>5 DEF Bare
      <4>2. QED
        BY <2>7, <3>2, <4>1 DEF StopInv
    <3>6. QED
      BY <3>3, <3>4, <3>5
  <2>10. ~Bare'
    BY <2>2 DEF Bare
  <2>11. QED
    BY <2>1, <2>2, <2>7, <2>8, <2>9, <2>10 DEF StopInv
<1>4. CASE Rejected
  <2> DEFINE c == [ctl EXCEPT !.active = FALSE]
  <2>1. /\ pc' = "ready" /\ events' = events /\ LoadGoesOn
        /\ \/ ctl' = Reset(c) /\ mpv' = NoMpv
           \/ ctl' = c /\ mpv' = mpv /\ incoming.replacing = FALSE
    BY <1>4 DEF Rejected, TypeOK, LoadGoesOn
  <2>2. CASE ctl' = Reset(c) /\ mpv' = NoMpv
    BY <1>1, <2>1, <2>2, NoMpvType, StopRenews
  <2>3. CASE ctl' = c /\ mpv' = mpv /\ incoming.replacing = FALSE
    <3>1. ctl'.phase = "idle" /\ ctl'.handoff = ctl.handoff
      BY <1>1, <1>2, <2>3 DEF Ctl
    <3>2. Undisturbed' => Undisturbed
      BY <1>1, <3>1 DEF Undisturbed
    <3>3. Bare
      BY <1>2, <2>3 DEF Bare
    <3>4. QED
      BY <1>1, <1>2, <2>1, <2>3, <3>1, <3>2, <3>3, StopKeeps
  <2>4. QED
    BY <2>1, <2>2, <2>3
<1>5. CASE LoadfileLost
  <2>1. PICK o \in Ensured(Reset(ctl), NoMpv, FALSE) : mpv' = o.mpv
    BY <1>5 DEF LoadfileLost
  <2>2. /\ events' = events /\ pc' = pc
        /\ incoming' = [incoming EXCEPT !.retried = TRUE]
    BY <1>5 DEF LoadfileLost
  <2>3. CtlOK(Reset(ctl)) /\ Reset(ctl) \in Ctl /\ Reset(ctl).nextId = ctl.nextId
    BY <1>1, ResetOK DEF CtlOK
  <2>4. Kept(Reset(ctl), NoMpv, o) \/ Renewed(Reset(ctl), NoMpv, o)
    BY <2>3, NoMpvType, EnsuredOK
  <2>5. mpv'.file = NoPlayback /\ (mpv'.session = NoSession \/ mpv'.session = ctl.nextId)
    <3>1. CASE Kept(Reset(ctl), NoMpv, o)
      BY <2>1, <3>1, NoMpvType DEF Kept
    <3>2. CASE Renewed(Reset(ctl), NoMpv, o)
      BY <2>1, <2>3, <3>2, NoMpvType, StartedType DEF Renewed
    <3>3. QED
      BY <2>4, <3>1, <3>2
  <2>6. incoming'.load = incoming.load
    BY <2>2 DEF TypeOK
  <2>7. LoadGoesOn
    BY <1>1, <1>2, <2>2, <2>5, <2>6 DEF LoadGoesOn, IsNew
  <2>8. QED
    BY <1>1, <2>2, <2>5, <2>7, StopRenews
<1>6. CASE RetryLost
  <2>1. events' = events /\ LoadGoesOn /\ Lost
    BY <1>6 DEF RetryLost, LoadGoesOn
  <2>2. QED
    BY <1>1, <2>1, LostStop, StopRenews
<1>7. QED
  BY <1>3, <1>4, <1>5, <1>6 DEF LoadStep

LEMMA FinishedStop ==
  ASSUME NEW c, CtlOK(c), NEW reason
  PROVE  LET d == Finished(c, reason) IN
         /\ Ignores(c, reason) => /\ d.phase = "loading" /\ d.load = c.load
                                  /\ d.replaced = FALSE /\ d.handoff = c.handoff
         /\ ~Ignores(c, reason) => /\ d.phase = "idle"
                                   /\ c.phase # "loading" /\ d.handoff = FALSE => c.handoff = FALSE
<1>1. c \in Ctl
  BY DEF CtlOK
<1>2. CASE Ignores(c, reason)
  BY <1>1, <1>2 DEF Finished, Ctl, Ignores
<1>3. CASE ~Ignores(c, reason)
  <2>1. Finished(c, reason) = Ended(c, reason)
    BY <1>3 DEF Finished
  <2>2. /\ Ended(c, reason).phase = "idle"
        /\ Ended(c, reason).handoff = (\/ reason = "eof" /\ (c.active \/ c.phase # "idle")
                                       \/ c.phase # "loading" /\ c.handoff)
    BY <1>1 DEF Ended, Ctl
  <2>3. c.handoff \in BOOLEAN
    BY <1>1 DEF Ctl
  <2>4. QED
    BY <1>3, <2>1, <2>2, <2>3
<1>4. QED
  BY <1>2, <1>3

\* The end or the start of the load's own file: what mpv said of others has been heard.
LEMMA OwnEvent ==
  ASSUME TypeOK, StopInv, events # <<>>, NEW p, OldFirst(events, mpv, p),
         1 \in FromNow(events, mpv), events[1].of = p
  PROVE  /\ OneEnd(Tail(events), mpv)
         /\ \A r : OneOldEnd(Tail(events), mpv, p, r)
         /\ 1 \in EndsIn(events, mpv) => NoEnd(Tail(events), mpv)
<1> DEFINE t == Tail(events)
<1>1. events \in Seq(Event) /\ t = Tail(events) /\ EndsOnce(events, mpv)
  BY MpvInvParts DEF StopInv
<1> HIDE DEF t
<1>2. /\ EndsOnce(t, mpv) /\ mpv.file \in {p, NoPlayback} /\ \A i \in FromNow(t, mpv) : t[i].of = p
      /\ 1 \in EndsIn(events, mpv) => mpv.file # p /\ \A i \in EndsIn(t, mpv) : t[i].of # p
  <2>1. EndsOnce(t, mpv)
    BY <1>1, StopTail
  <2>2. \A q : 1 \in FromNow(events, mpv) /\ events[1].of = q /\ OldFirst(events, mpv, q)
                => /\ mpv.file \in {q, NoPlayback}
                   /\ \A i \in FromNow(t, mpv) : t[i].of = q
    BY <1>1, StopTail
  <2>3. \A q : 1 \in EndsIn(events, mpv) /\ EndsOnce(events, mpv) /\ events[1].of = q
                => mpv.file # q /\ \A i \in EndsIn(t, mpv) : t[i].of # q
    BY <1>1, StopTail
  <2>4. QED
    BY <1>1, <2>1, <2>2, <2>3
<1>3. EndsIn(t, mpv) \subseteq FromNow(t, mpv)
  BY DEF EndsIn
<1>4. OneEnd(t, mpv)
  BY <1>2, <1>3 DEF OneEnd, EndsOnce
<1>5. \A r : OneOldEnd(t, mpv, p, r)
  BY <1>2, <1>3 DEF OneOldEnd
<1>6. 1 \in EndsIn(events, mpv) => NoEnd(t, mpv)
  BY <1>2, <1>3 DEF NoEnd
<1>7. QED
  BY <1>4, <1>5, <1>6 DEF t

\* While nothing disturbs, a load is ended by no other file than its own.
LEMMA OldStopIsIgnored ==
  ASSUME TypeOK, StopInv, Undisturbed, ctl.phase = "loading",
         1 \in EndsIn(events, mpv), events[1].reason = "stop", events[1].of # ctl.load
  PROVE  Ignores(ctl, "stop")
<1>1. OneOldEnd(events, mpv, ctl.load, ctl.replaced)
  BY DEF StopInv
<1>2. ctl.replaced = TRUE
  BY <1>1 DEF OneOldEnd
<1>3. QED
  BY <1>2 DEF Ignores

LEMMA TakeMessageStop ==
  ASSUME TypeOK, MpvInv, StopInv, TakeMessage PROVE StopInv'
<1>1. /\ events \in Seq(Event) /\ mpv \in Runtime /\ ctl \in Ctl /\ CtlOK(ctl)
      /\ ctl.session = mpv.session /\ misled \in BOOLEAN
  BY MpvInvParts DEF TypeOK
<1>2. /\ events # <<>> /\ events' = Tail(events) /\ pc = "ready" /\ pc' = "ready"
      /\ asked' = asked /\ timeouts' = timeouts /\ LoadGoesOn
  BY DEF TakeMessage, TakeStale, TakeEvent, env, LoadGoesOn
<1> DEFINE e == events[1]
<1>3. /\ Head(events) = e /\ 1 \in DOMAIN events /\ EventOK(e, mpv, ctl.nextId)
      /\ \A i \in DOMAIN events' : \E j \in DOMAIN events : events'[i] = events[j]
  BY <1>1, <1>2 DEF MpvInv, EventsOK
<1>4. /\ EndsOnce(events', mpv)
      /\ \A p : OldFirst(events, mpv, p) => OldFirst(events', mpv, p)
      /\ \A p, r : OneOldEnd(events, mpv, p, r) => OneOldEnd(events', mpv, p, r)
      /\ OneEnd(events, mpv) => OneEnd(events', mpv)
      /\ NoEnd(events, mpv) => NoEnd(events', mpv)
  BY <1>1, <1>2, StopTail DEF StopInv
<1>5. 1 \in EndsIn(events, mpv) /\ OneEnd(events, mpv) => NoEnd(events', mpv)
  BY <1>1, <1>2, StopTail
<1>6. \A p, r : 1 \in EndsIn(events, mpv) /\ e.of # p /\ OneOldEnd(events, mpv, p, r)
                  => r = TRUE /\ OneOldEnd(events', mpv, p, FALSE)
  BY <1>1, <1>2, StopTail
<1>7. WasAsked(events', mpv, asked)
  BY <1>3 DEF StopInv, WasAsked
<1>8. CASE ctl' = ctl /\ mpv' = mpv /\ misled' = misled
  <2>1. (Undisturbed' <=> Undisturbed) /\ (Bare' <=> Bare)
    BY <1>2, <1>8 DEF Undisturbed, Bare
  <2>2. QED
    BY <1>2, <1>4, <1>7, <1>8, <2>1 DEF StopInv
<1>9. CASE TakeEvent
  <2>1. misled' = (misled \/ Misleads(e)) /\ e.session = mpv.session
    BY <1>1, <1>3, <1>9 DEF TakeEvent, IsCurrent
  <2>2. Undisturbed' => misled = FALSE /\ ~Misleads(e) /\ timeouts = 0
    BY <1>1, <1>2, <2>1 DEF Undisturbed
  <2>3. CASE Lost
    BY <1>2, <1>3, <2>3, LostStop, StopRenews
  <2>4. CASE e.kind = "loaded" /\ ctl' = Activated(ctl) /\ mpv' = mpv
    <3>1. 1 \in FromNow(events, mpv) /\ e.of \in Playbacks /\ e.reason = "none"
      BY <1>3, <2>1, <2>4 DEF FromNow, EventOK
    <3>2. CASE ctl.phase # "loading"
      <4>1. ctl' = ctl /\ ~Misleads(e)
        BY <2>4, <3>2 DEF Activated, Misleads
      <4>2. misled' = misled
        BY <1>1, <2>1, <4>1
      <4>3. QED
        BY <1>8, <2>4, <4>1, <4>2
    <3>3. CASE ctl.phase = "loading"
      <4>1. ctl'.phase # "loading" /\ ctl'.active = TRUE /\ ctl'.handoff = FALSE
        BY <1>1, <2>4, <3>3 DEF Activated, Ctl
      <4>2. ~Bare'
        BY <1>2, <4>1 DEF Bare
      <4>3. Undisturbed' => OneEnd(events', mpv)
        <5>1. SUFFICES ASSUME Undisturbed' PROVE OneEnd(events', mpv)
          OBVIOUS
        <5>2. e.of = ctl.load
          BY <2>2, <3>1, <3>3, <5>1, Parameters DEF Misleads
        <5>3. OldFirst(events, mpv, ctl.load)
          BY <3>3 DEF StopInv
        <5>4. QED
          BY <1>2, <3>1, <5>2, <5>3, OwnEvent
      <4>4. QED
        BY <1>2, <1>4, <1>7, <2>4, <4>1, <4>2, <4>3 DEF StopInv
    <3>4. QED
      BY <3>2, <3>3
  <2>5. CASE e.kind = "end" /\ ctl' = Finished(ctl, e.reason) /\ mpv' = mpv
    <3>1. 1 \in EndsIn(events, mpv) /\ 1 \in FromNow(events, mpv) /\ e.of \in Playbacks
      BY <1>3, <2>1, <2>5 DEF FromNow, EndsIn, EventOK
    <3>2. CASE Ignores(ctl, e.reason)
      <4>1. /\ ctl.phase = "loading" /\ ctl'.phase = "loading" /\ ctl'.load = ctl.load
            /\ ctl'.replaced = FALSE /\ ctl'.handoff = ctl.handoff
        <5>1. ctl.phase = "loading"
          BY <3>2 DEF Ignores
        <5>2. QED
          BY <1>1, <2>5, <3>2, <5>1, FinishedStop, ZenonT(30)
      <4>2. OldFirst(events, mpv, ctl.load)
        BY <4>1 DEF StopInv
      <4>3. Undisturbed' => OneOldEnd(events', mpv, ctl.load, FALSE)
        <5>1. SUFFICES ASSUME Undisturbed' PROVE OneOldEnd(events', mpv, ctl.load, FALSE)
          OBVIOUS
        <5>2. Undisturbed
          BY <2>2, <4>1, <5>1 DEF Undisturbed
        <5>3. CASE e.of # ctl.load
          BY <1>6, <3>1, <4>1, <5>2, <5>3 DEF StopInv
        <5>4. CASE e.of = ctl.load
          BY <1>2, <3>1, <4>2, <5>4, OwnEvent
        <5>5. QED
          BY <5>3, <5>4
      <4>4. ~Bare'
        BY <4>1 DEF Bare
      <4>5. QED
        BY <1>2, <1>4, <1>7, <2>5, <4>1, <4>2, <4>3, <4>4 DEF StopInv
    <3>3. CASE ~Ignores(ctl, e.reason)
      <4>1. /\ ctl'.phase = "idle"
            /\ ctl.phase # "loading" /\ ctl'.handoff = FALSE => ctl.handoff = FALSE
        BY <1>1, <2>5, <3>3, FinishedStop
      <4>2. Undisturbed' => NoEnd(events', mpv)
        <5>1. SUFFICES ASSUME Undisturbed' PROVE NoEnd(events', mpv)
          OBVIOUS
        <5>2. CASE ctl.phase # "loading"
          <6>1. Undisturbed
            BY <2>2, <4>1, <5>1, <5>2 DEF Undisturbed
          <6>2. QED
            BY <1>5, <3>1, <5>2, <6>1 DEF StopInv
        <5>3. CASE ctl.phase = "loading"
          <6>1. OldFirst(events, mpv, ctl.load)
            BY <5>3 DEF StopInv
          <6>2. CASE e.of = ctl.load
            BY <1>2, <3>1, <6>1, <6>2, OwnEvent
          <6>3. CASE e.of # ctl.load
            <7>1. e.reason = "stop"
              BY <2>2, <3>1, <5>1, <5>3, <6>3, Parameters DEF Misleads
            <7>2. ctl.handoff = FALSE
              BY <1>1, <3>3, <5>3, <7>1 DEF Ignores, Ctl
            <7>3. Undisturbed
              BY <2>2, <5>1, <7>2 DEF Undisturbed
            <7>4. QED
              BY <3>1, <3>3, <5>3, <6>3, <7>1, <7>3, OldStopIsIgnored
          <6>4. QED
            BY <6>2, <6>3
        <5>4. QED
          BY <5>2, <5>3
      <4>3. NoEnd(events', mpv) => OneEnd(events', mpv)
        BY DEF NoEnd, OneEnd
      <4>4. QED
        BY <1>2, <1>4, <1>7, <2>5, <4>1, <4>2, <4>3 DEF StopInv
    <3>4. QED
      BY <3>2, <3>3
  <2>6. QED
    BY <1>3, <1>9, <2>3, <2>4, <2>5 DEF TakeEvent
<1>10. CASE TakeStale
  BY <1>8, <1>10 DEF TakeStale, env
<1>11. QED
  BY <1>9, <1>10 DEF TakeMessage

LEMMA ControlStop ==
  ASSUME TypeOK, MpvInv, StopInv,
         MarkWatchedAndPlayNext \/ ReportProgress \/ Timeout \/ Exit \/ ReporterRuns
  PROVE  StopInv'
<1>1. /\ ctl \in Ctl /\ CtlOK(ctl) /\ timeouts \in Nat
      /\ incoming' = incoming /\ (pc' = "loadfile" => pc = "loadfile")
      /\ events' = events /\ asked' = asked /\ misled' = misled
  BY MpvInvParts, Parameters DEF MarkWatchedAndPlayNext, ReportProgress, Timeout, PendingTimesOut,
    HandoffExpires, Exit, RequestExit, Shutdown, FlushEnds, ReporterRuns, env, TypeOK
<1>2. mpv' = mpv \/ mpv'.file = NoPlayback => LoadGoesOn
  <2>1. SUFFICES ASSUME mpv' = mpv \/ mpv'.file = NoPlayback, pc = "loadfile"
                 PROVE  incoming.load \in asked /\ IsNew(events, mpv', incoming.load)
    BY <1>1 DEF LoadGoesOn
  <2>2. incoming.load \in asked /\ IsNew(events, mpv, incoming.load) /\ incoming.load # NoPlayback
    BY <2>1, Parameters DEF StopInv, TypeOK
  <2>3. QED
    BY <2>1, <2>2 DEF IsNew
<1>3. CASE MarkWatchedAndPlayNext
  <2> DEFINE c == Finished(ctl, "watched")
  <2>1. c \in Ctl /\ c.phase = "idle" /\ ctl' = [c EXCEPT !.handoff = TRUE] /\ mpv' = mpv
    BY <1>1, <1>3, FinishedOK DEF MarkWatchedAndPlayNext, Ignores, CtlOK
  <2> HIDE DEF c
  <2>2. ctl'.phase = "idle" /\ ctl'.handoff = TRUE
    BY <2>1 DEF Ctl
  <2>3. ~Undisturbed'
    BY <2>2 DEF Undisturbed
  <2>4. QED
    BY <1>1, <1>2, <2>1, <2>2, <2>3, StopKeeps
<1>4. CASE PendingTimesOut \/ HandoffExpires
  <2>1. mpv' = mpv /\ timeouts' = timeouts + 1
    BY <1>4 DEF PendingTimesOut, HandoffExpires, TimesOut
  <2>2. ctl'.phase = "loading" => ctl.phase = "loading" /\ ctl'.load = ctl.load
    <3>1. CASE PendingTimesOut
      BY <1>1, <3>1, FinishedOK DEF PendingTimesOut, Ignores
    <3>2. CASE HandoffExpires
      BY <1>1, <3>2 DEF HandoffExpires, Ctl
    <3>3. QED
      BY <1>4, <3>1, <3>2
  <2>3. ~Undisturbed'
    BY <1>1, <2>1 DEF Undisturbed
  <2>4. QED
    BY <1>1, <1>2, <2>1, <2>2, <2>3, StopKeeps
<1>5. CASE Shutdown
  <2>1. mpv' = NoMpv /\ pc' = "flushing"
    BY <1>5 DEF Shutdown
  <2>2. \A i \in DOMAIN events' : \E j \in DOMAIN events : events'[i] = events[j]
    BY <1>1
  <2>3. QED
    BY <1>1, <1>2, <2>1, <2>2, NoMpvType, StopRenews
<1>6. CASE ReportProgress \/ RequestExit \/ FlushEnds \/ ReporterRuns
  <2>1. mpv' = mpv /\ ctl' = ctl
    BY <1>6 DEF ReportProgress, RequestExit, FlushEnds, ReporterRuns
  <2>2. pc' = pc \/ (pc = "flushing" /\ pc' = "done")
    BY <1>6 DEF ReportProgress, RequestExit, FlushEnds, ReporterRuns
  <2>3. timeouts' = timeouts \/ timeouts' = timeouts + 1
    BY <1>6 DEF ReportProgress, RequestExit, FlushEnds, ReporterRuns, TimesOut, env
  <2>4. Undisturbed' => Undisturbed
    BY <1>1, <2>1, <2>3 DEF Undisturbed
  <2>5. Bare' => Bare
    BY <1>1, <2>1, <2>2 DEF Bare
  <2>6. QED
    BY <1>1, <1>2, <2>1, <2>4, <2>5, StopKeeps
<1>7. QED
  BY <1>3, <1>4, <1>5, <1>6 DEF Timeout, Exit

LEMMA StopInvStep ==
  ASSUME AllInv, StopInv, [Next]_vars PROVE StopInv'
<1>1. TypeOK /\ MpvInv /\ ReportsInv
  BY DEF AllInv, PlayerInv
<1>2. CASE UNCHANGED vars
  <2>1. UNCHANGED <<events, mpv, asked, pc, incoming, ctl, misled, timeouts>>
    BY <1>2 DEF vars, env
  <2>2. QED
    BY <2>1, StopKeeps DEF LoadGoesOn, StopInv, Undisturbed, Bare
<1>3. QED
  BY <1>1, <1>2, SuperviseStop, LoadStop, LoadStepStop, TakeMessageStop, ControlStop, MpvStepStop
  DEF Next, Command

LEMMA StopInvHolds == Spec => [](AllInv /\ StopInv)
<1>1. Init => StopInv
  <2>1. SUFFICES ASSUME Init PROVE StopInv
    OBVIOUS
  <2>2. /\ events = <<>> /\ DOMAIN events = {} /\ mpv = NoMpv /\ pc = "ready"
        /\ ctl.phase = "idle"
    BY <2>1 DEF Init, Idle
  <2>3. \A i \in DOMAIN events : events[i].session # mpv.session
    BY <2>2
  <2>4. /\ EndsOnce(events, mpv) /\ OneEnd(events, mpv) /\ NoEnd(events, mpv)
    BY <2>2, <2>3, NoMpvType, StopRenewed
  <2>5. WasAsked(events, mpv, asked)
    BY <2>2, NoMpvType DEF WasAsked
  <2>6. QED
    BY <2>2, <2>4, <2>5 DEF StopInv
<1>2. AllInv /\ StopInv /\ [Next]_vars => StopInv'
  BY StopInvStep
<1>3. QED
  BY <1>1, <1>2, AllInvHolds, PTL DEF Spec

(* The `stop` of a file that was replaced does not end the load that replaced it, however *)
(* many playbacks were asked for, ended and replaced before (playback_transition.rs).     *)
THEOREM ReplacedFileSparesLoad == Spec => OldStopSpares
<1>1. AllInv /\ StopInv /\ [Next]_vars => OldStopSparesLoad
  <2>1. SUFFICES ASSUME AllInv, StopInv, [Next]_vars, events # <<>>, events' = Tail(events),
                        Head(events).kind = "end", Head(events).reason = "stop",
                        ctl.phase = "loading", Head(events).of # ctl.load,
                        timeouts = 0, ~misled
                 PROVE  ctl'.load = ctl.load
    BY DEF OldStopSparesLoad
  <2>2. TypeOK /\ MpvInv
    BY <2>1 DEF AllInv, PlayerInv
  <2>3. /\ events \in Seq(Event) /\ ctl \in Ctl /\ CtlOK(ctl) /\ ctl.session = mpv.session
        /\ misled = FALSE /\ ctl.handoff \in BOOLEAN
    BY <2>1, <2>2, MpvInvParts DEF Ctl, TypeOK
  <2>4. CASE TakeStale
    BY <2>4 DEF TakeStale
  <2>5. CASE TakeEvent
    <3>1. Head(events).session = mpv.session /\ ctl' = Finished(ctl, "stop")
      BY <2>1, <2>3, <2>5 DEF TakeEvent, IsCurrent
    <3>2. 1 \in EndsIn(events, mpv) /\ Head(events) = events[1]
      BY <2>1, <2>3, <3>1 DEF EndsIn, FromNow
    <3>3. Ignores(ctl, "stop")
      <4>1. CASE ctl.handoff = TRUE
        BY <2>1, <4>1 DEF Ignores
      <4>2. CASE ctl.handoff = FALSE
        <5>1. Undisturbed
          BY <2>1, <2>3, <4>2 DEF Undisturbed
        <5>2. QED
          BY <2>1, <2>2, <3>2, <5>1, OldStopIsIgnored
      <4>3. QED
        BY <2>3, <4>1, <4>2
    <3>4. QED
      BY <2>3, <3>1, <3>3, FinishedOK
  <2>6. QED
    BY <2>1, <2>2, <2>4, <2>5, EventsGrow DEF TakeMessage
<1>2. QED
  BY <1>1, StopInvHolds, PTL DEF Spec, OldStopSpares

-----------------------------------------------------------------------------------
(* Installing.                                                                         *)
(* One update and one mpv are installed at a time, and an mpv that was there stays there   *)
(* through every failure, for any number of requests, downloads and ends of the program   *)
(* (Installs).  What was started either runs or has its one end on the way (UpdatesInv,    *)
(* SetupsInv); and where the folders are follows from the step of the one installation     *)
(* that runs (FoldersInv): the new mpv is unpacked before the old one is put aside, and     *)
(* only between the two renames is there none.                                          *)

Outcomes == {"ready", "error"}
MpvFolders == {"none", "old", "new"}
SetupEnds == InstallRequests \X Outcomes
UpdateKinds ==
  /\ updateAvailable \in BOOLEAN /\ updateStarted \in BOOLEAN /\ installer \in BOOLEAN
  /\ downloads \in [running : Nat, begun : 0 .. MaxDownloads]
  /\ updateTasks \in Seq(Outcomes)
SetupKinds ==
  /\ windows \in BOOLEAN /\ mpvStarted \in BOOLEAN /\ mpvPath \in BOOLEAN
  /\ hadMpv \in BOOLEAN /\ spoilt \in BOOLEAN
  /\ setup \in [InstallRequests -> SetupSteps]
  /\ mpvDir \in MpvFolders /\ newDir \in MpvFolders /\ oldDir \in MpvFolders
  /\ setupTasks \in Seq(SetupEnds)
  /\ answers \in [InstallRequests -> {"none", "waiting", "completed", "failed"}]
  /\ installCrashes \in 0 .. MaxInstallCrashes

UpdateWaits == updateTasks # << >>
UpdateRuns == downloads.running # 0
UpdatesInv ==
  /\ UpdateWaits => \E outcome \in Outcomes : updateTasks = <<outcome>>
  /\ downloads.running \in {0, 1} /\ ~(UpdateRuns /\ UpdateWaits)
  /\ updateStarted = TRUE <=> UpdateRuns \/ UpdateWaits \/ installer = TRUE
  /\ installer = TRUE => ~UpdateRuns /\ ~UpdateWaits
  /\ updateStarted = TRUE => updateAvailable = TRUE

SetsUp(r) == setup[r] # "idle"
SetupWaits == setupTasks # << >>
SetupsInv ==
  /\ SetupWaits => \E end \in SetupEnds : setupTasks = <<end>>
  /\ \A r, s \in InstallRequests : SetsUp(r) /\ SetsUp(s) => r = s
  /\ \A r \in InstallRequests : SetsUp(r) => ~SetupWaits
  /\ mpvStarted = TRUE <=> SetupWaits \/ \E r \in InstallRequests : SetsUp(r)
  /\ \A r \in InstallRequests : answers[r] = "waiting" =>
       SetsUp(r) \/ (SetupWaits /\ setupTasks[1][1] = r)

MovesIn == \E r \in InstallRequests : setup[r] = "in"
FoldersInv ==
  /\ \A r \in InstallRequests : setup[r] \in {"aside", "in"} => newDir = "new"
  /\ MovesIn => mpvDir = "none"
  /\ SetupWaits /\ setupTasks[1][2] = "ready" => mpvDir # "none"
  /\ hadMpv = TRUE /\ spoilt = FALSE => mpvDir # "none" \/ (oldDir # "none" /\ MovesIn)

InstallsInv == UpdateKinds /\ SetupKinds /\ UpdatesInv /\ SetupsInv /\ FoldersInv

LEMMA InstallsTruth ==
  ASSUME InstallsInv
  PROVE  InstallsTypeOK /\ InstallsAreSound
<1> USE DEF InstallsInv
<1>1. InstallsTypeOK
  BY DEF UpdateKinds, SetupKinds, InstallsTypeOK, Outcomes, MpvFolders, SetupEnds
<1>2. downloads.running + Len(updateTasks) = IF UpdateRuns \/ UpdateWaits THEN 1 ELSE 0
  <2>1. CASE UpdateWaits
    <3>1. Len(updateTasks) = 1 /\ downloads.running = 0
      BY <2>1 DEF UpdatesInv, UpdateRuns
    <3> QED
      BY <3>1, <2>1
  <2>2. CASE ~UpdateWaits
    <3>1. Len(updateTasks) = 0 /\ downloads.running \in {0, 1}
      BY <2>2 DEF UpdatesInv, UpdateWaits
    <3> QED
      BY <3>1, <2>2 DEF UpdateRuns
  <2> QED
    BY <2>1, <2>2
<1>3. updateStarted = (downloads.running + Len(updateTasks) = 1 \/ installer)
  BY <1>2 DEF UpdatesInv, UpdateKinds
<1>4. RunningSetups # {} <=> \E r \in InstallRequests : SetsUp(r)
  BY DEF RunningSetups, SetsUp
<1>5. mpvStarted = (RunningSetups # {} \/ setupTasks # << >>)
  BY <1>4 DEF SetupsInv, SetupKinds, SetupWaits
<1>6. \A r, s \in RunningSetups : r = s
  BY DEF SetupsInv, RunningSetups, SetsUp
<1>7. \A r \in InstallRequests : answers[r] = "waiting" =>
        setup[r] # "idle" \/ \E i \in DOMAIN setupTasks : setupTasks[i][1] = r
  <2>1. SetupWaits => 1 \in DOMAIN setupTasks
    BY DEF SetupsInv
  <2> QED
    BY <2>1 DEF SetupsInv, SetsUp
<1>8. hadMpv /\ ~spoilt =>
        mpvDir # "none" \/ (oldDir # "none" /\ \E r \in InstallRequests : setup[r] = "in")
  BY DEF FoldersInv, SetupKinds, MovesIn
<1> QED
  BY <1>1, <1>2, <1>3, <1>5, <1>6, <1>7, <1>8 DEF InstallsAreSound

LEMMA InstallsInitially ==
  ASSUME InstallsAssumption, InstallsInit
  PROVE  InstallsInv
<1>1. 0 \in 0 .. MaxDownloads /\ 0 \in 0 .. MaxInstallCrashes
  BY DEF InstallsAssumption
<1>2. /\ UpdatesInv /\ updateTasks \in Seq(Outcomes)
      /\ downloads = [running |-> 0, begun |-> 0] /\ UpdateKinds
  <2>1. downloads = [running |-> 0, begun |-> 0] /\ updateTasks = << >>
    BY DEF InstallsInit
  <2>2. updateAvailable = FALSE /\ updateStarted = FALSE /\ installer = FALSE
    BY DEF InstallsInit
  <2> QED
    BY <1>1, <2>1, <2>2, EmptySeq DEF UpdateKinds, UpdatesInv, UpdateRuns, UpdateWaits
<1>3. SetupKinds
  <2>1. mpvDir \in {"none", "old"} /\ hadMpv = (mpvDir # "none") /\ windows \in BOOLEAN
    BY DEF InstallsInit
  <2>2. hadMpv \in BOOLEAN
    BY <2>1
  <2>3. /\ newDir = "none" /\ oldDir = "none" /\ installCrashes = 0 /\ setupTasks = << >>
        /\ mpvStarted = FALSE /\ mpvPath = FALSE /\ spoilt = FALSE
        /\ setup = [r \in InstallRequests |-> "idle"] /\ answers = [r \in InstallRequests |-> "none"]
    BY DEF InstallsInit
  <2> QED
    BY <1>1, <2>1, <2>2, <2>3, EmptySeq DEF SetupKinds, SetupSteps, MpvFolders
<1>4. SetupsInv /\ FoldersInv
  BY DEF InstallsInit, SetupsInv, SetsUp, SetupWaits, FoldersInv, MovesIn
<1> QED
  BY <1>2, <1>3, <1>4 DEF InstallsInv

\* The update and the installation of mpv leave each other alone.
UpdateStep ==
  \/ UpdateFound \/ StartUpdateDownload
  \/ \E outcome \in Outcomes : DownloadEnds(outcome)
  \/ \E yes \in BOOLEAN : HandleUpdateEvent(yes)

LEMMA UpdateKeeps ==
  ASSUME InstallsAssumption, UpdateKinds, UpdatesInv, UpdateStep
  PROVE  UpdateKinds' /\ UpdatesInv'
<1>1. CASE UpdateFound
  BY <1>1 DEF UpdateFound, UpdateKinds, UpdatesInv, UpdateRuns, UpdateWaits
<1>2. CASE StartUpdateDownload
  <2>1. /\ updateTasks = << >> /\ updateTasks' = << >> /\ downloads.running = 0
        /\ updateStarted' = TRUE /\ updateAvailable = TRUE
        /\ UNCHANGED <<updateAvailable, installer>> /\ installer = FALSE
    BY <1>2 DEF StartUpdateDownload, MayDownload, UpdateKinds, UpdatesInv, UpdateRuns, UpdateWaits
  <2>2. /\ downloads' = [running |-> 1, begun |-> downloads.begun + 1]
        /\ downloads' \in [running : Nat, begun : 0 .. MaxDownloads]
    BY <1>2, <2>1 DEF StartUpdateDownload, UpdateKinds, InstallsAssumption
  <2> QED
    BY <2>1, <2>2 DEF UpdateKinds, UpdatesInv, UpdateRuns, UpdateWaits
<1>3. ASSUME NEW outcome \in Outcomes, DownloadEnds(outcome)
      PROVE  UpdateKinds' /\ UpdatesInv'
  <2>1. /\ downloads.running = 1 /\ updateTasks = << >> /\ installer = FALSE /\ updateStarted = TRUE
        /\ UNCHANGED <<updateAvailable, updateStarted, installer>>
    BY <1>3 DEF DownloadEnds, UpdateKinds, UpdatesInv, UpdateRuns, UpdateWaits
  <2>2. updateTasks' = <<outcome>>
    BY <1>3, <2>1 DEF DownloadEnds
  <2>3. downloads' = [downloads EXCEPT !.running = 0]
    BY <1>3, <2>1 DEF DownloadEnds
  <2>4. downloads' \in [running : Nat, begun : 0 .. MaxDownloads] /\ downloads'.running = 0
    BY <2>3 DEF UpdateKinds
  <2> QED
    BY <2>1, <2>2, <2>4 DEF UpdateKinds, UpdatesInv, UpdateRuns, UpdateWaits
<1>4. ASSUME NEW yes \in BOOLEAN, HandleUpdateEvent(yes)
      PROVE  UpdateKinds' /\ UpdatesInv'
  <2>1. PICK outcome \in Outcomes : updateTasks = <<outcome>>
    BY <1>4 DEF HandleUpdateEvent, UpdatesInv, UpdateWaits
  <2>2. /\ updateTasks' = << >> /\ updateAvailable' = updateAvailable /\ downloads' = downloads
        /\ \/ installer' = TRUE /\ UNCHANGED updateStarted
           \/ updateStarted' = FALSE /\ UNCHANGED installer
    BY <1>4, <2>1 DEF HandleUpdateEvent
  <2>3. /\ downloads.running = 0 /\ downloads'.running = 0
        /\ installer = FALSE /\ updateStarted = TRUE /\ updateAvailable = TRUE
    BY <2>1, <2>2 DEF UpdateKinds, UpdatesInv, UpdateRuns, UpdateWaits
  <2>4. updateTasks' \in Seq(Outcomes) /\ installer' \in BOOLEAN /\ updateStarted' \in BOOLEAN
    BY <2>2, <2>3, EmptySeq DEF UpdateKinds
  <2>5. updateStarted' = TRUE <=> installer' = TRUE
    BY <2>2, <2>3
  <2>6. UpdateKinds'
    BY <2>2, <2>4 DEF UpdateKinds
  <2> QED
    BY <2>2, <2>3, <2>5, <2>6 DEF UpdatesInv, UpdateRuns, UpdateWaits
<1> QED
  BY <1>1, <1>2, <1>3, <1>4 DEF UpdateStep

\* A step of the installation of r, while no other is under way.
LEMMA GoesKeeps ==
  ASSUME SetupKinds, SetupsInv, NEW r \in InstallRequests, NEW from, NEW to \in SetupSteps,
         from # "idle", to # "idle", Goes(r, from, to), UNCHANGED setupTasks, SetupRest
  PROVE  /\ SetupsInv' /\ setup' \in [InstallRequests -> SetupSteps] /\ setupTasks' = << >>
         /\ setup'[r] = to /\ \A s \in InstallRequests \ {r} : setup[s] = "idle" /\ setup'[s] = "idle"
<1>1. setup[r] = from /\ SetsUp(r) /\ setupTasks = << >> /\ setupTasks' = << >>
  BY DEF Goes, SetsUp, SetupsInv, SetupWaits
<1>2. setup' = [setup EXCEPT ![r] = to] /\ setup \in [InstallRequests -> SetupSteps]
  BY DEF Goes, SetupKinds
<1>3. \A s \in InstallRequests : SetsUp(s)' <=> SetsUp(s)
  BY <1>1, <1>2 DEF SetsUp
<1>4. \A s \in InstallRequests \ {r} : setup[s] = "idle" /\ setup'[s] = "idle"
  BY <1>1, <1>2 DEF SetupsInv, SetsUp
<1>5. mpvStarted' = mpvStarted /\ answers' = answers
  BY DEF SetupRest
<1>6. SetupsInv'
  BY <1>1, <1>3, <1>5 DEF SetupsInv, SetupWaits
<1> QED
  BY <1>1, <1>2, <1>4, <1>6

LEMMA EndsKeeps ==
  ASSUME SetupKinds, SetupsInv, NEW r \in InstallRequests, setup[r] # "idle",
         NEW outcome \in Outcomes, EndsAs(r, outcome), SetupRest
  PROVE  /\ SetupsInv' /\ setup' \in [InstallRequests -> SetupSteps]
         /\ setupTasks' = << <<r, outcome>> >> /\ setupTasks' \in Seq(SetupEnds)
         /\ \A s \in InstallRequests : setup'[s] = "idle" /\ (setup[s] # "idle" => s = r)
<1>1. SetsUp(r) /\ setupTasks = << >>
  BY DEF SetsUp, SetupsInv, SetupWaits
<1>2. setupTasks' = << <<r, outcome>> >>
  BY <1>1 DEF EndsAs
<1>3. <<r, outcome>> \in SetupEnds /\ setupTasks' # << >> /\ setupTasks'[1][1] = r
      /\ setupTasks' \in Seq(SetupEnds)
  BY <1>2 DEF SetupEnds
<1>4. setup' = [setup EXCEPT ![r] = "idle"] /\ setup \in [InstallRequests -> SetupSteps]
  BY DEF EndsAs, SetupKinds
<1>5. \A s \in InstallRequests : setup'[s] = "idle" /\ (setup[s] # "idle" => s = r)
  BY <1>1, <1>4 DEF SetupsInv, SetsUp
<1>6. mpvStarted' = TRUE /\ answers' = answers
  BY <1>1 DEF SetupRest, SetupsInv
<1>7. \A s \in InstallRequests : answers'[s] = "waiting" => setupTasks'[1][1] = s
  BY <1>1, <1>3, <1>5, <1>6 DEF SetupsInv, SetupWaits, SetsUp
<1>8. SetupsInv'
  BY <1>2, <1>3, <1>5, <1>6, <1>7 DEF SetupsInv, SetupWaits, SetsUp
<1> QED
  BY <1>2, <1>3, <1>4, <1>5, <1>8 DEF SetupSteps

LEMMA RestTypes ==
  ASSUME SetupKinds, SetupRest
  PROVE  /\ windows' \in BOOLEAN /\ mpvStarted' \in BOOLEAN /\ mpvPath' \in BOOLEAN
         /\ hadMpv' \in BOOLEAN /\ hadMpv' = hadMpv /\ installCrashes' \in 0 .. MaxInstallCrashes
         /\ answers' \in [InstallRequests -> {"none", "waiting", "completed", "failed"}]
BY DEF SetupKinds, SetupRest

LEMMA SetupKeeps ==
  ASSUME SetupKinds, SetupsInv, FoldersInv, NEW r \in InstallRequests,
         Download(r) \/ Extract(r) \/ SetAside(r) \/ MoveIn(r)
  PROVE  SetupKinds' /\ SetupsInv' /\ FoldersInv'
<1>1. SetupRest
  BY DEF Download, Extract, SetAside, MoveIn
<1>2. ASSUME NEW from, NEW to \in SetupSteps, from # "idle", to # "idle", Goes(r, from, to),
             UNCHANGED setupTasks, mpvDir' \in MpvFolders, newDir' \in MpvFolders, oldDir' \in MpvFolders,
             to \in {"aside", "in"} => newDir' = "new", to = "in" => mpvDir' = "none",
             UNCHANGED spoilt,
             (from = "in" <=> FALSE),
             to # "in" => mpvDir' = mpvDir, to = "in" => oldDir' = mpvDir
      PROVE  SetupKinds' /\ SetupsInv' /\ FoldersInv'
  <2>1. /\ SetupsInv' /\ setup' \in [InstallRequests -> SetupSteps] /\ setupTasks' = << >>
        /\ setup'[r] = to /\ setup[r] = from
        /\ \A s \in InstallRequests \ {r} : setup[s] = "idle" /\ setup'[s] = "idle"
    BY <1>1, <1>2, GoesKeeps DEF Goes
  <2>2. SetupKinds'
    BY <1>1, <1>2, <2>1, RestTypes, EmptySeq DEF SetupKinds
  <2>3. ~MovesIn /\ (MovesIn' <=> to = "in") /\ ~SetupWaits'
    BY <1>2, <2>1 DEF MovesIn, SetupWaits
  <2>4. hadMpv = TRUE /\ spoilt = FALSE => mpvDir # "none"
    BY <2>3 DEF FoldersInv
  <2>5. FoldersInv'
    BY <1>1, <1>2, <2>1, <2>3, <2>4, RestTypes DEF FoldersInv
  <2> QED
    BY <2>1, <2>2, <2>5
<1>3. ASSUME setup[r] # "idle", NEW outcome \in Outcomes, EndsAs(r, outcome),
             mpvDir' \in MpvFolders, newDir' \in MpvFolders, oldDir' \in MpvFolders,
             spoilt' \in BOOLEAN, outcome = "ready" => mpvDir' # "none",
             hadMpv = TRUE /\ spoilt' = FALSE => mpvDir' # "none"
      PROVE  SetupKinds' /\ SetupsInv' /\ FoldersInv'
  <2>1. /\ SetupsInv' /\ setup' \in [InstallRequests -> SetupSteps]
        /\ setupTasks' = << <<r, outcome>> >> /\ setupTasks' \in Seq(SetupEnds)
        /\ \A s \in InstallRequests : setup'[s] = "idle"
    BY <1>1, <1>3, EndsKeeps
  <2>2. SetupKinds'
    BY <1>1, <1>3, <2>1, RestTypes DEF SetupKinds
  <2>3. ~MovesIn' /\ setupTasks'[1][2] = outcome
    BY <2>1 DEF MovesIn
  <2>4. FoldersInv'
    BY <1>1, <1>3, <2>1, <2>3, RestTypes DEF FoldersInv
  <2> QED
    BY <2>1, <2>2, <2>4
<1>4. /\ mpvDir \in MpvFolders /\ newDir \in MpvFolders /\ oldDir \in MpvFolders /\ spoilt \in BOOLEAN
      /\ setup[r] # "idle" => \A s \in InstallRequests : setup[s] # "idle" => s = r
  BY DEF SetupKinds, SetupsInv, SetsUp
<1>5. setup[r] # "idle" /\ setup[r] # "in" /\ hadMpv = TRUE /\ spoilt = FALSE => mpvDir # "none"
  BY <1>4 DEF FoldersInv, MovesIn
<1>6. CASE Download(r)
  BY <1>2, <1>3, <1>4, <1>5, <1>6 DEF Download, folders, Goes, SetupSteps, Outcomes
<1>7. CASE Extract(r)
  BY <1>2, <1>3, <1>4, <1>5, <1>7 DEF Extract, Goes, SetupSteps, Outcomes, MpvFolders
<1>8. CASE SetAside(r)
  BY <1>2, <1>3, <1>4, <1>5, <1>8 DEF SetAside, Goes, SetupSteps, Outcomes, MpvFolders, FoldersInv
<1>9. CASE MoveIn(r)
  <2>1. /\ setup[r] = "in" /\ newDir = "new" /\ mpvDir = "none"
        /\ hadMpv = TRUE /\ spoilt = FALSE => oldDir # "none"
    BY <1>9 DEF MoveIn, FoldersInv, MovesIn
  <2>2. "none" \in MpvFolders
    BY DEF MpvFolders
  <2> QED
    BY <1>3, <1>4, <1>9, <2>1, <2>2 DEF MoveIn, PutBack, Outcomes
<1> QED
  BY <1>6, <1>7, <1>8, <1>9

LEMMA SetupBegins ==
  ASSUME SetupKinds, SetupsInv, FoldersInv, NEW r \in InstallRequests, StartMpvDownload(r)
  PROVE  SetupKinds' /\ SetupsInv' /\ FoldersInv'
<1>1. UNCHANGED <<windows, mpvDir, newDir, oldDir, setupTasks, mpvPath, hadMpv, spoilt, installCrashes>>
  BY DEF StartMpvDownload, folders
<1>2. setup \in [InstallRequests -> SetupSteps]
      /\ answers \in [InstallRequests -> {"none", "waiting", "completed", "failed"}]
  BY DEF SetupKinds
<1>3. CASE windows /\ Free
  <2>1. mpvStarted' = TRUE /\ setup' = [setup EXCEPT ![r] = "download"]
        /\ answers' = [answers EXCEPT ![r] = "waiting"] /\ mpvStarted # TRUE
    BY <1>3 DEF StartMpvDownload, Free, AnswerRequest, SetupKinds
  <2>2. setupTasks = << >> /\ \A s \in InstallRequests : setup[s] = "idle" /\ answers[s] # "waiting"
    BY <2>1 DEF SetupsInv, SetsUp, SetupWaits
  <2>3. /\ setup'[r] = "download" /\ \A s \in InstallRequests \ {r} : setup'[s] = "idle"
        /\ \A s \in InstallRequests \ {r} : answers'[s] # "waiting"
        /\ setup' \in [InstallRequests -> SetupSteps]
        /\ answers' \in [InstallRequests -> {"none", "waiting", "completed", "failed"}]
    BY <1>2, <2>1, <2>2 DEF SetupSteps
  <2>4. SetupKinds'
    BY <1>1, <2>1, <2>3 DEF SetupKinds
  <2>5. SetupsInv'
    BY <1>1, <2>1, <2>2, <2>3 DEF SetupsInv, SetsUp, SetupWaits
  <2>6. FoldersInv'
    BY <1>1, <2>2, <2>3 DEF FoldersInv, MovesIn, SetupWaits
  <2> QED
    BY <2>4, <2>5, <2>6
<1>4. CASE ~(windows /\ Free)
  <2>1. mpvStarted' = mpvStarted /\ setup' = setup /\ answers' = [answers EXCEPT ![r] = "failed"]
    BY <1>4 DEF StartMpvDownload, AnswerRequest
  <2>2. \A s \in InstallRequests : answers'[s] = "waiting" => answers[s] = "waiting"
    BY <1>2, <2>1
  <2>3. SetupKinds'
    BY <1>1, <1>2, <2>1 DEF SetupKinds
  <2> QED
    BY <1>1, <2>1, <2>2, <2>3 DEF SetupsInv, FoldersInv, SetsUp, SetupWaits, MovesIn
<1> QED
  BY <1>3, <1>4

LEMMA SetupEnded ==
  ASSUME SetupKinds, SetupsInv, FoldersInv, NEW saved \in BOOLEAN, HandleSetupEvent(saved)
  PROVE  SetupKinds' /\ SetupsInv' /\ FoldersInv'
<1>1. PICK end \in SetupEnds : setupTasks = <<end>>
  BY DEF HandleSetupEvent, SetupsInv, SetupWaits
<1>2. /\ Head(setupTasks) = end /\ setupTasks[1] = end /\ Tail(setupTasks) = << >>
      /\ end[1] \in InstallRequests /\ SetupWaits
  BY <1>1 DEF SetupEnds, SetupWaits
<1> DEFINE success == end[2] = "ready"
<1>3. /\ setupTasks' = << >> /\ mpvStarted' = FALSE
      /\ answers' = [answers EXCEPT ![end[1]] = IF success /\ saved THEN "completed" ELSE "failed"]
      /\ UNCHANGED <<windows, setup, mpvDir, newDir, oldDir, spoilt, installCrashes>>
  BY <1>2 DEF HandleSetupEvent, AnswerRequest, folders
<1>4. mpvPath' = (mpvPath \/ (success /\ saved)) /\ hadMpv' = (hadMpv \/ success)
  BY <1>2 DEF HandleSetupEvent
<1>5. mpvPath' \in BOOLEAN /\ hadMpv' \in BOOLEAN /\ (hadMpv' = TRUE => hadMpv = TRUE \/ success)
  BY <1>4 DEF SetupKinds
<1>6. \A s \in InstallRequests : setup[s] = "idle"
  BY <1>2 DEF SetupsInv, SetsUp
<1>7. answers' \in [InstallRequests -> {"none", "waiting", "completed", "failed"}]
      /\ \A s \in InstallRequests : answers'[s] # "waiting"
  BY <1>2, <1>3, <1>6 DEF SetupKinds, SetupsInv, SetsUp
<1>8. SetupKinds'
  BY <1>3, <1>5, <1>7, EmptySeq DEF SetupKinds
<1>9. SetupsInv'
  BY <1>3, <1>6, <1>7 DEF SetupsInv, SetsUp, SetupWaits
<1>10. success => mpvDir # "none"
  BY <1>2 DEF FoldersInv
<1>11. ~MovesIn /\ ~MovesIn'
  BY <1>3, <1>6 DEF MovesIn
<1>12. FoldersInv'
  BY <1>3, <1>5, <1>6, <1>10, <1>11 DEF FoldersInv, SetupWaits
<1> QED
  BY <1>8, <1>9, <1>12

LEMMA RestartKeeps ==
  ASSUME InstallsAssumption, InstallsInv, Restart
  PROVE  InstallsInv'
<1> USE DEF InstallsInv
<1>1. /\ updateAvailable' = FALSE /\ updateStarted' = FALSE /\ updateTasks' = << >> /\ installer' = FALSE
      /\ downloads' = [downloads EXCEPT !.running = 0]
  BY DEF Restart
<1>2. downloads' \in [running : Nat, begun : 0 .. MaxDownloads] /\ downloads'.running = 0
  BY <1>1 DEF UpdateKinds
<1>3. UpdateKinds' /\ UpdatesInv'
  BY <1>1, <1>2, EmptySeq DEF UpdateKinds, UpdatesInv, UpdateRuns, UpdateWaits
<1>4. /\ mpvStarted' = FALSE /\ setup' = [r \in InstallRequests |-> "idle"] /\ setupTasks' = << >>
      /\ answers' = [r \in InstallRequests |-> IF answers[r] = "waiting" THEN "failed" ELSE answers[r]]
      /\ UNCHANGED <<windows, mpvDir, newDir, oldDir, mpvPath, hadMpv>>
  BY DEF Restart, folders
<1>5. spoilt' = (spoilt \/ oldDir # "none")
  BY DEF Restart
<1>6. spoilt' \in BOOLEAN /\ (spoilt' = FALSE => spoilt = FALSE /\ oldDir = "none")
  BY <1>5 DEF SetupKinds
<1>7. installCrashes' \in 0 .. MaxInstallCrashes
  BY DEF Restart, SetupKinds, InstallsAssumption
<1>8. /\ answers' \in [InstallRequests -> {"none", "waiting", "completed", "failed"}]
      /\ \A r \in InstallRequests : answers'[r] # "waiting" /\ setup'[r] = "idle"
      /\ setup' \in [InstallRequests -> SetupSteps]
  BY <1>4 DEF SetupKinds, SetupSteps
<1>9. SetupKinds'
  BY <1>4, <1>6, <1>7, <1>8, EmptySeq DEF SetupKinds
<1>10. SetupsInv'
  BY <1>4, <1>8 DEF SetupsInv, SetsUp, SetupWaits
<1>11. FoldersInv'
  BY <1>4, <1>6, <1>8 DEF FoldersInv, MovesIn, SetupWaits
<1> QED
  BY <1>3, <1>9, <1>10, <1>11

LEMMA InstallsStep ==
  ASSUME InstallsAssumption, InstallsInv, [InstallsNext]_installVars
  PROVE  InstallsInv'
<1> USE DEF InstallsInv
<1>1. CASE UpdateStep
  <2>1. UNCHANGED <<windows, mpvDir, newDir, oldDir, mpvStarted, setup, setupTasks, answers, mpvPath,
                    hadMpv, spoilt, installCrashes>>
    BY <1>1 DEF UpdateStep, UpdateFound, StartUpdateDownload, DownloadEnds, HandleUpdateEvent, folders,
       settingUp
  <2>2. SetupKinds' /\ SetupsInv' /\ FoldersInv'
    BY <2>1 DEF SetupKinds, SetupsInv, FoldersInv, SetsUp, SetupWaits, MovesIn
  <2> QED
    BY <1>1, <2>2, UpdateKeeps
<1>2. ASSUME UNCHANGED updating, SetupKinds' /\ SetupsInv' /\ FoldersInv'
      PROVE  InstallsInv'
  BY <1>2 DEF updating, UpdateKinds, UpdatesInv, UpdateRuns, UpdateWaits
<1>3. ASSUME NEW r \in InstallRequests, StartMpvDownload(r)
      PROVE  InstallsInv'
  BY <1>2, <1>3, SetupBegins DEF StartMpvDownload
<1>4. ASSUME NEW r \in InstallRequests, Download(r) \/ Extract(r) \/ SetAside(r) \/ MoveIn(r)
      PROVE  InstallsInv'
  BY <1>2, <1>4, SetupKeeps DEF Download, Extract, SetAside, MoveIn, SetupRest
<1>5. ASSUME NEW saved \in BOOLEAN, HandleSetupEvent(saved)
      PROVE  InstallsInv'
  BY <1>2, <1>5, SetupEnded DEF HandleSetupEvent
<1>6. CASE Restart
  BY <1>6, RestartKeeps
<1>7. CASE UNCHANGED installVars
  BY <1>7 DEF installVars, updating, folders, settingUp, UpdateKinds, UpdatesInv, UpdateRuns,
     UpdateWaits, SetupKinds, SetupsInv, FoldersInv, SetsUp, SetupWaits, MovesIn
<1> QED
  BY <1>1, <1>3, <1>4, <1>5, <1>6, <1>7 DEF InstallsNext, UpdateStep, Outcomes

(* Every variable keeps its type.                                                       *)
THEOREM InstallsTypes ==
  ASSUME InstallsAssumption
  PROVE  InstallsSpec => []InstallsTypeOK
<1>1. InstallsInit => InstallsInv
  BY InstallsInitially
<1>2. InstallsInv /\ [InstallsNext]_installVars => InstallsInv'
  BY InstallsStep
<1>3. InstallsInv => InstallsTypeOK
  BY InstallsTruth
<1> QED
  BY <1>1, <1>2, <1>3, PTL DEF InstallsSpec

(* One update and one mpv are installed at a time, an attempt that failed can be repeated,  *)
(* and an mpv that was there is still there, the old or the new one, unless the program    *)
(* ended or the renaming failed twice right between the two renames; who waits for an      *)
(* installation is answered (download_and_install, start_mpv_download,                     *)
(* start_update_download).                                                               *)
THEOREM InstallsStaySound ==
  ASSUME InstallsAssumption
  PROVE  InstallsSpec => []InstallsAreSound
<1>1. InstallsInit => InstallsInv
  BY InstallsInitially
<1>2. InstallsInv /\ [InstallsNext]_installVars => InstallsInv'
  BY InstallsStep
<1>3. InstallsInv => InstallsAreSound
  BY InstallsTruth
<1> QED
  BY <1>1, <1>2, <1>3, PTL DEF InstallsSpec

-----------------------------------------------------------------------------------
(* The desktop shell.                                                                  *)
(* The services are opened once, the window is shown when it may be and is closed as was    *)
(* agreed, for any threads that need the services and any number of faults, closes and    *)
(* changed settings (Shell).  Only the holder of the lock opens, and only while nobody     *)
(* has (OpenersInv); a page is ready only in a browser, which comes with the window or      *)
(* after it (ShownInv); and a browser agrees to close when nothing is unsaved or nothing   *)
(* may stop it (BrowserInv).                                                             *)

ThreadStages == {"idle", "waiting", "opening", "starting", "has", "failed"}
Windows == {"none", "asked", "framed", "overlay", "gone"}
Browsers == {"none", "open", "asking", "agreed", "closed"}
OpenersKinds ==
  /\ servicesOpen \in BOOLEAN /\ servicesOn \in BOOLEAN /\ opened \in Nat
  /\ initLock \in ShellThreads \cup {nobody} /\ initAt \in [ShellThreads -> ThreadStages]
  /\ openFaults \in 0 .. MaxOpenFaults
WindowKinds ==
  /\ startHidden \in BOOLEAN /\ overlayWanted \in BOOLEAN /\ linux \in BOOLEAN
  /\ host \in BOOLEAN /\ ready \in BOOLEAN /\ revealAsked \in BOOLEAN /\ revealed \in BOOLEAN
  /\ minimized \in BOOLEAN /\ unsaved \in BOOLEAN /\ forced \in BOOLEAN
  /\ playerUp \in BOOLEAN /\ quit \in BOOLEAN
  /\ window \in Windows /\ browserIs \in Browsers
FrameKinds ==
  /\ minimizes \in BOOLEAN
  /\ placed \in WindowBounds /\ liveBounds \in WindowBounds /\ savedBounds \in WindowBounds
  /\ closeRequests \in 0 .. MaxCloseRequests /\ settingChanges \in 0 .. MaxSettingChanges
  /\ liveBounds = placed

OpenersInv ==
  /\ opened = IF servicesOpen = TRUE THEN 1 ELSE 0
  /\ \A t \in ShellThreads :
       /\ initAt[t] = "opening" => initLock = t /\ servicesOpen = FALSE
       /\ initAt[t] = "starting" => initLock = t /\ servicesOpen = TRUE
       /\ initAt[t] = "has" => servicesOpen = TRUE

Framed == window = "framed" \/ (window = "overlay" /\ linux = TRUE)
ShownInv ==
  /\ revealAsked = TRUE <=> ready = TRUE
  /\ revealed = TRUE => ready = TRUE /\ startHidden = FALSE
  /\ ready = TRUE /\ startHidden = FALSE /\ Framed => revealed = TRUE
  /\ window = "none" => browserIs = "none" /\ ready = FALSE

BrowserInv ==
  /\ forced = TRUE => browserIs \in {"agreed", "closed"} \/ (browserIs = "none" /\ quit = TRUE)
  /\ quit = TRUE => playerUp = FALSE
  /\ browserIs = "agreed" => forced = TRUE \/ unsaved = FALSE

ShellInv ==
  OpenersKinds /\ WindowKinds /\ FrameKinds /\ OpenersInv /\ ShownInv /\ BrowserInv

LEMMA ShellTruth ==
  ASSUME ShellInv
  PROVE  ShellTypeOK /\ ShellIsSound
<1> USE DEF ShellInv
<1>1. ShellTypeOK
  BY DEF OpenersKinds, WindowKinds, FrameKinds, ShellTypeOK, ThreadStages, Windows, Browsers
<1>2. opened <= 1 /\ \A t \in ShellThreads : initAt[t] = "has" => servicesOpen
  BY DEF OpenersInv
<1>3. /\ revealed => ready /\ ~startHidden
      /\ ready /\ ~startHidden /\ (window = "framed" \/ (window = "overlay" /\ linux)) => revealed
  BY DEF WindowKinds, ShownInv, Framed
<1>4. (forced => browserIs \in {"agreed", "closed", "none"}) /\ (quit => ~playerUp)
  BY DEF WindowKinds, BrowserInv
<1> QED
  BY <1>1, <1>2, <1>3, <1>4 DEF ShellIsSound

LEMMA ShellInitially ==
  ASSUME ShellAssumption, ShellInit
  PROVE  ShellInv
<1>1. 0 \in 0 .. MaxOpenFaults /\ 0 \in 0 .. MaxCloseRequests /\ 0 \in 0 .. MaxSettingChanges
  BY DEF ShellAssumption
<1>2. OpenersKinds /\ OpenersInv
  BY <1>1 DEF ShellInit, OpenersKinds, OpenersInv, ThreadStages
<1>3. WindowKinds
  BY DEF ShellInit, WindowKinds, Windows, Browsers
<1>4. FrameKinds
  BY <1>1 DEF ShellInit, FrameKinds
<1>5. ShownInv /\ BrowserInv
  BY DEF ShellInit, ShownInv, Framed, BrowserInv
<1> QED
  BY <1>2, <1>3, <1>4, <1>5 DEF ShellInv

\* Opening the services.
OpenStep ==
  \E t \in ShellThreads : \/ AskServices(t) \/ TakeInitLock(t) \/ StartServices(t)
                          \/ \E ok \in BOOLEAN : OpenServices(t, ok)

LEMMA OpenersStep ==
  ASSUME ShellAssumption, OpenersKinds, OpenersInv, OpenStep
  PROVE  OpenersKinds' /\ OpenersInv'
<1> USE DEF OpenersKinds
<1>1. ASSUME NEW t \in ShellThreads, AskServices(t)
      PROVE  OpenersKinds' /\ OpenersInv'
  <2>1. /\ initAt' = [initAt EXCEPT ![t] = IF servicesOpen THEN "has" ELSE "waiting"]
        /\ initAt[t] \in {"idle", "failed"}
        /\ UNCHANGED <<initLock, servicesOpen, servicesOn, opened, openFaults>>
    BY <1>1 DEF AskServices
  <2>2. /\ initAt' \in [ShellThreads -> ThreadStages]
        /\ \A s \in ShellThreads \ {t} : initAt'[s] = initAt[s]
        /\ initAt'[t] = "waiting" \/ (initAt'[t] = "has" /\ servicesOpen = TRUE)
    BY <2>1 DEF ThreadStages
  <2> QED
    BY <2>1, <2>2 DEF OpenersInv
<1>2. ASSUME NEW t \in ShellThreads, TakeInitLock(t)
      PROVE  OpenersKinds' /\ OpenersInv'
  <2>1. initLock = nobody /\ initAt[t] = "waiting" /\ UNCHANGED <<servicesOpen, servicesOn, opened, openFaults>>
    BY <1>2 DEF TakeInitLock, InitStep
  <2>2. \A s \in ShellThreads : initAt[s] \notin {"opening", "starting"}
    BY <2>1 DEF OpenersInv, ShellAssumption
  <2>3. CASE servicesOpen = TRUE
    <3>1. initAt' = [initAt EXCEPT ![t] = "has"] /\ initLock' = initLock
      BY <1>2, <2>3 DEF TakeInitLock, SecondLook, InitStep
    <3> QED
      BY <2>1, <2>2, <2>3, <3>1 DEF OpenersInv, ThreadStages
  <2>4. CASE servicesOpen = FALSE
    <3>1. initAt' = [initAt EXCEPT ![t] = "opening"] /\ initLock' = t
      BY <1>2, <2>4 DEF TakeInitLock, SecondLook, InitStep
    <3> QED
      BY <2>1, <2>2, <2>4, <3>1 DEF OpenersInv, ThreadStages
  <2> QED
    BY <2>3, <2>4
<1>3. ASSUME NEW t \in ShellThreads, NEW ok \in BOOLEAN, OpenServices(t, ok)
      PROVE  OpenersKinds' /\ OpenersInv'
  <2>1. /\ initAt[t] = "opening" /\ servicesOn' = servicesOn
        /\ ok = TRUE \/ openFaults < MaxOpenFaults
        /\ openFaults' = openFaults + (IF ok THEN 0 ELSE 1)
    BY <1>3 DEF OpenServices, InitStep
  <2>2. openFaults' \in 0 .. MaxOpenFaults
    BY <2>1 DEF ShellAssumption
  <2>3. initLock = t /\ servicesOpen = FALSE /\ opened = 0
        /\ \A s \in ShellThreads \ {t} : initAt[s] \notin {"opening", "starting", "has"}
    BY <2>1 DEF OpenersInv
  <2>4. CASE ok = TRUE
    <3>1. initAt' = [initAt EXCEPT ![t] = "starting"] /\ servicesOpen' = TRUE /\ opened' = 1 /\ initLock' = t
      BY <1>3, <2>3, <2>4 DEF OpenServices, InitStep
    <3> QED
      BY <2>1, <2>2, <2>3, <3>1 DEF OpenersInv, ThreadStages
  <2>5. CASE ok = FALSE
    <3>1. initAt' = [initAt EXCEPT ![t] = "failed"] /\ initLock' = nobody
          /\ servicesOpen' = servicesOpen /\ opened' = opened
      BY <1>3, <2>5 DEF OpenServices, InitStep
    <3> QED
      BY <2>1, <2>2, <2>3, <3>1 DEF OpenersInv, ThreadStages
  <2> QED
    BY <2>4, <2>5
<1>4. ASSUME NEW t \in ShellThreads, StartServices(t)
      PROVE  OpenersKinds' /\ OpenersInv'
  <2>1. /\ initAt[t] = "starting" /\ initAt' = [initAt EXCEPT ![t] = "has"] /\ servicesOn' = TRUE
        /\ initLock' = nobody /\ UNCHANGED <<servicesOpen, opened, openFaults>>
    BY <1>4 DEF StartServices, InitStep
  <2>2. initLock = t /\ servicesOpen = TRUE
        /\ \A s \in ShellThreads \ {t} : initAt[s] \notin {"opening", "starting"}
    BY <2>1 DEF OpenersInv
  <2> QED
    BY <2>1, <2>2 DEF OpenersInv, ThreadStages
<1> QED
  BY <1>1, <1>2, <1>3, <1>4 DEF OpenStep

\* Everything but the openers' steps.
WindowStep ==
  \/ \E overlays \in BOOLEAN : OnContextInitialized(overlays)
  \/ OnAfterCreated \/ OnWindowCreated \/ PageReady \/ ApplyPreferenceChange \/ PageEdits \/ UserLeaves
  \/ \E b \in WindowBounds : BoundsChange(b)
  \/ RequestMainWindowClose \/ Restored \/ BeforeUnload \/ InitiateAppExit \/ HostVanishes
  \/ StillMinimized \/ OnBeforeClose

LEMMA WindowOnly ==
  ASSUME WindowStep, OpenersKinds, OpenersInv
  PROVE  OpenersKinds' /\ OpenersInv'
<1>1. UNCHANGED <<initLock, initAt, servicesOpen, opened, openFaults>>
      /\ (servicesOn' = servicesOn \/ servicesOn' = FALSE)
  BY DEF WindowStep, OnContextInitialized, OnAfterCreated, OnWindowCreated, PageReady,
     ApplyPreferenceChange, PageEdits, UserLeaves, BoundsChange, RequestMainWindowClose, Restored,
     BeforeUnload, InitiateAppExit, HostVanishes, StillMinimized, OnBeforeClose, openers
<1> QED
  BY <1>1 DEF OpenersKinds, OpenersInv

LEMMA FrameStep ==
  ASSUME ShellAssumption, OpenersKinds, FrameKinds, WindowStep
  PROVE  FrameKinds'
<1> USE DEF FrameKinds, limits, geometry
<1>1. SavedOnClose \in WindowBounds
  BY DEF SavedOnClose
<1>2. ASSUME UNCHANGED <<limits, geometry>> PROVE FrameKinds'
  BY <1>2
<1>3. CASE \E overlays \in BOOLEAN : OnContextInitialized(overlays)
  BY <1>2, <1>3 DEF OnContextInitialized
<1>4. CASE OnAfterCreated \/ OnWindowCreated \/ PageReady \/ PageEdits \/ UserLeaves
  BY <1>2, <1>4 DEF OnAfterCreated, OnWindowCreated, PageReady, PageEdits, UserLeaves
<1>5. CASE Restored \/ BeforeUnload \/ InitiateAppExit \/ HostVanishes
  BY <1>2, <1>5 DEF Restored, BeforeUnload, InitiateAppExit, HostVanishes
<1>6. CASE ApplyPreferenceChange
  BY <1>6 DEF ApplyPreferenceChange, LiveKept, ShellAssumption
<1>7. ASSUME NEW b \in WindowBounds, BoundsChange(b) PROVE FrameKinds'
  BY <1>7 DEF BoundsChange
<1>8. CASE RequestMainWindowClose
  <2>1. /\ closeRequests' = closeRequests + 1 /\ closeRequests < MaxCloseRequests
        /\ UNCHANGED <<minimizes, settingChanges, placed, liveBounds>>
        /\ savedBounds' \in {SavedOnClose, savedBounds}
    BY <1>8 DEF RequestMainWindowClose
  <2> QED
    BY <1>1, <2>1 DEF ShellAssumption
<1>9. CASE StillMinimized \/ OnBeforeClose
  BY <1>1, <1>9 DEF StillMinimized, OnBeforeClose
<1> QED
  BY <1>3, <1>4, <1>5, <1>6, <1>7, <1>8, <1>9 DEF WindowStep

\* A forced close leaves no browser that could refuse.
LEMMA ForcedStep ==
  ASSUME WindowKinds, ShownInv, BrowserInv, ForceClose, ~quit, window # "none",
         UNCHANGED <<startHidden, overlayWanted, linux, window, minimized, ready, revealAsked,
                     revealed, unsaved>>,
         host' \in BOOLEAN
  PROVE  WindowKinds' /\ ShownInv' /\ BrowserInv'
<1>1. /\ forced' = TRUE
      /\ \/ browserIs' = "agreed" /\ playerUp' = playerUp /\ quit' = quit
         \/ browserIs \in {"none", "closed"} /\ browserIs' = browserIs /\ playerUp' = FALSE /\ quit' = TRUE
  BY DEF ForceClose, WindowKinds, Browsers
<1>2. WindowKinds'
  BY <1>1 DEF WindowKinds, Browsers
<1>3. ShownInv'
  BY DEF ShownInv, Framed
<1>4. BrowserInv'
  BY <1>1 DEF BrowserInv, WindowKinds
<1> QED
  BY <1>2, <1>3, <1>4

LEMMA ShownStep ==
  ASSUME WindowKinds, ShownInv, BrowserInv, WindowStep
  PROVE  WindowKinds' /\ ShownInv' /\ BrowserInv'
<1> USE DEF options, frame, shows, closing
<1>1. ASSUME NEW overlays \in BOOLEAN, OnContextInitialized(overlays)
      PROVE  WindowKinds' /\ ShownInv' /\ BrowserInv'
  <2>1. /\ window = "none" /\ browserIs = "none" /\ quit = FALSE /\ playerUp' = TRUE
        /\ UNCHANGED <<startHidden, overlayWanted, linux, minimized, ready, revealAsked, revealed, forced,
                       quit, unsaved>>
        /\ \/ window' = "overlay" /\ host' = TRUE /\ browserIs' = "open"
           \/ window' = "asked" /\ UNCHANGED <<host, browserIs>>
    BY <1>1 DEF OnContextInitialized, WindowKinds, ShownInv
  <2>2. ready = FALSE /\ forced = FALSE
    BY <2>1 DEF ShownInv, BrowserInv, WindowKinds
  <2>3. WindowKinds'
    BY <2>1 DEF WindowKinds, Windows, Browsers
  <2>4. ShownInv'
    BY <2>1, <2>2 DEF ShownInv
  <2>5. BrowserInv'
    BY <2>1, <2>2 DEF BrowserInv
  <2> QED
    BY <2>3, <2>4, <2>5
<1>2. CASE OnAfterCreated
  <2>1. /\ window \in {"asked", "framed"} /\ browserIs = "none" /\ quit = FALSE /\ browserIs' = "open"
        /\ UNCHANGED <<startHidden, overlayWanted, linux, window, host, minimized, ready, revealAsked,
                       revealed, forced, playerUp, quit, unsaved>>
    BY <1>2 DEF OnAfterCreated, WindowKinds
  <2>2. WindowKinds'
    BY <2>1 DEF WindowKinds, Browsers
  <2> QED
    BY <2>1, <2>2 DEF ShownInv, Framed, BrowserInv
<1>3. CASE OnWindowCreated
  <2>1. /\ window = "asked" /\ window' = "framed"
        /\ UNCHANGED <<startHidden, overlayWanted, linux, host, minimized, ready, revealAsked,
                       browserIs, forced, playerUp, quit, unsaved>>
        /\ revealed' = (revealed \/ (AlreadyAsked /\ Reveals(TRUE)))
    BY <1>3 DEF OnWindowCreated
  <2>2. revealed' \in BOOLEAN
        /\ (revealed' = TRUE <=> revealed = TRUE \/ (revealAsked = TRUE /\ startHidden = FALSE))
    BY <2>1 DEF AlreadyAsked, Reveals, WindowKinds
  <2>3. WindowKinds'
    BY <2>1, <2>2 DEF WindowKinds, Windows
  <2>4. ShownInv'
    BY <2>1, <2>2 DEF ShownInv, WindowKinds
  <2> QED
    BY <2>1, <2>3, <2>4 DEF BrowserInv
<1>4. CASE PageReady
  <2>1. /\ browserIs \in {"open", "asking"} /\ ready' = TRUE /\ revealAsked' = TRUE
        /\ UNCHANGED <<startHidden, overlayWanted, linux, window, host, minimized, browserIs, forced,
                       playerUp, quit, unsaved>>
        /\ revealed' = (revealed \/ Reveals(window = "framed" \/ (window = "overlay" /\ linux)))
    BY <1>4 DEF PageReady
  <2>2. revealed' \in BOOLEAN
        /\ (revealed' = TRUE <=> revealed = TRUE \/ (startHidden = FALSE /\ Framed))
    BY <2>1 DEF Reveals, Framed, WindowKinds
  <2>3. WindowKinds'
    BY <2>1, <2>2 DEF WindowKinds
  <2>4. ShownInv'
    BY <2>1, <2>2 DEF ShownInv, Framed
  <2> QED
    BY <2>1, <2>3, <2>4 DEF BrowserInv
<1>5. ASSUME UNCHANGED <<startHidden, overlayWanted, linux, window, host, ready, revealAsked,
                         revealed, browserIs, forced, playerUp, quit, unsaved>>,
             minimized' \in BOOLEAN
      PROVE  WindowKinds' /\ ShownInv' /\ BrowserInv'
  BY <1>5 DEF WindowKinds, ShownInv, Framed, BrowserInv
<1>6. CASE ApplyPreferenceChange \/ Restored \/ \E b \in WindowBounds : BoundsChange(b)
  BY <1>5, <1>6 DEF ApplyPreferenceChange, Restored, BoundsChange, WindowKinds
<1>7. ASSUME UNCHANGED <<startHidden, overlayWanted, linux, window, host, ready, revealAsked,
                         revealed, forced, playerUp, quit>>,
             unsaved' \in BOOLEAN, minimized' \in BOOLEAN, browserIs' \in {"open", "asking", "agreed"},
             browserIs \in {"open", "asking", "agreed"},
             forced = TRUE => browserIs' = "agreed",
             browserIs' = "agreed" => forced' = TRUE \/ unsaved' = FALSE
      PROVE  WindowKinds' /\ ShownInv' /\ BrowserInv'
  BY <1>7 DEF WindowKinds, Browsers, ShownInv, Framed, BrowserInv
<1>8. forced = TRUE => browserIs \notin {"open", "asking"}
  BY DEF BrowserInv
<1>9. CASE PageEdits
  <2>1. unsaved' \in BOOLEAN /\ browserIs = "open" /\ browserIs' = "open" /\ minimized' \in BOOLEAN
    BY <1>9 DEF PageEdits, WindowKinds
  <2> QED
    BY <1>7, <1>8, <1>9, <2>1 DEF PageEdits
<1>10. CASE UserLeaves
  BY <1>7, <1>8, <1>10 DEF UserLeaves, WindowKinds
<1>11. CASE RequestMainWindowClose
  <2>1. /\ UNCHANGED <<startHidden, overlayWanted, linux, window, host, ready, revealAsked, revealed,
                       forced, playerUp, quit, unsaved>>
        /\ browserIs = "open" /\ minimized' \in BOOLEAN /\ browserIs' \in {"open", "asking"}
    BY <1>11 DEF RequestMainWindowClose, WindowKinds
  <2> QED
    BY <1>7, <1>8, <2>1 DEF WindowKinds
<1>12. CASE BeforeUnload
  <2>1. /\ UNCHANGED <<startHidden, overlayWanted, linux, window, host, minimized, ready, revealAsked,
                       revealed, forced, playerUp, quit, unsaved>>
        /\ browserIs = "asking" /\ browserIs' \in {"open", "agreed"}
        /\ browserIs' = "agreed" => forced \/ ~unsaved
    BY <1>12 DEF BeforeUnload, MayGo
  <2> QED
    BY <1>7, <1>8, <2>1 DEF WindowKinds
<1>13. CASE InitiateAppExit \/ HostVanishes
  BY <1>13, ForcedStep DEF InitiateAppExit, HostVanishes, WindowKinds
<1>14. CASE StillMinimized
  <2>1. /\ UNCHANGED <<startHidden, overlayWanted, linux, window, host, ready, revealAsked, revealed,
                       forced, playerUp, quit, unsaved>>
        /\ browserIs = "agreed" /\ minimized' = TRUE /\ browserIs' = "open" /\ ~forced
    BY <1>14 DEF StillMinimized, Minimizes
  <2> QED
    BY <1>7, <2>1 DEF WindowKinds
<1>15. CASE OnBeforeClose
  <2>1. /\ browserIs = "agreed" /\ browserIs' = "closed" /\ window' = "gone" /\ host' = FALSE
        /\ playerUp' = FALSE /\ quit' = TRUE
        /\ UNCHANGED <<startHidden, overlayWanted, linux, minimized, ready, revealAsked, revealed, forced,
                       unsaved>>
    BY <1>15 DEF OnBeforeClose
  <2>2. WindowKinds'
    BY <2>1 DEF WindowKinds, Windows, Browsers
  <2> QED
    BY <2>1, <2>2 DEF ShownInv, Framed, BrowserInv
<1> QED
  BY <1>1, <1>2, <1>3, <1>4, <1>6, <1>9, <1>10, <1>11, <1>12, <1>13, <1>14, <1>15 DEF WindowStep

LEMMA ShellStep ==
  ASSUME ShellAssumption, ShellInv, [ShellNext]_shellVars
  PROVE  ShellInv'
<1> USE DEF ShellInv
<1>1. CASE OpenStep
  <2>1. UNCHANGED <<options, frame, shows, limits, closing, unsaved, geometry>>
    BY <1>1 DEF OpenStep, AskServices, TakeInitLock, StartServices, OpenServices, ServicesStep
  <2>2. WindowKinds' /\ FrameKinds' /\ ShownInv' /\ BrowserInv'
    BY <2>1 DEF options, frame, shows, limits, closing, geometry, WindowKinds, FrameKinds, ShownInv,
       Framed, BrowserInv
  <2> QED
    BY <1>1, <2>2, OpenersStep
<1>2. CASE WindowStep
  BY <1>2, WindowOnly, FrameStep, ShownStep
<1>3. CASE UNCHANGED shellVars
  BY <1>3 DEF shellVars, openers, options, frame, shows, limits, closing, geometry, OpenersKinds,
     WindowKinds, FrameKinds, OpenersInv, ShownInv, Framed, BrowserInv
<1> QED
  BY <1>1, <1>2, <1>3 DEF ShellNext, OpenStep, WindowStep

(* Every variable keeps its type. *)
THEOREM ShellTypes ==
  ASSUME ShellAssumption
  PROVE  ShellSpec => []ShellTypeOK
<1>1. ShellInit => ShellInv
  BY ShellInitially
<1>2. ShellInv /\ [ShellNext]_shellVars => ShellInv'
  BY ShellStep
<1>3. ShellInv => ShellTypeOK
  BY ShellTruth
<1> QED
  BY <1>1, <1>2, <1>3, PTL DEF ShellSpec

(* The services are opened once, the window shown when it is there, its page ready and it is *)
(* not to stay hidden, a forced close is stopped by nothing, and the player is down when    *)
(* the program ends (init_with_settings, reveal_main_window, request_main_window_close,     *)
(* on_before_close).                                                                     *)
THEOREM ShellStaysSound ==
  ASSUME ShellAssumption
  PROVE  ShellSpec => []ShellIsSound
<1>1. ShellInit => ShellInv
  BY ShellInitially
<1>2. ShellInv /\ [ShellNext]_shellVars => ShellInv'
  BY ShellStep
<1>3. ShellInv => ShellIsSound
  BY ShellTruth
<1> QED
  BY <1>1, <1>2, <1>3, PTL DEF ShellSpec

(* A close that nothing forced loses no unsaved settings, and the bounds saved are those   *)
(* of the window that closes (request_main_window_close, on_before_unload_dialog,         *)
(* on_before_close).                                                                     *)
THEOREM ClosesStayAgreed ==
  ASSUME ShellAssumption
  PROVE  ShellSpec => [][ClosesAsAgreed]_shellVars
<1>1. ShellInit => ShellInv
  BY ShellInitially
<1>2. ShellInv /\ [ShellNext]_shellVars => ShellInv'
  BY ShellStep
<1>3. ShellInv /\ [ShellNext]_shellVars => [ClosesAsAgreed]_shellVars
  <2> SUFFICES ASSUME ShellInv, ShellNext, browserIs' = "closed", browserIs # "closed"
               PROVE  (forced \/ ~unsaved) /\ (servicesOpen => savedBounds' = placed)
    BY DEF ClosesAsAgreed
  <2>1. OnBeforeClose
    BY DEF ShellNext, AskServices, TakeInitLock, StartServices, OpenServices, ServicesStep,
       OnContextInitialized, OnAfterCreated, OnWindowCreated, PageReady, ApplyPreferenceChange, PageEdits,
       UserLeaves, BoundsChange, RequestMainWindowClose, Restored, BeforeUnload, InitiateAppExit,
       HostVanishes, ForceClose, StillMinimized, closing
  <2>2. browserIs = "agreed" /\ savedBounds' = SavedOnClose
    BY <2>1 DEF OnBeforeClose
  <2>3. forced \/ ~unsaved
    BY <2>2 DEF ShellInv, BrowserInv, WindowKinds
  <2>4. servicesOpen => savedBounds' = placed
    BY <2>2 DEF SavedOnClose, ShellInv, FrameKinds
  <2> QED
    BY <2>3, <2>4
<1> QED
  BY <1>1, <1>2, <1>3, PTL DEF ShellSpec

-----------------------------------------------------------------------------------
(* Settings and the player.                                                            *)
(* The player runs by the settings that were announced last, for any threads that patch   *)
(* them and any order in which their changes are announced (PlayerSettings).  A change     *)
(* that is kept but not applied yet is pending, and carries what it changed from.  As long *)
(* as the changes can still be announced in the order they were made in (Orderly), each    *)
(* was made from the pending one before it, or from what the shell has (Linked); and while *)
(* no restart is asked for, all of them are for the backend the windows were made for.     *)

SettingsKinds ==
  /\ settings \in DeviceSettings /\ settingsFile \in DeviceSettings
  /\ shellSettings \in DeviceSettings
  /\ unsent \in [Patchers -> Changes \cup {NoChange}] /\ announced \in Seq(Changes)
  /\ player \in Players /\ windowModel \in {Libmpv, Mpv}
  /\ openedWith \in [runtime : MpvPaths \cup {Unnamed, Libmpv}, kind : {Libmpv, Mpv, Unnamed},
                     warmed : BOOLEAN]
  /\ patches \in 0 .. MaxPatches /\ playerStarts \in 0 .. MaxPlayerStarts
  /\ saveFaults \in 0 .. MaxSaveFaults /\ restartAsked \in BOOLEAN /\ announcedLate \in BOOLEAN

Waits(t) == unsent[t] # NoChange
Unapplied ==
  {announced[i] : i \in DOMAIN announced} \cup {unsent[t] : t \in {u \in Patchers : Waits(u)}}
Holders == {shellSettings} \cup {c.to : c \in Unapplied}

VersionsDiffer ==
  /\ \A i, j \in DOMAIN announced : announced[i].version = announced[j].version => i = j
  /\ \A t, u \in Patchers : Waits(t) /\ Waits(u) /\ unsent[t].version = unsent[u].version => t = u
  /\ \A t \in Patchers, i \in DOMAIN announced : Waits(t) => unsent[t].version # announced[i].version
  /\ \A c \in Unapplied :
       c.version = c.to.version /\ c.version <= patches /\ c.version # shellSettings.version
  /\ shellSettings.version <= patches /\ settings.version <= patches

\* What was announced so far was announced in order.
InOrder ==
  announcedLate = FALSE =>
    /\ \A i, j \in DOMAIN announced : i < j => announced[i].version < announced[j].version
    /\ \A i \in DOMAIN announced : shellSettings.version < announced[i].version

Orderly ==
  /\ announcedLate = FALSE
  /\ \A t \in Patchers : Waits(t) => shellSettings.version < unsent[t].version
  /\ \A t \in Patchers, i \in DOMAIN announced : Waits(t) => announced[i].version < unsent[t].version

MadeFrom(c, h) ==
  /\ h.version < c.version /\ c.plan = ApplyPlan(h, c.to)
  /\ \A g \in Holders : g.version < c.version => g.version <= h.version
Linked ==
  /\ \A c \in Unapplied : \E h \in Holders : MadeFrom(c, h)
  /\ settings \in Holders /\ \A g \in Holders : g.version <= settings.version
  /\ player.preferences = PlayerPreferences(shellSettings)
  /\ restartAsked = FALSE => player.warmed = ConfiguredPath(shellSettings)
OrderlyIsLinked == Orderly => Linked

ModelKept ==
  restartAsked = FALSE =>
    /\ player.kind = windowModel /\ EffectiveBackend(settings) = windowModel
    /\ \A g \in Holders : EffectiveBackend(g) = windowModel

RuntimesMatch ==
  /\ player.warmed # Unnamed => (player.warmed = Libmpv <=> player.kind = Libmpv)
  /\ openedWith.warmed = TRUE => (openedWith.runtime = Libmpv <=> openedWith.kind = Libmpv)

SettingsAreSaved ==
  /\ ~ShortcutsConflict(settings)
  /\ \/ settings = settingsFile
     \/ /\ settings.path # Unnamed /\ settings.backend = Mpv
        /\ settingsFile = [settings EXCEPT !.path = Unnamed]

PreferencesInv ==
  /\ SettingsKinds /\ VersionsDiffer /\ InOrder /\ OrderlyIsLinked /\ ModelKept /\ RuntimesMatch
  /\ SettingsAreSaved

-----------------------------------------------------------------------------------
\* What the functions of the settings return.
LEMMA SettingsRead ==
  ASSUME PreferencesAssumption, NEW s \in DeviceSettings
  PROVE  /\ EffectiveBackend(s) \in {Libmpv, Mpv}
         /\ PlayerPreferences(s) = [watched |-> s.watched, skip |-> s.skip]
         /\ ConfiguredPath(s) \in MpvPaths \cup {Unnamed, Libmpv}
         /\ ConfiguredPath(s) = Libmpv <=> EffectiveBackend(s) = Libmpv
         /\ BuiltBy(s) \in Players /\ BuiltBy(s).kind = EffectiveBackend(s)
         /\ BuiltBy(s).warmed = ConfiguredPath(s) /\ BuiltBy(s).preferences = PlayerPreferences(s)
         /\ s.version \in Nat /\ s.version <= MaxPatches
<1>1. s.path \in MpvPaths \cup {Unnamed} /\ s.backend \in {Unnamed, Libmpv, Mpv} /\ s.path # Libmpv
      /\ s.watched \in Shortcuts /\ s.skip \in SkipChoices /\ s.version \in 0 .. MaxPatches
  BY DEF DeviceSettings, PreferencesAssumption, Unnamed, Libmpv
<1>2. EffectiveBackend(s) \in {Libmpv, Mpv}
  BY <1>1 DEF EffectiveBackend
<1>3. /\ ConfiguredPath(s) \in MpvPaths \cup {Unnamed, Libmpv}
      /\ ConfiguredPath(s) = Libmpv <=> EffectiveBackend(s) = Libmpv
  BY <1>1, <1>2 DEF ConfiguredPath
<1>4. MaxPatches \in Nat /\ PlayerPreferences(s) \in [watched : Shortcuts, skip : SkipChoices]
  BY <1>1 DEF PreferencesAssumption, PlayerPreferences
<1> QED
  BY <1>1, <1>2, <1>3, <1>4 DEF BuiltBy, Players, PlayerPreferences

LEMMA PlanRead ==
  ASSUME PreferencesAssumption, NEW s \in DeviceSettings, NEW n \in DeviceSettings
  PROVE  /\ ApplyPlan(s, n) \in [rebuild : BOOLEAN, configure : BOOLEAN]
         /\ ApplyPlan(s, n).configure = FALSE => PlayerPreferences(s) = PlayerPreferences(n)
         /\ ApplyPlan(s, n).rebuild = FALSE /\ EffectiveBackend(s) = EffectiveBackend(n)
              => ConfiguredPath(s) = ConfiguredPath(n)
<1>1. EffectiveBackend(n) \in {Libmpv, Mpv}
  BY SettingsRead
<1>2. /\ ApplyPlan(s, n).rebuild = RebuildPlayer(s, n)
      /\ ApplyPlan(s, n).configure = (PlayerPreferences(s) # PlayerPreferences(n))
      /\ ApplyPlan(s, n) \in [rebuild : BOOLEAN, configure : BOOLEAN]
  BY DEF ApplyPlan, RebuildPlayer
<1>3. CASE EffectiveBackend(s) = EffectiveBackend(n) /\ ~RebuildPlayer(s, n)
  BY <1>1, <1>2, <1>3 DEF RebuildPlayer, WindowModelChanged, ConfiguredPath
<1> QED
  BY <1>2, <1>3

LEMMA UnappliedRead ==
  ASSUME PreferencesAssumption, SettingsKinds
  PROVE  /\ \A c \in Unapplied : c \in Changes /\ c.to \in DeviceSettings /\ c.version \in Nat
         /\ \A g \in Holders : g \in DeviceSettings /\ g.version \in Nat
         /\ \A i \in DOMAIN announced : announced[i] \in Unapplied /\ announced[i] \in Changes
         /\ \A t \in Patchers : Waits(t) => unsent[t] \in Unapplied /\ unsent[t] \in Changes
         /\ shellSettings \in Holders /\ \A c \in Unapplied : c.to \in Holders
<1>1. \A i \in DOMAIN announced : announced[i] \in Unapplied /\ announced[i] \in Changes
  BY DEF SettingsKinds, Unapplied
<1>2. \A t \in Patchers : Waits(t) => unsent[t] \in Unapplied /\ unsent[t] \in Changes
  BY DEF SettingsKinds, Unapplied, Waits
<1>3. \A c \in Unapplied : c \in Changes
  BY <1>1, <1>2 DEF Unapplied
<1>4. \A c \in Unapplied : c.to \in DeviceSettings /\ c.version \in Nat
  BY <1>3 DEF Changes
<1>5. \A g \in Holders : g \in DeviceSettings
  BY <1>4 DEF Holders, SettingsKinds
<1>6. \A g \in Holders : g.version \in Nat
  BY <1>5, SettingsRead
<1>7. shellSettings \in Holders /\ \A c \in Unapplied : c.to \in Holders
  BY DEF Holders
<1> QED
  BY <1>1, <1>2, <1>3, <1>4, <1>5, <1>6, <1>7

LEMMA SettingsTruth ==
  ASSUME PreferencesAssumption, PreferencesInv
  PROVE  PreferencesTypeOK /\ PlayerRunsBySettings /\ KeepsItsWindowModel
<1> USE DEF PreferencesInv
<1>1. PreferencesTypeOK
  BY DEF SettingsKinds, PreferencesTypeOK
<1>2. ASSUME Quiet, ~announcedLate
      PROVE  /\ player.preferences = PlayerPreferences(settings)
             /\ shellSettings.version = settings.version
             /\ restartAsked \/ (/\ player.kind = EffectiveBackend(settings)
                                /\ player.warmed = ConfiguredPath(settings))
  <2>1. DOMAIN announced = {} /\ \A t \in Patchers : ~Waits(t)
    BY <1>2 DEF Quiet, Waits
  <2>2. Unapplied = {} /\ Holders = {shellSettings}
    BY <2>1 DEF Unapplied, Holders
  <2>3. announcedLate = FALSE
    BY <1>2 DEF SettingsKinds
  <2>4. Linked
    BY <2>1, <2>3 DEF OrderlyIsLinked, Orderly
  <2>5. settings = shellSettings
    BY <2>2, <2>4 DEF Linked
  <2>6. restartAsked \in BOOLEAN
    BY DEF SettingsKinds
  <2> QED
    BY <2>4, <2>5, <2>6 DEF Linked, ModelKept
<1>3. openedWith.warmed => (openedWith.runtime = Libmpv) = (openedWith.kind = Libmpv)
  <2>1. openedWith.warmed \in BOOLEAN
    BY DEF SettingsKinds
  <2> QED
    BY <2>1 DEF RuntimesMatch
<1>4. ~ShortcutsConflict(settings)
      /\ \/ settings = settingsFile
         \/ (settings.path # Unnamed /\ settingsFile = [settings EXCEPT !.path = Unnamed])
  BY DEF SettingsAreSaved
<1>5. KeepsItsWindowModel
  <2>1. restartAsked \in BOOLEAN
    BY DEF SettingsKinds
  <2> QED
    BY <2>1 DEF ModelKept, KeepsItsWindowModel
<1> QED
  BY <1>1, <1>2, <1>3, <1>4, <1>5 DEF PlayerRunsBySettings

\* A start: nothing is pending, and all is as the settings say.
LEMMA SettingsBegin ==
  ASSUME PreferencesAssumption, PreferencesInit
  PROVE  PreferencesInv
<1> DEFINE s == settingsFile
<1>1. Begun(s) /\ patches = 0 /\ playerStarts = 0 /\ saveFaults = 0
  BY DEF PreferencesInit
<1>2. settings = s /\ shellSettings = s /\ player = BuiltBy(s) /\ windowModel = EffectiveBackend(s)
      /\ unsent = [t \in Patchers |-> NoChange] /\ announced = << >> /\ openedWith = NotOpened
      /\ restartAsked = FALSE /\ announcedLate = FALSE
  BY <1>1 DEF Begun
<1>3. Defaults \in DeviceSettings /\ Defaults.watched = "w" /\ Defaults.seek = "j" /\ Defaults.version = 0
  <2>1. 0 \in 0 .. MaxPatches /\ "w" \in Shortcuts /\ "j" \in Shortcuts /\ "prompt" \in SkipChoices
    BY DEF PreferencesAssumption, Shortcuts, SkipChoices
  <2> QED
    BY <2>1 DEF Defaults, DeviceSettings
<1>4. s \in DeviceSettings /\ s.watched = "w" /\ s.seek = "j" /\ s.version = 0
  <2>1. CASE s = Defaults
    BY <1>3, <2>1
  <2>2. ASSUME NEW p \in MpvPaths, s = [Defaults EXCEPT !.path = p]
        PROVE  s \in DeviceSettings /\ s.watched = "w" /\ s.seek = "j" /\ s.version = 0
    BY <1>3, <2>2 DEF DeviceSettings, Defaults
  <2> QED
    BY <2>1, <2>2 DEF PreferencesInit
<1>5. /\ EffectiveBackend(s) \in {Libmpv, Mpv} /\ BuiltBy(s) \in Players
      /\ BuiltBy(s).kind = EffectiveBackend(s) /\ BuiltBy(s).warmed = ConfiguredPath(s)
      /\ BuiltBy(s).preferences = PlayerPreferences(s)
      /\ ConfiguredPath(s) = Libmpv <=> EffectiveBackend(s) = Libmpv
  BY <1>4, SettingsRead
<1> HIDE DEF s
<1>6. SettingsKinds
  <2>1. 0 \in 0 .. MaxPatches /\ 0 \in 0 .. MaxPlayerStarts /\ 0 \in 0 .. MaxSaveFaults
    BY DEF PreferencesAssumption
  <2>2. << >> \in Seq(Changes)
    BY EmptySeq
  <2>3. openedWith \in [runtime : MpvPaths \cup {Unnamed, Libmpv}, kind : {Libmpv, Mpv, Unnamed},
                       warmed : BOOLEAN]
    BY <1>2 DEF NotOpened
  <2>4. unsent \in [Patchers -> Changes \cup {NoChange}]
    BY <1>2
  <2> QED
    BY <1>1, <1>2, <1>4, <1>5, <2>1, <2>2, <2>3, <2>4 DEF SettingsKinds, s
<1>7. Unapplied = {} /\ Holders = {s} /\ DOMAIN announced = {} /\ \A t \in Patchers : ~Waits(t)
  BY <1>2 DEF Unapplied, Holders, Waits
<1>8. VersionsDiffer /\ InOrder
  BY <1>1, <1>2, <1>4, <1>7 DEF VersionsDiffer, InOrder
<1>9. OrderlyIsLinked /\ ModelKept /\ RuntimesMatch
  <2>1. OrderlyIsLinked
    BY <1>2, <1>4, <1>5, <1>7 DEF OrderlyIsLinked, Linked
  <2>2. ModelKept
    BY <1>2, <1>5, <1>7 DEF ModelKept
  <2>3. openedWith.warmed = FALSE
    BY <1>2 DEF NotOpened
  <2> QED
    BY <1>2, <1>5, <2>1, <2>2, <2>3 DEF RuntimesMatch
<1>10. SettingsAreSaved
  BY <1>2, <1>4 DEF SettingsAreSaved, ShortcutsConflict, s
<1> QED
  BY <1>6, <1>8, <1>9, <1>10 DEF PreferencesInv

LEMMA SettingsRestart ==
  ASSUME PreferencesAssumption, PreferencesInv,
         NEW commandLine \in MpvPaths \cup {Unnamed}, NEW found \in MpvPaths \cup {Unnamed},
         StartAgain(commandLine, found)
  PROVE  PreferencesInv'
<1> DEFINE s == StartedWith(commandLine, found)
<1>1. /\ settings' = s /\ shellSettings' = s /\ player' = BuiltBy(s)
      /\ windowModel' = EffectiveBackend(s)
      /\ unsent' = [t \in Patchers |-> NoChange] /\ announced' = << >> /\ openedWith' = NotOpened
      /\ restartAsked' = FALSE /\ announcedLate' = FALSE /\ patches' = patches
      /\ saveFaults' = saveFaults /\ playerStarts < MaxPlayerStarts /\ playerStarts' = playerStarts + 1
      /\ settingsFile' = IF commandLine # Unnamed THEN s ELSE settingsFile
  BY DEF StartAgain
<1>2. /\ settingsFile \in DeviceSettings /\ settings \in DeviceSettings
      /\ settingsFile.version = settings.version /\ settings.version <= patches
      /\ ~(EffectiveBackend(settingsFile) = Libmpv /\ settingsFile.watched # Unnamed
             /\ settingsFile.watched = settingsFile.seek)
  <2>1. settingsFile \in DeviceSettings /\ settings \in DeviceSettings /\ settings.version <= patches
    BY DEF PreferencesInv, SettingsKinds, VersionsDiffer
  <2>2. CASE settings = settingsFile
    BY <2>1, <2>2 DEF PreferencesInv, SettingsAreSaved, ShortcutsConflict
  <2>3. CASE settings.backend = Mpv /\ settingsFile = [settings EXCEPT !.path = Unnamed]
    <3>1. settingsFile.backend = Mpv /\ settingsFile.version = settings.version
      BY <2>1, <2>3 DEF DeviceSettings
    <3> QED
      BY <2>1, <3>1 DEF EffectiveBackend, Mpv, Libmpv, Unnamed
  <2> QED
    BY <2>1, <2>2, <2>3 DEF PreferencesInv, SettingsAreSaved
<1>3. /\ s \in DeviceSettings /\ s.version = settingsFile.version
      /\ ~(EffectiveBackend(s) = Libmpv /\ s.watched # Unnamed /\ s.watched = s.seek)
      /\ \/ s = settingsFile'
         \/ s.path # Unnamed /\ s.backend = Mpv /\ settingsFile' = [s EXCEPT !.path = Unnamed]
  <2>1. CASE commandLine # Unnamed
    <3>1. s = [settingsFile EXCEPT !.path = commandLine, !.backend = Mpv] /\ s = settingsFile'
      BY <1>1, <2>1 DEF StartedWith
    <3>2. s \in DeviceSettings /\ s.version = settingsFile.version /\ s.backend = Mpv
      BY <1>2, <3>1 DEF DeviceSettings
    <3> QED
      BY <3>1, <3>2 DEF EffectiveBackend, Mpv, Libmpv, Unnamed
  <2>2. CASE /\ commandLine = Unnamed /\ EffectiveBackend(settingsFile) = Mpv
             /\ settingsFile.path = Unnamed /\ found # Unnamed
    <3>1. s = [settingsFile EXCEPT !.path = found] /\ settingsFile' = settingsFile
      BY <1>1, <2>2 DEF StartedWith
    <3>2. settingsFile.backend = Mpv
      BY <1>2, <2>2 DEF EffectiveBackend, DeviceSettings, Mpv, Libmpv, Unnamed
    <3>3. s \in DeviceSettings /\ s.version = settingsFile.version /\ s.backend = Mpv /\ s.path = found
      BY <1>2, <3>1, <3>2 DEF DeviceSettings
    <3>4. settingsFile = [s EXCEPT !.path = Unnamed]
      BY <1>2, <2>2, <3>1 DEF DeviceSettings
    <3> QED
      BY <2>2, <3>1, <3>3, <3>4 DEF EffectiveBackend, Mpv, Libmpv, Unnamed
  <2>3. CASE /\ commandLine = Unnamed
             /\ \/ found = Unnamed /\ settingsFile.path = Unnamed
                \/ ~(EffectiveBackend(settingsFile) = Mpv /\ settingsFile.path = Unnamed)
    <3>1. settingsFile = [settingsFile EXCEPT !.path = settingsFile.path]
      BY <1>2 DEF DeviceSettings
    <3>2. s = settingsFile /\ settingsFile' = settingsFile
      BY <1>1, <2>3, <3>1 DEF StartedWith
    <3> QED
      BY <1>2, <3>2
  <2> QED
    BY <2>1, <2>2, <2>3
<1>4. /\ EffectiveBackend(s) \in {Libmpv, Mpv} /\ BuiltBy(s) \in Players /\ s.version \in Nat
      /\ BuiltBy(s).kind = EffectiveBackend(s) /\ BuiltBy(s).warmed = ConfiguredPath(s)
      /\ BuiltBy(s).preferences = PlayerPreferences(s)
      /\ ConfiguredPath(s) = Libmpv <=> EffectiveBackend(s) = Libmpv
  BY <1>3, SettingsRead
<1> HIDE DEF s
<1>5. SettingsKinds'
  <2>1. /\ playerStarts' \in 0 .. MaxPlayerStarts /\ patches' \in 0 .. MaxPatches
        /\ saveFaults' \in 0 .. MaxSaveFaults
    BY <1>1 DEF PreferencesInv, SettingsKinds, PreferencesAssumption
  <2>2. << >> \in Seq(Changes) /\ settingsFile' \in DeviceSettings
    BY <1>1, <1>2, <1>3, EmptySeq
  <2>3. openedWith' \in [runtime : MpvPaths \cup {Unnamed, Libmpv}, kind : {Libmpv, Mpv, Unnamed},
                        warmed : BOOLEAN]
    BY <1>1 DEF NotOpened
  <2>4. unsent' \in [Patchers -> Changes \cup {NoChange}]
    BY <1>1
  <2> QED
    BY <1>1, <1>3, <1>4, <2>1, <2>2, <2>3, <2>4 DEF SettingsKinds
<1>6. Unapplied' = {} /\ Holders' = {s} /\ DOMAIN announced' = {} /\ \A t \in Patchers : ~Waits(t)'
  BY <1>1 DEF Unapplied, Holders, Waits
<1>7. VersionsDiffer' /\ InOrder'
  BY <1>1, <1>2, <1>3, <1>6 DEF VersionsDiffer, InOrder
<1>8. OrderlyIsLinked' /\ ModelKept' /\ RuntimesMatch'
  <2>1. OrderlyIsLinked'
    BY <1>1, <1>4, <1>6 DEF OrderlyIsLinked, Linked
  <2>2. ModelKept'
    BY <1>1, <1>4, <1>6 DEF ModelKept
  <2>3. openedWith'.warmed = FALSE
    BY <1>1 DEF NotOpened
  <2> QED
    BY <1>1, <1>4, <2>1, <2>2, <2>3 DEF RuntimesMatch
<1>9. SettingsAreSaved'
  BY <1>1, <1>3 DEF SettingsAreSaved, ShortcutsConflict
<1> QED
  BY <1>5, <1>7, <1>8, <1>9 DEF PreferencesInv

\* A patch: what it makes of the settings is pending, made from the settings of before.
LEMMA SettingsUpdate ==
  ASSUME PreferencesAssumption, PreferencesInv, NEW t \in Patchers, NEW next \in DeviceSettings,
         UpdateSettings(t, next),
         ~(EffectiveBackend(next) = Libmpv /\ next.watched # Unnamed /\ next.watched = next.seek)
  PROVE  PreferencesInv'
<1> DEFINE n == [next EXCEPT !.version = patches + 1]
           c == [to |-> n, plan |-> ApplyPlan(settings, n), version |-> n.version]
<1>1. /\ unsent[t] = NoChange /\ patches < MaxPatches /\ patches' = patches + 1
      /\ KeepSettings(t, n) /\ restartAsked' = (restartAsked \/ WindowModelChanged(settings, settings'))
      /\ UNCHANGED <<announced, shellSettings, player, windowModel, openedWith, playerStarts,
                     announcedLate>>
  BY DEF UpdateSettings
<1>2. /\ patches \in Nat /\ MaxPatches \in Nat /\ saveFaults \in 0 .. MaxSaveFaults
      /\ MaxSaveFaults \in Nat /\ settings \in DeviceSettings /\ restartAsked \in BOOLEAN
  BY DEF PreferencesInv, SettingsKinds, PreferencesAssumption
<1>3. patches' \in 1 .. MaxPatches /\ patches' > patches
  BY <1>1, <1>2
<1>4. CASE settings' = settings /\ settingsFile' = settingsFile /\ unsent' = unsent /\ SettingsSaveFails
  <2>1. restartAsked' = restartAsked
    BY <1>1, <1>2, <1>4 DEF WindowModelChanged
  <2>2. saveFaults' \in 0 .. MaxSaveFaults
    BY <1>2, <1>4 DEF SettingsSaveFails
  <2>3. SettingsKinds'
    BY <1>1, <1>3, <1>4, <2>1, <2>2 DEF PreferencesInv, SettingsKinds
  <2>4. Unapplied' = Unapplied /\ Holders' = Holders
    BY <1>1, <1>4 DEF Unapplied, Holders, Waits
  <2>5. \A h \in Unapplied : h.version \in Nat
    BY UnappliedRead DEF PreferencesInv
  <2>6. settings.version \in Nat /\ shellSettings.version \in Nat
    BY SettingsRead DEF PreferencesInv, SettingsKinds
  <2>7. VersionsDiffer'
    BY <1>1, <1>2, <1>3, <1>4, <2>4, <2>5, <2>6 DEF PreferencesInv, VersionsDiffer, Waits
  <2>8. InOrder' /\ ModelKept' /\ RuntimesMatch' /\ SettingsAreSaved'
    BY <1>1, <1>4, <2>1, <2>4
       DEF PreferencesInv, InOrder, ModelKept, RuntimesMatch, SettingsAreSaved, ShortcutsConflict
  <2>9. Orderly' => Orderly
    BY <1>1, <1>4 DEF Orderly, Waits
  <2>10. Linked => Linked'
    BY <1>1, <1>4, <2>1, <2>4 DEF Linked, MadeFrom
  <2> QED
    BY <2>3, <2>7, <2>8, <2>9, <2>10 DEF PreferencesInv, OrderlyIsLinked
<1>5. CASE settings' = n /\ settingsFile' = n /\ Announcing(t, n) /\ saveFaults' = saveFaults
  <2>1. /\ n \in DeviceSettings /\ n.version = patches + 1
        /\ ~(EffectiveBackend(n) = Libmpv /\ n.watched # Unnamed /\ n.watched = n.seek)
    <3>1. n \in DeviceSettings /\ n.version = patches + 1 /\ n.backend = next.backend
          /\ n.path = next.path /\ n.watched = next.watched /\ n.seek = next.seek
      BY <1>1, <1>3 DEF DeviceSettings
    <3> QED
      BY <3>1 DEF EffectiveBackend
  <2>2. /\ c \in Changes /\ c.to = n /\ c.version = patches + 1 /\ c.plan = ApplyPlan(settings, n)
        /\ c # NoChange
    BY <1>1, <1>2, <1>3, <2>1, PlanRead DEF Changes, NoChange
  <2>3. unsent' = [unsent EXCEPT ![t] = c]
    BY <1>5 DEF Announcing
  <2> HIDE DEF c, n
  <2>4. /\ unsent' \in [Patchers -> Changes \cup {NoChange}] /\ unsent'[t] = c
        /\ \A u \in Patchers \ {t} : unsent'[u] = unsent[u]
    BY <2>2, <2>3 DEF PreferencesInv, SettingsKinds
  <2>5. ~Waits(t) /\ Waits(t)' /\ \A u \in Patchers \ {t} : Waits(u)' <=> Waits(u)
    BY <1>1, <2>2, <2>4 DEF Waits
  <2>6. Unapplied' = Unapplied \cup {c}
    BY <1>1, <2>4, <2>5 DEF Unapplied
  <2>7. Holders' = Holders \cup {n}
    BY <1>1, <2>2, <2>6 DEF Holders
  <2>8. restartAsked' \in BOOLEAN
    BY <1>1, <1>2
  <2>9. SettingsKinds'
    BY <1>1, <1>3, <1>5, <2>1, <2>4, <2>8 DEF PreferencesInv, SettingsKinds
  <2>10. /\ \A d \in Unapplied : d.version \in Nat /\ d.version <= patches /\ d.version = d.to.version
         /\ \A g \in Holders : g.version \in Nat /\ g.version <= patches
         /\ settings.version \in Nat /\ settings.version <= patches
    <3>1. /\ \A d \in Unapplied : d.version \in Nat /\ d.version <= patches /\ d.version = d.to.version
          /\ shellSettings.version <= patches /\ settings.version <= patches
      BY UnappliedRead DEF PreferencesInv, VersionsDiffer
    <3>2. \A g \in Holders : g.version \in Nat
      BY UnappliedRead DEF PreferencesInv
    <3> QED
      BY <1>2, <3>1, <3>2, SettingsRead DEF Holders
  <2>11. \A i \in DOMAIN announced : announced[i].version < patches + 1
    BY <1>2, <2>10, UnappliedRead DEF PreferencesInv
  <2>12. \A u \in Patchers : Waits(u) => unsent[u].version < patches + 1
    BY <1>2, <2>10, UnappliedRead DEF PreferencesInv
  <2>13. VersionsDiffer'
    <3>1. \A d \in Unapplied' :
            d.version = d.to.version /\ d.version <= patches' /\ d.version # shellSettings'.version
      BY <1>1, <1>2, <2>1, <2>2, <2>6, <2>10, UnappliedRead DEF PreferencesInv, VersionsDiffer
    <3>2. /\ \A i, j \in DOMAIN announced' : announced'[i].version = announced'[j].version => i = j
          /\ shellSettings'.version <= patches' /\ settings'.version <= patches'
      BY <1>1, <1>2, <1>5, <2>1, <2>10, UnappliedRead DEF PreferencesInv, VersionsDiffer
    <3>3. \A u, v \in Patchers :
            Waits(u)' /\ Waits(v)' /\ unsent'[u].version = unsent'[v].version => u = v
      BY <1>2, <2>2, <2>4, <2>5, <2>12 DEF PreferencesInv, VersionsDiffer
    <3>4. \A u \in Patchers, i \in DOMAIN announced' :
            Waits(u)' => unsent'[u].version # announced'[i].version
      BY <1>1, <1>2, <2>2, <2>4, <2>5, <2>11 DEF PreferencesInv, VersionsDiffer
    <3> QED
      BY <3>1, <3>2, <3>3, <3>4 DEF VersionsDiffer
  <2>14. InOrder'
    BY <1>1 DEF PreferencesInv, InOrder
  <2>15. Orderly' => Orderly
    <3>1. \A u \in Patchers : Waits(u) => Waits(u)' /\ unsent'[u] = unsent[u]
      BY <2>4, <2>5
    <3> QED
      BY <1>1, <3>1 DEF Orderly
  <2>16. ASSUME Orderly' PROVE Linked'
    <3>1. Linked
      BY <2>15, <2>16 DEF PreferencesInv, OrderlyIsLinked
    <3>2. ASSUME NEW d \in Unapplied PROVE \E h \in Holders' : MadeFrom(d, h)'
      <4>1. PICK h \in Holders : MadeFrom(d, h)
        BY <3>1 DEF Linked
      <4>2. ~(n.version < d.version)
        BY <1>2, <2>1, <2>10
      <4>3. MadeFrom(d, h)'
        BY <2>7, <4>1, <4>2 DEF MadeFrom
      <4> QED
        BY <2>7, <4>3
    <3>3. ASSUME NEW d, d = c PROVE \E h \in Holders' : MadeFrom(d, h)'
      <4>1. settings \in Holders /\ \A g \in Holders : g.version <= settings.version
        BY <3>1 DEF Linked
      <4>2. /\ settings.version < d.version /\ d.plan = ApplyPlan(settings, d.to)
            /\ \A g \in Holders' : g.version < d.version => g.version <= settings.version
        BY <1>2, <2>1, <2>2, <2>7, <2>10, <3>3, <4>1
      <4>3. ASSUME NEW m, m = settings PROVE MadeFrom(d, m)'
        BY <4>2, <4>3 DEF MadeFrom
      <4> QED
        BY <2>7, <4>1, <4>3
    <3>4. settings' \in Holders' /\ \A g \in Holders' : g.version <= settings'.version
      BY <1>2, <1>5, <2>1, <2>7, <2>10
    <3>5. restartAsked' = FALSE => restartAsked = FALSE
      BY <1>1, <1>2
    <3> QED
      BY <1>1, <2>6, <3>1, <3>2, <3>3, <3>4, <3>5 DEF Linked
  <2>17. ModelKept'
    <3>1. ASSUME restartAsked' = FALSE
          PROVE  restartAsked = FALSE /\ EffectiveBackend(n) = EffectiveBackend(settings)
      BY <1>1, <1>2, <1>5, <3>1 DEF WindowModelChanged
    <3> QED
      BY <1>1, <1>5, <2>7, <3>1 DEF PreferencesInv, ModelKept
  <2>18. RuntimesMatch'
    BY <1>1 DEF PreferencesInv, RuntimesMatch
  <2>19. SettingsAreSaved'
    BY <1>5, <2>1 DEF SettingsAreSaved, ShortcutsConflict
  <2> QED
    BY <2>9, <2>13, <2>14, <2>16, <2>17, <2>18, <2>19 DEF PreferencesInv, OrderlyIsLinked
<1> QED
  BY <1>1, <1>4, <1>5 DEF KeepSettings

\* A change is announced: it stays pending.  If no later one was announced before it, it is
\* the latest on the channel.
LEMMA SettingsNotify ==
  ASSUME PreferencesAssumption, PreferencesInv, NEW t \in Patchers, Notify(t)
  PROVE  PreferencesInv'
<1> DEFINE c == unsent[t]
           n == Len(announced) + 1
<1>1. /\ Waits(t) /\ unsent' = [unsent EXCEPT ![t] = NoChange] /\ announced' = Append(announced, c)
      /\ announcedLate' =
           (announcedLate \/ \E d \in {shellSettings} \cup Range(announced) : d.version > c.version)
      /\ UNCHANGED <<settings, settingsFile, shellSettings, player, windowModel, openedWith, patches,
                     playerStarts, saveFaults, restartAsked>>
  BY DEF Notify, Waits
<1>2. /\ announced \in Seq(Changes) /\ unsent \in [Patchers -> Changes \cup {NoChange}]
      /\ announcedLate \in BOOLEAN
  BY DEF PreferencesInv, SettingsKinds
<1>3. c \in Changes /\ c \in Unapplied /\ c.version \in Nat
  BY <1>1, UnappliedRead DEF PreferencesInv
<1>4. /\ announced' \in Seq(Changes) /\ DOMAIN announced = 1 .. Len(announced) /\ Len(announced) \in Nat
      /\ DOMAIN announced' = 1 .. n /\ announced'[n] = c
      /\ \A i \in 1 .. Len(announced) : announced'[i] = announced[i]
  BY <1>1, <1>2, <1>3, AppendProperties, LenProperties
<1>5. DOMAIN announced' = DOMAIN announced \cup {n} /\ n \notin DOMAIN announced
  BY <1>4
<1>6. /\ unsent' \in [Patchers -> Changes \cup {NoChange}] /\ ~Waits(t)'
      /\ \A u \in Patchers \ {t} : unsent'[u] = unsent[u] /\ (Waits(u)' <=> Waits(u))
  BY <1>1, <1>2 DEF Waits
<1> HIDE DEF c, n
<1>7. Unapplied' = Unapplied
  <2>1. ASSUME NEW d \in Unapplied PROVE d \in Unapplied'
    <3>1. CASE \E i \in DOMAIN announced : d = announced[i]
      BY <1>4, <1>5, <3>1 DEF Unapplied
    <3>2. CASE \E u \in Patchers : Waits(u) /\ d = unsent[u]
      BY <1>4, <1>5, <1>6, <3>2 DEF Unapplied, c
    <3> QED
      BY <3>1, <3>2 DEF Unapplied
  <2>2. ASSUME NEW d \in Unapplied' PROVE d \in Unapplied
    <3>1. CASE \E i \in DOMAIN announced' : d = announced'[i]
      BY <1>3, <1>4, <1>5, <3>1 DEF Unapplied
    <3>2. CASE \E u \in Patchers : Waits(u)' /\ d = unsent'[u]
      BY <1>6, <3>2 DEF Unapplied
    <3> QED
      BY <3>1, <3>2 DEF Unapplied
  <2> QED
    BY <2>1, <2>2
<1>8. Holders' = Holders
  BY <1>1, <1>7 DEF Holders
<1>9. announcedLate' \in BOOLEAN
  BY <1>1, <1>2
<1>10. SettingsKinds'
  BY <1>1, <1>4, <1>6, <1>9 DEF PreferencesInv, SettingsKinds
<1>11. /\ \A i \in DOMAIN announced : announced[i].version \in Nat /\ announced[i].version # c.version
       /\ shellSettings.version \in Nat /\ shellSettings.version # c.version
  <2>1. \A i \in DOMAIN announced : announced[i].version # c.version
    BY <1>1 DEF PreferencesInv, VersionsDiffer, c
  <2>2. shellSettings.version # c.version
    BY <1>3 DEF PreferencesInv, VersionsDiffer
  <2> QED
    BY <2>1, <2>2, UnappliedRead DEF PreferencesInv
<1>12. VersionsDiffer'
  <2>1. \A d \in Unapplied' :
          d.version = d.to.version /\ d.version <= patches' /\ d.version # shellSettings'.version
    BY <1>1, <1>7 DEF PreferencesInv, VersionsDiffer
  <2>2. shellSettings'.version <= patches' /\ settings'.version <= patches'
    BY <1>1 DEF PreferencesInv, VersionsDiffer
  <2>3. \A i, j \in DOMAIN announced' : announced'[i].version = announced'[j].version => i = j
    BY <1>4, <1>5, <1>11 DEF PreferencesInv, VersionsDiffer
  <2>4. \A u, v \in Patchers :
          Waits(u)' /\ Waits(v)' /\ unsent'[u].version = unsent'[v].version => u = v
    BY <1>6 DEF PreferencesInv, VersionsDiffer
  <2>5. ASSUME NEW u \in Patchers, NEW i \in DOMAIN announced', Waits(u)'
        PROVE  unsent'[u].version # announced'[i].version
    <3>1. u # t /\ Waits(u) /\ unsent'[u] = unsent[u]
      BY <1>6, <2>5
    <3>2. unsent[u].version # c.version
      BY <1>1, <3>1 DEF PreferencesInv, VersionsDiffer, c
    <3>3. CASE i = n
      BY <1>4, <3>1, <3>2, <3>3
    <3>4. CASE i \in DOMAIN announced
      <4>1. announced'[i] = announced[i]
        BY <1>4, <3>4
      <4>2. unsent[u].version # announced[i].version
        BY <3>1, <3>4 DEF PreferencesInv, VersionsDiffer
      <4> QED
        BY <3>1, <4>1, <4>2
    <3> QED
      BY <1>5, <3>3, <3>4
  <2> QED
    BY <2>1, <2>2, <2>3, <2>4, <2>5 DEF VersionsDiffer
<1>13. ASSUME announcedLate' = FALSE
       PROVE  /\ announcedLate = FALSE /\ shellSettings.version < c.version
              /\ \A i \in DOMAIN announced : announced[i].version < c.version
  <2>1. announcedLate = FALSE
        /\ \A d \in {shellSettings} \cup Range(announced) : ~(d.version > c.version)
    BY <1>1, <1>2, <1>13
  <2>2. \A i \in DOMAIN announced : announced[i] \in Range(announced)
    BY DEF Range
  <2> QED
    BY <1>3, <1>11, <2>1, <2>2
<1>14. InOrder'
  <2>1. SUFFICES ASSUME announcedLate' = FALSE
                 PROVE  /\ \A i, j \in DOMAIN announced' : i < j => announced'[i].version < announced'[j].version
                        /\ \A i \in DOMAIN announced' : shellSettings'.version < announced'[i].version
    BY DEF InOrder
  <2>2. /\ \A i, j \in DOMAIN announced : i < j => announced[i].version < announced[j].version
        /\ \A i \in DOMAIN announced : shellSettings.version < announced[i].version
    BY <1>13, <2>1 DEF PreferencesInv, InOrder
  <2>3. \A i \in DOMAIN announced' : shellSettings'.version < announced'[i].version
    BY <1>1, <1>4, <1>5, <1>13, <2>1, <2>2
  <2>4. \A i \in DOMAIN announced' : ~(n < i)
    BY <1>4 DEF n
  <2> QED
    BY <1>4, <1>5, <1>13, <2>1, <2>2, <2>3, <2>4
<1>15. Orderly' => Orderly
  <2>1. SUFFICES ASSUME Orderly' PROVE Orderly
    OBVIOUS
  <2>2. announcedLate' = FALSE
    BY <2>1 DEF Orderly
  <2>3. ASSUME NEW u \in Patchers, Waits(u)
        PROVE  /\ shellSettings.version < unsent[u].version
               /\ \A i \in DOMAIN announced : announced[i].version < unsent[u].version
    <3>1. CASE u = t
      BY <1>13, <2>2, <3>1 DEF c
    <3>2. CASE u # t
      BY <1>1, <1>4, <1>5, <1>6, <2>1, <2>3, <3>2 DEF Orderly
    <3> QED
      BY <3>1, <3>2
  <2> QED
    BY <1>13, <2>2, <2>3 DEF Orderly
<1>16. Linked => Linked'
  BY <1>1, <1>7, <1>8 DEF Linked, MadeFrom
<1>17. ModelKept' /\ RuntimesMatch' /\ SettingsAreSaved'
  BY <1>1, <1>8
     DEF PreferencesInv, ModelKept, RuntimesMatch, SettingsAreSaved, ShortcutsConflict
<1> QED
  BY <1>10, <1>12, <1>14, <1>15, <1>16, <1>17 DEF PreferencesInv, OrderlyIsLinked

\* The shell applies the first change on the channel.  If the changes can still come in order,
\* it was made from what the shell has, for no holder is between them.
LEMMA SettingsApply ==
  ASSUME PreferencesAssumption, PreferencesInv, ApplySettings
  PROVE  PreferencesInv'
<1> DEFINE c == announced[1]
<1>1. /\ announced # << >> /\ announced' = Tail(announced) /\ shellSettings' = c.to
      /\ player' = IF c.plan.rebuild THEN BuiltBy(c.to)
                   ELSE IF c.plan.configure
                   THEN [player EXCEPT !.preferences = PlayerPreferences(c.to)]
                   ELSE player
      /\ UNCHANGED <<settings, settingsFile, unsent, windowModel, openedWith, patches, playerStarts,
                     saveFaults, restartAsked, announcedLate>>
  <2>1. Head(announced) = announced[1]
    OBVIOUS
  <2> QED
    BY <2>1 DEF ApplySettings
<1>2. announced \in Seq(Changes) /\ player \in Players
  BY DEF PreferencesInv, SettingsKinds
<1>3. /\ announced' \in Seq(Changes) /\ DOMAIN announced = 1 .. Len(announced)
      /\ Len(announced) \in Nat \ {0} /\ DOMAIN announced' = 1 .. Len(announced) - 1
      /\ \A i \in 1 .. Len(announced) - 1 : announced'[i] = announced[i + 1]
  BY <1>1, <1>2, HeadTailProperties, LenProperties, EmptySeq
<1>4. 1 \in DOMAIN announced /\ \A i \in DOMAIN announced' : i + 1 \in DOMAIN announced /\ i \in Nat \ {0}
  BY <1>3
<1>5. c \in Unapplied /\ c \in Changes /\ c.to \in DeviceSettings /\ c.version \in Nat /\ c.to \in Holders
      /\ c.version = c.to.version
  BY <1>4, UnappliedRead DEF PreferencesInv, VersionsDiffer
<1>6. \A t \in Patchers : Waits(t)' <=> Waits(t)
  BY <1>1 DEF Waits
<1>7. /\ c.plan \in [rebuild : BOOLEAN, configure : BOOLEAN]
      /\ PlayerPreferences(c.to) \in [watched : Shortcuts, skip : SkipChoices]
      /\ BuiltBy(c.to) \in Players /\ BuiltBy(c.to).kind = EffectiveBackend(c.to)
      /\ BuiltBy(c.to).warmed = ConfiguredPath(c.to)
      /\ BuiltBy(c.to).preferences = PlayerPreferences(c.to)
      /\ BuiltBy(c.to).warmed = Libmpv <=> BuiltBy(c.to).kind = Libmpv
  <2>1. c.plan \in [rebuild : BOOLEAN, configure : BOOLEAN]
    BY <1>5 DEF Changes
  <2>2. PlayerPreferences(c.to) \in [watched : Shortcuts, skip : SkipChoices]
    BY <1>5 DEF PlayerPreferences, DeviceSettings
  <2> QED
    BY <1>5, <2>1, <2>2, SettingsRead
<1>8. /\ player' \in Players
      /\ \/ c.plan.rebuild = TRUE /\ player' = BuiltBy(c.to)
         \/ /\ c.plan.rebuild = FALSE /\ player'.kind = player.kind /\ player'.warmed = player.warmed
            /\ \/ c.plan.configure = TRUE /\ player'.preferences = PlayerPreferences(c.to)
               \/ c.plan.configure = FALSE /\ player'.preferences = player.preferences
  BY <1>1, <1>2, <1>7 DEF Players
<1> HIDE DEF c
<1>9. Unapplied' \subseteq Unapplied /\ Unapplied \subseteq Unapplied' \cup {c} /\ c \notin Unapplied'
  <2>1. ASSUME NEW d \in Unapplied' PROVE d \in Unapplied /\ d # c
    <3>1. CASE \E i \in DOMAIN announced' : d = announced'[i]
      <4>1. PICK i \in DOMAIN announced' : d = announced'[i]
        BY <3>1
      <4>2. d = announced[i + 1] /\ i + 1 \in DOMAIN announced /\ i + 1 # 1
        BY <1>3, <1>4, <4>1
      <4>3. d.version # c.version
        BY <1>4, <4>2 DEF PreferencesInv, VersionsDiffer, c
      <4> QED
        BY <4>2, <4>3 DEF Unapplied
    <3>2. CASE \E t \in Patchers : Waits(t)' /\ d = unsent'[t]
      <4>1. PICK t \in Patchers : Waits(t) /\ d = unsent[t]
        BY <1>1, <1>6, <3>2
      <4>2. d.version # c.version
        BY <1>4, <4>1 DEF PreferencesInv, VersionsDiffer, c
      <4> QED
        BY <4>1, <4>2 DEF Unapplied
    <3> QED
      BY <3>1, <3>2 DEF Unapplied
  <2>2. ASSUME NEW d \in Unapplied, d # c PROVE d \in Unapplied'
    <3>1. CASE \E i \in DOMAIN announced : d = announced[i]
      <4>1. PICK i \in DOMAIN announced : d = announced[i]
        BY <3>1
      <4>2. i # 1
        BY <2>2, <4>1 DEF c
      <4>3. i - 1 \in DOMAIN announced' /\ announced'[i - 1] = announced[(i - 1) + 1] /\ (i - 1) + 1 = i
        BY <1>3, <4>1, <4>2
      <4> QED
        BY <4>1, <4>3 DEF Unapplied
    <3>2. CASE \E t \in Patchers : Waits(t) /\ d = unsent[t]
      BY <1>1, <1>6, <3>2 DEF Unapplied
    <3> QED
      BY <3>1, <3>2 DEF Unapplied
  <2> QED
    BY <2>1, <2>2
<1>10. /\ Holders' \subseteq Holders /\ Holders \subseteq Holders' \cup {shellSettings}
       /\ c.to \in Holders'
  BY <1>1, <1>5, <1>9 DEF Holders
<1>11. SettingsKinds'
  BY <1>1, <1>3, <1>5, <1>8 DEF PreferencesInv, SettingsKinds
<1>12. VersionsDiffer'
  <2>1. \A d \in Unapplied' : d.version # c.version
    <3>1. ASSUME NEW d \in Unapplied' PROVE d.version # c.version
      <4>1. CASE \E i \in DOMAIN announced' : d = announced'[i]
        <5>1. PICK i \in DOMAIN announced' : d = announced'[i]
          BY <4>1
        <5>2. d = announced[i + 1] /\ i + 1 \in DOMAIN announced /\ i + 1 # 1
          BY <1>3, <1>4, <5>1
        <5> QED
          BY <1>4, <5>2 DEF PreferencesInv, VersionsDiffer, c
      <4>2. CASE \E t \in Patchers : Waits(t)' /\ d = unsent'[t]
        <5>1. PICK t \in Patchers : Waits(t) /\ d = unsent[t]
          BY <1>1, <1>6, <4>2
        <5> QED
          BY <1>4, <5>1 DEF PreferencesInv, VersionsDiffer, c
      <4> QED
        BY <4>1, <4>2 DEF Unapplied
    <3> QED
      BY <3>1
  <2>2. \A d \in Unapplied' :
          d.version = d.to.version /\ d.version <= patches' /\ d.version # shellSettings'.version
    BY <1>1, <1>5, <1>9, <2>1 DEF PreferencesInv, VersionsDiffer
  <2>3. shellSettings'.version <= patches' /\ settings'.version <= patches'
    BY <1>1, <1>5 DEF PreferencesInv, VersionsDiffer
  <2>4. \A i, j \in DOMAIN announced' : announced'[i].version = announced'[j].version => i = j
    <3>1. ASSUME NEW i \in DOMAIN announced', NEW j \in DOMAIN announced',
                 announced'[i].version = announced'[j].version
          PROVE  i = j
      <4>1. i + 1 = j + 1
        BY <1>3, <1>4, <3>1 DEF PreferencesInv, VersionsDiffer
      <4> QED
        BY <1>4, <4>1
    <3> QED
      BY <3>1
  <2>5. \A t, u \in Patchers :
          Waits(t)' /\ Waits(u)' /\ unsent'[t].version = unsent'[u].version => t = u
    BY <1>1, <1>6 DEF PreferencesInv, VersionsDiffer
  <2>6. \A t \in Patchers, i \in DOMAIN announced' :
          Waits(t)' => unsent'[t].version # announced'[i].version
    BY <1>1, <1>3, <1>4, <1>6 DEF PreferencesInv, VersionsDiffer
  <2> QED
    BY <2>2, <2>3, <2>4, <2>5, <2>6 DEF VersionsDiffer
<1>13. ASSUME announcedLate = FALSE
       PROVE  /\ shellSettings.version < c.version
              /\ \A i \in DOMAIN announced' : c.version < announced'[i].version
  <2>1. /\ \A i, j \in DOMAIN announced : i < j => announced[i].version < announced[j].version
        /\ shellSettings.version < c.version
    BY <1>4, <1>13 DEF PreferencesInv, InOrder, c
  <2>2. ASSUME NEW i \in DOMAIN announced' PROVE c.version < announced'[i].version
    <3>1. i + 1 \in DOMAIN announced /\ 1 < i + 1 /\ announced'[i] = announced[i + 1]
      BY <1>3, <1>4
    <3> QED
      BY <1>4, <2>1, <3>1 DEF c
  <2> QED
    BY <2>1, <2>2
<1>14. InOrder'
  <2>1. SUFFICES ASSUME announcedLate' = FALSE
                 PROVE  /\ \A i, j \in DOMAIN announced' : i < j => announced'[i].version < announced'[j].version
                        /\ \A i \in DOMAIN announced' : shellSettings'.version < announced'[i].version
    BY DEF InOrder
  <2>2. \A i, j \in DOMAIN announced : i < j => announced[i].version < announced[j].version
    BY <1>1, <2>1 DEF PreferencesInv, InOrder
  <2>3. ASSUME NEW i \in DOMAIN announced', NEW j \in DOMAIN announced', i < j
        PROVE  announced'[i].version < announced'[j].version
    <3>1. /\ i + 1 \in DOMAIN announced /\ j + 1 \in DOMAIN announced /\ i + 1 < j + 1
          /\ announced'[i] = announced[i + 1] /\ announced'[j] = announced[j + 1]
      BY <1>3, <1>4, <2>3
    <3> QED
      BY <2>2, <3>1
  <2>4. \A i \in DOMAIN announced' : shellSettings'.version < announced'[i].version
    BY <1>1, <1>5, <1>13, <2>1
  <2> QED
    BY <2>3, <2>4
<1>15. Orderly' => Orderly
  <2>1. SUFFICES ASSUME Orderly' PROVE Orderly
    OBVIOUS
  <2>2. announcedLate = FALSE
    BY <1>1, <2>1 DEF Orderly
  <2>3. ASSUME NEW t \in Patchers, Waits(t)
        PROVE  /\ unsent[t].version \in Nat /\ c.version < unsent[t].version
    BY <1>1, <1>5, <1>6, <2>1, <2>3, UnappliedRead DEF Orderly, PreferencesInv
  <2>4. shellSettings.version \in Nat
    BY UnappliedRead DEF PreferencesInv
  <2>5. ASSUME NEW t \in Patchers, Waits(t), NEW i \in DOMAIN announced
        PROVE  announced[i].version < unsent[t].version
    <3>1. CASE i = 1
      BY <2>3, <2>5, <3>1 DEF c
    <3>2. CASE i # 1
      <4>1. i - 1 \in DOMAIN announced' /\ announced'[i - 1] = announced[(i - 1) + 1] /\ (i - 1) + 1 = i
        BY <1>3, <3>2
      <4> QED
        BY <1>1, <1>6, <2>1, <2>5, <4>1 DEF Orderly
    <3> QED
      BY <3>1, <3>2
  <2>6. ASSUME NEW t \in Patchers, Waits(t) PROVE shellSettings.version < unsent[t].version
    <3>1. shellSettings.version < c.version
      BY <1>13, <2>2
    <3> QED
      BY <1>5, <2>3, <2>4, <2>6, <3>1
  <2> QED
    BY <2>2, <2>5, <2>6 DEF Orderly
<1>16. ASSUME Orderly'
       PROVE  Linked'
  <2>1. Orderly /\ Linked /\ announcedLate = FALSE
    BY <1>15, <1>16 DEF PreferencesInv, OrderlyIsLinked, Orderly
  <2>2. /\ \A d \in Unapplied : d.version \in Nat /\ d.version = d.to.version
        /\ \A g \in Holders : g \in DeviceSettings /\ g.version \in Nat
    BY UnappliedRead DEF PreferencesInv, VersionsDiffer
  <2>3. \A d \in Unapplied' : c.version < d.version
    <3>1. \A t \in Patchers : Waits(t)' => c.version < unsent'[t].version
      BY <1>1, <1>5, <1>16 DEF Orderly
    <3> QED
      BY <1>13, <2>1, <3>1 DEF Unapplied
  <2>4. shellSettings.version < c.version /\ shellSettings \in Holders
    BY <1>13, <2>1 DEF Holders
  <2>5. \A g \in Holders : g = shellSettings \/ c.version <= g.version
    <3>1. ASSUME NEW d \in Unapplied PROVE c.version <= d.to.version
      <4>1. d = c \/ d \in Unapplied'
        BY <1>9
      <4> QED
        BY <1>5, <2>2, <2>3, <4>1
    <3> QED
      BY <3>1 DEF Holders
  <2>6. MadeFrom(c, shellSettings)
    <3>1. PICK h \in Holders : MadeFrom(c, h)
      BY <1>5, <2>1 DEF Linked
    <3>2. h = shellSettings
      BY <1>5, <2>2, <2>5, <3>1 DEF MadeFrom
    <3> QED
      BY <3>1, <3>2
  <2>7. ASSUME NEW d \in Unapplied' PROVE \E h \in Holders' : MadeFrom(d, h)'
    <3>1. d \in Unapplied /\ d.version \in Nat /\ c.version < d.version
      BY <1>9, <2>2, <2>3
    <3>2. PICK h \in Holders : MadeFrom(d, h)
      BY <2>1, <3>1 DEF Linked
    <3>3. h # shellSettings
      <4>1. c.to.version < d.version => c.to.version <= h.version
        BY <1>5, <3>2 DEF MadeFrom
      <4> QED
        BY <1>5, <2>2, <2>4, <3>1, <4>1
    <3>4. h \in Holders' /\ MadeFrom(d, h)'
      BY <1>10, <3>2, <3>3 DEF MadeFrom
    <3> QED
      BY <3>4
  <2>8. settings' \in Holders' /\ \A g \in Holders' : g.version <= settings'.version
    <3>1. settings \in Holders /\ \A g \in Holders : g.version <= settings.version
      BY <2>1 DEF Linked
    <3>2. settings # shellSettings
      BY <1>5, <2>2, <2>4, <3>1
    <3> QED
      BY <1>1, <1>10, <3>1, <3>2
  <2>9. /\ player.preferences = PlayerPreferences(shellSettings)
        /\ restartAsked = FALSE => player.warmed = ConfiguredPath(shellSettings)
        /\ c.plan = ApplyPlan(shellSettings, c.to) /\ shellSettings \in DeviceSettings
    BY <2>1, <2>2, <2>4, <2>6 DEF Linked, MadeFrom
  <2>10. /\ c.plan.configure = FALSE => PlayerPreferences(shellSettings) = PlayerPreferences(c.to)
         /\ c.plan.rebuild = FALSE /\ EffectiveBackend(shellSettings) = EffectiveBackend(c.to)
              => ConfiguredPath(shellSettings) = ConfiguredPath(c.to)
    BY <1>5, <2>9, PlanRead
  <2>11. player'.preferences = PlayerPreferences(shellSettings')
    BY <1>1, <1>7, <1>8, <2>9, <2>10
  <2>12. restartAsked' = FALSE => player'.warmed = ConfiguredPath(shellSettings')
    <3>1. restartAsked = FALSE => EffectiveBackend(shellSettings) = EffectiveBackend(c.to)
      BY <1>5, <2>4 DEF PreferencesInv, ModelKept
    <3> QED
      BY <1>1, <1>7, <1>8, <2>9, <2>10, <3>1
  <2> QED
    BY <2>7, <2>8, <2>11, <2>12 DEF Linked
<1>17. ModelKept'
  BY <1>1, <1>5, <1>7, <1>8, <1>10 DEF PreferencesInv, ModelKept
<1>18. RuntimesMatch'
  BY <1>1, <1>7, <1>8 DEF PreferencesInv, RuntimesMatch
<1>19. SettingsAreSaved'
  BY <1>1 DEF PreferencesInv, SettingsAreSaved, ShortcutsConflict
<1> QED
  BY <1>11, <1>12, <1>14, <1>16, <1>17, <1>18, <1>19 DEF PreferencesInv, OrderlyIsLinked

\* The player opens: with what it was warmed with, whatever the settings name by now.
LEMMA SettingsOpen ==
  ASSUME PreferencesAssumption, PreferencesInv, Open
  PROVE  PreferencesInv'
<1>1. /\ openedWith' = [runtime |-> RuntimeToOpen, kind |-> player.kind,
                        warmed |-> player.warmed # Unnamed]
      /\ UNCHANGED <<settings, settingsFile, unsent, announced, shellSettings, player, windowModel,
                     patches, playerStarts, saveFaults, restartAsked, announcedLate>>
  BY DEF Open
<1>2. player \in Players /\ ConfiguredPath(settings) \in MpvPaths \cup {Unnamed, Libmpv}
  BY SettingsRead DEF PreferencesInv, SettingsKinds
<1>3. openedWith' \in [runtime : MpvPaths \cup {Unnamed, Libmpv}, kind : {Libmpv, Mpv, Unnamed},
                      warmed : BOOLEAN]
  BY <1>1, <1>2 DEF RuntimeToOpen, Players
<1>4. SettingsKinds'
  BY <1>1, <1>3 DEF PreferencesInv, SettingsKinds
<1>5. Unapplied' = Unapplied /\ Holders' = Holders /\ \A t \in Patchers : Waits(t)' <=> Waits(t)
  BY <1>1 DEF Unapplied, Holders, Waits
<1>6. VersionsDiffer' /\ InOrder'
  BY <1>1, <1>5 DEF PreferencesInv, VersionsDiffer, InOrder
<1>7. OrderlyIsLinked'
  <2>1. Orderly' => Orderly
    BY <1>1, <1>5 DEF Orderly
  <2>2. Linked => Linked'
    BY <1>1, <1>5 DEF Linked, MadeFrom
  <2> QED
    BY <2>1, <2>2 DEF PreferencesInv, OrderlyIsLinked
<1>8. RuntimesMatch'
  BY <1>1, <1>2 DEF PreferencesInv, RuntimesMatch, RuntimeToOpen
<1>9. ModelKept' /\ SettingsAreSaved'
  BY <1>1, <1>5 DEF PreferencesInv, ModelKept, SettingsAreSaved, ShortcutsConflict
<1> QED
  BY <1>4, <1>6, <1>7, <1>8, <1>9 DEF PreferencesInv

\* What a page or an installation patches is a setting, and its shortcuts do not clash.
LEMMA SettingsPatched ==
  ASSUME PreferencesAssumption, PreferencesInv, NEW t \in Patchers,
         \/ \E b \in {settings.backend, Libmpv, Mpv}, p \in MpvPaths \cup {Unnamed},
               keys \in Bindings : PatchPlayer(t, b, p, keys[1], keys[2])
         \/ \E m \in SkipChoices : PatchPlayback(t, m)
         \/ \E p \in MpvPaths : SetMpvPath(t, p)
  PROVE  PreferencesInv'
<1>1. /\ settings \in DeviceSettings
      /\ ~(EffectiveBackend(settings) = Libmpv /\ settings.watched # Unnamed
             /\ settings.watched = settings.seek)
  BY DEF PreferencesInv, SettingsKinds, SettingsAreSaved, ShortcutsConflict
<1>2. ASSUME NEW b \in {settings.backend, Libmpv, Mpv}, NEW p \in MpvPaths \cup {Unnamed},
             NEW keys \in Bindings, PatchPlayer(t, b, p, keys[1], keys[2])
      PROVE  PreferencesInv'
  <2> DEFINE next == [settings EXCEPT !.backend = b, !.path = p, !.watched = keys[1],
                                      !.seek = keys[2]]
  <2>1. keys[1] \in Shortcuts /\ keys[2] \in Shortcuts
    BY DEF Shortcuts
  <2>2. b \in {Unnamed, Libmpv, Mpv}
    BY <1>1 DEF DeviceSettings
  <2>3. next \in DeviceSettings
    BY <1>1, <2>1, <2>2 DEF DeviceSettings
  <2>4. UpdateSettings(t, next) /\ ~ShortcutsConflict(next)
    BY <1>2 DEF PatchPlayer
  <2> HIDE DEF next
  <2> QED
    BY <2>3, <2>4, SettingsUpdate DEF ShortcutsConflict
<1>3. ASSUME NEW m \in SkipChoices, PatchPlayback(t, m)
      PROVE  PreferencesInv'
  <2> DEFINE next == [settings EXCEPT !.skip = m]
  <2>1. /\ next \in DeviceSettings /\ next.backend = settings.backend /\ next.path = settings.path
        /\ next.watched = settings.watched /\ next.seek = settings.seek
    BY <1>1 DEF DeviceSettings
  <2>2. UpdateSettings(t, next)
    BY <1>3 DEF PatchPlayback
  <2> HIDE DEF next
  <2>3. EffectiveBackend(next) = EffectiveBackend(settings)
    BY <2>1 DEF EffectiveBackend
  <2> QED
    BY <1>1, <2>1, <2>2, <2>3, SettingsUpdate
<1>4. ASSUME NEW p \in MpvPaths, SetMpvPath(t, p)
      PROVE  PreferencesInv'
  <2> DEFINE next == [settings EXCEPT !.path = p, !.backend = Mpv]
  <2>1. next \in DeviceSettings /\ next.backend = Mpv
    BY <1>1 DEF DeviceSettings
  <2>2. UpdateSettings(t, next)
    BY <1>4 DEF SetMpvPath
  <2> HIDE DEF next
  <2>3. EffectiveBackend(next) # Libmpv
    BY <2>1 DEF EffectiveBackend, Mpv, Libmpv, Unnamed
  <2> QED
    BY <2>1, <2>2, <2>3, SettingsUpdate
<1> QED
  BY <1>2, <1>3, <1>4

LEMMA SettingsStep ==
  ASSUME PreferencesAssumption, PreferencesInv, [PreferencesNext]_preferenceVars
  PROVE  PreferencesInv'
<1>1. CASE UNCHANGED preferenceVars
  <2>1. /\ UNCHANGED <<settings, settingsFile, unsent, announced, shellSettings, player, windowModel>>
        /\ UNCHANGED <<openedWith, patches, playerStarts, saveFaults, restartAsked, announcedLate>>
    BY <1>1 DEF preferenceVars
  <2>2. Unapplied' = Unapplied /\ Holders' = Holders /\ \A t \in Patchers : Waits(t)' <=> Waits(t)
    BY <2>1 DEF Unapplied, Holders, Waits
  <2>3. SettingsKinds' /\ VersionsDiffer' /\ InOrder'
    BY <2>1, <2>2 DEF PreferencesInv, SettingsKinds, VersionsDiffer, InOrder
  <2>4. Orderly' => Orderly
    BY <2>1, <2>2 DEF Orderly
  <2>5. Linked => Linked'
    BY <2>1, <2>2 DEF Linked, MadeFrom
  <2>6. ModelKept' /\ RuntimesMatch' /\ SettingsAreSaved'
    BY <2>1, <2>2
       DEF PreferencesInv, ModelKept, RuntimesMatch, SettingsAreSaved, ShortcutsConflict
  <2> QED
    BY <2>3, <2>4, <2>5, <2>6 DEF PreferencesInv, OrderlyIsLinked
<1>2. CASE ApplySettings
  BY <1>2, SettingsApply
<1>3. CASE Open
  BY <1>3, SettingsOpen
<1>4. ASSUME NEW t \in Patchers, Notify(t) PROVE PreferencesInv'
  BY <1>4, SettingsNotify
<1>5. CASE \E t \in Patchers \ {installThread} :
             \/ \E b \in {settings.backend, Libmpv, Mpv}, p \in MpvPaths \cup {Unnamed},
                   keys \in Bindings : PatchPlayer(t, b, p, keys[1], keys[2])
             \/ \E m \in SkipChoices : PatchPlayback(t, m)
  BY <1>5, SettingsPatched
<1>6. CASE \E p \in MpvPaths : SetMpvPath(installThread, p)
  BY <1>6, SettingsPatched DEF PreferencesAssumption
<1>7. ASSUME NEW c \in MpvPaths \cup {Unnamed}, NEW f \in MpvPaths \cup {Unnamed}, StartAgain(c, f)
      PROVE  PreferencesInv'
  BY <1>7, SettingsRestart
<1> QED
  BY <1>1, <1>2, <1>3, <1>4, <1>5, <1>6, <1>7 DEF PreferencesNext

LEMMA PreferencesInvHolds ==
  ASSUME PreferencesAssumption
  PROVE  PreferencesSpec => []PreferencesInv
<1>1. PreferencesInit => PreferencesInv
  BY SettingsBegin
<1>2. PreferencesInv /\ [PreferencesNext]_preferenceVars => PreferencesInv'
  BY SettingsStep
<1> QED
  BY <1>1, <1>2, PTL DEF PreferencesSpec

(* The settings, the changes on their way and the player keep their kinds.               *)
THEOREM SettingsTypes ==
  ASSUME PreferencesAssumption
  PROVE  PreferencesSpec => []PreferencesTypeOK
<1>1. PreferencesInv => PreferencesTypeOK
  BY SettingsTruth
<1> QED
  BY <1>1, PreferencesInvHolds, PTL

(* Once all changes are applied, and none was announced late, the player runs by the      *)
(* settings, whatever threads patched them and in whatever order they were told; and what  *)
(* is shown is what a start would read (update, notify, apply_preference_change, open).    *)
THEOREM PlayerFollowsSettings ==
  ASSUME PreferencesAssumption
  PROVE  PreferencesSpec => []PlayerRunsBySettings
<1>1. PreferencesInv => PlayerRunsBySettings
  BY SettingsTruth
<1> QED
  BY <1>1, PreferencesInvHolds, PTL

(* The player stays one that the windows were made for until a restart is asked for: a    *)
(* change of the backend rebuilds nothing (SettingsApplyPlan::between).                    *)
THEOREM WindowModelStays ==
  ASSUME PreferencesAssumption
  PROVE  PreferencesSpec => []KeepsItsWindowModel
<1>1. PreferencesInv => KeepsItsWindowModel
  BY SettingsTruth
<1> QED
  BY <1>1, PreferencesInvHolds, PTL

-----------------------------------------------------------------------------------
(* Segments that are skipped.                                                              *)
(* Each segment of a file is skipped at most once, and only when it is wanted, for any      *)
(* files, segments, settings and seeks (SegmentSkip).  A segment that was skipped is used    *)
(* up, as long as its list is there (SkippedInv).  A segment that the position is in, and    *)
(* that is to be skipped, has been so since some moment (StayedInv); and the countdown that  *)
(* runs for it was begun no earlier than that (CountdownInv), also when the position jumps   *)
(* as the file starts, which is why the rest of the loop matters: a countdown of a segment   *)
(* the position has left is over before the next message.                                  *)

Countdowns == [of : Indexes \cup {0}, due : 0 .. MaxSkipTime + AutoSkipDelay]
PlayKnown ==
  /\ skipMode \in [SegmentKinds -> SkipModes] /\ phase \in {"idle", "loading", "playing"}
  /\ file \in SkipFiles \cup {0} /\ (phase # "idle" => file # 0)
  /\ listOf \in SkipFiles \cup {0} /\ fetching \subseteq SkipFiles
  /\ used \subseteq Indexes /\ place \in 0 .. EndOfFile
  /\ startupSeek \in 0 .. Nowhere /\ seekFrom \in 0 .. Nowhere
  /\ waiting \in Countdowns /\ skips \in [Indexes -> Nat]
LoopKnown ==
  /\ handled \in BOOLEAN /\ skipClock \in 0 .. MaxSkipTime
  /\ stayed \in [Indexes -> 0 .. NeverStayed]
SegmentsKnown == PlayKnown /\ LoopKnown

ToSkip == Within(listOf, used, skipMode, {"Always"}, place)

SkippedInv ==
  /\ listOf \in {0, file}
  /\ \A i \in Indexes : skips[i] <= 1 /\ (listOf # 0 /\ skips[i] # 0 => i \in used)
StayedInv ==
  \A i \in Indexes : IF i \in ToSkip THEN stayed[i] <= skipClock ELSE stayed[i] = NeverStayed
CountdownInv ==
  waiting # NotWaiting =>
    /\ waiting.of \in ToSkip => stayed[waiting.of] + AutoSkipDelay <= waiting.due
    /\ handled = FALSE => waiting.of \in ToSkip

SegmentsInv == SegmentsKnown /\ SkippedInv /\ StayedInv /\ CountdownInv

\* The shapes of a step.  What a countdown may be after it: a new one, or the one that ran.
Counts ==
  waiting' # NotWaiting =>
    \/ /\ waiting'.of \in ToSkip' /\ waiting'.due = skipClock + AutoSkipDelay
    \/ /\ waiting' = waiting /\ waiting.of \in ToSkip
       /\ handled' = FALSE => waiting.of \in ToSkip'
Forgets == listOf' = 0 /\ used' = {} /\ waiting' = NotWaiting /\ UNCHANGED skips
Begins ==
  /\ listOf' = file /\ used' = {} /\ UNCHANGED file /\ skips' = [i \in Indexes |-> 0]
  /\ waiting' # NotWaiting => waiting'.of \in ToSkip' /\ waiting'.due = skipClock + AutoSkipDelay
Onward == UNCHANGED <<file, listOf, used, skips>> /\ Counts
Wanted(i) ==
  \/ skipMode[Segments(listOf)[i].kind] = "Prompt"
  \/ i \in ToSkip /\ stayed[i] + AutoSkipDelay <= skipClock
Uses(i) ==
  /\ UNCHANGED <<file, listOf>> /\ Counts
  /\ listOf # 0 /\ i \in Indexes \ used /\ used' = used \cup {i}
  /\ \/ skips' = [skips EXCEPT ![i] = @ + 1] /\ Wanted(i)
     \/ UNCHANGED skips /\ Segments(listOf)[i].to <= place'
SkipShape == Forgets \/ Begins \/ Onward \/ \E i \in Indexes : Uses(i)

StayedOn ==
  stayed' = [i \in Indexes |->
    IF listOf' # 0 /\ i \in Within(listOf', used', skipMode', {"Always"}, place')
    THEN IF listOf = listOf' /\ stayed[i] # NeverStayed THEN stayed[i] ELSE skipClock'
    ELSE NeverStayed]

-----------------------------------------------------------------------------------
\* The segments at a position.
LEMMA WithinIs ==
  ASSUME SegmentAssumption, NEW list \in SkipFiles \cup {0}, NEW spent, NEW mode, NEW wanted, NEW at
  PROVE  LET W == Within(list, spent, mode, wanted, at) IN
         /\ W \subseteq Indexes /\ W \subseteq Nat \ {0} /\ (list = 0 => W = {})
         /\ DOMAIN Segments(list) \subseteq Indexes
         /\ \A i \in W : /\ i \notin spent /\ mode[Segments(list)[i].kind] \in wanted
                         /\ i \in DOMAIN Segments(list) /\ Covers(list, spent, i, at)
<1> DEFINE W == Within(list, spent, mode, wanted, at)
<1>1. W \subseteq DOMAIN Segments(list)
  BY DEF Within
<1>2. /\ DOMAIN Segments(list) \subseteq Indexes /\ DOMAIN Segments(list) \subseteq Nat \ {0}
      /\ list = 0 => DOMAIN Segments(list) = {}
  <2>1. CASE list = 0
    BY <2>1 DEF Segments
  <2>2. CASE list # 0
    <3>1. list \in SkipFiles /\ Segments(list) = FileSegments[list]
      BY <2>2 DEF Segments
    <3>2. FileSegments[list] \in Seq([kind : SegmentKinds, from : Nat, to : Nat])
      BY <3>1 DEF SegmentAssumption
    <3>3. DOMAIN FileSegments[list] \subseteq Nat \ {0}
      BY <3>2
    <3> QED
      BY <2>2, <3>1, <3>3 DEF Indexes
  <2> QED
    BY <2>1, <2>2
<1>3. \A i \in W : /\ i \notin spent /\ mode[Segments(list)[i].kind] \in wanted
                   /\ Covers(list, spent, i, at)
  BY DEF Within, Covers
<1> QED
  BY <1>1, <1>2, <1>3

LEMMA IndexesAreNumbers ==
  ASSUME SegmentAssumption
  PROVE  Indexes \subseteq Nat \ {0}
<1> SUFFICES ASSUME NEW f \in SkipFiles PROVE DOMAIN FileSegments[f] \subseteq Nat \ {0}
  BY DEF Indexes
<1>1. FileSegments[f] \in Seq([kind : SegmentKinds, from : Nat, to : Nat])
  BY DEF SegmentAssumption
<1> QED
  BY <1>1

\* The earliest of some is one of them.
LEMMA EarliestIsOne ==
  ASSUME NEW S \in SUBSET Nat, S # {}
  PROVE  Earliest(S) \in S
<1>1. PICK k \in S : \A j \in S : ~(<<j, k>> \in OpToRel(<, Nat))
  BY NatLessThanWellFounded, WFMin, Zenon
<1>2. \A j \in S : ~(j < k)
  BY <1>1 DEF OpToRel
<1>3. k \in S /\ \A j \in S : k <= j
  BY <1>2
<1> QED
  BY <1>3 DEF Earliest

\* A countdown that runs after a position was reported.
LEMMA UpdateIs ==
  ASSUME SegmentAssumption, NEW list \in SkipFiles \cup {0}, NEW spent, NEW mode, NEW at,
         NEW w \in Countdowns, skipClock \in 0 .. MaxSkipTime
  PROVE  LET u == Update(list, spent, mode, at, w) IN
         /\ u \in Countdowns
         /\ u # NotWaiting => /\ u.of \in Within(list, spent, mode, {"Always"}, at)
                              /\ u = w \/ u.due = skipClock + AutoSkipDelay
<1> DEFINE shown == Within(list, spent, mode, SkipModes \ {"Hidden"}, at)
           i == Earliest(shown)
           u == Update(list, spent, mode, at, w)
<1>1. NotWaiting \in Countdowns
  BY DEF NotWaiting, Countdowns, SegmentAssumption
<1>2. CASE shown = {} \/ mode[Segments(list)[i].kind] # "Always"
  BY <1>1, <1>2 DEF Update
<1>3. CASE ~(shown = {} \/ mode[Segments(list)[i].kind] # "Always")
  <2>1. /\ shown \subseteq Indexes /\ shown \in SUBSET Nat
        /\ \A k \in shown : k \in DOMAIN Segments(list) /\ Covers(list, spent, k, at)
    BY WithinIs
  <2>2. i \in shown
    BY <1>3, <2>1, EarliestIsOne
  <2>3. i \in Within(list, spent, mode, {"Always"}, at)
    BY <1>3, <2>1, <2>2 DEF Within
  <2>4. u = IF w.of = i THEN w ELSE [of |-> i, due |-> Due]
    BY <1>3 DEF Update
  <2>5. Due = skipClock + AutoSkipDelay /\ Due \in 0 .. MaxSkipTime + AutoSkipDelay
    BY DEF Due, SegmentAssumption
  <2> SUFFICES /\ u \in Countdowns
               /\ u # NotWaiting => /\ u.of \in Within(list, spent, mode, {"Always"}, at)
                                    /\ u = w \/ u.due = skipClock + AutoSkipDelay
    OBVIOUS
  <2> HIDE DEF i, shown, u
  <2>6. CASE w.of = i
    BY <2>3, <2>4, <2>6
  <2>7. CASE w.of # i
    <3>1. u = [of |-> i, due |-> Due]
      BY <2>4, <2>7
    <3>2. u \in Countdowns /\ u.of = i /\ u.due = Due
      BY <2>1, <2>2, <2>5, <3>1 DEF Countdowns
    <3> QED
      BY <2>3, <2>5, <3>2
  <2> QED
    BY <2>6, <2>7
<1> QED
  BY <1>2, <1>3

-----------------------------------------------------------------------------------
\* How long the position has stayed in each segment that is to be skipped.
LEMMA StayedIs ==
  ASSUME SegmentAssumption, SegmentsInv, SegmentsKnown', StayedOn, skipClock <= skipClock'
  PROVE  /\ StayedInv'
         /\ \A i \in ToSkip : listOf' = listOf /\ i \in ToSkip' => stayed'[i] = stayed[i]
<1>1. /\ skipClock \in Nat /\ skipClock' \in Nat /\ skipClock' < NeverStayed /\ NeverStayed \in Nat
      /\ \A i \in Indexes : stayed[i] \in Nat
  BY DEF SegmentsInv, SegmentsKnown, PlayKnown, LoopKnown, NeverStayed, SegmentAssumption
<1>2. /\ ToSkip' \subseteq Indexes /\ (listOf' = 0 => ToSkip' = {})
      /\ ToSkip' = Within(listOf', used', skipMode', {"Always"}, place')
  <2>1. listOf' \in SkipFiles \cup {0}
    BY DEF SegmentsKnown, PlayKnown, LoopKnown
  <2>2. ToSkip' = Within(listOf', used', skipMode', {"Always"}, place')
    BY DEF ToSkip, Within, Covers, Segments
  <2> QED
    BY <2>1, <2>2, WithinIs
<1>3. ToSkip \subseteq Indexes
  <2>1. listOf \in SkipFiles \cup {0}
    BY DEF SegmentsInv, SegmentsKnown, PlayKnown
  <2> QED
    BY <2>1, WithinIs DEF ToSkip
<1>4. \A i \in Indexes : stayed'[i] =
        IF i \in ToSkip' THEN IF listOf = listOf' /\ stayed[i] # NeverStayed THEN stayed[i] ELSE skipClock'
        ELSE NeverStayed
  BY <1>2 DEF StayedOn
<1>5. \A i \in Indexes : IF i \in ToSkip THEN stayed[i] <= skipClock ELSE stayed[i] = NeverStayed
  BY DEF SegmentsInv, StayedInv
<1>6. \A i \in Indexes : IF i \in ToSkip' THEN stayed'[i] <= skipClock' ELSE stayed'[i] = NeverStayed
  BY <1>1, <1>4, <1>5
<1>7. StayedInv'
  BY <1>6 DEF StayedInv, NeverStayed
<1>8. \A i \in ToSkip : stayed[i] # NeverStayed
  BY <1>1, <1>3, <1>5, skipClock <= skipClock'
<1> QED
  BY <1>3, <1>4, <1>7, <1>8

\* A step of one of these shapes keeps the rest, and skips only what is wanted.
LEMMA ShapesKeepSegments ==
  ASSUME SegmentAssumption, SegmentsInv, SegmentsKnown', StayedOn, SkipShape, UNCHANGED skipClock
  PROVE  SegmentsInv' /\ SkipsAreWanted
<1>1. /\ StayedInv'
      /\ \A i \in ToSkip : listOf' = listOf /\ i \in ToSkip' => stayed'[i] = stayed[i]
  BY StayedIs DEF SegmentsInv, SegmentsKnown, PlayKnown, LoopKnown
<1>2. /\ skipClock \in Nat /\ AutoSkipDelay \in Nat
      /\ skips \in [Indexes -> Nat] /\ used \subseteq Indexes
      /\ stayed \in [Indexes -> Nat] /\ stayed' \in [Indexes -> Nat]
  BY DEF SegmentsInv, SegmentsKnown, PlayKnown, LoopKnown, SegmentAssumption, NeverStayed
<1>3. ToSkip \subseteq Indexes /\ ToSkip' \subseteq Indexes
  <2>1. listOf \in SkipFiles \cup {0} /\ listOf' \in SkipFiles \cup {0}
    BY DEF SegmentsInv, SegmentsKnown, PlayKnown, LoopKnown
  <2>2. ToSkip' = Within(listOf', used', skipMode', {"Always"}, place')
    BY DEF ToSkip, Within, Covers, Segments
  <2> QED
    BY <2>1, <2>2, WithinIs DEF ToSkip
<1>4. \A i \in ToSkip' : stayed'[i] <= skipClock
  BY <1>1, <1>3 DEF StayedInv
<1>5. ASSUME waiting' # NotWaiting => waiting'.of \in ToSkip' /\ waiting'.due = skipClock + AutoSkipDelay
      PROVE  CountdownInv'
  <2> SUFFICES ASSUME waiting' # NotWaiting
               PROVE  /\ waiting'.of \in ToSkip' => stayed'[waiting'.of] + AutoSkipDelay <= waiting'.due
                      /\ handled' = FALSE => waiting'.of \in ToSkip'
    BY DEF CountdownInv, NotWaiting
  <2>1. stayed'[waiting'.of] <= skipClock /\ stayed'[waiting'.of] \in Nat
    BY <1>2, <1>3, <1>4, <1>5
  <2> QED
    BY <1>2, <1>5, <2>1
<1>6. ASSUME Counts, listOf' = listOf
      PROVE  CountdownInv'
  <2>1. CASE waiting' = NotWaiting
    BY <2>1 DEF CountdownInv, NotWaiting
  <2>2. CASE waiting' # NotWaiting /\ waiting'.of \in ToSkip' /\ waiting'.due = skipClock + AutoSkipDelay
    BY <1>5, <2>2
  <2>3. CASE /\ waiting' # NotWaiting /\ waiting' = waiting /\ waiting.of \in ToSkip
             /\ handled' = FALSE => waiting.of \in ToSkip'
    <3>1. stayed[waiting.of] + AutoSkipDelay <= waiting.due
      BY <2>3 DEF SegmentsInv, CountdownInv
    <3>2. waiting.of \in ToSkip' => stayed'[waiting.of] = stayed[waiting.of]
      BY <1>1, <1>6, <2>3
    <3> QED
      BY <2>3, <3>1, <3>2 DEF CountdownInv, NotWaiting
  <2> QED
    BY <1>6, <2>1, <2>2, <2>3 DEF Counts
<1>7. CASE Forgets
  <2>1. SkippedInv' /\ CountdownInv'
    BY <1>7 DEF Forgets, SegmentsInv, SkippedInv, CountdownInv, NotWaiting
  <2>2. SkipsAreWanted
    BY <1>2, <1>7 DEF Forgets, SkipsAreWanted
  <2> QED
    BY <1>1, <2>1, <2>2 DEF SegmentsInv
<1>8. CASE Begins
  <2>1. SkippedInv'
    BY <1>8 DEF Begins, SkippedInv
  <2>2. CountdownInv'
    BY <1>5, <1>8 DEF Begins
  <2>3. SkipsAreWanted
    BY <1>2, <1>8 DEF Begins, SkipsAreWanted
  <2> QED
    BY <1>1, <2>1, <2>2, <2>3 DEF SegmentsInv
<1>9. CASE Onward
  <2>1. SkippedInv'
    BY <1>9 DEF Onward, SegmentsInv, SkippedInv
  <2>2. CountdownInv'
    BY <1>6, <1>9 DEF Onward
  <2>3. SkipsAreWanted
    BY <1>2, <1>9 DEF Onward, SkipsAreWanted
  <2> QED
    BY <1>1, <2>1, <2>2, <2>3 DEF SegmentsInv
<1>10. ASSUME NEW i \in Indexes, Uses(i)
       PROVE  SegmentsInv' /\ SkipsAreWanted
  <2>1. /\ file' = file /\ listOf' = listOf /\ listOf # 0 /\ i \notin used /\ used' = used \cup {i}
        /\ \A j \in Indexes : j # i => skips'[j] = skips[j]
        /\ \/ skips'[i] = skips[i] + 1 /\ Wanted(i)
           \/ skips'[i] = skips[i] /\ Segments(listOf)[i].to <= place'
    BY <1>2, <1>10 DEF Uses
  <2>2. /\ listOf \in {0, file} /\ skips[i] = 0
        /\ \A j \in Indexes : skips[j] <= 1 /\ (skips[j] # 0 => j \in used)
    BY <2>1 DEF SegmentsInv, SkippedInv
  <2>3. SkippedInv'
    BY <1>2, <2>1, <2>2 DEF SkippedInv
  <2>4. CountdownInv'
    BY <1>6, <1>10 DEF Uses
  <2>5. \A j \in Indexes : j \in used' \ used => j = i
    BY <2>1
  <2>6. Wanted(i) => \/ skipMode[Segments(listOf)[i].kind] = "Prompt"
                     \/ skipClock >= stayed[i] + AutoSkipDelay
    BY <1>2 DEF Wanted
  <2>7. SkipsAreWanted
    BY <1>2, <2>1, <2>5, <2>6 DEF SkipsAreWanted
  <2> QED
    BY <1>1, <2>3, <2>4, <2>7 DEF SegmentsInv
<1> QED
  BY <1>7, <1>8, <1>9, <1>10 DEF SkipShape

-----------------------------------------------------------------------------------
\* The countdown after a message that leaves it running, and after one that looks again.
LEMMA RunsOn ==
  ASSUME SegmentsInv, handled = FALSE, handled' = TRUE, UNCHANGED waiting
  PROVE  Counts
BY DEF Counts, SegmentsInv, CountdownInv

LEMMA LooksAgain ==
  ASSUME SegmentAssumption, SegmentsInv, handled = FALSE, handled' = TRUE,
         listOf' \in SkipFiles \cup {0}, NEW w \in {NotWaiting, waiting},
         waiting' = Update(listOf', used', skipMode', place', w)
  PROVE  /\ waiting' \in Countdowns /\ Counts
         /\ w = NotWaiting /\ waiting' # NotWaiting =>
              waiting'.of \in ToSkip' /\ waiting'.due = skipClock + AutoSkipDelay
<1>1. skipClock \in 0 .. MaxSkipTime /\ waiting \in Countdowns
  BY DEF SegmentsInv, SegmentsKnown, PlayKnown, LoopKnown
<1>2. w \in Countdowns
  BY <1>1 DEF Countdowns, NotWaiting, SegmentAssumption
<1>3. ToSkip' = Within(listOf', used', skipMode', {"Always"}, place')
  BY DEF ToSkip, Within, Covers, Segments
<1>4. /\ waiting' \in Countdowns
      /\ waiting' # NotWaiting => /\ waiting'.of \in ToSkip'
                                  /\ waiting' = w \/ waiting'.due = skipClock + AutoSkipDelay
  BY <1>1, <1>2, <1>3, UpdateIs
<1>5. w = waiting /\ waiting # NotWaiting => waiting.of \in ToSkip
  BY DEF SegmentsInv, CountdownInv
<1> QED
  BY <1>4, <1>5 DEF Counts

\* The segment of a prompt.
LEMMA PromptIs ==
  ASSUME SegmentAssumption, SegmentsInv, NEW at, PromptAt(at) # {}
  PROVE  LET i == Earliest(PromptAt(at)) IN
         listOf # 0 /\ i \in Indexes \ used /\ skipMode[Segments(listOf)[i].kind] = "Prompt"
<1>1. listOf \in SkipFiles \cup {0}
  BY DEF SegmentsInv, SegmentsKnown, PlayKnown
<1>2. /\ PromptAt(at) \subseteq Indexes /\ PromptAt(at) \in SUBSET Nat /\ listOf # 0
      /\ \A i \in PromptAt(at) : i \notin used /\ skipMode[Segments(listOf)[i].kind] = "Prompt"
  BY <1>1, WithinIs DEF PromptAt
<1>3. Earliest(PromptAt(at)) \in PromptAt(at)
  BY <1>2, EarliestIsOne
<1> QED
  BY <1>2, <1>3

\* A skip is made, was not needed, or is not taken.
LEMMA SkipIs ==
  ASSUME SegmentAssumption, SegmentsInv, NEW i \in Indexes \ used, NEW at,
         Skipped(i, at) \/ Passed(i, at) \/ Refused(i, at)
  PROVE  /\ used' \subseteq Indexes /\ skips' \in [Indexes -> Nat] /\ UNCHANGED listOf
         /\ \/ Skipped(i, at) /\ used' = used \cup {i} /\ skips' # skips
               /\ skips' = [skips EXCEPT ![i] = @ + 1]
            \/ Passed(i, at) /\ used' = used \cup {i} /\ UNCHANGED skips
               /\ Segments(listOf)[i].to <= at
            \/ Refused(i, at) /\ UNCHANGED <<used, skips>>
<1>1. used \subseteq Indexes /\ skips \in [Indexes -> Nat] /\ skips[i] # skips[i] + 1
  BY DEF SegmentsInv, SegmentsKnown, PlayKnown
<1> QED
  BY <1>1 DEF Skipped, Passed, Refused, Spent

\* What comes of a position, or of the end of a seek.
LEMMA SeekIs ==
  ASSUME SegmentAssumption, SegmentsInv, handled = FALSE, handled' = TRUE,
         NEW at \in 0 .. EndOfFile, NEW updates \in BOOLEAN, NEW resuming \in 0 .. Nowhere,
         AfterSeek(at, updates, resuming), place' = at, UNCHANGED <<skipMode, fetching>>
  PROVE  PlayKnown' /\ SkipShape
<1> DEFINE i == Earliest(PromptAt(seekFrom))
           Updated(spent, w) == IF updates THEN Update(listOf, spent, skipMode, at, w) ELSE w
<1>1. PlayKnown /\ Nowhere \in 0 .. Nowhere /\ NotWaiting \in Countdowns /\ 0 \in SkipFiles \cup {0}
  BY DEF SegmentsInv, SegmentsKnown, Nowhere, NotWaiting, Countdowns, SegmentAssumption
<1>2. CASE AcceptsSeek(at) /\ MpvLost
  <2>1. Forgets
    BY <1>2 DEF MpvLost, ClearSkipSegmentState, Forgets
  <2>2. PlayKnown'
    BY <1>1, <1>2 DEF PlayKnown, MpvLost, ClearSkipSegmentState
  <2> QED
    BY <2>1, <2>2 DEF SkipShape
<1>3. CASE /\ AcceptsSeek(at) /\ (Skipped(i, at) \/ Passed(i, at) \/ Refused(i, at))
           /\ waiting' = IF skips' # skips THEN NotWaiting ELSE Updated(used', NotWaiting)
           /\ seekFrom' = Nowhere /\ startupSeek' = resuming /\ UNCHANGED <<file, phase>>
  <2>1. listOf # 0 /\ i \in Indexes \ used /\ skipMode[Segments(listOf)[i].kind] = "Prompt"
    BY <1>3, PromptIs DEF AcceptsSeek
  <2> HIDE DEF i
  <2>2. /\ used' \subseteq Indexes /\ skips' \in [Indexes -> Nat] /\ UNCHANGED listOf
        /\ \/ used' = used \cup {i} /\ skips' # skips /\ skips' = [skips EXCEPT ![i] = @ + 1]
           \/ used' = used \cup {i} /\ UNCHANGED skips /\ Segments(listOf)[i].to <= at
           \/ UNCHANGED <<used, skips>>
    BY <1>3, <2>1, SkipIs
  <2>3. waiting' \in Countdowns /\ Counts
    <3>1. CASE waiting' = NotWaiting
      BY <1>1, <3>1 DEF Counts
    <3>2. CASE waiting' = Update(listOf, used', skipMode, at, NotWaiting)
      <4>1. waiting' = Update(listOf', used', skipMode', place', NotWaiting)
        BY <2>2, <3>2
      <4> QED
        BY <1>1, <2>2, <4>1, LooksAgain DEF PlayKnown
    <3> QED
      BY <1>3, <3>1, <3>2
  <2>4. PlayKnown'
    BY <1>1, <1>3, <2>2, <2>3 DEF PlayKnown
  <2>5. Onward \/ Uses(i)
    BY <1>3, <2>1, <2>2, <2>3 DEF Onward, Uses, Wanted
  <2> QED
    BY <2>1, <2>4, <2>5 DEF SkipShape
<1>4. CASE /\ ~AcceptsSeek(at)
           /\ seekFrom' = IF at # seekFrom THEN Nowhere ELSE seekFrom
           /\ waiting' = Updated(used, waiting)
           /\ startupSeek' = resuming /\ UNCHANGED <<file, phase, listOf, used, skips>>
  <2>1. waiting' \in Countdowns /\ Counts
    <3>1. CASE waiting' = waiting
      BY <1>1, <3>1, RunsOn DEF PlayKnown
    <3>2. CASE waiting' = Update(listOf, used, skipMode, at, waiting)
      <4>1. waiting' = Update(listOf', used', skipMode', place', waiting)
        BY <1>4, <3>2
      <4> QED
        BY <1>1, <1>4, <4>1, LooksAgain DEF PlayKnown
    <3> QED
      BY <1>4, <3>1, <3>2
  <2>2. PlayKnown'
    BY <1>1, <1>4, <2>1 DEF PlayKnown
  <2> QED
    BY <1>4, <2>1, <2>2 DEF SkipShape, Onward
<1> QED
  BY <1>2, <1>3, <1>4 DEF AfterSeek

\* A skip that a prompt or a countdown asks for where the position is.
LEMMA TakenIs ==
  ASSUME SegmentAssumption, SegmentsInv, NEW i \in Indexes, listOf # 0, i \notin used, Wanted(i),
         \/ /\ Skipped(i, place) \/ Refused(i, place)
            /\ waiting' = NotWaiting /\ UNCHANGED <<seekFrom, playback>>
         \/ MpvLost,
         UNCHANGED <<skipMode, fetching, place>>
  PROVE  PlayKnown' /\ SkipShape
<1>1. /\ PlayKnown /\ Nowhere \in 0 .. Nowhere /\ NotWaiting \in Countdowns
  BY DEF SegmentsInv, SegmentsKnown, Nowhere, NotWaiting, Countdowns, SegmentAssumption
<1>2. CASE MpvLost
  BY <1>1, <1>2 DEF MpvLost, ClearSkipSegmentState, PlayKnown, SkipShape, Forgets
<1>3. CASE /\ Skipped(i, place) \/ Refused(i, place)
           /\ waiting' = NotWaiting /\ UNCHANGED <<seekFrom, playback>>
  <2>1. /\ used' \subseteq Indexes /\ skips' \in [Indexes -> Nat] /\ UNCHANGED listOf
        /\ \/ used' = used \cup {i} /\ skips' = [skips EXCEPT ![i] = @ + 1]
           \/ UNCHANGED <<used, skips>>
    BY <1>1, <1>3 DEF Skipped, Refused, Spent, PlayKnown
  <2>2. Counts
    BY <1>3 DEF Counts
  <2>3. PlayKnown'
    BY <1>1, <1>3, <2>1 DEF PlayKnown, playback
  <2>4. Onward \/ Uses(i)
    BY <1>3, <2>1, <2>2 DEF Onward, Uses, playback
  <2> QED
    BY <2>3, <2>4 DEF SkipShape
<1> QED
  BY <1>2, <1>3

-----------------------------------------------------------------------------------
\* Each message has one of these shapes.
LEMMA PlaybackMessages ==
  ASSUME SegmentAssumption, SegmentsInv, handled = FALSE, handled' = TRUE
  PROVE  /\ \A f \in SkipFiles, yes \in BOOLEAN :
              LoadFile(f, yes) \/ SegmentsArrive(f, yes) => PlayKnown' /\ SkipShape
         /\ FileLoaded => PlayKnown' /\ SkipShape
         /\ \A atEnd, ignored \in BOOLEAN : FileIsOver(atEnd, ignored) => PlayKnown' /\ SkipShape
         /\ \A mode \in [SegmentKinds -> SkipModes] : ChangeModes(mode) => PlayKnown' /\ SkipShape
<1>1. /\ PlayKnown /\ Nowhere \in 0 .. Nowhere /\ NotWaiting \in Countdowns /\ EndOfFile \in 0 .. EndOfFile
      /\ \A p \in 0 .. EndOfFile : p \in 0 .. Nowhere
      /\ \A f \in SkipFiles : StartOf[f] \in 0 .. EndOfFile /\ f # 0
  BY DEF SegmentsInv, SegmentsKnown, Nowhere, NotWaiting, Countdowns, SegmentAssumption
<1>2. ASSUME NEW f \in SkipFiles, NEW yes \in BOOLEAN, LoadFile(f, yes)
      PROVE  PlayKnown' /\ SkipShape
  BY <1>1, <1>2 DEF LoadFile, ClearSkipSegmentState, PlayKnown, SkipShape, Forgets
<1>3. ASSUME NEW f \in SkipFiles, NEW ok \in BOOLEAN, SegmentsArrive(f, ok)
      PROVE  PlayKnown' /\ SkipShape
  <2>1. UNCHANGED <<skipMode, file, phase, startupSeek, place, seekFrom>> /\ fetching' \subseteq SkipFiles
    BY <1>1, <1>3 DEF SegmentsArrive, playback, PlayKnown
  <2>2. CASE /\ ok /\ ForCurrent(f) /\ ~AllHidden(skipMode)
             /\ listOf' = f /\ used' = {} /\ skips' = [i \in Indexes |-> 0]
             /\ waiting' = Update(f, {}, skipMode, place, NotWaiting)
    <3>1. /\ waiting' \in Countdowns
          /\ waiting' # NotWaiting => waiting'.of \in ToSkip' /\ waiting'.due = skipClock + AutoSkipDelay
      <4>1. /\ waiting' = Update(listOf', used', skipMode', place', NotWaiting)
            /\ listOf' \in SkipFiles \cup {0}
        BY <2>1, <2>2
      <4> QED
        BY <4>1, LooksAgain
    <3>2. Begins
      BY <2>1, <2>2, <3>1 DEF Begins, ForCurrent
    <3>3. PlayKnown'
      BY <1>1, <2>1, <2>2, <3>1 DEF PlayKnown
    <3> QED
      BY <3>2, <3>3 DEF SkipShape
  <2>3. CASE UNCHANGED <<listOf, used, waiting, skips>>
    <3>1. Counts
      BY <2>3, RunsOn
    <3> QED
      BY <1>1, <2>1, <2>3, <3>1 DEF PlayKnown, SkipShape, Onward
  <2> QED
    BY <1>3, <2>2, <2>3 DEF SegmentsArrive
<1>4. ASSUME FileLoaded PROVE PlayKnown' /\ SkipShape
  <2>1. file # 0 => StartOf[file] \in 0 .. EndOfFile
    BY <1>1 DEF PlayKnown
  <2>2. file # 0
    BY <1>1, <1>4 DEF FileLoaded, PlayKnown
  <2>3. Counts
    BY <1>4, RunsOn DEF FileLoaded, skipList
  <2> QED
    BY <1>1, <1>4, <2>1, <2>2, <2>3 DEF FileLoaded, skipList, PlayKnown, SkipShape, Onward
<1>5. ASSUME NEW atEnd \in BOOLEAN, NEW ignored \in BOOLEAN, FileIsOver(atEnd, ignored)
      PROVE  PlayKnown' /\ SkipShape
  <2>1. CASE UNCHANGED <<phase, skipList>>
    <3>1. Counts
      BY <2>1, RunsOn DEF skipList
    <3> QED
      BY <1>1, <1>5, <2>1, <3>1 DEF FileIsOver, skipList, PlayKnown, SkipShape, Onward
  <2>2. CASE phase' = "idle" /\ ClearSkipSegmentState
    BY <1>1, <1>5, <2>2 DEF FileIsOver, ClearSkipSegmentState, PlayKnown, SkipShape, Forgets
  <2> QED
    BY <1>5, <2>1, <2>2 DEF FileIsOver
<1>6. ASSUME NEW mode \in [SegmentKinds -> SkipModes], ChangeModes(mode)
      PROVE  PlayKnown' /\ SkipShape
  <2>1. UNCHANGED <<file, phase, startupSeek, fetching, place, skips>> /\ skipMode' = mode
    BY <1>6 DEF ChangeModes, playback
  <2>2. CASE ClearSkipSegmentState
    BY <1>1, <2>1, <2>2 DEF ClearSkipSegmentState, PlayKnown, SkipShape, Forgets
  <2>3. CASE waiting' = Update(listOf, used, mode, place, NotWaiting) /\ UNCHANGED <<listOf, used, seekFrom>>
    <3>1. /\ waiting' = Update(listOf', used', skipMode', place', NotWaiting)
          /\ listOf' \in SkipFiles \cup {0}
      BY <1>1, <2>1, <2>3 DEF PlayKnown
    <3>2. waiting' \in Countdowns /\ Counts
      BY <3>1, LooksAgain
    <3> QED
      BY <1>1, <2>1, <2>3, <3>2 DEF PlayKnown, SkipShape, Onward
  <2> QED
    BY <1>6, <2>2, <2>3 DEF ChangeModes
<1> QED
  BY <1>2, <1>3, <1>4, <1>5, <1>6

LEMMA SeekMessages ==
  ASSUME SegmentAssumption, SegmentsInv, handled = FALSE, handled' = TRUE
  PROVE  /\ \A at \in 0 .. EndOfFile : TimePos(at) \/ SeekControl(at) => PlayKnown' /\ SkipShape
         /\ SeekEvent => PlayKnown' /\ SkipShape
         /\ \A seeking \in BOOLEAN : SeekingProperty(seeking) => PlayKnown' /\ SkipShape
<1>1. /\ PlayKnown /\ Nowhere \in 0 .. Nowhere /\ NotWaiting \in Countdowns
      /\ \A p \in 0 .. EndOfFile : p \in 0 .. Nowhere
  BY DEF SegmentsInv, SegmentsKnown, Nowhere, NotWaiting, Countdowns, SegmentAssumption
<1>2. ASSUME NEW at \in 0 .. EndOfFile, TimePos(at) PROVE PlayKnown' /\ SkipShape
  BY <1>1, <1>2, SeekIs DEF TimePos
<1>3. ASSUME NEW to \in 0 .. EndOfFile, SeekControl(to) PROVE PlayKnown' /\ SkipShape
  <2> DEFINE i == Earliest(PromptAt(place))
  <2>1. i \in Indexes /\ listOf # 0 /\ i \notin used /\ Wanted(i)
    BY <1>3, PromptIs DEF SeekControl, Wanted
  <2>2. /\ \/ /\ Skipped(i, place) \/ Refused(i, place)
              /\ waiting' = NotWaiting /\ UNCHANGED <<seekFrom, playback>>
           \/ MpvLost
        /\ UNCHANGED <<skipMode, fetching, place>>
    BY <1>3 DEF SeekControl
  <2> HIDE DEF i
  <2> QED
    BY <2>1, <2>2, TakenIs
<1>4. ASSUME SeekEvent PROVE PlayKnown' /\ SkipShape
  <2>1. Counts
    BY <1>4, RunsOn DEF SeekEvent
  <2> QED
    BY <1>1, <1>4, <2>1 DEF SeekEvent, playback, PlayKnown, SkipShape, Onward
<1>5. ASSUME NEW seeking \in BOOLEAN, SeekingProperty(seeking) PROVE PlayKnown' /\ SkipShape
  <2>1. CASE /\ seekFrom' = IF seekFrom = Nowhere THEN place ELSE seekFrom
             /\ UNCHANGED <<playback, listOf, used, waiting, skips>>
    <3>1. Counts
      BY <2>1, RunsOn
    <3> QED
      BY <1>1, <1>5, <2>1, <3>1 DEF SeekingProperty, playback, PlayKnown, SkipShape, Onward
  <2>2. CASE AfterSeek(place, FALSE, startupSeek)
    BY <1>1, <1>5, <2>2, SeekIs DEF SeekingProperty, PlayKnown
  <2> QED
    BY <1>5, <2>1, <2>2 DEF SeekingProperty
<1> QED
  BY <1>2, <1>3, <1>4, <1>5

\* The rest of the loop: the countdown is over, is given up, or goes on.
LEMMA CountdownStep ==
  ASSUME SegmentAssumption, SegmentsInv, Countdown, handled' = FALSE
  PROVE  PlayKnown' /\ SkipShape
<1> DEFINE i == waiting.of
           valid == i \in Within(listOf, used, skipMode, {"Always"}, place)
<1>1. /\ PlayKnown /\ NotWaiting \in Countdowns /\ UNCHANGED <<skipMode, fetching, place>>
      /\ valid = (i \in ToSkip)
  BY DEF SegmentsInv, SegmentsKnown, NotWaiting, Countdowns, SegmentAssumption, Countdown, ToSkip
<1>2. CASE waiting = NotWaiting /\ UNCHANGED <<playback, skipList, skips>>
  <2>1. Counts
    BY <1>2 DEF Counts, skipList
  <2> QED
    BY <1>1, <1>2, <2>1 DEF playback, skipList, PlayKnown, SkipShape, Onward
<1>3. CASE /\ waiting' = IF valid THEN waiting ELSE NotWaiting
           /\ UNCHANGED <<playback, listOf, used, seekFrom, skips>>
  <2>1. ToSkip' = ToSkip
    BY <1>1, <1>3 DEF ToSkip, Within, Covers, Segments
  <2>2. Counts
    BY <1>1, <1>3, <2>1 DEF Counts
  <2> QED
    BY <1>1, <1>3, <2>2 DEF playback, PlayKnown, SkipShape, Onward
<1>4. CASE /\ waiting # NotWaiting /\ valid /\ ~(skipClock < waiting.due)
           /\ \/ /\ Skipped(i, place) \/ Refused(i, place)
                 /\ waiting' = NotWaiting /\ UNCHANGED <<seekFrom, playback>>
              \/ MpvLost
  <2>1. i \in Indexes /\ listOf # 0 /\ i \notin used
    BY <1>1, <1>4, WithinIs DEF PlayKnown
  <2>2. stayed[i] + AutoSkipDelay <= skipClock
    <3>1. stayed[i] + AutoSkipDelay <= waiting.due
      BY <1>1, <1>4 DEF SegmentsInv, CountdownInv
    <3>2. stayed[i] \in Nat /\ AutoSkipDelay \in Nat /\ waiting.due \in Nat /\ skipClock \in Nat
      BY <2>1 DEF SegmentsInv, SegmentsKnown, PlayKnown, LoopKnown, Countdowns, NeverStayed, SegmentAssumption
    <3> QED
      BY <1>4, <3>1, <3>2
  <2>3. Wanted(i)
    BY <1>1, <1>4, <2>2 DEF Wanted
  <2> HIDE DEF i
  <2> QED
    BY <1>1, <1>4, <2>1, <2>3, TakenIs
<1> QED
  BY <1>2, <1>3, <1>4 DEF Countdown

-----------------------------------------------------------------------------------
LEMMA SegmentsInitially ==
  ASSUME SegmentAssumption, SegmentInit
  PROVE  SegmentsInv
<1>1. PlayKnown
  BY IndexesAreNumbers
     DEF SegmentInit, SegmentAssumption, PlayKnown, Countdowns, NotWaiting, Nowhere, SkipModes
<1>2. LoopKnown
  <2>1. NeverStayed \in 0 .. NeverStayed /\ 0 \in 0 .. MaxSkipTime
    BY DEF SegmentAssumption, NeverStayed
  <2>2. handled = FALSE /\ skipClock = 0 /\ stayed = [i \in Indexes |-> NeverStayed]
    BY DEF SegmentInit
  <2>3. stayed \in [Indexes -> 0 .. NeverStayed]
    BY <2>1, <2>2
  <2> QED
    BY <2>1, <2>2, <2>3 DEF LoopKnown
<1>3. ToSkip = {}
  BY WithinIs DEF SegmentInit, ToSkip
<1>4. SkippedInv /\ CountdownInv
  BY DEF SegmentInit, SkippedInv, CountdownInv
<1>5. StayedInv
  BY <1>3 DEF SegmentInit, StayedInv
<1> QED
  BY <1>1, <1>2, <1>4, <1>5 DEF SegmentsInv, SegmentsKnown

LEMMA SegmentsStep ==
  ASSUME SegmentAssumption, SegmentsInv, [SegmentNext]_segmentVars
  PROVE  SegmentsInv' /\ [SkipsAreWanted]_segmentVars
<1>1. LoopKnown /\ PlayKnown
  BY DEF SegmentsInv, SegmentsKnown
<1>2. CASE UNCHANGED segmentVars
  <2>1. UNCHANGED <<skipMode, file, phase, startupSeek, fetching, listOf, used, waiting, seekFrom, place,
                    handled, skipClock, skips, stayed>>
    BY <1>2 DEF segmentVars, playback, skipList
  <2>2. SegmentsKnown'
    BY <1>1, <2>1 DEF SegmentsKnown, PlayKnown, LoopKnown
  <2>3. SkippedInv'
    BY <2>1 DEF SegmentsInv, SkippedInv
  <2>4. ToSkip' = ToSkip
    BY <2>1 DEF ToSkip, Within, Covers, Segments
  <2>5. StayedInv'
    BY <2>1, <2>4 DEF SegmentsInv, StayedInv
  <2>6. CountdownInv'
    BY <2>1, <2>4 DEF SegmentsInv, CountdownInv
  <2> QED
    BY <1>2, <2>2, <2>3, <2>5, <2>6 DEF SegmentsInv
<1>3. CASE SegmentNext
  <2>1. StayedOn
    BY <1>3 DEF SegmentNext, StayedOn
  <2>2. ASSUME skipClock' \in 0 .. MaxSkipTime, handled' \in BOOLEAN
        PROVE  LoopKnown'
    <3>1. \A i \in Indexes : stayed[i] \in 0 .. NeverStayed
      BY <1>1 DEF LoopKnown
    <3>2. skipClock' \in 0 .. NeverStayed /\ NeverStayed \in 0 .. NeverStayed
      BY <2>2 DEF NeverStayed, SegmentAssumption
    <3>3. stayed' \in [Indexes -> 0 .. NeverStayed]
      BY <2>1, <3>1, <3>2 DEF StayedOn
    <3> QED
      BY <2>2, <3>3 DEF LoopKnown, NeverStayed
  <2>3. CASE ~handled /\ Message /\ handled' = TRUE /\ UNCHANGED skipClock
    <3>1. handled = FALSE
      BY <1>1, <2>3 DEF LoopKnown
    <3>2. PlayKnown' /\ SkipShape
      BY <2>3, <3>1, PlaybackMessages, SeekMessages DEF Message
    <3>3. SegmentsKnown'
      BY <1>1, <2>2, <2>3, <3>2 DEF SegmentsKnown, LoopKnown
    <3> QED
      BY <2>1, <2>3, <3>2, <3>3, ShapesKeepSegments
  <2>4. CASE Countdown /\ handled' = FALSE /\ UNCHANGED skipClock
    <3>1. PlayKnown' /\ SkipShape
      BY <2>4, CountdownStep
    <3>2. SegmentsKnown'
      BY <1>1, <2>2, <2>4, <3>1 DEF SegmentsKnown, LoopKnown
    <3> QED
      BY <2>1, <2>4, <3>1, <3>2, ShapesKeepSegments
  <2>5. CASE ClockTicks
    <3>1. /\ UNCHANGED <<skipMode, file, phase, startupSeek, fetching, listOf, used, waiting, seekFrom,
                         place, handled, skips>>
          /\ skipClock' = skipClock + 1 /\ skipClock < MaxSkipTime /\ handled = FALSE
      BY <1>1, <2>5 DEF ClockTicks, playback, skipList, LoopKnown
    <3>2. skipClock' \in 0 .. MaxSkipTime /\ skipClock <= skipClock'
      BY <1>1, <3>1 DEF LoopKnown, SegmentAssumption
    <3>3. SegmentsKnown'
      BY <1>1, <2>2, <3>1, <3>2 DEF SegmentsKnown, PlayKnown, LoopKnown
    <3>4. StayedInv' /\ \A i \in ToSkip : listOf' = listOf /\ i \in ToSkip' => stayed'[i] = stayed[i]
      BY <2>1, <3>2, <3>3, StayedIs
    <3>5. ToSkip' = ToSkip
      BY <3>1 DEF ToSkip, Within, Covers, Segments
    <3>6. CountdownInv'
      BY <3>1, <3>4, <3>5 DEF SegmentsInv, CountdownInv, NotWaiting
    <3>7. SkippedInv'
      BY <3>1 DEF SegmentsInv, SkippedInv
    <3>8. SkipsAreWanted
      <4>1. \A i \in Indexes : skips'[i] = skips[i] /\ skips[i] \in Nat
        BY <1>1, <3>1 DEF PlayKnown
      <4> QED
        BY <3>1, <4>1 DEF SkipsAreWanted
    <3> QED
      BY <3>3, <3>4, <3>6, <3>7, <3>8 DEF SegmentsInv
  <2> QED
    BY <1>3, <2>3, <2>4, <2>5 DEF SegmentNext
<1> QED
  BY <1>2, <1>3

LEMMA SegmentsInvHolds ==
  ASSUME SegmentAssumption
  PROVE  SegmentSpec => []SegmentsInv /\ [][SkipsAreWanted]_segmentVars
<1>1. SegmentInit => SegmentsInv
  BY SegmentsInitially
<1>2. SegmentsInv /\ [SegmentNext]_segmentVars => SegmentsInv' /\ [SkipsAreWanted]_segmentVars
  BY SegmentsStep
<1> QED
  BY <1>1, <1>2, PTL DEF SegmentSpec

(* What is skipped is a segment of what plays, once (segment_skip.rs).                     *)
THEOREM SegmentsSkippedOnce ==
  ASSUME SegmentAssumption
  PROVE  SegmentSpec => [](SegmentTypeOK /\ SkippedOnce)
<1>1. SegmentsInv => SegmentTypeOK /\ SkippedOnce
  <2> SUFFICES ASSUME SegmentsInv PROVE SegmentTypeOK /\ SkippedOnce
    OBVIOUS
  <2>1. PlayKnown /\ LoopKnown /\ SkippedInv
    BY DEF SegmentsInv, SegmentsKnown
  <2>2. waiting.of \in Indexes \cup {0} /\ waiting.due \in 0 .. MaxSkipTime + AutoSkipDelay
    BY <2>1 DEF PlayKnown, Countdowns
  <2> QED
    BY <2>1, <2>2 DEF PlayKnown, LoopKnown, SkippedInv, SegmentTypeOK, SkippedOnce
<1> QED
  BY <1>1, SegmentsInvHolds, PTL

(* A prompt's segment is skipped when a seek accepts it, any other only after the position  *)
(* stayed inside it for the whole delay while it was to be skipped; and a segment whose seek *)
(* failed is not used up (segment_skip.rs).                                                *)
THEOREM SegmentsSkippedAsWanted ==
  ASSUME SegmentAssumption
  PROVE  SegmentSpec => [][SkipsAreWanted]_segmentVars
BY SegmentsInvHolds, PTL

===============================================================================
