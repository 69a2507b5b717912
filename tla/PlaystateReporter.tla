--------------------------- MODULE PlaystateReporter ---------------------------
(***************************************************************************)
(* The thread that sends playstate reports to Jellyfin                     *)
(* (src/jellyfin/playback_reporter.rs).  Whoever plays posts reports to a  *)
(* channel, rx.  The thread takes all that are there into a batch, where a *)
(* later report of the same playback supersedes its progress reports, then *)
(* sends the batch one request at a time.  A request that fails is logged  *)
(* and not sent again: the server state below is what it was sent.         *)
(***************************************************************************)
EXTENDS Integers, Sequences

CONSTANT Playbacks      \* the playbacks, in the order they were asked for

VARIABLES
  rx,        \* the channel: reports and at most one flush
  batch,     \* `pending`: reports taken and not yet sent
  turn,      \* "taking" from the channel or "sending" the batch
  flush,     \* the batch ends with a flush: none, asked, acked
  started, stopped, last     \* what the server was sent

told == <<started, stopped, last>>
reporter == <<rx, batch, turn, flush, told>>

Kinds == {"start", "progress", "stopped"}
Report(kind, p) == [kind |-> kind, of |-> p]
Flush == Report("flush", 0)

ReporterInit ==
  /\ rx = <<>>
  /\ batch = <<>>
  /\ turn = "taking"
  /\ flush = "none"
  /\ started = {}
  /\ stopped = {}
  /\ last = Report("none", 0)

Supersedes(report, queued) ==
  /\ report.kind \in {"progress", "stopped"}
  /\ queued.kind = "progress"
  /\ queued.of = report.of

Superseded(queue, report) == {i \in DOMAIN queue : Supersedes(report, queue[i])}

\* So a batch never has two progress reports of a playback, and retain drops one at most.
OneProgressEach(queue) ==
  \A i, j \in DOMAIN queue :
    queue[i].kind = "progress" /\ queue[j] = queue[i] => i = j

Without(queue, i) == [n \in 1 .. Len(queue) - 1 |-> queue[IF n < i THEN n ELSE n + 1]]

Retained(queue, report) ==
  IF Superseded(queue, report) = {} THEN queue
  ELSE Without(queue, CHOOSE i \in Superseded(queue, report) : TRUE)

Enqueue(queue, report) == Append(Retained(queue, report), report)

ReporterType ==
  /\ rx \in Seq([kind : Kinds, of : Playbacks] \cup {Flush})
  /\ batch \in Seq([kind : Kinds, of : Playbacks])
  /\ OneProgressEach(batch)
  /\ turn \in {"taking", "sending"}
  /\ flush \in {"none", "asked", "acked"}
  /\ started \subseteq Playbacks
  /\ stopped \subseteq Playbacks
  /\ last \in [kind : Kinds, of : Playbacks] \cup {Report("none", 0)}

-------------------------------------------------------------------------------
\* recv, then try_recv: one message into the batch, a flush ends it.
Take ==
  /\ turn = "taking"
  /\ rx # <<>>
  /\ rx' = Tail(rx)
  /\ IF Head(rx) = Flush
     THEN flush' = "asked" /\ turn' = "sending" /\ UNCHANGED batch
     ELSE batch' = Enqueue(batch, Head(rx)) /\ UNCHANGED <<flush, turn>>
  /\ UNCHANGED told

\* try_recv finds the channel empty.
TakenAll ==
  /\ turn = "taking"
  /\ rx = <<>>
  /\ batch # <<>>
  /\ turn' = "sending"
  /\ UNCHANGED <<rx, batch, flush, told>>

\* The server is given one report; whatever its answer, the next one follows.
Send ==
  /\ turn = "sending"
  /\ batch # <<>>
  /\ batch' = Tail(batch)
  /\ LET report == Head(batch)
     IN  /\ last' = report
         /\ started' = IF report.kind = "start" THEN started \cup {report.of} ELSE started
         /\ stopped' = IF report.kind = "stopped" THEN stopped \cup {report.of} ELSE stopped
  /\ UNCHANGED <<rx, turn, flush>>

\* Mutant of BatchEnds: the flush is acknowledged before what it waits for is sent.
BatchEndsEarly ==
  /\ turn = "sending"
  /\ \/ batch = <<>> /\ turn' = "taking"
     \/ batch # <<>> /\ flush = "asked" /\ UNCHANGED turn
  /\ flush' = IF flush = "asked" THEN "acked" ELSE flush
  /\ UNCHANGED <<rx, batch, told>>

BatchEnds ==
  /\ turn = "sending"
  /\ batch = <<>>
  /\ turn' = "taking"
  /\ flush' = IF flush = "asked" THEN "acked" ELSE flush
  /\ UNCHANGED <<rx, batch, told>>

ReporterStep == Take \/ TakenAll \/ Send \/ BatchEnds

===============================================================================
