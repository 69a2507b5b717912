---------------------------------- MODULE MpvIpc ----------------------------------
(* One mpv and the two connections to it: how both are had and given back (ensure_mpv, *)
(* start_ipc_worker, reset_mpv), and the exchange of commands and replies between the  *)
(* controller, the writer thread and mpv.                                              *)
EXTENDS Naturals, Sequences

CONSTANTS MaxCommands,   \* bound: commands of one mpv
          MaxMpvEvents,  \* bound: events on the command connection
          MaxAttempts    \* bound: connection attempts until IPC_CONNECT_TIMEOUT

ASSUME MpvIpcAssumption == {MaxCommands, MaxMpvEvents, MaxAttempts} \subseteq Nat

Commands == 1 .. MaxCommands
Nothing == "nothing"
TimedOut == "timed out"
Broken == "transport"

VARIABLES
  handle,        \* the runtime: "none", "configured", "running", "dead", "destroyed"
  controllerAt,  \* what the controller does
  attempts,
  readerOpen, commandOpen,  \* the two connections
  writerAlive,   \* writer_alive
  writerAt,      \* the writer thread: "none", "idle", "waiting", "ended"
  writing,       \* the command whose reply it waits for
  toWriter,      \* commands on the channel: [id, async]
  ack,           \* [Commands -> result]: the one-shot answers; "written": not awaited
  line,          \* lines of the command connection: [of, result], 0: an event
  executing,     \* commands mpv has been given and not answered
  answered,      \* history: [Commands -> what mpv answered]
  notified,          \* history: [Commands -> what the caller was told]
  sent, mpvEvents

ipcVars == <<handle, controllerAt, attempts, readerOpen, commandOpen, writerAlive, writerAt,
             writing, toWriter, ack, line, executing, answered, notified, sent, mpvEvents>>
connections == <<readerOpen, commandOpen>>
writer == <<writerAlive, writerAt, writing, toWriter>>
exchange == <<ack, line, executing, answered, notified, sent, mpvEvents>>

Results == {"success", "error", Nothing}

IpcTypeOK ==
  /\ handle \in {"none", "configured", "running", "dead", "destroyed"}
  /\ controllerAt \in {"down", "runtime", "connect", "ready", "waiting", "closing"}
  /\ attempts \in 0 .. MaxAttempts
  /\ readerOpen \in BOOLEAN /\ commandOpen \in BOOLEAN /\ writerAlive \in BOOLEAN
  /\ writerAt \in {"none", "idle", "waiting", "ended"} /\ writing \in 0 .. MaxCommands
  /\ toWriter \in Seq([id : Commands, async : BOOLEAN])
  /\ ack \in [Commands -> Results \cup {Broken, "written"}]
  /\ line \in Seq([of : 0 .. MaxCommands, result : Results])
  /\ executing \subseteq Commands
  /\ answered \in [Commands -> Results]
  /\ notified \in [Commands -> Results \cup {Broken, TimedOut, "written"}]
  /\ sent \in 0 .. MaxCommands /\ mpvEvents \in 0 .. MaxMpvEvents

IpcInit ==
  /\ handle = "none" /\ controllerAt = "down" /\ attempts = 0
  /\ readerOpen = FALSE /\ commandOpen = FALSE
  /\ writerAlive = FALSE /\ writerAt = "none" /\ writing = 0 /\ toWriter = << >>
  /\ ack = [c \in Commands |-> Nothing] /\ line = << >> /\ executing = {}
  /\ answered = [c \in Commands |-> Nothing] /\ notified = [c \in Commands |-> Nothing]
  /\ sent = 0 /\ mpvEvents = 0

MpvUp == handle = "running"

-----------------------------------------------------------------------------------
(* Having mpv. *)

(* MpvRuntime::start: the handle is created and configured, then initialised.          *)
CreateRuntime ==
  /\ controllerAt = "down" /\ handle = "none"
  /\ \/ handle' = "configured" /\ controllerAt' = "runtime"
     \/ UNCHANGED <<handle, controllerAt>>
  /\ UNCHANGED <<attempts, connections, writer, exchange>>

(* An option refused, no initialisation, no renderer, no window: the handle is         *)
(* destroyed before the error is returned.                                             *)
InitializeRuntime ==
  /\ controllerAt = "runtime"
  /\ \/ handle' = "running" /\ controllerAt' = "connect"
     \/ handle' = "destroyed" /\ controllerAt' = "down"
  /\ UNCHANGED <<attempts, connections, writer, exchange>>

(* IpcWorker::start: the event connection, then the command connection; without the    *)
(* second the first is dropped.                                                        *)
ConnectIpc ==
  /\ controllerAt = "connect" /\ MpvUp
  /\ readerOpen' = TRUE /\ commandOpen' = TRUE
  /\ writerAlive' = TRUE /\ writerAt' = "idle"
  /\ controllerAt' = "ready"
  /\ UNCHANGED <<handle, attempts, writing, toWriter, exchange>>

ConnectFails ==
  /\ controllerAt = "connect" /\ attempts < MaxAttempts
  /\ attempts' = attempts + 1
  /\ UNCHANGED <<handle, controllerAt, connections, writer, exchange>>

(* The deadline, a dead runtime, or a shutdown ends the attempts: runtime.stop().      *)
(* Mutant: the runtime is forgotten.                                                   *)
LeftRunning == handle
Stopped == "destroyed"

GiveUp ==
  /\ controllerAt = "connect"
  /\ handle' = Stopped /\ controllerAt' = "down"
  /\ UNCHANGED <<attempts, connections, writer, exchange>>

MpvDies ==
  /\ MpvUp
  /\ handle' = "dead" /\ executing' = {}
  /\ UNCHANGED <<controllerAt, attempts, connections, writer, ack, line, answered, notified, sent,
                 mpvEvents>>

-----------------------------------------------------------------------------------
(* send_with_timeout. *)

Accepts == writerAlive

SendCommand(async) ==
  /\ controllerAt = "ready" /\ sent < MaxCommands /\ Accepts
  /\ sent' = sent + 1
  /\ IF writerAt = "ended"     \* the channel is closed
     THEN notified' = [notified EXCEPT ![sent'] = Broken] /\ UNCHANGED <<toWriter, controllerAt>>
     ELSE /\ toWriter' = Append(toWriter, [id |-> sent', async |-> async])
          /\ controllerAt' = "waiting"
          /\ UNCHANGED notified
  /\ UNCHANGED <<handle, attempts, connections, writerAlive, writerAt, writing, ack, line,
                 executing, answered, mpvEvents>>

AnswerReceived ==
  /\ controllerAt = "waiting" /\ ack[sent] # Nothing
  /\ notified' = [notified EXCEPT ![sent] = ack[sent]]
  /\ controllerAt' = "ready"
  /\ UNCHANGED <<handle, attempts, connections, writer, ack, line, executing, answered, sent,
                 mpvEvents>>

(* A missed reply poisons the worker; mutant: it stays in use. *)
StaysInUse == writerAlive
Poisoned == FALSE

AnswerTimesOut ==
  /\ controllerAt = "waiting" /\ ack[sent] = Nothing
  /\ notified' = [notified EXCEPT ![sent] = TimedOut]
  /\ writerAlive' = Poisoned
  /\ controllerAt' = "ready"
  /\ UNCHANGED <<handle, attempts, connections, writerAt, writing, toWriter, ack, line,
                 executing, answered, sent, mpvEvents>>

-----------------------------------------------------------------------------------
(* write_commands. *)

EndWriter ==
  writerAt' = "ended" /\ writerAlive' = FALSE /\ commandOpen' = FALSE

TakeCommand ==
  /\ writerAt = "idle" /\ toWriter # << >>
  /\ toWriter' = Tail(toWriter)
  /\ LET c == Head(toWriter)
     IN IF MpvUp
        THEN /\ executing' = executing \cup {c.id}
             /\ IF c.async
                THEN ack' = [ack EXCEPT ![c.id] = "written"] /\ UNCHANGED <<writerAt, writing>>
                ELSE writerAt' = "waiting" /\ writing' = c.id /\ UNCHANGED ack
             /\ UNCHANGED <<writerAlive, commandOpen>>
        ELSE /\ ack' = [ack EXCEPT ![c.id] = Broken]
             /\ EndWriter /\ UNCHANGED <<executing, writing>>
  /\ UNCHANGED <<handle, controllerAt, attempts, readerOpen, line, answered, notified, sent,
                 mpvEvents>>

(* The line is the reply when its request id is; mutant: any reply is.                 *)
AnyReply(l, id) == l.of # 0
IsReply(l, id) == l.of = id

ReadLine ==
  /\ writerAt = "waiting" /\ line # << >>
  /\ line' = Tail(line)
  /\ IF IsReply(Head(line), writing)
     THEN ack' = [ack EXCEPT ![writing] = Head(line).result] /\ writerAt' = "idle"
     ELSE UNCHANGED <<ack, writerAt>>
  /\ UNCHANGED <<handle, controllerAt, attempts, connections, writerAlive, writing, toWriter,
                 executing, answered, notified, sent, mpvEvents>>

(* The connection is closed, or - where reads have a time-out - nothing came in time.  *)
ReadFails ==
  /\ writerAt = "waiting" /\ line = << >>
  /\ ack' = [ack EXCEPT ![writing] = Broken]
  /\ EndWriter
  /\ UNCHANGED <<handle, controllerAt, attempts, readerOpen, writing, toWriter, line,
                 executing, answered, notified, sent, mpvEvents>>

MpvReplies(c) ==
  /\ MpvUp /\ c \in executing /\ commandOpen
  /\ executing' = executing \ {c}
  /\ \E result \in {"success", "error"} :
       /\ answered' = [answered EXCEPT ![c] = result]
       /\ line' = Append(line, [of |-> c, result |-> result])
  /\ UNCHANGED <<handle, controllerAt, attempts, connections, writer, ack, notified, sent,
                 mpvEvents>>

(* Events come on the command connection too. *)
MpvEvent ==
  /\ MpvUp /\ commandOpen /\ mpvEvents < MaxMpvEvents
  /\ mpvEvents' = mpvEvents + 1
  /\ line' = Append(line, [of |-> 0, result |-> Nothing])
  /\ UNCHANGED <<handle, controllerAt, attempts, connections, writer, ack, executing,
                 answered, notified, sent>>

-----------------------------------------------------------------------------------
(* Giving mpv back: reset_mpv stops the runtime, then joins the threads.               *)

(* Mutant: the threads are joined while mpv still runs. *)
JoinFirst == handle
StopFirst == "destroyed"

ResetMpv ==
  /\ controllerAt = "ready"
  /\ handle' = StopFirst
  /\ executing' = {}
  /\ controllerAt' = "closing"
  /\ UNCHANGED <<attempts, connections, writer, ack, line, answered, notified, sent, mpvEvents>>

(* The channel is closed: an idle writer ends once it is empty. *)
WriterEnds ==
  /\ controllerAt = "closing" /\ writerAt = "idle" /\ toWriter = << >>
  /\ EndWriter
  /\ UNCHANGED <<handle, controllerAt, attempts, readerOpen, writing, toWriter, exchange>>

(* read_events goes on through time-outs until the connection ends. *)
ReaderEnds ==
  /\ readerOpen /\ ~MpvUp
  /\ readerOpen' = FALSE
  /\ UNCHANGED <<handle, controllerAt, attempts, commandOpen, writer, exchange>>

Joined ==
  /\ controllerAt = "closing" /\ writerAt = "ended" /\ ~readerOpen
  /\ controllerAt' = "down"
  /\ UNCHANGED <<handle, attempts, connections, writer, exchange>>

IpcNext ==
  \/ CreateRuntime \/ InitializeRuntime \/ ConnectIpc \/ ConnectFails \/ GiveUp \/ MpvDies
  \/ SendCommand(TRUE) \/ SendCommand(FALSE) \/ AnswerReceived \/ AnswerTimesOut
  \/ TakeCommand \/ ReadLine \/ ReadFails \/ (\E c \in Commands : MpvReplies(c)) \/ MpvEvent
  \/ ResetMpv \/ WriterEnds \/ ReaderEnds \/ Joined

(* Threads go on. Only the end of the connection is sure to end a wait for lines: on    *)
(* Windows reads have no time-out.                                                     *)
IpcStep == TakeCommand \/ ReadLine \/ (~MpvUp /\ ReadFails) \/ WriterEnds \/ ReaderEnds \/ Joined
IpcFairness == WF_ipcVars(IpcStep)

IpcSpec == IpcInit /\ [][IpcNext]_ipcVars /\ IpcFairness

-----------------------------------------------------------------------------------
(* What the controller is told of a command is what mpv answered to that command: an   *)
(* asynchronous command's late reply, an event, or the reply to a command that timed   *)
(* out is never taken for it.                                                          *)
RepliesAreOwn ==
  \A c \in Commands : notified[c] \in {"success", "error"} => answered[c] = notified[c]

(* Once a reply was missed, no later command reaches mpv over that worker.             *)
NothingAfterTimeout ==
  \A c, d \in Commands :
    notified[c] = TimedOut /\ c < d => d \notin executing /\ answered[d] = Nothing

(* Giving mpv back ends: the controller is never stuck joining a thread that waits for *)
(* mpv.                                                                                *)
ResetEnds == []<>(controllerAt # "closing")

(* While the controller has no mpv, none runs: every failed start has destroyed its    *)
(* handle, and so has every reset.                                                     *)
NoMpvLeft == controllerAt = "down" => handle \in {"none", "destroyed"}

(* The connection to mpv tells the controller the truth and can always be taken down   *)
(* with all it started (ipc.rs, reset_mpv).                                            *)
ConnectionIsSound == [](RepliesAreOwn /\ NothingAfterTimeout /\ NoMpvLeft) /\ ResetEnds
===================================================================================
