------------------------------ MODULE ServicesProofs ------------------------------
(* What the parts that MCServices puts side by side keep, for every value of their      *)
(* constants: the sync worker, the connection to mpv, the franchises, the plugin's      *)
(* calendar, Seerr users and collection titles, and the membership walk; and what       *)
(* that says of the whole, whichever part moves.                                        *)
EXTENDS MCServices, Listings, FiniteSetTheorems, SequenceTheorems, WellFoundedInduction, TLAPS

-----------------------------------------------------------------------------------
(* Sync worker.                                                                        *)
(* The retry that the interface shows is never the failure of an account that was      *)
(* signed in before, for any number of sign-ins, requests and failures.  run reads the   *)
(* session's generation before the cycle takes its scope, and generations only grow:     *)
(* so a failure is shown for a session that is no later than the one it is of            *)
(* (GenerationsInv), and both can be the present one only together.  That no request is  *)
(* forgotten is inductive as it stands: whatever clears the flag sets the trigger, and   *)
(* only a cycle that was started for the request clears that.                            *)

GenerationsInv ==
  /\ readSession <= session /\ cycleSession <= session
  /\ at = "cycle" => readSession <= cycleSession
  /\ failure.shownFor <= failure.of /\ failure.of <= session

-----------------------------------------------------------------------------------
(* Every variable keeps its type. *)
LEMMA WorkerTypesStep == WorkerTypeOK /\ [WorkerNext]_workerVars => WorkerTypeOK'
<1> SUFFICES ASSUME WorkerTypeOK, [WorkerNext]_workerVars
             PROVE  WorkerTypeOK'
  OBVIOUS
<1> USE SyncWorkerAssumption DEF WorkerTypeOK, Waits, MaxBackoff, loop, callers
<1>1. CASE Request
  BY <1>1 DEF Request, RequestCycle
<1>2. CASE AccountSignsIn
  BY <1>2 DEF AccountSignsIn
<1>3. CASE RequestAfterSignIn
  BY <1>3 DEF RequestAfterSignIn, RequestCycle
<1>4. CASE AccountSignsOut
  BY <1>4 DEF AccountSignsOut
<1>5. CASE NotSignedIn
  BY <1>5 DEF NotSignedIn
<1>6. ASSUME NEW over \in BOOLEAN, Hold(over)
      PROVE  WorkerTypeOK'
  BY <1>6 DEF Hold
<1>7. CASE BeginCycle
  BY <1>7 DEF BeginCycle
<1>8. CASE TakeCycleScope
  BY <1>8 DEF TakeCycleScope
<1>9. CASE Sleep
  BY <1>9 DEF Sleep
<1>10. CASE CycleSucceeds
  <2>1. due' \in BOOLEAN
    BY <1>10, Zenon DEF CycleSucceeds, CycleEnds
  <2> QED
    BY <1>10, <2>1 DEF CycleSucceeds, CycleEnds, NoFailure
<1>11. CASE CycleCancelled
  <2>1. due' \in BOOLEAN
    BY <1>11, Zenon DEF CycleCancelled, CycleEnds
  <2> QED
    BY <1>11, <2>1 DEF CycleCancelled, CycleEnds
<1>12. CASE CycleFails
  <2>1. due' \in BOOLEAN
    BY <1>12, Zenon DEF CycleFails, CycleEnds
  <2> QED
    BY <1>12, <2>1 DEF CycleFails, CycleEnds, FailedSession
<1>13. CASE WakeRequested
  BY <1>13 DEF WakeRequested
<1>14. CASE WakeElapsed
  BY <1>14 DEF WakeElapsed, Elapsed
<1>15. CASE UNCHANGED workerVars
  BY <1>15 DEF workerVars
<1> QED
  BY <1>1, <1>2, <1>3, <1>4, <1>5, <1>6, <1>7, <1>8,
     <1>9, <1>10, <1>11, <1>12, <1>13, <1>14, <1>15 DEF WorkerNext, Loop

(* A cycle's scope is taken after its generation was read; a failure keeps both. *)
LEMMA GenerationsStep ==
  WorkerTypeOK /\ GenerationsInv /\ [WorkerNext]_workerVars => GenerationsInv'
<1> SUFFICES ASSUME WorkerTypeOK, GenerationsInv, [WorkerNext]_workerVars
             PROVE  GenerationsInv'
  OBVIOUS
<1> USE SyncWorkerAssumption DEF WorkerTypeOK, GenerationsInv, Waits, loop, callers
<1>1. CASE Request
  BY <1>1 DEF Request, RequestCycle
<1>2. CASE AccountSignsIn
  BY <1>2 DEF AccountSignsIn
<1>3. CASE RequestAfterSignIn
  BY <1>3 DEF RequestAfterSignIn, RequestCycle
<1>4. CASE AccountSignsOut
  BY <1>4 DEF AccountSignsOut
<1>5. CASE NotSignedIn
  BY <1>5 DEF NotSignedIn
<1>6. ASSUME NEW over \in BOOLEAN, Hold(over)
      PROVE  GenerationsInv'
  BY <1>6 DEF Hold
<1>7. CASE BeginCycle
  BY <1>7 DEF BeginCycle
<1>8. CASE TakeCycleScope
  BY <1>8 DEF TakeCycleScope
<1>9. CASE Sleep
  BY <1>9 DEF Sleep
<1>10. CASE CycleSucceeds
  BY <1>10 DEF CycleSucceeds, CycleEnds, NoFailure
<1>11. CASE CycleCancelled
  BY <1>11 DEF CycleCancelled, CycleEnds
<1>12. CASE CycleFails
  BY <1>12 DEF CycleFails, CycleEnds, FailedSession
<1>13. CASE WakeRequested
  BY <1>13 DEF WakeRequested
<1>14. CASE WakeElapsed
  BY <1>14 DEF WakeElapsed, Elapsed
<1>15. CASE UNCHANGED workerVars
  BY <1>15 DEF workerVars
<1> QED
  BY <1>1, <1>2, <1>3, <1>4, <1>5, <1>6, <1>7, <1>8,
     <1>9, <1>10, <1>11, <1>12, <1>13, <1>14, <1>15 DEF WorkerNext, Loop

(* A request moves from the flag to the trigger, and is served before it leaves that. *)
LEMMA WorkerRequestStep ==
  WorkerTypeOK /\ RequestIsKept /\ [WorkerNext]_workerVars => RequestIsKept'
<1> SUFFICES ASSUME WorkerTypeOK, RequestIsKept, [WorkerNext]_workerVars
             PROVE  RequestIsKept'
  OBVIOUS
<1> USE SyncWorkerAssumption DEF WorkerTypeOK, RequestIsKept, Waits, loop, callers
<1>1. CASE Request
  BY <1>1 DEF Request, RequestCycle
<1>2. CASE AccountSignsIn
  BY <1>2 DEF AccountSignsIn
<1>3. CASE RequestAfterSignIn
  BY <1>3 DEF RequestAfterSignIn, RequestCycle
<1>4. CASE AccountSignsOut
  BY <1>4 DEF AccountSignsOut
<1>5. CASE NotSignedIn
  BY <1>5 DEF NotSignedIn
<1>6. ASSUME NEW over \in BOOLEAN, Hold(over)
      PROVE  RequestIsKept'
  BY <1>6 DEF Hold
<1>7. CASE BeginCycle
  BY <1>7 DEF BeginCycle
<1>8. CASE TakeCycleScope
  BY <1>8 DEF TakeCycleScope
<1>9. CASE Sleep
  BY <1>9 DEF Sleep
<1>10. CASE CycleSucceeds
  BY <1>10 DEF CycleSucceeds, CycleEnds, NoFailure
<1>11. CASE CycleCancelled
  BY <1>11 DEF CycleCancelled, CycleEnds
<1>12. CASE CycleFails
  BY <1>12 DEF CycleFails, CycleEnds, FailedSession
<1>13. CASE WakeRequested
  BY <1>13 DEF WakeRequested
<1>14. CASE WakeElapsed
  BY <1>14 DEF WakeElapsed, Elapsed
<1>15. CASE UNCHANGED workerVars
  BY <1>15 DEF workerVars
<1> QED
  BY <1>1, <1>2, <1>3, <1>4, <1>5, <1>6, <1>7, <1>8,
     <1>9, <1>10, <1>11, <1>12, <1>13, <1>14, <1>15 DEF WorkerNext, Loop

-----------------------------------------------------------------------------------
(* The thread starts without a cycle and without a failure. *)
LEMMA WorkerInitially == WorkerInit => WorkerTypeOK /\ GenerationsInv
<1> SUFFICES ASSUME WorkerInit
             PROVE  WorkerTypeOK /\ GenerationsInv
  OBVIOUS
<1> USE SyncWorkerAssumption DEF WorkerInit, NoFailure
<1>1. GenerationsInv
  BY DEF GenerationsInv
<1>2. /\ owesRequest \in BOOLEAN /\ flag \in BOOLEAN /\ hold \in BOOLEAN /\ due \in BOOLEAN
      /\ unserved \in BOOLEAN /\ signedIn \in BOOLEAN
  BY Zenon DEF WorkerInit
<1>3. /\ session \in 1 .. MaxSessions + 1
      /\ {readSession, cycleSession, failure.shownFor, failure.of} \subseteq 0 .. MaxSessions + 1
  OBVIOUS
<1>4. requests \in 0 .. MaxRequests /\ cycleFaults \in 0 .. MaxCycleFaults
      /\ backoff \in 0 .. MaxBackoff
  BY DEF MaxBackoff
<1>5. at \in Waits \cup {"top", "begin", "cycle"} /\ trigger \in {"Scheduled", "Requested"}
  OBVIOUS
<1> QED
  BY ONLY <1>1, <1>2, <1>3, <1>4, <1>5 DEF WorkerTypeOK

(* The thread's variables, its waits and its counters keep their types (worker.rs). *)
THEOREM WorkerTypes == WorkerSpec => []WorkerTypeOK
BY WorkerInitially, WorkerTypesStep, PTL DEF WorkerSpec

(* Whoever signs in while a cycle runs or fails is not shown the retry of the account   *)
(* before; and no request is lost, whenever it comes (run, wait, status).              *)
THEOREM WorkerKeepsBoth == WorkerSpec => []WorkerRemembers
<1>1. WorkerTypeOK /\ GenerationsInv => RetryIsOwn
  BY SyncWorkerAssumption DEF WorkerTypeOK, GenerationsInv, RetryIsOwn
<1>2. WorkerInit => RequestIsKept
  BY DEF WorkerInit, RequestIsKept
<1> QED
  BY <1>1, <1>2, WorkerInitially, WorkerTypesStep, GenerationsStep, WorkerRequestStep, PTL
  DEF WorkerSpec, WorkerRemembers

-----------------------------------------------------------------------------------
(* The connection to mpv.  *)
(* What the controller is told is what mpv answered, nothing is sent after a reply was  *)
(* missed, and no mpv is left running, for any number of commands and events (MpvIpc).  *)
(*                                                                                   *)
(* The controller sends the next command only when the one before was answered or      *)
(* failed (IpcQueue), so that the writer has one command at most and waits for the      *)
(* reply to the last one sent; mpv is given each command once, and a line on the        *)
(* connection is what mpv answered to it (IpcAnswers).                                 *)

MpvAnswers == {"success", "error"}
Untaken(c) == c \notin executing /\ answered[c] = Nothing /\ ack[c] = Nothing

IpcLife ==
  /\ handle = "none" => controllerAt = "down"
  /\ controllerAt = "runtime" => handle = "configured"
  /\ controllerAt = "closing" => handle = "destroyed"
  /\ NoMpvLeft
  /\ handle = "none" \/ controllerAt \in {"runtime", "connect"} =>
       sent = 0 /\ toWriter = << >> /\ writerAt = "none"

IpcQueue ==
  /\ \A c \in Commands : c > sent => Untaken(c)
  /\ controllerAt = "waiting" => sent # 0
  /\ toWriter # << >> =>
       /\ Len(toWriter) = 1 /\ toWriter[1].id = sent /\ sent # 0
       /\ Untaken(sent) /\ writerAt # "waiting"
  /\ writerAt = "waiting" => writing = sent /\ sent # 0 /\ ack[sent] = Nothing
  /\ controllerAt = "ready" /\ writerAlive => toWriter = << >> /\ writerAt # "waiting"

IpcAnswers ==
  /\ \A c \in executing : answered[c] = Nothing
  /\ \A c \in Commands : ack[c] \in MpvAnswers => answered[c] = ack[c]
  /\ \A i \in 1 .. Len(line) : line[i].of # 0 =>
       line[i].result \in MpvAnswers /\ answered[line[i].of] = line[i].result
  /\ RepliesAreOwn

IpcTimeouts == \A c \in Commands : notified[c] = TimedOut => ~writerAlive /\ c = sent

IpcInv == IpcTypeOK /\ IpcLife /\ IpcQueue /\ IpcAnswers /\ IpcTimeouts

\* The actions: how mpv is had and given back, what the controller sends and is told,
\* and what the writer thread and mpv do.
HaveStep ==
  \/ CreateRuntime \/ InitializeRuntime \/ ConnectIpc \/ ConnectFails \/ GiveUp \/ MpvDies
  \/ ResetMpv \/ WriterEnds \/ ReaderEnds \/ Joined
SendStep == (\E async \in BOOLEAN : SendCommand(async)) \/ AnswerReceived \/ AnswerTimesOut
ExchangeStep ==
  TakeCommand \/ ReadLine \/ ReadFails \/ (\E c \in Commands : MpvReplies(c)) \/ MpvEvent

LEMMA IpcSteps ==
  [IpcNext]_ipcVars => HaveStep \/ SendStep \/ ExchangeStep \/ UNCHANGED ipcVars
BY DEF IpcNext, HaveStep, SendStep, ExchangeStep

\* What having mpv and giving it back leaves alone.
LEMMA HavingKeeps ==
  HaveStep => /\ UNCHANGED <<toWriter, writing, ack, line, answered, notified, sent, mpvEvents>>
              /\ executing' \in {executing, {}}
BY DEF HaveStep, CreateRuntime, InitializeRuntime, ConnectIpc, ConnectFails, GiveUp, MpvDies,
       ResetMpv, WriterEnds, ReaderEnds, Joined, EndWriter, writer, exchange

LEMMA CommandFacts ==
  ASSUME IpcTypeOK, IpcQueue
  PROVE  /\ MaxCommands \in Nat /\ MaxMpvEvents \in Nat /\ MaxAttempts \in Nat
         /\ sent \in 0 .. MaxCommands /\ (sent # 0 => sent \in Commands)
         /\ \A c \in Commands : c \in Nat /\ c # 0
         /\ ack \in [Commands -> Results \cup {Broken, "written"}]
         /\ answered \in [Commands -> Results]
         /\ notified \in [Commands -> Results \cup {Broken, TimedOut, "written"}]
         /\ toWriter \in Seq([id : Commands, async : BOOLEAN])
         /\ line \in Seq([of : 0 .. MaxCommands, result : Results])
         /\ executing \subseteq Commands
         /\ MpvAnswers \subseteq Results /\ Nothing \notin MpvAnswers /\ Nothing \in Results
         /\ TimedOut \notin Results \cup {Broken, "written"}
         /\ MpvAnswers \cap {Broken, TimedOut, "written"} = {}
<1>1. MaxCommands \in Nat /\ MaxMpvEvents \in Nat /\ MaxAttempts \in Nat
  BY MpvIpcAssumption
<1>2. /\ ack \in [Commands -> Results \cup {Broken, "written"}]
      /\ answered \in [Commands -> Results]
      /\ notified \in [Commands -> Results \cup {Broken, TimedOut, "written"}]
      /\ toWriter \in Seq([id : Commands, async : BOOLEAN])
      /\ line \in Seq([of : 0 .. MaxCommands, result : Results])
      /\ executing \subseteq Commands /\ sent \in 0 .. MaxCommands
  BY DEF IpcTypeOK
<1>3. (sent # 0 => sent \in Commands) /\ \A c \in Commands : c \in Nat /\ c # 0
  BY <1>1, <1>2 DEF Commands
<1>4. /\ MpvAnswers \subseteq Results /\ Nothing \notin MpvAnswers /\ Nothing \in Results
      /\ TimedOut \notin Results \cup {Broken, "written"}
      /\ MpvAnswers \cap {Broken, TimedOut, "written"} = {}
  BY DEF Results, MpvAnswers, Nothing, TimedOut, Broken
<1> QED
  BY <1>1, <1>2, <1>3, <1>4

LEMMA IpcTypesStep ==
  ASSUME IpcTypeOK, IpcQueue, [IpcNext]_ipcVars
  PROVE  IpcTypeOK'
<1>0. /\ handle \in {"none", "configured", "running", "dead", "destroyed"}
      /\ controllerAt \in {"down", "runtime", "connect", "ready", "waiting", "closing"}
      /\ attempts \in 0 .. MaxAttempts
      /\ readerOpen \in BOOLEAN /\ commandOpen \in BOOLEAN /\ writerAlive \in BOOLEAN
      /\ writerAt \in {"none", "idle", "waiting", "ended"} /\ writing \in 0 .. MaxCommands
      /\ mpvEvents \in 0 .. MaxMpvEvents
  BY DEF IpcTypeOK
<1>1. CASE HaveStep
  <2>1. /\ handle' \in {"none", "configured", "running", "dead", "destroyed"}
        /\ controllerAt' \in {"down", "runtime", "connect", "ready", "waiting", "closing"}
        /\ readerOpen' \in BOOLEAN /\ commandOpen' \in BOOLEAN /\ writerAlive' \in BOOLEAN
        /\ writerAt' \in {"none", "idle", "waiting", "ended"}
    BY <1>0, <1>1 DEF HaveStep, CreateRuntime, InitializeRuntime, ConnectIpc, ConnectFails, GiveUp, MpvDies,
       ResetMpv, WriterEnds, ReaderEnds, Joined, EndWriter, writer, exchange, connections, Stopped, StopFirst
  <2>2. attempts' \in 0 .. MaxAttempts
    <3>1. ConnectFails => attempts' \in 0 .. MaxAttempts
      BY <1>0, CommandFacts DEF ConnectFails
    <3> QED
      BY <1>0, <1>1, <3>1 DEF HaveStep, CreateRuntime, InitializeRuntime, ConnectIpc, GiveUp, MpvDies,
         ResetMpv, WriterEnds, ReaderEnds, Joined
  <2> QED
    BY <1>1, <2>1, <2>2, HavingKeeps DEF IpcTypeOK
<1>2. CASE SendStep
  <2>1. ASSUME NEW async \in BOOLEAN, SendCommand(async) PROVE IpcTypeOK'
    <3>1. /\ sent' = sent + 1 /\ sent' \in Commands
          /\ UNCHANGED <<handle, attempts, connections, writerAlive, writerAt, writing, ack, line,
                         executing, answered, mpvEvents>>
      BY <2>1, CommandFacts DEF SendCommand, Commands
    <3>2. notified' \in [Commands -> Results \cup {Broken, TimedOut, "written"}]
      BY <2>1, CommandFacts DEF SendCommand
    <3>3. /\ toWriter' \in Seq([id : Commands, async : BOOLEAN])
          /\ controllerAt' \in {"down", "runtime", "connect", "ready", "waiting", "closing"}
      <4>1. [id |-> sent', async |-> async] \in [id : Commands, async : BOOLEAN]
        BY <3>1
      <4>2. \/ UNCHANGED <<toWriter, controllerAt>>
            \/ toWriter' = Append(toWriter, [id |-> sent', async |-> async]) /\ controllerAt' = "waiting"
        BY <2>1 DEF SendCommand
      <4>3. toWriter \in Seq([id : Commands, async : BOOLEAN])
        BY CommandFacts
      <4>4. toWriter' \in Seq([id : Commands, async : BOOLEAN])
        <5> DEFINE Sent == [id : Commands, async : BOOLEAN]
        <5> HIDE DEF Sent
        <5>1. [id |-> sent', async |-> async] \in Sent /\ toWriter \in Seq(Sent)
          BY <4>1, <4>3 DEF Sent
        <5>2. toWriter' \in Seq(Sent)
          BY <4>2, <5>1
        <5> QED
          BY <5>2 DEF Sent
      <4> QED
        BY <1>0, <4>2, <4>4
    <3>4. sent' \in 0 .. MaxCommands
      BY <3>1, CommandFacts DEF Commands
    <3> QED
      BY <1>0, <3>1, <3>2, <3>3, <3>4 DEF IpcTypeOK, connections
  <2>2. CASE AnswerReceived
    <3>1. notified' \in [Commands -> Results \cup {Broken, TimedOut, "written"}]
      BY <2>2, CommandFacts DEF AnswerReceived, IpcQueue
    <3> QED
      BY <1>0, <2>2, <3>1 DEF AnswerReceived, IpcTypeOK, connections, writer
  <2>3. CASE AnswerTimesOut
    <3>1. notified' \in [Commands -> Results \cup {Broken, TimedOut, "written"}]
      BY <2>3, CommandFacts DEF AnswerTimesOut, IpcQueue
    <3>2. writerAlive' \in BOOLEAN
      BY <2>3 DEF AnswerTimesOut, Poisoned
    <3> QED
      BY <1>0, <2>3, <3>1, <3>2 DEF AnswerTimesOut, IpcTypeOK, connections
  <2> QED
    BY <1>2, <2>1, <2>2, <2>3 DEF SendStep
<1>3. CASE ExchangeStep
  <2>1. CASE TakeCommand
    <3>1. /\ toWriter # << >> /\ toWriter' = Tail(toWriter) /\ Head(toWriter).id = sent /\ sent # 0
      BY <2>1, CommandFacts DEF TakeCommand, IpcQueue
    <3>2. toWriter' \in Seq([id : Commands, async : BOOLEAN])
      BY <3>1, CommandFacts
    <3>3. /\ ack' \in [Commands -> Results \cup {Broken, "written"}]
          /\ executing' \subseteq Commands /\ writing' \in 0 .. MaxCommands
      BY <1>0, <2>1, <3>1, CommandFacts DEF TakeCommand
    <3>4. /\ writerAt' \in {"none", "idle", "waiting", "ended"}
          /\ writerAlive' \in BOOLEAN /\ commandOpen' \in BOOLEAN
      BY <1>0, <2>1 DEF TakeCommand, EndWriter
    <3> QED
      BY <1>0, <2>1, <3>2, <3>3, <3>4 DEF TakeCommand, IpcTypeOK
  <2>2. CASE ReadLine
    <3>1. /\ line # << >> /\ line' = Tail(line) /\ writing = sent /\ sent # 0
      BY <2>2 DEF ReadLine, IpcQueue
    <3>2. line' \in Seq([of : 0 .. MaxCommands, result : Results]) /\ Head(line).result \in Results
      <4>0. line \in Seq([of : 0 .. MaxCommands, result : Results])
        BY CommandFacts
      <4>1. Head(line) \in [of : 0 .. MaxCommands, result : Results]
        <5> DEFINE Line == [of : 0 .. MaxCommands, result : Results]
        <5> HIDE DEF Line
        <5>1. line \in Seq(Line)
          BY <4>0 DEF Line
        <5>2. Head(line) \in Line
          BY <3>1, <5>1
        <5> QED
          BY <5>2 DEF Line
      <4> QED
        BY <3>1, <4>1, CommandFacts
    <3>3. ack' \in [Commands -> Results \cup {Broken, "written"}]
      BY <2>2, <3>1, <3>2, CommandFacts DEF ReadLine
    <3>4. writerAt' \in {"none", "idle", "waiting", "ended"}
      BY <1>0, <2>2 DEF ReadLine
    <3> QED
      BY <1>0, <2>2, <3>2, <3>3, <3>4 DEF ReadLine, IpcTypeOK, connections
  <2>3. CASE ReadFails
    <3>1. ack' \in [Commands -> Results \cup {Broken, "written"}]
      BY <2>3, CommandFacts DEF ReadFails, IpcQueue
    <3> QED
      BY <1>0, <2>3, <3>1 DEF ReadFails, EndWriter, IpcTypeOK
  <2>4. ASSUME NEW c \in Commands, MpvReplies(c) PROVE IpcTypeOK'
    <3>1. PICK result \in MpvAnswers :
            answered' = [answered EXCEPT ![c] = result] /\ line' = Append(line, [of |-> c, result |-> result])
      BY <2>4 DEF MpvReplies, MpvAnswers
    <3>2. /\ answered' \in [Commands -> Results]
          /\ line' \in Seq([of : 0 .. MaxCommands, result : Results])
      BY <3>1, CommandFacts DEF Commands
    <3> QED
      BY <1>0, <2>4, <3>2 DEF MpvReplies, IpcTypeOK, connections, writer
  <2>5. CASE MpvEvent
    <3>1. /\ line' \in Seq([of : 0 .. MaxCommands, result : Results])
          /\ mpvEvents' \in 0 .. MaxMpvEvents
      BY <1>0, <2>5, CommandFacts DEF MpvEvent
    <3> QED
      BY <1>0, <2>5, <3>1 DEF MpvEvent, IpcTypeOK, connections, writer
  <2> QED
    BY <1>3, <2>1, <2>2, <2>3, <2>4, <2>5 DEF ExchangeStep
<1>4. CASE UNCHANGED ipcVars
  BY <1>0, <1>4 DEF ipcVars, IpcTypeOK
<1> QED
  BY <1>1, <1>2, <1>3, <1>4, IpcSteps

\* Having mpv and giving it back.
LEMMA IpcLifeStep ==
  ASSUME IpcTypeOK, IpcLife, IpcQueue, [IpcNext]_ipcVars
  PROVE  IpcLife'
<1>1. CASE HaveStep
  <2>1. /\ handle' = "none" => controllerAt' = "down"
        /\ controllerAt' = "runtime" => handle' = "configured"
        /\ controllerAt' = "closing" => handle' = "destroyed"
        /\ controllerAt' = "down" => handle' \in {"none", "destroyed"}
    BY <1>1 DEF HaveStep, CreateRuntime, InitializeRuntime, ConnectIpc, ConnectFails, GiveUp, MpvDies,
       ResetMpv, WriterEnds, ReaderEnds, Joined, Stopped, StopFirst, MpvUp, IpcLife, NoMpvLeft
  <2>2. /\ handle' = "none" => handle = "none" /\ UNCHANGED writerAt
        /\ controllerAt' \in {"runtime", "connect"} =>
             (handle = "none" \/ controllerAt \in {"runtime", "connect"}) /\ UNCHANGED writerAt
    BY <1>1 DEF HaveStep, CreateRuntime, InitializeRuntime, ConnectIpc, ConnectFails, GiveUp, MpvDies,
       ResetMpv, WriterEnds, ReaderEnds, Joined, Stopped, StopFirst, MpvUp, writer, IpcLife
  <2> QED
    BY <1>1, <2>1, <2>2, HavingKeeps DEF IpcLife, NoMpvLeft
<1>2. CASE SendStep
  <2>1. handle' = handle /\ controllerAt \in {"ready", "waiting"} /\ controllerAt' \in {"ready", "waiting"}
    BY <1>2 DEF SendStep, SendCommand, AnswerReceived, AnswerTimesOut
  <2> QED
    BY <2>1 DEF IpcLife, NoMpvLeft
<1>3. CASE ExchangeStep
  <2>1. UNCHANGED <<handle, controllerAt, sent>>
    BY <1>3 DEF ExchangeStep, TakeCommand, ReadLine, ReadFails, MpvReplies, MpvEvent
  <2>2. toWriter = << >> /\ writerAt = "none" => UNCHANGED <<toWriter, writerAt>>
    BY <1>3 DEF ExchangeStep, TakeCommand, ReadLine, ReadFails, MpvReplies, MpvEvent, writer
  <2> QED
    BY <2>1, <2>2 DEF IpcLife, NoMpvLeft
<1> QED
  BY <1>1, <1>2, <1>3, IpcSteps DEF ipcVars, IpcLife, NoMpvLeft

\* One command at a time.
LEMMA IpcQueueStep ==
  ASSUME IpcTypeOK, IpcLife, IpcQueue, [IpcNext]_ipcVars
  PROVE  IpcQueue'
<1>1. CASE HaveStep
  <2>1. UNCHANGED <<toWriter, writing, ack, answered, sent>> /\ executing' \subseteq executing
    BY <1>1, HavingKeeps
  <2>2. controllerAt' = "waiting" => controllerAt = "waiting"
    BY <1>1 DEF HaveStep, CreateRuntime, InitializeRuntime, ConnectIpc, ConnectFails, GiveUp, MpvDies,
       ResetMpv, WriterEnds, ReaderEnds, Joined
  <2>3. writerAt' = "waiting" => writerAt = "waiting"
    BY <1>1 DEF HaveStep, CreateRuntime, InitializeRuntime, ConnectIpc, ConnectFails, GiveUp, MpvDies,
       ResetMpv, WriterEnds, ReaderEnds, Joined, EndWriter, writer
  <2>4. \/ ConnectIpc /\ toWriter = << >> /\ writerAt' = "idle"
        \/ controllerAt' = "ready" /\ writerAlive' => controllerAt = "ready" /\ writerAlive
    BY <1>1 DEF HaveStep, CreateRuntime, InitializeRuntime, ConnectIpc, ConnectFails, GiveUp, MpvDies,
       ResetMpv, WriterEnds, ReaderEnds, Joined, EndWriter, writer, IpcLife
  <2> QED
    BY <2>1, <2>2, <2>3, <2>4 DEF IpcQueue, Untaken
<1>2. CASE SendStep
  <2>1. UNCHANGED <<writing, ack, answered, executing, writerAt>>
    BY <1>2 DEF SendStep, SendCommand, AnswerReceived, AnswerTimesOut, writer
  <2>2. ASSUME NEW async \in BOOLEAN, SendCommand(async) PROVE IpcQueue'
    <3>1. /\ controllerAt = "ready" /\ writerAlive /\ sent' = sent + 1 /\ sent' \in Commands
          /\ toWriter = << >> /\ writerAt # "waiting"
      BY <2>2, CommandFacts DEF SendCommand, Accepts, Commands, IpcQueue
    <3>2. /\ sent' \notin executing' /\ answered'[sent'] = Nothing /\ ack'[sent'] = Nothing
          /\ \A c \in Commands : c > sent' => Untaken(c)'
      <4>1. sent \in Nat
        BY CommandFacts
      <4>2. Untaken(sent') /\ \A c \in Commands : c > sent' => Untaken(c)
        BY <3>1, <4>1, CommandFacts DEF IpcQueue
      <4> QED
        BY <2>1, <4>2 DEF Untaken
    <3>3. \/ toWriter' = Append(<< >>, [id |-> sent', async |-> async]) /\ controllerAt' = "waiting"
          \/ toWriter' = << >>
      BY <2>2, <3>1 DEF SendCommand
    <3>4. toWriter' # << >> => Len(toWriter') = 1 /\ toWriter'[1].id = sent'
      BY <3>3
    <3>5. sent' # 0
      BY <3>1, CommandFacts
    <3>6. toWriter' # << >> => controllerAt' = "waiting"
      BY <3>3
    <3> QED
      BY <2>1, <3>1, <3>2, <3>4, <3>5, <3>6 DEF IpcQueue, Untaken
  <2>3. CASE AnswerReceived
    <3>1. /\ controllerAt = "waiting" /\ ack[sent] # Nothing /\ UNCHANGED <<toWriter, sent, writerAlive>>
      BY <2>3 DEF AnswerReceived, writer
    <3>2. toWriter = << >> /\ writerAt # "waiting"
      BY <3>1 DEF IpcQueue, Untaken
    <3> QED
      BY <2>1, <2>3, <3>1, <3>2 DEF IpcQueue, Untaken, AnswerReceived
  <2>4. CASE AnswerTimesOut
    BY <2>1, <2>4 DEF AnswerTimesOut, Poisoned, IpcQueue, Untaken
  <2> QED
    BY <1>2, <2>2, <2>3, <2>4 DEF SendStep
<1>3. CASE ExchangeStep
  <2>1. UNCHANGED <<controllerAt, sent>>
    BY <1>3 DEF ExchangeStep, TakeCommand, ReadLine, ReadFails, MpvReplies, MpvEvent
  <2>2. CASE TakeCommand
    <3>1. /\ toWriter # << >> /\ toWriter' = Tail(toWriter) /\ Head(toWriter).id = sent /\ sent # 0
          /\ Len(toWriter) = 1 /\ Untaken(sent) /\ sent \in Commands
      BY <2>2, CommandFacts DEF TakeCommand, IpcQueue
    <3>2. toWriter' = << >>
      <4>1. toWriter \in Seq([id : Commands, async : BOOLEAN])
        BY CommandFacts
      <4>2. Len(Tail(toWriter)) = 0 /\ Tail(toWriter) \in Seq([id : Commands, async : BOOLEAN])
        BY <3>1, <4>1
      <4> QED
        BY <3>1, <4>2
    <3>3. \A c \in Commands : c > sent => Untaken(c)'
      BY <2>1, <2>2, <3>1, CommandFacts DEF TakeCommand, IpcQueue, Untaken
    <3>4. /\ writerAt' = "waiting" => writing' = sent /\ ack' = ack
          /\ controllerAt' = "ready" => ~writerAlive'
      BY <2>1, <2>2, <3>1 DEF TakeCommand, EndWriter, IpcQueue
    <3> QED
      BY <2>1, <3>1, <3>2, <3>3, <3>4 DEF IpcQueue, Untaken
  <2>3. CASE ReadLine \/ ReadFails
    <3>1. /\ writerAt = "waiting" /\ toWriter = << >> /\ writing = sent /\ sent \in Commands
          /\ (controllerAt = "ready" => ~writerAlive)
      BY <2>3, CommandFacts DEF ReadLine, ReadFails, IpcQueue
    <3>2. /\ UNCHANGED <<toWriter, executing, answered, writing>> /\ (writerAlive' => writerAlive)
          /\ \A c \in Commands \ {sent} : ack'[c] = ack[c]
      BY <2>3, <3>1, CommandFacts DEF ReadLine, ReadFails, EndWriter
    <3>3. writerAt' = "waiting" => ack' = ack
      BY <2>3 DEF ReadLine, ReadFails, EndWriter
    <3>4. \A c \in Commands : c > sent => Untaken(c)'
      BY <3>1, <3>2, CommandFacts DEF IpcQueue, Untaken
    <3> QED
      BY <2>1, <3>1, <3>2, <3>3, <3>4 DEF IpcQueue
  <2>4. ASSUME NEW c \in Commands, MpvReplies(c) PROVE IpcQueue'
    <3>1. /\ c \in executing /\ executing' \subseteq executing /\ UNCHANGED <<writer, ack>>
          /\ \A d \in Commands \ {c} : answered'[d] = answered[d]
      BY <2>4, CommandFacts DEF MpvReplies
    <3>2. \A d \in Commands : Untaken(d) => Untaken(d)'
      BY <3>1 DEF Untaken
    <3> QED
      BY <2>1, <3>1, <3>2, CommandFacts DEF IpcQueue, writer
  <2>5. CASE MpvEvent
    BY <2>1, <2>5 DEF MpvEvent, IpcQueue, Untaken, writer
  <2> QED
    BY <1>3, <2>2, <2>3, <2>4, <2>5 DEF ExchangeStep
<1> QED
  BY <1>1, <1>2, <1>3, IpcSteps DEF ipcVars, IpcQueue, Untaken

\* What is on its way is what mpv answered.
LEMMA IpcAnswersStep ==
  ASSUME IpcTypeOK, IpcLife, IpcQueue, IpcAnswers, [IpcNext]_ipcVars
  PROVE  IpcAnswers'
<1>1. CASE HaveStep
  BY <1>1, HavingKeeps DEF IpcAnswers, RepliesAreOwn
<1>2. CASE SendStep
  <2>1. UNCHANGED <<ack, line, executing, answered>>
    BY <1>2 DEF SendStep, SendCommand, AnswerReceived, AnswerTimesOut
  <2>2. ASSUME NEW c \in Commands, notified'[c] \in MpvAnswers PROVE answered[c] = notified'[c]
    <3>1. CASE notified'[c] = notified[c]
      BY <2>2, <3>1 DEF IpcAnswers, RepliesAreOwn, MpvAnswers
    <3>2. CASE AnswerReceived /\ c = sent
      <4>1. notified'[c] = ack[c]
        BY <3>2, CommandFacts DEF AnswerReceived
      <4> QED
        BY <2>2, <4>1 DEF IpcAnswers
    <3>3. notified'[c] = notified[c] \/ (AnswerReceived /\ c = sent)
      BY <1>2, <2>2, CommandFacts DEF SendStep, SendCommand, AnswerReceived, AnswerTimesOut
    <3> QED
      BY <3>1, <3>2, <3>3
  <2> QED
    BY <2>1, <2>2 DEF IpcAnswers, RepliesAreOwn, MpvAnswers
<1>3. CASE ExchangeStep
  <2>1. UNCHANGED notified
    BY <1>3 DEF ExchangeStep, TakeCommand, ReadLine, ReadFails, MpvReplies, MpvEvent
  <2>2. CASE TakeCommand
    <3>1. /\ Head(toWriter).id = sent /\ sent \in Commands /\ answered[sent] = Nothing
          /\ UNCHANGED <<line, answered>>
      BY <2>2, CommandFacts DEF TakeCommand, IpcQueue, Untaken
    <3>2. executing' \subseteq executing \cup {sent}
      BY <2>2, <3>1 DEF TakeCommand
    <3>3. \A c \in Commands : ack'[c] = ack[c] \/ ack'[c] \notin MpvAnswers
      BY <2>2, <3>1, CommandFacts DEF TakeCommand
    <3> QED
      BY <2>1, <3>1, <3>2, <3>3 DEF IpcAnswers, RepliesAreOwn
  <2>3. CASE ReadLine
    <3>1. /\ line # << >> /\ line' = Tail(line) /\ writing = sent /\ sent \in Commands
          /\ UNCHANGED <<executing, answered>>
          /\ ack' = ack \/ (Head(line).of = sent /\ ack' = [ack EXCEPT ![sent] = Head(line).result])
      BY <2>3, CommandFacts DEF ReadLine, IpcQueue, IsReply
    <3>2. \A i \in 1 .. Len(line') : line'[i] = line[i + 1] /\ i + 1 \in 1 .. Len(line)
      BY <3>1, CommandFacts
    <3>3. Head(line) = line[1] /\ 1 \in 1 .. Len(line)
      BY <3>1, CommandFacts
    <3>4. Head(line).of = sent => Head(line).result = answered[sent]
      BY <3>1, <3>3, CommandFacts DEF IpcAnswers
    <3>5. \A c \in Commands : ack'[c] \in MpvAnswers => answered[c] = ack'[c]
      BY <3>1, <3>4, CommandFacts DEF IpcAnswers
    <3>6. \A i \in 1 .. Len(line') : line'[i].of # 0 =>
            line'[i].result \in MpvAnswers /\ answered[line'[i].of] = line'[i].result
      BY <3>2 DEF IpcAnswers
    <3> QED
      BY <2>1, <3>1, <3>5, <3>6 DEF IpcAnswers, RepliesAreOwn
  <2>4. CASE ReadFails
    <3>1. UNCHANGED <<line, executing, answered>> /\ \A c \in Commands : ack'[c] \in {ack[c], Broken}
      BY <2>4, CommandFacts DEF ReadFails
    <3> QED
      BY <2>1, <3>1, CommandFacts DEF IpcAnswers, RepliesAreOwn
  <2>5. ASSUME NEW c \in Commands, MpvReplies(c) PROVE IpcAnswers'
    <3>1. PICK result \in MpvAnswers :
            answered' = [answered EXCEPT ![c] = result] /\ line' = Append(line, [of |-> c, result |-> result])
      BY <2>5 DEF MpvReplies, MpvAnswers
    <3>2. c \in executing /\ executing' = executing \ {c} /\ answered[c] = Nothing /\ UNCHANGED ack
      BY <2>5 DEF MpvReplies, IpcAnswers
    <3>3. /\ \A d \in Commands \ {c} : answered'[d] = answered[d]
          /\ answered'[c] = result
      BY <3>1, CommandFacts
    <3>4. /\ ack[c] \notin MpvAnswers /\ notified[c] \notin MpvAnswers
          /\ \A i \in 1 .. Len(line) : line[i].of # 0 => line[i].of # c
      BY <3>2, CommandFacts DEF IpcAnswers, RepliesAreOwn, MpvAnswers
    <3>5. \A i \in 1 .. Len(line) : line[i] \in [of : 0 .. MaxCommands, result : Results]
      <4> DEFINE Line == [of : 0 .. MaxCommands, result : Results]
      <4>1. line \in Seq(Line)
        BY CommandFacts
      <4> HIDE DEF Line
      <4>2. \A i \in 1 .. Len(line) : line[i] \in Line
        BY <4>1
      <4> QED
        BY <4>2 DEF Line
    <3>6. /\ Len(line') = Len(line) + 1 /\ line'[Len(line) + 1] = [of |-> c, result |-> result]
          /\ \A i \in 1 .. Len(line) : line'[i] = line[i]
          /\ Len(line) \in Nat
      BY <3>1, CommandFacts
    <3>7. ASSUME NEW i \in 1 .. Len(line'), line'[i].of # 0
          PROVE  line'[i].result \in MpvAnswers /\ answered'[line'[i].of] = line'[i].result
      <4>1. CASE i = Len(line) + 1
        BY <3>1, <3>3, <3>6, <4>1
      <4>2. CASE i \in 1 .. Len(line)
        <5>1. line[i].of \in Commands \ {c}
          BY <3>4, <3>5, <3>6, <3>7, <4>2, CommandFacts DEF Commands
        <5> QED
          BY <3>3, <3>6, <3>7, <4>2, <5>1 DEF IpcAnswers
      <4> QED
        BY <3>6, <4>1, <4>2
    <3>8. \A d \in executing' : answered'[d] = Nothing
      BY <3>2, <3>3, CommandFacts DEF IpcAnswers
    <3>9. \A d \in Commands : /\ ack'[d] \in MpvAnswers => answered'[d] = ack'[d]
                              /\ notified'[d] \in MpvAnswers => answered'[d] = notified'[d]
      BY <2>1, <3>2, <3>3, <3>4 DEF IpcAnswers, RepliesAreOwn, MpvAnswers
    <3> QED
      BY <3>7, <3>8, <3>9 DEF IpcAnswers, RepliesAreOwn, MpvAnswers
  <2>6. CASE MpvEvent
    <3>1. line' = Append(line, [of |-> 0, result |-> Nothing]) /\ UNCHANGED <<ack, executing, answered>>
      BY <2>6 DEF MpvEvent
    <3>2. \A i \in 1 .. Len(line') : line'[i].of = 0 \/ (i \in 1 .. Len(line) /\ line'[i] = line[i])
      BY <3>1, CommandFacts
    <3> QED
      BY <2>1, <3>1, <3>2 DEF IpcAnswers, RepliesAreOwn
  <2> QED
    BY <1>3, <2>2, <2>3, <2>4, <2>5, <2>6 DEF ExchangeStep
<1> QED
  BY <1>1, <1>2, <1>3, IpcSteps DEF ipcVars, IpcAnswers, RepliesAreOwn

\* Only the last command can have missed its reply.
LEMMA IpcTimeoutsStep ==
  ASSUME IpcTypeOK, IpcLife, IpcQueue, IpcTimeouts, [IpcNext]_ipcVars
  PROVE  IpcTimeouts'
<1>1. CASE HaveStep
  <2>1. UNCHANGED <<notified, sent>> /\ (writerAlive' => writerAlive \/ sent = 0)
    BY <1>1, HavingKeeps DEF HaveStep, CreateRuntime, InitializeRuntime, ConnectIpc, ConnectFails, GiveUp,
       MpvDies, ResetMpv, WriterEnds, ReaderEnds, Joined, EndWriter, writer, IpcLife
  <2> QED
    BY <2>1, CommandFacts DEF IpcTimeouts
<1>2. CASE SendStep
  <2>1. ASSUME NEW async \in BOOLEAN, SendCommand(async) PROVE IpcTimeouts'
    BY <2>1, CommandFacts DEF SendCommand, Accepts, IpcTimeouts
  <2>2. CASE AnswerReceived
    BY <2>2, CommandFacts DEF AnswerReceived, IpcTimeouts, writer, IpcQueue
  <2>3. CASE AnswerTimesOut
    BY <2>3, CommandFacts DEF AnswerTimesOut, Poisoned, IpcTimeouts
  <2> QED
    BY <1>2, <2>1, <2>2, <2>3 DEF SendStep
<1>3. CASE ExchangeStep
  BY <1>3 DEF ExchangeStep, TakeCommand, ReadLine, ReadFails, MpvReplies, MpvEvent, EndWriter, writer, IpcTimeouts
<1> QED
  BY <1>1, <1>2, <1>3, IpcSteps DEF ipcVars, IpcTimeouts

LEMMA IpcInitially == IpcInit => IpcInv
<1> SUFFICES ASSUME IpcInit PROVE IpcInv
  OBVIOUS
<1>1. /\ MaxCommands \in Nat /\ MaxMpvEvents \in Nat /\ MaxAttempts \in Nat
      /\ Nothing \in Results /\ Nothing \notin MpvAnswers /\ TimedOut # Nothing
  BY MpvIpcAssumption DEF Results, MpvAnswers, Nothing, TimedOut
<1>2. readerOpen \in BOOLEAN /\ commandOpen \in BOOLEAN /\ writerAlive \in BOOLEAN
  BY Zenon DEF IpcInit
<1>3. IpcTypeOK
  BY <1>1, <1>2 DEF IpcInit, IpcTypeOK
<1>4. IpcLife /\ IpcQueue
  BY <1>1 DEF IpcInit, IpcLife, NoMpvLeft, IpcQueue, Untaken, Commands
<1>5. IpcAnswers /\ IpcTimeouts
  BY <1>1 DEF IpcInit, IpcAnswers, RepliesAreOwn, IpcTimeouts, MpvAnswers
<1> QED
  BY <1>3, <1>4, <1>5 DEF IpcInv

LEMMA IpcInvStep == IpcInv /\ [IpcNext]_ipcVars => IpcInv'
BY IpcTypesStep, IpcLifeStep, IpcQueueStep, IpcAnswersStep, IpcTimeoutsStep DEF IpcInv

LEMMA IpcTruth == IpcInv => RepliesAreOwn /\ NothingAfterTimeout /\ NoMpvLeft
<1>1. IpcInv => RepliesAreOwn /\ NoMpvLeft
  BY DEF IpcInv, IpcAnswers, IpcLife
<1>2. IpcInv => NothingAfterTimeout
  BY CommandFacts DEF IpcInv, IpcQueue, IpcTimeouts, Untaken, NothingAfterTimeout
<1> QED
  BY <1>1, <1>2

\* The runtime, the threads, the commands and the replies keep their types (mpv/ipc.rs,
\* mpv/runtime.rs).
THEOREM IpcTypes == IpcSpec => []IpcTypeOK
<1>1. IpcInv => IpcTypeOK
  BY DEF IpcInv
<1> QED
  BY <1>1, IpcInitially, IpcInvStep, PTL DEF IpcSpec

(* Whatever times out or comes late, the controller is told of a command what mpv        *)
(* answered to that command, nothing reaches mpv over a worker that missed a reply, and  *)
(* while the controller has no mpv none runs (send_with_timeout, write_commands,          *)
(* reset_mpv).                                                                           *)
THEOREM ConnectionTellsTheTruth == IpcSpec => [](RepliesAreOwn /\ NothingAfterTimeout /\ NoMpvLeft)
BY IpcTruth, IpcInitially, IpcInvStep, PTL DEF IpcSpec

-----------------------------------------------------------------------------------
(* Franchises.  *)
(* What counts as resolved is on display, for any movies, franchises and threads        *)
(* (Franchises).  A resolution replaces all that is shown, so it must have asked for     *)
(* every franchise of the movies that count as resolved when it commits (PlansCover);     *)
(* no movie is resolved while it asks, because it holds the account's only flight         *)
(* (OneFlight); and a movie that comes into the library meanwhile has either not been     *)
(* resolved or been there before (FreshWereOwned).                                     *)

Asks(t) == plan[t] # << >>
OneFlight == \A t \in Threads : Asks(t) => flights = {t}
FreshWereOwned ==
  /\ fresh \subseteq owned \cup returned
  /\ \A t \in Threads : Asks(t) => plan[t].stale \subseteq owned \cup returned
PlansCover ==
  \A t \in Threads : Asks(t) =>
    \A m \in (owned \cap fresh) \ returned : Franchise[m] \in FranchisesOf(plan[t])
ResolvedIsShown == \A m \in (owned \cap fresh) \ returned : Franchise[m] \in shown
FranchisesInv == FranchisesTypeOK /\ OneFlight /\ FreshWereOwned /\ PlansCover /\ ResolvedIsShown

LEMMA FranchisesInitially == FranchisesInit => FranchisesInv
<1> SUFFICES ASSUME FranchisesInit
             PROVE  FranchisesInv
  OBVIOUS
<1>1. \A t \in Threads : ~Asks(t)
  BY DEF FranchisesInit, Asks
<1>2. FranchisesTypeOK
  BY FranchisesAssumption DEF FranchisesInit, FranchisesTypeOK
<1> QED
  BY <1>1, <1>2 DEF FranchisesInit, FranchisesInv, OneFlight, FreshWereOwned, PlansCover,
     ResolvedIsShown

\* A plan that is asked for is one.
LEMMA PlanTypes ==
  ASSUME FranchisesTypeOK, NEW t \in Threads, Asks(t)
  PROVE  /\ plan[t] \in Plans
         /\ FranchisesOf(plan[t]) \subseteq {Franchise[m] : m \in Movies}
<1>1. plan[t] \in Plans
  BY DEF FranchisesTypeOK, Asks
<1>2. plan[t].stale \subseteq Movies /\ plan[t].known \subseteq {Franchise[m] : m \in Movies}
  BY <1>1 DEF Plans
<1> QED
  BY <1>1, <1>2 DEF FranchisesOf

\* A resolution begins: what it asks for covers what is resolved.
LEMMA StartKeeps ==
  ASSUME FranchisesInv, NEW t \in Threads, StartResolution(t)
  PROVE  FranchisesInv'
<1> USE DEF FranchisesInv, FranchisesTypeOK
<1>1. flights = {} /\ \A u \in Threads : ~Asks(u)
  BY DEF StartResolution, MayFly, OneFlight
<1>2. plan' = [plan EXCEPT ![t] = Planned] /\ flights' = {t}
  BY <1>1 DEF StartResolution
<1>3. UNCHANGED <<owned, fresh, shown, aged, libraryChanges, returned>>
  BY DEF StartResolution
<1>4. /\ Planned.stale = owned \ fresh /\ Planned.known = {Franchise[m] : m \in owned \cap fresh}
      /\ Planned \in Plans
  BY DEF Planned, Plans
<1>5. FranchisesTypeOK'
  BY <1>2, <1>3, <1>4
<1>6. \A u \in Threads : Asks(u)' => u = t /\ plan'[u] = Planned
  BY <1>1, <1>2 DEF Asks
<1>7. OneFlight'
  BY <1>2, <1>6 DEF OneFlight
<1>8. FreshWereOwned'
  BY <1>3, <1>4, <1>6 DEF FreshWereOwned
<1>9. PlansCover'
  <2> SUFFICES ASSUME NEW m \in (owned \cap fresh) \ returned
               PROVE  Franchise[m] \in FranchisesOf(Planned)
    BY <1>3, <1>6 DEF PlansCover
  <2> QED
    BY <1>4 DEF FranchisesOf
<1> QED
  BY <1>3, <1>5, <1>7, <1>8, <1>9 DEF ResolvedIsShown

\* A resolution ends: nobody asks any more, and what is shown is what was asked for.
LEMMA EndKeeps ==
  ASSUME FranchisesInv, NEW t \in Threads, CommitResolution(t) \/ ResolutionFails(t)
  PROVE  FranchisesInv'
<1> USE DEF FranchisesInv, FranchisesTypeOK
<1>1. Asks(t) /\ Land(t) /\ UNCHANGED <<owned, aged, libraryChanges, returned>>
  BY DEF CommitResolution, ResolutionFails, Asks
<1>2. \A u \in Threads : ~Asks(u)'
  BY <1>1 DEF Land, Asks, OneFlight
<1>3. plan[t] \in Plans /\ FranchisesOf(plan[t]) \subseteq {Franchise[m] : m \in Movies}
      /\ plan[t].stale \subseteq Movies
  BY <1>1, PlanTypes DEF Plans
<1>4. \/ fresh' = fresh \cup plan[t].stale /\ shown' = FranchisesOf(plan[t])
      \/ fresh' = fresh /\ shown' = shown
  BY DEF CommitResolution, ResolutionFails
<1>5. FranchisesTypeOK'
  BY <1>1, <1>3, <1>4 DEF Land
<1>6. OneFlight' /\ PlansCover' /\ FreshWereOwned'
  BY <1>1, <1>2, <1>4 DEF OneFlight, PlansCover, FreshWereOwned
<1>7. ResolvedIsShown'
  <2>1. CASE fresh' = fresh /\ shown' = shown
    BY <1>1, <2>1 DEF ResolvedIsShown
  <2>2. CASE fresh' = fresh \cup plan[t].stale /\ shown' = FranchisesOf(plan[t])
    <3>1. \A m \in plan[t].stale : Franchise[m] \in FranchisesOf(plan[t])
      BY DEF FranchisesOf
    <3>2. \A m \in (owned \cap fresh) \ returned : Franchise[m] \in FranchisesOf(plan[t])
      BY <1>1 DEF PlansCover
    <3> QED
      BY <1>1, <2>2, <3>1, <3>2 DEF ResolvedIsShown
  <2> QED
    BY <1>4, <2>1, <2>2
<1> QED
  BY <1>5, <1>6, <1>7

\* A membership gets old, or a movie comes or goes.
LEMMA LibraryKeeps ==
  ASSUME FranchisesInv, NEW m \in Movies, Age(m) \/ LibraryChanges(m)
  PROVE  FranchisesInv'
<1> USE DEF FranchisesInv, FranchisesTypeOK
<1>1. UNCHANGED <<shown, flights, plan>>
  BY DEF Age, LibraryChanges
<1>2. FranchisesTypeOK'
  BY <1>1, FranchisesAssumption DEF Age, LibraryChanges
<1>3. owned \cup returned \subseteq owned' \cup returned' /\ fresh' \subseteq fresh
  BY DEF Age, LibraryChanges
<1>4. (owned' \cap fresh') \ returned' \subseteq (owned \cap fresh) \ returned
  <2>1. CASE Age(m)
    BY <2>1 DEF Age
  <2>2. CASE LibraryChanges(m)
    BY <2>2 DEF LibraryChanges, FreshWereOwned
  <2> QED
    BY <2>1, <2>2
<1>5. OneFlight' /\ FreshWereOwned'
  BY <1>1, <1>3 DEF OneFlight, FreshWereOwned, Asks
<1>6. PlansCover' /\ ResolvedIsShown'
  BY <1>1, <1>4 DEF PlansCover, ResolvedIsShown, Asks
<1> QED
  BY <1>2, <1>5, <1>6

LEMMA FranchisesStep == FranchisesInv /\ [FranchisesNext]_franchiseVars => FranchisesInv'
<1> SUFFICES ASSUME FranchisesInv, [FranchisesNext]_franchiseVars
             PROVE  FranchisesInv'
  OBVIOUS
<1>1. CASE UNCHANGED franchiseVars
  BY <1>1 DEF franchiseVars, FranchisesInv, FranchisesTypeOK, OneFlight, FreshWereOwned,
     PlansCover, ResolvedIsShown, Asks
<1>2. CASE FranchisesNext
  BY <1>2, StartKeeps, EndKeeps, LibraryKeeps DEF FranchisesNext
<1> QED
  BY <1>1, <1>2

(* What is owned, resolved and shown are movies and their franchises, and each thread's  *)
(* plan is one (franchise_resolution_plan).                                             *)
THEOREM FranchisesTypes == FranchisesSpec => []FranchisesTypeOK
<1>1. FranchisesInv => FranchisesTypeOK
  BY DEF FranchisesInv
<1> QED
  BY <1>1, FranchisesInitially, FranchisesStep, PTL DEF FranchisesSpec

(* A movie that stays in the library and counts as resolved has its franchise on        *)
(* display, whoever resolves and however the library changes meanwhile: what            *)
(* FranchisesAreShown says of every state (commit_franchise_resolution).                *)
THEOREM ResolvedStaysShown == FranchisesSpec => []ResolvedIsShown
<1>1. FranchisesInv => ResolvedIsShown
  BY DEF FranchisesInv
<1> QED
  BY <1>1, FranchisesInitially, FranchisesStep, PTL DEF FranchisesSpec

-----------------------------------------------------------------------------------
(* Calendar.  *)
(* A source is marked stale exactly while entries of it are shown that its last refresh   *)
(* did not bring, for any number of clients, outages and interruptions (Calendar): the    *)
(* mark of a failure is taken from the mark before (EverRefreshed), which says whether    *)
(* anything was ever listed.  And one client at a time refreshes, the one at the gate's    *)
(* inside, although each may go away at any moment.                                     *)

OneRefresh ==
  \A c \in CalendarClients : calendarClient[c] \in {"sonarr", "radarr"} <=> calendarGate = c
CalendarInv == CalendarTypeOK /\ StaleIsMarked /\ OneRefresh

LEMMA CalendarInitially == CalendarInit => CalendarInv
<1> SUFFICES ASSUME CalendarInit
             PROVE  CalendarInv
  OBVIOUS
<1> USE CalendarAssumption DEF CalendarInit
<1>1. CalendarTypeOK
  BY DEF CalendarTypeOK, NeverListed, Unknown, Ages
<1>2. StaleIsMarked
  BY DEF StaleIsMarked, Unknown, NeverListed
<1>3. OneRefresh
  BY DEF OneRefresh
<1> QED
  BY <1>1, <1>2, <1>3 DEF CalendarInv

\* What a refresh of a source does to what is known of it.
LEMMA RefreshMarks ==
  ASSUME CalendarTypeOK, StaleIsMarked, NEW s \in CalendarSources, RefreshSource(s)
  PROVE  /\ listed' \in [CalendarSources -> NeverListed .. MaxListings + 1]
         /\ status' \in [CalendarSources ->
              [known : BOOLEAN, enabled : BOOLEAN, available : BOOLEAN, stale : BOOLEAN]]
         /\ StaleIsMarked'
<1> USE CalendarAssumption DEF CalendarTypeOK, NeverListed
<1>1. ASSUME NEW isEnabled \in BOOLEAN, MarkFailed(s, isEnabled)
      PROVE  /\ listed' = listed
             /\ status' = [status EXCEPT ![s] = [known |-> TRUE, enabled |-> isEnabled,
                             available |-> FALSE, stale |-> listed[s] # NeverListed]]
  <2>1. EverRefreshed(s) = (listed[s] # NeverListed)
    BY DEF EverRefreshed, StaleIsMarked
  <2> QED
    BY <1>1, <2>1 DEF MarkFailed
<1>2. CASE \E isEnabled \in BOOLEAN : MarkFailed(s, isEnabled)
  <2>1. PICK isEnabled \in BOOLEAN : MarkFailed(s, isEnabled)
    BY <1>2
  <2> DEFINE wasListed == listed[s] # NeverListed
  <2>2. wasListed \in BOOLEAN
    OBVIOUS
  <2>3. /\ listed' = listed
        /\ status' = [status EXCEPT ![s] = [known |-> TRUE, enabled |-> isEnabled,
                        available |-> FALSE, stale |-> wasListed]]
    BY <1>1, <2>1
  <2>4. StaleIsMarked'
    BY <2>3 DEF StaleIsMarked
  <2> HIDE DEF wasListed
  <2> QED
    BY <2>2, <2>3, <2>4
<1>3. CASE ReplaceSource(s)
  <2>1. listing[s] \in NeverListed .. MaxListings + 1 /\ listing[s] # NeverListed
    OBVIOUS
  <2> QED
    BY <1>3, <2>1 DEF ReplaceSource, StaleIsMarked
<1> QED
  BY <1>2, <1>3 DEF RefreshSource

LEMMA CalendarStep == CalendarInv /\ [CalendarNext]_calendarVars => CalendarInv'
<1> SUFFICES ASSUME CalendarInv, [CalendarNext]_calendarVars
             PROVE  CalendarInv'
  OBVIOUS
<1> USE CalendarAssumption DEF CalendarInv
<1>1. CASE UNCHANGED calendarVars
  BY <1>1 DEF calendarVars, CalendarTypeOK, StaleIsMarked, OneRefresh
<1>2. ASSUME NEW c \in CalendarClients,
             GetCalendar(c) \/ EnterRefresh(c) \/ GetCached(c) \/ Interrupt(c)
      PROVE  CalendarInv'
  <2>1. UNCHANGED <<services, calendarCache>>
    BY <1>2 DEF GetCalendar, EnterRefresh, GetCached, Interrupt
  <2>2. CalendarTypeOK' /\ StaleIsMarked'
    BY <1>2, <2>1 DEF CalendarTypeOK, StaleIsMarked, services, calendarCache, GetCalendar,
       EnterRefresh, GetCached, Interrupt, Move, GateReleased
  <2>3. OneRefresh'
    BY <1>2 DEF OneRefresh, CalendarTypeOK, GetCalendar, EnterRefresh, GetCached, Interrupt, Move,
       GateReleased
  <2> QED
    BY <2>2, <2>3
<1>3. ASSUME NEW c \in CalendarClients, NEW s \in CalendarSources,
             RefreshSource(s), RefreshSonarr(c) \/ RefreshRadarr(c)
      PROVE  CalendarInv'
  <2>1. /\ listed' \in [CalendarSources -> NeverListed .. MaxListings + 1]
        /\ status' \in [CalendarSources ->
              [known : BOOLEAN, enabled : BOOLEAN, available : BOOLEAN, stale : BOOLEAN]]
        /\ StaleIsMarked'
    BY <1>3, RefreshMarks
  <2>2. UNCHANGED <<services, interruptions>> /\ attempt' \in Ages
    BY <1>3 DEF RefreshSonarr, RefreshRadarr, CalendarTypeOK, Ages
  <2>3. \/ /\ calendarClient[c] = "sonarr" /\ Move(c, "radarr") /\ calendarGate' = calendarGate
        \/ /\ calendarClient[c] = "radarr" /\ Move(c, "reading") /\ calendarGate' = "free"
    BY <1>3 DEF RefreshSonarr, RefreshRadarr
  <2>4. CalendarTypeOK'
    BY <2>1, <2>2, <2>3 DEF CalendarTypeOK, services, Move
  <2>5. OneRefresh'
    BY <2>3 DEF OneRefresh, CalendarTypeOK, Move
  <2> QED
    BY <2>1, <2>4, <2>5
<1>4. CASE AttemptAges
  BY <1>4 DEF AttemptAges, CalendarTypeOK, StaleIsMarked, OneRefresh, services, Ages
<1>5. ASSUME NEW s \in CalendarSources, SourceChanges(s) \/ ServiceListsOther(s)
      PROVE  CalendarInv'
  <2>1. UNCHANGED <<calendarCache, calendarGate, calendarClient, interruptions>>
    BY <1>5 DEF SourceChanges, ServiceListsOther
  <2>2. CalendarTypeOK'
    <3>1. CASE ServiceListsOther(s)
      <4>1. listing[s] \in 1 .. MaxListings + 1 /\ listing[s] <= MaxListings
        BY <3>1 DEF ServiceListsOther, CalendarTypeOK
      <4>2. listing' \in [CalendarSources -> 1 .. MaxListings + 1]
        BY <3>1, <4>1 DEF ServiceListsOther, CalendarTypeOK
      <4> QED
        BY <2>1, <3>1, <4>2 DEF ServiceListsOther, CalendarTypeOK, calendarCache
    <3>2. CASE SourceChanges(s)
      <4>1. enabled' \in [CalendarSources -> BOOLEAN] /\ answering' \in [CalendarSources -> BOOLEAN]
        BY <3>2 DEF SourceChanges, CalendarTypeOK
      <4>2. outages' \in 0 .. MaxOutages /\ listing' = listing
        BY <3>2 DEF SourceChanges, CalendarTypeOK
      <4> QED
        BY <2>1, <4>1, <4>2 DEF CalendarTypeOK, calendarCache
    <3> QED
      BY <1>5, <3>1, <3>2
  <2> QED
    BY <2>1, <2>2 DEF StaleIsMarked, OneRefresh, calendarCache
<1>6. \A c \in CalendarClients :
        /\ RefreshSonarr(c) => RefreshSource("sonarr") /\ "sonarr" \in CalendarSources
        /\ RefreshRadarr(c) => RefreshSource("radarr") /\ "radarr" \in CalendarSources
  BY DEF RefreshSonarr, RefreshRadarr, CalendarSources
<1> QED
  BY <1>1, <1>2, <1>3, <1>4, <1>5, <1>6 DEF CalendarNext, RefreshStep

(* The sources' listings and marks, the gate and the clients keep their types            *)
(* (CalendarService).                                                                  *)
THEOREM CalendarTypes == CalendarSpec => []CalendarTypeOK
<1>1. CalendarInv => CalendarTypeOK
  BY DEF CalendarInv
<1> QED
  BY <1>1, CalendarInitially, CalendarStep, PTL DEF CalendarSpec

(* A source that failed is marked stale exactly when the calendar still shows entries of  *)
(* it, and no two clients refresh at once: what CalendarFollows says of every state       *)
(* (MarkFailed, RefreshAsync).                                                         *)
THEOREM CalendarIsMarked == CalendarSpec => [](StaleIsMarked /\ OneRefresh)
<1>1. CalendarInv => StaleIsMarked /\ OneRefresh
  BY DEF CalendarInv
<1> QED
  BY <1>1, CalendarInitially, CalendarStep, PTL DEF CalendarSpec

-----------------------------------------------------------------------------------
(* Seerr's users.  *)
(* Nobody pages over Seerr's users for one who is known, or known to be missing, for any  *)
(* users, clients and changes (SeerrUsers).  Only the client inside the gate looks a user *)
(* up (OneLookup), and it entered when neither memory had the user; what the others do    *)
(* only forgets.                                                                       *)

LooksUp(c) == seerrClient[c].at \in {"scan", "import"}
OneLookup == \A c \in SeerrClients : LooksUp(c) <=> lookupGate = c
UnknownLookedUp ==
  \A c \in SeerrClients :
    /\ seerrClient[c].at # "idle" => seerrClient[c].user \in JellyfinUsers
    /\ LooksUp(c) => seerrClient[c].user \notin mapped \cup missing
SeerrInv == SeerrTypeOK /\ OneLookup /\ UnknownLookedUp

LEMMA SeerrInitially == SeerrInit => SeerrInv
<1> SUFFICES ASSUME SeerrInit
             PROVE  SeerrInv
  OBVIOUS
<1> USE SeerrUsersAssumption DEF SeerrInit, NoSeerrRequest
<1>1. <<Nobody>> \in Seq(JellyfinUsers \cup {Nobody})
  OBVIOUS
<1>2. NoSeerrRequest \in SeerrRequests
  BY DEF SeerrRequests, SeerrStages
<1> HIDE DEF NoSeerrRequest
<1>3. seerrClient \in [SeerrClients -> SeerrRequests]
  BY <1>2
<1>4. SeerrTypeOK
  BY <1>1, <1>3 DEF SeerrTypeOK
<1> QED
  BY <1>4, SeerrUsersAssumption DEF SeerrInv, OneLookup, UnknownLookedUp, LooksUp, NoSeerrRequest

\* What a step makes of a client's request.
LEMMA RequestTypes ==
  ASSUME SeerrTypeOK, NEW c \in SeerrClients, NEW stage \in SeerrStages,
         \/ Proceed(c, stage) \/ Finish(c)
         \/ seerrClient' = [seerrClient EXCEPT ![c].skip = @ + UserPageSize]
         \/ seerrClient' = [seerrClient EXCEPT ![c].at = stage, ![c].skip = 0, ![c].tried = TRUE]
  PROVE  seerrClient' \in [SeerrClients -> SeerrRequests]
<1>1. UserPageSize \in Nat /\ seerrClient \in [SeerrClients -> SeerrRequests]
  BY SeerrUsersAssumption DEF SeerrTypeOK
<1>2. NoSeerrRequest \in SeerrRequests
  BY DEF NoSeerrRequest, SeerrRequests, SeerrStages
<1>3. CASE Finish(c)
  BY <1>1, <1>2, <1>3 DEF Finish
<1>4. CASE Proceed(c, stage)
  BY <1>1, <1>4 DEF Proceed, SeerrRequests
<1> QED
  BY <1>1, <1>3, <1>4 DEF SeerrRequests

LEMMA RequestMoves ==
  ASSUME SeerrTypeOK, NEW c \in SeerrClients
  PROVE  /\ \A stage \in SeerrStages : Proceed(c, stage) =>
              seerrClient'[c].at = stage /\ seerrClient'[c].user = seerrClient[c].user
         /\ Finish(c) => seerrClient'[c].at = "idle"
<1>1. seerrClient \in [SeerrClients -> SeerrRequests] /\ seerrClient[c] \in SeerrRequests
  BY DEF SeerrTypeOK
<1>2. Finish(c) => seerrClient'[c] = NoSeerrRequest
  BY <1>1 DEF Finish
<1>3. \A stage \in SeerrStages : Proceed(c, stage) =>
        seerrClient'[c] = [seerrClient[c] EXCEPT !.at = stage]
  BY <1>1 DEF Proceed
<1>4. NoSeerrRequest.at = "idle"
  BY DEF NoSeerrRequest
<1>5. \A stage \in SeerrStages : LET r == [seerrClient[c] EXCEPT !.at = stage]
                                IN r.at = stage /\ r.user = seerrClient[c].user
  BY <1>1 DEF SeerrRequests
<1> QED
  BY <1>2, <1>3, <1>4, <1>5

\* A sequence less one of its elements.
LEMMA RemovedType ==
  ASSUME NEW S, NEW s \in Seq(S), NEW i \in DOMAIN s
  PROVE  RemoveAt(s, i) \in Seq(S)
<1>1. i \in 1 .. Len(s) /\ Len(s) \in Nat /\ \A k \in 1 .. Len(s) : s[k] \in S
  BY LenProperties, ElementOfSeq
<1>2. SubSeq(s, 1, i - 1) \in Seq(S)
  BY <1>1, SubSeqProperties
<1>3. SubSeq(s, i + 1, Len(s)) \in Seq(S)
  BY <1>1, SubSeqProperties
<1> QED
  BY <1>2, <1>3, ConcatProperties DEF RemoveAt

LEMMA DirectoryTypes ==
  ASSUME SeerrTypeOK, NEW u \in JellyfinUsers, DirectoryChanges(u)
  PROVE  directory' \in Seq(JellyfinUsers \cup {Nobody})
<1>1. directory \in Seq(JellyfinUsers \cup {Nobody}) /\ u \in JellyfinUsers \cup {Nobody}
  BY DEF SeerrTypeOK
<1>2. Append(directory, u) \in Seq(JellyfinUsers \cup {Nobody})
  BY <1>1, AppendProperties
<1>3. \A i \in DOMAIN directory : RemoveAt(directory, i) \in Seq(JellyfinUsers \cup {Nobody})
  BY <1>1, RemovedType
<1> QED
  BY <1>2, <1>3 DEF DirectoryChanges

\* The steps of a client that looks nobody up, and what others change.
LEMMA SeerrOthersStep ==
  ASSUME SeerrInv, NEW c \in SeerrClients, NEW u \in JellyfinUsers,
         \/ AskSeerr(c, u) \/ EnterLookup(c) \/ RunAsUser(c) \/ SeerrFails(c)
         \/ MappingExpires(u) \/ MissExpires(u) \/ DirectoryChanges(u)
  PROVE  SeerrInv'
<1> USE SeerrUsersAssumption DEF SeerrInv, SeerrTypeOK, SeerrRequest, NoSeerrRequest
<1>1. CASE AskSeerr(c, u)
  <2>1. SeerrTypeOK'
    BY <1>1 DEF AskSeerr, remembered, SeerrRequests, SeerrStages
  <2>2. ~LooksUp(c) /\ ~LooksUp(c)'
    BY <1>1 DEF AskSeerr, LooksUp
  <2>3. \A d \in SeerrClients \ {c} : seerrClient'[d] = seerrClient[d]
    BY <1>1 DEF AskSeerr
  <2>4. seerrClient'[c].user = u
    BY <1>1 DEF AskSeerr
  <2> QED
    BY <1>1, <2>1, <2>2, <2>3, <2>4 DEF AskSeerr, OneLookup, UnknownLookedUp, LooksUp, remembered
<1>2. CASE EnterLookup(c)
  <2>1. SeerrTypeOK'
    <3>1. Proceed(c, "page") \/ Proceed(c, "scan") \/ Finish(c)
      BY <1>2 DEF EnterLookup
    <3>2. seerrClient' \in [SeerrClients -> SeerrRequests]
      BY <3>1, RequestTypes DEF SeerrStages
    <3> QED
      BY <1>2, <3>2 DEF EnterLookup, remembered
  <2>2. seerrClient[c].at = "gate" /\ lookupGate = "free" /\ UNCHANGED <<mapped, missing>>
    BY <1>2 DEF EnterLookup, LookupFree, remembered
  <2>3. \A d \in SeerrClients \ {c} : seerrClient'[d] = seerrClient[d] /\ ~LooksUp(d)
    BY <1>2, <2>2 DEF EnterLookup, Proceed, Finish, OneLookup
  <2>4. \/ seerrClient'[c].at \in {"page", "idle"} /\ lookupGate' = "free"
        \/ /\ seerrClient'[c].at = "scan" /\ lookupGate' = c
           /\ seerrClient[c].user \notin mapped \cup missing
    BY <1>2, <2>2, RequestMoves DEF EnterLookup, Known, SeerrStages
  <2>5. seerrClient'[c].at # "idle" => seerrClient'[c].user = seerrClient[c].user
    BY <1>2, RequestMoves DEF EnterLookup, SeerrStages
  <2>6. OneLookup'
    BY <2>2, <2>3, <2>4 DEF OneLookup, LooksUp
  <2>7. UnknownLookedUp'
    <3>1. seerrClient[c].user \in JellyfinUsers
      BY <2>2 DEF UnknownLookedUp
    <3> QED
      BY <2>2, <2>3, <2>4, <2>5, <3>1 DEF UnknownLookedUp, LooksUp
  <2> QED
    BY <2>1, <2>6, <2>7
<1>3. CASE RunAsUser(c) \/ SeerrFails(c)
  <2>1. SeerrTypeOK'
    <3>1. Finish(c)
      BY <1>3 DEF RunAsUser, SeerrFails
    <3>2. seerrClient' \in [SeerrClients -> SeerrRequests]
      BY <3>1, RequestTypes DEF SeerrStages
    <3> QED
      BY <1>3, <3>2 DEF RunAsUser, SeerrFails, GiveGateBack, LeaveGate, remembered
  <2>2. ~LooksUp(c)' /\ seerrClient'[c].at = "idle" /\ UNCHANGED <<mapped, missing>>
    BY <1>3 DEF RunAsUser, SeerrFails, Finish, LooksUp, remembered
  <2>3. \A d \in SeerrClients \ {c} : seerrClient'[d] = seerrClient[d]
    BY <1>3 DEF RunAsUser, SeerrFails, Finish
  <2>4. lookupGate' = IF lookupGate = c THEN "free" ELSE lookupGate
    BY <1>3 DEF RunAsUser, SeerrFails, GiveGateBack, LeaveGate, OneLookup, LooksUp
  <2> QED
    BY <2>1, <2>2, <2>3, <2>4 DEF OneLookup, UnknownLookedUp, LooksUp
<1>4. CASE MappingExpires(u) \/ MissExpires(u)
  <2>1. SeerrTypeOK' /\ UNCHANGED <<lookupGate, seerrClient>>
    BY <1>4 DEF MappingExpires, MissExpires
  <2>2. mapped' \cup missing' \subseteq mapped \cup missing
    BY <1>4 DEF MappingExpires, MissExpires
  <2> QED
    BY <2>1, <2>2 DEF OneLookup, UnknownLookedUp, LooksUp
<1>5. CASE DirectoryChanges(u)
  <2>1. directory' \in Seq(JellyfinUsers \cup {Nobody})
    BY <1>5, DirectoryTypes
  <2>2. SeerrTypeOK' /\ UNCHANGED <<mapped, missing, lookupGate, seerrClient>>
    BY <1>5, <2>1 DEF DirectoryChanges, remembered
  <2> QED
    BY <2>2 DEF OneLookup, UnknownLookedUp, LooksUp
<1> QED
  BY <1>1, <1>2, <1>3, <1>4, <1>5

\* The client that looks a user up remembers what it found when it leaves the gate.
LEMMA SeerrLookupStep ==
  ASSUME SeerrInv, NEW c \in SeerrClients, ScanUsers(c) \/ ImportUser(c)
  PROVE  SeerrInv'
<1> USE SeerrUsersAssumption DEF SeerrInv, SeerrTypeOK, SeerrRequest, NoSeerrRequest
<1>1. LooksUp(c) /\ lookupGate = c /\ seerrClient[c].user \in JellyfinUsers
  BY DEF ScanUsers, ImportUser, LooksUp, OneLookup, UnknownLookedUp
<1>2. \A d \in SeerrClients \ {c} : ~LooksUp(d) /\ seerrClient'[d] = seerrClient[d]
  BY <1>1 DEF ScanUsers, ImportUser, OneLookup, Proceed, Finish
<1>3. CASE ImportUser(c)
  <2>1. directory' \in Seq(JellyfinUsers \cup {Nobody})
    <3>1. Append(directory, seerrClient[c].user) \in Seq(JellyfinUsers \cup {Nobody})
      BY <1>1, AppendProperties
    <3> QED
      BY <1>3, <3>1 DEF ImportUser
  <2>2. SeerrTypeOK'
    <3>1. seerrClient' \in [SeerrClients -> SeerrRequests]
      BY <1>3, RequestTypes DEF ImportUser, SeerrStages
    <3> QED
      BY <1>3, <2>1, <3>1 DEF ImportUser, remembered
  <2>3. LooksUp(c)' /\ seerrClient'[c].user = seerrClient[c].user
        /\ UNCHANGED <<mapped, missing, lookupGate>>
    BY <1>3 DEF ImportUser, LooksUp, remembered
  <2> QED
    BY <1>1, <1>2, <2>2, <2>3 DEF OneLookup, UnknownLookedUp, LooksUp
<1>4. CASE ScanUsers(c)
  <2>1. UNCHANGED <<autoImport, directory, directoryChanges, seerrFaults>>
    BY <1>4 DEF ScanUsers
  <2>2. \/ /\ mapped' = mapped \cup {seerrClient[c].user}
           /\ missing' = missing \ {seerrClient[c].user}
           /\ Proceed(c, "page") /\ LeaveGate(c)
        \/ /\ missing' = missing \cup {seerrClient[c].user} /\ mapped' = mapped
           /\ Finish(c) /\ LeaveGate(c)
        \/ /\ UNCHANGED <<mapped, missing, lookupGate>>
           /\ \/ seerrClient' = [seerrClient EXCEPT ![c].skip = @ + UserPageSize]
              \/ Proceed(c, "import")
    BY <1>4 DEF ScanUsers, remembered
  <2>3. SeerrTypeOK'
    <3>1. seerrClient' \in [SeerrClients -> SeerrRequests]
      BY <2>2, RequestTypes DEF SeerrStages
    <3> QED
      BY <1>1, <2>1, <2>2, <3>1 DEF LeaveGate
  <2>4. CASE LeaveGate(c) /\ ~LooksUp(c)' /\ seerrClient'[c].at \in {"page", "idle"}
             /\ (seerrClient'[c].at = "page" => seerrClient'[c].user = seerrClient[c].user)
    <3>1. lookupGate' = "free"
      BY <1>1, <2>4 DEF LeaveGate
    <3>2. \A d \in SeerrClients : ~LooksUp(d)'
      BY <1>2, <2>4 DEF LooksUp
    <3> QED
      BY <1>1, <1>2, <2>3, <2>4, <3>1, <3>2 DEF OneLookup, UnknownLookedUp
  <2>5. CASE /\ LooksUp(c)' /\ seerrClient'[c].user = seerrClient[c].user
             /\ UNCHANGED <<mapped, missing, lookupGate>>
    BY <1>1, <1>2, <2>3, <2>5 DEF OneLookup, UnknownLookedUp, LooksUp
  <2> QED
    <3>1. CASE Proceed(c, "page") /\ LeaveGate(c)
      BY <3>1, <2>4, RequestMoves DEF SeerrStages, LooksUp
    <3>2. CASE Finish(c) /\ LeaveGate(c)
      BY <3>2, <2>4, RequestMoves DEF LooksUp
    <3>3. CASE Proceed(c, "import") /\ UNCHANGED <<mapped, missing, lookupGate>>
      BY <3>3, <2>5, RequestMoves DEF SeerrStages, LooksUp
    <3>4. CASE /\ seerrClient' = [seerrClient EXCEPT ![c].skip = @ + UserPageSize]
               /\ UNCHANGED <<mapped, missing, lookupGate>>
      <4>1. seerrClient'[c].at = seerrClient[c].at /\ seerrClient'[c].user = seerrClient[c].user
        BY <3>4 DEF SeerrRequests
      <4> QED
        BY <1>1, <3>4, <4>1, <2>5 DEF LooksUp
    <3> QED
      BY <2>2, <3>1, <3>2, <3>3, <3>4
<1> QED
  BY <1>3, <1>4

LEMMA SeerrStep == SeerrInv /\ [SeerrNext]_seerrVars => SeerrInv'
<1> SUFFICES ASSUME SeerrInv, [SeerrNext]_seerrVars
             PROVE  SeerrInv'
  OBVIOUS
<1>1. CASE UNCHANGED seerrVars
  BY <1>1 DEF seerrVars, SeerrInv, SeerrTypeOK, OneLookup, UnknownLookedUp, LooksUp
<1>2. ASSUME NEW c \in SeerrClients, EnterLookup(c) \/ RequestStep(c) \/ SeerrFails(c)
      PROVE  SeerrInv'
  <2>1. seerrClient[c].user \in JellyfinUsers
    BY <1>2 DEF SeerrInv, UnknownLookedUp, EnterLookup, RequestStep, ScanUsers, ImportUser,
       RunAsUser, SeerrFails, SeerrRequest
  <2> QED
    BY <1>2, <2>1, SeerrOthersStep, SeerrLookupStep DEF RequestStep
<1>3. ASSUME NEW u \in JellyfinUsers, MappingExpires(u) \/ MissExpires(u) \/ DirectoryChanges(u)
      PROVE  SeerrInv'
  <2>1. UNCHANGED <<lookupGate, seerrClient>>
    BY <1>3 DEF MappingExpires, MissExpires, DirectoryChanges
  <2>2. CASE SeerrClients # {}
    BY <1>3, <2>2, SeerrOthersStep
  <2>3. CASE SeerrClients = {}
    <3>1. /\ directory' \in Seq(JellyfinUsers \cup {Nobody}) /\ autoImport' \in BOOLEAN
          /\ directoryChanges' \in 0 .. MaxDirectoryChanges /\ seerrFaults' = seerrFaults
      BY <1>3, DirectoryTypes, SeerrUsersAssumption
      DEF SeerrInv, SeerrTypeOK, MappingExpires, MissExpires, DirectoryChanges
    <3>2. mapped' \subseteq mapped /\ missing' \subseteq missing
      BY <1>3 DEF MappingExpires, MissExpires, DirectoryChanges, remembered
    <3>3. SeerrTypeOK'
      BY <2>1, <3>1, <3>2 DEF SeerrInv, SeerrTypeOK
    <3> QED
      BY <2>3, <3>3 DEF SeerrInv, OneLookup, UnknownLookedUp
  <2> QED
    BY <2>2, <2>3
<1> QED
  BY <1>1, <1>2, <1>3, SeerrOthersStep DEF SeerrNext

LEMMA SeerrTruth == SeerrInv => LookupIsShared /\ OneLookup
BY DEF SeerrInv, UnknownLookedUp, LookupIsShared, LooksUp, SeerrRequest

(* Seerr's list, the two memories and the requests keep their types (SeerrGateway).      *)
THEOREM SeerrTypes == SeerrSpec => []SeerrTypeOK
<1>1. SeerrInv => SeerrTypeOK
  BY DEF SeerrInv
<1> QED
  BY <1>1, SeerrInitially, SeerrStep, PTL DEF SeerrSpec

(* While a user is known, or known to be missing, nobody pages over Seerr's users for     *)
(* them, and one client at a time does for anyone: what UsersAreFound says of every state *)
(* (ResolveUserAsync).                                                                 *)
THEOREM LookupsAreShared == SeerrSpec => [](LookupIsShared /\ OneLookup)
BY SeerrTruth, SeerrInitially, SeerrStep, PTL DEF SeerrSpec

-----------------------------------------------------------------------------------
(* Membership.  *)
(* A title that was in its library before and during the whole walk keeps its             *)
(* membership, for any libraries, titles and pages and any changes on the server, unless  *)
(* titles both came and left during the walk (Membership).  Two things keep it, one for   *)
(* each kind of change.  While titles only come, none moves towards the start: what was   *)
(* there all along is listed or still ahead (AheadOfTheWalk).  While titles only leave,   *)
(* one may slide past the page that would have listed it, but then the walk lists fewer    *)
(* than the first page counted, and is not believed (NoMoreThanCounted).                 *)

WalkGoes == walkStage = "walk"
WalkMembers == Members(walk.lib, walk.kind)
WalkPlace(t) == Place(walk.lib, walk.kind, t)

WalkIsOfALibrary ==
  WalkGoes => /\ walk.lib \in Libraries /\ walk.kind \in CatalogKinds
              /\ Titles \ missed \subseteq WalkMembers
              /\ walk.pages = 0 => walk.ids = {} /\ walk.offset = 0
AheadOfTheWalk ==
  WalkGoes /\ "left" \notin shifts =>
    \A t \in WalkMembers : t \in missed \cup walk.ids \/ WalkPlace(t) >= walk.offset
NoMoreThanCounted ==
  WalkGoes /\ "came" \notin shifts /\ walk.pages # 0 =>
    Cardinality(walk.ids \cup WalkMembers) <= walk.counted
MembershipInv ==
  MembershipTypeOK /\ WalkIsOfALibrary /\ AheadOfTheWalk /\ NoMoreThanCounted

\* Sets of titles are finite, and smaller sets have fewer titles.
LEMMA TitlesAreFinite ==
  ASSUME NEW S \in SUBSET Titles
  PROVE  /\ IsFiniteSet(S) /\ Cardinality(S) \in Nat
         /\ \A T \in SUBSET S : /\ IsFiniteSet(T) /\ Cardinality(T) \in Nat
                                /\ Cardinality(T) <= Cardinality(S)
                                /\ Cardinality(T) = Cardinality(S) => T = S
<1>1. IsFiniteSet(S)
  BY MembershipAssumption, FS_Subset
<1>2. Cardinality(S) \in Nat
  BY <1>1, FS_CardinalityType
<1>3. ASSUME NEW T \in SUBSET S
      PROVE  /\ IsFiniteSet(T) /\ Cardinality(T) \in Nat
             /\ Cardinality(T) <= Cardinality(S)
             /\ Cardinality(T) = Cardinality(S) => T = S
  BY <1>1, FS_Subset, FS_CardinalityType
<1> QED
  BY <1>1, <1>2, <1>3

LEMMA MembersAreTitles ==
  ASSUME MembershipTypeOK, NEW l \in Libraries, NEW kind
  PROVE  Members(l, kind) \subseteq Titles
<1>1. served[l] \in [kind : LibraryKinds, titles : SUBSET Titles]
  BY DEF MembershipTypeOK
<1> QED
  BY <1>1 DEF Members, OfKind

\* The page of a walk holds the titles at its places, and the last page reaches the end.
LEMMA WalkPage ==
  ASSUME MembershipInv, WalkGoes
  PROVE  /\ WalkMembers \subseteq Titles /\ Read \subseteq WalkMembers
         /\ Cardinality(Read) \in Nat /\ Cardinality(Read) <= IdentityPageSize
         /\ \A t \in WalkMembers : WalkPlace(t) \in Nat
         /\ \A t \in WalkMembers \ Read : WalkPlace(t) >= walk.offset =>
              WalkPlace(t) >= walk.offset + IdentityPageSize
         /\ LastPage => \A t \in WalkMembers : WalkPlace(t) < walk.offset + IdentityPageSize
<1> DEFINE M == WalkMembers
           n == IdentityPageSize
           a == walk.offset
<1>1. M \subseteq Titles /\ M \in SUBSET Nat
  BY MembersAreTitles, MembershipAssumption DEF MembershipInv, WalkIsOfALibrary, WalkMembers
<1>2. IsFiniteSet(M)
  BY <1>1, TitlesAreFinite
<1>3. a \in Nat /\ n \in Nat \ {0}
  BY MembershipAssumption DEF MembershipInv, MembershipTypeOK, Walks
<1>4. Read = {t \in M : WalkPlace(t) \in a .. a + n - 1}
  BY DEF Read, Page, WalkPlace, WalkMembers
<1> DEFINE r == [t \in M |-> WalkPlace(t)]
<1>5. r \in Injection(M, 0 .. Cardinality(M) - 1)
  <2>1. \A t \in M : WalkPlace(t) = Cardinality({u \in M : u < t})
    BY DEF WalkPlace, Place, WalkMembers
  <2>2. [t \in M |-> Cardinality({u \in M : u < t})] = r
    BY <2>1
  <2>3. [t \in M |-> Cardinality({u \in M : u < t})] \in Injection(M, 0 .. Cardinality(M) - 1)
    BY <1>1, <1>2, RanksArePlaces
  <2> QED
    BY <2>2, <2>3
<1>6. \A t \in M : r[t] = WalkPlace(t)
  OBVIOUS
<1>7. Cardinality(M) \in Nat /\ \A t \in M : WalkPlace(t) \in Nat
  BY <1>2, <1>5, <1>6, FS_CardinalityType DEF Injection
<1> HIDE DEF M, n, a, r
<1>8. Read \in SUBSET M /\ \A t \in M : t \in Read <=> r[t] \in a .. a + n - 1
  BY <1>4, <1>6
<1>9. /\ Cardinality(Read) \in Nat /\ Cardinality(Read) <= n
      /\ Cardinality(Read) < n => \A t \in M : r[t] < a + n
  BY <1>2, <1>3, <1>5, <1>8, Places
<1>10. \A t \in M \ Read : WalkPlace(t) >= a => WalkPlace(t) >= a + n
  BY <1>3, <1>6, <1>7, <1>8
<1> QED
  BY <1>1, <1>6, <1>7, <1>8, <1>9, <1>10 DEF M, n, a, LastPage

LEMMA MembershipInitially == MembershipInit => MembershipInv
<1> SUFFICES ASSUME MembershipInit
             PROVE  MembershipInv
  OBVIOUS
<1> USE MembershipAssumption DEF MembershipInit, NoWalk
<1>1. MembershipTypeOK
  BY DEF MembershipTypeOK, Walks, LibraryKinds, CatalogKinds
<1> QED
  BY <1>1 DEF MembershipInv, WalkIsOfALibrary, AheadOfTheWalk, NoMoreThanCounted, WalkGoes

\* What the server's change does to the titles of the walk.
LEMMA ChangeShifts ==
  ASSUME MembershipInv, NEW l \in Libraries, NEW kind \in LibraryKinds,
         NEW titles \in SUBSET Titles, ServerChange(l, kind, titles), WalkGoes
  PROVE  /\ WalkMembers' \subseteq Titles
         /\ Titles \ missed' \subseteq WalkMembers \cap WalkMembers'
         /\ missed \subseteq missed' /\ shifts \subseteq shifts'
         /\ shifts' \subseteq {"came", "left"}
         /\ "came" \notin shifts' => WalkMembers' \subseteq WalkMembers
         /\ "left" \notin shifts' => WalkMembers \subseteq WalkMembers'
<1> USE DEF MembershipInv, MembershipTypeOK, WalkIsOfALibrary
<1>1. /\ walk' = walk /\ walk.lib \in Libraries /\ served' = [served EXCEPT ![l] = [kind |-> kind, titles |-> titles]]
      /\ walkStage = "walk"
  BY DEF ServerChange, WalkGoes
<1>2. WalkMembers' = OfKind(served'[walk.lib], walk.kind) /\ WalkMembers = OfKind(served[walk.lib], walk.kind)
  BY <1>1 DEF WalkMembers, Members
<1>3. CASE walk.lib = l
  <2>1. /\ missed' = missed \cup (Titles \ WalkMembers')
        /\ shifts' = shifts \cup (IF WalkMembers' \ WalkMembers # {} THEN {"came"} ELSE {})
                            \cup (IF WalkMembers \ WalkMembers' # {} THEN {"left"} ELSE {})
    BY <1>1, <1>2, <1>3 DEF ServerChange, Members
  <2>2. WalkMembers' \subseteq Titles
    BY <1>1, <1>2, <1>3 DEF OfKind
  <2> QED
    BY <2>1, <2>2 DEF WalkGoes
<1>4. CASE walk.lib # l
  <2>1. UNCHANGED <<missed, shifts>>
    BY <1>1, <1>4 DEF ServerChange, seen
  <2>2. WalkMembers' = WalkMembers
    BY <1>1, <1>2, <1>4
  <2>3. WalkMembers \subseteq Titles
    BY <1>1, MembersAreTitles DEF WalkMembers
  <2> QED
    BY <1>1, <2>1, <2>2, <2>3 DEF WalkGoes
<1> QED
  BY <1>3, <1>4

LEMMA ServerKeeps ==
  ASSUME MembershipInv, NEW l \in Libraries, NEW kind \in LibraryKinds,
         NEW titles \in SUBSET Titles, ServerChange(l, kind, titles)
  PROVE  MembershipInv'
<1> USE DEF MembershipInv
<1>1. UNCHANGED <<registry, members, walkStage, walkDue, walk, walkFaults>>
  BY DEF ServerChange
<1>2. CASE ~WalkGoes
  <2>1. UNCHANGED <<missed, shifts>>
    BY <1>2 DEF WalkGoes, ServerChange, seen
  <2>2. MembershipTypeOK'
    BY <1>1, <2>1, MembershipAssumption DEF MembershipTypeOK, ServerChange
  <2> QED
    BY <1>1, <1>2, <2>2 DEF WalkGoes, WalkIsOfALibrary, AheadOfTheWalk, NoMoreThanCounted
<1>3. CASE WalkGoes
  <2>1. /\ WalkMembers' \subseteq Titles
        /\ Titles \ missed' \subseteq WalkMembers \cap WalkMembers'
        /\ missed \subseteq missed' /\ shifts \subseteq shifts'
        /\ shifts' \subseteq {"came", "left"}
        /\ "came" \notin shifts' => WalkMembers' \subseteq WalkMembers
        /\ "left" \notin shifts' => WalkMembers \subseteq WalkMembers'
    BY <1>3, ChangeShifts
  <2>2. MembershipTypeOK'
    <3>1. missed' \subseteq Titles
      BY DEF ServerChange, seen, MembershipTypeOK
    <3> QED
      BY <1>1, <2>1, <3>1, MembershipAssumption DEF MembershipTypeOK, ServerChange
  <2>3. walk.lib \in Libraries /\ walk.kind \in CatalogKinds /\ WalkMembers \subseteq Titles
        /\ WalkGoes'
    BY <1>1, <1>3, MembersAreTitles DEF WalkIsOfALibrary, WalkMembers, WalkGoes
  <2>4. WalkIsOfALibrary'
    BY <1>1, <1>3, <2>1, <2>3 DEF WalkIsOfALibrary
  <2>5. AheadOfTheWalk'
    <3> SUFFICES ASSUME "left" \notin shifts', NEW t \in WalkMembers',
                        t \notin missed', t \notin walk.ids
                 PROVE  WalkPlace(t)' >= walk.offset
      BY <1>1 DEF AheadOfTheWalk
    <3>1. t \in WalkMembers /\ WalkPlace(t) >= walk.offset
      BY <1>3, <2>1 DEF AheadOfTheWalk
    <3>2. WalkPlace(t) = Cardinality({u \in WalkMembers : u < t})
          /\ WalkPlace(t)' = Cardinality({u \in WalkMembers' : u < t})
      BY <1>1 DEF WalkPlace, Place, WalkMembers
    <3>3. {u \in WalkMembers : u < t} \subseteq {u \in WalkMembers' : u < t}
          /\ {u \in WalkMembers' : u < t} \in SUBSET Titles
      BY <2>1
    <3>4. WalkPlace(t) <= WalkPlace(t)' /\ WalkPlace(t) \in Nat /\ WalkPlace(t)' \in Nat
      BY <3>2, <3>3, TitlesAreFinite
    <3>5. walk.offset \in Nat
      BY DEF MembershipTypeOK, Walks
    <3> QED
      BY <3>1, <3>4, <3>5
  <2>6. NoMoreThanCounted'
    <3> SUFFICES ASSUME "came" \notin shifts', walk.pages # 0
                 PROVE  Cardinality(walk.ids \cup WalkMembers') <= walk.counted
      BY <1>1 DEF NoMoreThanCounted
    <3>1. Cardinality(walk.ids \cup WalkMembers) <= walk.counted
      BY <1>3, <2>1 DEF NoMoreThanCounted
    <3>2. walk.ids \subseteq Titles /\ walk.counted \in Nat
      BY DEF MembershipTypeOK, Walks
    <3>3. walk.ids \cup WalkMembers' \subseteq walk.ids \cup WalkMembers
          /\ walk.ids \cup WalkMembers \in SUBSET Titles
      BY <2>1, <2>3, <3>2
    <3> QED
      BY <3>1, <3>2, <3>3, TitlesAreFinite
  <2> QED
    BY <2>2, <2>4, <2>5, <2>6
<1> QED
  BY <1>2, <1>3

\* Steps of the worker after which it does not walk.
LEMMA NoWalkKeeps ==
  ASSUME MembershipTypeOK', ~WalkGoes'
  PROVE  MembershipInv'
BY DEF MembershipInv, WalkIsOfALibrary, AheadOfTheWalk, NoMoreThanCounted

LEMMA ListKeeps ==
  ASSUME MembershipInv,
         ReplaceLibraries \/ KeepLibraries \/ (\E oweAll \in BOOLEAN : WalkMembership(oweAll))
         \/ PassEnds
  PROVE  MembershipInv'
<1> USE MembershipAssumption DEF MembershipInv
<1>1. UNCHANGED <<served, serverChanges, walk, missed, shifts>>
  BY DEF ReplaceLibraries, KeepLibraries, WalkMembership, PassEnds, theServer, seen
<1>2. walkStage' \in {"rest", "listed", "pass"}
  BY DEF ReplaceLibraries, KeepLibraries, WalkMembership, PassEnds
<1>3. \A l \in Libraries : registry[l].kind \in LibraryKinds /\ served[l].kind \in LibraryKinds
      /\ registry[l].membership \in {"unwalked", "owed", "current"}
  BY DEF MembershipTypeOK
<1>4. registry' \in [Libraries -> [kind : LibraryKinds, membership : {"unwalked", "owed", "current"}]]
  <2>1. CASE ReplaceLibraries
    BY <1>3, <2>1 DEF ReplaceLibraries
  <2>2. ASSUME NEW oweAll \in BOOLEAN, WalkMembership(oweAll)
        PROVE  registry' \in [Libraries -> [kind : LibraryKinds, membership : {"unwalked", "owed", "current"}]]
    <3>1. \A l \in Libraries : registry[l] \in [kind : LibraryKinds, membership : {"unwalked", "owed", "current"}]
      BY DEF MembershipTypeOK
    <3> QED
      BY <2>2, <3>1 DEF WalkMembership
  <2> QED
    BY <2>1, <2>2 DEF KeepLibraries, PassEnds, MembershipTypeOK
<1>5. members' \in [Libraries -> SUBSET Titles]
  BY DEF ReplaceLibraries, KeepLibraries, WalkMembership, PassEnds, MembershipTypeOK
<1>6. walkDue' \subseteq Libraries \X CatalogKinds
  <2>1. ASSUME NEW oweAll \in BOOLEAN, WalkMembership(oweAll)
        PROVE  walkDue' \subseteq Libraries \X CatalogKinds
    <3>1. \A l \in Libraries : registry'[l].kind = registry[l].kind
      <4>1. \A l \in Libraries : registry[l] \in [kind : LibraryKinds, membership : {"unwalked", "owed", "current"}]
        BY DEF MembershipTypeOK
      <4> QED
        BY <2>1, <4>1 DEF WalkMembership
    <3> QED
      BY <2>1, <3>1 DEF WalkMembership
  <2> QED
    BY <2>1 DEF ReplaceLibraries, KeepLibraries, PassEnds, MembershipTypeOK
<1>7. walkFaults' \in 0 .. MaxWalkFaults
  BY DEF ReplaceLibraries, KeepLibraries, WalkMembership, PassEnds, MembershipTypeOK
<1>8. MembershipTypeOK'
  BY <1>1, <1>2, <1>4, <1>5, <1>6, <1>7 DEF MembershipTypeOK
<1> QED
  BY <1>2, <1>8, NoWalkKeeps DEF WalkGoes

\* A cycle or a walk ends without replacing a membership.
LEMMA StopKeeps ==
  ASSUME MembershipInv,
         CycleStops \/ KeepMembership \/ (\E rateLimited \in BOOLEAN : WalkFails(rateLimited))
  PROVE  MembershipInv' /\ members' = members
<1> USE MembershipAssumption DEF MembershipInv
<1>1. /\ walk' = NoWalk /\ missed' = {} /\ shifts' = {} /\ walkStage' \in {"rest", "pass"}
      /\ UNCHANGED <<served, serverChanges, registry, members>>
      /\ walkDue' \in {walkDue, {}}
  BY DEF CycleStops, KeepMembership, WalkFails, EndWalk, theServer
<1>2. NoWalk \in Walks
  BY DEF NoWalk, Walks
<1>3. walkFaults' \in 0 .. MaxWalkFaults
  BY DEF CycleStops, KeepMembership, WalkFails, MembershipTypeOK
<1>4. MembershipTypeOK'
  BY <1>1, <1>2, <1>3 DEF MembershipTypeOK
<1> QED
  BY <1>1, <1>4, NoWalkKeeps DEF WalkGoes

\* A walk begins with nothing listed and everything that is not there missed.
LEMMA StartWalkKeeps ==
  ASSUME MembershipInv, NEW l \in Libraries, NEW kind \in CatalogKinds, StartWalk(l, kind)
  PROVE  MembershipInv' /\ members' = members
<1> USE MembershipAssumption DEF MembershipInv
<1>1. /\ walk' = [NoWalk EXCEPT !.lib = l, !.kind = kind]
      /\ missed' = Titles \ Members(l, kind) /\ shifts' = {} /\ walkStage' = "walk"
      /\ UNCHANGED <<served, serverChanges, registry, members, walkFaults>>
      /\ walkDue' \subseteq walkDue
  BY DEF StartWalk, theServer
<1>2. walk' = [lib |-> l, kind |-> kind, ids |-> {}, offset |-> 0, counted |-> 0, pages |-> 0]
  BY <1>1 DEF NoWalk
<1>3. MembershipTypeOK'
  <2>1. walk' \in Walks
    BY <1>2 DEF Walks
  <2> QED
    BY <1>1, <2>1 DEF MembershipTypeOK
<1>4. WalkMembers' = Members(l, kind) /\ Members(l, kind) \subseteq Titles
  BY <1>1, <1>2, MembersAreTitles DEF WalkMembers, Members
<1>5. AheadOfTheWalk'
  <2>1. \A t \in WalkMembers' : WalkPlace(t)' \in Nat
    <3> TAKE t \in WalkMembers'
    <3>1. WalkPlace(t)' = Cardinality({u \in WalkMembers' : u < t})
      BY <1>2 DEF WalkPlace, Place, WalkMembers
    <3>2. {u \in WalkMembers' : u < t} \in SUBSET Titles
      BY <1>4
    <3> QED
      BY <3>1, <3>2, TitlesAreFinite
  <2> QED
    BY <1>2, <2>1 DEF AheadOfTheWalk
<1>6. WalkIsOfALibrary' /\ NoMoreThanCounted'
  <2>1. walk'.lib = l /\ walk'.kind = kind /\ walk'.ids = {} /\ walk'.offset = 0 /\ walk'.pages = 0
    BY <1>2
  <2>2. Titles \ missed' \subseteq WalkMembers'
    BY <1>1, <1>4
  <2> QED
    BY <2>1, <2>2 DEF WalkIsOfALibrary, NoMoreThanCounted
<1> QED
  BY <1>1, <1>3, <1>5, <1>6

\* A page is kept: the titles of its places are listed, and the walk goes on behind them.
LEMMA NextPageKeeps ==
  ASSUME MembershipInv, NextPage
  PROVE  MembershipInv' /\ members' = members
<1> USE MembershipAssumption DEF MembershipInv
<1>1. /\ WalkGoes /\ WalkGoes' /\ ~LastPage /\ walk.pages + 1 < MaxIdentityPages
      /\ walk' = [walk EXCEPT !.ids = Listed, !.offset = @ + Cardinality(Read),
                              !.counted = Counted, !.pages = @ + 1]
      /\ UNCHANGED <<served, serverChanges, registry, members, walkStage, walkDue, missed, shifts,
                     walkFaults>>
  BY DEF NextPage, WalkGoes, theServer, seen
<1>2. /\ WalkMembers \subseteq Titles /\ Read \subseteq WalkMembers
      /\ Cardinality(Read) \in Nat /\ Cardinality(Read) <= IdentityPageSize
      /\ \A t \in WalkMembers : WalkPlace(t) \in Nat
      /\ \A t \in WalkMembers \ Read : WalkPlace(t) >= walk.offset =>
           WalkPlace(t) >= walk.offset + IdentityPageSize
  BY <1>1, WalkPage
<1>3. walk \in Walks
  BY DEF MembershipTypeOK
<1>4. /\ walk'.lib = walk.lib /\ walk'.kind = walk.kind /\ walk'.ids = Listed
      /\ walk'.offset = walk.offset + Cardinality(Read) /\ walk'.counted = Counted
      /\ walk'.pages = walk.pages + 1
  BY <1>1, <1>3 DEF Walks
<1>5. Listed \subseteq Titles /\ Counted \in Nat
  <2>1. Cardinality(WalkMembers) \in Nat
    BY <1>2, TitlesAreFinite
  <2> QED
    BY <1>2, <1>3, <2>1 DEF Listed, Counted, Walks, WalkMembers
<1>6. MembershipTypeOK'
  <2>1. walk.offset + Cardinality(Read) \in Nat /\ walk.pages + 1 \in 0 .. MaxIdentityPages
    BY <1>1, <1>2, <1>3 DEF Walks
  <2>2. walk' = [lib |-> walk.lib, kind |-> walk.kind, ids |-> Listed,
                 offset |-> walk.offset + Cardinality(Read), counted |-> Counted,
                 pages |-> walk.pages + 1]
    BY <1>1, <1>3 DEF Walks
  <2>3. walk' \in Walks
    BY <1>3, <1>5, <2>1, <2>2 DEF Walks
  <2> QED
    BY <1>1, <2>3 DEF MembershipTypeOK
<1>7. WalkMembers' = WalkMembers /\ \A t : WalkPlace(t)' = WalkPlace(t)
  BY <1>1, <1>4 DEF WalkMembers, WalkPlace, Place, Members
<1>8. walk.pages + 1 # 0 /\ walk.offset \in Nat /\ walk.pages \in Nat
  BY <1>3 DEF Walks
<1>9. WalkIsOfALibrary'
  BY <1>1, <1>4, <1>7, <1>8 DEF WalkIsOfALibrary
<1>10. AheadOfTheWalk'
  <2> SUFFICES ASSUME "left" \notin shifts, NEW t \in WalkMembers, t \notin missed, t \notin Listed
               PROVE  WalkPlace(t) >= walk.offset + Cardinality(Read)
    BY <1>1, <1>4, <1>7 DEF AheadOfTheWalk
  <2>1. t \notin Read /\ WalkPlace(t) >= walk.offset
    BY <1>1 DEF Listed, AheadOfTheWalk
  <2> QED
    BY <1>2, <1>8, <2>1
<1>11. NoMoreThanCounted'
  <2> SUFFICES ASSUME "came" \notin shifts
               PROVE  Cardinality(Listed \cup WalkMembers) <= Counted
    BY <1>1, <1>4, <1>7 DEF NoMoreThanCounted
  <2>1. Listed \cup WalkMembers = walk.ids \cup WalkMembers
    BY <1>2 DEF Listed
  <2>2. CASE walk.pages = 0
    <3>1. walk.ids \cup WalkMembers = WalkMembers
      BY <1>1, <2>2 DEF WalkIsOfALibrary
    <3> QED
      BY <1>5, <2>1, <2>2, <3>1 DEF Counted, WalkMembers
  <2>3. CASE walk.pages # 0
    BY <1>1, <2>1, <2>3 DEF Counted, NoMoreThanCounted
  <2> QED
    BY <2>2, <2>3
<1> QED
  BY <1>1, <1>6, <1>9, <1>10, <1>11

\* The last page of a walk that lists as many as were counted: all that was there.
LEMMA ReplaceKeeps ==
  ASSUME MembershipInv, ReplaceMembership
  PROVE  /\ MembershipInv'
         /\ \A l \in Libraries \ {walk.lib} : members'[l] = members[l]
         /\ \A t \in members[walk.lib] \ members'[walk.lib] :
              t \in missed \/ shifts = {"came", "left"}
<1> USE MembershipAssumption DEF MembershipInv
<1>1. /\ WalkGoes /\ LastPage /\ Complete(Listed, Counted) /\ walk.lib \in Libraries
      /\ registry' = [registry EXCEPT ![walk.lib].membership = "current"]
      /\ members' = IF Listed = {} THEN members ELSE [members EXCEPT ![walk.lib] = Listed]
      /\ walkStage' = "pass" /\ walk' = NoWalk /\ missed' = {} /\ shifts' = {}
      /\ UNCHANGED <<served, serverChanges, walkDue, walkFaults>>
  BY DEF ReplaceMembership, WalkGoes, EndWalk, theServer, WalkIsOfALibrary
<1>2. /\ WalkMembers \subseteq Titles /\ Read \subseteq WalkMembers
      /\ \A t \in WalkMembers : WalkPlace(t) \in Nat
      /\ \A t \in WalkMembers \ Read : WalkPlace(t) >= walk.offset =>
           WalkPlace(t) >= walk.offset + IdentityPageSize
      /\ \A t \in WalkMembers : WalkPlace(t) < walk.offset + IdentityPageSize
  BY <1>1, WalkPage
<1>3. walk \in Walks /\ walk.ids \subseteq Titles /\ walk.offset \in Nat /\ walk.counted \in Nat
      /\ shifts \subseteq {"came", "left"}
  BY DEF MembershipTypeOK, Walks
<1>4. Listed \in SUBSET Titles
  BY <1>2, <1>3 DEF Listed
<1>5. MembershipInv'
  <2>1. NoWalk \in Walks
    BY DEF NoWalk, Walks
  <2>2. registry' \in [Libraries -> [kind : LibraryKinds, membership : {"unwalked", "owed", "current"}]]
    BY <1>1 DEF MembershipTypeOK
  <2>3. members' \in [Libraries -> SUBSET Titles]
    BY <1>1, <1>4 DEF MembershipTypeOK
  <2>4. MembershipTypeOK'
    BY <1>1, <2>1, <2>2, <2>3 DEF MembershipTypeOK
  <2> QED
    BY <1>1, <2>4, NoWalkKeeps DEF WalkGoes
<1>6. ASSUME NEW t \in Titles \ missed, shifts # {"came", "left"}
      PROVE  t \in Listed
  <2>1. t \in WalkMembers
    BY <1>1 DEF WalkIsOfALibrary
  <2>2. CASE "left" \notin shifts
    <3>1. t \in walk.ids \/ WalkPlace(t) >= walk.offset
      BY <1>1, <2>1, <2>2 DEF AheadOfTheWalk
    <3>2. WalkPlace(t) \in Nat /\ WalkPlace(t) < walk.offset + IdentityPageSize
      BY <1>2, <2>1
    <3>3. t \in walk.ids \/ t \in Read
      BY <1>2, <1>3, <2>1, <3>1, <3>2
    <3> QED
      BY <3>3 DEF Listed
  <2>3. CASE "came" \notin shifts
    <3> DEFINE all == walk.ids \cup WalkMembers
    <3>1. all \in SUBSET Titles /\ Listed \in SUBSET all
      BY <1>2, <1>3 DEF Listed
    <3>2. Cardinality(all) <= Counted
      <4>1. CASE walk.pages = 0
        <5>1. all = WalkMembers
          BY <1>1, <4>1 DEF WalkIsOfALibrary
        <5>2. Cardinality(WalkMembers) \in Nat /\ Counted = Cardinality(WalkMembers)
          BY <1>2, <4>1, TitlesAreFinite DEF Counted, WalkMembers
        <5> QED
          BY <5>1, <5>2
      <4>2. CASE walk.pages # 0
        BY <1>1, <2>3, <4>2 DEF Counted, NoMoreThanCounted
      <4> QED
        BY <4>1, <4>2
    <3>3. Counted <= Cardinality(Listed)
      BY <1>1 DEF Complete
    <3> HIDE DEF all
    <3>4. Cardinality(all) \in Nat /\ Cardinality(Listed) \in Nat /\ Cardinality(Listed) <= Cardinality(all)
          /\ (Cardinality(Listed) = Cardinality(all) => Listed = all)
      BY <3>1, TitlesAreFinite
    <3>5. Counted \in Nat
      <4>1. Cardinality(WalkMembers) \in Nat
        BY <1>2, TitlesAreFinite
      <4> QED
        BY <1>3, <4>1 DEF Counted, WalkMembers
    <3>6. Listed = all
      BY <3>2, <3>3, <3>4, <3>5
    <3> QED
      BY <2>1, <3>6 DEF all
  <2> QED
    BY <1>3, <1>6, <2>2, <2>3
<1>7. \A l \in Libraries \ {walk.lib} : members'[l] = members[l]
  BY <1>1 DEF MembershipTypeOK
<1>8. ASSUME NEW t \in members[walk.lib] \ members'[walk.lib]
      PROVE  t \in missed \/ shifts = {"came", "left"}
  <2>1. t \in Titles /\ t \notin Listed
    BY <1>1 DEF MembershipTypeOK
  <2> QED
    BY <1>6, <2>1
<1> QED
  BY <1>5, <1>7, <1>8

MemberKept ==
  \A l \in Libraries : \A t \in members[l] \ members'[l] :
    \/ served[l].kind \notin CatalogKinds
    \/ walk.lib = l /\ (t \in missed \/ shifts = {"came", "left"})

LEMMA MembershipStep == MembershipInv /\ [MembershipNext]_membershipVars => MembershipInv' /\ MemberKept
<1> SUFFICES ASSUME MembershipInv, [MembershipNext]_membershipVars
             PROVE  MembershipInv' /\ MemberKept
  OBVIOUS
<1> USE DEF MemberKept
<1>1. CASE UNCHANGED membershipVars
  BY <1>1 DEF membershipVars, MembershipInv, MembershipTypeOK, WalkIsOfALibrary, AheadOfTheWalk,
     NoMoreThanCounted, WalkGoes, WalkMembers, WalkPlace, Place, Members
<1>2. ASSUME NEW l \in Libraries, TitleComesOrGoes(l) \/ LibraryIsEdited(l)
      PROVE  MembershipInv' /\ MemberKept
  <2>1. served[l].kind \in LibraryKinds /\ served[l].titles \subseteq Titles
    BY DEF MembershipInv, MembershipTypeOK
  <2>2. PICK kind \in LibraryKinds, titles \in SUBSET Titles : ServerChange(l, kind, titles)
    BY <1>2, <2>1 DEF TitleComesOrGoes, LibraryIsEdited
  <2>3. members' = members
    BY <2>2 DEF ServerChange
  <2> QED
    BY <2>2, <2>3, ServerKeeps
<1>3. CASE ReplaceLibraries
  <2>1. \A l \in Libraries : served[l].kind \in CatalogKinds => members'[l] = members[l]
    BY <1>3 DEF ReplaceLibraries
  <2> QED
    BY <1>3, <2>1, ListKeeps
<1>4. CASE KeepLibraries \/ WalkMembership(TRUE) \/ WalkMembership(FALSE) \/ PassEnds
  <2>1. members' = members
    BY <1>4 DEF KeepLibraries, WalkMembership, PassEnds
  <2> QED
    BY <1>4, <2>1, ListKeeps
<1>5. CASE CycleStops \/ KeepMembership \/ WalkFails(TRUE) \/ WalkFails(FALSE) \/ NextPage
           \/ \E l \in Libraries, kind \in CatalogKinds : StartWalk(l, kind)
  BY <1>5, StopKeeps, NextPageKeeps, StartWalkKeeps
<1>6. CASE ReplaceMembership
  <2>1. /\ MembershipInv'
        /\ \A l \in Libraries \ {walk.lib} : members'[l] = members[l]
        /\ \A t \in members[walk.lib] \ members'[walk.lib] :
             t \in missed \/ shifts = {"came", "left"}
    BY <1>6, ReplaceKeeps
  <2> QED
    BY <2>1
<1> QED
  BY <1>1, <1>2, <1>3, <1>4, <1>5, <1>6 DEF MembershipNext, WalkStep

(* The server's libraries, what is stored of them and the walk keep their types          *)
(* (membership_pass).                                                                  *)
THEOREM MembershipTypes == MembershipSpec => []MembershipTypeOK
<1>1. MembershipInv => MembershipTypeOK
  BY DEF MembershipInv
<1> QED
  BY <1>1, MembershipInitially, MembershipStep, PTL DEF MembershipSpec

(* A title that a library had before and during the whole walk keeps its membership,      *)
(* although pages shift under the walk, as long as titles only come or only leave         *)
(* meanwhile: what MembershipFollows says of every step (member_ids).                   *)
THEOREM MembersAreKept == MembershipSpec => StableMemberKept
<1>1. MembershipInv /\ [MembershipNext]_membershipVars => [MemberKept]_membershipVars
  BY MembershipStep
<1> QED
  BY <1>1, MembershipInitially, MembershipStep, PTL DEF MembershipSpec, StableMemberKept, MemberKept

-----------------------------------------------------------------------------------
(* Collection titles.                                                                  *)
(* An answer holds the first titles of the provider's list, whatever the pages, the      *)
(* limit and the cache, and who waited for a validation that found an outage does not    *)
(* ask again before it is over, for any list, requests and slots (CollectionProvider).    *)
(* A request that pages has kept the wanted rows of what it has read (RowsRead), because   *)
(* what a page keeps continues what the pages before it kept (WantedJoins): that is shown  *)
(* of lists of every length, by their least counterexample (Upwards).                    *)

Row == [id : Nat, wanted : BOOLEAN]
Kept(f, s) ==
  /\ f \in [0 .. Len(s) -> Seq(Row)] /\ f[0] = << >>
  /\ \A n \in 1 .. Len(s) : f[n] = IF s[n].wanted THEN Append(f[n - 1], s[n]) ELSE f[n - 1]

\* A statement about each number up to n, if it holds of 0 and is handed on.
LEMMA Upwards ==
  ASSUME NEW n \in Nat, NEW S \in SUBSET (0 .. n), 0 \in S,
         \A k \in 1 .. n : k - 1 \in S => k \in S
  PROVE  S = 0 .. n
<1> DEFINE T == (0 .. n) \ S
<1>1. T = {}
  <2> SUFFICES ASSUME T # {} PROVE FALSE
    OBVIOUS
  <2>1. T \in SUBSET Nat
    OBVIOUS
  <2>2. PICK k \in T : \A j \in T : k <= j
    <3>1. PICK k \in T : \A j \in T : ~(<<j, k>> \in OpToRel(<, Nat))
      BY <2>1, NatLessThanWellFounded, WFMin, Zenon
    <3>2. \A j \in T : ~(j < k)
      BY <2>1, <3>1 DEF OpToRel
    <3> QED
      BY <2>1, <3>2
  <2>3. k \in 1 .. n /\ k - 1 \in 0 .. n /\ k - 1 \notin T
    BY <2>2
  <2> QED
    BY <2>2, <2>3
<1> QED
  BY <1>1

\* The rows kept up to each place of a sequence are well defined.
LEMMA KeptExists ==
  ASSUME NEW s \in Seq(Row)
  PROVE  \E f : Kept(f, s)
<1> DEFINE N == Len(s)
           Upto(f, n) == /\ f[0] = << >>
                         /\ \A k \in 1 .. n : f[k] = IF s[k].wanted THEN Append(f[k - 1], s[k]) ELSE f[k - 1]
           Some(n) == \E f \in [0 .. n -> Seq(Row)] : Upto(f, n)
           S == {n \in 0 .. N : Some(n)}
<1>1. N \in Nat /\ \A k \in 1 .. N : s[k] \in Row
  BY LenProperties, ElementOfSeq
<1>2. Some(0)
  <2> DEFINE f == [k \in 0 .. 0 |-> << >>]
  <2>1. f \in [0 .. 0 -> Seq(Row)]
    BY EmptySeq
  <2>2. f[0] = << >> /\ 1 .. 0 = {}
    OBVIOUS
  <2> QED
    BY <2>1, <2>2
<1>3. ASSUME NEW n \in 1 .. N, Some(n - 1) PROVE Some(n)
  <2>1. PICK f \in [0 .. n - 1 -> Seq(Row)] : Upto(f, n - 1)
    BY <1>3
  <2> DEFINE last == IF s[n].wanted THEN Append(f[n - 1], s[n]) ELSE f[n - 1]
             g == [k \in 0 .. n |-> IF k = n THEN last ELSE f[k]]
  <2>2. last \in Seq(Row)
    <3>1. s[n] \in Row /\ f[n - 1] \in Seq(Row)
      BY <1>1, <2>1
    <3> QED
      BY <3>1, AppendProperties
  <2>3. g \in [0 .. n -> Seq(Row)]
    BY <1>1, <2>1, <2>2
  <2>4. g[0] = << >> /\ \A k \in 1 .. n - 1 : g[k] = f[k] /\ g[k - 1] = f[k - 1]
    BY <1>1, <2>1
  <2>5. g[n] = last /\ g[n - 1] = f[n - 1]
    BY <1>1
  <2> HIDE DEF g
  <2>6. Upto(g, n)
    <3>1. ASSUME NEW k \in 1 .. n
          PROVE  g[k] = IF s[k].wanted THEN Append(g[k - 1], s[k]) ELSE g[k - 1]
      <4>1. CASE k = n
        BY <2>5, <4>1
      <4>2. CASE k # n
        <5>1. k \in 1 .. n - 1
          BY <1>1, <4>2
        <5> QED
          BY <2>1, <2>4, <5>1
      <4> QED
        BY <4>1, <4>2
    <3> QED
      BY <2>4, <3>1
  <2> QED
    BY <2>3, <2>6
<1>4. Some(N)
  <2> HIDE DEF Some, N
  <2>1. 0 \in S /\ \A n \in 1 .. N : n - 1 \in S => n \in S
    BY <1>1, <1>2, <1>3
  <2> HIDE DEF S
  <2>2. S = 0 .. N
    BY <1>1, <2>1, Upwards DEF S
  <2> QED
    BY <1>1, <2>2 DEF S
<1> QED
  BY <1>4 DEF Kept

\* The wanted rows are those kept up to the end.
LEMMA WantedKept ==
  ASSUME NEW s \in Seq(Row)
  PROVE  \E f : Kept(f, s) /\ WantedRows(s) = f[Len(s)]
<1> DEFINE F(f) == [n \in 0 .. Len(s) |->
                      IF n = 0 THEN << >>
                      ELSE IF s[n].wanted THEN Append(f[n - 1], s[n]) ELSE f[n - 1]]
           w == CHOOSE f : f = F(f)
<1>1. Len(s) \in Nat
  BY LenProperties
<1>2. WantedRows(s) = w[Len(s)]
  BY DEF WantedRows
<1>3. PICK g : Kept(g, s)
  BY KeptExists
<1>4. g = F(g)
  <2>1. g \in [0 .. Len(s) -> Seq(Row)]
    BY <1>3 DEF Kept
  <2>2. ASSUME NEW n \in 0 .. Len(s) PROVE g[n] = F(g)[n]
    <3>1. CASE n = 0
      BY <1>3, <3>1 DEF Kept
    <3>2. CASE n # 0
      <4>1. n \in 1 .. Len(s)
        BY <1>1, <3>2
      <4> QED
        BY <1>3, <3>2, <4>1 DEF Kept
    <3> QED
      BY <3>1, <3>2
  <2> QED
    BY <2>1, <2>2
<1>5. w = F(w)
  BY <1>4
<1>6. Kept(w, s)
  <2> HIDE DEF w
  <2>1. DOMAIN w = 0 .. Len(s) /\ w[0] = << >>
        /\ \A n \in 1 .. Len(s) : w[n] = IF s[n].wanted THEN Append(w[n - 1], s[n]) ELSE w[n - 1]
    <3>1. DOMAIN w = 0 .. Len(s) /\ \A n \in 0 .. Len(s) :
            w[n] = IF n = 0 THEN << >>
                   ELSE IF s[n].wanted THEN Append(w[n - 1], s[n]) ELSE w[n - 1]
      BY ONLY <1>5
    <3>2. 0 \in 0 .. Len(s) /\ \A n \in 1 .. Len(s) : n \in 0 .. Len(s) /\ n # 0
      BY <1>1
    <3> QED
      BY ONLY <3>1, <3>2
  <2> DEFINE S == {n \in 0 .. Len(s) : w[n] \in Seq(Row)}
  <2>2. 0 \in S
    <3>1. w[0] \in Seq(Row)
      BY <2>1, EmptySeq
    <3> QED
      BY <1>1, <3>1
  <2>3. ASSUME NEW n \in 1 .. Len(s), n - 1 \in S PROVE n \in S
    <3>1. s[n] \in Row /\ w[n - 1] \in Seq(Row)
      BY <2>3, ElementOfSeq
    <3>2. Append(w[n - 1], s[n]) \in Seq(Row)
      BY <3>1, AppendProperties
    <3>3. w[n] \in Seq(Row)
      BY <2>1, <3>1, <3>2
    <3> QED
      BY <1>1, <3>3
  <2>4. S \in SUBSET (0 .. Len(s))
    OBVIOUS
  <2> HIDE DEF S
  <2>5. S = 0 .. Len(s)
    BY <1>1, <2>2, <2>3, <2>4, Upwards
  <2>6. w \in [0 .. Len(s) -> Seq(Row)]
    <3>1. \A n \in 0 .. Len(s) : w[n] \in Seq(Row)
      BY <2>5 DEF S
    <3>2. w = [n \in 0 .. Len(s) |-> w[n]]
      BY <1>5
    <3> QED
      BY <3>1, <3>2
  <2> QED
    BY <2>1, <2>6 DEF Kept
<1> QED
  BY <1>2, <1>6

LEMMA AppendJoins ==
  \A s, t \in Seq(Row), e \in Row : Append(s \o t, e) = s \o Append(t, e)
<1>1. SUFFICES ASSUME NEW s \in Seq(Row), NEW t \in Seq(Row), NEW e \in Row
               PROVE  Append(s \o t, e) = s \o Append(t, e)
  OBVIOUS
<1>2. s \o t \in Seq(Row) /\ <<e>> \in Seq(Row)
  BY ConcatProperties
<1>3. Append(s \o t, e) = (s \o t) \o <<e>> /\ Append(t, e) = t \o <<e>>
  BY <1>2, AppendIsConcat
<1>4. (s \o t) \o <<e>> = s \o (t \o <<e>>)
  BY <1>2, ConcatAssociative
<1> QED
  BY <1>3, <1>4

\* What is wanted of a part continues what was kept before it.
LEMMA KeptContinues ==
  ASSUME NEW s \in Seq(Row), NEW a \in 0 .. Len(s), NEW b \in a .. Len(s),
         NEW f, Kept(f, s)
  PROVE  /\ WantedRows(SubSeq(s, a + 1, b)) \in Seq(Row)
         /\ f[b] = f[a] \o WantedRows(SubSeq(s, a + 1, b))
<1> DEFINE t == SubSeq(s, a + 1, b)
<1>1. Len(s) \in Nat /\ \A k \in 1 .. Len(s) : s[k] \in Row
  BY LenProperties, ElementOfSeq
<1>2. /\ t \in Seq(Row) /\ Len(t) = b - a /\ b - a \in Nat
      /\ \A k \in 1 .. b - a : t[k] = s[a + k]
  <2>1. \A k \in a + 1 .. b : s[k] \in Row
    BY <1>1
  <2>2. a + 1 \in Int /\ b \in Int /\ b - (a + 1) + 1 = b - a
    BY <1>1
  <2>3. /\ t \in Seq(Row) /\ Len(t) = IF a + 1 <= b THEN b - (a + 1) + 1 ELSE 0
        /\ \A k \in 1 .. b - (a + 1) + 1 : t[k] = s[(a + 1) + k - 1]
    BY <2>1, <2>2, SubSeqProperties
  <2> HIDE DEF t
  <2>4. ASSUME NEW k \in 1 .. b - a PROVE t[k] = s[a + k]
    <3>1. (a + 1) + k - 1 = a + k
      BY <1>1
    <3> QED
      BY <2>2, <2>3, <3>1
  <2> QED
    BY <1>1, <2>3, <2>4
<1> HIDE DEF t
<1>3. PICK g : Kept(g, t) /\ WantedRows(t) = g[b - a]
  BY <1>2, WantedKept
<1>4. f[0] = << >> /\ g[0] = << >>
      /\ f \in [0 .. Len(s) -> Seq(Row)] /\ g \in [0 .. b - a -> Seq(Row)]
  BY <1>2, <1>3 DEF Kept
<1> DEFINE Continues(n) == f[a + n] = f[a] \o g[n]
           S == {n \in 0 .. b - a : Continues(n)}
<1>5. f[a] \in Seq(Row)
  BY <1>1, <1>4
<1>6. Continues(0)
  <2>1. f[a] \o << >> = f[a]
    BY <1>5, ConcatEmptySeq
  <2>2. a + 0 = a
    BY <1>1
  <2> QED
    BY <1>4, <2>1, <2>2
<1>7. ASSUME NEW n \in 1 .. b - a, Continues(n - 1) PROVE Continues(n)
  <2>1. f[a + (n - 1)] = f[a] \o g[n - 1] /\ n \in 0 .. b - a /\ n - 1 \in 0 .. b - a
    BY <1>2, <1>7
  <2>2. /\ a + n \in 1 .. Len(s) /\ (a + n) - 1 = a + (n - 1)
        /\ t[n] = s[a + n] /\ s[a + n] \in Row
    BY <1>1, <1>2
  <2>3. f[a + n] = IF s[a + n].wanted THEN Append(f[a + (n - 1)], s[a + n]) ELSE f[a + (n - 1)]
    BY <2>2 DEF Kept
  <2>4. g[n] = IF s[a + n].wanted THEN Append(g[n - 1], s[a + n]) ELSE g[n - 1]
    <3>1. n \in 1 .. Len(t)
      BY <1>2
    <3>2. g[n] = IF t[n].wanted THEN Append(g[n - 1], t[n]) ELSE g[n - 1]
      BY ONLY <1>3, <3>1 DEF Kept
    <3> QED
      BY <2>2, <3>2
  <2>5. g[n - 1] \in Seq(Row)
    BY <1>4, <2>1
  <2>6. Append(f[a] \o g[n - 1], s[a + n]) = f[a] \o Append(g[n - 1], s[a + n])
    BY ONLY <1>5, <2>2, <2>5, AppendJoins, Zenon
  <2> QED
    BY <2>1, <2>3, <2>4, <2>6
<1> HIDE DEF Continues
<1>8. 0 \in S /\ \A n \in 1 .. b - a : n - 1 \in S => n \in S
  BY <1>2, <1>6, <1>7
<1> HIDE DEF S
<1>9. S = 0 .. b - a
  BY <1>2, <1>8, Upwards DEF S
<1>10. Continues(b - a) /\ a + (b - a) = b
  BY <1>1, <1>2, <1>9 DEF S
<1>11. WantedRows(t) \in Seq(Row)
  <2>1. b - a \in 0 .. b - a
    BY <1>2
  <2> QED
    BY <1>3, <1>4, <2>1
<1> QED
  BY <1>3, <1>10, <1>11 DEF Continues, t

\* The wanted rows of a list up to a place, and those of a part behind it.
LEMMA WantedJoins ==
  ASSUME NEW s \in Seq(Row), NEW a \in 0 .. Len(s), NEW b \in a .. Len(s)
  PROVE  /\ WantedRows(SubSeq(s, 1, a)) \in Seq(Row)
         /\ WantedRows(SubSeq(s, a + 1, b)) \in Seq(Row)
         /\ WantedRows(SubSeq(s, 1, b)) =
              WantedRows(SubSeq(s, 1, a)) \o WantedRows(SubSeq(s, a + 1, b))
<1>1. Len(s) \in Nat
  BY LenProperties
<1>2. PICK f : Kept(f, s)
  BY KeptExists
<1>3. ASSUME NEW d \in 0 .. Len(s)
      PROVE  WantedRows(SubSeq(s, 1, d)) \in Seq(Row) /\ f[d] = WantedRows(SubSeq(s, 1, d))
  <2>1. 0 \in 0 .. Len(s) /\ d \in 0 .. Len(s) /\ 0 + 1 = 1
    BY <1>1
  <2>2. WantedRows(SubSeq(s, 0 + 1, d)) \in Seq(Row)
        /\ f[d] = f[0] \o WantedRows(SubSeq(s, 0 + 1, d))
    BY <1>2, <2>1, KeptContinues
  <2>3. f[0] = << >>
    BY <1>2 DEF Kept
  <2> QED
    BY <2>1, <2>2, <2>3, ConcatEmptySeq
<1>4. b \in 0 .. Len(s)
  BY <1>1
<1>5. WantedRows(SubSeq(s, a + 1, b)) \in Seq(Row)
      /\ f[b] = f[a] \o WantedRows(SubSeq(s, a + 1, b))
  BY <1>2, KeptContinues
<1> QED
  BY <1>3, <1>4, <1>5

\* What a request may hold, and what is stored of its answer.
ListStart(limit) == Distinct(FirstRows(WantedRows(ProviderRows), limit))
ProviderResults == {NoResult} \cup {ListStart(limit) : limit \in Limits}
Resolves == [at : Stages, provider : Providers, limit : Limits \cup {0}, inside : BOOLEAN,
             offset : Nat, rows : Seq(Row), result : ProviderResults]
RowsRead(q) ==
  q.offset <= Len(ProviderRows) /\ q.rows = WantedRows(SubSeq(ProviderRows, 1, q.offset))
ResolveSound(q) ==
  /\ q \in Resolves /\ RowsRead(q)
  /\ q.at # "idle" => q.limit \in Limits
  /\ q.at = "answered" => q.result = ListStart(q.limit)

Credentials == [Providers -> [valid : BOOLEAN, backedOff : BOOLEAN]]
Inside == {r \in Resolvers : resolver[r].inside}

ProviderKinds ==
  /\ configured \in [Providers -> BOOLEAN] /\ credential \in Credentials
  /\ validated \subseteq Providers /\ validationGate \in [Providers -> Resolvers \cup {"free"}]
  /\ waited \subseteq Resolvers
  /\ resolves \in 0 .. MaxResolves /\ keyCalls \in 0 .. MaxKeyCalls
RequestsSound ==
  /\ resolver \in [Resolvers -> Resolves] /\ \A r \in Resolvers : ResolveSound(resolver[r])
SlotsHold == Cardinality(Inside) <= Slots
CacheSound ==
  /\ resultCache \in [Providers \X Limits -> ProviderResults]
  /\ \A p \in Providers, l \in Limits : resultCache[<<p, l>>] \in {NoResult, ListStart(l)}
GateHeld ==
  \A r \in Resolvers :
    resolver[r].at = "validating" => validationGate[resolver[r].provider] = r
WaitersWait ==
  \A r \in waited : credential[resolver[r].provider].backedOff /\ resolver[r].at # "validating"
ProviderInv ==
  ProviderKinds /\ RequestsSound /\ SlotsHold /\ CacheSound /\ GateHeld /\ WaitersWait

LEMMA InsideIsFinite ==
  ASSUME NEW S \in SUBSET Resolvers
  PROVE  IsFiniteSet(S) /\ Cardinality(S) \in Nat
<1>1. IsFiniteSet(S)
  BY CollectionProviderAssumption, FS_Subset
<1> QED
  BY <1>1, FS_CardinalityType

\* A request at its start is sound.
LEMMA StartsSound ==
  /\ ResolveSound(NoResolve)
  /\ \A p \in Providers, limit \in Limits, inside \in BOOLEAN :
       ResolveSound([NoResolve EXCEPT !.at = "asked", !.provider = p, !.limit = limit,
                                      !.inside = inside])
<1>1. Len(ProviderRows) \in Nat /\ << >> \in Seq(Row)
  BY CollectionProviderAssumption, LenProperties, EmptySeq
<1>2. WantedRows(SubSeq(ProviderRows, 1, 0)) = << >>
  <2>1. SubSeq(ProviderRows, 1, 0) = << >>
    OBVIOUS
  <2>2. << >> \in Seq(Row) /\ Len(<< >>) = 0
    BY <1>1
  <2>3. PICK f : Kept(f, << >>) /\ WantedRows(<< >>) = f[Len(<< >>)]
    BY <2>2, WantedKept
  <2> QED
    BY <2>1, <2>2, <2>3 DEF Kept
<1>3. NoResult \in ProviderResults
  BY DEF ProviderResults
<1>4. ResolveSound(NoResolve)
  <2>1. NoResolve \in Resolves
    BY <1>1, <1>3 DEF NoResolve, Resolves, Stages, Providers
  <2>2. NoResolve.at = "idle" /\ NoResolve.offset = 0 /\ NoResolve.rows = << >>
    BY DEF NoResolve
  <2> QED
    BY <1>1, <1>2, <2>1, <2>2 DEF ResolveSound, RowsRead
<1>5. ASSUME NEW p \in Providers, NEW limit \in Limits, NEW inside \in BOOLEAN
      PROVE  ResolveSound([NoResolve EXCEPT !.at = "asked", !.provider = p, !.limit = limit,
                                            !.inside = inside])
  <2> DEFINE q == [NoResolve EXCEPT !.at = "asked", !.provider = p, !.limit = limit,
                                    !.inside = inside]
  <2>1. q \in Resolves
    BY <1>1, <1>3 DEF NoResolve, Resolves, Stages
  <2>2. q.at = "asked" /\ q.limit = limit /\ q.offset = 0 /\ q.rows = << >>
    BY DEF NoResolve
  <2> HIDE DEF q
  <2>3. ResolveSound(q)
    BY <1>1, <1>2, <2>1, <2>2 DEF ResolveSound, RowsRead
  <2> QED
    BY <2>3 DEF q
<1> QED
  BY <1>4, <1>5

\* One request changes: all are sound, and no slot too many is taken.
LEMMA OneMoves ==
  ASSUME RequestsSound, SlotsHold, NEW r \in Resolvers, NEW q, ResolveSound(q),
         resolver' = [resolver EXCEPT ![r] = q],
         q.inside => resolver[r].inside \/ Cardinality(Inside) < Slots
  PROVE  RequestsSound' /\ SlotsHold'
<1>1. /\ q \in Resolves /\ resolver' \in [Resolvers -> Resolves]
      /\ resolver'[r] = q /\ \A o \in Resolvers \ {r} : resolver'[o] = resolver[o]
  BY DEF RequestsSound, ResolveSound
<1>2. RequestsSound'
  BY <1>1 DEF RequestsSound
<1>3. IsFiniteSet(Inside) /\ Cardinality(Inside) \in Nat
  BY InsideIsFinite DEF Inside
<1>4. Slots \in Nat
  BY CollectionProviderAssumption
<1>5. CASE q.inside => resolver[r].inside
  <2>1. Inside' \subseteq Inside
    BY <1>1, <1>5 DEF Inside
  <2>2. Cardinality(Inside') <= Cardinality(Inside) /\ Cardinality(Inside') \in Nat
    BY <1>3, <2>1, FS_Subset, FS_CardinalityType
  <2> QED
    BY <1>2, <1>3, <1>4, <2>2 DEF SlotsHold
<1>6. CASE ~(q.inside => resolver[r].inside)
  <2>1. Inside' = Inside \cup {r}
    BY <1>1, <1>6 DEF Inside
  <2>2. Cardinality(Inside') <= Cardinality(Inside) + 1 /\ Cardinality(Inside') \in Nat
    BY <1>3, <2>1, FS_AddElement, FS_CardinalityType
  <2>3. Cardinality(Inside) < Slots
    BY <1>6
  <2> QED
    BY <1>2, <1>3, <1>4, <2>2, <2>3 DEF SlotsHold
<1> QED
  BY <1>5, <1>6

\* A request goes on to another stage, or ends.
LEMMA GoesOn ==
  ASSUME RequestsSound, SlotsHold, NEW r \in Resolvers, resolver[r].at # "idle",
         NEW stage \in Stages \ {"idle", "answered"}, GoTo(r, stage)
  PROVE  /\ RequestsSound' /\ SlotsHold'
         /\ resolver'[r] = [resolver[r] EXCEPT !.at = stage]
         /\ \A o \in Resolvers \ {r} : resolver'[o] = resolver[o]
<1> DEFINE q == [resolver[r] EXCEPT !.at = stage]
<1>1. resolver[r] \in Resolves /\ ResolveSound(resolver[r])
  BY DEF RequestsSound
<1>2. q \in Resolves
  BY <1>1 DEF Resolves
<1>3. q.offset = resolver[r].offset /\ q.rows = resolver[r].rows /\ q.limit = resolver[r].limit
      /\ q.at = stage /\ q.inside = resolver[r].inside
  BY <1>1 DEF Resolves
<1>4. resolver' = [resolver EXCEPT ![r] = q]
  BY DEF GoTo
<1> HIDE DEF q
<1>5. ResolveSound(q)
  BY <1>1, <1>2, <1>3 DEF ResolveSound, RowsRead
<1>6. RequestsSound' /\ SlotsHold'
  BY <1>3, <1>4, <1>5, OneMoves
<1> QED
  BY <1>4, <1>6 DEF q, RequestsSound

LEMMA RequestEnds ==
  ASSUME RequestsSound, SlotsHold, NEW r \in Resolvers, resolver[r].at # "idle",
         NEW stage \in {"refused", "answered"}, NEW result \in ProviderResults, End(r, stage, result),
         stage = "answered" => result = ListStart(resolver[r].limit)
  PROVE  /\ RequestsSound' /\ SlotsHold'
         /\ resolver'[r] = [resolver[r] EXCEPT !.at = stage, !.result = result, !.inside = FALSE]
         /\ \A o \in Resolvers \ {r} : resolver'[o] = resolver[o]
<1> DEFINE q == [resolver[r] EXCEPT !.at = stage, !.result = result, !.inside = FALSE]
<1>1. resolver[r] \in Resolves /\ ResolveSound(resolver[r]) /\ resolver[r].limit \in Limits
  BY DEF RequestsSound, ResolveSound
<1>2. result \in ProviderResults /\ stage \in Stages
  BY DEF Stages
<1>3. q \in Resolves
  BY <1>1, <1>2 DEF Resolves
<1>4. q.offset = resolver[r].offset /\ q.rows = resolver[r].rows /\ q.limit = resolver[r].limit
      /\ q.at = stage /\ q.result = result /\ q.inside = FALSE
  BY <1>1 DEF Resolves
<1>5. resolver' = [resolver EXCEPT ![r] = q]
  BY DEF End, KeepsSlot
<1> HIDE DEF q
<1>6. ResolveSound(q)
  BY <1>1, <1>3, <1>4 DEF ResolveSound, RowsRead
<1>7. RequestsSound' /\ SlotsHold'
  BY <1>4, <1>5, <1>6, OneMoves
<1> QED
  BY <1>5, <1>7 DEF q, RequestsSound

LEMMA Refused ==
  ASSUME RequestsSound, SlotsHold, NEW r \in Resolvers, resolver[r].at # "idle", Refuse(r)
  PROVE  /\ RequestsSound' /\ SlotsHold'
         /\ resolver'[r].at = "refused" /\ resolver'[r].provider = resolver[r].provider
         /\ \A o \in Resolvers \ {r} : resolver'[o] = resolver[o]
<1>1. End(r, "refused", NoResult) /\ NoResult \in ProviderResults /\ "refused" \in {"refused", "answered"}
  BY DEF Refuse, ProviderResults
<1>2. /\ RequestsSound' /\ SlotsHold' /\ \A o \in Resolvers \ {r} : resolver'[o] = resolver[o]
      /\ resolver'[r] = [resolver[r] EXCEPT !.at = "refused", !.result = NoResult, !.inside = FALSE]
  BY <1>1, RequestEnds
<1>3. resolver[r] \in Resolves
  BY DEF RequestsSound
<1> QED
  BY <1>2, <1>3 DEF Resolves

LEMMA ProviderInitially == ProviderInit => ProviderInv
<1> SUFFICES ASSUME ProviderInit
             PROVE  ProviderInv
  OBVIOUS
<1> USE CollectionProviderAssumption DEF ProviderInit
<1>1. ProviderKinds
  BY DEF ProviderKinds, Credentials
<1>2. RequestsSound
  BY StartsSound DEF RequestsSound, ResolveSound
<1>3. \A r \in Resolvers : resolver[r].at = "idle" /\ resolver[r].inside = FALSE
  BY DEF NoResolve
<1>4. SlotsHold
  <2>1. Inside = {}
    BY <1>3 DEF Inside
  <2> QED
    BY <2>1, FS_EmptySet DEF SlotsHold
<1>5. CacheSound
  BY DEF CacheSound, ProviderResults
<1>6. GateHeld /\ WaitersWait
  BY <1>3 DEF GateHeld, WaitersWait
<1> QED
  BY <1>1, <1>2, <1>4, <1>5, <1>6 DEF ProviderInv

\* Who still waits for a provider waits while it is backed off.
LEMMA WaitsOnWait ==
  ASSUME ProviderInv, NEW p \in Providers, credential' \in Credentials,
         \A o \in Providers \ {p} : credential'[o].backedOff = credential[o].backedOff
  PROVE  WaitsOn(p) \subseteq waited
         /\ \A r \in WaitsOn(p) : credential'[resolver[r].provider].backedOff
<1>1. ASSUME NEW r \in WaitsOn(p)
      PROVE  r \in waited /\ credential'[resolver[r].provider].backedOff
  <2>1. r \in waited /\ (credential'[p].backedOff \/ resolver[r].provider # p)
    BY <1>1 DEF WaitsOn
  <2>2. resolver[r].provider \in Providers /\ credential[resolver[r].provider].backedOff
    BY <2>1 DEF ProviderInv, ProviderKinds, RequestsSound, Resolves, WaitersWait
  <2> QED
    BY <2>1, <2>2
<1> QED
  BY <1>1

LEMMA OutcomeKeeps ==
  ASSUME ProviderInv, NEW p \in Providers, NEW outcome \in ProviderOutcomes,
         RecordProviderOutcome(p, outcome)
  PROVE  /\ credential' \in Credentials /\ validated' \subseteq Providers
         /\ waited' \subseteq waited
         /\ \A r \in waited' : credential'[resolver[r].provider].backedOff
<1>1. credential \in Credentials /\ validated \subseteq Providers
  BY DEF ProviderInv, ProviderKinds
<1>2. /\ credential' \in Credentials
      /\ \A o \in Providers \ {p} : credential'[o] = credential[o]
  <2>1. CASE outcome = "ok"
    BY <1>1, <2>1 DEF RecordProviderOutcome, Credentials
  <2>2. CASE outcome \in Transient
    BY <1>1, <2>2 DEF RecordProviderOutcome, Credentials, Transient
  <2>3. CASE outcome = "rejected" /\ p = "tmdb"
    BY <1>1, <2>3 DEF RecordProviderOutcome, Credentials, Transient
  <2>4. CASE outcome # "ok" /\ outcome \notin Transient /\ ~(outcome = "rejected" /\ p = "tmdb")
    BY <1>1, <2>4 DEF RecordProviderOutcome, Credentials, Transient
  <2> QED
    BY <2>1, <2>2, <2>3, <2>4
<1>3. validated' \subseteq Providers
  BY <1>1 DEF RecordProviderOutcome
<1>4. waited' = WaitsOn(p)
  BY DEF RecordProviderOutcome
<1> QED
  BY <1>2, <1>3, <1>4, WaitsOnWait

\* A request that is cached is answered with the start of the list.
LEMMA CachedIsTheStart ==
  ASSUME ProviderInv, NEW r \in Resolvers, resolver[r].at # "idle", Cached(r) # NoResult
  PROVE  Cached(r) = ListStart(resolver[r].limit)
<1>1. resolver[r].limit \in Limits /\ resolver[r].provider \in Providers
  BY DEF ProviderInv, RequestsSound, ResolveSound, Resolves
<1> QED
  BY <1>1 DEF ProviderInv, CacheSound, Cached

LEMMA StartKeepsRequests ==
  ASSUME ProviderInv, NEW r \in Resolvers, NEW p \in Providers, NEW limit \in Limits,
         ResolveAsync(r, p, limit)
  PROVE  ProviderInv'
<1> USE DEF ProviderInv
<1> DEFINE q == [NoResolve EXCEPT !.at = "asked", !.provider = p, !.limit = limit,
                                  !.inside = resolver[r].inside]
<1>1. resolver' = [resolver EXCEPT ![r] = q] /\ resolver[r].inside \in BOOLEAN
  BY DEF ResolveAsync, RequestsSound, Resolves
<1>2. ResolveSound(q) /\ q.inside = resolver[r].inside /\ q.at = "asked"
  <2>1. ResolveSound(q)
    BY <1>1, StartsSound
  <2> QED
    BY <2>1 DEF NoResolve
<1> HIDE DEF q
<1>3. RequestsSound' /\ SlotsHold'
  BY <1>1, <1>2, OneMoves
<1>4. resolver'[r].at = "asked" /\ \A o \in Resolvers \ {r} : resolver'[o] = resolver[o]
  BY <1>1, <1>2 DEF RequestsSound
<1>5. /\ UNCHANGED <<configured, keyCalls, credential, validated, validationGate, resultCache>>
      /\ waited' = waited \ {r} /\ resolves' \in 0 .. MaxResolves
  BY CollectionProviderAssumption DEF ResolveAsync, keys, WaitedNoMore, ProviderKinds
<1>6. GateHeld'
  BY <1>4, <1>5 DEF GateHeld
<1>7. WaitersWait'
  BY <1>4, <1>5 DEF WaitersWait, ProviderKinds
<1> QED
  BY <1>3, <1>5, <1>6, <1>7 DEF ProviderKinds, CacheSound

\* Whatever a request does that keeps the providers' state and does not begin a validation.
LEMMA QuietStepKeeps ==
  ASSUME ProviderInv, NEW r \in Resolvers, RequestsSound', SlotsHold',
         UNCHANGED <<configured, keyCalls, credential, validated, validationGate, resultCache,
                     waited, resolves>>,
         resolver'[r].at # "validating", resolver'[r].provider = resolver[r].provider,
         \A o \in Resolvers \ {r} : resolver'[o] = resolver[o]
  PROVE  ProviderInv'
<1> USE DEF ProviderInv
<1>1. GateHeld'
  BY DEF GateHeld
<1>2. WaitersWait'
  BY DEF WaitersWait, ProviderKinds
<1> QED
  BY <1>1, <1>2 DEF ProviderKinds, CacheSound

LEMMA CredentialKeeps ==
  ASSUME ProviderInv, NEW r \in Resolvers, Credential(r)
  PROVE  ProviderInv'
<1> USE DEF ProviderInv
<1>1. /\ resolver[r].at = "asked"
      /\ UNCHANGED <<configured, keyCalls, credential, validated, validationGate, resultCache,
                     waited, resolves>>
      /\ Refuse(r) \/ GoTo(r, "ready") \/ GoTo(r, "gate")
  BY DEF Credential, keys
<1>2. resolver[r] \in Resolves
  BY DEF RequestsSound
<1>3. CASE Refuse(r)
  <2>1. /\ RequestsSound' /\ SlotsHold' /\ \A o \in Resolvers \ {r} : resolver'[o] = resolver[o]
        /\ resolver'[r].at = "refused" /\ resolver'[r].provider = resolver[r].provider
    BY <1>1, <1>3, Refused
  <2> QED
    BY <1>1, <2>1, QuietStepKeeps
<1>4. ASSUME NEW stage \in {"ready", "gate"}, GoTo(r, stage)
      PROVE  ProviderInv'
  <2>1. stage \in Stages \ {"idle", "answered"}
    BY DEF Stages
  <2>2. /\ RequestsSound' /\ SlotsHold' /\ \A o \in Resolvers \ {r} : resolver'[o] = resolver[o]
        /\ resolver'[r] = [resolver[r] EXCEPT !.at = stage]
    BY <1>1, <1>4, <2>1, GoesOn
  <2>3. resolver'[r].at = stage /\ resolver'[r].provider = resolver[r].provider
    BY <1>2, <2>2 DEF Resolves
  <2>4. stage # "validating"
    OBVIOUS
  <2> QED
    BY <1>1, <2>2, <2>3, <2>4, QuietStepKeeps
<1> QED
  BY <1>1, <1>3, <1>4

LEMMA EnterValidationKeeps ==
  ASSUME ProviderInv, NEW r \in Resolvers, EnterValidation(r)
  PROVE  ProviderInv'
<1> USE DEF ProviderInv
<1> DEFINE p == resolver[r].provider
<1>1. /\ resolver[r].at = "gate" /\ validationGate[p] = "free"
      /\ UNCHANGED <<configured, keyCalls, credential, validated, resultCache, waited, resolves>>
  BY DEF EnterValidation, keys
<1>2. resolver[r] \in Resolves /\ p \in Providers
  BY DEF RequestsSound, Resolves
<1>3. CASE GoTo(r, "ready") /\ UNCHANGED validationGate
  <2>1. "ready" \in Stages \ {"idle", "answered"}
    BY DEF Stages
  <2>2. /\ RequestsSound' /\ SlotsHold' /\ \A o \in Resolvers \ {r} : resolver'[o] = resolver[o]
        /\ resolver'[r] = [resolver[r] EXCEPT !.at = "ready"]
    BY <1>1, <1>3, <2>1, GoesOn
  <2>3. resolver'[r].at = "ready" /\ resolver'[r].provider = resolver[r].provider
    BY <1>2, <2>2 DEF Resolves
  <2> QED
    BY <1>1, <1>3, <2>2, <2>3, QuietStepKeeps
<1>4. CASE Refuse(r) /\ UNCHANGED validationGate
  <2>1. /\ RequestsSound' /\ SlotsHold' /\ \A o \in Resolvers \ {r} : resolver'[o] = resolver[o]
        /\ resolver'[r].at = "refused" /\ resolver'[r].provider = resolver[r].provider
    BY <1>1, <1>4, Refused
  <2> QED
    BY <1>1, <1>4, <2>1, QuietStepKeeps
<1>5. CASE /\ ~credential[p].backedOff /\ GoTo(r, "validating")
           /\ validationGate' = [validationGate EXCEPT ![p] = r]
  <2>1. "validating" \in Stages \ {"idle", "answered"}
    BY DEF Stages
  <2>2. /\ RequestsSound' /\ SlotsHold' /\ \A o \in Resolvers \ {r} : resolver'[o] = resolver[o]
        /\ resolver'[r] = [resolver[r] EXCEPT !.at = "validating"]
    BY <1>1, <1>5, <2>1, GoesOn
  <2>3. resolver'[r].at = "validating" /\ resolver'[r].provider = p
    BY <1>2, <2>2 DEF Resolves
  <2>4. ProviderKinds'
    BY <1>1, <1>2, <1>5 DEF ProviderKinds
  <2>5. GateHeld'
    <3>1. ASSUME NEW o \in Resolvers, resolver'[o].at = "validating", o # r
          PROVE  validationGate'[resolver'[o].provider] = o
      <4>1. resolver'[o] = resolver[o] /\ validationGate[resolver[o].provider] = o
        BY <2>2, <3>1 DEF GateHeld
      <4>2. o # "free"
        BY CollectionProviderAssumption
      <4>3. resolver[o].provider # p
        BY <1>1, <4>1, <4>2
      <4>4. resolver[o].provider \in Providers
        BY DEF RequestsSound, Resolves
      <4> QED
        BY <1>5, <4>1, <4>3, <4>4 DEF ProviderKinds
    <3>2. validationGate'[p] = r
      BY <1>2, <1>5 DEF ProviderKinds
    <3> QED
      BY <2>3, <3>1, <3>2 DEF GateHeld
  <2>6. WaitersWait'
    <3>1. r \notin waited
      BY <1>5 DEF WaitersWait
    <3> QED
      BY <1>1, <2>2, <3>1 DEF WaitersWait, ProviderKinds
  <2> QED
    BY <1>1, <2>2, <2>4, <2>5, <2>6 DEF CacheSound
<1> QED
  BY <1>3, <1>4, <1>5 DEF EnterValidation, BackedOff

\* An answer from the cache.
LEMMA CachedAnswerKeeps ==
  ASSUME ProviderInv, NEW r \in Resolvers, resolver[r].at # "idle", Cached(r) # NoResult,
         End(r, "answered", Cached(r)),
         UNCHANGED <<configured, keyCalls, credential, validated, validationGate, resultCache,
                     waited, resolves>>
  PROVE  ProviderInv'
<1>1. RequestsSound /\ SlotsHold /\ resolver[r] \in Resolves /\ resolver[r].limit \in Limits
  BY DEF ProviderInv, RequestsSound, ResolveSound
<1>2. Cached(r) = ListStart(resolver[r].limit)
  BY CachedIsTheStart
<1>3. Cached(r) \in ProviderResults /\ "answered" \in {"refused", "answered"}
  BY <1>1, <1>2 DEF ProviderResults
<1>4. /\ RequestsSound' /\ SlotsHold' /\ \A o \in Resolvers \ {r} : resolver'[o] = resolver[o]
      /\ resolver'[r] = [resolver[r] EXCEPT !.at = "answered", !.result = Cached(r), !.inside = FALSE]
  BY <1>1, <1>2, <1>3, RequestEnds
<1>5. resolver'[r].at = "answered" /\ resolver'[r].provider = resolver[r].provider
  BY <1>1, <1>4 DEF Resolves
<1> QED
  BY <1>4, <1>5, QuietStepKeeps

LEMMA LookUpKeeps ==
  ASSUME ProviderInv, NEW r \in Resolvers, LookUp(r)
  PROVE  ProviderInv'
<1>1. /\ resolver[r].at = "ready" /\ RequestsSound /\ SlotsHold /\ resolver[r] \in Resolves
      /\ UNCHANGED <<configured, keyCalls, credential, validated, validationGate, resultCache,
                     waited, resolves>>
      /\ resolver[r].inside \in BOOLEAN
  BY DEF LookUp, keys, ProviderInv, RequestsSound, Resolves
<1>2. ASSUME NEW stage \in {"list", "pages", "slot"}, GoTo(r, stage)
      PROVE  ProviderInv'
  <2>1. stage \in Stages \ {"idle", "answered"}
    BY DEF Stages
  <2>2. /\ RequestsSound' /\ SlotsHold' /\ \A o \in Resolvers \ {r} : resolver'[o] = resolver[o]
        /\ resolver'[r] = [resolver[r] EXCEPT !.at = stage]
    BY <1>1, <1>2, <2>1, GoesOn
  <2>3. resolver'[r].at = stage /\ resolver'[r].provider = resolver[r].provider
    BY <1>1, <2>2 DEF Resolves
  <2>4. stage # "validating"
    OBVIOUS
  <2> QED
    BY <1>1, <2>2, <2>3, <2>4, QuietStepKeeps
<1>3. CASE resolver[r].inside
  <2>1. GoTo(r, IF resolver[r].provider = "mdblist" THEN "list" ELSE "pages")
    BY <1>3 DEF LookUp
  <2>2. CASE resolver[r].provider = "mdblist"
    BY <1>2, <2>1, <2>2
  <2>3. CASE resolver[r].provider # "mdblist"
    BY <1>2, <2>1, <2>3
  <2> QED
    BY <2>2, <2>3
<1>4. CASE ~resolver[r].inside /\ Cached(r) # NoResult
  <2>1. End(r, "answered", Cached(r))
    BY <1>4 DEF LookUp
  <2> QED
    BY <1>1, <1>4, <2>1, CachedAnswerKeeps
<1>5. CASE ~resolver[r].inside /\ Cached(r) = NoResult
  <2>1. GoTo(r, "slot")
    BY <1>5 DEF LookUp
  <2> QED
    BY <1>2, <2>1
<1> QED
  BY <1>1, <1>3, <1>4, <1>5

LEMMA EnterSlotKeeps ==
  ASSUME ProviderInv, NEW r \in Resolvers, EnterRequestGate(r)
  PROVE  ProviderInv'
<1>1. /\ resolver[r].at = "slot" /\ RequestsSound /\ SlotsHold /\ resolver[r] \in Resolves
      /\ UNCHANGED <<configured, keyCalls, credential, validated, validationGate, resultCache,
                     waited, resolves>>
      /\ Cardinality(Inside) < Slots
  BY DEF EnterRequestGate, SlotFree, keys, ProviderInv, RequestsSound, Inside
<1>2. CASE Cached(r) # NoResult
  <2>1. End(r, "answered", Cached(r))
    BY <1>2 DEF EnterRequestGate
  <2> QED
    BY <1>1, <1>2, <2>1, CachedAnswerKeeps
<1>3. CASE Cached(r) = NoResult
  <2> DEFINE q == [resolver[r] EXCEPT !.at = "asked", !.inside = TRUE]
  <2>1. resolver' = [resolver EXCEPT ![r] = q]
    BY <1>1, <1>3 DEF EnterRequestGate, RequestsSound
  <2>2. /\ q \in Resolves /\ q.offset = resolver[r].offset /\ q.rows = resolver[r].rows
        /\ q.limit = resolver[r].limit /\ q.at = "asked" /\ q.provider = resolver[r].provider
    BY <1>1 DEF Resolves, Stages
  <2> HIDE DEF q
  <2>3. ResolveSound(q)
    BY <1>1, <2>2 DEF RequestsSound, ResolveSound, RowsRead
  <2>4. RequestsSound' /\ SlotsHold'
    BY <1>1, <2>1, <2>3, OneMoves
  <2>5. resolver'[r] = q /\ \A o \in Resolvers \ {r} : resolver'[o] = resolver[o]
    BY <1>1, <2>1 DEF RequestsSound
  <2> QED
    BY <1>1, <2>2, <2>4, <2>5, QuietStepKeeps
<1> QED
  BY <1>2, <1>3

\* The page a request reads continues what it has read.
PageEnd(offset) ==
  IF offset + ProviderPageSize > Len(ProviderRows) THEN Len(ProviderRows)
  ELSE offset + ProviderPageSize

LEMMA PageReads ==
  ASSUME NEW q \in Resolves, RowsRead(q)
  PROVE  LET rows == q.rows \o WantedRows(PageAt(q.offset)) IN
         /\ NextOffset(q.offset) = PageEnd(q.offset) /\ PageEnd(q.offset) \in 0 .. Len(ProviderRows)
         /\ rows = WantedRows(SubSeq(ProviderRows, 1, PageEnd(q.offset)))
         /\ rows \in Seq(Row)
<1> DEFINE s == ProviderRows
           a == q.offset
           b == PageEnd(q.offset)
<1>1. s \in Seq(Row) /\ Len(s) \in Nat /\ ProviderPageSize \in Nat \ {0}
  BY CollectionProviderAssumption, LenProperties DEF Row
<1>2. a \in 0 .. Len(s) /\ b \in a .. Len(s) /\ b \in 0 .. Len(s)
  BY <1>1 DEF Resolves, RowsRead, PageEnd
<1>3. PageAt(a) = SubSeq(s, a + 1, b)
  BY DEF PageAt, PageEnd
<1>4. q.rows = WantedRows(SubSeq(s, 1, a))
  BY DEF RowsRead
<1> HIDE DEF s, a, b
<1>5. /\ WantedRows(SubSeq(s, 1, a)) \in Seq(Row) /\ WantedRows(SubSeq(s, a + 1, b)) \in Seq(Row)
      /\ WantedRows(SubSeq(s, 1, b)) = WantedRows(SubSeq(s, 1, a)) \o WantedRows(SubSeq(s, a + 1, b))
  BY <1>1, <1>2, WantedJoins
<1>6. WantedRows(SubSeq(s, 1, a)) \o WantedRows(SubSeq(s, a + 1, b)) \in Seq(Row)
  BY <1>5, ConcatProperties
<1>7. a + Len(PageAt(a)) = b
  <2>1. \A k \in a + 1 .. b : s[k] \in Row
    BY <1>1, <1>2, ElementOfSeq
  <2>2. a + 1 \in Int /\ b \in Int
    BY <1>1, <1>2
  <2>3. Len(SubSeq(s, a + 1, b)) = IF a + 1 <= b THEN b - (a + 1) + 1 ELSE 0
    BY <2>1, <2>2, SubSeqProperties
  <2> QED
    BY <1>1, <1>2, <1>3, <2>3
<1> QED
  BY <1>2, <1>3, <1>4, <1>5, <1>6, <1>7 DEF NextOffset, s, a, b

\* More rows behind do not change the first ones.
LEMMA FirstOfMore ==
  ASSUME NEW x \in Seq(Row), NEW y \in Seq(Row), NEW l \in Nat \ {0}, l <= Len(x)
  PROVE  FirstRows(x \o y, l) = FirstRows(x, l)
<1>1. Len(x) \in Nat /\ Len(y) \in Nat /\ Len(x \o y) = Len(x) + Len(y)
  BY LenProperties, ConcatProperties
<1>2. /\ FirstRows(x, l) = SubSeq(x, 1, l)
      /\ FirstRows(x \o y, l) = SubSeq(x \o y, 1, l)
  <2>1. (IF l < Len(x) THEN l ELSE Len(x)) = l /\ (IF l < Len(x \o y) THEN l ELSE Len(x \o y)) = l
    BY <1>1
  <2> QED
    BY <2>1 DEF FirstRows
<1>3. \A k \in 1 .. l : x[k] \in Row /\ (x \o y)[k] = x[k]
  BY <1>1, ConcatProperties, ElementOfSeq
<1>4. \A k \in 1 .. l : (x \o y)[k] \in Row
  BY <1>3
<1>5. /\ SubSeq(x, 1, l) \in Seq(Row) /\ Len(SubSeq(x, 1, l)) = l
      /\ \A k \in 1 .. l : SubSeq(x, 1, l)[k] = x[k]
  <2>1. 1 \in Int /\ l \in Int /\ l - 1 + 1 = l /\ \A k \in 1 .. l : 1 + k - 1 = k
    OBVIOUS
  <2> QED
    BY <1>3, <2>1, SubSeqProperties
<1>6. /\ SubSeq(x \o y, 1, l) \in Seq(Row) /\ Len(SubSeq(x \o y, 1, l)) = l
      /\ \A k \in 1 .. l : SubSeq(x \o y, 1, l)[k] = (x \o y)[k]
  <2> DEFINE z == x \o y
  <2>1. 1 \in Int /\ l \in Int /\ l - 1 + 1 = l /\ \A k \in 1 .. l : 1 + k - 1 = k
    OBVIOUS
  <2>2. \A k \in 1 .. l : z[k] \in Row
    BY <1>4
  <2> HIDE DEF z
  <2>3. /\ SubSeq(z, 1, l) \in Seq(Row) /\ Len(SubSeq(z, 1, l)) = l
        /\ \A k \in 1 .. l : SubSeq(z, 1, l)[k] = z[k]
    BY <2>1, <2>2, SubSeqProperties
  <2> QED
    BY <2>3 DEF z
<1>7. SubSeq(x \o y, 1, l) = SubSeq(x, 1, l)
  BY <1>3, <1>5, <1>6, SeqEqual
<1> QED
  BY <1>2, <1>7

\* When a request has read enough, what it answers is the start of the list.
LEMMA LastPageAnswers ==
  ASSUME NEW q \in Resolves, RowsRead(q), q.limit \in Limits,
         LET rows == q.rows \o WantedRows(PageAt(q.offset)) IN
           Len(rows) >= q.limit \/ q.offset + ProviderPageSize >= Len(ProviderRows)
  PROVE  Distinct(FirstRows(q.rows \o WantedRows(PageAt(q.offset)), q.limit)) = ListStart(q.limit)
<1> DEFINE s == ProviderRows
           b == PageEnd(q.offset)
           rows == q.rows \o WantedRows(PageAt(q.offset))
           rest == WantedRows(SubSeq(s, b + 1, Len(s)))
           limit == q.limit
<1>1. s \in Seq(Row) /\ Len(s) \in Nat /\ limit \in Nat \ {0} /\ ProviderPageSize \in Nat \ {0}
  BY CollectionProviderAssumption, LenProperties DEF Row
<1>2. b \in 0 .. Len(s) /\ rows = WantedRows(SubSeq(s, 1, b)) /\ rows \in Seq(Row)
  BY PageReads
<1>3. Len(s) \in b .. Len(s) /\ SubSeq(s, 1, Len(s)) = s
  BY <1>1, <1>2, SubSeqFull
<1>4. rest \in Seq(Row) /\ WantedRows(s) = rows \o rest
  <2> HIDE DEF s, b, rows
  <2>1. /\ WantedRows(SubSeq(s, b + 1, Len(s))) \in Seq(Row)
        /\ WantedRows(SubSeq(s, 1, Len(s))) =
             WantedRows(SubSeq(s, 1, b)) \o WantedRows(SubSeq(s, b + 1, Len(s)))
    BY <1>1, <1>2, <1>3, WantedJoins
  <2> QED
    BY <1>2, <1>3, <2>1
<1>5. FirstRows(rows, limit) = FirstRows(WantedRows(s), limit)
  <2>1. CASE Len(rows) >= limit
    <3>1. limit <= Len(rows)
      BY <1>1, <1>2, <2>1, LenProperties
    <3> HIDE DEF rows, rest, limit
    <3>2. FirstRows(rows \o rest, limit) = FirstRows(rows, limit)
      BY <1>1, <1>2, <1>4, <3>1, FirstOfMore
    <3> QED
      BY <1>4, <3>2
  <2>2. CASE q.offset + ProviderPageSize >= Len(s)
    <3>1. b = Len(s)
      <4>1. q.offset \in Nat
        BY DEF Resolves
      <4> QED
        BY <1>1, <2>2, <4>1 DEF PageEnd
    <3>2. rows = WantedRows(s)
      BY <1>2, <1>3, <3>1
    <3> QED
      BY <3>2
  <2> QED
    BY <2>1, <2>2
<1> QED
  BY <1>5 DEF ListStart

LEMMA ValidationKeeps ==
  ASSUME ProviderInv, NEW r \in Resolvers, NEW outcome \in ProviderOutcomes,
         ValidationAnswered(r, outcome)
  PROVE  ProviderInv'
<1> USE DEF ProviderInv
<1> DEFINE p == resolver[r].provider
           joined == {q \in Resolvers : /\ resolver[q].at = "gate" /\ resolver[q].provider = p
                                        /\ credential'[p].backedOff}
<1>1. /\ resolver[r].at = "validating" /\ resolver[r] \in Resolves /\ p \in Providers
      /\ UNCHANGED <<configured, keyCalls, resultCache, resolves>>
      /\ validationGate' = [validationGate EXCEPT ![p] = "free"]
      /\ waited' = WaitsOn(p) \cup joined
  BY DEF ValidationAnswered, keys, RequestsSound, Resolves
<1>2. AfterKeyCheck(p, outcome) \in [valid : BOOLEAN, backedOff : BOOLEAN]
  <2>1. credential[p].valid \in BOOLEAN /\ (p = "mdblist" \/ credential[p].valid) \in BOOLEAN
    BY <1>1 DEF ProviderKinds, Credentials
  <2>2. CASE outcome = "ok"
    BY <2>2 DEF AfterKeyCheck
  <2>3. CASE outcome = "rejected"
    BY <2>3 DEF AfterKeyCheck
  <2>4. CASE outcome = "limited"
    BY <2>1, <2>4, Zenon DEF AfterKeyCheck
  <2>5. CASE outcome \in {"down", "missing"}
    BY <2>1, <2>5 DEF AfterKeyCheck
  <2> QED
    BY <2>2, <2>3, <2>4, <2>5 DEF ProviderOutcomes
<1>3. /\ credential' = [credential EXCEPT ![p] = AfterKeyCheck(p, outcome)]
      /\ credential' \in Credentials
      /\ \A o \in Providers \ {p} : credential'[o].backedOff = credential[o].backedOff
  BY <1>1, <1>2 DEF ValidationAnswered, ProviderKinds, Credentials
<1>4. WaitsOn(p) \subseteq waited /\ \A o \in WaitsOn(p) : credential'[resolver[o].provider].backedOff
  BY <1>1, <1>3, WaitsOnWait
<1>5. /\ RequestsSound' /\ SlotsHold' /\ \A o \in Resolvers \ {r} : resolver'[o] = resolver[o]
      /\ resolver'[r].at # "validating" /\ resolver'[r].provider = p
  <2>1. CASE outcome = "ok"
    <3>1. GoTo(r, "ready") /\ "ready" \in Stages \ {"idle", "answered"}
      BY <2>1 DEF ValidationAnswered, Stages
    <3>2. /\ RequestsSound' /\ SlotsHold' /\ \A o \in Resolvers \ {r} : resolver'[o] = resolver[o]
          /\ resolver'[r] = [resolver[r] EXCEPT !.at = "ready"]
      BY <1>1, <3>1, GoesOn
    <3> QED
      BY <1>1, <3>2 DEF Resolves
  <2>2. CASE outcome # "ok"
    <3>1. Refuse(r)
      BY <2>2 DEF ValidationAnswered
    <3> QED
      BY <1>1, <3>1, Refused
  <2> QED
    BY <2>1, <2>2
<1>6. ProviderKinds'
  <2>1. validated' \subseteq Providers
    BY <1>1 DEF ValidationAnswered, ProviderKinds
  <2>2. waited' \subseteq Resolvers
    BY <1>1, <1>4 DEF ProviderKinds
  <2> QED
    BY <1>1, <1>3, <2>1, <2>2 DEF ProviderKinds
<1>7. GateHeld'
  <2>1. ASSUME NEW o \in Resolvers, resolver'[o].at = "validating"
        PROVE  validationGate'[resolver'[o].provider] = o
    <3>1. o # r /\ resolver'[o] = resolver[o] /\ validationGate[resolver[o].provider] = o
      BY <1>5, <2>1 DEF GateHeld
    <3>2. validationGate[p] = r
      BY <1>1 DEF GateHeld
    <3>3. resolver[o].provider \in Providers \ {p}
      BY <3>1, <3>2 DEF RequestsSound, Resolves
    <3> QED
      BY <1>1, <3>1, <3>3 DEF ProviderKinds
  <2> QED
    BY <2>1 DEF GateHeld
<1>8. WaitersWait'
  <2>1. ASSUME NEW o \in waited'
        PROVE  credential'[resolver'[o].provider].backedOff /\ resolver'[o].at # "validating"
    <3>1. resolver'[o].provider = resolver[o].provider /\ o \in Resolvers
      BY <1>1, <1>4, <1>5, <2>1 DEF ProviderKinds
    <3>2. CASE o \in WaitsOn(p)
      BY <1>4, <1>5, <3>1, <3>2 DEF WaitersWait
    <3>3. CASE o \in joined
      <4>1. resolver[o].at = "gate" /\ resolver[o].provider = p /\ credential'[p].backedOff
        BY <3>3
      <4> QED
        BY <1>5, <3>1, <4>1
    <3> QED
      BY <1>1, <2>1, <3>2, <3>3
  <2> QED
    BY <2>1 DEF WaitersWait
<1> QED
  BY <1>1, <1>5, <1>6, <1>7, <1>8 DEF CacheSound

\* A provider's answer to a request that is past its validation.
LEMMA AnswerKeeps ==
  ASSUME ProviderInv, NEW r \in Resolvers, NEW p \in Providers, NEW outcome \in ProviderOutcomes,
         RecordProviderOutcome(p, outcome), RequestsSound', SlotsHold', CacheSound',
         UNCHANGED <<configured, keyCalls, validationGate, resolves>>,
         resolver'[r].at # "validating", resolver'[r].provider = resolver[r].provider,
         \A o \in Resolvers \ {r} : resolver'[o] = resolver[o]
  PROVE  ProviderInv'
<1> USE DEF ProviderInv
<1>1. /\ credential' \in Credentials /\ validated' \subseteq Providers /\ waited' \subseteq waited
      /\ \A o \in waited' : credential'[resolver[o].provider].backedOff
  BY OutcomeKeeps
<1>2. ProviderKinds'
  BY <1>1 DEF ProviderKinds
<1>3. GateHeld'
  BY DEF GateHeld
<1>4. WaitersWait'
  BY <1>1 DEF WaitersWait, ProviderKinds
<1> QED
  BY <1>2, <1>3, <1>4

LEMMA ListKeepsRequests ==
  ASSUME ProviderInv, NEW r \in Resolvers, NEW outcome \in ProviderOutcomes, ListResolved(r, outcome)
  PROVE  ProviderInv'
<1>1. /\ resolver[r].at = "list" /\ RequestsSound /\ SlotsHold /\ resolver[r] \in Resolves
      /\ RecordProviderOutcome("mdblist", outcome) /\ "mdblist" \in Providers
      /\ UNCHANGED <<configured, keyCalls, validationGate, resultCache, resolves>>
      /\ CacheSound'
  BY DEF ListResolved, keys, ProviderInv, RequestsSound, Providers, CacheSound
<1>2. /\ RequestsSound' /\ SlotsHold' /\ \A o \in Resolvers \ {r} : resolver'[o] = resolver[o]
      /\ resolver'[r].at # "validating" /\ resolver'[r].provider = resolver[r].provider
  <2>1. CASE outcome = "ok"
    <3>1. GoTo(r, "pages") /\ "pages" \in Stages \ {"idle", "answered"}
      BY <2>1 DEF ListResolved, Stages
    <3>2. /\ RequestsSound' /\ SlotsHold' /\ \A o \in Resolvers \ {r} : resolver'[o] = resolver[o]
          /\ resolver'[r] = [resolver[r] EXCEPT !.at = "pages"]
      BY <1>1, <3>1, GoesOn
    <3> QED
      BY <1>1, <3>2 DEF Resolves
  <2>2. CASE outcome # "ok"
    <3>1. Refuse(r)
      BY <2>2 DEF ListResolved
    <3> QED
      BY <1>1, <3>1, Refused
  <2> QED
    BY <2>1, <2>2
<1> QED
  BY <1>1, <1>2, AnswerKeeps

WithRows(q, rows, next) == [q EXCEPT !.rows = rows, !.offset = next]

LEMMA MoreRows ==
  ASSUME NEW q \in Resolves, NEW rows \in Seq(Row), NEW next \in Nat
  PROVE  LET more == WithRows(q, rows, next) IN
         /\ more \in Resolves /\ more.offset = next /\ more.rows = rows /\ more.at = q.at
         /\ more.limit = q.limit /\ more.inside = q.inside /\ more.provider = q.provider
BY DEF Resolves, WithRows

LEMMA PageKeepsRequests ==
  ASSUME ProviderInv, NEW r \in Resolvers, NEW outcome \in ProviderOutcomes, PageAnswered(r, outcome)
  PROVE  ProviderInv'
<1> DEFINE q == resolver[r]
           rows == q.rows \o WantedRows(PageAt(q.offset))
           result == Distinct(FirstRows(rows, q.limit))
           last == Len(rows) >= q.limit \/ q.offset + ProviderPageSize >= Len(ProviderRows)
<1>1. /\ q.at = "pages" /\ RequestsSound /\ SlotsHold /\ q \in Resolves /\ RowsRead(q)
      /\ q.limit \in Limits /\ q.provider \in Providers /\ CacheSound
  BY DEF PageAnswered, ProviderInv, RequestsSound, ResolveSound, Resolves
<1>2. /\ RecordProviderOutcome(q.provider, outcome)
      /\ UNCHANGED <<configured, keyCalls, validationGate, resolves>>
  BY DEF PageAnswered, keys
<1>3. CASE outcome # "ok"
  <2>1. Refuse(r) /\ UNCHANGED resultCache
    BY <1>3 DEF PageAnswered
  <2>2. /\ RequestsSound' /\ SlotsHold' /\ \A o \in Resolvers \ {r} : resolver'[o] = resolver[o]
        /\ resolver'[r].at = "refused" /\ resolver'[r].provider = q.provider
    BY <1>1, <2>1, Refused
  <2>3. CacheSound'
    BY <1>1, <2>1 DEF CacheSound
  <2> QED
    BY <1>1, <1>2, <2>2, <2>3, AnswerKeeps
<1>4. CASE outcome = "ok" /\ last
  <2>1. /\ End(r, "answered", result)
        /\ resultCache' = [resultCache EXCEPT ![<<q.provider, q.limit>>] = result]
    BY <1>4 DEF PageAnswered
  <2>2. result = ListStart(q.limit)
    BY <1>1, <1>4, LastPageAnswers
  <2> HIDE DEF result
  <2>3. result \in ProviderResults /\ "answered" \in {"refused", "answered"}
    BY <1>1, <2>2 DEF ProviderResults
  <2>4. /\ RequestsSound' /\ SlotsHold' /\ \A o \in Resolvers \ {r} : resolver'[o] = resolver[o]
        /\ resolver'[r] = [q EXCEPT !.at = "answered", !.result = result, !.inside = FALSE]
    BY <1>1, <2>1, <2>2, <2>3, RequestEnds
  <2>5. resolver'[r].at = "answered" /\ resolver'[r].provider = q.provider
    BY <1>1, <2>4 DEF Resolves
  <2>6. CacheSound'
    BY <1>1, <2>1, <2>2, <2>3 DEF CacheSound
  <2> QED
    BY <1>1, <1>2, <2>4, <2>5, <2>6, AnswerKeeps
<1>5. CASE outcome = "ok" /\ ~last
  <2> DEFINE next == NextOffset(q.offset)
             more == WithRows(q, rows, next)
  <2>1. /\ resolver' = [resolver EXCEPT ![r].rows = rows, ![r].offset = next]
        /\ UNCHANGED resultCache
    BY <1>5 DEF PageAnswered
  <2>2. /\ next \in 0 .. Len(ProviderRows) /\ rows = WantedRows(SubSeq(ProviderRows, 1, next))
        /\ rows \in Seq(Row)
    BY <1>1, PageReads
  <2> HIDE DEF rows, next
  <2>3. resolver' = [resolver EXCEPT ![r] = more]
    BY <1>1, <2>1 DEF RequestsSound, WithRows
  <2>4. Len(ProviderRows) \in Nat
    BY CollectionProviderAssumption, LenProperties
  <2>5. /\ more \in Resolves /\ more.offset = next /\ more.rows = rows /\ more.at = "pages"
        /\ more.limit = q.limit /\ more.inside = q.inside /\ more.provider = q.provider
    <3>1. next \in Nat
      BY <2>2, <2>4
    <3> QED
      BY <1>1, <2>2, <3>1, MoreRows
  <2> HIDE DEF more
  <2>6. ResolveSound(more)
    BY <1>1, <2>2, <2>4, <2>5 DEF ResolveSound, RowsRead
  <2>7. RequestsSound' /\ SlotsHold'
    BY <1>1, <2>3, <2>5, <2>6, OneMoves
  <2>8. resolver'[r] = more /\ \A o \in Resolvers \ {r} : resolver'[o] = resolver[o]
    BY <1>1, <2>3 DEF RequestsSound
  <2>9. CacheSound'
    BY <1>1, <2>1 DEF CacheSound
  <2> QED
    BY <1>1, <1>2, <2>5, <2>7, <2>8, <2>9, AnswerKeeps
<1> QED
  BY <1>3, <1>4, <1>5

LEMMA DisconnectKeeps ==
  ASSUME ProviderInv, NEW r \in Resolvers, Disconnect(r)
  PROVE  ProviderInv'
<1> USE DEF ProviderInv
<1>1. /\ resolver[r].at # "idle" /\ Refuse(r) /\ waited' = waited \ {r}
      /\ validationGate' = [p \in Providers |-> IF validationGate[p] = r THEN "free"
                                                ELSE validationGate[p]]
      /\ UNCHANGED <<configured, keyCalls, credential, validated, resultCache, resolves>>
  BY DEF Disconnect, keys, WaitedNoMore
<1>2. /\ RequestsSound' /\ SlotsHold' /\ \A o \in Resolvers \ {r} : resolver'[o] = resolver[o]
      /\ resolver'[r].at = "refused" /\ resolver'[r].provider = resolver[r].provider
  BY <1>1, Refused
<1>3. ProviderKinds'
  BY <1>1 DEF ProviderKinds
<1>4. GateHeld'
  BY <1>1, <1>2 DEF GateHeld, RequestsSound, Resolves
<1>5. WaitersWait'
  BY <1>1, <1>2 DEF WaitersWait, ProviderKinds
<1> QED
  BY <1>1, <1>2, <1>3, <1>4, <1>5 DEF CacheSound

\* What the administrator, the clock and the cache's limits do.
LEMMA OthersKeep ==
  ASSUME ProviderInv,
         \/ \E p \in Providers : RemoveKey(p) \/ SaveKey(p) \/ RetryTimePasses(p)
         \/ \E key \in DOMAIN resultCache : ResultForgotten(key)
  PROVE  ProviderInv'
<1> USE DEF ProviderInv
<1>1. CASE \E key \in DOMAIN resultCache : ResultForgotten(key)
  <2>1. PICK key \in DOMAIN resultCache : ResultForgotten(key)
    BY <1>1
  <2>2. /\ resultCache' = [resultCache EXCEPT ![key] = NoResult] /\ NoResult \in ProviderResults
        /\ UNCHANGED <<configured, keyCalls, credential, validated, validationGate, resolver,
                       waited, resolves>>
    BY <2>1 DEF ResultForgotten, keys, ProviderResults
  <2>3. CacheSound'
    BY <2>2 DEF CacheSound
  <2> QED
    BY <2>2, <2>3 DEF ProviderKinds, RequestsSound, ResolveSound, RowsRead, SlotsHold, Inside,
       GateHeld, WaitersWait
<1>2. ASSUME NEW p \in Providers, RemoveKey(p) \/ SaveKey(p) \/ RetryTimePasses(p)
      PROVE  ProviderInv'
  <2>1. /\ credential' \in Credentials
        /\ \A o \in Providers \ {p} : credential'[o] = credential[o]
        /\ waited' = WaitsOn(p) /\ UNCHANGED <<validationGate, resolver, resolves>>
        /\ configured' \in [Providers -> BOOLEAN] /\ keyCalls' \in 0 .. MaxKeyCalls
        /\ validated' \subseteq validated
    <3> USE CollectionProviderAssumption DEF ProviderKinds, Credentials, keys
    <3>1. CASE RemoveKey(p)
      BY <3>1 DEF RemoveKey
    <3>2. CASE SaveKey(p)
      BY <3>2 DEF SaveKey
    <3>3. CASE RetryTimePasses(p)
      BY <3>3 DEF RetryTimePasses
    <3> QED
      BY <1>2, <3>1, <3>2, <3>3
  <2>2. WaitsOn(p) \subseteq waited /\ \A r \in WaitsOn(p) : credential'[resolver[r].provider].backedOff
    BY <2>1, WaitsOnWait
  <2>3. CacheSound'
    <3>1. CASE UNCHANGED resultCache
      BY <3>1 DEF CacheSound
    <3>2. CASE RemoveKey(p)
      <4>1. DOMAIN resultCache = Providers \X Limits /\ NoResult \in ProviderResults
        BY DEF CacheSound, ProviderResults
      <4>2. resultCache' = [key \in DOMAIN resultCache |-> IF key[1] = p THEN NoResult
                                                           ELSE resultCache[key]]
        BY <3>2 DEF RemoveKey
      <4> QED
        BY <4>1, <4>2 DEF CacheSound
    <3> QED
      BY <1>2, <3>1, <3>2 DEF SaveKey, RetryTimePasses
  <2> QED
    BY <2>1, <2>2, <2>3 DEF ProviderKinds, RequestsSound, ResolveSound, RowsRead, SlotsHold, Inside,
       GateHeld, WaitersWait
<1> QED
  BY <1>1, <1>2

LEMMA ProviderStep == ProviderInv /\ [ProviderNext]_providerVars => ProviderInv'
<1> SUFFICES ASSUME ProviderInv, [ProviderNext]_providerVars
             PROVE  ProviderInv'
  OBVIOUS
<1>1. CASE UNCHANGED providerVars
  BY <1>1 DEF providerVars, ProviderInv, ProviderKinds, RequestsSound, ResolveSound, RowsRead,
     SlotsHold, Inside, CacheSound, GateHeld, WaitersWait
<1>2. CASE ProviderNext
  BY <1>2, StartKeepsRequests, CredentialKeeps, EnterValidationKeeps, LookUpKeeps, EnterSlotKeeps,
     ValidationKeeps, ListKeepsRequests, PageKeepsRequests, DisconnectKeeps, OthersKeep
     DEF ProviderNext, ResolverStep
<1> QED
  BY <1>1, <1>2

LEMMA ProviderInvTypes == ProviderInv => ProviderTypeOK
<1> SUFFICES ASSUME ProviderInv
             PROVE  ProviderTypeOK
  OBVIOUS
<1>1. Len(ProviderRows) \in Nat /\ ProviderPageSize \in Nat
  BY CollectionProviderAssumption, LenProperties
<1> QED
  BY <1>1 DEF ProviderInv, ProviderKinds, Credentials, RequestsSound, ResolveSound, RowsRead,
     Resolves, SlotsHold, Inside, ProviderTypeOK

LEMMA ProviderTruth == ProviderInv => ResultIsTheListsStart /\ OneValidationFindsTheOutage
BY DEF ProviderInv, RequestsSound, ResolveSound, ListStart, WaitersWait, ResultIsTheListsStart,
   OneValidationFindsTheOutage

(* Credentials, gates, requests and slots keep their types; never more requests than      *)
(* slots are inside one (_requestGate).                                                   *)
THEOREM ProviderTypes == ProviderSpec => []ProviderTypeOK
<1> QED
  BY ProviderInitially, ProviderStep, ProviderInvTypes, PTL DEF ProviderSpec

(* Every answered request holds the first titles of the provider's list, from the cache   *)
(* or from its pages, whatever was filtered out between them, and who waited while a      *)
(* validation found the provider limited or down does not validate the key again before   *)
(* the outage is over: the first two conjuncts of ResolvesAreSound (ResolveAsync,         *)
(* ThrowIfBackedOff).                                                                    *)
THEOREM ResultsAreSound ==
  ProviderSpec => [](ResultIsTheListsStart /\ OneValidationFindsTheOutage)
BY ProviderTruth, ProviderInitially, ProviderStep, PTL DEF ProviderSpec

-----------------------------------------------------------------------------------
(* The whole.                                                                          *)
(* A step of MCServices is one of a part or leaves the part's variables alone, so every   *)
(* part keeps its invariant whichever of them moves.                                    *)

LEMMA EveryPartSteps ==
  [Next]_allVars => /\ [FranchisesNext]_franchiseVars /\ [IpcNext]_ipcVars
                    /\ [ProviderNext]_providerVars /\ [CalendarNext]_calendarVars
                    /\ [SeerrNext]_seerrVars /\ [WorkerNext]_workerVars
                    /\ [MembershipNext]_membershipVars
BY DEF Next, In, allVars

LEMMA EveryPartBegins ==
  Init => /\ FranchisesInv /\ IpcInv /\ ProviderInv /\ CalendarInv /\ SeerrInv
          /\ WorkerTypeOK /\ GenerationsInv /\ RequestIsKept /\ MembershipInv
<1>1. WorkerInit => RequestIsKept
  BY DEF WorkerInit, RequestIsKept
<1> QED
  BY <1>1, FranchisesInitially, IpcInitially, ProviderInitially, CalendarInitially,
     SeerrInitially, WorkerInitially, MembershipInitially DEF Init

LEMMA EveryPartKeeps ==
  Spec => []( /\ FranchisesInv /\ IpcInv /\ ProviderInv /\ CalendarInv /\ SeerrInv
              /\ WorkerTypeOK /\ GenerationsInv /\ RequestIsKept /\ MembershipInv )
<1>1. MembershipInv /\ [MembershipNext]_membershipVars => MembershipInv'
  BY MembershipStep
<1> QED
  BY <1>1, EveryPartBegins, EveryPartSteps, FranchisesStep, IpcInvStep, ProviderStep,
     CalendarStep, SeerrStep, WorkerTypesStep, GenerationsStep, WorkerRequestStep, PTL DEF Spec

(* Whichever part moves, its state is of its type: the invariant of the run, with its     *)
(* parts (worker.rs, ipc.rs, the plugin's services, library/sync and collections).       *)
THEOREM ServicesTypes == Spec => []TypesOK
<1>1. /\ FranchisesInv /\ IpcInv /\ ProviderInv /\ CalendarInv /\ SeerrInv
      /\ WorkerTypeOK /\ MembershipInv
      => TypesOK
  BY ProviderInvTypes DEF FranchisesInv, IpcInv, CalendarInv, SeerrInv, MembershipInv, TypesOK
<1> QED
  BY <1>1, EveryPartKeeps, PTL

(* And whichever part moves, each keeps what its properties say of every state: the        *)
(* safety half of FranchisesAreShown, ConnectionIsSound, ResolvesAreSound, CalendarFollows, *)
(* UsersAreFound and WorkerRemembers, as the run checks them (MCServices).               *)
THEOREM ServicesKeepFaith ==
  Spec => []( /\ ResolvedIsShown /\ RepliesAreOwn /\ NothingAfterTimeout /\ NoMpvLeft
              /\ ResultIsTheListsStart /\ OneValidationFindsTheOutage
              /\ StaleIsMarked /\ OneRefresh /\ LookupIsShared /\ OneLookup /\ WorkerRemembers )
<1>1. FranchisesInv => ResolvedIsShown
  BY DEF FranchisesInv
<1>2. IpcInv => RepliesAreOwn /\ NothingAfterTimeout /\ NoMpvLeft
  BY IpcTruth
<1>3. ProviderInv => ResultIsTheListsStart /\ OneValidationFindsTheOutage
  BY ProviderTruth
<1>4. CalendarInv => StaleIsMarked /\ OneRefresh
  BY DEF CalendarInv
<1>5. SeerrInv => LookupIsShared /\ OneLookup
  BY SeerrTruth
<1>6. WorkerTypeOK /\ GenerationsInv /\ RequestIsKept => WorkerRemembers
  BY SyncWorkerAssumption DEF WorkerTypeOK, GenerationsInv, RetryIsOwn, WorkerRemembers
<1> QED
  BY <1>1, <1>2, <1>3, <1>4, <1>5, <1>6, EveryPartKeeps, PTL

===================================================================================
