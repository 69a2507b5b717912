--------------------------- MODULE ReportingSession ---------------------------
(***************************************************************************)
(* What the server is promised: every playback is started, reported on and *)
(* stopped in that order, stopped once, and never while another one is     *)
(* open.  A playback that failed before it started is stopped all the      *)
(* same, without a start.                                                  *)
(***************************************************************************)
EXTENDS FiniteSets

CONSTANT Playbacks

VARIABLES
  started,   \* the playbacks the server was told have started
  stopped,   \* the playbacks the server was told have stopped
  last       \* the report it was given last

session == <<started, stopped, last>>

Open == started \ stopped

Nothing == [kind |-> "none", of |-> 0]

Init ==
  /\ started = {}
  /\ stopped = {}
  /\ last = Nothing

Start(p) ==
  /\ p \notin started \cup stopped
  /\ Open = {}
  /\ started' = started \cup {p}
  /\ last' = [kind |-> "start", of |-> p]
  /\ UNCHANGED stopped

Progress(p) ==
  /\ p \in Open
  /\ last' = [kind |-> "progress", of |-> p]
  /\ UNCHANGED <<started, stopped>>

Stop(p) ==
  /\ p \notin stopped
  /\ Open \subseteq {p}
  /\ stopped' = stopped \cup {p}
  /\ last' = [kind |-> "stopped", of |-> p]
  /\ UNCHANGED started

Next == \E p \in Playbacks : Start(p) \/ Progress(p) \/ Stop(p)

Spec == Init /\ [][Next]_session

===============================================================================
