---------------------------------- MODULE Calendar ----------------------------------
(* The companion plugin's release calendar: desktops and the scheduled task refresh it *)
(* from Sonarr and then Radarr, one refresh at a time; what a source listed is kept     *)
(* while it fails.                                                                      *)
EXTENDS Naturals, Sequences

CONSTANTS CalendarClients,     \* desktops' requests and the scheduled task
          MaxListings,         \* bound: changes of what a source lists
          MaxOutages,          \* bound: a source goes down or is set up otherwise
          MaxInterruptions     \* bound: requests that end at once, cancelled or failing

ASSUME CalendarAssumption ==
  {MaxListings, MaxOutages, MaxInterruptions} \subseteq Nat /\ "free" \notin CalendarClients

CalendarSources == {"sonarr", "radarr"}
NeverListed == 0
(* Of the last attempt: below FailureRetryInterval, below CacheLifetime, older, none. *)
Ages == {"new", "minutes", "day", "none"}

VARIABLES
  enabled, answering,   \* per source: its setting, and whether the service answers
  listing,              \* per source: what the service lists, as a version
  listed,               \* BySource: the version cached; NeverListed without an entry
  status,               \* Sources: [known, enabled, available, stale]
  attempt,              \* LastAttemptAt, as an age
  calendarGate,         \* _refreshGate: the client that holds it, or "free"
  calendarClient,       \* [CalendarClients -> where it is]
  outages, interruptions

calendarVars == <<enabled, answering, listing, listed, status, attempt, calendarGate,
                  calendarClient, outages, interruptions>>
services == <<enabled, answering, listing, outages>>
calendarCache == <<listed, status, attempt>>

Unknown == [known |-> FALSE, enabled |-> FALSE, available |-> FALSE, stale |-> FALSE]

CalendarTypeOK ==
  /\ enabled \in [CalendarSources -> BOOLEAN] /\ answering \in [CalendarSources -> BOOLEAN]
  /\ listing \in [CalendarSources -> 1 .. MaxListings + 1]
  /\ listed \in [CalendarSources -> NeverListed .. MaxListings + 1]
  /\ status \in [CalendarSources ->
       [known : BOOLEAN, enabled : BOOLEAN, available : BOOLEAN, stale : BOOLEAN]]
  /\ attempt \in Ages
  /\ calendarGate \in CalendarClients \cup {"free"}
  /\ calendarClient \in [CalendarClients -> {"idle", "gate", "sonarr", "radarr", "reading"}]
  /\ outages \in 0 .. MaxOutages /\ interruptions \in 0 .. MaxInterruptions

CalendarInit ==
  /\ enabled \in [CalendarSources -> BOOLEAN] /\ answering \in [CalendarSources -> BOOLEAN]
  /\ listing = [s \in CalendarSources |-> 1]
  /\ listed = [s \in CalendarSources |-> NeverListed]
  /\ status = [s \in CalendarSources |-> Unknown]
  /\ attempt = "none" /\ calendarGate = "free"
  /\ calendarClient = [c \in CalendarClients |-> "idle"]
  /\ outages = 0 /\ interruptions = 0

(* IsFresh: an enabled source that failed is due again after minutes.                  *)
IsFresh ==
  \/ attempt = "new"
  \/ attempt = "minutes"
     /\ \A s \in CalendarSources : ~(status[s].enabled /\ ~status[s].available)

Move(c, where) == calendarClient' = [calendarClient EXCEPT ![c] = where]

-----------------------------------------------------------------------------------
(* GetAsync, and the task's ExecuteAsync. *)
GetCalendar(c) ==
  /\ calendarClient[c] = "idle"
  /\ Move(c, "gate")
  /\ UNCHANGED <<services, calendarCache, calendarGate, interruptions>>

EnterRefresh(c) ==
  /\ calendarClient[c] = "gate" /\ calendarGate = "free"
  /\ IF IsFresh THEN Move(c, "reading") /\ UNCHANGED calendarGate
     ELSE Move(c, "sonarr") /\ calendarGate' = c
  /\ UNCHANGED <<services, calendarCache, interruptions>>

ReplaceSource(s) ==
  /\ listed' = [listed EXCEPT ![s] = listing[s]]
  /\ status' = [status EXCEPT ![s] = [known |-> TRUE, enabled |-> TRUE, available |-> TRUE,
                                      stale |-> FALSE]]

(* MarkFailed: the entries stay, and are stale if a refresh ever filled them, however  *)
(* many failed since; mutant: if the one before did.                                   *)
WasAvailable(s) == status[s].available
EverRefreshed(s) == status[s].available \/ status[s].stale
MarkFailed(s, isEnabled) ==
  /\ status' = [status EXCEPT ![s] = [known |-> TRUE, enabled |-> isEnabled,
                                      available |-> FALSE, stale |-> EverRefreshed(s)]]
  /\ UNCHANGED listed

(* RefreshSourceAsync: a service that is down, rejects the key or answers something    *)
(* unreadable is an error of the gateway.                                              *)
RefreshSource(s) ==
  IF ~enabled[s] THEN MarkFailed(s, FALSE)
  ELSE IF answering[s] THEN ReplaceSource(s) ELSE MarkFailed(s, TRUE)

RefreshSonarr(c) ==
  /\ calendarClient[c] = "sonarr"
  /\ RefreshSource("sonarr") /\ Move(c, "radarr")
  /\ UNCHANGED <<services, attempt, calendarGate, interruptions>>

RefreshRadarr(c) ==
  /\ calendarClient[c] = "radarr"
  /\ RefreshSource("radarr") /\ attempt' = "new"
  /\ Move(c, "reading") /\ calendarGate' = "free"
  /\ UNCHANGED <<services, interruptions>>

(* The client goes away, the task is stopped after two minutes, or an answer breaks    *)
(* off in its body, which is no error of the gateway: the refresh ends and no attempt   *)
(* is marked.  Mutant: the gate stays closed.                                          *)
GateStays(c) == calendarGate
GateReleased(c) == IF calendarGate = c THEN "free" ELSE calendarGate
Interrupt(c) ==
  /\ calendarClient[c] \in {"gate", "sonarr", "radarr"} /\ interruptions < MaxInterruptions
  /\ interruptions' = interruptions + 1
  /\ calendarGate' = GateReleased(c) /\ Move(c, "idle")
  /\ UNCHANGED <<services, calendarCache>>

GetCached(c) ==
  /\ calendarClient[c] = "reading"
  /\ Move(c, "idle")
  /\ UNCHANGED <<services, calendarCache, calendarGate, interruptions>>

-----------------------------------------------------------------------------------
AttemptAges ==
  /\ attempt \in {"new", "minutes"}
  /\ attempt' = IF attempt = "new" THEN "minutes" ELSE "day"
  /\ UNCHANGED <<services, listed, status, calendarGate, calendarClient, interruptions>>

SourceChanges(s) ==
  /\ outages < MaxOutages /\ outages' = outages + 1
  /\ \/ enabled' = [enabled EXCEPT ![s] = ~@] /\ UNCHANGED answering
     \/ answering' = [answering EXCEPT ![s] = ~@] /\ UNCHANGED enabled
  /\ UNCHANGED <<listing, calendarCache, calendarGate, calendarClient, interruptions>>

ServiceListsOther(s) ==
  /\ listing[s] <= MaxListings
  /\ listing' = [listing EXCEPT ![s] = @ + 1]
  /\ UNCHANGED <<enabled, answering, outages, calendarCache, calendarGate, calendarClient, interruptions>>

RefreshStep(c) == RefreshSonarr(c) \/ RefreshRadarr(c) \/ GetCached(c)

CalendarNext ==
  \/ \E c \in CalendarClients : GetCalendar(c) \/ EnterRefresh(c) \/ RefreshStep(c) \/ Interrupt(c)
  \/ AttemptAges
  \/ \E s \in CalendarSources : SourceChanges(s) \/ ServiceListsOther(s)

(* The task asks once a day, calls end within their timeout, waiters get the gate. *)
CalendarFairness ==
  /\ WF_calendarVars(AttemptAges)
  /\ \A c \in CalendarClients :
       /\ WF_calendarVars(RefreshStep(c)) /\ WF_calendarVars(GetCalendar(c))
       /\ SF_calendarVars(EnterRefresh(c))
CalendarSpec == CalendarInit /\ [][CalendarNext]_calendarVars /\ CalendarFairness

-----------------------------------------------------------------------------------
(* A source that does not answer is marked stale exactly when the calendar still shows *)
(* entries of it, after any number of failures and of settings.                        *)
StaleIsMarked ==
  \A s \in CalendarSources :
    /\ status[s].stale = (~status[s].available /\ listed[s] # NeverListed)
    /\ status[s].available => listed[s] # NeverListed

(* While clients ask, a source that stays enabled and answers gets its listing into the *)
(* calendar, whatever the other source does and however refreshes were cut short.       *)
CalendarComes ==
  \A s \in CalendarSources :
    []<>(\E c \in CalendarClients : calendarClient[c] = "gate")
      /\ <>[](enabled[s] /\ answering[s]) => <>[](listed[s] = listing[s])

(* The calendar follows its sources, and says so where it cannot (RefreshAsync).        *)
CalendarFollows == []StaleIsMarked /\ CalendarComes
===================================================================================
