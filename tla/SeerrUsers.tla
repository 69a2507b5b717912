--------------------------------- MODULE SeerrUsers ---------------------------------
(* The companion plugin's Seerr gateway: every call runs as the Seerr user mapped to   *)
(* the Jellyfin user, found by paging over Seerr's users, imported if the administrator *)
(* wants that, and remembered for a while.                                              *)
EXTENDS Naturals, Sequences, FiniteSets, SequencesExt

CONSTANTS JellyfinUsers,
          SeerrClients,    \* requests under way at once
          UserPageSize,
          MaxDirectoryChanges, \* bound: users imported or removed in Seerr by others
          MaxSeerrFaults   \* bound: calls that fail or requests that are given up

ASSUME SeerrUsersAssumption ==
  /\ UserPageSize \in Nat \ {0}
  /\ {MaxDirectoryChanges, MaxSeerrFaults} \subseteq Nat /\ "free" \notin SeerrClients

Nobody == "nobody"

VARIABLES
  autoImport,     \* the administrator's setting
  directory,      \* Seerr's users, oldest first
  mapped,         \* _mappings that have not expired
  missing,        \* _missing, as far as it has not expired
  lookupGate,     \* the client that holds it, or "free"
  seerrClient,    \* [SeerrClients -> its request]
  directoryChanges, seerrFaults

seerrVars == <<autoImport, directory, mapped, missing, lookupGate, seerrClient,
               directoryChanges, seerrFaults>>
remembered == <<mapped, missing>>

SeerrStages == {"idle", "gate", "scan", "import", "page"}
SeerrRequests ==
  [at : SeerrStages, user : JellyfinUsers \cup {Nobody}, skip : Nat, tried : BOOLEAN]
NoSeerrRequest == [at |-> "idle", user |-> Nobody, skip |-> 0, tried |-> FALSE]

SeerrTypeOK ==
  /\ autoImport \in BOOLEAN /\ directory \in Seq(JellyfinUsers \cup {Nobody})
  /\ mapped \subseteq JellyfinUsers /\ missing \subseteq JellyfinUsers
  /\ lookupGate \in SeerrClients \cup {"free"}
  /\ seerrClient \in [SeerrClients -> SeerrRequests]
  /\ directoryChanges \in 0 .. MaxDirectoryChanges /\ seerrFaults \in 0 .. MaxSeerrFaults

(* Seerr knows some user of its own, which no Jellyfin user maps to. *)
SeerrInit ==
  /\ autoImport \in BOOLEAN /\ directory = <<Nobody>> /\ mapped = {} /\ missing = {} /\ lookupGate = "free"
  /\ seerrClient = [c \in SeerrClients |-> NoSeerrRequest]
  /\ directoryChanges = 0 /\ seerrFaults = 0

SeerrRequest(c) == seerrClient[c]
Proceed(c, stage) == seerrClient' = [seerrClient EXCEPT ![c].at = stage]
Finish(c) == seerrClient' = [seerrClient EXCEPT ![c] = NoSeerrRequest]
LeaveGate(c) == lookupGate' = IF lookupGate = c THEN "free" ELSE lookupGate

-----------------------------------------------------------------------------------
(* An operation of the gateway begins with ResolveUserAsync. *)
AskSeerr(c, u) ==
  /\ SeerrRequest(c).at = "idle"
  /\ seerrClient' = [seerrClient EXCEPT ![c] = [NoSeerrRequest EXCEPT !.user = u,
                       !.at = IF u \in mapped THEN "page" ELSE "gate"]]
  /\ UNCHANGED <<autoImport, directory, remembered, lookupGate, directoryChanges, seerrFaults>>

(* Behind the gate both memories are asked again; mutant: the mapping only. *)
KnownMapping(u) == u \in mapped
Known(u) == u \in mapped \cup missing

(* One lookup at a time; mutant: any number. *)
AnyLookup == TRUE
LookupFree == lookupGate = "free"
EnterLookup(c) ==
  LET u == SeerrRequest(c).user IN
  /\ SeerrRequest(c).at = "gate" /\ LookupFree
  /\ IF Known(u) THEN /\ IF u \in mapped THEN Proceed(c, "page") ELSE Finish(c)
                      /\ UNCHANGED lookupGate
     ELSE Proceed(c, "scan") /\ lookupGate' = c
  /\ UNCHANGED <<autoImport, directory, remembered, directoryChanges, seerrFaults>>

UsersAt(skip) == {directory[i] : i \in (skip + 1 .. skip + UserPageSize) \cap DOMAIN directory}
LastUsers(skip) == skip + UserPageSize > Len(directory)

(* FindUserAsync, a page at a time; a user that is found is mapped, one that is not is *)
(* imported once, or missed.                                                           *)
ScanUsers(c) ==
  LET r == SeerrRequest(c) IN
  /\ r.at = "scan"
  /\ CASE r.user \in UsersAt(r.skip) ->
            /\ mapped' = mapped \cup {r.user} /\ missing' = missing \ {r.user}
            /\ Proceed(c, "page") /\ LeaveGate(c)
       [] r.user \notin UsersAt(r.skip) /\ ~LastUsers(r.skip) ->
            /\ seerrClient' = [seerrClient EXCEPT ![c].skip = @ + UserPageSize]
            /\ UNCHANGED <<remembered, lookupGate>>
       [] r.user \notin UsersAt(r.skip) /\ LastUsers(r.skip) /\ autoImport /\ ~r.tried ->
            /\ Proceed(c, "import") /\ UNCHANGED <<remembered, lookupGate>>
       [] OTHER ->
            /\ missing' = missing \cup {r.user} /\ Finish(c) /\ LeaveGate(c)
            /\ UNCHANGED mapped
  /\ UNCHANGED <<autoImport, directory, directoryChanges, seerrFaults>>

(* Seerr may leave out a user it was asked to import. *)
ImportUser(c) ==
  LET r == SeerrRequest(c) IN
  /\ r.at = "import"
  /\ \/ directory' = directory
     \/ r.user \notin ToSet(directory) /\ directory' = Append(directory, r.user)
  /\ seerrClient' = [seerrClient EXCEPT ![c].at = "scan", ![c].skip = 0, ![c].tried = TRUE]
  /\ UNCHANGED <<autoImport, remembered, lookupGate, directoryChanges, seerrFaults>>

(* A call of Seerr fails, or the desktop goes away; mutant: the gate stays closed. *)
GateStaysClosed(c) == UNCHANGED lookupGate
GiveGateBack(c) == LeaveGate(c)
SeerrFails(c) ==
  /\ SeerrRequest(c).at # "idle" /\ seerrFaults < MaxSeerrFaults
  /\ seerrFaults' = seerrFaults + 1
  /\ Finish(c) /\ GiveGateBack(c)
  /\ UNCHANGED <<autoImport, directory, remembered, directoryChanges>>

(* SendMappedAsync, as the user that was found. *)
RunAsUser(c) ==
  /\ SeerrRequest(c).at = "page"
  /\ Finish(c)
  /\ UNCHANGED <<autoImport, directory, remembered, lookupGate, directoryChanges, seerrFaults>>

-----------------------------------------------------------------------------------
(* Lifetimes end: 10 and 2 minutes. *)
MappingExpires(u) ==
  /\ u \in mapped /\ mapped' = mapped \ {u}
  /\ UNCHANGED <<autoImport, directory, missing, lookupGate, seerrClient, directoryChanges, seerrFaults>>

(* Mutant: a miss is forgotten only when its user is found. *)
KeepsMisses(u) == FALSE
MissIsOld(u) == u \in missing
MissExpires(u) ==
  /\ MissIsOld(u) /\ missing' = missing \ {u}
  /\ UNCHANGED <<autoImport, directory, mapped, lookupGate, seerrClient, directoryChanges, seerrFaults>>

(* The administrator imports a user into Seerr, or removes one. *)
DirectoryChanges(u) ==
  /\ directoryChanges < MaxDirectoryChanges
  /\ directoryChanges' = directoryChanges + 1
  /\ \/ \E i \in DOMAIN directory : directory[i] = u /\ directory' = RemoveAt(directory, i)
     \/ u \notin ToSet(directory) /\ directory' = Append(directory, u)
  /\ UNCHANGED <<autoImport, remembered, lookupGate, seerrClient, seerrFaults>>

RequestStep(c) == ScanUsers(c) \/ ImportUser(c) \/ RunAsUser(c)

SeerrNext ==
  \/ \E c \in SeerrClients :
       \/ \E u \in JellyfinUsers : AskSeerr(c, u)
       \/ EnterLookup(c) \/ RequestStep(c) \/ SeerrFails(c)
  \/ \E u \in JellyfinUsers : MappingExpires(u) \/ MissExpires(u) \/ DirectoryChanges(u)

(* Calls end within their timeout, waiters get the gate, and misses expire. *)
SeerrFairness ==
  /\ \A c \in SeerrClients : WF_seerrVars(RequestStep(c)) /\ SF_seerrVars(EnterLookup(c))
  /\ \A u \in JellyfinUsers : WF_seerrVars(MissExpires(u))
SeerrSpec == SeerrInit /\ [][SeerrNext]_seerrVars /\ SeerrFairness

-----------------------------------------------------------------------------------
(* While a user is known, or known to be missing, nobody pages over Seerr's users for  *)
(* them: the requests that waited for the lookup use what it found.                    *)
LookupIsShared ==
  \A c \in SeerrClients : SeerrRequest(c).at = "scan" => SeerrRequest(c).user \notin mapped \cup missing

(* A user that stays in Seerr and keeps asking is found, also after having been missed, *)
(* after failures and while others are removed from the list that is paged over.        *)
ImportedIsFound ==
  \A u \in JellyfinUsers :
    []<>(\E c \in SeerrClients : SeerrRequest(c).user = u) /\ <>[](u \in ToSet(directory))
      => []<>(u \in mapped)

(* A user of Seerr is looked up once and found in the end (ResolveUserAsync).           *)
UsersAreFound == []LookupIsShared /\ ImportedIsFound
===================================================================================
