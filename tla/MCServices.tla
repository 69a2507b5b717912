-------------------------------- MODULE MCServices --------------------------------
(* Parts that have to get something done.  They share nothing a property looks at, so   *)
(* a behaviour moves one of them, the `focus`, and leaves the others as they start:      *)
(* one run for all.  A fairness condition names the like step of each part; as the       *)
(* focus never changes, it is that of the part's own specification.                      *)
EXTENDS Franchises, MpvIpc, CollectionProvider, Calendar, SeerrUsers, SyncWorker,
        Membership

VARIABLE focus

MCFranchise == [m \in Movies |-> IF m = 3 THEN "g" ELSE "f"]

(* The second row is of another type than asked for, the third a duplicate. *)
ProviderList == << [id |-> 1, wanted |-> TRUE], [id |-> 2, wanted |-> FALSE],
                   [id |-> 1, wanted |-> TRUE], [id |-> 3, wanted |-> TRUE],
                   [id |-> 4, wanted |-> TRUE] >>

CONSTANTS one, two   \* clients and threads

Parts == {"franchises", "ipc", "provider", "calendar", "seerr", "worker", "membership"}
allVars == <<focus, franchiseVars, ipcVars, providerVars, calendarVars, seerrVars,
            workerVars, membershipVars>>

Init ==
  /\ focus \in Parts
  /\ FranchisesInit /\ (focus # "franchises" => owned = {})
  /\ IpcInit
  /\ ProviderInit
  /\ CalendarInit /\ enabled["radarr"] /\ answering["radarr"]   \* until an outage
  /\ (focus # "calendar" => enabled["sonarr"] /\ answering["sonarr"])
  /\ SeerrInit /\ (focus # "seerr" => autoImport = FALSE)
  /\ WorkerInit /\ (focus # "worker" => signedIn = FALSE)
  /\ MembershipInit /\ (focus # "membership" => \A l \in Libraries : served[l].titles = {})

(* A step A of a part. *)
In(part, A) ==
  /\ focus = part /\ A
  /\ IF part = "franchises" THEN TRUE ELSE UNCHANGED franchiseVars
  /\ IF part = "ipc" THEN TRUE ELSE UNCHANGED ipcVars
  /\ IF part = "provider" THEN TRUE ELSE UNCHANGED providerVars
  /\ IF part = "calendar" THEN TRUE ELSE UNCHANGED calendarVars
  /\ IF part = "seerr" THEN TRUE ELSE UNCHANGED seerrVars
  /\ IF part = "worker" THEN TRUE ELSE UNCHANGED workerVars
  /\ IF part = "membership" THEN TRUE ELSE UNCHANGED membershipVars
  /\ UNCHANGED focus

Next ==
  \/ In("franchises", FranchisesNext)
  \/ In("ipc", IpcNext)
  \/ In("provider", ProviderNext)
  \/ In("calendar", CalendarNext)
  \/ In("seerr", SeerrNext)
  \/ In("worker", WorkerNext)
  \/ In("membership", MembershipNext)

(* Steps that are fair: the program's own, calls with their time-outs, timers. *)
Step(i) ==
  \/ In("franchises", StartResolution(i)) \/ In("calendar", RefreshStep(i))
  \/ In("seerr", RequestStep(i))
  \/ i = one /\ (In("ipc", IpcStep) \/ In("worker", Loop) \/ In("membership", WalkStep))
Again(i) ==
  \/ In("calendar", GetCalendar(i)) \/ In("seerr", MissExpires(i))
  \/ i = one /\ In("worker", RequestAfterSignIn)

(* Steps that are fair strongly: they wait for what comes and goes. *)
Enter(i) ==
  \/ In("franchises", CommitResolution(i)) \/ In("provider", ResolverStep(i))
  \/ In("calendar", EnterRefresh(i)) \/ In("seerr", EnterLookup(i))
  \/ i = one /\ (In("worker", DeadlinePasses) \/ In("membership", WalkMembership(TRUE)))
  \/ i = two /\ In("worker", Hold(TRUE))

Fairness ==
  /\ WF_allVars(In("calendar", AttemptAges))
  /\ \A i \in {one, two} : WF_allVars(Step(i)) /\ WF_allVars(Again(i)) /\ SF_allVars(Enter(i))

Spec == Init /\ [][Next]_allVars /\ Fairness

(* The state of the part that moves is of its type. *)
TypesOK ==
  CASE focus = "franchises" -> FranchisesTypeOK
    [] focus = "ipc" -> IpcTypeOK
    [] focus = "provider" -> ProviderTypeOK
    [] focus = "calendar" -> CalendarTypeOK
    [] focus = "seerr" -> SeerrTypeOK
    [] focus = "worker" -> WorkerTypeOK
    [] focus = "membership" -> MembershipTypeOK
    [] OTHER -> TRUE
================================================================================
