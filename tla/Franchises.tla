-------------------------------- MODULE Franchises --------------------------------
(* The movie franchises of one account: which collection each owned movie belongs to, *)
(* resolved by the provider and kept for thirty days, and the franchises shown, which *)
(* every resolution replaces as a whole.  The hourly scheduler, a sign-in and the end *)
(* of a synchronisation each start a resolution.                                      *)
EXTENDS Naturals, FiniteSets

CONSTANTS Movies, Franchise,  \* [Movies -> franchises]
          Threads,            \* those that may resolve at the same time
          MaxAged,            \* bound: memberships that pass the thirty days
          MaxLibraryChanges   \* bound: movies that come or go

ASSUME FranchisesAssumption ==
  /\ DOMAIN Franchise = Movies
  /\ MaxAged \in Nat /\ MaxLibraryChanges \in Nat

VARIABLES
  owned,     \* the movies of the library
  fresh,     \* movies whose membership was resolved within thirty days
  shown,     \* the franchises kept for display
  flights,   \* FRANCHISE_FLIGHTS: threads that hold the account's flight
  plan,      \* [Threads -> what a thread asked the provider], <<>> when it is idle
  aged, libraryChanges,
  returned   \* history: movies that left the library and came back

franchiseVars == <<owned, fresh, shown, flights, plan, aged, libraryChanges, returned>>

Plans == [stale : SUBSET Movies, known : SUBSET {Franchise[m] : m \in Movies}]

FranchisesTypeOK ==
  /\ owned \subseteq Movies /\ fresh \subseteq Movies /\ returned \subseteq Movies
  /\ shown \subseteq {Franchise[m] : m \in Movies}
  /\ flights \subseteq Threads /\ plan \in [Threads -> Plans \cup {<< >>}]
  /\ aged \in 0 .. MaxAged /\ libraryChanges \in 0 .. MaxLibraryChanges

FranchisesInit ==
  /\ owned \in SUBSET Movies
  /\ fresh = {} /\ shown = {} /\ flights = {}
  /\ plan = [t \in Threads |-> << >>]
  /\ aged = 0 /\ libraryChanges = 0 /\ returned = {}

(* FranchiseFlight::acquire: one resolution of an account at a time; mutant: any.     *)
AnyFlight == TRUE
MayFly == flights = {}

(* franchise_resolution_plan: what is not fresh is asked for; of what is fresh the    *)
(* franchises are asked for again, for their parts.  With nothing to ask there is no  *)
(* resolution; an empty library needs no question.                                    *)
Planned == [stale |-> owned \ fresh, known |-> {Franchise[m] : m \in owned \cap fresh}]

StartResolution(t) ==
  /\ plan[t] = << >> /\ MayFly
  /\ owned # {} => Planned.stale # {}
  /\ flights' = flights \cup {t}
  /\ plan' = [plan EXCEPT ![t] = Planned]
  /\ UNCHANGED <<owned, fresh, shown, aged, libraryChanges, returned>>

Land(t) == flights' = flights \ {t} /\ plan' = [plan EXCEPT ![t] = << >>]

(* commit_franchise_resolution: the memberships asked for are resolved, the rows of   *)
(* all franchises replaced; mutant: the known ones are not asked for.                 *)
StaleOnly(p) == {Franchise[m] : m \in p.stale}
FranchisesOf(p) == p.known \cup {Franchise[m] : m \in p.stale}

CommitResolution(t) ==
  /\ plan[t] # << >>
  /\ fresh' = fresh \cup plan[t].stale
  /\ shown' = FranchisesOf(plan[t])
  /\ Land(t)
  /\ UNCHANGED <<owned, aged, libraryChanges, returned>>

(* No answer, an incomplete one, or a session that has moved on: nothing is kept but  *)
(* the time of the attempt, and the flight is given back.                             *)
ResolutionFails(t) ==
  /\ plan[t] # << >>
  /\ Land(t)
  /\ UNCHANGED <<owned, fresh, shown, aged, libraryChanges, returned>>

Age(m) ==
  /\ m \in fresh /\ aged < MaxAged
  /\ aged' = aged + 1
  /\ fresh' = fresh \ {m}
  /\ UNCHANGED <<owned, shown, flights, plan, libraryChanges, returned>>

LibraryChanges(m) ==
  /\ libraryChanges < MaxLibraryChanges
  /\ libraryChanges' = libraryChanges + 1
  /\ IF m \in owned THEN owned' = owned \ {m} /\ returned' = returned \cup {m}
                    ELSE owned' = owned \cup {m} /\ UNCHANGED returned
  /\ UNCHANGED <<fresh, shown, flights, plan, aged>>

FranchisesNext ==
  \/ \E t \in Threads : StartResolution(t) \/ CommitResolution(t) \/ ResolutionFails(t)
  \/ \E m \in Movies : Age(m) \/ LibraryChanges(m)

(* The hourly thread never stops asking, and the provider answers at last. *)
FranchisesSpec ==
  /\ FranchisesInit /\ [][FranchisesNext]_franchiseVars
  /\ \A t \in Threads : SF_franchiseVars(CommitResolution(t))
                        /\ WF_franchiseVars(StartResolution(t))

-----------------------------------------------------------------------------------
(* Every movie that stays in the library gets its franchise in the end. *)
OwnedGetsItsFranchise ==
  \A m \in Movies : <>[](m \in owned \ returned) => []<>(Franchise[m] \in shown)

(* A movie that has been in the library all along and counts as resolved has its        *)
(* franchise on display, although every resolution replaces what the others left; and   *)
(* every franchise of the library is shown in the end (refresh_franchises).             *)
FranchisesAreShown ==
  /\ [](\A m \in (owned \cap fresh) \ returned : Franchise[m] \in shown)
  /\ OwnedGetsItsFranchise
===================================================================================
