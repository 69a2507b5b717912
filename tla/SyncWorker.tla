-------------------------------- MODULE SyncWorker --------------------------------
(* The thread around the synchronisation cycles (run, wait) and the handle others      *)
(* hold: requests, the hold at start-up until the window is ready, deadlines, the      *)
(* state shown of a failure.  What a cycle does is CatalogSync; here it ends somehow.  *)
EXTENDS Naturals

CONSTANTS MaxSessions,     \* bound: sign-ins
          MaxRequests,     \* bound: requests besides those of a sign-in
          MaxCycleFaults   \* bound: cycles that fail

ASSUME SyncWorkerAssumption ==
  MaxSessions \in Nat \ {0} /\ MaxRequests \in Nat /\ MaxCycleFaults \in Nat

VARIABLES
  session,      \* the session's generation
  signedIn,     \* Session::is_authenticated
  owesRequest,  \* auth_login has signed in and has still to call request()
  flag,         \* Flags.requested
  at,           \* where the thread is
  trigger,      \* what the next cycle runs as
  hold,         \* startup_hold is set
  due,          \* normal_deadline has passed
  backoff,      \* 0, or the wait after that many failures in a row, up to its maximum
  readSession,  \* the generation that run read before the cycle
  cycleSession, \* the generation of the cycle's scope
  failure,      \* WorkerState.failure: [shownFor, of]; the second is history
  unserved,        \* history: a request no requested cycle has followed yet
  requests, cycleFaults

workerVars == <<session, signedIn, owesRequest, flag, at, trigger, hold, due,
                backoff, readSession, cycleSession, failure, unserved, requests, cycleFaults>>
loop == <<at, trigger, hold, due, backoff, readSession, cycleSession, failure, cycleFaults>>
callers == <<session, signedIn, owesRequest, requests>>

NoFailure == [shownFor |-> 0, of |-> 0]
Waits == {"idle", "held", "sleep"}
MaxBackoff == 2

WorkerTypeOK ==
  /\ session \in 1 .. MaxSessions + 1 /\ signedIn \in BOOLEAN /\ owesRequest \in BOOLEAN
  /\ flag \in BOOLEAN
  /\ at \in Waits \cup {"top", "begin", "cycle"} /\ trigger \in {"Scheduled", "Requested"}
  /\ hold \in BOOLEAN /\ due \in BOOLEAN /\ backoff \in 0 .. MaxBackoff
  /\ {readSession, cycleSession, failure.shownFor, failure.of} \subseteq 0 .. MaxSessions + 1
  /\ unserved \in BOOLEAN /\ requests \in 0 .. MaxRequests
  /\ cycleFaults \in 0 .. MaxCycleFaults

(* A restored session whose catalog is ready is held back; others are not. *)
WorkerInit ==
  /\ session = 1 /\ signedIn \in BOOLEAN /\ owesRequest = FALSE
  /\ flag = FALSE
  /\ at = "top" /\ trigger = "Scheduled"
  /\ hold \in {FALSE, signedIn} /\ due = TRUE /\ backoff = 0
  /\ readSession = 0 /\ cycleSession = 0 /\ failure = NoFailure
  /\ unserved = FALSE /\ requests = 0 /\ cycleFaults = 0

-----------------------------------------------------------------------------------
(* Callers of the handle. *)

RequestCycle ==
  /\ flag' = TRUE
  /\ unserved' = TRUE

Request ==
  /\ requests < MaxRequests
  /\ requests' = requests + 1
  /\ RequestCycle
  /\ UNCHANGED <<session, signedIn, owesRequest, loop>>

AccountSignsIn ==
  /\ session <= MaxSessions /\ ~owesRequest
  /\ session' = session + 1 /\ signedIn' = TRUE
  /\ owesRequest' = TRUE
  /\ UNCHANGED <<flag, requests, unserved, loop>>

RequestAfterSignIn ==
  /\ owesRequest
  /\ owesRequest' = FALSE
  /\ RequestCycle
  /\ UNCHANGED <<session, signedIn, requests, loop>>

(* Signed out, rejected by the server, or being deleted. *)
AccountSignsOut ==
  /\ signedIn /\ ~owesRequest
  /\ signedIn' = FALSE
  /\ UNCHANGED <<session, owesRequest, flag, requests, unserved, loop>>

-----------------------------------------------------------------------------------
(* The thread. *)

(* The top of run's loop: without a session it idles, and a hold is given up. *)
NotSignedIn ==
  /\ at = "top" /\ ~signedIn
  /\ hold' = FALSE /\ at' = "idle"
  /\ UNCHANGED <<callers, flag, trigger, due, backoff, readSession, cycleSession, failure,
                 unserved, cycleFaults>>

(* startup_hold_deadline: the hold is over soon after the window is ready             *)
(* (release_startup_hold wakes the thread), at the latest after a while.              *)
Hold(over) ==
  /\ at = "top" /\ signedIn /\ hold
  /\ IF over THEN hold' = FALSE /\ UNCHANGED at
             ELSE at' = "held" /\ UNCHANGED hold
  /\ UNCHANGED <<callers, flag, trigger, due, backoff, readSession, cycleSession, failure,
                 unserved, cycleFaults>>

(* Mutant: a cycle only runs on request. *)
DueOnRequest == trigger = "Requested"
NormalDue == trigger = "Requested" \/ due

(* The generation a failure is shown for is read before the cycle takes its scope;    *)
(* mutant: it is the one of the moment the cycle fails.                               *)
FailedSessionLate == session
FailedSession == readSession

BeginCycle ==
  /\ at = "top" /\ signedIn /\ ~hold /\ NormalDue
  /\ readSession' = session
  /\ at' = "begin"
  /\ UNCHANGED <<callers, flag, trigger, hold, due, backoff, cycleSession, failure, unserved,
                 cycleFaults>>

(* run_cycle_inner takes the scope of whoever is signed in by then. *)
TakeCycleScope ==
  /\ at = "begin" /\ signedIn
  /\ cycleSession' = session
  /\ unserved' = (unserved /\ trigger # "Requested")
  /\ at' = "cycle"
  /\ UNCHANGED <<callers, flag, trigger, hold, due, backoff, readSession, failure, cycleFaults>>

Sleep ==
  /\ at = "top" /\ signedIn /\ ~hold /\ ~NormalDue
  /\ at' = "sleep"
  /\ UNCHANGED <<callers, flag, trigger, hold, due, backoff, readSession, cycleSession, failure,
                 unserved, cycleFaults>>

CycleEnds == at' = "sleep" /\ trigger' = "Scheduled" /\ due' = FALSE

CycleSucceeds ==
  /\ at = "cycle" /\ signedIn /\ cycleSession = session
  /\ CycleEnds
  /\ backoff' = 0 /\ failure' = NoFailure
  /\ UNCHANGED <<callers, flag, hold, readSession, cycleSession, unserved, cycleFaults>>

(* Cancelled, since the session moved on, or there is none any more. *)
CycleCancelled ==
  /\ \/ at = "cycle" /\ (~signedIn \/ cycleSession # session)
     \/ at = "begin" /\ ~signedIn
  /\ CycleEnds
  /\ backoff' = 0
  /\ UNCHANGED <<callers, flag, hold, readSession, cycleSession, failure, unserved, cycleFaults>>

CycleFails ==
  /\ at = "cycle" /\ cycleFaults < MaxCycleFaults
  /\ cycleFaults' = cycleFaults + 1
  /\ CycleEnds
  /\ backoff' = IF backoff = MaxBackoff THEN backoff ELSE backoff + 1
  /\ failure' = [shownFor |-> FailedSession, of |-> cycleSession]
  /\ UNCHANGED <<callers, flag, hold, readSession, cycleSession, unserved>>

(* wait: a request is consumed, whether it came before or while waiting. *)
WakeRequested ==
  /\ at \in Waits /\ flag
  /\ flag' = FALSE /\ trigger' = "Requested" /\ at' = "top"
  /\ UNCHANGED <<callers, hold, due, backoff, readSession, cycleSession, failure, unserved,
                 cycleFaults>>

(* A time-out, or a notification that is no request: the deadline may have passed.     *)
(* Mutant: a request that comes together with the time-out is forgotten.              *)
ElapsedForgets == at \in Waits /\ flag' = FALSE
Elapsed == at \in Waits /\ ~flag /\ UNCHANGED flag

WakeElapsed ==
  /\ Elapsed
  /\ due' \in {due, TRUE} /\ at' = "top"
  /\ UNCHANGED <<callers, trigger, hold, backoff, readSession, cycleSession, failure, unserved,
                 cycleFaults>>

DeadlinePasses == WakeElapsed /\ due'

Loop ==
  \/ NotSignedIn \/ Hold(TRUE) \/ Hold(FALSE) \/ BeginCycle \/ TakeCycleScope \/ Sleep
  \/ CycleSucceeds \/ CycleCancelled \/ CycleFails \/ WakeRequested \/ WakeElapsed

WorkerNext ==
  \/ Request \/ AccountSignsIn \/ RequestAfterSignIn \/ AccountSignsOut
  \/ Loop

(* The thread runs, its waits end, the deadline and the hold's end come. *)
WorkerSpec ==
  /\ WorkerInit /\ [][WorkerNext]_workerVars
  /\ WF_workerVars(Loop) /\ WF_workerVars(RequestAfterSignIn)
  /\ SF_workerVars(DeadlinePasses) /\ SF_workerVars(Hold(TRUE))

-----------------------------------------------------------------------------------
(* "Asks for a cycle as soon as possible": whenever the request comes - in a cycle, in *)
(* a wait, during the start-up hold, while signed out - a requested cycle follows,     *)
(* unless the session ends or changes first.                                           *)
RequestIsHonoured == []<>(~unserved \/ ~signedIn)

(* A session that stays is synchronised again and again, whatever failed and whether   *)
(* the window ever gets ready.                                                         *)
SyncGoesOn == <>[]signedIn => []<>(at = "cycle" /\ cycleSession = session)

(* The retry that the interface shows (status) is never the failure of an account that *)
(* was signed in before.                                                               *)
RetryIsOwn == failure.shownFor = session => failure.of = session

(* A request that no cycle has followed is still somewhere: in the flag, in the trigger *)
(* of the next cycle, or with whoever is signing in.                                    *)
RequestIsKept ==
  unserved /\ signedIn =>
    flag \/ owesRequest \/ (trigger = "Requested" /\ at # "cycle")

(* What the worker must not mix up or forget while it waits and works (worker.rs, run). *)
WorkerRemembers == RetryIsOwn /\ RequestIsKept

(* The worker serves the session that is there, requested or not (worker.rs, run).      *)
WorkerServes == RequestIsHonoured /\ SyncGoesOn
===================================================================================
