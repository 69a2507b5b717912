---------------------------------- MODULE Ratings ----------------------------------
(* The companion plugin's ratings: batches asked for by several desktops, refreshes of  *)
(* stale titles in the background, one refresh at a time towards MDBList, and the       *)
(* administrator's changes of the key meanwhile.                                        *)
EXTENDS Naturals, FiniteSets

CONSTANTS RatedTitles,
          Batches,         \* requests under way at once
          Refreshers,      \* background tasks; claims are disjoint, so one per title do
          Keys,            \* MDBList keys
          FreshAge,        \* FreshSeconds; an entry is dropped after twice that age
          MaxRatingsTime,  \* bound: the clock
          MaxBatches,      \* bound: requests
          MaxAdminCalls    \* bound: the administrator's calls

RatingsAssumption ==
  /\ FreshAge \in Nat \ {0} /\ MaxRatingsTime \in Nat \ {0}
  /\ {MaxBatches, MaxAdminCalls} \subseteq Nat
  /\ Batches \cap Refreshers = {} /\ "free" \notin Batches \cup Refreshers

NoKey == "no key"
Askers == Batches \cup Refreshers
ExpireAge == 2 * FreshAge
Never == 0

VARIABLES
  ratingsClock,    \* starts at 1: a fetch time of 0 is "never"
  fetchTime,         \* [RatedTitles -> fetch time]
  key, health,     \* the saved key; [valid, retryAt, failures]
  refreshGate,     \* the asker that holds _refreshGate, or "free"
  asker,           \* [Askers -> what it does]
  claimed,         \* _background: titles a background refresh was queued for
  admin,           \* the credential call under way
  batches, adminCalls

ratingsVars == <<ratingsClock, fetchTime, key, health, refreshGate, asker, claimed, admin,
                 batches, adminCalls>>
credentials == <<key, health>>
bounds == <<batches, adminCalls>>

NoHealth == [valid |-> FALSE, retryAt |-> Never, failures |-> 0]
Healths == [valid : BOOLEAN, retryAt : 0 .. MaxRatingsTime + 3, failures : 0 .. 2]
(* asked: every title of the request; todo: the chunks still to fetch; since: the clock *)
(* of its start; told: the diagnostic of the answer.                                    *)
AskerRecord == [at : {"idle", "gate", "asking", "left"}, asked : SUBSET RatedTitles,
                todo : SUBSET RatedTitles, health : Healths, since : 0 .. MaxRatingsTime,
                told : BOOLEAN]
IdleAsker == [at |-> "idle", asked |-> {}, todo |-> {}, health |-> NoHealth, since |-> 0,
         told |-> FALSE]
NoAdmin == [at |-> "idle", key |-> NoKey, previous |-> NoHealth]

RatingsTypeOK ==
  /\ ratingsClock \in 1 .. MaxRatingsTime
  /\ fetchTime \in [RatedTitles -> 0 .. MaxRatingsTime]
  /\ key \in Keys \cup {NoKey} /\ health \in Healths
  /\ refreshGate \in Askers \cup {"free"}
  /\ asker \in [Askers -> AskerRecord]
  /\ \A a \in Askers : asker[a].todo \subseteq asker[a].asked
  /\ claimed \subseteq RatedTitles
  /\ admin \in [at : {"idle", "validating"}, key : Keys \cup {NoKey}, previous : Healths]
  /\ batches \in 0 .. MaxBatches /\ adminCalls \in 0 .. MaxAdminCalls

RatingsInit ==
  /\ ratingsClock = 1 /\ fetchTime = [t \in RatedTitles |-> Never]
  /\ key \in Keys /\ health = [NoHealth EXCEPT !.valid = TRUE]
  /\ refreshGate = "free" /\ asker = [a \in Askers |-> IdleAsker] /\ claimed = {}
  /\ admin = NoAdmin /\ batches = 0 /\ adminCalls = 0

Expired(t, now) == fetchTime[t] = Never \/ now - fetchTime[t] >= ExpireAge
Stale(t, now) == ~Expired(t, now) /\ now - fetchTime[t] >= FreshAge
IsBackedOff(h, now) == h.retryAt > now

TimePasses ==
  /\ ratingsClock < MaxRatingsTime
  /\ ratingsClock' = ratingsClock + 1
  /\ UNCHANGED <<fetchTime, credentials, refreshGate, asker, claimed, admin, bounds>>

-----------------------------------------------------------------------------------
(* ProviderHealthPolicy.  A rate limit validates a key, as MDBList authenticates first; *)
(* an outage keeps what was known where "preserve" says so.                             *)
Backoff(failures) == failures
AfterValidation(previous, outcome, now, preserve) ==
  CASE outcome = "success"   -> [valid |-> TRUE, retryAt |-> Never, failures |-> 0]
    [] outcome = "exhausted" -> [valid |-> TRUE, retryAt |-> now + 2, failures |-> 0]
    [] outcome = "rejected"  -> NoHealth
    [] outcome = "limited"   -> [previous EXCEPT !.valid = TRUE, !.retryAt = now + 1]
    [] outcome = "failed"    ->
         LET failures == IF previous.failures < 2 THEN previous.failures + 1 ELSE 2
         IN [valid |-> preserve /\ previous.valid, retryAt |-> now + Backoff(failures),
             failures |-> failures]
Succeeded(outcome) == outcome \in {"success", "exhausted"}
MdbListOutcomes == {"success", "exhausted", "rejected", "limited", "failed"}

-----------------------------------------------------------------------------------
(* Batches and background refreshes. *)

(* BatchAsync: what is stale is queued for the background, what is missing is waited   *)
(* for; while backed off neither is asked for.                                         *)
Batch(b, titles) ==
  /\ asker[b].at = "idle" /\ batches < MaxBatches
  /\ key # NoKey /\ health.valid
  /\ batches' = batches + 1
  /\ LET now == ratingsClock
         backedOff == IsBackedOff(health, now)
         missing == {t \in titles : Expired(t, now)}
         claims == {t \in titles : Stale(t, now)} \ claimed
         asks == missing # {} /\ ~backedOff
         batch == [IdleAsker EXCEPT !.at = IF asks THEN "gate" ELSE "left",
                               !.asked = titles, !.todo = IF asks THEN missing ELSE {},
                               !.since = now, !.told = missing # {} /\ backedOff]
     IN IF claims = {} \/ backedOff
        THEN asker' = [asker EXCEPT ![b] = batch] /\ UNCHANGED claimed
        ELSE \E r \in Refreshers :
               /\ asker[r].at = "idle"
               /\ asker' = [asker EXCEPT ![b] = batch,
                              ![r] = [IdleAsker EXCEPT !.at = "gate", !.asked = claims, !.todo = claims]]
               /\ claimed' = claimed \cup claims
  /\ UNCHANGED <<ratingsClock, fetchTime, credentials, refreshGate, admin, adminCalls>>

(* The asker is done: the gate is released and a background refresh's claims are too.   *)
(* Mutant: only when the refresh succeeded.                                             *)
ReleasedOnSuccess(a, told) == IF a \in Refreshers /\ ~told THEN asker[a].asked ELSE {}
Released(a, told) == IF a \in Refreshers THEN asker[a].asked ELSE {}

LeaveRefresh(a, told) ==
  /\ asker' = [asker EXCEPT ![a] = IF a \in Refreshers THEN IdleAsker
                                   ELSE [@ EXCEPT !.at = "left", !.told = told, !.todo = {},
                                              !.health = NoHealth]]
  /\ refreshGate' = IF refreshGate = a THEN "free" ELSE refreshGate
  /\ claimed' = claimed \ Released(a, told)

(* RefreshAsync looks again behind the gate; mutant: it asks for all it came for.      *)
AllTitles(a, now) == asker[a].todo
Wanted(a, now) ==
  {t \in asker[a].todo : Expired(t, now) \/ (a \in Refreshers /\ Stale(t, now))}

(* Mutant: a refresh that may not ask gives no diagnostic. *)
SaysNothing == FALSE
SaysWhy == TRUE

EnterGate(a) ==
  /\ asker[a].at = "gate" /\ refreshGate = "free"
  /\ LET now == ratingsClock
     IN IF IsBackedOff(health, now) THEN LeaveRefresh(a, SaysWhy)
        ELSE IF Wanted(a, now) = {} THEN LeaveRefresh(a, FALSE)
        ELSE /\ asker' = [asker EXCEPT ![a].at = "asking", ![a].todo = Wanted(a, now),
                                       ![a].health = health]
             /\ refreshGate' = a
             /\ UNCHANGED claimed
  /\ UNCHANGED <<ratingsClock, fetchTime, credentials, admin, bounds>>

(* One chunk is answered: its health is recorded, its titles kept, found or not.        *)
ChunkAnswered(a, t, outcome) ==
  /\ asker[a].at = "asking" /\ t \in asker[a].todo
  /\ LET now == ratingsClock
         after == AfterValidation(asker[a].health, outcome, now, TRUE)
         rest == asker[a].todo \ {t}
     IN /\ health' = after
        /\ fetchTime' = IF Succeeded(outcome) THEN [fetchTime EXCEPT ![t] = now] ELSE fetchTime
        /\ IF ~Succeeded(outcome) \/ IsBackedOff(after, now) THEN LeaveRefresh(a, TRUE)
           ELSE IF rest = {} THEN LeaveRefresh(a, FALSE)
           ELSE /\ asker' = [asker EXCEPT ![a].todo = rest, ![a].health = after]
                /\ UNCHANGED <<refreshGate, claimed>>
  /\ UNCHANGED <<ratingsClock, key, admin, bounds>>

(* ForegroundRefreshTimeout, at the gate or while asking; a background refresh fails.  *)
GiveUpAsking(a) ==
  /\ asker[a].at \in {"gate", "asking"}
  /\ LeaveRefresh(a, TRUE)
  /\ UNCHANGED <<ratingsClock, fetchTime, credentials, admin, bounds>>

(* The second half of BatchAsync: what is held is answered, by the clock of its start. *)
Unanswered(b) == {t \in asker[b].asked : Expired(t, asker[b].since)}

AnswerBatch(b) ==
  /\ asker[b].at = "left"
  /\ asker' = [asker EXCEPT ![b] = IdleAsker]
  /\ UNCHANGED <<ratingsClock, fetchTime, credentials, refreshGate, claimed, admin, bounds>>

-----------------------------------------------------------------------------------
(* The administrator: the calls do not use the gate.                                   *)

(* SaveCredentialAsync and ValidateCredentialAsync ask MDBList unless it is backed off. *)
BeginCredential(k) ==
  /\ admin.at = "idle" /\ adminCalls < MaxAdminCalls
  /\ adminCalls' = adminCalls + 1
  /\ IF IsBackedOff(health, ratingsClock)
     THEN key' = k /\ UNCHANGED admin
     ELSE admin' = [at |-> "validating", key |-> k, previous |-> health] /\ UNCHANGED key
  /\ UNCHANGED <<ratingsClock, fetchTime, health, refreshGate, asker, claimed, batches>>

CredentialValidated(outcome) ==
  /\ admin.at = "validating"
  /\ health' = AfterValidation(admin.previous, outcome, ratingsClock, admin.key = key)
  /\ key' = admin.key
  /\ admin' = NoAdmin
  /\ UNCHANGED <<ratingsClock, fetchTime, refreshGate, asker, claimed, bounds>>

(* The call is cancelled or the key cannot be stored: the health goes back.             *)
CredentialFails ==
  /\ admin.at = "validating"
  /\ health' = admin.previous
  /\ admin' = NoAdmin
  /\ UNCHANGED <<ratingsClock, fetchTime, key, refreshGate, asker, claimed, bounds>>

RemoveCredential ==
  /\ admin.at = "idle" /\ adminCalls < MaxAdminCalls
  /\ adminCalls' = adminCalls + 1
  /\ key' = NoKey /\ health' = NoHealth
  /\ UNCHANGED <<ratingsClock, fetchTime, refreshGate, asker, claimed, admin, batches>>

AskerStep(a) ==
  \/ EnterGate(a) \/ GiveUpAsking(a)
  \/ \E t \in RatedTitles, outcome \in MdbListOutcomes : ChunkAnswered(a, t, outcome)

RatingsNext ==
  \/ TimePasses
  \/ \E b \in Batches : AnswerBatch(b) \/ (\E titles \in SUBSET RatedTitles \ {{}} : Batch(b, titles))
  \/ \E a \in Askers : AskerStep(a)
  \/ \E k \in Keys : BeginCredential(k)
  \/ (\E outcome \in MdbListOutcomes : CredentialValidated(outcome))
  \/ CredentialFails \/ RemoveCredential

RatingsSpec == RatingsInit /\ [][RatingsNext]_ratingsVars

-----------------------------------------------------------------------------------
(* MDBList is not asked for what another refresh fetched meanwhile, however many        *)
(* batches wait for one title.                                                          *)
NotAskedTwice ==
  \A a \in Askers :
    asker'[a].at = "asking" =>
      \A t \in asker'[a].todo : Expired(t, ratingsClock) \/ Stale(t, ratingsClock)
                                  \/ asker[a].at = "asking"

(* Every title of a batch is answered, or the answer says why one is not: also when     *)
(* another batch's refresh was to bring it and failed.                                  *)
AnsweredOrTold ==
  \A b \in Batches : asker[b].at = "left" => asker[b].told \/ Unanswered(b) = {}

(* A title counts as being refreshed only while a refresh of it is under way, however *)
(* the one before ended: otherwise it would stay stale for good.                       *)
ClaimedIsRefreshed ==
  \A t \in claimed : \E r \in Refreshers : asker[r].at # "idle" /\ t \in asker[r].asked
===================================================================================
