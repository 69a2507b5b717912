----------------------------- MODULE CollectionProvider -----------------------------
(* The companion plugin's collection titles: requests of several desktops share the key *)
(* of a provider, one validation of it at a time, a few slots towards the providers and *)
(* a cache of finished results.                                                         *)
EXTENDS Naturals, Sequences, FiniteSets, SequencesExt

CONSTANTS Resolvers,        \* requests under way at once
          Slots,            \* _requestGate: requests that fetch at once
          ProviderRows,     \* what a provider lists: [id, wanted], wanted: of the type asked
          ProviderPageSize, \* rows of a page
          Limits,           \* the limits clients ask for
          MaxResolves,      \* bound: requests
          MaxKeyCalls       \* bound: the administrator's calls

ASSUME CollectionProviderAssumption ==
  /\ {Slots, ProviderPageSize} \subseteq Nat \ {0} /\ Limits \subseteq Nat \ {0}
  /\ {MaxResolves, MaxKeyCalls} \subseteq Nat
  /\ ProviderRows \in Seq([id : Nat, wanted : BOOLEAN])
  /\ IsFiniteSet(Resolvers) /\ "free" \notin Resolvers

(* The source decides the provider: a TMDB discovery or an MDBList list. *)
Providers == {"tmdb", "mdblist"}
NoResult == <<0>>   \* 0 is no title

VARIABLES
  configured,     \* [Providers -> BOOLEAN]: a key is saved
  credential,     \* [Providers -> [valid, backedOff]]: ProviderHealthState
  validated,      \* _validatedThisRun
  validationGate, \* [Providers -> the request that holds it, or "free"]
  resolver,       \* [Resolvers -> the request it serves]
  resultCache,    \* _cache: [Providers \X Limits -> a result, or NoResult]
  waited,         \* history: who waited for a validation that found an outage, until it ends
  resolves, keyCalls

providerVars == <<configured, credential, validated, validationGate, resolver, resultCache,
                  waited, resolves, keyCalls>>
keys == <<configured, keyCalls>>

NoResolve == [at |-> "idle", provider |-> "tmdb", limit |-> 0, inside |-> FALSE,
              offset |-> 0, rows |-> << >>, result |-> NoResult]
Stages == {"idle", "asked", "gate", "validating", "ready", "slot", "list", "pages",
           "answered", "refused"}

ProviderTypeOK ==
  /\ configured \in [Providers -> BOOLEAN]
  /\ credential \in [Providers -> [valid : BOOLEAN, backedOff : BOOLEAN]]
  /\ validated \subseteq Providers
  /\ validationGate \in [Providers -> Resolvers \cup {"free"}]
  /\ \A r \in Resolvers :
       /\ resolver[r].at \in Stages
       /\ resolver[r].offset \in 0 .. Len(ProviderRows) + ProviderPageSize
  /\ Cardinality({r \in Resolvers : resolver[r].inside}) <= Slots
  /\ waited \subseteq Resolvers
  /\ resolves \in 0 .. MaxResolves /\ keyCalls \in 0 .. MaxKeyCalls

ProviderInit ==
  /\ configured = [p \in Providers |-> TRUE]
  /\ credential = [p \in Providers |-> [valid |-> TRUE, backedOff |-> FALSE]]
  /\ validated = {} /\ validationGate = [p \in Providers |-> "free"]
  /\ resolver = [r \in Resolvers |-> NoResolve]
  /\ resultCache = [key \in Providers \X Limits |-> NoResult]
  /\ waited = {} /\ resolves = 0 /\ keyCalls = 0

-----------------------------------------------------------------------------------
(* What a provider's answer says of its key (ProviderHealthPolicy).                   *)
ProviderOutcomes == {"ok", "rejected", "limited", "down", "missing"}
Transient == {"limited", "down"}

AfterKeyCheck(p, outcome) ==
  CASE outcome = "ok" -> [valid |-> TRUE, backedOff |-> FALSE]
    [] outcome = "rejected" -> [valid |-> FALSE, backedOff |-> FALSE]
    [] outcome = "limited" -> [valid |-> p = "mdblist" \/ credential[p].valid, backedOff |-> TRUE]
    [] OTHER -> [valid |-> credential[p].valid, backedOff |-> TRUE]

(* Who waited for a validation of p may ask once the backing off is over. *)
WaitsOn(p) == IF credential'[p].backedOff THEN waited
              ELSE {r \in waited : resolver[r].provider # p}

(* RecordProviderOutcome: MDBList refuses private lists, TMDB only keys. *)
RecordProviderOutcome(p, outcome) ==
  /\ credential' = CASE outcome = "ok" -> [credential EXCEPT ![p].backedOff = FALSE]
                     [] outcome \in Transient -> [credential EXCEPT ![p].backedOff = TRUE]
                     [] outcome = "rejected" /\ p = "tmdb" ->
                          [credential EXCEPT ![p] = [valid |-> FALSE, backedOff |-> FALSE]]
                     [] OTHER -> credential
  /\ validated' = IF outcome = "rejected" /\ p = "tmdb" THEN validated \ {p} ELSE validated
  /\ waited' = WaitsOn(p)

(* The request leaves its slot however it ends; mutant: only when it was answered. *)
HoldsSlotAtEnd(r, stage) == stage = "refused" /\ resolver[r].inside
KeepsSlot(r, stage) == FALSE
End(r, stage, result) ==
  resolver' = [resolver EXCEPT ![r] = [@ EXCEPT !.at = stage, !.result = result,
                                                !.inside = KeepsSlot(r, stage)]]
Refuse(r) == End(r, "refused", NoResult)
GoTo(r, stage) == resolver' = [resolver EXCEPT ![r].at = stage]
WaitedNoMore(r) == waited' = waited \ {r}

(* ResolveAsync and PreviewAsync, with the limit of either. *)
ResolveAsync(r, p, limit) ==
  /\ resolver[r].at \in {"idle", "answered", "refused"} /\ resolves < MaxResolves
  /\ resolves' = resolves + 1
  /\ resolver' = [resolver EXCEPT ![r] = [NoResolve EXCEPT !.at = "asked", !.provider = p,
                     !.limit = limit, !.inside = resolver[r].inside]]
  /\ WaitedNoMore(r)
  /\ UNCHANGED <<keys, credential, validated, validationGate, resultCache>>

(* ValidCredentialAsync up to its gate. *)
Credential(r) ==
  LET p == resolver[r].provider IN
  /\ resolver[r].at = "asked"
  /\ IF ~configured[p] \/ credential[p].backedOff THEN Refuse(r)
     ELSE GoTo(r, IF p \in validated THEN "ready" ELSE "gate")
  /\ UNCHANGED <<keys, credential, validated, validationGate, resultCache, waited, resolves>>

(* ThrowIfBackedOff, behind the gate; mutant: only before it. *)
AskAnyway(p) == FALSE
BackedOff(p) == credential[p].backedOff

EnterValidation(r) ==
  LET p == resolver[r].provider IN
  /\ resolver[r].at = "gate" /\ validationGate[p] = "free"
  /\ IF p \in validated THEN GoTo(r, "ready") /\ UNCHANGED validationGate
     ELSE IF BackedOff(p) THEN Refuse(r) /\ UNCHANGED validationGate
     ELSE GoTo(r, "validating") /\ validationGate' = [validationGate EXCEPT ![p] = r]
  /\ UNCHANGED <<keys, credential, validated, resultCache, waited, resolves>>

ValidationAnswered(r, outcome) ==
  LET p == resolver[r].provider IN
  /\ resolver[r].at = "validating"
  /\ credential' = [credential EXCEPT ![p] = AfterKeyCheck(p, outcome)]
  /\ validated' = IF outcome = "ok" THEN validated \cup {p} ELSE validated
  /\ validationGate' = [validationGate EXCEPT ![p] = "free"]
  /\ IF outcome = "ok" THEN GoTo(r, "ready") ELSE Refuse(r)
  /\ waited' = WaitsOn(p) \cup {q \in Resolvers : /\ resolver[q].at = "gate"
                                                   /\ resolver[q].provider = p
                                                   /\ credential'[p].backedOff}
  /\ UNCHANGED <<keys, resultCache, resolves>>

Cached(r) == resultCache[<<resolver[r].provider, resolver[r].limit>>]

(* With its credential: the cache, then a slot; inside the slot the credential is      *)
(* asked for once more, and the provider's list or its first page.                     *)
LookUp(r) ==
  /\ resolver[r].at = "ready"
  /\ CASE resolver[r].inside -> GoTo(r, IF resolver[r].provider = "mdblist" THEN "list" ELSE "pages")
       [] ~resolver[r].inside /\ Cached(r) # NoResult -> End(r, "answered", Cached(r))
       [] OTHER -> GoTo(r, "slot")
  /\ UNCHANGED <<keys, credential, validated, validationGate, resultCache, waited, resolves>>

(* Mutant: whether a slot is free is not asked.                                        *)
AnySlot == TRUE
SlotFree == Cardinality({q \in Resolvers : resolver[q].inside}) < Slots

EnterRequestGate(r) ==
  /\ resolver[r].at = "slot" /\ SlotFree
  /\ IF Cached(r) # NoResult THEN End(r, "answered", Cached(r))
     ELSE resolver' = [resolver EXCEPT ![r].at = "asked", ![r].inside = TRUE]
  /\ UNCHANGED <<keys, credential, validated, validationGate, resultCache, waited, resolves>>

(* ResolvePublicListAsync. *)
ListResolved(r, outcome) ==
  /\ resolver[r].at = "list"
  /\ RecordProviderOutcome("mdblist", outcome)
  /\ IF outcome = "ok" THEN GoTo(r, "pages") ELSE Refuse(r)
  /\ UNCHANGED <<keys, validationGate, resultCache, resolves>>

(* A page and the rows of it that count.  The next page starts after every row the     *)
(* provider sent; mutant: after the rows that were kept.                               *)
PageAt(offset) == SubSeq(ProviderRows, offset + 1,
                         IF offset + ProviderPageSize > Len(ProviderRows) THEN Len(ProviderRows)
                         ELSE offset + ProviderPageSize)
WantedRows(rows) ==
  LET wanted[n \in 0 .. Len(rows)] ==
        IF n = 0 THEN << >>
        ELSE IF rows[n].wanted THEN Append(wanted[n - 1], rows[n]) ELSE wanted[n - 1]
  IN  wanted[Len(rows)]
AfterKeptRows(offset) == offset + Len(WantedRows(PageAt(offset)))
NextOffset(offset) == offset + Len(PageAt(offset))

(* Result: the first title of each id, up to the limit of rows. *)
Distinct(rows) ==
  FoldLeft(LAMBDA items, row : IF Contains(items, row.id) THEN items ELSE Append(items, row.id),
           << >>, rows)
FirstRows(rows, limit) == SubSeq(rows, 1, IF limit < Len(rows) THEN limit ELSE Len(rows))

PageAnswered(r, outcome) ==
  LET q == resolver[r]
      rows == q.rows \o WantedRows(PageAt(q.offset))
      next == NextOffset(q.offset)
      last == Len(rows) >= q.limit \/ q.offset + ProviderPageSize >= Len(ProviderRows)
      result == Distinct(FirstRows(rows, q.limit)) IN
  /\ q.at = "pages"
  /\ RecordProviderOutcome(q.provider, outcome)
  /\ CASE outcome # "ok" -> Refuse(r) /\ UNCHANGED resultCache
       [] outcome = "ok" /\ last ->
            /\ End(r, "answered", result)
            /\ resultCache' = [resultCache EXCEPT ![<<q.provider, q.limit>>] = result]
       [] OTHER -> /\ resolver' = [resolver EXCEPT ![r].rows = rows, ![r].offset = next]
                   /\ UNCHANGED resultCache
  /\ UNCHANGED <<keys, validationGate, resolves>>

(* The client goes away, at any wait: what the request holds is given back. *)
Disconnect(r) ==
  /\ resolver[r].at \in Stages \ {"idle", "answered", "refused"}
  /\ Refuse(r)
  /\ validationGate' = [p \in Providers |-> IF validationGate[p] = r THEN "free"
                                            ELSE validationGate[p]]
  /\ WaitedNoMore(r)
  /\ UNCHANGED <<keys, credential, validated, resultCache, resolves>>

(* A result is six hours old, or makes room for others. *)
ResultForgotten(key) ==
  /\ resultCache[key] # NoResult
  /\ resultCache' = [resultCache EXCEPT ![key] = NoResult]
  /\ UNCHANGED <<keys, credential, validated, validationGate, resolver, waited, resolves>>

(* The controller's Remove: the credential, its health, then ClearProviderCache. *)
RemoveKey(p) ==
  /\ keyCalls < MaxKeyCalls /\ configured[p]
  /\ configured' = [configured EXCEPT ![p] = FALSE]
  /\ credential' = [credential EXCEPT ![p] = [valid |-> FALSE, backedOff |-> FALSE]]
  /\ validated' = validated \ {p}
  /\ resultCache' = [key \in DOMAIN resultCache |-> IF key[1] = p THEN NoResult
                                                    ELSE resultCache[key]]
  /\ waited' = WaitsOn(p) /\ keyCalls' = keyCalls + 1
  /\ UNCHANGED <<validationGate, resolver, resolves>>

(* A key is saved once its provider accepted it; MDBList may be limited meanwhile. *)
SaveKey(p) ==
  /\ keyCalls < MaxKeyCalls
  /\ configured' = [configured EXCEPT ![p] = TRUE]
  /\ credential' = [credential EXCEPT ![p] = [valid |-> TRUE, backedOff |-> FALSE]]
  /\ waited' = WaitsOn(p) /\ keyCalls' = keyCalls + 1
  /\ UNCHANGED <<validated, validationGate, resolver, resultCache, resolves>>

RetryTimePasses(p) ==
  /\ credential[p].backedOff
  /\ credential' = [credential EXCEPT ![p].backedOff = FALSE]
  /\ waited' = WaitsOn(p)
  /\ UNCHANGED <<keys, validated, validationGate, resolver, resultCache, resolves>>

ResolverStep(r) ==
  \/ Credential(r) \/ EnterValidation(r) \/ LookUp(r) \/ EnterRequestGate(r)
  \/ \E outcome \in ProviderOutcomes :
       ValidationAnswered(r, outcome) \/ ListResolved(r, outcome) \/ PageAnswered(r, outcome)

ProviderNext ==
  \/ \E r \in Resolvers :
       \/ \E p \in Providers, limit \in Limits : ResolveAsync(r, p, limit)
       \/ ResolverStep(r) \/ Disconnect(r)
  \/ \E p \in Providers : RemoveKey(p) \/ SaveKey(p) \/ RetryTimePasses(p)
  \/ \E key \in DOMAIN resultCache : ResultForgotten(key)

(* Upstream calls are answered or time out, and the semaphores wake who waits. *)
ProviderFairness == \A r \in Resolvers : SF_providerVars(ResolverStep(r))
ProviderSpec == ProviderInit /\ [][ProviderNext]_providerVars /\ ProviderFairness

-----------------------------------------------------------------------------------
(* A result holds each title once, in the provider's order, and misses one only when   *)
(* the rows before it already filled the limit.                                        *)
ResultIsTheListsStart ==
  \A r \in Resolvers : resolver[r].at = "answered" =>
    resolver[r].result = Distinct(FirstRows(WantedRows(ProviderRows), resolver[r].limit))

(* Who waited for a validation that found the provider limited or down does not ask    *)
(* it again before the retry time, or an answer that says the outage is over.          *)
OneValidationFindsTheOutage ==
  \A r \in waited : resolver[r].at # "validating"

(* Every request ends: the slot held while the key's gate is awaited blocks nobody for *)
(* good, and no failure keeps a slot or a gate.                                        *)
ResolveEnds ==
  \A r \in Resolvers : []<>(resolver[r].at \in {"idle", "answered", "refused"})

(* Every list that is asked for is answered, in full and without asking a provider that *)
(* is known to be down (ResolveAsync, ValidCredentialAsync).                            *)
ResolvesAreSound == [](ResultIsTheListsStart /\ OneValidationFindsTheOutage) /\ ResolveEnds
===================================================================================
