-------------------------------- MODULE CardRatings --------------------------------
(* The ratings on cards (integrations/mdblist, library/integrations.rs): a batch of   *)
(* cards is answered from the cache in the library's file; what is not there, or old, *)
(* is asked of the Companion first, by one batch at a time for each title, and the    *)
(* answer is cached under the session it was asked in.                                *)
EXTENDS Integers, Sequences, FiniteSets

CONSTANTS
  CardPages,       \* sets of cards that may be on screen together
  TitleOf,         \* the title (provider and id) a card stands for
  RatingBatches,   \* requests
  FreshRatings,    \* PLUGIN_FRESH_SECONDS
  ExpireRatings,   \* EXPIRE_SECONDS
  ScaleMax,        \* of the sources that are known: scale_max
  NoNumber,        \* a value or score that is missing or no number
  MaxRatingBatches, MaxCardTime, MaxRatingSessions   \* bounds

Cards == UNION CardPages
CardTitles == {TitleOf[c] : c \in Cards}

CardRatingsAssumption ==
  /\ FreshRatings \in Nat \ {0} /\ ExpireRatings \in Nat /\ FreshRatings < ExpireRatings
  /\ {MaxRatingBatches, MaxCardTime, MaxRatingSessions} \subseteq Nat

VARIABLES
  ratingCache, \* rating_cache: of some titles, when it was fetched, in which version of
              \* the cache, and (a history) in which session
  inFlight,   \* RatingsService::in_flight
  cardBatches,    \* per request: where it is and what it knows
  cardTime, ratingSession, batchCount

ratingCardVars == <<ratingCache, inFlight, cardBatches, cardTime, ratingSession, batchCount>>

NoBatch == [pc |-> "idle"]
CachedRatings == [fetched : 0 .. MaxCardTime, current : BOOLEAN,
                  session : 0 .. MaxRatingSessions]
Titles(batch) == {TitleOf[c] : c \in batch.cards}

CardRatingsInit ==
  /\ \E old \in SUBSET CardTitles :
       ratingCache = [t \in old |-> [fetched |-> 0, current |-> FALSE, session |-> 0]]
  /\ inFlight = {} /\ cardBatches = [b \in RatingBatches |-> NoBatch]
  /\ cardTime = 0 /\ ratingSession = 0 /\ batchCount = 0

NothingAsked == batchCount = 0 /\ cardTime = 0 /\ ratingSession = 0

CardRatingsTypeOK ==
  /\ DOMAIN ratingCache \subseteq CardTitles /\ \A t \in DOMAIN ratingCache : ratingCache[t] \in CachedRatings
  /\ inFlight \subseteq CardTitles
  /\ cardTime \in 0 .. MaxCardTime /\ ratingSession \in 0 .. MaxRatingSessions
  /\ batchCount \in 0 .. MaxRatingBatches

-----------------------------------------------------------------------------------
(* normalize_rating_array.  A rating names a source and may have a value and a score;  *)
(* only what is on its scale counts.                                                   *)
OnScale(n, maximum) == n # NoNumber /\ n >= 0 /\ n <= maximum
Score(rating) == IF OnScale(rating.score, 100) THEN rating.score ELSE NoNumber

(* native_value: the value, or what the score makes of it; mutant: the other way round. *)
ScoreFirst(rating) ==
  IF Score(rating) # NoNumber THEN (Score(rating) * ScaleMax[rating.source]) \div 100
  ELSE IF OnScale(rating.value, ScaleMax[rating.source]) THEN rating.value ELSE NoNumber
NativeValue(rating) ==
  IF OnScale(rating.value, ScaleMax[rating.source]) THEN rating.value
  ELSE IF Score(rating) # NoNumber THEN (Score(rating) * ScaleMax[rating.source]) \div 100
  ELSE NoNumber

(* deduplicate_ratings: by source, the last of each. *)
NormalizedRatings(ratings) ==
  LET good == {i \in DOMAIN ratings : /\ ratings[i].source \in DOMAIN ScaleMax
                                      /\ NativeValue(ratings[i]) # NoNumber}
      last(source) == CHOOSE i \in good :
        /\ ratings[i].source = source
        /\ \A j \in good : ratings[j].source = source => j <= i
  IN  [source \in {ratings[i].source : i \in good} |->
         [source |-> source, value |-> NativeValue(ratings[last(source)]),
          score |-> Score(ratings[last(source)])]]

-----------------------------------------------------------------------------------
CardsGo(b, pc) == cardBatches' = [cardBatches EXCEPT ![b].pc = pc]

(* cached_ratings, of the titles of a batch. *)
CachedOf(titles) == [t \in titles \cap DOMAIN ratingCache |-> ratingCache[t]]

(* save_rating_cache: rows replaced, and what expired deleted. *)
SavedRows(rows) ==
  LET now == [t \in DOMAIN ratingCache \cup DOMAIN rows |->
                IF t \in DOMAIN rows THEN rows[t] ELSE ratingCache[t]]
  IN  [t \in {u \in DOMAIN now : cardTime <= now[u].fetched + ExpireRatings} |-> now[t]]

(* batch, with the scope it begins in. *)
StartBatch(b, cards) ==
  /\ cardBatches[b] = NoBatch /\ batchCount < MaxRatingBatches
  /\ batchCount' = batchCount + 1
  /\ cardBatches' = [cardBatches EXCEPT ![b] =
       [pc |-> "sanitize", cards |-> cards, now |-> cardTime, session |-> ratingSession,
        cache |-> CachedOf({TitleOf[c] : c \in cards}), owned |-> {}, answer |-> {},
        asked |-> FALSE]]
  /\ UNCHANGED <<ratingCache, inFlight, cardTime, ratingSession>>

(* sanitize_cached: rows of an earlier version are rewritten as they were read; mutant: *)
(* every row is.                                                                       *)
Sanitized(row) == [row EXCEPT !.current = TRUE]
EveryRow(cache) == DOMAIN cache
EarlierRows(cache) == {t \in DOMAIN cache : ~cache[t].current}
SanitizeCached(b) ==
  /\ cardBatches[b].pc = "sanitize"
  /\ LET old == EarlierRows(cardBatches[b].cache)
         sanitized == [t \in old |-> Sanitized(cardBatches[b].cache[t])]
     IN  /\ ratingCache' = IF old = {} THEN ratingCache ELSE SavedRows(sanitized)
         /\ cardBatches' = [cardBatches EXCEPT
              ![b].pc = IF cardBatches[b].asked THEN "answer" ELSE "claim",
              ![b].cache = [t \in DOMAIN @ |-> Sanitized(@[t])]]
  /\ UNCHANGED <<inFlight, cardTime, ratingSession, batchCount>>

NeedsRefresh(batch) ==
  {t \in Titles(batch) : t \in DOMAIN batch.cache =>
     ~batch.cache[t].current \/ batch.cache[t].fetched + FreshRatings <= batch.now}

(* claim: the titles nobody asks for yet; mutant: all. *)
Unclaimed(titles) == titles
Claimed(titles) == titles \ inFlight
ClaimTitles(b) ==
  /\ cardBatches[b].pc = "claim"
  /\ LET owned == Claimed(NeedsRefresh(cardBatches[b]))
     IN  /\ inFlight' = inFlight \cup owned
         /\ cardBatches' = [cardBatches EXCEPT ![b].owned = owned,
                          ![b].pc = IF owned = {} THEN "answer" ELSE "asking"]
  /\ UNCHANGED <<ratingCache, cardTime, ratingSession, batchCount>>

(* ratings_v1 is answered, for some of the titles (all else is not in the rows saved). *)
CompanionAnswers(b) ==
  /\ cardBatches[b].pc = "asking"
  /\ \E some \in SUBSET cardBatches[b].owned :
       cardBatches' = [cardBatches EXCEPT ![b].pc = "save", ![b].answer = some]
  /\ UNCHANGED <<ratingCache, inFlight, cardTime, ratingSession, batchCount>>

CompanionFails(b) ==
  /\ cardBatches[b].pc = "asking" /\ CardsGo(b, "release")
  /\ UNCHANGED <<ratingCache, inFlight, cardTime, ratingSession, batchCount>>

(* commit_if_current around normalize_plugin_batch and save_rating_cache; mutant:      *)
(* whatever the session.                                                               *)
InAnySession(batch) == TRUE
InItsSession(batch) == batch.session = ratingSession
CommitRatings(b) ==
  /\ cardBatches[b].pc = "save" /\ CardsGo(b, "release")
  /\ ratingCache' = IF InItsSession(cardBatches[b])
               THEN SavedRows([t \in cardBatches[b].answer |->
                      [fetched |-> cardTime, current |-> TRUE, session |-> cardBatches[b].session]])
               ELSE ratingCache
  /\ UNCHANGED <<inFlight, cardTime, ratingSession, batchCount>>

(* release; mutant: only what was answered. *)
ReleasesAnswered(batch) == inFlight \ batch.answer
TitlesLeft(batch) == inFlight \ batch.owned
ReleaseTitles(b) ==
  /\ cardBatches[b].pc = "release" /\ CardsGo(b, "reread")
  /\ inFlight' = TitlesLeft(cardBatches[b])
  /\ UNCHANGED <<ratingCache, cardTime, ratingSession, batchCount>>

ReadCacheAgain(b) ==
  /\ cardBatches[b].pc = "reread"
  /\ cardBatches' = [cardBatches EXCEPT ![b].pc = "sanitize", ![b].asked = TRUE,
                   ![b].cache = CachedOf(Titles(cardBatches[b]))]
  /\ UNCHANGED <<ratingCache, inFlight, cardTime, ratingSession, batchCount>>

(* The items of the answer, for the session the batch began in. *)
ShownRatings(batch) ==
  IF batch.session # ratingSession THEN {}
  ELSE {[title |-> t, fetched |-> batch.cache[t].fetched, session |-> batch.cache[t].session,
         stale |-> batch.cache[t].fetched + FreshRatings <= batch.now] :
          t \in {u \in DOMAIN batch.cache : batch.cache[u].fetched + ExpireRatings > batch.now}}

AnswerCards(b) ==
  /\ cardBatches[b].pc = "answer" /\ cardBatches' = [cardBatches EXCEPT ![b] = NoBatch]
  /\ UNCHANGED <<ratingCache, inFlight, cardTime, ratingSession, batchCount>>

(* Time in hours: a batch sees one pass at most. *)
CardTimePasses ==
  /\ cardTime < MaxCardTime /\ cardTime' = cardTime + 1
  /\ \A b \in {c \in RatingBatches : cardBatches[c] # NoBatch} : cardBatches[b].now = cardTime
  /\ UNCHANGED <<ratingCache, inFlight, cardBatches, ratingSession, batchCount>>

RatingSessionChanges ==
  /\ \E b \in RatingBatches : cardBatches[b] # NoBatch
  /\ ratingSession < MaxRatingSessions /\ ratingSession' = ratingSession + 1
  /\ UNCHANGED <<ratingCache, inFlight, cardBatches, cardTime, batchCount>>

CardRatingsNext ==
  \/ \E b \in RatingBatches :
       \/ \E cards \in CardPages : StartBatch(b, cards)
       \/ SanitizeCached(b) \/ ClaimTitles(b) \/ CompanionAnswers(b) \/ CompanionFails(b)
       \/ CommitRatings(b) \/ ReleaseTitles(b) \/ ReadCacheAgain(b) \/ AnswerCards(b)
  \/ CardTimePasses \/ RatingSessionChanges

CardRatingsSpec == CardRatingsInit /\ [][CardRatingsNext]_ratingCardVars

-----------------------------------------------------------------------------------
(* A title is asked for by one batch at a time, and is free again when that batch is   *)
(* through, however it went.                                                           *)
Holding(b) == cardBatches[b].pc \in {"asking", "save", "release"}
TitlesAreAskedOnce ==
  /\ \A a, b \in RatingBatches :
       a # b /\ Holding(a) /\ Holding(b) => cardBatches[a].owned \cap cardBatches[b].owned = {}
  /\ inFlight = UNION {cardBatches[b].owned : b \in {c \in RatingBatches : Holding(c)}}

(* What was fetched lately is not lost to a batch that read the cache before, unless a *)
(* row of an earlier version is rewritten; and no answer of an earlier session is      *)
(* cached in a later one.                                                              *)
FetchedRatingsStay ==
  /\ \A t \in DOMAIN ratingCache :
       \/ t \in DOMAIN ratingCache' /\ ratingCache'[t].fetched >= ratingCache[t].fetched
       \/ ratingCache[t].fetched + ExpireRatings < cardTime
       \/ \E b \in RatingBatches :
            /\ cardBatches[b].pc = "sanitize" /\ cardBatches'[b] # cardBatches[b]
            /\ t \in DOMAIN cardBatches[b].cache /\ ~cardBatches[b].cache[t].current
  /\ \A t \in DOMAIN ratingCache' :
       (t \notin DOMAIN ratingCache \/ ratingCache'[t].fetched > ratingCache[t].fetched) =>
         ratingCache'[t].session = ratingSession

(* Normalizing what is cached changes nothing, else sanitize_cached would write rows it *)
(* read a while ago at every batch; and a rating is the source's own where it has one.  *)
RatingsNormalizeOnce ==
  LET numbers == {NoNumber, -1, 4, 10, 40, 200}
      rating == [source : DOMAIN ScaleMax \cup {"unknown"}, value : numbers, score : numbers]
  IN  \A one, two \in rating :
        LET once == NormalizedRatings(<<one, two>>)
        IN  /\ \A s \in DOMAIN once :
                 /\ NormalizedRatings(<<once[s]>>) = [t \in {s} |-> once[s]]
                 /\ OnScale(once[s].value, ScaleMax[s])
            /\ (/\ one.source \in DOMAIN once /\ two.source # one.source
                /\ OnScale(one.value, ScaleMax[one.source])) =>
                  once[one.source].value = one.value
===================================================================================
