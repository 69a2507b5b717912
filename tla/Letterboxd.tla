-------------------------------- MODULE Letterboxd --------------------------------
(* The Letterboxd members an account has connected, and what their public feeds say  *)
(* of one film (api/letterboxd.rs, accounts.rs, integrations/letterboxd.rs).  Adding *)
(* and refreshing a profile ask Letterboxd first and save the whole record after; a  *)
(* lookup reads the profiles, asks for the feeds it has no recent copy of, all at    *)
(* once, and shows what the cache then has.                                          *)
EXTENDS Naturals, Sequences, SequencesExt, FiniteSets

CONSTANTS
  Members,            \* usernames
  MaxConnected,       \* MAX_CONNECTED_PROFILES
  FeedTtl,            \* FEED_CACHE_TTL
  MaxFeedAge,         \* MAX_CACHE_AGE
  ProfileCallers,     \* requests that add or refresh a profile
  ReviewReaders,      \* requests that look reviews up
  MaxReviewCalls,     \* bound: requests of any kind
  Entries,            \* entries of a feed that the parser is checked on
  MaxReviewTime       \* bound: ticks; a request ends within one (REQUEST_TIMEOUT)

LetterboxdAssumption ==
  /\ MaxConnected \in Nat \ {0} /\ FeedTtl \in Nat \ {0} /\ FeedTtl < MaxFeedAge
  /\ {MaxFeedAge, MaxReviewCalls, Entries, MaxReviewTime} \subseteq Nat

VARIABLES
  connected,    \* accounts.json: the profiles, oldest first
  profileCalls, \* per caller: the record it will save and the session it began in
  lookups,      \* per reader: where it is and what it got
  feedCache,    \* ReviewService::by the id of the profile
  reviewNow, profileSession, reviewCalls

letterboxdVars == <<connected, profileCalls, lookups, feedCache, reviewNow,
                    profileSession, reviewCalls>>

-----------------------------------------------------------------------------------
(* ExternalProfile; `checked` is last_checked_at, in refreshes rather than seconds. *)
ExternalProfiles ==
  [id : 1 .. MaxReviewCalls, key : Members, enabled : BOOLEAN,
   created : 0 .. MaxReviewCalls, checked : 0 .. MaxReviewCalls]

NoCall == [profile |-> << >>, session |-> 0]
NoLookup == [at |-> "idle"]

AreStorable(profiles) ==
  /\ Len(profiles) <= MaxConnected
  /\ \A i, j \in DOMAIN profiles :
       i # j => profiles[i].id # profiles[j].id /\ profiles[i].key # profiles[j].key

(* validate_document, before every save of the account's file; mutant: unchecked. *)
AnyStorable(profiles) == TRUE
StorableProfiles(profiles) == AreStorable(profiles)

WithId(id) == SelectInSeq(connected, LAMBDA p : p.id = id)
WithKey(member) == SelectInSeq(connected, LAMBDA p : p.key = member)

(* save_letterboxd_profile: by id, else by username, which keeps its identity;        *)
(* mutant: a username that comes again is given the new one.                          *)
SavedAnew(profile) ==
  LET place == IF WithId(profile.id) # 0 THEN WithId(profile.id) ELSE WithKey(profile.key)
  IN  IF place # 0 THEN [connected EXCEPT ![place] = profile] ELSE Append(connected, profile)
SavedProfile(profile) ==
  LET byId == WithId(profile.id)
      byKey == WithKey(profile.key)
  IN  IF byId # 0 THEN [connected EXCEPT ![byId] = profile]
      ELSE IF byKey # 0
           THEN [connected EXCEPT ![byKey] =
                  [profile EXCEPT !.id = connected[byKey].id, !.created = connected[byKey].created]]
      ELSE Append(connected, profile)

-----------------------------------------------------------------------------------
LetterboxdInit ==
  /\ connected = << >> /\ profileCalls = [c \in ProfileCallers |-> NoCall]
  /\ lookups = [r \in ReviewReaders |-> NoLookup] /\ feedCache = << >>
  /\ reviewNow = 0 /\ profileSession = 0 /\ reviewCalls = 0

ReviewCall == reviewCalls < MaxReviewCalls /\ reviewCalls' = reviewCalls + 1

Requested(c, profile) ==
  /\ profileCalls[c] = NoCall /\ ReviewCall
  /\ profileCalls' = [profileCalls EXCEPT ![c] = [profile |-> profile, session |-> profileSession]]
  /\ UNCHANGED <<connected, lookups, feedCache, reviewNow, profileSession>>

(* letterboxd_add_profile, up to `verify`: the limit is checked before the feed is     *)
(* asked for.                                                                          *)
AddProfile(c, member) ==
  /\ Len(connected) < MaxConnected \/ WithKey(member) # 0
  /\ LET now == reviewCalls + 1
     IN  Requested(c, [id |-> now, key |-> member, enabled |-> TRUE, created |-> now,
                       checked |-> now])

(* letterboxd_refresh_profile, up to `verify`. *)
RefreshProfile(c, id) ==
  /\ WithId(id) # 0
  /\ Requested(c, [connected[WithId(id)] EXCEPT !.checked = reviewCalls + 1])

(* Both, from there: nothing is saved for a session that was replaced meanwhile. *)
SaveProfileOf(c) ==
  /\ profileCalls[c] # NoCall
  /\ profileCalls' = [profileCalls EXCEPT ![c] = NoCall]
  /\ LET saved == SavedProfile(profileCalls[c].profile)
     IN  connected' = IF profileCalls[c].session = profileSession /\ StorableProfiles(saved)
                      THEN saved ELSE connected
  /\ UNCHANGED <<lookups, feedCache, reviewNow, profileSession, reviewCalls>>

Toggled ==
  /\ ReviewCall
  /\ UNCHANGED <<profileCalls, lookups, feedCache, reviewNow, profileSession>>

SetEnabled(id, enabled) ==
  /\ WithId(id) # 0 /\ Toggled
  /\ connected' = [connected EXCEPT ![WithId(id)].enabled = enabled]

DisconnectProfile(id) ==
  /\ WithId(id) # 0 /\ Toggled
  /\ connected' = SelectSeq(connected, LAMBDA p : p.id # id)

(* The account signs in again, while a request runs. *)
SignInAfresh ==
  /\ \E c \in ProfileCallers : profileCalls[c] # NoCall
  /\ profileSession = 0 /\ profileSession' = 1 /\ ReviewCall
  /\ UNCHANGED <<connected, profileCalls, lookups, feedCache, reviewNow>>

-----------------------------------------------------------------------------------
ReviewTimePasses ==
  /\ reviewNow < MaxReviewTime /\ reviewNow' = reviewNow + 1
  /\ \A r \in {q \in ReviewReaders : lookups[q] # NoLookup} : lookups[r].since = reviewNow
  /\ UNCHANGED <<connected, profileCalls, lookups, feedCache, profileSession,
                 reviewCalls>>

(* parse_feed for one film: the newest rating and the newest review, whichever entries *)
(* they are in; the link is that of the review, or of the rating while there is none;  *)
(* mutant: that of the last of the two met.                                            *)
LinkOfLast(activity, entry) ==
  LET rating == activity.rating = 0 /\ entry.rated
      review == activity.review = 0 /\ entry.reviewed
  IN  [rating |-> IF rating THEN entry.n ELSE activity.rating,
       review |-> IF review THEN entry.n ELSE activity.review,
       link |-> IF review \/ rating THEN entry.n ELSE activity.link]
Selected(activity, entry) ==
  LET rating == activity.rating = 0 /\ entry.rated
      review == activity.review = 0 /\ entry.reviewed
  IN  [rating |-> IF rating THEN entry.n ELSE activity.rating,
       review |-> IF review THEN entry.n ELSE activity.review,
       link |-> IF review \/ (rating /\ activity.review = 0) THEN entry.n ELSE activity.link]
ParseFeed(entries) ==
  FoldLeft(Selected, [rating |-> 0, review |-> 0, link |-> 0], entries)

(* A reader leaves the other state alone. *)
Reads(r, lookup) ==
  /\ lookups' = [lookups EXCEPT ![r] = lookup]
  /\ UNCHANGED <<connected, profileCalls, reviewNow, profileSession>>

(* reviews_for_item: the profiles ... *)
ReadProfiles(r) ==
  /\ lookups[r] = NoLookup /\ ReviewCall
  /\ Reads(r, [at |-> "read", since |-> reviewNow,
               enabled |-> SelectSeq(connected, LAMBDA p : p.enabled)])
  /\ UNCHANGED feedCache

(* ... the feeds to ask for; mutant: age is not looked at ... *)
SameCheck(profile) ==
  /\ profile.id \in DOMAIN feedCache /\ feedCache[profile.id].checked = profile.checked
IsRecent(profile) ==
  /\ profile.id \in DOMAIN feedCache
  /\ reviewNow - feedCache[profile.id].fetched < FeedTtl
  /\ feedCache[profile.id].checked = profile.checked

PlanFetches(r) ==
  /\ lookups[r].at = "read"
  /\ Reads(r, [at |-> "fetching", since |-> lookups[r].since, enabled |-> lookups[r].enabled,
               pending |-> {p \in ToSet(lookups[r].enabled) : ~IsRecent(p)}, got |-> {},
               failed |-> {}])
  /\ UNCHANGED <<feedCache, reviewCalls>>

(* ... one of their answers, or the failure to get it ... *)
FetchFeed(r) ==
  /\ lookups[r].at = "fetching"
  /\ \E p \in lookups[r].pending :
       LET answer == [id |-> p.id, checked |-> p.checked, served |-> reviewNow]
       IN  \/ Reads(r, [lookups[r] EXCEPT !.pending = @ \ {p}, !.got = @ \cup {answer}])
           \/ Reads(r, [lookups[r] EXCEPT !.pending = @ \ {p}, !.failed = @ \cup {p.id}])
  /\ UNCHANGED <<feedCache, reviewCalls>>

(* ... and, all answered and under one lock, what the cache has from then on. *)
IsKept(cached) == reviewNow - cached.fetched < MaxFeedAge

ShownReviews(lookup, cache) ==
  {[stale |-> p.id \in lookup.failed, served |-> cache[p.id].served] :
     p \in {q \in ToSet(lookup.enabled) : q.id \in DOMAIN cache}}

ShowReviews(r) ==
  /\ lookups[r].at = "fetching" /\ lookups[r].pending = {}
  /\ LET got == lookups[r].got
         ids == DOMAIN feedCache \cup {a.id : a \in got}
         filled == [id \in ids |->
           IF \E a \in got : a.id = id
           THEN LET a == CHOOSE a \in got : a.id = id
                IN  [fetched |-> reviewNow, checked |-> a.checked, served |-> a.served]
           ELSE feedCache[id]]
     IN  feedCache' = [id \in {i \in ids : IsKept(filled[i])} |-> filled[id]]
  /\ Reads(r, NoLookup)
  /\ UNCHANGED reviewCalls

LetterboxdNext ==
  \/ \E c \in ProfileCallers :
       \/ \E m \in Members : AddProfile(c, m)
       \/ \E id \in 1 .. MaxReviewCalls : RefreshProfile(c, id)
       \/ SaveProfileOf(c)
  \/ \E id \in 1 .. MaxReviewCalls :
       (\E enabled \in BOOLEAN : SetEnabled(id, enabled)) \/ DisconnectProfile(id)
  \/ SignInAfresh \/ ReviewTimePasses
  \/ \E r \in ReviewReaders :
       ReadProfiles(r) \/ PlanFetches(r) \/ FetchFeed(r) \/ ShowReviews(r)

-----------------------------------------------------------------------------------
LetterboxdTypeOK ==
  /\ connected \in Seq(ExternalProfiles)
  /\ DOMAIN feedCache \subseteq 1 .. MaxReviewCalls
  /\ \A r \in ReviewReaders : lookups[r].at \in {"idle", "read", "fetching"}
  /\ reviewNow \in 0 .. MaxReviewTime /\ profileSession \in {0, 1}
  /\ reviewCalls \in 0 .. MaxReviewCalls

(* Requests that pass each other in flight leave profiles the file can be opened with, *)
(* never more than the limit.                                                          *)
ProfilesAreStorable == AreStorable(connected)

(* A connected member stays the same profile; what was disconnected comes back, and    *)
(* what was switched off is on again, only when asked for, or by the answer of a       *)
(* refresh that was asked for before.                                                  *)
ProfilesKeepIdentity ==
  \A i \in DOMAIN connected' :
    LET p == connected'[i]
        before == WithKey(p.key)
        refreshed == {profileCalls[c].profile : c \in {d \in ProfileCallers :
                        profileCalls[d] # NoCall /\ profileCalls[d] # profileCalls'[d]}}
    IN  /\ before # 0 => /\ p.id = connected[before].id
                         /\ p.created = connected[before].created
        /\ before # 0 /\ p.enabled # connected[before].enabled =>
             reviewCalls' # reviewCalls \/ \E q \in refreshed : q.key = p.key /\ q.enabled = p.enabled
        /\ before = 0 => \E q \in refreshed : q.id = p.id /\ q.enabled = p.enabled

(* A review that is not marked stale is at most a tick older than the cache's time to  *)
(* live, and no review is older than the cache keeps a feed.                           *)
ReviewsAreRecent ==
  \A r \in ReviewReaders : lookups[r].at = "fetching" /\ lookups'[r] = NoLookup =>
    \A shown \in ShownReviews(lookups[r], feedCache') :
      reviewNow - shown.served <= IF shown.stale THEN MaxFeedAge ELSE FeedTtl + 1

(* Of any feed, the rating and the review are the newest, and the link leads to the    *)
(* review, or to the rating when there is no review.                                   *)
FeedsAreParsed ==
  \A length \in 0 .. Entries : \A kinds \in [1 .. length -> SUBSET {"rating", "review"}] :
    LET newest(kind) == SelectInSeq([n \in 1 .. length |-> kind \in kinds[n]], LAMBDA has : has)
        parsed == ParseFeed([n \in 1 .. length |->
                    [n |-> n, rated |-> "rating" \in kinds[n], reviewed |-> "review" \in kinds[n]]])
    IN  parsed = [rating |-> newest("rating"), review |-> newest("review"),
                  link |-> IF newest("review") # 0 THEN newest("review") ELSE newest("rating")]
===================================================================================
