------------------------------ MODULE OwnedTitles ------------------------------
(* Which titles of a provider the library has (collections/matching.rs), and what the    *)
(* collections, the movie franchises, the calendar and Seerr's rows say of it             *)
(* (api/collections/browse.rs, collections/franchises.rs, companion/mod.rs, seerr.rs).    *)
(* Titles are known by their TMDB id; one that has none is found by what the provider     *)
(* once made of its IMDb or TVDB id, which is kept whatever becomes of the title.  Each   *)
(* page reads the cache once, while the sync writes it and identities are resolved.       *)
EXTENDS Naturals, Sequences, FiniteSets, SequencesExt, TLAPS

CONSTANTS
  CachedItems,     \* items of the server
  ItemRows,        \* what the cache may hold of one: [kind, tmdb, imdb, tvdb, released]; 0: no id
  TmdbOf,          \* [secondary identities -> TMDB id]: what the provider makes of them; 0: nothing
  ProviderLists,   \* results of a collection profile: sequences of titles
  FranchiseParts,  \* [franchises -> sequence of titles], as the last resolution kept them
  MaxAsked         \* LIMIT of the rows that are asked about at a time (500 in the code)

VARIABLES
  rows,         \* the cache: [CachedItems -> row]
  mappings,     \* provider_identity_map: [secondary identities -> TMDB id]; 0: no row
  asking,       \* what threads have asked the provider about: sets of identities
  complete,     \* ownership_available: the whole library was fetched, the last cycle succeeded
  mine,         \* the account of the collections is the one the cache is of
  restricted,   \* the server limits what the user may see
  unreleased,   \* include_unreleased, of the franchise settings
  results       \* the profile's snapshot

ownedVars == <<rows, mappings, asking, complete, mine, restricted, unreleased, results>>

NoRow == [kind |-> "none", tmdb |-> 0, imdb |-> 0, tvdb |-> 0]
Identities == DOMAIN TmdbOf
Identity(t) == <<t.kind, t.tmdb>>
TmdbIds == {r.tmdb : r \in ItemRows} \cup {TmdbOf[s] : s \in Identities}
Titles == UNION {ToSet(list) : list \in ProviderLists \cup {FranchiseParts[f] : f \in DOMAIN FranchiseParts}}

OwnedTitlesAssumption ==
  /\ NoRow \notin ItemRows /\ MaxAsked \in Nat
  /\ \A s \in Identities : s.kind \in {"Movie", "Series"} /\ s.provider \in {"imdb", "tvdb"} /\ s.id > 0

OwnedTypeOK ==
  /\ rows \in [CachedItems -> ItemRows \cup {NoRow}]
  /\ mappings \in [Identities -> TmdbIds \cup {0}]
  /\ asking \subseteq SUBSET Identities
  /\ {complete, mine, restricted, unreleased} \subseteq BOOLEAN
  /\ ToSet(results) \subseteq Titles

-----------------------------------------------------------------------------
(* matching.rs: the secondary ids of a row, those nobody has resolved and the items that     *)
(* have them, the titles owned, and the items of a title.                                   *)

Carries(row, s) == row.kind = s.kind /\ row[s.provider] = s.id

Unresolved ==
  {pair \in CachedItems \X Identities :
     LET row == rows[pair[1]] IN
     row.tmdb = 0 /\ Carries(row, pair[2]) /\ mappings[pair[2]] = 0}

Mapped(row, tmdb) == \E s \in Identities : Carries(row, s) /\ mappings[s] = tmdb

OwnedTmdbIds(kind) ==
  {tmdb \in TmdbIds \ {0} :
     \E i \in CachedItems : /\ rows[i].kind = kind
                            /\ \/ rows[i].tmdb = tmdb
                               \/ rows[i].tmdb = 0 /\ Mapped(rows[i], tmdb)}

(* Mutant: by its own id only. *)
LocalByOwnId(kind, tmdb) == {i \in CachedItems : rows[i].kind = kind /\ rows[i].tmdb = tmdb}
LocalItems(kind, tmdb) ==
  {i \in CachedItems : rows[i].kind = kind /\ (rows[i].tmdb = tmdb \/ Mapped(rows[i], tmdb))}
IsLocal(t) == LocalItems(t.kind, t.tmdb) # {}

(* No title twice, none for adults, in the order of the provider. *)
Distinct(titles) ==
  LET isFirst(i) == \A j \in 1 .. i - 1 : titles[j].adult \/ Identity(titles[j]) # Identity(titles[i])
  IN  {titles[i] : i \in {j \in DOMAIN titles : ~titles[j].adult /\ isFirst(j)}}
SourceOrder(a, b) == a.order < b.order
Normalized(titles) == SetToSortSeq(Distinct(titles), SourceOrder)

NothingShown == [found |-> TRUE, available |-> FALSE, owned |-> << >>, missing |-> << >>, items |-> << >>]

(* classify; mutant: a restricted user is kept from it only once the library is complete.   *)
HiddenIfComplete(titles) == titles
HiddenFrom(titles) == IF restricted THEN << >> ELSE titles
Classify(titles) ==
  LET items == Normalized(titles) IN
  IF ~complete \/ ~mine
    THEN [NothingShown EXCEPT !.items = HiddenFrom(items)]
    ELSE [NothingShown EXCEPT !.available = TRUE, !.owned = SelectSeq(items, IsLocal),
                              !.missing = HiddenFrom(SelectSeq(items, LAMBDA t : ~IsLocal(t)))]

-----------------------------------------------------------------------------
(* What pages show: a profile, its row on the home page, and its preview.                   *)

ProfilePage == Classify(results)

(* home_collection: the first item of each owned title. *)
FirstLocal(t) == CHOOSE i \in LocalItems(t.kind, t.tmdb) : TRUE
HomeRow == [n \in DOMAIN Classify(results).owned |-> FirstLocal(Classify(results).owned[n])]

Preview(list) ==
  IF ~restricted THEN list ELSE IF ~complete THEN << >> ELSE Classify(list).owned

(* The titles of a franchise in the order of their release; what is not out is missing only *)
(* if the account wants it.  A franchise with nothing owned, or of one title, is not shown.  *)
ReleaseOrder(a, b) ==
  \/ a.date # 0 /\ (b.date = 0 \/ a.date < b.date)
  \/ a.date = b.date /\ SourceOrder(a, b)
FranchiseTitles(f) == Normalized(FranchiseParts[f])
ByRelease(f) == SetToSortSeq(ToSet(FranchiseTitles(f)), ReleaseOrder)
Today == 1
ReleasedBy(t) == t.date # 0 /\ t.date <= Today
FranchiseView(f) ==
  LET owned == SelectSeq(ByRelease(f), IsLocal)
      missing == SelectSeq(ByRelease(f), LAMBDA t : ~IsLocal(t) /\ (unreleased \/ ReleasedBy(t)))
  IN  [visible |-> owned # << >> /\ Len(owned) + Len(missing) >= 2,
       owned |-> owned, missing |-> HiddenFrom(missing)]

(* The list of franchises and the page of one of them check it each on their own; mutant:    *)
(* the list does not look at the restriction.                                               *)
ListedToAll(f) == ~complete \/ FranchiseView(f).visible
Listed(f) ==
  \/ ~complete
  \/ FranchiseView(f).visible /\ (restricted => Len(FranchiseView(f).owned) >= 2)
PageNotFound == [NothingShown EXCEPT !.found = FALSE]
FranchisePage(f) ==
  LET view == FranchiseView(f) IN
  IF ~complete
    THEN [NothingShown EXCEPT !.items = HiddenFrom(ByRelease(f))]
  ELSE IF ~view.visible \/ (restricted /\ Len(view.owned) < 2) THEN PageNotFound
  ELSE [NothingShown EXCEPT !.available = TRUE, !.owned = view.owned, !.missing = view.missing]

(* /api/collections/title: of the profiles' results or of a franchise. *)
KeptTitles == ToSet(results) \cup UNION {ToSet(FranchiseTitles(f)) : f \in DOMAIN FranchiseParts}
TitlePage(kind, tmdb) == IF restricted THEN {} ELSE {t \in KeptTitles : Identity(t) = <<kind, tmdb>>}

-----------------------------------------------------------------------------
(* ids_by_provider: any of the items of that kind with that id.  A row of Seerr, and an      *)
(* entry of the calendar with its series, link to one of these; mutant: of the calendar,     *)
(* whichever id the item has.                                                               *)
ById(kind, column, id) == {i \in CachedItems : id # 0 /\ rows[i].kind = kind /\ rows[i][column] = id}

SeerrLinks(mediaType, tmdb) ==
  CASE mediaType = "movie" -> ById("Movie", "tmdb", tmdb)
    [] mediaType = "tv" -> ById("Series", "tmdb", tmdb)
    [] OTHER -> {}

EitherLink(kind, tmdb, tvdb) == ById(kind, "tmdb", tmdb) \cup ById(kind, "tvdb", tvdb)
CalendarLinks(kind, tmdb, tvdb) ==
  IF ById(kind, "tmdb", tmdb) # {} THEN ById(kind, "tmdb", tmdb) ELSE ById(kind, "tvdb", tvdb)

-----------------------------------------------------------------------------
OwnedInit ==
  /\ rows = [i \in CachedItems |-> NoRow]
  /\ mappings = [s \in Identities |-> 0] /\ asking = {}
  /\ complete = FALSE /\ mine = TRUE
  /\ restricted \in BOOLEAN /\ unreleased \in BOOLEAN /\ results = << >>

(* The sync, the event socket and pages write what the server says of a title, or forget it. *)
CacheItem(i, row) ==
  /\ mine /\ rows[i] # row
  /\ rows' = [rows EXCEPT ![i] = row]
  /\ UNCHANGED <<mappings, asking, complete, mine, restricted, unreleased, results>>

(* The end of a cycle: a bootstrap is complete, or the cycle failed. *)
CycleEnds ==
  /\ mine /\ complete' = ~complete
  /\ UNCHANGED <<rows, mappings, asking, mine, restricted, unreleased, results>>

(* Another account signs in: the cache is its own, and empty; identities are nobody's.       *)
OtherAccount ==
  /\ rows' = [i \in CachedItems |-> NoRow] /\ complete' = FALSE /\ mine' = ~mine
  /\ UNCHANGED <<mappings, asking, restricted, unreleased, results>>

(* hydrate_identity_map, of the scheduler and of a preview, several at a time: the provider   *)
(* is asked about some of what is unresolved, and what it knows is kept, whoever is signed in *)
(* by then.                                                                                 *)
AskIdentities ==
  /\ Unresolved # {}
  /\ \E asked \in kSubset(Min({MaxAsked, Cardinality(Unresolved)}), Unresolved) :
       asking' = asking \cup {{pair[2] : pair \in asked}}
  /\ UNCHANGED <<rows, mappings, complete, mine, restricted, unreleased, results>>

KeepAnswer(asked) ==
  /\ asking' = asking \ {asked}
  /\ mappings' = [s \in Identities |-> IF s \in asked /\ TmdbOf[s] # 0 THEN TmdbOf[s] ELSE mappings[s]]
  /\ UNCHANGED <<rows, complete, mine, restricted, unreleased, results>>

AskFails(asked) ==
  /\ asking' = asking \ {asked}
  /\ UNCHANGED <<rows, mappings, complete, mine, restricted, unreleased, results>>

(* commit_profile. *)
CommitResults(list) ==
  /\ mine /\ results' = Normalized(list)
  /\ UNCHANGED <<rows, mappings, asking, complete, mine, restricted, unreleased>>

OwnedNext ==
  \/ \E i \in CachedItems, row \in ItemRows \cup {NoRow} : CacheItem(i, row)
  \/ \E list \in ProviderLists : CommitResults(list)
  \/ \E asked \in asking : KeepAnswer(asked) \/ AskFails(asked)
  \/ CycleEnds \/ OtherAccount \/ AskIdentities

OwnedSpec == OwnedInit /\ [][OwnedNext]_ownedVars

-----------------------------------------------------------------------------
(* Five queries written apart agree on what the library has: what Seerr's rows and the       *)
(* calendar link to is owned in a collection; what the provider is told is owned is shown as  *)
(* owned; and what is shown as owned and not told of is an item that has come to another id   *)
(* of its own since its IMDb or TVDB id was resolved.                                        *)
QueriesAgree ==
  \A kind \in {"Movie", "Series"}, tmdb \in TmdbIds \ {0} :
    /\ SeerrLinks(IF kind = "Movie" THEN "movie" ELSE "tv", tmdb) \subseteq LocalItems(kind, tmdb)
    /\ tmdb \in OwnedTmdbIds(kind) => LocalItems(kind, tmdb) # {}
    /\ tmdb \notin OwnedTmdbIds(kind) =>
         \A i \in LocalItems(kind, tmdb) : rows[i].tmdb \notin {0, tmdb} /\ rows[i].tmdb \in OwnedTmdbIds(kind)

(* An entry of the calendar links to nothing of another kind, and never to an item by its     *)
(* TVDB id while another one has its TMDB id.                                               *)
CalendarLinksAreTrue ==
  \A kind \in {"Movie", "Episode", "Series"}, tmdb, tvdb \in TmdbIds :
    \A i \in CalendarLinks(kind, tmdb, tvdb) :
      /\ rows[i].kind = kind
      /\ rows[i].tmdb # tmdb => \A j \in CachedItems : rows[j].kind = kind => rows[j].tmdb \notin {tmdb} \ {0}

(* A profile shows each title of its results once, as owned or missing; its row on the home   *)
(* page has one item for each of the owned.                                                 *)
CollectionsSortOut ==
  LET page == ProfilePage IN
  /\ ~restricted => ToSet(page.owned) \cup ToSet(page.missing) \cup ToSet(page.items) = ToSet(results)
  /\ Len(page.owned) + Len(page.missing) + Len(page.items) <= Len(results)
  /\ \A t \in ToSet(page.owned) : \E n \in DOMAIN HomeRow : HomeRow[n] \in LocalItems(t.kind, t.tmdb)

(* A user with limits sees no title that the library does not have, on any of these pages.    *)
RestrictedSeeTheLibrary ==
  restricted =>
    LET pages == {ProfilePage} \cup {FranchisePage(f) : f \in DOMAIN FranchiseParts}
    IN  /\ \A page \in pages : \A t \in ToSet(page.owned) \cup ToSet(page.missing) \cup ToSet(page.items) : IsLocal(t)
        /\ \A list \in ProviderLists : \A t \in ToSet(Preview(list)) : IsLocal(t)
        /\ \A t \in KeptTitles : TitlePage(t.kind, t.tmdb) = {}

(* A franchise that is listed opens, and one that opens is listed. *)
ListedFranchisesOpen ==
  \A f \in DOMAIN FranchiseParts : Listed(f) = FranchisePage(f).found

(* What is shown as owned is what the library has, the same on every page (matching.rs,       *)
(* browse.rs, franchises.rs, companion/mod.rs).                                             *)
OwnershipIsTrue ==
  QueriesAgree /\ CalendarLinksAreTrue /\ CollectionsSortOut /\ RestrictedSeeTheLibrary /\ ListedFranchisesOpen

-----------------------------------------------------------------------------
(* The queries are about any cache there can be: all they need of it is that a row is one *)
(* of the server's (RowsKnown), since the id of its own by which an item may be shown as   *)
(* owned has to be one that a title can have.                                            *)

RowsKnown == rows \in [CachedItems -> ItemRows \cup {NoRow}]

LEMMA RowsStayKnown == OwnedSpec => []RowsKnown
<1>1. OwnedInit => RowsKnown
  BY DEF OwnedInit, RowsKnown
<1>2. RowsKnown /\ [OwnedNext]_ownedVars => RowsKnown'
  <2> SUFFICES ASSUME RowsKnown, [OwnedNext]_ownedVars PROVE RowsKnown'
    OBVIOUS
  <2>1. ASSUME NEW i \in CachedItems, NEW row \in ItemRows \cup {NoRow}, CacheItem(i, row) PROVE RowsKnown'
    BY <2>1 DEF CacheItem, RowsKnown
  <2>2. CASE OtherAccount
    BY <2>2 DEF OtherAccount, RowsKnown
  <2>3. ASSUME rows' = rows PROVE RowsKnown'
    BY <2>3 DEF RowsKnown
  <2>4. CASE \E list \in ProviderLists : CommitResults(list)
    BY <2>3, <2>4 DEF CommitResults
  <2>5. CASE \E asked \in asking : KeepAnswer(asked) \/ AskFails(asked)
    BY <2>3, <2>5 DEF KeepAnswer, AskFails
  <2>6. CASE CycleEnds \/ AskIdentities
    BY <2>3, <2>6 DEF CycleEnds, AskIdentities
  <2>7. CASE UNCHANGED ownedVars
    BY <2>3, <2>7 DEF ownedVars
  <2> QED
    BY <2>1, <2>2, <2>4, <2>5, <2>6, <2>7 DEF OwnedNext
<1> QED
  BY <1>1, <1>2, PTL DEF OwnedSpec

\* An item with an id of its own that a title can have is owned by it.
LEMMA OwnIdIsOwned ==
  ASSUME RowsKnown, NEW kind \in {"Movie", "Series"}, NEW i \in CachedItems,
         rows[i].kind = kind, rows[i].tmdb # 0
  PROVE  rows[i].tmdb \in OwnedTmdbIds(kind)
<1>1. rows[i] \in ItemRows
  <2>1. rows[i] \in ItemRows \cup {NoRow} /\ NoRow.kind = "none"
    BY DEF RowsKnown, NoRow
  <2> QED
    BY <2>1
<1>2. rows[i].tmdb \in TmdbIds \ {0}
  BY <1>1 DEF TmdbIds
<1> QED
  BY <1>2 DEF OwnedTmdbIds

LEMMA QueriesMatch == RowsKnown => QueriesAgree
<1> SUFFICES ASSUME RowsKnown, NEW kind \in {"Movie", "Series"}, NEW tmdb \in TmdbIds \ {0}
    PROVE  /\ SeerrLinks(IF kind = "Movie" THEN "movie" ELSE "tv", tmdb) \subseteq LocalItems(kind, tmdb)
           /\ tmdb \in OwnedTmdbIds(kind) => LocalItems(kind, tmdb) # {}
           /\ tmdb \notin OwnedTmdbIds(kind) =>
                \A i \in LocalItems(kind, tmdb) :
                  rows[i].tmdb \notin {0, tmdb} /\ rows[i].tmdb \in OwnedTmdbIds(kind)
  BY DEF QueriesAgree
<1>1. SeerrLinks(IF kind = "Movie" THEN "movie" ELSE "tv", tmdb) \subseteq LocalItems(kind, tmdb)
  <2>1. SeerrLinks(IF kind = "Movie" THEN "movie" ELSE "tv", tmdb) = ById(kind, "tmdb", tmdb)
    BY DEF SeerrLinks
  <2> QED
    BY <2>1 DEF ById, LocalItems
<1>2. ASSUME tmdb \in OwnedTmdbIds(kind) PROVE LocalItems(kind, tmdb) # {}
  BY <1>2 DEF OwnedTmdbIds, LocalItems
<1>3. ASSUME tmdb \notin OwnedTmdbIds(kind), NEW i \in LocalItems(kind, tmdb)
      PROVE  rows[i].tmdb \notin {0, tmdb} /\ rows[i].tmdb \in OwnedTmdbIds(kind)
  <2>1. i \in CachedItems /\ rows[i].kind = kind /\ (rows[i].tmdb = tmdb \/ Mapped(rows[i], tmdb))
    BY <1>3 DEF LocalItems
  <2>2. rows[i].tmdb # tmdb /\ rows[i].tmdb # 0
    BY <1>3, <2>1 DEF OwnedTmdbIds
  <2> QED
    BY <2>1, <2>2, OwnIdIsOwned
<1> QED
  BY <1>1, <1>2, <1>3

LEMMA CalendarMatches == CalendarLinksAreTrue
<1> SUFFICES ASSUME NEW kind \in {"Movie", "Episode", "Series"}, NEW tmdb \in TmdbIds, NEW tvdb \in TmdbIds,
                    NEW i \in CalendarLinks(kind, tmdb, tvdb)
    PROVE  /\ rows[i].kind = kind
           /\ rows[i].tmdb # tmdb =>
                \A j \in CachedItems : rows[j].kind = kind => rows[j].tmdb \notin {tmdb} \ {0}
  BY DEF CalendarLinksAreTrue
<1>1. rows[i].kind = kind
  BY DEF CalendarLinks, ById
<1>2. CASE ById(kind, "tmdb", tmdb) # {}
  BY <1>1, <1>2 DEF CalendarLinks, ById
<1>3. CASE ById(kind, "tmdb", tmdb) = {}
  BY <1>1, <1>3 DEF ById
<1> QED
  BY <1>2, <1>3

(* Queries written apart agree on what the library has, and the calendar links to what is  *)
(* of its kind and nearest to it, whatever the cache and the identities have come to         *)
(* (matching.rs, seerr.rs, companion/mod.rs).                                               *)
THEOREM LibraryAnswersAgree == OwnedSpec => [](QueriesAgree /\ CalendarLinksAreTrue)
<1>1. RowsKnown => QueriesAgree /\ CalendarLinksAreTrue
  BY QueriesMatch, CalendarMatches
<1> QED
  BY <1>1, RowsStayKnown, PTL
=============================================================================
