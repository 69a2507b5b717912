-------------------------------- MODULE HomeLayout --------------------------------
(* The layout of Home: what an account saved, met at every reading with the genres   *)
(* and libraries the catalog knows now and with the account's collections            *)
(* (home_settings.rs, accounts.rs, preferences/collections.rs).  A reading writes    *)
(* nothing; the settings page saves a whole layout, which must name what is there.   *)
(* A genre, a library, a collection or a built-in row is one element.                *)
EXTENDS Naturals, Sequences, SequencesExt

CONSTANTS
  BuiltIns,        \* HomeBuiltIn::ORDER, the rows that are always there
  Genres,          \* the genres titles may have, in the order the catalog lists them
  PreferredGenres, \* PREFERRED_HOME_GENRES, in their order
  FreshGenres,     \* how many genres a fresh Home shows
  HomeLibraries,   \* ids of libraries
  Registries,      \* what the library registry may be: Unregistered, or a sequence
  Unregistered,    \* LibraryRegistry::Unknown
  HomeCollections, \* ids of collections
  Unsaved,         \* no Home was saved, no page is open, no request runs
  MaxHomeSaves,    \* bound: saves of Home
  MaxHomeChanges   \* bound: changes of genres, libraries and collections

HomeAssumption ==
  /\ IsInjective(BuiltIns) /\ IsInjective(Genres) /\ BuiltIns # << >>
  /\ \A r \in Registries \ {Unregistered} : IsInjective(r) /\ ToSet(r) \subseteq HomeLibraries
  /\ MaxHomeSaves \in Nat /\ MaxHomeChanges \in Nat /\ FreshGenres \in Nat

VARIABLES
  home,        \* accounts.json: the account's saved elements, [id, on]; or Unsaved
  genres,      \* facet_values(Genre): the genres titles have now, in order
  registry,    \* the library registry
  collections, \* collections.json: the account's collections, [id, home]
  homePage,    \* the settings page: [settings, defaults] as it got them; or Unsaved
  homeRequest, \* a save between its check and its commit; or Unsaved
  leaving,     \* a collection whose edit has yet to forget it on Home; or Unsaved
  homeSaves, homeChanges

homeVars == <<home, genres, registry, collections, homePage, homeRequest, leaving,
              homeSaves, homeChanges>>

-----------------------------------------------------------------------------------
Ids(elements) == {elements[i].id : i \in DOMAIN elements}
Elements(ids, on) == [i \in DOMAIN ids |-> [id |-> ids[i], on |-> on]]
Without(ids, elements) ==
  LET there == Ids(elements) IN SelectSeq(ids, LAMBDA id : id \notin there)

KnownLibraries == IF registry = Unregistered THEN << >> ELSE registry

OnHome == LET shown == SelectSeq(collections, LAMBDA c : c.home)
          IN  [i \in DOMAIN shown |-> shown[i].id]

(* HomeSettings::fresh: preferred genres first, and only some of all shown. *)
Fresh ==
  LET ordered == SelectSeq(PreferredGenres, LAMBDA g : g \in ToSet(genres))
                 \o SelectSeq(genres, LAMBDA g : g \notin ToSet(PreferredGenres))
  IN  Elements(BuiltIns, TRUE)
      \o [i \in DOMAIN ordered |-> [id |-> ordered[i], on |-> i <= FreshGenres]]

(* library_block_end: after the last library, or else after the last built-in row;    *)
(* mutant: at the start when there is no library yet.                                 *)
LibrariesEnd(elements) == SelectLastInSeq(elements, LAMBDA e : e.id \in HomeLibraries)
LibraryBlockEnd(elements) ==
  LET libraries == SelectLastInSeq(elements, LAMBDA e : e.id \in HomeLibraries)
  IN  IF libraries # 0 THEN libraries
      ELSE SelectLastInSeq(elements, LAMBDA e : e.id \in ToSet(BuiltIns))

Joined(elements, shelves) ==
  LET end == LibraryBlockEnd(elements)
  IN  SubSeq(elements, 1, end) \o Elements(shelves, TRUE)
      \o SubSeq(elements, end + 1, Len(elements))

(* The part of reconcile_home_elements that takes away; mutant: a registry that is    *)
(* not known counts as one without libraries.                                         *)
StaysIfListed(e) ==
  /\ e.id \in HomeCollections => e.id \in ToSet(OnHome)
  /\ e.id \in HomeLibraries => e.id \in ToSet(KnownLibraries)
Stays(e) ==
  /\ e.id \in HomeCollections => e.id \in ToSet(OnHome)
  /\ e.id \in HomeLibraries => registry = Unregistered \/ e.id \in ToSet(registry)

(* reconcile_home_elements: new libraries join the others, shown; new genres and       *)
(* collections are appended, hidden.                                                   *)
Reconciled(elements) ==
  LET kept == SelectSeq(elements, Stays)
  IN  Joined(kept, Without(KnownLibraries, kept))
      \o Elements(Without(genres, kept), FALSE)
      \o Elements(Without(OnHome, kept), FALSE)

(* resolved_home. *)
HomeSettings == Reconciled(IF home = Unsaved THEN Fresh ELSE home)

(* home_defaults: what Reset restores, with what only the saved Home has; mutant:     *)
(* without.                                                                           *)
FreshOnly == Reconciled(Fresh)
HomeDefaults ==
  LET fresh == Reconciled(Fresh)
      rest == SelectSeq(HomeSettings, LAMBDA e : e.id \notin Ids(fresh))
      only(kept) == [i \in DOMAIN kept |-> kept[i].id]
  IN  Joined(fresh, only(SelectSeq(rest, LAMBDA e : e.id \in HomeLibraries)))
      \o Elements(only(SelectSeq(rest, LAMBDA e : e.id \notin HomeLibraries)), FALSE)

(* insert_missing_built_ins, for one row: after the nearest of those before it; mutant: *)
(* only a row whose neighbour is there is put back.                                     *)
AfterNeighbour(elements, k) ==
  LET before == SelectInSeq(elements, LAMBDA e : k > 1 /\ e.id = BuiltIns[k - 1])
  IN  IF before = 0 THEN elements
      ELSE InsertAt(elements, before + 1, [id |-> BuiltIns[k], on |-> TRUE])
RowPutBack(elements, k) ==
  LET there == {j \in 1 .. k - 1 : BuiltIns[j] \in Ids(elements)}
      nearest == IF there = {} THEN 0 ELSE CHOOSE j \in there : \A i \in there : i <= j
      after == SelectInSeq(elements, LAMBDA e : nearest # 0 /\ e.id = BuiltIns[nearest])
  IN  InsertAt(elements, after + 1, [id |-> BuiltIns[k], on |-> TRUE])

InsertMissingBuiltIns(elements) ==
  LET upTo[k \in 0 .. Len(BuiltIns)] ==
        IF k = 0 THEN elements
        ELSE IF BuiltIns[k] \in Ids(upTo[k - 1]) THEN upTo[k - 1]
        ELSE RowPutBack(upTo[k - 1], k)
  IN  upTo[Len(BuiltIns)]

(* HomeSettings::validate, but for its 512 elements and the wording of ids. *)
Valid(elements) ==
  /\ \A i, j \in DOMAIN elements : elements[i].id = elements[j].id => i = j
  /\ ToSet(BuiltIns) \subseteq Ids(elements)

-----------------------------------------------------------------------------------
(* Subsequences of s. *)
SomeOf(s) == {SelectSeq(s, LAMBDA x : x \in part) : part \in SUBSET ToSet(s)}

HomeInit ==
  /\ home = Unsaved /\ collections = << >>
  /\ genres \in SomeOf(Genres) /\ registry \in Registries
  /\ homePage = Unsaved /\ homeRequest = Unsaved /\ leaving = Unsaved
  /\ homeSaves = 0 /\ homeChanges = 0

HomeTypeOK ==
  /\ home # Unsaved => Valid(home)
  /\ genres \in SomeOf(Genres) /\ registry \in Registries
  /\ homeRequest # Unsaved => Valid(homeRequest)
  /\ leaving \in HomeCollections \cup {Unsaved}
  /\ homeSaves \in 0 .. MaxHomeSaves /\ homeChanges \in 0 .. MaxHomeChanges

HomeMoves == homeChanges < MaxHomeChanges /\ homeChanges' = homeChanges + 1
Idle == homeRequest = Unsaved /\ leaving = Unsaved

(* The catalog sync: titles come and go, the registry is learnt, and forgotten with    *)
(* the library.                                                                        *)
CatalogChanges ==
  /\ HomeMoves
  /\ \/ genres' \in SomeOf(Genres) \ {genres} /\ UNCHANGED registry
     \/ registry' \in Registries \ {registry} /\ UNCHANGED genres
  /\ UNCHANGED <<home, collections, homePage, homeRequest, leaving, homeSaves>>

(* GET /api/settings/home. *)
OpenHomeSettings ==
  /\ Idle /\ homeSaves < MaxHomeSaves
  /\ homePage' = [settings |-> HomeSettings, defaults |-> HomeDefaults]
  /\ UNCHANGED <<home, genres, registry, collections, homeRequest, leaving, homeSaves,
                 homeChanges>>

(* What the page may ask for: a row moved to the front, a row switched, or Reset. *)
Requests ==
  LET shown == homePage.settings
  IN  {homePage.defaults}
      \cup {<<shown[i]>> \o RemoveAt(shown, i) : i \in DOMAIN shown}
      \cup {[shown EXCEPT ![i].on = ~@] : i \in DOMAIN shown}

(* patch_home_settings: the request must name what there is now; 409 if not. *)
Complete(elements) ==
  /\ Ids(elements) = Ids(HomeSettings) /\ Len(elements) = Len(HomeSettings)

PatchHomeSettings ==
  /\ Idle /\ homePage # Unsaved
  /\ \E elements \in Requests :
       homeRequest' = IF Valid(elements) /\ Complete(elements) THEN elements ELSE Unsaved
  /\ homePage' = Unsaved /\ homeSaves' = homeSaves + 1
  /\ UNCHANGED <<home, genres, registry, collections, leaving, homeChanges>>

SaveHome ==
  /\ homeRequest # Unsaved
  /\ home' = InsertMissingBuiltIns(homeRequest) /\ homeRequest' = Unsaved
  /\ UNCHANGED <<genres, registry, collections, homePage, leaving, homeSaves, homeChanges>>

(* The file of a version without some of the built-in rows is opened. *)
OpenOlderFile ==
  /\ Idle /\ home # Unsaved /\ HomeMoves
  /\ \E rows \in SUBSET ToSet(BuiltIns) :
       home' = InsertMissingBuiltIns(SelectSeq(home, LAMBDA e : e.id \notin rows))
  /\ homePage' = Unsaved
  /\ UNCHANGED <<genres, registry, collections, homeRequest, leaving, homeSaves>>

-----------------------------------------------------------------------------------
PlaceOf(id) == SelectInSeq(collections, LAMBDA c : c.id = id)
Forgotten(id) ==
  IF home = Unsaved THEN home ELSE SelectSeq(home, LAMBDA e : e.id # id)

(* create, and edit that does not leave Home: save_profile replaces by id or appends. *)
SaveProfile(id, shown) ==
  /\ Idle /\ HomeMoves
  /\ PlaceOf(id) # 0 => (collections[PlaceOf(id)].home => shown)
  /\ collections' = IF PlaceOf(id) = 0 THEN Append(collections, [id |-> id, home |-> shown])
                    ELSE [collections EXCEPT ![PlaceOf(id)].home = shown]
  /\ UNCHANGED <<home, genres, registry, homePage, homeRequest, leaving, homeSaves>>

(* edit that leaves Home: the profile is saved first, Home forgets it after. *)
SaveProfileOffHome(id) ==
  /\ Idle /\ HomeMoves /\ PlaceOf(id) # 0 /\ collections[PlaceOf(id)].home
  /\ collections' = [collections EXCEPT ![PlaceOf(id)].home = FALSE]
  /\ leaving' = id
  /\ UNCHANGED <<home, genres, registry, homePage, homeRequest, homeSaves>>

HomeForgets ==
  /\ leaving # Unsaved /\ leaving' = Unsaved
  /\ home' = Forgotten(leaving)
  /\ UNCHANGED <<genres, registry, collections, homePage, homeRequest, homeSaves, homeChanges>>

(* delete: both in one step. *)
RemoveProfile(id) ==
  /\ Idle /\ HomeMoves /\ PlaceOf(id) # 0
  /\ collections' = RemoveAt(collections, PlaceOf(id))
  /\ home' = Forgotten(id)
  /\ UNCHANGED <<genres, registry, homePage, homeRequest, leaving, homeSaves>>

ReorderProfiles ==
  /\ Idle /\ HomeMoves /\ Len(collections) > 1
  /\ collections' = Reverse(collections)
  /\ UNCHANGED <<home, genres, registry, homePage, homeRequest, leaving, homeSaves>>

HomeNext ==
  \/ CatalogChanges \/ OpenHomeSettings \/ PatchHomeSettings \/ SaveHome \/ OpenOlderFile
  \/ \E id \in HomeCollections :
       \/ \E shown \in BOOLEAN : SaveProfile(id, shown)
       \/ SaveProfileOffHome(id) \/ RemoveProfile(id)
  \/ HomeForgets \/ ReorderProfiles

-----------------------------------------------------------------------------------
(* Whatever was saved, and whatever came and went since, Home names each thing there   *)
(* is once, nothing that is gone, and Reset can be saved as well (the completeness     *)
(* rule of patch_home_settings would refuse both for ever).                            *)
HomeIsWhole ==
  \A settings \in {HomeSettings}, defaults \in {HomeDefaults} :
    LET now == Ids(settings)
    IN  /\ Valid(settings) /\ Valid(defaults) /\ Ids(defaults) = now
        /\ ToSet(genres) \cup ToSet(OnHome) \cup ToSet(KnownLibraries) \subseteq now
        /\ now \cap HomeCollections = ToSet(OnHome)
        /\ registry # Unregistered => now \cap HomeLibraries = ToSet(registry)

(* A library the saved Home does not know is shown beside the others, or after the     *)
(* built-in rows when there is none; also among the defaults.                          *)
NewLibrariesJoin ==
  LET saved == IF home = Unsaved THEN {} ELSE Ids(home)
      new == HomeLibraries \ saved
  IN  \A layout \in {HomeSettings, HomeDefaults} : \A i \in DOMAIN layout :
        layout[i].id \in new =>
          layout[i].on /\ i > 1 /\ layout[i - 1].id \in HomeLibraries \cup ToSet(BuiltIns)

(* What the user chose stays: only a save, or a collection that leaves, changes the    *)
(* order of the saved rows or switches one (a row an older file lacks is put back where *)
(* it belongs), and no saved library leaves because the registry is not known.         *)
ChoicesAreKept ==
  (/\ home # Unsaved /\ homeRequest = Unsaved
   /\ <<home, genres, registry, collections>>' # <<home, genres, registry, collections>>) =>
    \A now \in {HomeSettings}, next \in {HomeSettings'} :
    \A reset \in {IF collections = collections' /\ home # home' THEN ToSet(BuiltIns) ELSE {}} :
    \A saved \in {((Ids(home) \cap Ids(home')) \ reset) \cap Ids(now) \cap Ids(next)} :
      LET Chosen(layout) == SelectSeq(layout, LAMBDA e : e.id \in saved)
      IN  /\ Chosen(now) = Chosen(next)
          /\ registry' = Unregistered => Ids(home) \cap HomeLibraries \subseteq Ids(next)
===================================================================================
