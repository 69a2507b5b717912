-------------------------------- MODULE Membership --------------------------------
(* Which titles belong to which library of the server: the list of libraries, the      *)
(* membership each owes, and the walk over a library's titles, page by page, beside a  *)
(* server that changes meanwhile.  The catalog itself is CatalogSync.                  *)
EXTENDS Naturals, FiniteSets

CONSTANTS Libraries,
          Titles,              \* natural numbers, in the order the server lists them
          IdentityPageSize,    \* IDENTITY_PAGE_SIZE
          MaxIdentityPages,    \* MAX_IDENTITY_PAGES
          MaxServerChanges,    \* bound: changes on the server
          MaxWalkFaults        \* bound: walks and cycles that fail

ASSUME MembershipAssumption ==
  /\ Titles \subseteq Nat /\ IsFiniteSet(Titles)
  /\ {IdentityPageSize, MaxIdentityPages} \subseteq Nat \ {0}
  /\ {MaxServerChanges, MaxWalkFaults} \subseteq Nat

CatalogKinds == {"movies", "tvshows"}
LibraryKinds == CatalogKinds \cup {"music", "unlisted"}

VARIABLES
  served,         \* [Libraries -> [kind, titles]]: what the server has
  registry,       \* [Libraries -> [kind, membership]]: the libraries table
  members,        \* [Libraries -> SUBSET Titles]: item_libraries
  walkStage,      \* where the worker is in its cycle
  walkDue,        \* libraries membership_pass has still to walk, with their title kinds
  walk,           \* the walk under way
  missed,         \* history: titles the library lacked at some moment of the walk
  shifts,         \* history: "came", "left": what titles did during the walk
  serverChanges, walkFaults

membershipVars == <<served, registry, members, walkStage, walkDue, walk, missed, shifts,
                    serverChanges, walkFaults>>
theServer == <<served, serverChanges>>
seen == <<missed, shifts>>

Walks ==
  [lib : Libraries \cup {"none"}, kind : CatalogKinds \cup {"none"}, ids : SUBSET Titles,
   offset : Nat, counted : Nat, pages : 0 .. MaxIdentityPages]
NoWalk == [lib |-> "none", kind |-> "none", ids |-> {}, offset |-> 0, counted |-> 0, pages |-> 0]

MembershipTypeOK ==
  /\ served \in [Libraries -> [kind : LibraryKinds, titles : SUBSET Titles]]
  /\ registry \in [Libraries -> [kind : LibraryKinds, membership : {"unwalked", "owed", "current"}]]
  /\ members \in [Libraries -> SUBSET Titles]
  /\ walkStage \in {"rest", "listed", "pass", "walk"}
  /\ walkDue \subseteq Libraries \X CatalogKinds
  /\ walk \in Walks
  /\ missed \subseteq Titles /\ shifts \subseteq {"came", "left"}
  /\ serverChanges \in 0 .. MaxServerChanges /\ walkFaults \in 0 .. MaxWalkFaults

MembershipInit ==
  /\ \E gone \in {Titles} \cup {{t} : t \in Titles} :
       served = [l \in Libraries |-> [kind |-> "movies", titles |-> Titles \ gone]]
  /\ registry = [l \in Libraries |-> [kind |-> "unlisted", membership |-> "unwalked"]]
  /\ members = [l \in Libraries |-> {}]
  /\ walkStage = "rest" /\ walkDue = {} /\ walk = NoWalk
  /\ missed = {} /\ shifts = {} /\ serverChanges = 0 /\ walkFaults = 0

(* fetch_library_member_ids: the titles of one kind in their order, a page of them. *)
OfKind(library, kind) == IF library.kind = kind THEN library.titles ELSE {}
Members(l, kind) == OfKind(served[l], kind)
Place(l, kind, t) == Cardinality({u \in Members(l, kind) : u < t})
Page(l, kind, offset) ==
  {t \in Members(l, kind) : Place(l, kind, t) \in offset .. offset + IdentityPageSize - 1}

-----------------------------------------------------------------------------------
(* The server. *)

ServerChange(l, kind, titles) ==
  /\ serverChanges < MaxServerChanges
  /\ served[l] # [kind |-> kind, titles |-> titles]
  /\ serverChanges' = serverChanges + 1
  /\ served' = [served EXCEPT ![l] = [kind |-> kind, titles |-> titles]]
  /\ IF walkStage = "walk" /\ walk.lib = l
     THEN LET before == Members(l, walk.kind)
              after == OfKind(served'[l], walk.kind)
          IN /\ missed' = missed \cup (Titles \ after)
             /\ shifts' = shifts \cup (IF after \ before # {} THEN {"came"} ELSE {})
                                 \cup (IF before \ after # {} THEN {"left"} ELSE {})
     ELSE UNCHANGED seen
  /\ UNCHANGED <<registry, members, walkStage, walkDue, walk, walkFaults>>

TitleComesOrGoes(l) ==
  \E t \in Titles : \/ ServerChange(l, served[l].kind, served[l].titles \cup {t})
                    \/ ServerChange(l, served[l].kind, served[l].titles \ {t})
LibraryIsEdited(l) == \E kind \in LibraryKinds : ServerChange(l, kind, served[l].titles)

-----------------------------------------------------------------------------------
(* The worker.  A page is fetched and kept by one thread, so one step each.            *)

(* replace_libraries: what is unlisted or holds no catalog titles loses its rows, what *)
(* is new or of another kind has to be walked.                                         *)
ReplaceLibraries ==
  /\ walkStage = "rest"
  /\ registry' = [l \in Libraries |->
       [kind |-> served[l].kind,
        membership |-> IF served[l].kind \in CatalogKinds /\ served[l].kind = registry[l].kind
                       THEN registry[l].membership ELSE "unwalked"]]
  /\ members' = [l \in Libraries |-> IF served[l].kind \in CatalogKinds THEN members[l] ELSE {}]
  /\ walkStage' = "listed"
  /\ UNCHANGED <<theServer, walkDue, walk, seen, walkFaults>>

(* list_libraries keeps what is stored when the list cannot be read. *)
KeepLibraries ==
  /\ walkStage = "rest" /\ walkFaults < MaxWalkFaults
  /\ walkFaults' = walkFaults + 1
  /\ walkStage' = "listed"
  /\ UNCHANGED <<theServer, registry, members, walkDue, walk, seen>>

(* Mutant: only what was never walked is due. *)
NeverWalked(membership) == membership = "unwalked"
IsDue(membership) == membership # "current"

(* walk_membership and the due list of membership_pass; oweAll: the cycle changed the  *)
(* catalog, swept it, or was asked for.                                                *)
WalkMembership(oweAll) ==
  /\ walkStage = "listed"
  /\ registry' = [l \in Libraries |->
       IF oweAll /\ registry[l].kind \in CatalogKinds /\ registry[l].membership = "current"
       THEN [registry[l] EXCEPT !.membership = "owed"] ELSE registry[l]]
  /\ walkDue' = {<<l, registry[l].kind>> : l \in
       {l \in Libraries : registry'[l].kind \in CatalogKinds /\ IsDue(registry'[l].membership)}}
  /\ walkStage' = "pass"
  /\ UNCHANGED <<theServer, members, walk, seen, walkFaults>>

(* The cycle fails before it comes to the membership, or the program ends there.       *)
CycleStops ==
  /\ walkStage # "rest" /\ walkFaults < MaxWalkFaults
  /\ walkFaults' = walkFaults + 1
  /\ walkStage' = "rest" /\ walkDue' = {} /\ walk' = NoWalk
  /\ missed' = {} /\ shifts' = {}
  /\ UNCHANGED <<theServer, registry, members>>

StartWalk(l, kind) ==
  /\ walkStage = "pass" /\ <<l, kind>> \in walkDue
  /\ walkDue' = walkDue \ {<<l, kind>>}
  /\ walk' = [NoWalk EXCEPT !.lib = l, !.kind = kind]
  /\ missed' = Titles \ Members(l, kind) /\ shifts' = {}
  /\ walkStage' = "walk"
  /\ UNCHANGED <<theServer, registry, members, walkFaults>>

PassEnds ==
  /\ walkStage = "pass" /\ walkDue = {}
  /\ walkStage' = "rest"
  /\ UNCHANGED <<theServer, registry, members, walkDue, walk, seen, walkFaults>>

EndWalk == walkStage' = "pass" /\ walk' = NoWalk /\ missed' = {} /\ shifts' = {}

Read == Page(walk.lib, walk.kind, walk.offset)
Listed == walk.ids \cup Read
Counted == IF walk.pages = 0 THEN Cardinality(Members(walk.lib, walk.kind)) ELSE walk.counted
LastPage == Cardinality(Read) < IdentityPageSize

(* member_ids believes a walk that lists what the first page counted; mutant: any.     *)
BelieveAny(ids, counted) == TRUE
Complete(ids, counted) == Cardinality(ids) >= counted

NextPage ==
  /\ walkStage = "walk" /\ ~LastPage /\ walk.pages + 1 < MaxIdentityPages
  /\ walk' = [walk EXCEPT !.ids = Listed, !.offset = @ + Cardinality(Read), !.counted = Counted,
                          !.pages = @ + 1]
  /\ UNCHANGED <<theServer, registry, members, walkStage, walkDue, seen, walkFaults>>

(* refresh_membership: an empty answer settles the walk and keeps the rows.            *)
ReplaceMembership ==
  /\ walkStage = "walk" /\ LastPage /\ Complete(Listed, Counted)
  /\ registry' = [registry EXCEPT ![walk.lib].membership = "current"]
  /\ members' = IF Listed = {} THEN members ELSE [members EXCEPT ![walk.lib] = Listed]
  /\ EndWalk
  /\ UNCHANGED <<theServer, walkDue, walkFaults>>

(* Fewer titles than counted, or the page cap: the membership stays, and stays due.    *)
KeepMembership ==
  /\ walkStage = "walk"
  /\ \/ LastPage /\ ~Complete(Listed, Counted)
     \/ ~LastPage /\ walk.pages + 1 = MaxIdentityPages
  /\ EndWalk
  /\ UNCHANGED <<theServer, registry, members, walkDue, walkFaults>>

(* One library's walk fails; when the server refuses for its rate the pass ends.       *)
WalkFails(rateLimited) ==
  /\ walkStage = "walk" /\ walkFaults < MaxWalkFaults
  /\ walkFaults' = walkFaults + 1
  /\ walkDue' = IF rateLimited THEN {} ELSE walkDue
  /\ EndWalk
  /\ UNCHANGED <<theServer, registry, members>>

WalkStep ==
  \/ ReplaceLibraries \/ KeepLibraries
  \/ WalkMembership(TRUE) \/ WalkMembership(FALSE)
  \/ CycleStops \/ PassEnds
  \/ \E l \in Libraries, kind \in CatalogKinds : StartWalk(l, kind)
  \/ NextPage \/ ReplaceMembership \/ KeepMembership \/ WalkFails(TRUE) \/ WalkFails(FALSE)

MembershipNext ==
  \/ \E l \in Libraries : TitleComesOrGoes(l) \/ LibraryIsEdited(l)
  \/ WalkStep

(* Cycles go on, and the periodic identity sweep makes every library owe its walk.     *)
MembershipFairness == WF_membershipVars(WalkStep) /\ SF_membershipVars(WalkMembership(TRUE))

MembershipSpec == MembershipInit /\ [][MembershipNext]_membershipVars /\ MembershipFairness

-----------------------------------------------------------------------------------
(* A title that a library had before and during the whole walk keeps its membership,   *)
(* although the pages shift under the walk, as long as titles only come or only leave  *)
(* meanwhile.                                                                          *)
StableMemberKept ==
  [][\A l \in Libraries : \A t \in members[l] \ members'[l] :
       \/ served[l].kind \notin CatalogKinds
       \/ walk.lib = l /\ (t \in missed \/ shifts = {"came", "left"})]_membershipVars

Walkable(l) ==
  /\ served[l].kind \in CatalogKinds /\ served[l].titles # {}
  /\ Cardinality(served[l].titles) < IdentityPageSize * MaxIdentityPages

(* Once the server stays as it is, every library has its titles for good, through      *)
(* failed walks, rate limits and restarts; but not one that was emptied, or is larger  *)
(* than the walk may get.                                                              *)
MembershipSettles ==
  <>[](\A l \in Libraries : Walkable(l) => members[l] = served[l].titles)

(* A library's members are never lost to a walk, and are right in the end               *)
(* (membership_pass, member_ids).                                                       *)
MembershipFollows == StableMemberKept /\ MembershipSettles
===================================================================================
