-------------------------- MODULE CatalogSyncProofs --------------------------
(***************************************************************************)
(* Proofs about the library sync cycle, for libraries of any size, any     *)
(* page sizes and caps, any dates that do not fall, and any number of      *)
(* faults.                                                                 *)
(*                                                                         *)
(* The invariant IInv says, of every title the server lists and the cache  *)
(* lacks, where the app will come upon it.  Between walks ReachInv says    *)
(* so: past the stored offset or past the watermark.  Inside a walk it     *)
(* takes two facts more: what the walk has still to read lies beyond its   *)
(* place (BootInv, IncInv), and what it has passed by is newer than the    *)
(* watermark it will leave (Ahead).  KnownInv makes a title added from now *)
(* on ahead of everything, MarkInv makes the stored watermark grow, and    *)
(* PageFacts, which counts places in a listing, says what a page and a     *)
(* page that is not full leave out.  IdInv is the same for the identity    *)
(* walk, and SweptInv and EmptyInv carry the two marks of the sweep.       *)
(***************************************************************************)
EXTENDS CatalogSync, Listings, FiniteSetTheorems, TLAPS

---------------------------------------------------------------------------
(* Places in a listing.                                                    *)

\* Sets of titles are finite.
LEMMA FiniteTitles ==
  ASSUME NEW S \in SUBSET Titles
  PROVE  IsFiniteSet(S) /\ Cardinality(S) \in Nat /\ Cardinality(S) <= MaxTitle
<1>1. IsFiniteSet(Titles) /\ Cardinality(Titles) = MaxTitle
  BY FS_Interval, SizesAssumption DEF Titles
<1> QED
  BY <1>1, FS_Subset, FS_CardinalityType

\* A smaller set of titles than S has fewer.
LEMMA FewerTitles ==
  ASSUME NEW S \in SUBSET Titles, NEW A, NEW B, A \subseteq B, B \subseteq S, NEW t \in B, t \notin A
  PROVE  Cardinality(A) \in Nat /\ Cardinality(B) \in Nat /\ Cardinality(A) < Cardinality(B)
<1>1. IsFiniteSet(B) /\ A # B
  BY FiniteTitles
<1>2. IsFiniteSet(A) /\ Cardinality(A) <= Cardinality(B) /\ Cardinality(A) # Cardinality(B)
  BY <1>1, FS_Subset
<1> QED
  BY <1>1, <1>2, FS_CardinalityType

\* Titles of S have different places in it, in either order.
LEMMA RankPlaces ==
  ASSUME NEW S \in SUBSET Titles
  PROVE  /\ \A t \in Titles : Rank(S, t) \in Nat /\ RankDown(S, t) \in Nat
         /\ \A t, u \in S : t < u => Rank(S, t) < Rank(S, u) /\ RankDown(S, u) < RankDown(S, t)
         /\ \A t \in S : Rank(S, t) < Cardinality(S) /\ RankDown(S, t) < Cardinality(S)
<1>0. \A v \in S : v \in Int
  BY SizesAssumption DEF Titles
<1>1. ASSUME NEW t \in Titles PROVE Rank(S, t) \in Nat /\ RankDown(S, t) \in Nat
  BY FiniteTitles DEF Rank, RankDown
<1>2. ASSUME NEW t \in S, NEW u \in S, t < u
      PROVE  Rank(S, t) < Rank(S, u) /\ RankDown(S, u) < RankDown(S, t)
  <2> DEFINE before(x) == {v \in S : v < x}
             after(x) == {v \in S : v > x}
  <2>1. before(t) \subseteq before(u) /\ before(u) \subseteq S /\ t \in before(u) /\ t \notin before(t)
    BY <1>0, <1>2
  <2>2. after(u) \subseteq after(t) /\ after(t) \subseteq S /\ u \in after(t) /\ u \notin after(u)
    BY <1>0, <1>2
  <2> HIDE DEF before, after
  <2>3. Cardinality(before(t)) < Cardinality(before(u)) /\ Cardinality(after(u)) < Cardinality(after(t))
    BY <2>1, <2>2, FewerTitles
  <2> QED
    BY <2>3 DEF Rank, RankDown, before, after
<1>3. ASSUME NEW t \in S
      PROVE  Rank(S, t) < Cardinality(S) /\ RankDown(S, t) < Cardinality(S)
  <2> DEFINE before == {v \in S : v < t}
             after == {v \in S : v > t}
  <2>1. before \subseteq S /\ after \subseteq S /\ t \notin before /\ t \notin after
    BY <1>0
  <2> HIDE DEF before, after
  <2>2. Cardinality(before) < Cardinality(S) /\ Cardinality(after) < Cardinality(S)
    BY <2>1, FewerTitles
  <2> QED
    BY <2>2 DEF Rank, RankDown, before, after
<1> QED
  BY <1>1, <1>2, <1>3

\* What a page of the listing is, oldest first.
LEMMA PageFacts ==
  ASSUME NEW from \in Nat, NEW size \in Nat \ {0}, listed \in SUBSET Titles,
         NEW P, P = Page(from, size)
  PROVE  /\ P \in SUBSET listed /\ Cardinality(P) \in Nat /\ Cardinality(P) <= size
         /\ Cardinality(listed) \in Nat /\ Cardinality(listed) <= MaxTitle
         /\ \A t \in listed : Rank(listed, t) \in Nat /\ Rank(listed, t) < Cardinality(listed)
         /\ \A t \in listed \ P : Rank(listed, t) < from \/ Rank(listed, t) >= from + size
         /\ P = {} => \A t \in listed : Rank(listed, t) < from
         /\ P # {} => from + Cardinality(P) <= Cardinality(listed)
         /\ Cardinality(P) < size => \A t \in listed : Rank(listed, t) < from + size
<1> DEFINE r == [t \in listed |-> Rank(listed, t)]
<1>1. Cardinality(listed) \in Nat /\ Cardinality(listed) <= MaxTitle /\ IsFiniteSet(listed)
  BY FiniteTitles
<1>2. /\ \A t \in listed : Rank(listed, t) \in Nat /\ Rank(listed, t) < Cardinality(listed)
      /\ \A t, u \in listed : t < u => Rank(listed, t) < Rank(listed, u)
  BY RankPlaces
<1>3. \A t, u \in listed : r[t] = r[u] => t = u
  <2>1. listed \subseteq Nat
    BY SizesAssumption DEF Titles
  <2> QED
    BY <1>2, <2>1
<1>4. r \in Injection(listed, 0 .. Cardinality(listed) - 1)
  BY <1>1, <1>2, <1>3 DEF Injection, IsInjective
<1>5. P \in SUBSET listed /\ \A t \in listed : t \in P <=> r[t] \in from .. from + size - 1
  BY DEF Page
<1> HIDE DEF r
<1>6. /\ Cardinality(P) \in Nat /\ Cardinality(P) <= size
      /\ P # {} => from + Cardinality(P) <= Cardinality(listed)
      /\ Cardinality(P) < size => \A t \in listed : r[t] < from + size
  BY <1>1, <1>4, <1>5, Places
<1>7. \A t \in listed \ P : r[t] < from \/ r[t] >= from + size
  BY <1>5, <1>2 DEF r
<1>8. P = {} => Cardinality(P) = 0
  BY FS_EmptySet
<1>9. P = {} => \A t \in listed : r[t] < from
  BY <1>2, <1>6, <1>7, <1>8 DEF r
<1> QED
  BY <1>1, <1>2, <1>5, <1>6, <1>7, <1>9 DEF r

\* What a page of the listing is, newest first: what it leaves out beyond it
\* is older than all of it.
LEMMA PageDownFacts ==
  ASSUME NEW from \in Nat, NEW size \in Nat \ {0}, listed \in SUBSET Titles,
         NEW P, P = PageDown(from, size)
  PROVE  /\ P \in SUBSET listed /\ Cardinality(P) \in Nat /\ Cardinality(P) <= size
         /\ Cardinality(listed) \in Nat /\ Cardinality(listed) <= MaxTitle
         /\ \A t \in listed : RankDown(listed, t) \in Nat
         /\ \A t \in listed \ P :
              \/ RankDown(listed, t) < from /\ (\A x \in P : x < t)
              \/ RankDown(listed, t) >= from + size /\ (\A x \in P : t < x)
         /\ P = {} => \A t \in listed : RankDown(listed, t) < from
         /\ P # {} => from + Cardinality(P) <= Cardinality(listed)
         /\ Cardinality(P) < size => \A t \in listed : RankDown(listed, t) < from + size
<1> DEFINE r == [t \in listed |-> RankDown(listed, t)]
<1>0. listed \subseteq Nat
  BY SizesAssumption DEF Titles
<1>1. Cardinality(listed) \in Nat /\ Cardinality(listed) <= MaxTitle /\ IsFiniteSet(listed)
  BY FiniteTitles
<1>2. /\ \A t \in listed : RankDown(listed, t) \in Nat /\ RankDown(listed, t) < Cardinality(listed)
      /\ \A t, u \in listed : t < u => RankDown(listed, u) < RankDown(listed, t)
  BY RankPlaces
<1>3. \A t, u \in listed : r[t] = r[u] => t = u
  BY <1>0, <1>2
<1>4. r \in Injection(listed, 0 .. Cardinality(listed) - 1)
  BY <1>1, <1>2, <1>3 DEF Injection, IsInjective
<1>5. P \in SUBSET listed /\ \A t \in listed : t \in P <=> r[t] \in from .. from + size - 1
  BY DEF PageDown
<1> HIDE DEF r
<1>6. /\ Cardinality(P) \in Nat /\ Cardinality(P) <= size
      /\ P # {} => from + Cardinality(P) <= Cardinality(listed)
      /\ Cardinality(P) < size => \A t \in listed : r[t] < from + size
  BY <1>1, <1>4, <1>5, Places
<1>7. \A t \in listed \ P : r[t] < from \/ r[t] >= from + size
  BY <1>5, <1>2 DEF r
<1>8. \A t \in listed \ P, x \in P : (r[t] < from => x < t) /\ (r[t] >= from + size => t < x)
  BY <1>0, <1>5, <1>2 DEF r
<1>9. P = {} => Cardinality(P) = 0
  BY FS_EmptySet
<1>10. P = {} => \A t \in listed : r[t] < from
  BY <1>2, <1>6, <1>7, <1>9 DEF r
<1> QED
  BY <1>1, <1>2, <1>5, <1>6, <1>7, <1>8, <1>10 DEF r

\* The last title of a set.
LEMMA LastTitle ==
  ASSUME NEW S \in SUBSET Titles, S # {}
  PROVE  \E top \in S : \A t \in S : t <= top
<1> DEFINE bounds == {n \in Nat : \A t \in S : t <= n}
<1>1. \A t \in S : t \in Nat /\ t >= 1 /\ t <= MaxTitle
  BY SizesAssumption DEF Titles
<1>2. MaxTitle \in bounds
  BY <1>1, SizesAssumption
<1>3. PICK top \in bounds : \A n \in bounds : ~(<<n, top>> \in OpToRel(<, Nat))
  BY <1>2, NatLessThanWellFounded, WFMin
<1>4. \A n \in bounds : ~(n < top)
  BY <1>3 DEF OpToRel
<1>5. top \in S
  <2> SUFFICES ASSUME top \notin S PROVE FALSE
    OBVIOUS
  <2>1. top - 1 \in Nat /\ \A t \in S : t <= top - 1
    BY <1>1
  <2> QED
    BY <2>1, <1>4
<1> QED
  BY <1>5

\* The newest date of a page, or the watermark so far when that is newer.
LEMMA NewestIs ==
  ASSUME NEW w \in Nat, NEW S \in SUBSET Titles
  PROVE  /\ Newest(w, S) \in Nat /\ w <= Newest(w, S) /\ \A t \in S : Date[t] <= Newest(w, S)
         /\ Newest(w, S) = w \/ \E t \in S : Newest(w, S) = Date[t]
<1> DEFINE D == {w} \cup {Date[t] : t \in S}
<1>1. \A t \in S : t \in Titles /\ t \in Nat /\ Date[t] \in Nat
  BY SizesAssumption, DateAssumption DEF Titles
<1>2. \E x \in D : \A y \in D : x >= y
  <2>1. CASE S = {}
    BY <2>1
  <2>2. CASE S # {}
    <3>1. PICK top \in S : \A t \in S : t <= top
      BY <2>2, LastTitle
    <3>2. \A t \in S : Date[t] <= Date[top]
      BY <1>1, <3>1, DateAssumption
    <3>3. CASE w <= Date[top]
      BY <1>1, <3>2, <3>3
    <3>4. CASE Date[top] < w
      BY <1>1, <3>2, <3>4
    <3> QED
      BY <3>3, <3>4, <1>1
  <2> QED
    BY <2>1, <2>2
<1>3. Newest(w, S) \in D /\ \A y \in D : Newest(w, S) >= y
  BY <1>2 DEF Newest, Max
<1> QED
  BY <1>1, <1>3

\* The locals after a page: what they were, with the watermark moved on.
LEMMA AdvancedIs ==
  ASSUME NEW c \in Cycle, NEW S \in SUBSET Titles
  PROVE  /\ Advanced(c, S) \in Cycle
         /\ Advanced(c, S) = [c EXCEPT !.w = Newest(c.w, S), !.wIds = Advanced(c, S).wIds]
         /\ Advanced(c, S).w = Newest(c.w, S)
         /\ Advanced(c, S).wIds = IF Newest(c.w, S) > c.w
                                  THEN {t \in S : Date[t] = Newest(c.w, S)}
                                  ELSE c.wIds \cup {t \in S : Date[t] = Newest(c.w, S)}
<1>1. Newest(c.w, S) \in Nat /\ c.wIds \subseteq Titles
  BY NewestIs DEF Cycle
<1> QED
  BY <1>1 DEF Advanced, Cycle

\* What the watermark's move leaves alone.
LEMMA AdvancedOf ==
  ASSUME NEW c \in Cycle, NEW S \in SUBSET Titles
  PROVE  /\ Advanced(c, S) \in Cycle /\ Advanced(c, S).at = c.at /\ Advanced(c, S).page = c.page
         /\ Advanced(c, S).w = Newest(c.w, S) /\ Advanced(c, S).wIds \in SUBSET Titles
<1>1. Newest(c.w, S) \in Nat /\ c.wIds \subseteq Titles
  BY NewestIs DEF Cycle
<1>2. Advanced(c, S).wIds \in SUBSET Titles
  BY <1>1, AdvancedIs
<1>3. Advanced(c, S) = [c EXCEPT !.w = Newest(c.w, S), !.wIds = Advanced(c, S).wIds]
  BY AdvancedIs
<1> HIDE DEF Advanced
<1> QED
  BY <1>1, <1>2, <1>3, AdvancedIs DEF Cycle

---------------------------------------------------------------------------
(* Types, and where a walk stands.                                         *)

Committing == {"bootCommit", "incCommit", "idCommit"}
Booting == BootWalk \cup {"bootMark", "bootCapped", "bootFinish"}

\* Only a fetched page waits to be written; it lies within the listing it was
\* taken from; a bootstrap goes on at the stored offset, and is not done.
WalkInv ==
  /\ pc \notin Committing => cy.page = {}
  /\ NextAt <= MaxTitle
  /\ pc \in BootWalk => cy.at = offset
  /\ pc \in Booting => ~done

TypeInv == TypeOK /\ WalkInv

\* TypeOK, apart from the cycle's own step and locals.
DataOK ==
  /\ listed \subseteq Titles /\ next \in 1 .. MaxTitle + 1 /\ views \subseteq Libs
  /\ cache \subseteq Titles /\ done \in BOOLEAN /\ offset \in 0 .. MaxTitle
  /\ wm \in Nat /\ wmIds \subseteq Titles
  /\ owed \in BOOLEAN /\ emptyAt \in {Never} \cup 0 .. MaxNow /\ stored \subseteq Libs
  /\ everDone \in BOOLEAN /\ failed \in BOOLEAN
  /\ bootDue \in BOOLEAN /\ sweepDue \in BOOLEAN /\ now \in 0 .. MaxNow
  /\ sock \subseteq Titles
  /\ missed \subseteq Titles /\ stable \subseteq Titles /\ unseen \subseteq Titles /\ covered \subseteq Titles
  /\ empties \subseteq 0 .. MaxNow
  /\ faults \in 0 .. MaxFaults

\* TypeOK, taken apart.
LEMMA TypeParts == TypeOK <=> DataOK /\ pc \in Steps /\ cy \in Cycle
BY DEF TypeOK, DataOK

\* The same after a step.
LEMMA TypePartsNext == TypeOK' <=> DataOK' /\ pc' \in Steps /\ cy' \in Cycle
BY DEF TypeOK, DataOK

\* Where no page waits, the walk stands at `at`.
LEMMA NextAtIs ==
  ASSUME TypeOK
  PROVE  /\ NextAt \in Nat /\ cy.at \in Nat /\ cy.at <= NextAt
         /\ cy.page = {} => NextAt = cy.at
<1>1. cy.page \in SUBSET Titles /\ cy.at \in Nat
  BY SizesAssumption DEF TypeOK, Cycle
<1> QED
  BY <1>1, FiniteTitles, FS_EmptySet DEF NextAt

\* The types hold at first.
LEMMA InitTypes == Init => TypeInv
<1> SUFFICES ASSUME Init PROVE TypeInv
  OBVIOUS
<1>1. NoCycle \in Cycle
  BY SizesAssumption DEF Cycle, NoCycle, Answers
<1>2. DataOK
  <2>1. PICK n \in 0 .. MaxTitle : listed = 1 .. n /\ next = n + 1
    BY DEF Init
  <2>2. listed \subseteq Titles /\ next \in 1 .. MaxTitle + 1
    BY <2>1, SizesAssumption DEF Titles
  <2>3. 0 \in 0 .. MaxTitle /\ 0 \in 0 .. MaxNow /\ 0 \in 0 .. MaxFaults
    BY SizesAssumption
  <2> QED
    BY <2>2, <2>3, Zenon DEF Init, DataOK
<1>3. pc \in Steps /\ cy \in Cycle
  BY <1>1 DEF Init, Steps
<1>4. NextAt = 0
  BY FS_EmptySet DEF Init, NoCycle, NextAt
<1> QED
  BY <1>2, <1>3, <1>4, TypeParts, SizesAssumption DEF TypeInv, WalkInv, Init, NoCycle, BootWalk, Booting

\* Steps that leave the cycle and its offset alone, or end it, keep WalkInv.
LEMMA WalkStays ==
  ASSUME TypeInv, cy' = cy, pc' = pc, offset' = offset, done' = done
  PROVE  WalkInv'
BY DEF TypeInv, WalkInv, NextAt

\* A cycle that begins or ends is in no walk.
LEMMA WalkEnds ==
  ASSUME cy' = NoCycle, pc' \in {"idle", "list"}
  PROVE  WalkInv'
<1>1. NextAt' = 0
  BY FS_EmptySet DEF NoCycle, NextAt
<1> QED
  BY <1>1, SizesAssumption DEF NoCycle, WalkInv, Booting, BootWalk

\* A step between two pages.
LEMMA WalkMoves ==
  ASSUME cy'.page = {}, cy'.at \in 0 .. MaxTitle,
         pc' \in BootWalk => cy'.at = offset',
         pc' \in Booting => ~done'
  PROVE  WalkInv'
<1>1. NextAt' = cy'.at
  BY FS_EmptySet DEF NextAt
<1> QED
  BY <1>1, SizesAssumption DEF WalkInv

\* What is known of the locals, without their record.
LEMMA Locals ==
  ASSUME TypeInv
  PROVE  /\ cy.at \in 0 .. MaxTitle /\ cy.page \in SUBSET Titles /\ Cardinality(cy.page) \in Nat
         /\ cy.w \in Nat /\ cy.wIds \in SUBSET Titles /\ cy.seen \in SUBSET Titles
         /\ cy.pages \in Nat /\ cy.total \in 0 .. MaxTitle /\ cy.answer \in Answers
         /\ cy.initial \in BOOLEAN /\ cy.forced \in BOOLEAN /\ cy.noCat \in BOOLEAN
         /\ NextAt \in 0 .. MaxTitle
<1>1. cy \in Cycle /\ NextAt <= MaxTitle
  BY DEF TypeInv, TypeOK, WalkInv
<1>2. NextAt \in Nat
  BY NextAtIs DEF TypeInv
<1> QED
  BY <1>1, <1>2, FiniteTitles, SizesAssumption DEF Cycle

\* A step that fetches a page of the listing from where the walk stands.
LEMMA WalkFetches ==
  ASSUME TypeInv, cy'.page # {}, cy'.at = cy.at, cy.page = {}, NEW size \in Nat \ {0},
         cy'.page = Page(cy.at, size) \/ cy'.page = PageDown(cy.at, size),
         pc' \in Committing, pc' \in BootWalk => pc \in BootWalk /\ UNCHANGED <<offset, done>>
  PROVE  WalkInv'
<1>1. cy.at \in Nat /\ listed \in SUBSET Titles
  BY Locals DEF TypeInv, TypeOK
<1>2. cy.at + Cardinality(cy'.page) <= MaxTitle
  <2>1. CASE cy'.page = Page(cy.at, size)
    <3>1. /\ Cardinality(cy'.page) \in Nat /\ Cardinality(listed) \in Nat /\ Cardinality(listed) <= MaxTitle
          /\ cy.at + Cardinality(cy'.page) <= Cardinality(listed)
      BY <1>1, <2>1, PageFacts
    <3> QED
      BY <1>1, <3>1, SizesAssumption
  <2>2. CASE cy'.page = PageDown(cy.at, size)
    <3>1. /\ Cardinality(cy'.page) \in Nat /\ Cardinality(listed) \in Nat /\ Cardinality(listed) <= MaxTitle
          /\ cy.at + Cardinality(cy'.page) <= Cardinality(listed)
      BY <1>1, <2>2, PageDownFacts
    <3> QED
      BY <1>1, <3>1, SizesAssumption
  <2> QED
    BY <2>1, <2>2
<1>3. NextAt' <= MaxTitle
  BY <1>2 DEF NextAt
<1> QED
  BY <1>3 DEF TypeInv, WalkInv, BootWalk, Booting, Committing

\* The server's moves keep the types of the history.
LEMMA ServerTypes ==
  ASSUME DataOK, NEW S \in SUBSET Titles, ServerBecomes(S)
  PROVE  /\ listed' \subseteq Titles /\ missed' \subseteq Titles /\ covered' \subseteq Titles
         /\ stable' \subseteq Titles /\ unseen' \subseteq Titles
BY DEF DataOK, ServerBecomes, BootMisses, SlidUp

\* Faults stay within their bound.
LEMMA FaultTypes == DataOK /\ Fault => faults' \in 0 .. MaxFaults
BY SizesAssumption DEF DataOK, Fault

\* Where a counter starts again.
LEMMA Zeros == 0 \in 0 .. MaxTitle /\ 0 \in 0 .. MaxNow /\ 0 \in Nat /\ Never \in {Never}
BY SizesAssumption

---------------------------------------------------------------------------
(* What each step does to the cycle's locals, field by field.              *)

\* A walk is over.
LEMMA LocalsLeft ==
  ASSUME NEW c \in Cycle, NEW a \in Answers, NEW d, d = Left(c) \/ d = [Left(c) EXCEPT !.answer = a]
  PROVE  /\ d \in Cycle /\ d.at = 0 /\ d.page = {} /\ d.w = 0 /\ d.wIds = {} /\ d.seen = {}
         /\ d.initial = c.initial
         /\ d = Left(c) => d.answer = "none"
         /\ d = [Left(c) EXCEPT !.answer = a] => d.answer = a
<1>1. /\ Left(c).at = 0 /\ Left(c).page = {} /\ Left(c).w = 0 /\ Left(c).wIds = {}
      /\ Left(c).seen = {} /\ Left(c).initial = c.initial /\ Left(c).answer = "none"
  BY DEF Left, NoCycle
<1>2. Left(c) \in Cycle
  <2>1. 0 \in 0 .. MaxTitle /\ c.initial \in BOOLEAN /\ c.forced \in BOOLEAN /\ c.noCat \in BOOLEAN
    BY SizesAssumption DEF Cycle
  <2>2. NoCycle \in Cycle
    BY <2>1 DEF Cycle, NoCycle, Answers
  <2> QED
    BY <2>1, <2>2 DEF Left, Cycle
<1> HIDE DEF Left
<1> QED
  BY <1>1, <1>2 DEF Cycle

\* The locals of a cycle to come.
LEMMA NoLocals ==
  /\ NoCycle \in Cycle /\ NoCycle.at = 0 /\ NoCycle.page = {} /\ NoCycle.w = 0 /\ NoCycle.wIds = {}
  /\ NoCycle.seen = {}
BY SizesAssumption DEF NoCycle, Cycle, Answers

\* What each step of the cycle does to the locals and where it leads.
LEMMA StartIs ==
  ASSUME TypeInv, Start
  PROVE  pc = "idle" /\ pc' = "list" /\ cy' \in Cycle /\ cy'.at = 0 /\ cy'.page = {} /\ cy'.w = 0 /\ cy'.wIds = {}
<1>1. PICK trigger \in BOOLEAN : cy' = [NoCycle EXCEPT !.initial = FirstDownload, !.forced = trigger]
  BY DEF Start, Go
<1>2. FirstDownload \in BOOLEAN
  BY DEF FirstDownload
<1> QED
  BY <1>1, <1>2, NoLocals DEF Cycle, Start, Go

\* After list_libraries.
LEMMA ListLibrariesIs ==
  ASSUME TypeInv, ListLibraries
  PROVE  /\ pc = "list" /\ pc' = "restart" /\ cy' \in Cycle
         /\ cy'.at = cy.at /\ cy'.page = cy.page /\ cy'.w = cy.w /\ cy'.wIds = cy.wIds
<1>1. cy \in Cycle /\ (cy' = cy \/ cy' = [cy EXCEPT !.noCat = (views = {})])
  BY DEF TypeInv, TypeOK, ListLibraries, Go
<1>2. [cy EXCEPT !.noCat = (views = {})] \in Cycle
  BY <1>1 DEF Cycle
<1> QED
  BY <1>1, <1>2 DEF ListLibraries, Go, Cycle

\* After restart_bootstrap, or at the start of a walk.
LEMMA RestartIs ==
  ASSUME TypeInv, RestartBootstrap
  PROVE  /\ pc = "restart" /\ cy' \in Cycle /\ cy'.page = {} /\ cy'.w = wm /\ cy'.wIds = wmIds
         /\ \/ pc' = "bootFetch" /\ done /\ done' = FALSE /\ offset' = 0 /\ cy'.at = 0
            \/ pc' = "bootFetch" /\ ~done /\ UNCHANGED <<done, offset>> /\ cy'.at = offset
            \/ pc' = "incFetch" /\ done /\ UNCHANGED <<done, offset>> /\ cy'.at = 0
<1>1. /\ cy \in Cycle /\ cy.page = {} /\ wm \in Nat /\ wmIds \in SUBSET Titles
      /\ offset \in 0 .. MaxTitle /\ 0 \in 0 .. MaxTitle
  BY SizesAssumption DEF TypeInv, TypeOK, WalkInv, RestartBootstrap, Committing
<1>2. CASE done /\ bootDue /\ done' = FALSE /\ offset' = 0 /\ Go("bootFetch", AtBootstrap(offset'))
  <2>1. cy' = [cy EXCEPT !.at = 0, !.w = wm, !.wIds = wmIds]
    BY <1>2 DEF Go, AtBootstrap
  <2>2. cy' \in Cycle
    BY <1>1, <2>1 DEF Cycle
  <2> QED
    BY <1>1, <1>2, <2>1, <2>2 DEF Cycle, Go, RestartBootstrap
<1>3. CASE ~done /\ Go("bootFetch", AtBootstrap(offset)) /\ UNCHANGED <<done, offset>>
  <2>1. cy' = [cy EXCEPT !.at = offset, !.w = wm, !.wIds = wmIds]
    BY <1>3 DEF Go, AtBootstrap
  <2>2. cy' \in Cycle
    BY <1>1, <2>1 DEF Cycle
  <2> QED
    BY <1>1, <1>3, <2>1, <2>2 DEF Cycle, Go, RestartBootstrap
<1>4. CASE done /\ Go("incFetch", AtIncremental(wm, wmIds)) /\ UNCHANGED <<done, offset>>
  <2>1. cy' = [cy EXCEPT !.at = 0, !.pages = 0, !.w = wm, !.wIds = wmIds]
    BY <1>4 DEF Go, AtIncremental
  <2>2. cy' \in Cycle
    BY <1>1, <2>1 DEF Cycle
  <2> QED
    BY <1>1, <1>4, <2>1, <2>2 DEF Cycle, Go, RestartBootstrap
<1> QED
  BY <1>2, <1>3, <1>4 DEF RestartBootstrap, RestartOffset

\* After a request of bootstrap.
LEMMA BootFetchIs ==
  ASSUME TypeInv, BootFetch, NEW S, S = Page(cy.at, PageSize)
  PROVE  /\ pc = "bootFetch" /\ cy' \in Cycle /\ cy'.at = cy.at /\ cy.page = {}
         /\ \/ pc' = "bootCapped" /\ cy' = cy
            \/ pc' = "bootMark" /\ cy' = cy /\ S = {}
            \/ /\ pc' = "bootCommit" /\ S # {} /\ cy'.page = S /\ cy'.total = Cardinality(listed)
               /\ cy'.w = Newest(cy.w, S) /\ cy'.wIds = Advanced(cy, S).wIds
<1>1. /\ cy \in Cycle /\ listed \in SUBSET Titles /\ cy.page = {}
      /\ S \in SUBSET Titles /\ Cardinality(listed) \in 0 .. MaxTitle
  BY FiniteTitles, SizesAssumption DEF TypeInv, TypeOK, WalkInv, BootFetch, Page, Committing
<1>2. Advanced(cy, S) \in Cycle /\ Advanced(cy, S).w = Newest(cy.w, S) /\ Advanced(cy, S).at = cy.at
  BY <1>1, AdvancedOf
<1>3. CASE cy' = [Advanced(cy, S) EXCEPT !.page = S, !.total = Cardinality(listed)] /\ pc' = "bootCommit" /\ S # {}
  <2>1. cy' \in Cycle
    BY <1>1, <1>2, <1>3 DEF Cycle
  <2>2. /\ cy'.at = cy.at /\ cy'.page = S /\ cy'.total = Cardinality(listed)
        /\ cy'.w = Newest(cy.w, S) /\ cy'.wIds = Advanced(cy, S).wIds
    BY <1>1, <1>2, <1>3 DEF Cycle
  <2> QED
    BY <1>1, <1>3, <2>1, <2>2 DEF BootFetch
<1> QED
  BY <1>1, <1>3 DEF BootFetch, Go

BootLast == NextAt >= cy.total \/ Cardinality(cy.page) < PageSize

\* After commit_catalog_page.
LEMMA BootCommitIs ==
  ASSUME TypeInv, BootCommit
  PROVE  /\ pc = "bootCommit" /\ cy' \in Cycle /\ cy'.at = NextAt /\ cy'.page = {}
         /\ cy'.w = cy.w /\ cy'.wIds = cy.wIds /\ offset' = NextAt
         /\ IF BootLast THEN pc' = "bootMark" ELSE pc' = "bootFetch"
<1>1. cy \in Cycle /\ NextAt \in 0 .. MaxTitle
  BY Locals DEF TypeInv, TypeOK
<1>2. cy' = [cy EXCEPT !.at = NextAt, !.page = {}, !.pages = @ + 1, !.total = 0]
  BY DEF BootCommit, Go
<1>3. 0 \in 0 .. MaxTitle /\ cy.pages + 1 \in Nat
  BY <1>1, SizesAssumption DEF Cycle
<1>4. cy' \in Cycle
  BY <1>1, <1>2, <1>3 DEF Cycle
<1>5. cy'.at = NextAt /\ cy'.page = {} /\ cy'.w = cy.w /\ cy'.wIds = cy.wIds
  BY <1>1, <1>2 DEF Cycle
<1> QED
  BY <1>4, <1>5 DEF BootCommit, Go, BootLast, StoredOffset, NextAt

\* After commit_bootstrap_watermark.
LEMMA BootMarkIs ==
  ASSUME TypeInv, BootMark
  PROVE  /\ cy.page = {} /\ cy' \in Cycle /\ cy'.page = {}
         /\ \/ pc = "bootMark" /\ pc' = "bootFinish" /\ cy' = cy
            \/ pc = "bootCapped" /\ pc' = "incFetch" /\ cy'.at = 0 /\ cy'.w = wm' /\ cy'.wIds = wmIds'
<1>1. cy \in Cycle /\ cy.page = {} /\ wm' \in Nat /\ wmIds' \in SUBSET Titles /\ 0 \in 0 .. MaxTitle
  BY Locals, SizesAssumption DEF TypeInv, TypeOK, WalkInv, Committing, BootMark, mark
<1>2. CASE pc = "bootMark"
  BY <1>1, <1>2 DEF BootMark, Go
<1>3. CASE pc = "bootCapped"
  <2>1. cy' = AtIncremental(wm', wmIds') /\ pc' = "incFetch"
    BY <1>3 DEF BootMark, Go
  <2> QED
    <3>1. cy' = [cy EXCEPT !.at = 0, !.pages = 0, !.w = wm', !.wIds = wmIds']
      BY <2>1 DEF AtIncremental
    <3>2. cy' \in Cycle
      BY <1>1, <3>1 DEF Cycle
    <3>3. cy'.page = {} /\ cy'.at = 0 /\ cy'.w = wm' /\ cy'.wIds = wmIds'
      BY <1>1, <3>1 DEF Cycle
    <3> QED
      BY <1>1, <1>3, <2>1, <3>2, <3>3
<1> QED
  BY <1>2, <1>3 DEF BootMark

\* After finish_bootstrap.
LEMMA BootFinishIs ==
  ASSUME TypeInv, BootFinish
  PROVE  /\ pc = "bootFinish" /\ pc' = "incFetch" /\ cy' \in Cycle /\ cy'.page = {} /\ cy'.at = 0
         /\ cy'.w = wm /\ cy'.wIds = wmIds
<1>1. cy \in Cycle /\ cy.page = {} /\ wm \in Nat /\ wmIds \in SUBSET Titles /\ 0 \in 0 .. MaxTitle
  BY SizesAssumption DEF TypeInv, TypeOK, WalkInv, Committing, BootFinish
<1>2. cy' = [cy EXCEPT !.at = 0, !.pages = 0, !.w = wm, !.wIds = wmIds]
  BY DEF BootFinish, Go, AtIncremental
<1>3. cy' \in Cycle
  BY <1>1, <1>2 DEF Cycle
<1>4. cy'.page = {} /\ cy'.at = 0 /\ cy'.w = wm /\ cy'.wIds = wmIds
  BY <1>1, <1>2 DEF Cycle
<1> QED
  BY <1>3, <1>4 DEF BootFinish, Go

\* After a request of incremental.
LEMMA IncFetchIs ==
  ASSUME TypeInv, IncFetch, NEW S, S = PageDown(cy.at, PageSize)
  PROVE  /\ pc = "incFetch" /\ cy' \in Cycle /\ cy'.at = cy.at /\ cy.page = {}
         /\ \/ pc' = "incMark" /\ cy' = cy /\ S = {} /\ missed \subseteq missed'
            \/ /\ pc' = "incMark" /\ cy' = cy
               /\ missed' = missed \cup {t \in listed \ cache : RankDown(listed, t) >= cy.at}
            \/ /\ pc' = "incCommit" /\ S # {} /\ cy'.page = S /\ missed' = missed
               /\ cy'.w = Newest(cy.w, S) /\ cy'.wIds = Advanced(cy, S).wIds
<1>1. cy \in Cycle /\ listed \in SUBSET Titles /\ cy.page = {} /\ S \in SUBSET Titles
  BY SizesAssumption DEF TypeInv, TypeOK, WalkInv, IncFetch, PageDown, Committing
<1>2. Advanced(cy, S) \in Cycle /\ Advanced(cy, S).w = Newest(cy.w, S) /\ Advanced(cy, S).at = cy.at
  BY <1>1, AdvancedOf
<1>3. CASE cy' = [Advanced(cy, S) EXCEPT !.page = S] /\ pc' = "incCommit" /\ S # {} /\ missed' = missed
  <2>1. cy' \in Cycle
    BY <1>1, <1>2, <1>3 DEF Cycle
  <2>2. /\ cy'.at = cy.at /\ cy'.page = S
        /\ cy'.w = Newest(cy.w, S) /\ cy'.wIds = Advanced(cy, S).wIds
    BY <1>1, <1>2, <1>3 DEF Cycle
  <2> QED
    BY <1>1, <1>3, <2>1, <2>2 DEF IncFetch
<1> QED
  BY <1>1, <1>3 DEF IncFetch, Go

\* After a page of incremental is written.
LEMMA IncCommitIs ==
  ASSUME TypeInv, IncCommit
  PROVE  /\ pc = "incCommit" /\ cy' \in Cycle /\ cy'.at = NextAt /\ cy'.page = {}
         /\ cy'.w = cy.w /\ cy'.wIds = cy.wIds
         /\ \/ pc' = "incMark" /\ (Cardinality(cy.page) < PageSize \/ \E t \in cy.page : Date[t] < wm)
            \/ pc' = "incFetch"
<1>1. cy \in Cycle /\ NextAt \in 0 .. MaxTitle
  BY Locals DEF TypeInv, TypeOK
<1>2. cy' = [cy EXCEPT !.at = NextAt, !.page = {}, !.pages = @ + 1]
  BY DEF IncCommit, Go
<1>3. cy.pages + 1 \in Nat
  BY <1>1 DEF Cycle
<1>4. cy' \in Cycle
  BY <1>1, <1>2, <1>3 DEF Cycle
<1>5. cy'.at = NextAt /\ cy'.page = {} /\ cy'.w = cy.w /\ cy'.wIds = cy.wIds
  BY <1>1, <1>2 DEF Cycle
<1> QED
  BY <1>4, <1>5 DEF IncCommit, Go

\* After the watermark of incremental is stored.
LEMMA IncMarkIs ==
  ASSUME TypeInv, IncMark
  PROVE  /\ pc = "incMark" /\ pc' = "sweepGate" /\ cy' \in Cycle /\ cy'.page = {} /\ cy'.at = 0
         /\ cy'.w = 0 /\ cy'.wIds = {} /\ cy'.seen = {} /\ cy'.answer = "none"
<1> "none" \in Answers
  BY DEF Answers
<1> QED
  BY LocalsLeft DEF IncMark, Go, TypeInv, TypeOK

\* After a request of walk_identity.
LEMMA IdFetchIs ==
  ASSUME TypeInv, IdFetch, NEW S, S = Page(cy.at, IdPageSize)
  PROVE  /\ pc = "idFetch" /\ cy' \in Cycle /\ cy'.at = cy.at /\ cy.page = {}
         /\ cy'.w = cy.w /\ cy'.wIds = cy.wIds
         /\ \/ pc' = "verdict" /\ cy'.page = {} /\ cy'.seen = cy.seen /\ cy'.answer = "incomplete"
            \/ /\ pc' = "verdict" /\ cy'.page = {} /\ cy'.seen = cy.seen /\ S = {}
               /\ cy'.answer \in {"listed", "zero", "notCounted"}
               /\ cy'.answer = "zero" => listed = {}
            \/ pc' = "idCommit" /\ S # {} /\ cy'.page = S /\ cy'.seen = cy.seen \cup S
<1>1. cy \in Cycle /\ listed \in SUBSET Titles /\ cy.page = {} /\ S \in SUBSET Titles
  BY SizesAssumption DEF TypeInv, TypeOK, WalkInv, IdFetch, Page, Committing
<1>2. {"listed", "zero", "notCounted", "incomplete"} \subseteq Answers
  BY DEF Answers
<1> DEFINE ended == IF cy.seen # {} THEN "listed" ELSE IF listed = {} THEN "zero" ELSE "notCounted"
<1>3. CASE pc' = "verdict" /\ cy' = [cy EXCEPT !.answer = "incomplete"]
  BY <1>1, <1>2, <1>3 DEF IdFetch, Cycle
<1>4. CASE pc' = "verdict" /\ cy' = [cy EXCEPT !.answer = ended] /\ S = {}
  <2>1. ended \in {"listed", "zero", "notCounted"} /\ (ended = "zero" => listed = {})
    OBVIOUS
  <2> HIDE DEF ended
  <2> QED
    BY <1>1, <1>2, <1>4, <2>1 DEF IdFetch, Cycle
<1>5. CASE pc' = "idCommit" /\ cy' = [cy EXCEPT !.page = S, !.seen = @ \cup S] /\ S # {}
  <2>1. cy.seen \cup S \in SUBSET Titles
    BY <1>1 DEF Cycle
  <2>2. cy' \in Cycle
    BY <1>1, <1>5, <2>1 DEF Cycle
  <2>3. /\ cy'.at = cy.at /\ cy'.page = S /\ cy'.seen = cy.seen \cup S
        /\ cy'.w = cy.w /\ cy'.wIds = cy.wIds
    BY <1>1, <1>5 DEF Cycle
  <2> QED
    BY <1>1, <1>5, <2>2, <2>3 DEF IdFetch
<1> QED
  BY <1>3, <1>4, <1>5 DEF IdFetch, Go, AtTheCap

\* After apply_user_data.
LEMMA IdCommitIs ==
  ASSUME TypeInv, IdCommit
  PROVE  /\ pc = "idCommit" /\ cy' \in Cycle /\ cy'.at = NextAt /\ cy'.page = {} /\ cy'.seen = cy.seen
         /\ cy'.w = cy.w /\ cy'.wIds = cy.wIds
         /\ \/ pc' = "verdict" /\ Cardinality(cy.page) < IdPageSize /\ cy'.answer = "listed"
            \/ pc' = "idFetch" /\ ~(Cardinality(cy.page) < IdPageSize)
<1> DEFINE c == [cy EXCEPT !.at = NextAt, !.page = {}, !.pages = @ + 1]
<1>1. cy \in Cycle /\ NextAt \in 0 .. MaxTitle /\ "listed" \in Answers
  BY Locals DEF TypeInv, TypeOK, Answers
<1>2. /\ c \in Cycle /\ c.at = NextAt /\ c.page = {} /\ c.w = cy.w /\ c.wIds = cy.wIds /\ c.seen = cy.seen
  <2>1. cy.pages + 1 \in Nat
    BY <1>1 DEF Cycle
  <2>2. c \in Cycle
    BY <1>1, <2>1 DEF Cycle
  <2>3. c.at = NextAt /\ c.page = {} /\ c.w = cy.w /\ c.wIds = cy.wIds /\ c.seen = cy.seen
    BY <1>1 DEF Cycle
  <2> QED
    BY <2>2, <2>3
<1>3. pc = "idCommit" /\ IF Cardinality(cy.page) < IdPageSize
                         THEN pc' = "verdict" /\ cy' = [c EXCEPT !.answer = "listed"]
                         ELSE pc' = "idFetch" /\ cy' = c
  BY DEF IdCommit, Go
<1> HIDE DEF c
<1> QED
  BY <1>1, <1>2, <1>3 DEF Cycle

\* After apply_sweep_verdict.
LEMMA ApplyVerdictIs ==
  ASSUME TypeInv, ApplyVerdict
  PROVE  /\ pc = "verdict" /\ pc' = "swept" /\ cy' \in Cycle /\ cy'.page = {} /\ cy'.at = 0
         /\ cy'.w = 0 /\ cy'.wIds = {} /\ cy'.seen = {} /\ cy'.answer = cy.answer
BY Locals, LocalsLeft DEF ApplyVerdict, Go, TypeInv, TypeOK

\* Types and walks survive every step.
THEOREM TypesStep == TypeInv /\ [Next]_vars => TypeInv'
<1> SUFFICES ASSUME TypeInv, [Next]_vars PROVE TypeInv'
  OBVIOUS
<1> USE DEF outside, server, boot, mark, sweep, timers, walk, ghosts
<1>0. TypeOK /\ DataOK /\ WalkInv /\ cy \in Cycle /\ pc \in Steps
  BY TypeParts DEF TypeInv
<1>1. CASE Start
  <2>1. DataOK'
    BY <1>0, <1>1 DEF Start, DataOK
  <2>2. cy' \in Cycle /\ pc' \in Steps
    BY <1>0, <1>1, StartIs DEF Start, Go, Steps
  <2>3. /\ cy'.page = {} /\ cy'.at \in 0 .. MaxTitle
        /\ pc' \in BootWalk => cy'.at = offset'
        /\ pc' \in Booting => ~done'
    BY <1>0, <1>1, StartIs, Zeros DEF BootWalk, Booting, DataOK
  <2>4. WalkInv'
    BY <2>3, WalkMoves
  <2> QED
    BY <2>1, <2>2, <2>4, TypePartsNext DEF TypeInv
<1>2. CASE ListLibraries
  <2>1. DataOK'
    <3>1. owed' \in BOOLEAN
      BY <1>0, <1>2, Zenon DEF ListLibraries, DataOK
    <3>2. faults' \in 0 .. MaxFaults /\ stored' \subseteq Libs
      BY <1>0, <1>2, SizesAssumption DEF ListLibraries, DataOK
    <3> QED
      BY <1>0, <1>2, <3>1, <3>2 DEF ListLibraries, DataOK
  <2>2. cy' \in Cycle /\ pc' \in Steps
    BY <1>0, <1>2, ListLibrariesIs DEF ListLibraries, Go, Steps
  <2>3. /\ cy'.page = {} /\ cy'.at \in 0 .. MaxTitle
        /\ pc' \in BootWalk => cy'.at = offset'
        /\ pc' \in Booting => ~done'
    BY <1>0, <1>2, ListLibrariesIs, Locals, SizesAssumption DEF ListLibraries, Go, WalkInv, BootWalk, Booting, Committing
  <2>4. WalkInv'
    BY <2>3, WalkMoves
  <2> QED
    BY <2>1, <2>2, <2>4, TypePartsNext DEF TypeInv
<1>3. CASE RestartBootstrap
  <2>1. DataOK'
    <3>1. done' \in BOOLEAN /\ offset' \in 0 .. MaxTitle
      BY <1>0, <1>3, RestartIs, Zeros DEF DataOK
    <3> QED
      BY <1>0, <1>3, <3>1 DEF RestartBootstrap, DataOK
  <2>2. cy' \in Cycle /\ pc' \in Steps
    BY <1>0, <1>3, RestartIs DEF RestartBootstrap, Go, Steps
  <2>3. /\ cy'.page = {} /\ cy'.at \in 0 .. MaxTitle
        /\ pc' \in BootWalk => cy'.at = offset'
        /\ pc' \in Booting => ~done'
    <3>1. offset \in 0 .. MaxTitle /\ cy'.page = {}
      BY <1>0, <1>3, RestartIs DEF DataOK
    <3>2. CASE done' = FALSE /\ cy'.at = 0 /\ offset' = 0
      BY <3>1, <3>2, Zeros
    <3>3. CASE ~done /\ done' = done /\ offset' = offset /\ cy'.at = offset
      BY <3>1, <3>3
    <3>4. CASE pc' = "incFetch" /\ cy'.at = 0
      BY <3>1, <3>4, Zeros DEF BootWalk, Booting
    <3> QED
      BY <1>0, <1>3, <3>2, <3>3, <3>4, RestartIs
  <2>4. WalkInv'
    BY <2>3, WalkMoves
  <2> QED
    BY <2>1, <2>2, <2>4, TypePartsNext DEF TypeInv
<1>4. CASE BootFetch
  <2>1. DataOK'
    BY <1>0, <1>4 DEF BootFetch, DataOK
  <2>2. cy' \in Cycle /\ pc' \in Steps
    BY <1>0, <1>4, BootFetchIs DEF BootFetch, Go, Steps
  <2>3. WalkInv'
    <3>1. cy'.at = cy.at /\ cy.page = {} /\ UNCHANGED <<offset, done>> /\ cy.at \in 0 .. MaxTitle
      BY <1>4, BootFetchIs, Locals DEF BootFetch
    <3>2. CASE pc' = "bootCommit"
      <4>1. cy'.page = Page(cy.at, PageSize) /\ cy'.page # {}
        BY <1>4, <3>2, BootFetchIs
      <4> QED
        BY <1>4, <3>1, <3>2, <4>1, WalkFetches, SizesAssumption DEF BootFetch, Committing, BootWalk
    <3>3. CASE pc' # "bootCommit"
      <4>1. cy'.page = {} /\ (pc' \in BootWalk \cup Booting => pc \in BootWalk /\ cy' = cy)
        BY <1>4, <3>1, <3>3, BootFetchIs DEF BootWalk, Booting
      <4> QED
        BY <1>0, <3>1, <3>3, <4>1, WalkMoves DEF WalkInv, Booting
    <3> QED
      BY <3>2, <3>3
  <2> QED
    BY <2>1, <2>2, <2>3, TypePartsNext DEF TypeInv
<1>5. CASE BootCommit
  <2>1. DataOK'
    BY <1>0, <1>5, Locals, BootCommitIs DEF BootCommit, DataOK, Ingest, Go
  <2>2. cy' \in Cycle /\ pc' \in Steps
    BY <1>0, <1>5, BootCommitIs DEF BootCommit, Go, Steps
  <2>3. /\ cy'.page = {} /\ cy'.at \in 0 .. MaxTitle
        /\ pc' \in BootWalk => cy'.at = offset'
        /\ pc' \in Booting => ~done'
    BY <1>0, <1>5, BootCommitIs, Locals, SizesAssumption DEF BootCommit, Go, WalkInv, BootWalk, Booting, Committing
  <2>4. WalkInv'
    BY <2>3, WalkMoves
  <2> QED
    BY <2>1, <2>2, <2>4, TypePartsNext DEF TypeInv
<1>6. CASE BootMark
  <2>1. DataOK'
    BY <1>0, <1>6, Locals DEF BootMark, DataOK
  <2>2. cy' \in Cycle /\ pc' \in Steps
    BY <1>0, <1>6, BootMarkIs DEF BootMark, Go, Steps
  <2>3. /\ cy'.page = {} /\ cy'.at \in 0 .. MaxTitle
        /\ pc' \in BootWalk => cy'.at = offset'
        /\ pc' \in Booting => ~done'
    BY <1>0, <1>6, BootMarkIs, Locals, SizesAssumption DEF BootMark, Go, WalkInv, BootWalk, Booting, Committing
  <2>4. WalkInv'
    BY <2>3, WalkMoves
  <2> QED
    BY <2>1, <2>2, <2>4, TypePartsNext DEF TypeInv
<1>7. CASE BootFinish
  <2>1. DataOK'
    BY <1>0, <1>7 DEF BootFinish, DataOK
  <2>2. cy' \in Cycle /\ pc' \in Steps
    BY <1>0, <1>7, BootFinishIs DEF BootFinish, Go, Steps
  <2>3. /\ cy'.page = {} /\ cy'.at \in 0 .. MaxTitle
        /\ pc' \in BootWalk => cy'.at = offset'
        /\ pc' \in Booting => ~done'
    BY <1>0, <1>7, BootFinishIs, Zeros DEF BootWalk, Booting, DataOK
  <2>4. WalkInv'
    BY <2>3, WalkMoves
  <2> QED
    BY <2>1, <2>2, <2>4, TypePartsNext DEF TypeInv
<1>8. CASE IncFetch
  <2>1. DataOK'
    BY <1>0, <1>8 DEF IncFetch, DataOK
  <2>2. cy' \in Cycle /\ pc' \in Steps
    BY <1>0, <1>8, IncFetchIs DEF IncFetch, Go, Steps
  <2>3. WalkInv'
    <3>1. cy'.at = cy.at /\ cy.page = {} /\ UNCHANGED <<offset, done>> /\ cy.at \in 0 .. MaxTitle
      BY <1>8, IncFetchIs, Locals DEF IncFetch
    <3>2. CASE pc' = "incCommit"
      <4>1. cy'.page = PageDown(cy.at, PageSize) /\ cy'.page # {}
        BY <1>8, <3>2, IncFetchIs
      <4> QED
        BY <1>8, <3>1, <3>2, <4>1, WalkFetches, SizesAssumption DEF IncFetch, Committing, BootWalk
    <3>3. CASE pc' # "incCommit"
      <4>1. cy'.page = {} /\ (pc' \in BootWalk \cup Booting => pc \in BootWalk /\ cy' = cy)
        BY <1>8, <3>1, <3>3, IncFetchIs DEF BootWalk, Booting
      <4> QED
        BY <1>0, <3>1, <3>3, <4>1, WalkMoves DEF WalkInv, Booting
    <3> QED
      BY <3>2, <3>3
  <2> QED
    BY <2>1, <2>2, <2>3, TypePartsNext DEF TypeInv
<1>9. CASE IncCommit
  <2>1. DataOK'
    BY <1>0, <1>9, Locals DEF IncCommit, DataOK, Ingest
  <2>2. cy' \in Cycle /\ pc' \in Steps
    BY <1>0, <1>9, IncCommitIs DEF IncCommit, Go, Steps
  <2>3. /\ cy'.page = {} /\ cy'.at \in 0 .. MaxTitle
        /\ pc' \in BootWalk => cy'.at = offset'
        /\ pc' \in Booting => ~done'
    BY <1>0, <1>9, IncCommitIs, Locals, SizesAssumption DEF IncCommit, Go, WalkInv, BootWalk, Booting, Committing
  <2>4. WalkInv'
    BY <2>3, WalkMoves
  <2> QED
    BY <2>1, <2>2, <2>4, TypePartsNext DEF TypeInv
<1>10. CASE IncMark
  <2>1. DataOK'
    BY <1>0, <1>10, Locals DEF IncMark, DataOK
  <2>2. cy' \in Cycle /\ pc' \in Steps
    BY <1>0, <1>10, IncMarkIs DEF IncMark, Go, Steps
  <2>3. /\ cy'.page = {} /\ cy'.at \in 0 .. MaxTitle
        /\ pc' \in BootWalk => cy'.at = offset'
        /\ pc' \in Booting => ~done'
    BY <1>0, <1>10, IncMarkIs, Locals, SizesAssumption DEF IncMark, Go, WalkInv, BootWalk, Booting, Committing
  <2>4. WalkInv'
    BY <2>3, WalkMoves
  <2> QED
    BY <2>1, <2>2, <2>4, TypePartsNext DEF TypeInv
<1>11. CASE SweepGate
  <2>1. DataOK'
    BY <1>0, <1>11 DEF SweepGate, DataOK
  <2>2. cy' \in Cycle /\ pc' \in Steps
    BY <1>0, <1>11 DEF SweepGate, Go, Steps
  <2>3. /\ cy'.page = {} /\ cy'.at \in 0 .. MaxTitle
        /\ pc' \in BootWalk => cy'.at = offset'
        /\ pc' \in Booting => ~done'
    BY <1>0, <1>11, Locals, SizesAssumption DEF SweepGate, Go, WalkInv, BootWalk, Booting, Committing
  <2>4. WalkInv'
    BY <2>3, WalkMoves
  <2> QED
    BY <2>1, <2>2, <2>4, TypePartsNext DEF TypeInv
<1>12. CASE IdFetch
  <2>1. DataOK'
    BY <1>0, <1>12 DEF IdFetch, DataOK
  <2>2. cy' \in Cycle /\ pc' \in Steps
    BY <1>0, <1>12, IdFetchIs DEF IdFetch, Go, Steps
  <2>3. WalkInv'
    <3>1. cy'.at = cy.at /\ cy.page = {} /\ UNCHANGED <<offset, done>> /\ cy.at \in 0 .. MaxTitle
      BY <1>12, IdFetchIs, Locals DEF IdFetch
    <3>2. CASE pc' = "idCommit"
      <4>1. cy'.page = Page(cy.at, IdPageSize) /\ cy'.page # {}
        BY <1>12, <3>2, IdFetchIs
      <4> QED
        BY <1>12, <3>1, <3>2, <4>1, WalkFetches, SizesAssumption DEF IdFetch, Committing, BootWalk
    <3>3. CASE pc' # "idCommit"
      <4>1. cy'.page = {} /\ (pc' \in BootWalk \cup Booting => pc \in BootWalk /\ cy' = cy)
        BY <1>12, <3>1, <3>3, IdFetchIs DEF BootWalk, Booting
      <4> QED
        BY <1>0, <3>1, <3>3, <4>1, WalkMoves DEF WalkInv, Booting
    <3> QED
      BY <3>2, <3>3
  <2> QED
    BY <2>1, <2>2, <2>3, TypePartsNext DEF TypeInv
<1>13. CASE IdCommit
  <2>1. DataOK'
    BY <1>0, <1>13 DEF IdCommit, DataOK
  <2>2. cy' \in Cycle /\ pc' \in Steps
    BY <1>0, <1>13, IdCommitIs DEF IdCommit, Go, Steps
  <2>3. /\ cy'.page = {} /\ cy'.at \in 0 .. MaxTitle
        /\ pc' \in BootWalk => cy'.at = offset'
        /\ pc' \in Booting => ~done'
    BY <1>0, <1>13, IdCommitIs, Locals, SizesAssumption DEF IdCommit, Go, WalkInv, BootWalk, Booting, Committing
  <2>4. WalkInv'
    BY <2>3, WalkMoves
  <2> QED
    BY <2>1, <2>2, <2>4, TypePartsNext DEF TypeInv
<1>14. CASE ApplyVerdict
  <2>1. DataOK'
    BY <1>0, <1>14, Locals DEF ApplyVerdict, DataOK, Behind, Never
  <2>2. cy' \in Cycle /\ pc' \in Steps
    BY <1>0, <1>14, ApplyVerdictIs DEF ApplyVerdict, Go, Steps
  <2>3. /\ cy'.page = {} /\ cy'.at \in 0 .. MaxTitle
        /\ pc' \in BootWalk => cy'.at = offset'
        /\ pc' \in Booting => ~done'
    BY <1>0, <1>14, ApplyVerdictIs, Zeros DEF BootWalk, Booting, DataOK
  <2>4. WalkInv'
    BY <2>3, WalkMoves
  <2> QED
    BY <2>1, <2>2, <2>4, TypePartsNext DEF TypeInv
<1>15. CASE TouchSweep
  <2>1. DataOK'
    BY <1>0, <1>15 DEF TouchSweep, DataOK
  <2>2. cy' \in Cycle /\ pc' \in Steps
    BY <1>0, <1>15 DEF TouchSweep, Go, Steps
  <2>3. /\ cy'.page = {} /\ cy'.at \in 0 .. MaxTitle
        /\ pc' \in BootWalk => cy'.at = offset'
        /\ pc' \in Booting => ~done'
    BY <1>0, <1>15, Locals, SizesAssumption DEF TouchSweep, Go, WalkInv, BootWalk, Booting, Committing
  <2>4. WalkInv'
    BY <2>3, WalkMoves
  <2> QED
    BY <2>1, <2>2, <2>4, TypePartsNext DEF TypeInv
<1>16. CASE Success
  <2>1. DataOK'
    BY <1>0, <1>16 DEF Success, DataOK
  <2>2. cy' = NoCycle /\ pc' = "idle"
    BY <1>16 DEF Success, Go
  <2> QED
    BY <2>1, <2>2, NoLocals, WalkEnds, TypePartsNext DEF TypeInv, Steps
<1>17. CASE CycleFails
  <2>1. DataOK'
    <3>1. faults' \in 0 .. MaxFaults
      BY <1>0, <1>17, FaultTypes DEF CycleFails
    <3> QED
      BY <1>0, <1>17, <3>1, Zeros DEF CycleFails, DataOK
  <2>2. cy' = NoCycle /\ pc' = "idle"
    BY <1>17 DEF CycleFails, Go
  <2> QED
    BY <2>1, <2>2, NoLocals, WalkEnds, TypePartsNext DEF TypeInv, Steps
<1>18. CASE CycleEnds
  <2>1. DataOK'
    BY <1>0, <1>18, SizesAssumption DEF CycleEnds, DataOK, Fault
  <2>2. cy' = NoCycle /\ pc' = "idle"
    BY <1>18 DEF CycleEnds, Go
  <2> QED
    BY <2>1, <2>2, NoLocals, WalkEnds, TypePartsNext DEF TypeInv, Steps
<1>19. CASE EndsMidCommit
  <2>1. DataOK'
    <3>1. faults' \in 0 .. MaxFaults
      BY <1>0, <1>19, FaultTypes DEF EndsMidCommit
    <3> QED
      BY <1>0, <1>19, <3>1, Zeros, Locals DEF EndsMidCommit, DataOK, Ingest, Behind
  <2>2. cy' = NoCycle /\ pc' = "idle"
    BY <1>19 DEF EndsMidCommit, Go
  <2> QED
    BY <2>1, <2>2, NoLocals, WalkEnds, TypePartsNext DEF TypeInv, Steps
<1>20. CASE ForgetLibrary
  <2>1. DataOK'
    <3>1. faults' \in 0 .. MaxFaults
      BY <1>0, <1>20, FaultTypes DEF ForgetLibrary
    <3> QED
      BY <1>0, <1>20, <3>1, Zeros DEF ForgetLibrary, DataOK
  <2>2. cy' = NoCycle /\ pc' = "idle"
    BY <1>20 DEF ForgetLibrary, Go
  <2> QED
    BY <2>1, <2>2, NoLocals, WalkEnds, TypePartsNext DEF TypeInv, Steps
<1>21. CASE AddTitle
  <2>1. DataOK'
    <3>1. next \in Titles /\ next' \in 1 .. MaxTitle + 1
      BY <1>0, <1>21, SizesAssumption DEF AddTitle, DataOK, Titles
    <3>2. listed \cup {next} \in SUBSET Titles /\ ServerBecomes(listed \cup {next})
      BY <1>0, <1>21, <3>1 DEF AddTitle, DataOK
    <3> QED
      BY <1>0, <1>21, <3>1, <3>2, ServerTypes DEF AddTitle, DataOK
  <2>2. cy' = cy /\ pc' = pc /\ offset' = offset /\ done' = done
    BY <1>21 DEF AddTitle, ServerBecomes
  <2> QED
    BY <1>0, <2>1, <2>2, WalkStays, TypePartsNext DEF TypeInv
<1>22. ASSUME NEW t \in Titles, RemoveTitle(t) PROVE TypeInv'
  <2>1. DataOK'
    BY <1>0, <1>22 DEF RemoveTitle, DataOK, ServerBecomes, BootMisses, SlidUp
  <2>2. cy' = cy /\ pc' = pc /\ offset' = offset /\ done' = done
    BY <1>22 DEF RemoveTitle, ServerBecomes
  <2> QED
    BY <1>0, <2>1, <2>2, WalkStays, TypePartsNext DEF TypeInv
<1>23. ASSUME NEW l \in Libs, RemoveLibrary(l) PROVE TypeInv'
  <2>1. DataOK'
    BY <1>0, <1>23 DEF RemoveLibrary, DataOK, ServerBecomes, BootMisses, SlidUp
  <2>2. cy' = cy /\ pc' = pc /\ offset' = offset /\ done' = done
    BY <1>23 DEF RemoveLibrary, ServerBecomes
  <2> QED
    BY <1>0, <2>1, <2>2, WalkStays, TypePartsNext DEF TypeInv
<1>24. ASSUME NEW t \in Titles, OtherFetches(t) PROVE TypeInv'
  <2>1. DataOK'
    BY <1>0, <1>24 DEF OtherFetches, DataOK
  <2>2. cy' = cy /\ pc' = pc /\ offset' = offset /\ done' = done
    BY <1>24 DEF OtherFetches
  <2> QED
    BY <1>0, <2>1, <2>2, WalkStays, TypePartsNext DEF TypeInv
<1>25. ASSUME NEW t \in Titles, OtherForgets(t) PROVE TypeInv'
  <2>1. DataOK'
    BY <1>0, <1>25 DEF OtherForgets, DataOK
  <2>2. cy' = cy /\ pc' = pc /\ offset' = offset /\ done' = done
    BY <1>25 DEF OtherForgets
  <2> QED
    BY <1>0, <2>1, <2>2, WalkStays, TypePartsNext DEF TypeInv
<1>26. CASE OtherIngests
  <2>1. DataOK'
    BY <1>0, <1>26 DEF OtherIngests, DataOK, Ingest
  <2>2. cy' = cy /\ pc' = pc /\ offset' = offset /\ done' = done
    BY <1>26 DEF OtherIngests
  <2> QED
    BY <1>0, <2>1, <2>2, WalkStays, TypePartsNext DEF TypeInv
<1>27. CASE DayPasses
  <2>1. DataOK'
    BY <1>0, <1>27 DEF DayPasses, DataOK
  <2>2. cy' = cy /\ pc' = pc /\ offset' = offset /\ done' = done
    BY <1>27 DEF DayPasses
  <2> QED
    BY <1>0, <2>1, <2>2, WalkStays, TypePartsNext DEF TypeInv
<1>28. CASE HourPasses
  <2>1. DataOK'
    BY <1>0, <1>28 DEF HourPasses, DataOK
  <2>2. cy' = cy /\ pc' = pc /\ offset' = offset /\ done' = done
    BY <1>28 DEF HourPasses
  <2> QED
    BY <1>0, <2>1, <2>2, WalkStays, TypePartsNext DEF TypeInv
<1>29. CASE ClockMoves
  <2>1. DataOK'
    BY <1>0, <1>29 DEF ClockMoves, DataOK
  <2>2. cy' = cy /\ pc' = pc /\ offset' = offset /\ done' = done
    BY <1>29 DEF ClockMoves
  <2> QED
    BY <1>0, <2>1, <2>2, WalkStays, TypePartsNext DEF TypeInv
<1>30. CASE UNCHANGED vars
  BY <1>0, <1>30 DEF vars, TypeInv, TypeOK, WalkInv, NextAt
<1> QED
  BY <1>1, <1>2, <1>3, <1>4, <1>5, <1>6, <1>7, <1>8, <1>9, <1>10, <1>11, <1>12, <1>13, <1>14, <1>15, <1>16, <1>17, <1>18, <1>19, <1>20, <1>21, <1>22, <1>23, <1>24, <1>25, <1>26, <1>27, <1>28, <1>29, <1>30 DEF Next, CycleStep, Interruption, ServerStep, OtherStep, TimePasses
---------------------------------------------------------------------------
(* The steps, as the invariants tell them apart.                           *)

\* The titles added so far.
Old == 1 .. next - 1

\* No title still to come is older than what the app knows of.
KnownInv ==
  /\ listed \subseteq Old /\ cache \subseteq Old /\ sock \subseteq Old
  /\ wmIds \subseteq Old /\ cy.wIds \subseteq Old /\ cy.page \subseteq Old
  /\ \A n \in Titles \ Old : wm <= Date[n] /\ cy.w <= Date[n]

\* The server's titles become S, all of them listed before or new.
ServerMoves(S) ==
  /\ ServerBecomes(S) /\ next' \in 1 .. MaxTitle + 1 /\ next <= next'
  /\ S \subseteq 1 .. next' - 1 /\ S \subseteq Titles /\ S \cap Old \subseteq listed
  /\ UNCHANGED <<cache, done, offset, wm, wmIds, owed, emptyAt, pc, cy, sock, empties>>

\* Nothing moves that the invariants speak of.
Quiet ==
  /\ UNCHANGED <<listed, next, cache, done, offset, wm, wmIds, owed, emptyAt, pc, cy,
                 missed, stable, unseen, empties>>
  /\ sock' \subseteq sock \cup listed

\* What the server does is to move its titles.
LEMMA ServerStepIs ==
  ASSUME TypeInv, KnownInv, ServerStep
  PROVE  \E S \in SUBSET Titles : ServerMoves(S)
<1> USE DEF boot, mark, sweep, KnownInv, ServerMoves
<1>0. listed \in SUBSET Titles /\ next \in 1 .. MaxTitle + 1 /\ MaxTitle \in Nat
  BY SizesAssumption DEF TypeInv, TypeOK
<1>1. CASE AddTitle
  <2>1. listed \cup {next} \in SUBSET Titles /\ ServerBecomes(listed \cup {next}) /\ next' = next + 1
    BY <1>0, <1>1 DEF AddTitle, Titles
  <2>2. next' \in 1 .. MaxTitle + 1 /\ next <= next' /\ listed \cup {next} \subseteq 1 .. next' - 1
    BY <1>0, <1>1, <2>1 DEF AddTitle, Old
  <2>3. (listed \cup {next}) \cap Old \subseteq listed
    BY <1>0 DEF Old
  <2>4. ServerMoves(listed \cup {next})
    BY <1>1, <2>1, <2>2, <2>3 DEF AddTitle
  <2> QED
    BY <2>1, <2>4
<1>2. ASSUME NEW S \in SUBSET listed, ServerBecomes(S), next' = next,
             UNCHANGED <<cache, done, offset, wm, wmIds, owed, emptyAt, pc, cy, sock, empties>>
      PROVE  S \in SUBSET Titles /\ ServerMoves(S)
  BY <1>0, <1>2 DEF Old
<1>3. ASSUME NEW t \in Titles, RemoveTitle(t) PROVE \E S \in SUBSET Titles : ServerMoves(S)
  <2>1. ServerMoves(listed \ {t}) /\ listed \ {t} \in SUBSET Titles
    BY <1>2, <1>3 DEF RemoveTitle
  <2> QED
    BY <2>1
<1>4. ASSUME NEW l \in Libs, RemoveLibrary(l) PROVE \E S \in SUBSET Titles : ServerMoves(S)
  <2> DEFINE S == {t \in listed : LibOf[t] # l}
  <2>1. ServerBecomes(S) /\ S \in SUBSET listed
    BY <1>4 DEF RemoveLibrary
  <2>2. next' = next /\ UNCHANGED <<cache, done, offset, wm, wmIds, owed, emptyAt, pc, cy, sock, empties>>
    BY <1>4 DEF RemoveLibrary
  <2> HIDE DEF S
  <2> QED
    BY <1>2, <2>1, <2>2
<1> QED
  BY <1>1, <1>3, <1>4 DEF ServerStep

\* Time, an answer on its way and stuttering are quiet.
LEMMA QuietSteps ==
  ASSUME TypeInv, TimePasses \/ UNCHANGED vars \/ \E t \in Titles : OtherFetches(t)
  PROVE  Quiet
<1> USE DEF outside, server, boot, mark, sweep, timers, walk, ghosts, Quiet
<1>1. CASE TimePasses
  BY <1>1 DEF TimePasses, DayPasses, HourPasses, ClockMoves
<1>2. CASE UNCHANGED vars
  BY <1>2 DEF vars
<1>3. ASSUME NEW t \in Titles, OtherFetches(t) PROVE Quiet
  BY <1>3 DEF OtherFetches
<1> QED
  BY <1>1, <1>2, <1>3

\* The steps of the worker: CycleStep, its start, and what ends it.
Working == Start \/ CycleStep \/ Interruption

\* Every step is the server's, another thread's, quiet, or the worker's.
LEMMA StepKinds ==
  ASSUME TypeInv, KnownInv, [Next]_vars
  PROVE  \/ \E S \in SUBSET Titles : ServerMoves(S)
         \/ OtherIngests
         \/ \E t \in Titles : OtherForgets(t)
         \/ Quiet
         \/ Working
BY ServerStepIs, QuietSteps DEF Next, OtherStep, Working

\* A step of the worker leaves the server alone.
LEMMA WorkingApart ==
  ASSUME Working
  PROVE  listed' = listed /\ next' = next /\ sock' \subseteq sock
<1> USE DEF outside, server
<1>1. CASE Start
  BY <1>1 DEF Start
<1>2. CASE CycleStep
  BY <1>2 DEF CycleStep, ListLibraries, RestartBootstrap, BootFetch, BootCommit, BootMark, BootFinish,
       IncFetch, IncCommit, IncMark, SweepGate, IdFetch, IdCommit, ApplyVerdict, TouchSweep, Success
<1>3. CASE Interruption
  BY <1>3 DEF Interruption, CycleFails, CycleEnds, EndsMidCommit, ForgetLibrary
<1> QED
  BY <1>1, <1>2, <1>3 DEF Working

\* What ends a cycle.
LEMMA EndingIs ==
  ASSUME Success \/ Interruption
  PROVE  cy' = NoCycle /\ pc' = "idle"
BY DEF Success, Interruption, CycleFails, CycleEnds, EndsMidCommit, ForgetLibrary, Go

---------------------------------------------------------------------------
(* What the app knows of was added before what is still to come.           *)

\* A page is no newer than what is still to come.
LEMMA NewestKnown ==
  ASSUME TypeInv, KnownInv, NEW S \in SUBSET listed
  PROVE  /\ Newest(cy.w, S) \in Nat /\ Advanced(cy, S).wIds \subseteq Old
         /\ \A n \in Titles \ Old : Newest(cy.w, S) <= Date[n]
<1>0. /\ cy \in Cycle /\ cy.w \in Nat /\ cy.wIds \in SUBSET Titles /\ listed \in SUBSET Titles
      /\ next \in Nat /\ S \in SUBSET Titles
  BY Locals, SizesAssumption DEF TypeInv, TypeOK
<1>1. /\ Newest(cy.w, S) \in Nat
      /\ Newest(cy.w, S) = cy.w \/ \E t \in S : Newest(cy.w, S) = Date[t]
  BY <1>0, NewestIs
<1>2. Advanced(cy, S).wIds \subseteq cy.wIds \cup S
  BY <1>0, AdvancedIs
<1>3. ASSUME NEW n \in Titles \ Old, NEW t \in S PROVE Date[t] <= Date[n]
  <2>1. t < n
    BY <1>0, SizesAssumption DEF KnownInv, Old, Titles
  <2> QED
    BY <1>0, <2>1, DateAssumption
<1> QED
  BY <1>1, <1>2, <1>3 DEF KnownInv

\* KnownInv, when the server stays.
LEMMA KnownKeeps ==
  ASSUME KnownInv, next' = next, listed' = listed, sock' \subseteq sock \cup listed,
         cache' \subseteq Old, wmIds' \subseteq Old, cy'.wIds \subseteq Old, cy'.page \subseteq Old,
         \A n \in Titles \ Old : wm' <= Date[n] /\ cy'.w <= Date[n]
  PROVE  KnownInv'
<1>1. Old' = Old
  BY DEF Old
<1> QED
  BY <1>1 DEF KnownInv

\* KnownInv survives every step.
LEMMA KnownStep ==
  ASSUME TypeInv, KnownInv, [Next]_vars
  PROVE  KnownInv'
<1> USE DEF mark
<1>0. /\ next \in Nat /\ listed \in SUBSET Titles /\ cy.w \in Nat
      /\ \A n \in Titles : Date[n] \in Nat /\ 0 <= Date[n]
  BY Locals, DateAssumption DEF TypeInv, TypeOK
<1>1. ASSUME NEW S \in SUBSET Titles, ServerMoves(S) PROVE KnownInv'
  <2>1. /\ next' \in 1 .. MaxTitle + 1 /\ next <= next' /\ S \subseteq 1 .. next' - 1
    BY <1>1 DEF ServerMoves
  <2>2. listed' = S
    BY <1>1 DEF ServerMoves, ServerBecomes
  <2> DEFINE n == next'
  <2>3. Old' = 1 .. n - 1
    BY DEF Old
  <2>4. next \in Int /\ n \in Int /\ next <= n
    BY <1>0, <2>1, SizesAssumption
  <2> HIDE DEF n
  <2>5. Old \subseteq 1 .. n - 1
    BY <2>4 DEF Old
  <2>6. Old \subseteq Old' /\ listed' \subseteq Old'
    BY <2>1, <2>2, <2>3, <2>5 DEF n
  <2> QED
    BY <1>1, <2>6 DEF KnownInv, ServerMoves
<1>2. CASE OtherIngests
  BY <1>2, KnownKeeps DEF OtherIngests, KnownInv, server, Ingest
<1>3. ASSUME NEW t \in Titles, OtherForgets(t) PROVE KnownInv'
  BY <1>3, KnownKeeps DEF OtherForgets, KnownInv, server
<1>4. CASE Quiet
  BY <1>4, KnownKeeps DEF Quiet, KnownInv
<1>5. CASE Working
  <2>0. listed' = listed /\ next' = next /\ sock' \subseteq sock \cup listed
    BY <1>5, WorkingApart
  <2>1. CASE Start
    BY <2>0, <2>1, <1>0, StartIs, KnownKeeps DEF Start, KnownInv
  <2>2. CASE ListLibraries
    BY <2>0, <2>2, ListLibrariesIs, KnownKeeps DEF ListLibraries, KnownInv
  <2>3. CASE RestartBootstrap
    BY <2>0, <2>3, RestartIs, KnownKeeps DEF RestartBootstrap, KnownInv
  <2>4. CASE BootFetch
    <3> DEFINE S == Page(cy.at, PageSize)
    <3>1. S \in SUBSET listed
      BY DEF Page
    <3>2. \/ cy' = cy
          \/ /\ cy'.page = S /\ cy'.w = Newest(cy.w, S) /\ cy'.wIds = Advanced(cy, S).wIds
      BY <2>4, BootFetchIs
    <3> HIDE DEF S
    <3> QED
      BY <2>0, <2>4, <3>1, <3>2, NewestKnown, KnownKeeps DEF BootFetch, KnownInv
  <2>5. CASE BootCommit
    BY <2>0, <2>5, BootCommitIs, KnownKeeps DEF BootCommit, Ingest, KnownInv
  <2>6. CASE BootMark
    <3>1. /\ cache' = cache /\ cy'.page = {}
          /\ (wm' = wm /\ wmIds' = wmIds) \/ (wm' = cy.w /\ wmIds' = cy.wIds)
          /\ cy' = cy \/ (cy'.w = wm' /\ cy'.wIds = wmIds')
      BY <2>6, BootMarkIs DEF BootMark
    <3> QED
      BY <2>0, <3>1, KnownKeeps DEF KnownInv
  <2>7. CASE BootFinish
    BY <2>0, <2>7, BootFinishIs, KnownKeeps DEF BootFinish, KnownInv
  <2>8. CASE IncFetch
    <3> DEFINE S == PageDown(cy.at, PageSize)
    <3>1. S \in SUBSET listed
      BY DEF PageDown
    <3>2. \/ cy' = cy
          \/ /\ cy'.page = S /\ cy'.w = Newest(cy.w, S) /\ cy'.wIds = Advanced(cy, S).wIds
      BY <2>8, IncFetchIs
    <3> HIDE DEF S
    <3> QED
      BY <2>0, <2>8, <3>1, <3>2, NewestKnown, KnownKeeps DEF IncFetch, KnownInv
  <2>9. CASE IncCommit
    BY <2>0, <2>9, IncCommitIs, KnownKeeps DEF IncCommit, Ingest, KnownInv
  <2>10. CASE IncMark
    BY <2>0, <2>10, <1>0, IncMarkIs, KnownKeeps DEF IncMark, KnownInv
  <2>11. CASE SweepGate
    BY <2>0, <2>11, KnownKeeps DEF SweepGate, Go, KnownInv
  <2>12. CASE IdFetch
    <3> DEFINE S == Page(cy.at, IdPageSize)
    <3>1. S \in SUBSET listed
      BY DEF Page
    <3>2. cy'.w = cy.w /\ cy'.wIds = cy.wIds /\ (cy'.page = {} \/ cy'.page = S)
      BY <2>12, IdFetchIs
    <3> HIDE DEF S
    <3> QED
      BY <2>0, <2>12, <3>1, <3>2, KnownKeeps DEF IdFetch, KnownInv
  <2>13. CASE IdCommit
    BY <2>0, <2>13, IdCommitIs, KnownKeeps DEF IdCommit, KnownInv
  <2>14. CASE ApplyVerdict
    <3>1. cache' \subseteq cache /\ wm' = wm /\ wmIds' = wmIds
      BY <2>14 DEF ApplyVerdict
    <3> QED
      BY <2>0, <2>14, <3>1, <1>0, ApplyVerdictIs, KnownKeeps DEF KnownInv
  <2>15. CASE TouchSweep
    BY <2>0, <2>15, KnownKeeps DEF TouchSweep, Go, KnownInv
  <2>16. CASE Success \/ Interruption
    <3>1. cy'.w = 0 /\ cy'.wIds = {} /\ cy'.page = {}
      BY <2>16, EndingIs, NoLocals
    <3>2. /\ cache' \subseteq cache \cup cy.page
          /\ wm' = wm \/ wm' = cy.w \/ wm' = 0
          /\ wmIds' \subseteq wmIds
      <4> USE DEF Ingest
      <4>1. CASE Success \/ CycleFails \/ CycleEnds
        BY <4>1 DEF Success, CycleFails, CycleEnds
      <4>2. CASE EndsMidCommit
        BY <4>2 DEF EndsMidCommit
      <4>3. CASE ForgetLibrary
        BY <4>3 DEF ForgetLibrary
      <4> QED
        BY <2>16, <4>1, <4>2, <4>3 DEF Interruption
    <3> QED
      BY <2>0, <3>1, <3>2, <1>0, KnownKeeps DEF KnownInv
  <2> QED
    BY <1>5, <2>1, <2>2, <2>3, <2>4, <2>5, <2>6, <2>7, <2>8, <2>9, <2>10, <2>11, <2>12, <2>13,
       <2>14, <2>15, <2>16 DEF Working, CycleStep
<1> QED
  BY <1>1, <1>2, <1>3, <1>4, <1>5, StepKinds

---------------------------------------------------------------------------
(* The watermark.                                                          *)

Marking == BootWalk \cup IncWalk \cup {"bootMark", "bootCapped", "incMark"}

\* A walk's own watermark starts at the stored one and only moves on; neither
\* carries the identity of a title that is newer than it.
MarkInv ==
  /\ \A t \in wmIds : Date[t] <= wm
  /\ pc \in Marking => /\ wm <= cy.w /\ (wm = cy.w => wmIds \subseteq cy.wIds)
                       /\ \A t \in cy.wIds : Date[t] <= cy.w

\* The watermark after a page.
LEMMA AdvancedMark ==
  ASSUME TypeInv, MarkInv, pc \in Marking, NEW S \in SUBSET Titles
  PROVE  /\ wm <= Newest(cy.w, S) /\ cy.w <= Newest(cy.w, S)
         /\ wm = Newest(cy.w, S) => wmIds \subseteq Advanced(cy, S).wIds
         /\ \A t \in Advanced(cy, S).wIds : Date[t] <= Newest(cy.w, S)
<1>0. cy \in Cycle /\ cy.w \in Nat /\ wm \in Nat /\ cy.wIds \in SUBSET Titles
  BY Locals DEF TypeInv, TypeOK
<1>1. Newest(cy.w, S) \in Nat /\ cy.w <= Newest(cy.w, S)
  BY <1>0, NewestIs
<1>2. Advanced(cy, S).wIds = IF Newest(cy.w, S) > cy.w
                             THEN {t \in S : Date[t] = Newest(cy.w, S)}
                             ELSE cy.wIds \cup {t \in S : Date[t] = Newest(cy.w, S)}
  BY <1>0, AdvancedIs
<1>3. \A t \in Titles : Date[t] \in Nat
  BY DateAssumption
<1> QED
  BY <1>0, <1>1, <1>2, <1>3 DEF MarkInv

\* MarkInv survives every step.
LEMMA MarkStep ==
  ASSUME TypeInv, KnownInv, MarkInv, [Next]_vars
  PROVE  MarkInv'
<1> USE DEF mark, boot
<1>0. wm \in Nat /\ wmIds \in SUBSET Titles /\ cy.w \in Nat /\ \A t \in Titles : Date[t] \in Nat
  BY Locals, DateAssumption DEF TypeInv, TypeOK
<1>1. ASSUME UNCHANGED <<wm, wmIds, pc, cy>> PROVE MarkInv'
  BY <1>1 DEF MarkInv
<1>2. ASSUME UNCHANGED <<wm, wmIds>>, pc' \notin Marking PROVE MarkInv'
  BY <1>2 DEF MarkInv
<1>3. ASSUME UNCHANGED <<wm, wmIds>>, pc' \in Marking, pc \in Marking, cy'.w = cy.w, cy'.wIds = cy.wIds
      PROVE  MarkInv'
  BY <1>3 DEF MarkInv
<1>4. ASSUME UNCHANGED <<wm, wmIds>>, cy'.w = wm, cy'.wIds = wmIds PROVE MarkInv'
  BY <1>0, <1>4 DEF MarkInv
<1>5. ASSUME NEW S \in SUBSET Titles, UNCHANGED <<wm, wmIds>>, pc \in Marking,
             cy'.w = Newest(cy.w, S), cy'.wIds = Advanced(cy, S).wIds
      PROVE  MarkInv'
  <2>1. wm <= cy'.w /\ (wm = cy'.w => wmIds \subseteq cy'.wIds) /\ \A t \in cy'.wIds : Date[t] <= cy'.w
    BY <1>5, AdvancedMark
  <2> QED
    BY <1>5, <2>1 DEF MarkInv
<1>6. CASE OtherIngests
  BY <1>1, <1>6 DEF OtherIngests
<1>7. ASSUME NEW t \in Titles, OtherForgets(t) PROVE MarkInv'
  BY <1>1, <1>7 DEF OtherForgets
<1>8. CASE Working
  <2> USE DEF Marking, BootWalk, IncWalk
  <2>1. CASE Start
    BY <1>2, <2>1, StartIs DEF Start
  <2>2. CASE ListLibraries
    BY <1>2, <2>2, ListLibrariesIs DEF ListLibraries
  <2>3. CASE RestartBootstrap
    BY <1>4, <2>3, RestartIs DEF RestartBootstrap
  <2>4. CASE BootFetch
    <3> DEFINE S == Page(cy.at, PageSize)
    <3>1. S \in SUBSET Titles
      BY DEF Page, TypeInv, TypeOK
    <3>2. /\ pc = "bootFetch"
          /\ \/ pc' \in {"bootCapped", "bootMark"} /\ cy' = cy
             \/ cy'.w = Newest(cy.w, S) /\ cy'.wIds = Advanced(cy, S).wIds
      BY <2>4, BootFetchIs
    <3>3. UNCHANGED <<wm, wmIds>>
      BY <2>4 DEF BootFetch
    <3> HIDE DEF S
    <3> QED
      BY <1>3, <1>5, <3>1, <3>2, <3>3
  <2>5. CASE BootCommit
    BY <1>3, <2>5, BootCommitIs DEF BootCommit
  <2>6. CASE BootMark
    <3>1. \/ UNCHANGED <<wm, wmIds>>
          \/ wm' = cy.w /\ wmIds' = cy.wIds
      BY <2>6 DEF BootMark
    <3>2. \A t \in wmIds' : Date[t] <= wm'
      BY <2>6, <3>1 DEF MarkInv, BootMark
    <3>3. pc' = "bootFinish" \/ (cy'.w = wm' /\ cy'.wIds = wmIds')
      BY <2>6, BootMarkIs
    <3>4. wm' \in Nat
      BY <3>1, <1>0
    <3> QED
      BY <3>2, <3>3, <3>4 DEF MarkInv
  <2>7. CASE BootFinish
    BY <1>4, <2>7, BootFinishIs DEF BootFinish
  <2>8. CASE IncFetch
    <3> DEFINE S == PageDown(cy.at, PageSize)
    <3>1. S \in SUBSET Titles
      BY DEF PageDown, TypeInv, TypeOK
    <3>2. /\ pc = "incFetch"
          /\ \/ pc' = "incMark" /\ cy' = cy
             \/ cy'.w = Newest(cy.w, S) /\ cy'.wIds = Advanced(cy, S).wIds
      BY <2>8, IncFetchIs
    <3>3. UNCHANGED <<wm, wmIds>>
      BY <2>8 DEF IncFetch
    <3> HIDE DEF S
    <3> QED
      BY <1>3, <1>5, <3>1, <3>2, <3>3
  <2>9. CASE IncCommit
    BY <1>3, <2>9, IncCommitIs DEF IncCommit
  <2>10. CASE IncMark
    <3>1. \/ UNCHANGED <<wm, wmIds>>
          \/ wm' = cy.w /\ wmIds' = cy.wIds
      BY <2>10 DEF IncMark
    <3>2. \A t \in wmIds' : Date[t] <= wm'
      BY <2>10, <3>1 DEF MarkInv, IncMark
    <3> QED
      BY <2>10, <3>2, IncMarkIs DEF MarkInv
  <2>11. CASE SweepGate \/ IdFetch \/ IdCommit \/ ApplyVerdict \/ TouchSweep
    <3>1. UNCHANGED <<wm, wmIds>> /\ pc' \in {"success", "idFetch", "verdict", "idCommit", "swept"}
      BY <2>11 DEF SweepGate, IdFetch, IdCommit, ApplyVerdict, TouchSweep, Go
    <3> QED
      BY <1>2, <3>1
  <2>12. CASE Success \/ Interruption
    <3>1. pc' \notin Marking
      BY <2>12, EndingIs
    <3>2. CASE Success \/ CycleFails \/ CycleEnds
      BY <1>2, <3>1, <3>2 DEF Success, CycleFails, CycleEnds
    <3>3. CASE EndsMidCommit
      <4>1. wmIds' = wmIds /\ (wm' = wm \/ (wm' = cy.w /\ pc \in Marking))
        BY <3>3 DEF EndsMidCommit
      <4> QED
        BY <1>0, <3>1, <4>1 DEF MarkInv
    <3>4. CASE ForgetLibrary
      BY <3>1, <3>4 DEF ForgetLibrary, MarkInv
    <3> QED
      BY <2>12, <3>2, <3>3, <3>4 DEF Interruption
  <2> QED
    BY <1>8, <2>1, <2>2, <2>3, <2>4, <2>5, <2>6, <2>7, <2>8, <2>9, <2>10, <2>11, <2>12
    DEF Working, CycleStep
<1> QED
  BY <1>1, <1>6, <1>7, <1>8, StepKinds DEF ServerMoves, Quiet

---------------------------------------------------------------------------
(* No title is lost sight of.                                              *)

\* Past the watermark that the walk under way will leave.
Ahead(t) == Date[t] > cy.w \/ (Date[t] = cy.w /\ t \notin cy.wIds)

Uncached == listed \ cache

\* A resumed bootstrap reaches what is not in the cache; once it is done, the
\* watermark lies before that.
ReachInv ==
  /\ ~done => \A t \in Uncached : Rank(listed, t) >= offset \/ t \in missed
  /\ done => \A t \in Uncached : Candidate(t) \/ t \in missed

\* What a bootstrap walk has not read lies ahead of it; the page it takes for
\* the last is the last but for titles added since.
BootInv ==
  /\ pc = "bootCommit" => \A t \in Uncached \ cy.page :
       /\ Rank(listed, t) >= NextAt \/ t \in missed
       /\ BootLast => Ahead(t) \/ t \in missed
  /\ pc = "bootMark" => \A t \in Uncached : Ahead(t) \/ t \in missed
  /\ pc = "bootFinish" => \A t \in Uncached : Candidate(t) \/ t \in missed

\* The same of an incremental walk, newest first, behind a finished bootstrap.
IncInv ==
  /\ pc = "incFetch" /\ done => \A t \in Uncached :
       Ahead(t) \/ t \in missed \/ RankDown(listed, t) >= cy.at
  /\ pc = "incCommit" /\ done => \A t \in Uncached \ cy.page :
       \/ Ahead(t) \/ t \in missed
       \/ /\ RankDown(listed, t) >= NextAt /\ (\A x \in cy.page : t < x)
          /\ Cardinality(cy.page) >= PageSize
  /\ pc = "incMark" /\ done => \A t \in Uncached : Ahead(t) \/ t \in missed

\* A new title lies ahead of every watermark.
LEMMA NewIsAhead ==
  ASSUME TypeInv, KnownInv, NEW t \in Titles \ Old
  PROVE  Candidate(t) /\ Ahead(t)
<1>1. wm \in Nat /\ cy.w \in Nat /\ Date[t] \in Nat
  BY Locals, DateAssumption DEF TypeInv, TypeOK
<1> QED
  BY <1>1 DEF KnownInv, Candidate, Ahead

\* When a walk's watermark is stored, what it was ahead of is a candidate.
LEMMA AheadIsCandidate ==
  ASSUME TypeInv, MarkInv, pc \in Marking,
         IF cy.w = 0 THEN UNCHANGED mark ELSE wm' = cy.w /\ wmIds' = cy.wIds,
         NEW t \in Titles, Ahead(t)
  PROVE  Candidate(t)'
<1>1. wm \in Nat /\ cy.w \in Nat /\ Date[t] \in Nat \ {0}
  BY Locals, DateAssumption DEF TypeInv, TypeOK
<1> QED
  BY <1>1 DEF MarkInv, Candidate, Ahead, mark

\* What lies ahead of a watermark stays so when the walk reads older titles.
LEMMA AheadStays ==
  ASSUME TypeInv, NEW S \in SUBSET Titles, NEW t \in Titles, Ahead(t), \A x \in S : x < t,
         cy'.w = Newest(cy.w, S), cy'.wIds = Advanced(cy, S).wIds
  PROVE  Ahead(t)'
<1>0. cy \in Cycle /\ cy.w \in Nat /\ \A x \in Titles : Date[x] \in Nat
  BY Locals, DateAssumption DEF TypeInv, TypeOK
<1>1. \A x \in S : Date[x] <= Date[t] /\ t \notin S
  <2>1. \A x \in Titles : x \in Nat
    BY SizesAssumption DEF Titles
  <2>2. \A x \in Titles : x < t => Date[x] <= Date[t]
    BY DateAssumption
  <2> QED
    BY <2>1, <2>2
<1>2. /\ Newest(cy.w, S) \in Nat /\ cy.w <= Newest(cy.w, S)
      /\ Newest(cy.w, S) = cy.w \/ \E x \in S : Newest(cy.w, S) = Date[x]
  BY <1>0, NewestIs
<1>3. Advanced(cy, S).wIds = IF Newest(cy.w, S) > cy.w
                             THEN {x \in S : Date[x] = Newest(cy.w, S)}
                             ELSE cy.wIds \cup {x \in S : Date[x] = Newest(cy.w, S)}
  BY <1>0, AdvancedIs
<1>4. Newest(cy.w, S) <= Date[t]
  BY <1>0, <1>1, <1>2 DEF Ahead
<1> DEFINE w == Newest(cy.w, S)
           ids == Advanced(cy, S).wIds
<1>5. w = Date[t] => t \notin ids
  BY <1>0, <1>1, <1>2, <1>3 DEF Ahead
<1>6. w \in Nat /\ w <= Date[t] /\ Date[t] \in Nat
  BY <1>0, <1>2, <1>4
<1> HIDE DEF w, ids
<1>7. cy'.w = w /\ cy'.wIds = ids
  BY DEF w, ids
<1> QED
  BY <1>5, <1>6, <1>7 DEF Ahead

\* When the server's titles move, what a walk loses is remembered as missed.
LEMMA MissedIs ==
  ASSUME TypeInv, NEW S \in SUBSET Titles, ServerMoves(S), NEW t \in S, t \notin cache
  PROVE  /\ t \in missed => t \in missed'
         /\ ~done /\ (t \in listed => Rank(listed, t) >= offset) => Rank(S, t) >= offset \/ t \in missed'
         /\ pc \in BootWalk /\ (t \in listed => Rank(listed, t) >= NextAt)
              => Rank(S, t) >= NextAt \/ t \in missed'
         /\ pc \in IncWalk /\ t \in listed /\ RankDown(listed, t) >= NextAt
              => RankDown(S, t) >= NextAt \/ t \in missed'
<1>0. /\ Rank(S, t) \in Nat /\ RankDown(S, t) \in Nat /\ offset \in Nat /\ NextAt \in Nat
  <2>1. Rank(S, t) \in Nat /\ RankDown(S, t) \in Nat
    BY RankPlaces
  <2>2. offset \in 0 .. MaxTitle /\ NextAt \in 0 .. MaxTitle
    BY Locals DEF TypeInv, TypeOK
  <2> QED
    BY <2>1, <2>2, SizesAssumption
<1>1. missed' = (missed \cup ((BootMisses(S) \cup IncMisses(S)) \ cache)) \cap S
  BY DEF ServerMoves, ServerBecomes
<1>2. ASSUME NEW from \in Nat, t \in listed => Rank(listed, t) >= from
      PROVE  Rank(S, t) >= from \/ t \in SlidUp(from, S)
  BY <1>0, <1>2 DEF SlidUp
<1>3. ASSUME NEW from \in Nat, t \in listed, RankDown(listed, t) >= from
      PROVE  RankDown(S, t) >= from \/ t \in SlidDown(from, S)
  BY <1>0, <1>3 DEF SlidDown
<1>4. ~done => SlidUp(offset, S) \subseteq BootMisses(S)
  BY DEF BootMisses
<1>5. pc \in BootWalk => SlidUp(NextAt, S) \subseteq BootMisses(S)
  BY DEF BootMisses
<1>6. pc \in IncWalk => SlidDown(NextAt, S) \subseteq IncMisses(S)
  BY DEF IncMisses
<1> QED
  BY <1>0, <1>1, <1>2, <1>3, <1>4, <1>5, <1>6

\* What the server's move means for a title that is not in the cache.
LEMMA MovedIs ==
  ASSUME TypeInv, KnownInv, NEW S \in SUBSET Titles, ServerMoves(S)
  PROVE  /\ listed' = S /\ NextAt' = NextAt /\ Uncached' = S \ cache
         /\ \A t \in S : t \in listed \/ t \in Titles \ Old
         /\ \A t \in Titles : (Candidate(t)' <=> Candidate(t)) /\ (Ahead(t)' <=> Ahead(t))
         /\ BootLast' <=> BootLast
         /\ UNCHANGED <<cache, done, offset, wm, wmIds, owed, emptyAt, pc, cy, sock, empties>>
<1>1. listed' = S /\ UNCHANGED <<cache, done, offset, wm, wmIds, owed, emptyAt, pc, cy, sock, empties>>
  BY DEF ServerMoves, ServerBecomes
<1>2. \A t \in S : t \in listed \/ t \in Titles \ Old
  BY DEF ServerMoves
<1> QED
  BY <1>1, <1>2 DEF NextAt, Uncached, Candidate, Ahead, BootLast

\* What the identity walk has not seen lies ahead of it, was moved behind it
\* or was added since; so that a complete answer names all that stayed.
IdInv ==
  /\ pc \in IdWalk \cup {"verdict"} =>
       /\ stable \subseteq listed
       /\ \A t \in listed : t \in stable \/ t \in unseen \/ Candidate(t)
  /\ pc = "sweepGate" => cy.at = 0
  /\ pc = "idFetch" => \A t \in stable : t \in cy.seen \/ Rank(listed, t) >= cy.at
  /\ pc = "idCommit" => \A t \in stable : t \in cy.seen \/
       (Rank(listed, t) >= NextAt /\ Cardinality(cy.page) >= IdPageSize)
  /\ pc = "verdict" => /\ cy.answer # "none"
                       /\ cy.answer \in {"listed", "zero"} => stable \subseteq cy.seen

\* A cycle that passed its sweep by owes none, unless it could not trust the
\* answer.
SweptInv == pc \in {"swept", "success"} /\ owed /\ ~cy.initial => cy.answer \notin {"none", "listed"}

\* The stored time of an empty answer is that of one no walk contradicted.
EmptyInv == emptyAt # Never => emptyAt \in empties

IInv == /\ TypeInv /\ KnownInv /\ MarkInv /\ ReachInv /\ BootInv /\ IncInv /\ IdInv
        /\ SweptInv /\ EmptyInv

\* The invariant holds at first.
LEMMA InitIInv == Init => IInv
<1> SUFFICES ASSUME Init PROVE IInv
  OBVIOUS
<1>1. TypeInv
  BY InitTypes
<1>2. KnownInv
  <2>1. PICK n \in 0 .. MaxTitle : listed = 1 .. n /\ next = n + 1
    BY DEF Init
  <2>2. listed \subseteq Old /\ \A u \in Titles : Date[u] \in Nat
    BY <2>1, DateAssumption DEF Old
  <2> QED
    BY <2>2 DEF Init, KnownInv, NoCycle
<1>3. ReachInv
  <2>1. \A t \in listed : Rank(listed, t) \in Nat
    BY <1>1, RankPlaces DEF TypeInv, TypeOK
  <2> QED
    BY <2>1 DEF Init, ReachInv, Uncached
<1> QED
  BY <1>1, <1>2, <1>3 DEF Init, IInv, MarkInv, BootInv, IncInv, IdInv, SweptInv, EmptyInv,
     Marking, BootWalk, IncWalk, IdWalk, NoCycle

\* Steps of others than the worker and the server.
LEMMA OthersStep ==
  ASSUME IInv, OtherIngests \/ (\E t \in Titles : OtherForgets(t)) \/ Quiet
  PROVE  ReachInv' /\ BootInv' /\ IncInv' /\ IdInv' /\ SweptInv' /\ EmptyInv'
<1> DEFINE X == sock
<1> USE DEF server, boot, mark, sweep, walk, ghosts
<1>1. /\ UNCHANGED <<listed, done, offset, wm, wmIds, owed, emptyAt, pc, cy, stable, unseen, empties>>
      /\ \/ Uncached' = Uncached /\ missed' = missed
         \/ Uncached' = Uncached \ sock /\ missed' = missed \ sock
  <2>1. CASE OtherIngests
    BY <2>1 DEF OtherIngests, Ingest, Uncached
  <2>2. ASSUME NEW t \in Titles, OtherForgets(t) PROVE <1>1!1 /\ Uncached' = Uncached /\ missed' = missed
    BY <2>2 DEF OtherForgets, Uncached
  <2>3. CASE Quiet
    BY <2>3 DEF Quiet, Uncached
  <2> QED
    BY <2>1, <2>2, <2>3
<1>2. NextAt' = NextAt /\ (BootLast' <=> BootLast)
  BY <1>1 DEF NextAt, BootLast
<1>3. ASSUME NEW t \in Titles PROVE (Candidate(t)' <=> Candidate(t)) /\ (Ahead(t)' <=> Ahead(t))
  BY <1>1 DEF Candidate, Ahead
<1>4. /\ Uncached' \subseteq Uncached /\ Uncached \subseteq Titles
      /\ \A t \in Uncached' : t \in missed => t \in missed'
  BY <1>1 DEF Uncached, IInv, TypeInv, TypeOK
<1>5. ReachInv'
  BY <1>1, <1>3, <1>4 DEF IInv, ReachInv
<1>6. BootInv'
  BY <1>1, <1>2, <1>3, <1>4 DEF IInv, BootInv
<1>7. IncInv'
  BY <1>1, <1>2, <1>3, <1>4 DEF IInv, IncInv
<1>8. IdInv'
  <2>1. listed \subseteq Titles
    BY DEF IInv, TypeInv, TypeOK
  <2> QED
    BY <1>1, <1>2, <1>3, <2>1 DEF IInv, IdInv
<1>9. SweptInv' /\ EmptyInv'
  BY <1>1 DEF IInv, SweptInv, EmptyInv
<1> QED
  BY <1>5, <1>6, <1>7, <1>8, <1>9

\* Steps of the server.
LEMMA ServerKeeps ==
  ASSUME IInv, NEW S \in SUBSET Titles, ServerMoves(S)
  PROVE  ReachInv' /\ BootInv' /\ IncInv' /\ IdInv' /\ SweptInv' /\ EmptyInv'
<1>0. /\ TypeInv /\ KnownInv /\ WalkInv /\ ReachInv /\ BootInv /\ IncInv /\ IdInv
      /\ cy.page = {} => NextAt = cy.at
  BY NextAtIs DEF IInv, TypeInv
<1>1. /\ listed' = S /\ NextAt' = NextAt /\ Uncached' = S \ cache
      /\ \A t \in S : t \in listed \/ t \in Titles \ Old
      /\ \A t \in Titles : (Candidate(t)' <=> Candidate(t)) /\ (Ahead(t)' <=> Ahead(t))
      /\ BootLast' <=> BootLast
      /\ UNCHANGED <<cache, done, offset, wm, wmIds, owed, emptyAt, pc, cy, sock, empties>>
  BY <1>0, MovedIs
<1>2. ASSUME NEW t \in S \ cache
      PROVE  /\ t \in missed => t \in missed'
             /\ ~done /\ (t \in listed => Rank(listed, t) >= offset) => Rank(S, t) >= offset \/ t \in missed'
             /\ pc \in BootWalk /\ (t \in listed => Rank(listed, t) >= NextAt)
                  => Rank(S, t) >= NextAt \/ t \in missed'
             /\ pc \in IncWalk /\ t \in listed /\ RankDown(listed, t) >= NextAt
                  => RankDown(S, t) >= NextAt \/ t \in missed'
  BY <1>0, MissedIs
<1>3. ASSUME NEW t \in S \ cache
      PROVE  t \in Titles /\ (t \in Uncached \/ (t \notin listed /\ Candidate(t) /\ Ahead(t)))
  BY <1>0, <1>1, NewIsAhead DEF Uncached
<1>4. ReachInv'
  <2>1. ASSUME NEW t \in S \ cache, ~done PROVE Rank(S, t) >= offset \/ t \in missed'
    BY <1>0, <1>2, <1>3, <2>1 DEF ReachInv
  <2>2. ASSUME NEW t \in S \ cache, done PROVE Candidate(t) \/ t \in missed'
    BY <1>0, <1>2, <1>3, <2>2 DEF ReachInv
  <2> QED
    BY <1>1, <1>3, <2>1, <2>2 DEF ReachInv
<1>5. BootInv'
  <2>1. ASSUME NEW t \in S \ cache, t \notin cy.page, pc = "bootCommit"
        PROVE  /\ Rank(S, t) >= NextAt \/ t \in missed'
               /\ BootLast => Ahead(t) \/ t \in missed'
    BY <1>0, <1>2, <1>3, <2>1 DEF BootInv, BootWalk
  <2>2. ASSUME NEW t \in S \ cache, pc = "bootMark" PROVE Ahead(t) \/ t \in missed'
    BY <1>0, <1>2, <1>3, <2>2 DEF BootInv
  <2>3. ASSUME NEW t \in S \ cache, pc = "bootFinish" PROVE Candidate(t) \/ t \in missed'
    BY <1>0, <1>2, <1>3, <2>3 DEF BootInv
  <2> QED
    BY <1>1, <1>3, <2>1, <2>2, <2>3 DEF BootInv
<1>6. IncInv'
  <2>1. ASSUME NEW t \in S \ cache, pc = "incFetch", done
        PROVE  Ahead(t) \/ t \in missed' \/ RankDown(S, t) >= cy.at
    <3>1. NextAt = cy.at
      BY <1>0, <2>1 DEF WalkInv, Committing
    <3> QED
      BY <1>0, <1>2, <1>3, <2>1, <3>1 DEF IncInv, IncWalk, Uncached
  <2>2. ASSUME NEW t \in S \ cache, t \notin cy.page, pc = "incCommit", done
        PROVE  \/ Ahead(t) \/ t \in missed'
               \/ /\ RankDown(S, t) >= NextAt /\ (\A x \in cy.page : t < x)
                  /\ Cardinality(cy.page) >= PageSize
    BY <1>0, <1>2, <1>3, <2>2 DEF IncInv, IncWalk, Uncached
  <2>3. ASSUME NEW t \in S \ cache, pc = "incMark", done PROVE Ahead(t) \/ t \in missed'
    BY <1>0, <1>2, <1>3, <2>3 DEF IncInv
  <2> QED
    BY <1>1, <1>3, <2>1, <2>2, <2>3 DEF IncInv
<1>7. IdInv'
  <2>0. stable' = (stable \cap S) \ UnseenTo(S) /\ unseen' = (unseen \cup UnseenTo(S)) \cap S
    BY DEF ServerMoves, ServerBecomes
  <2>1. ASSUME pc \in IdWalk \cup {"verdict"}, NEW t \in S PROVE t \in stable' \/ t \in unseen' \/ Candidate(t)
    BY <1>0, <1>1, <2>0, <2>1, NewIsAhead DEF IdInv
  <2>2. ASSUME NEW t \in stable', pc \in IdWalk, Rank(listed, t) >= NextAt, t \in listed
        PROVE  Rank(S, t) >= NextAt
    <3>1. t \in S /\ t \notin SlidUp(NextAt, S)
      BY <2>0, <2>2 DEF UnseenTo
    <3>2. Rank(S, t) \in Nat /\ NextAt \in Nat
      BY <1>0, <3>1, RankPlaces, NextAtIs DEF TypeInv
    <3> QED
      BY <2>2, <3>1, <3>2 DEF SlidUp
  <2>3. ASSUME NEW t \in stable', pc = "idFetch" PROVE t \in cy.seen \/ Rank(S, t) >= cy.at
    <3>1. NextAt = cy.at
      BY <1>0, <2>3 DEF WalkInv, Committing
    <3>2. t \in stable /\ t \in listed
      BY <1>0, <2>0, <2>3 DEF IdInv, IdWalk
    <3> QED
      BY <1>0, <2>2, <2>3, <3>1, <3>2 DEF IdInv, IdWalk
  <2>4. ASSUME NEW t \in stable', pc = "idCommit"
        PROVE  t \in cy.seen \/ (Rank(S, t) >= NextAt /\ Cardinality(cy.page) >= IdPageSize)
    <3>1. t \in stable /\ t \in listed
      BY <1>0, <2>0, <2>4 DEF IdInv, IdWalk
    <3> QED
      BY <1>0, <2>2, <2>4, <3>1 DEF IdInv, IdWalk
  <2>5. pc = "verdict" => cy.answer # "none" /\ (cy.answer \in {"listed", "zero"} => stable' \subseteq cy.seen)
    BY <1>0, <2>0 DEF IdInv
  <2>6. stable' \subseteq S /\ (pc = "sweepGate" => cy.at = 0)
    BY <1>0, <2>0 DEF IdInv
  <2> QED
    BY <1>1, <2>1, <2>3, <2>4, <2>5, <2>6 DEF IdInv
<1>8. SweptInv' /\ EmptyInv'
  BY <1>1 DEF IInv, SweptInv, EmptyInv
<1> QED
  BY <1>4, <1>5, <1>6, <1>7, <1>8


---------------------------------------------------------------------------
(* The worker's steps.                                                     *)

\* What a page of the bootstrap leaves out.
LEMMA BootPage ==
  ASSUME IInv, pc = "bootFetch", NEW S, S = Page(cy.at, PageSize), NEW t \in Uncached \ S
  PROVE  /\ Rank(listed, t) \in Nat /\ Rank(listed, t) < Cardinality(listed)
         /\ Cardinality(S) \in Nat /\ Cardinality(S) <= PageSize /\ Cardinality(listed) \in Nat
         /\ Rank(listed, t) >= cy.at + PageSize \/ t \in missed
         /\ S = {} \/ Cardinality(S) < PageSize => t \in missed
<1>1. /\ cy.at \in Nat /\ listed \in SUBSET Titles /\ cy.at = offset /\ done = FALSE
      /\ PageSize \in Nat \ {0} /\ t \in listed \ S /\ t \in Uncached
  BY Locals, SizesAssumption DEF IInv, TypeInv, TypeOK, WalkInv, BootWalk, Booting, Uncached
<1>2. Rank(listed, t) >= cy.at \/ t \in missed
  BY <1>1 DEF IInv, ReachInv
<1>3. /\ Cardinality(S) \in Nat /\ Cardinality(S) <= PageSize /\ Cardinality(listed) \in Nat
      /\ Rank(listed, t) \in Nat /\ Rank(listed, t) < Cardinality(listed)
      /\ Rank(listed, t) < cy.at \/ Rank(listed, t) >= cy.at + PageSize
      /\ S = {} => Rank(listed, t) < cy.at
      /\ Cardinality(S) < PageSize => Rank(listed, t) < cy.at + PageSize
  BY <1>1, PageFacts
<1> QED
  BY <1>1, <1>2, <1>3

\* BootInv survives the worker's steps.
LEMMA BootStep ==
  ASSUME IInv, Working, TypeInv'
  PROVE  BootInv'
<1> USE DEF boot, mark
<1>0. TypeInv /\ listed' = listed /\ listed \in SUBSET Titles
  BY WorkingApart DEF IInv, TypeInv, TypeOK
<1>1. ASSUME pc' \notin {"bootCommit", "bootMark", "bootFinish"} PROVE BootInv'
  BY <1>1 DEF BootInv
<1>2. CASE BootFetch
  <2> DEFINE S == Page(cy.at, PageSize)
  <2>0. S = Page(cy.at, PageSize) /\ cache' = cache /\ missed' = missed
    BY <1>2 DEF BootFetch, ghosts
  <2> HIDE DEF S
  <2>1. /\ pc = "bootFetch" /\ cy'.at = cy.at /\ cy.page = {}
        /\ \/ pc' = "bootCapped"
           \/ pc' = "bootMark" /\ S = {}
           \/ pc' = "bootCommit" /\ cy'.page = S /\ cy'.total = Cardinality(listed)
    BY <1>0, <1>2, <2>0, BootFetchIs
  <2>2. Uncached' = Uncached
    BY <1>0, <2>0 DEF Uncached
  <2>3. CASE pc' = "bootMark" /\ S = {}
    <3>1. \A t \in Uncached : t \in missed
      BY <2>0, <2>1, <2>3, BootPage
    <3> QED
      BY <2>0, <2>2, <2>3, <3>1 DEF BootInv
  <2>4. CASE pc' = "bootCommit" /\ cy'.page = S /\ cy'.total = Cardinality(listed)
    <3> DEFINE at == cy.at
               n == Cardinality(S)
               all == Cardinality(listed)
    <3>1. at \in Nat /\ NextAt' = at + n /\ PageSize \in Nat
      BY <1>0, <2>1, <2>4, Locals, SizesAssumption DEF NextAt
    <3>2. BootLast' <=> at + n >= all \/ n < PageSize
      BY <2>4, <3>1 DEF BootLast
    <3>3. ASSUME NEW t \in Uncached \ S
          PROVE  /\ Rank(listed, t) >= at + n \/ t \in missed
                 /\ at + n >= all \/ n < PageSize => t \in missed
      <4> DEFINE k == Rank(listed, t)
      <4>1. /\ k \in Nat /\ k < all /\ n \in Nat /\ n <= PageSize /\ all \in Nat
            /\ k >= at + PageSize \/ t \in missed
            /\ n < PageSize => t \in missed
        BY <2>0, <2>1, <3>3, BootPage
      <4> HIDE DEF k, at, n, all
      <4>2. k >= at + n \/ t \in missed
        BY <3>1, <4>1
      <4>3. at + n >= all => t \in missed
        BY <3>1, <4>1
      <4> QED
        BY <4>1, <4>2, <4>3 DEF k
    <3> HIDE DEF at, n, all
    <3>4. \A t \in Uncached' \ cy'.page :
            /\ Rank(listed', t) >= NextAt' \/ t \in missed'
            /\ BootLast' => t \in missed'
      BY <1>0, <2>0, <2>2, <2>4, <3>1, <3>2, <3>3
    <3> QED
      BY <2>4, <3>4 DEF BootInv
  <2> QED
    BY <1>1, <2>1, <2>3, <2>4
<1>3. CASE BootCommit
  <2>1. /\ pc = "bootCommit" /\ cy'.w = cy.w /\ cy'.wIds = cy.wIds
        /\ \/ pc' = "bootFetch"
           \/ pc' = "bootMark" /\ BootLast
    BY <1>0, <1>3, BootCommitIs
  <2>2. Uncached' = Uncached \ cy.page /\ missed' = missed \ cy.page
    BY <1>0, <1>3 DEF BootCommit, Ingest, Uncached
  <2>3. \A t \in Titles : Ahead(t)' <=> Ahead(t)
    BY <2>1 DEF Ahead
  <2>4. CASE pc' = "bootMark" /\ BootLast
    <3>1. \A t \in Uncached \ cy.page : Ahead(t) \/ t \in missed
      BY <2>1, <2>4 DEF IInv, BootInv
    <3>2. Uncached \subseteq Titles
      BY <1>0 DEF Uncached
    <3> QED
      BY <2>2, <2>3, <2>4, <3>1, <3>2 DEF BootInv
  <2> QED
    BY <1>1, <2>1, <2>4
<1>4. CASE BootMark
  <2>1. \/ pc = "bootMark" /\ pc' = "bootFinish"
        \/ pc' = "incFetch"
    BY <1>0, <1>4, BootMarkIs
  <2>2. CASE pc = "bootMark" /\ pc' = "bootFinish"
    <3>1. Uncached' = Uncached /\ missed' = missed
      BY <1>0, <1>4 DEF BootMark, ghosts, Uncached
    <3>2. IF cy.w = 0 THEN UNCHANGED mark ELSE wm' = cy.w /\ wmIds' = cy.wIds
      BY <1>4 DEF BootMark
    <3>3. pc \in Marking /\ MarkInv /\ Uncached \subseteq Titles
      BY <1>0, <2>2 DEF Marking, IInv, Uncached
    <3>4. \A t \in Uncached : Ahead(t) => Candidate(t)'
      BY <1>0, <3>2, <3>3, AheadIsCandidate
    <3>5. \A t \in Uncached : Ahead(t) \/ t \in missed
      BY <2>2 DEF IInv, BootInv
    <3>6. \A t \in Uncached' : Candidate(t)' \/ t \in missed'
      BY <3>1, <3>4, <3>5
    <3> QED
      BY <2>2, <3>6 DEF BootInv
  <2> QED
    BY <1>1, <2>1, <2>2
<1>5. CASE RestartBootstrap
  BY <1>0, <1>1, <1>5, RestartIs
<1>6. CASE Start \/ ListLibraries \/ BootFinish
  BY <1>0, <1>1, <1>6, StartIs, ListLibrariesIs, BootFinishIs
<1>7. CASE IncFetch \/ IncCommit \/ IncMark
  BY <1>0, <1>1, <1>7, IncFetchIs, IncCommitIs, IncMarkIs
<1>8. CASE SweepGate \/ IdFetch \/ IdCommit \/ ApplyVerdict \/ TouchSweep
  BY <1>1, <1>8 DEF SweepGate, IdFetch, IdCommit, ApplyVerdict, TouchSweep, Go
<1>9. CASE Success \/ Interruption
  BY <1>1, <1>9, EndingIs
<1> QED
  BY <1>2, <1>3, <1>4, <1>5, <1>6, <1>7, <1>8, <1>9 DEF Working, CycleStep

\* IncInv survives the worker's steps.
LEMMA IncStep ==
  ASSUME IInv, Working, TypeInv'
  PROVE  IncInv'
<1> USE DEF boot, mark
<1>0. TypeInv /\ listed' = listed /\ listed \in SUBSET Titles /\ Uncached \subseteq Titles
  BY WorkingApart DEF IInv, TypeInv, TypeOK, Uncached
<1>1. ASSUME ~done' \/ pc' \notin {"incFetch", "incCommit", "incMark"} PROVE IncInv'
  BY <1>1 DEF IncInv
<1>2. ASSUME pc' = "incFetch", cy'.at = 0 PROVE IncInv'
  <2>1. \A t \in listed : RankDown(listed, t) >= 0
    BY <1>0, RankPlaces
  <2> QED
    BY <1>0, <1>2, <2>1 DEF IncInv, Uncached
<1>3. CASE RestartBootstrap
  BY <1>0, <1>1, <1>2, <1>3, RestartIs
<1>4. CASE BootMark
  <2>1. ~done /\ done' = done
    BY <1>4 DEF BootMark, IInv, TypeInv, WalkInv, Booting
  <2> QED
    BY <1>1, <2>1
<1>5. CASE BootFinish
  BY <1>0, <1>2, <1>5, BootFinishIs
<1>6. CASE IncFetch
  <2> DEFINE S == PageDown(cy.at, PageSize)
             at == cy.at
  <2>0. S = PageDown(at, PageSize) /\ cache' = cache /\ done' = done /\ Uncached' = Uncached
    BY <1>0, <1>6 DEF IncFetch, Uncached
  <2>1. at \in Nat /\ PageSize \in Nat \ {0}
    BY <1>0, Locals, SizesAssumption
  <2> HIDE DEF S, at
  <2>2. /\ pc = "incFetch" /\ cy'.at = at /\ cy.page = {}
        /\ \/ pc' = "incMark" /\ cy' = cy /\ S = {} /\ missed \subseteq missed'
           \/ /\ pc' = "incMark" /\ cy' = cy
              /\ missed' = missed \cup {t \in listed \ cache : RankDown(listed, t) >= at}
           \/ /\ pc' = "incCommit" /\ S # {} /\ cy'.page = S /\ missed' = missed
              /\ cy'.w = Newest(cy.w, S) /\ cy'.wIds = Advanced(cy, S).wIds
    BY <1>0, <1>6, <2>0, IncFetchIs DEF at
  <2>3. done => \A t \in Uncached : Ahead(t) \/ t \in missed \/ RankDown(listed, t) >= at
    BY <2>2 DEF IInv, IncInv, at
  <2>4. /\ S \in SUBSET listed /\ Cardinality(S) \in Nat /\ Cardinality(S) <= PageSize
        /\ \A t \in listed : RankDown(listed, t) \in Nat
        /\ \A t \in listed \ S :
              \/ RankDown(listed, t) < at /\ (\A x \in S : x < t)
              \/ RankDown(listed, t) >= at + PageSize /\ (\A x \in S : t < x)
        /\ S = {} => \A t \in listed : RankDown(listed, t) < at
        /\ Cardinality(S) < PageSize => \A t \in listed : RankDown(listed, t) < at + PageSize
    <3>0. listed \in SUBSET Titles /\ at \in Nat /\ PageSize \in Nat \ {0} /\ S = PageDown(at, PageSize)
      BY <1>0, <2>0, <2>1
    <3>1. S \in SUBSET listed /\ Cardinality(S) \in Nat /\ Cardinality(S) <= PageSize
      BY ONLY <3>0, PageDownFacts
    <3>2. \A t \in listed : RankDown(listed, t) \in Nat
      BY ONLY <3>0, PageDownFacts
    <3>3. \A t \in listed \ S :
            \/ RankDown(listed, t) < at /\ (\A x \in S : x < t)
            \/ RankDown(listed, t) >= at + PageSize /\ (\A x \in S : t < x)
      BY ONLY <3>0, PageDownFacts
    <3>4. /\ S = {} => \A t \in listed : RankDown(listed, t) < at
          /\ Cardinality(S) < PageSize => \A t \in listed : RankDown(listed, t) < at + PageSize
      BY ONLY <3>0, PageDownFacts
    <3> QED
      BY <3>1, <3>2, <3>3, <3>4
  <2>5. CASE pc' = "incMark" /\ cy' = cy /\ S = {} /\ missed \subseteq missed'
    <3>1. done => \A t \in Uncached : Ahead(t) \/ t \in missed
      BY <2>1, <2>3, <2>4, <2>5 DEF Uncached
    <3> QED
      BY <2>0, <2>5, <3>1 DEF IncInv, Ahead
  <2>6. CASE /\ pc' = "incMark" /\ cy' = cy
             /\ missed' = missed \cup {t \in listed \ cache : RankDown(listed, t) >= at}
    <3>1. done => \A t \in Uncached : Ahead(t) \/ t \in missed'
      BY <2>3, <2>6 DEF Uncached
    <3> QED
      BY <2>0, <2>6, <3>1 DEF IncInv, Ahead
  <2>7. CASE /\ pc' = "incCommit" /\ S # {} /\ cy'.page = S /\ missed' = missed
             /\ cy'.w = Newest(cy.w, S) /\ cy'.wIds = Advanced(cy, S).wIds
    <3> DEFINE n == Cardinality(S)
    <3>1. NextAt' = at + n /\ n \in Nat /\ n <= PageSize
      BY <2>2, <2>4, <2>7 DEF NextAt
    <3>2. ASSUME done, NEW t \in Uncached \ S
          PROVE  \/ Ahead(t)' \/ t \in missed
                 \/ RankDown(listed, t) >= NextAt' /\ (\A x \in S : t < x) /\ n >= PageSize
      <4> DEFINE k == RankDown(listed, t)
      <4>0. t \in listed \ S /\ t \in Titles /\ S \in SUBSET Titles /\ k \in Nat
        BY <1>0, <2>4, <3>2 DEF Uncached
      <4>1. CASE k < at /\ \A x \in S : x < t
        <5>1. Ahead(t) \/ t \in missed
          BY <2>1, <2>3, <3>2, <4>0, <4>1
        <5>2. Ahead(t) => Ahead(t)'
          BY <1>0, <2>7, <4>0, <4>1, AheadStays
        <5> QED
          BY <5>1, <5>2
      <4>2. CASE k >= at + PageSize /\ \A x \in S : t < x
        <5>1. ~(n < PageSize)
          BY <2>1, <2>4, <4>0, <4>2
        <5> HIDE DEF k, n
        <5>2. k >= at + n /\ n >= PageSize
          BY <2>1, <3>1, <4>0, <4>2, <5>1
        <5> QED
          BY <3>1, <4>2, <5>2 DEF k
      <4> QED
        BY <2>4, <4>0, <4>1, <4>2
    <3> QED
      BY <1>0, <2>0, <2>7, <3>2 DEF IncInv
  <2> QED
    BY <2>2, <2>5, <2>6, <2>7
<1>7. CASE IncCommit
  <2> DEFINE X == {t \in cy.page : Candidate(t)}
  <2>1. /\ pc = "incCommit" /\ cy'.at = NextAt /\ cy'.w = cy.w /\ cy'.wIds = cy.wIds
        /\ \/ pc' = "incMark" /\ (Cardinality(cy.page) < PageSize \/ \E t \in cy.page : Date[t] < wm)
           \/ pc' = "incFetch"
    BY <1>0, <1>7, IncCommitIs
  <2>2. cache' = cache \cup X /\ missed' = missed \ X /\ done' = done
    BY <1>7 DEF IncCommit, Ingest
  <2>3. ASSUME NEW t \in Uncached', done
        PROVE  /\ t \in Uncached /\ (t \in missed => t \in missed') /\ (Ahead(t) => Ahead(t)')
               /\ t \in cy.page \/ ~Candidate(t) => t \in missed
    <3>1. t \in Uncached /\ t \notin X
      BY <1>0, <2>2, <2>3 DEF Uncached
    <3>2. ~Candidate(t) => t \in missed
      BY <2>3, <3>1 DEF IInv, ReachInv
    <3> QED
      BY <2>1, <2>2, <3>1, <3>2 DEF Ahead
  <2> HIDE DEF X
  <2>4. ASSUME NEW t \in Uncached', done
        PROVE  \/ Ahead(t)' \/ t \in missed'
               \/ /\ RankDown(listed, t) >= NextAt /\ (\A x \in cy.page : t < x)
                  /\ Cardinality(cy.page) >= PageSize
    BY <2>1, <2>3, <2>4 DEF IInv, IncInv
  <2>5. CASE pc' = "incFetch"
    BY <1>0, <2>1, <2>2, <2>4, <2>5 DEF IncInv
  <2>6. CASE pc' = "incMark" /\ (Cardinality(cy.page) < PageSize \/ \E t \in cy.page : Date[t] < wm)
    <3>1. ASSUME NEW t \in Uncached', done PROVE Ahead(t)' \/ t \in missed'
      <4>1. CASE (\A x \in cy.page : t < x) /\ Cardinality(cy.page) >= PageSize
        <5>1. PICK x \in cy.page : Date[x] < wm
          BY <1>0, <2>6, <4>1, Locals, SizesAssumption
        <5>2. t \in Titles /\ x \in Titles /\ t < x
          BY <1>0, <2>3, <3>1, <4>1, Locals
        <5>3. Date[t] <= Date[x] /\ Date[t] \in Nat /\ Date[x] \in Nat /\ wm \in Nat
          BY <1>0, <5>2, DateAssumption DEF TypeInv, TypeOK
        <5>4. ~Candidate(t)
          BY <5>1, <5>3 DEF Candidate
        <5> QED
          BY <2>3, <3>1, <5>4
      <4> QED
        BY <2>4, <3>1, <4>1
    <3> QED
      BY <2>2, <2>6, <3>1 DEF IncInv
  <2> QED
    BY <2>1, <2>5, <2>6
<1>8. CASE Start \/ ListLibraries \/ BootFetch \/ BootCommit
  BY <1>0, <1>1, <1>8, StartIs, ListLibrariesIs, BootFetchIs, BootCommitIs
<1>9. CASE IncMark
  BY <1>0, <1>1, <1>9, IncMarkIs
<1>10. CASE SweepGate \/ IdFetch \/ IdCommit \/ ApplyVerdict \/ TouchSweep
  BY <1>1, <1>10 DEF SweepGate, IdFetch, IdCommit, ApplyVerdict, TouchSweep, Go
<1>11. CASE Success \/ Interruption
  BY <1>1, <1>11, EndingIs
<1> QED
  BY <1>3, <1>4, <1>5, <1>6, <1>7, <1>8, <1>9, <1>10, <1>11 DEF Working, CycleStep

\* IdInv survives the worker's steps.
LEMMA IdStep ==
  ASSUME IInv, Working, TypeInv'
  PROVE  IdInv'
<1> USE DEF mark
<1>0. TypeInv /\ IdInv /\ listed' = listed /\ listed \in SUBSET Titles
  BY WorkingApart DEF IInv, TypeInv, TypeOK
<1>1. ASSUME pc' \notin {"sweepGate", "idFetch", "idCommit", "verdict"} PROVE IdInv'
  BY <1>1 DEF IdInv, IdWalk
<1>2. CASE Start \/ ListLibraries \/ RestartBootstrap \/ BootFetch
  BY <1>0, <1>1, <1>2, StartIs, ListLibrariesIs, RestartIs, BootFetchIs
<1>3. CASE BootCommit \/ BootMark \/ BootFinish
  BY <1>0, <1>1, <1>3, BootCommitIs, BootMarkIs, BootFinishIs
<1>4. CASE IncFetch \/ IncCommit
  BY <1>0, <1>1, <1>4, IncFetchIs, IncCommitIs
<1>5. CASE IncMark
  <2>1. pc' = "sweepGate" /\ cy'.at = 0
    BY <1>0, <1>5, IncMarkIs
  <2> QED
    BY <2>1 DEF IdInv, IdWalk
<1>6. CASE SweepGate
  <2>1. pc = "sweepGate" /\ cy.at = 0 /\ cy' = cy
        /\ (pc' = "success" \/ (pc' = "idFetch" /\ stable' = listed))
    BY <1>0, <1>6 DEF SweepGate, Go, IdInv
  <2>2. \A t \in listed : Rank(listed, t) >= 0
    BY <1>0, RankPlaces
  <2> QED
    BY <1>0, <1>1, <2>1, <2>2 DEF IdInv, IdWalk
<1>7. ASSUME pc \in IdWalk, UNCHANGED <<stable, unseen, wm, wmIds>>
      PROVE  stable' \subseteq listed /\ \A t \in listed' : t \in stable' \/ t \in unseen' \/ Candidate(t)'
  BY <1>0, <1>7 DEF IdInv, Candidate
<1>8. CASE IdFetch
  <2> DEFINE S == Page(cy.at, IdPageSize)
             at == cy.at
  <2>0. S = Page(at, IdPageSize) /\ UNCHANGED <<stable, unseen, wm, wmIds>> /\ pc \in IdWalk
    BY <1>8 DEF IdFetch, ghosts, walk, IdWalk
  <2>1. at \in Nat /\ IdPageSize \in Nat \ {0}
    BY <1>0, Locals, SizesAssumption
  <2> HIDE DEF S, at
  <2>2. /\ pc = "idFetch" /\ cy'.at = at /\ cy.page = {}
        /\ \/ pc' = "verdict" /\ cy'.seen = cy.seen /\ cy'.answer = "incomplete"
           \/ /\ pc' = "verdict" /\ cy'.seen = cy.seen /\ S = {}
              /\ cy'.answer \in {"listed", "zero", "notCounted"}
           \/ pc' = "idCommit" /\ S # {} /\ cy'.page = S /\ cy'.seen = cy.seen \cup S
    BY <1>0, <1>8, <2>0, IdFetchIs DEF at
  <2>3. \A t \in stable : t \in cy.seen \/ Rank(listed, t) >= at
    BY <1>0, <2>2 DEF IdInv, at
  <2>4. /\ S \in SUBSET listed /\ Cardinality(S) \in Nat /\ Cardinality(S) <= IdPageSize
        /\ \A t \in listed : Rank(listed, t) \in Nat
        /\ \A t \in listed \ S : Rank(listed, t) < at \/ Rank(listed, t) >= at + IdPageSize
        /\ S = {} => \A t \in listed : Rank(listed, t) < at
        /\ Cardinality(S) < IdPageSize => \A t \in listed : Rank(listed, t) < at + IdPageSize
    BY <1>0, <2>0, <2>1, PageFacts
  <2>5. stable \subseteq listed
    BY <1>0, <2>0 DEF IdInv
  <2>6. CASE pc' = "verdict" /\ cy'.seen = cy.seen /\ cy'.answer = "incomplete"
    BY <1>0, <1>7, <2>0, <2>6 DEF IdInv, IdWalk
  <2>7. CASE /\ pc' = "verdict" /\ cy'.seen = cy.seen /\ S = {}
             /\ cy'.answer \in {"listed", "zero", "notCounted"}
    <3>1. stable \subseteq cy.seen
      BY <2>1, <2>3, <2>4, <2>5, <2>7
    <3> QED
      BY <1>0, <1>7, <2>0, <2>7, <3>1 DEF IdInv, IdWalk
  <2>8. CASE pc' = "idCommit" /\ S # {} /\ cy'.page = S /\ cy'.seen = cy.seen \cup S
    <3> DEFINE n == Cardinality(S)
    <3>1. NextAt' = at + n /\ n \in Nat /\ n <= IdPageSize
      BY <2>2, <2>4, <2>8 DEF NextAt
    <3>2. ASSUME NEW t \in stable \ (cy.seen \cup S)
          PROVE  Rank(listed, t) >= NextAt' /\ n >= IdPageSize
      <4> DEFINE k == Rank(listed, t)
      <4>1. k \in Nat /\ k >= at + IdPageSize
        BY <2>1, <2>3, <2>4, <2>5, <3>2
      <4>2. ~(n < IdPageSize)
        BY <2>1, <2>4, <2>5, <4>1
      <4> HIDE DEF k, n
      <4>3. k >= at + n /\ n >= IdPageSize
        BY <2>1, <3>1, <4>1, <4>2
      <4> QED
        BY <3>1, <4>3 DEF k
    <3>3. \A t \in stable' : \/ t \in cy'.seen
                             \/ Rank(listed', t) >= NextAt' /\ Cardinality(cy'.page) >= IdPageSize
      BY <1>0, <2>0, <2>8, <3>2
    <3> QED
      BY <1>0, <1>7, <2>0, <2>8, <3>3 DEF IdInv, IdWalk
  <2> QED
    BY <2>2, <2>6, <2>7, <2>8
<1>9. CASE IdCommit
  <2>1. /\ pc = "idCommit" /\ cy'.at = NextAt /\ cy'.seen = cy.seen
        /\ \/ pc' = "verdict" /\ Cardinality(cy.page) < IdPageSize /\ cy'.answer = "listed"
           \/ pc' = "idFetch"
    BY <1>0, <1>9, IdCommitIs
  <2>2. UNCHANGED <<stable, unseen, wm, wmIds>> /\ pc \in IdWalk
    BY <1>9 DEF IdCommit, ghosts, walk, IdWalk
  <2>3. \A t \in stable : t \in cy.seen \/
          (Rank(listed, t) >= NextAt /\ Cardinality(cy.page) >= IdPageSize)
    BY <1>0, <2>1 DEF IdInv
  <2>4. CASE pc' = "verdict" /\ Cardinality(cy.page) < IdPageSize /\ cy'.answer = "listed"
    <3>1. stable \subseteq cy.seen
      BY <1>0, <2>3, <2>4, Locals, SizesAssumption
    <3> QED
      BY <1>0, <1>7, <2>1, <2>2, <2>4, <3>1 DEF IdInv, IdWalk
  <2>5. CASE pc' = "idFetch"
    BY <1>0, <1>7, <2>1, <2>2, <2>3, <2>5 DEF IdInv, IdWalk
  <2> QED
    BY <2>1, <2>4, <2>5
<1>10. CASE ApplyVerdict \/ TouchSweep
  BY <1>1, <1>10 DEF ApplyVerdict, TouchSweep, Go
<1>11. CASE Success \/ Interruption
  BY <1>1, <1>11, EndingIs
<1> QED
  BY <1>2, <1>3, <1>4, <1>5, <1>6, <1>8, <1>9, <1>10, <1>11 DEF Working, CycleStep

\* What sweep_verdict answers.
LEMMA VerdictIs ==
  ASSUME TypeInv, cy.answer # "none"
  PROVE  /\ SweepVerdict \in {"delete", "forget", "observe", "wait"}
         /\ cy.answer = "listed" => SweepVerdict = "delete"
         /\ SweepVerdict = "delete" => cy.answer \in {"listed", "zero"}
         /\ SweepVerdict \in {"observe", "wait"} => cy.answer = "zero"
         /\ cy.answer = "zero" /\ ~cy.noCat => SweepVerdict = EmptyVerdict
<1>1. cy.answer \in {"incomplete", "notCounted", "listed", "zero"}
  BY Locals DEF Answers
<1>2. EmptyVerdict \in {"delete", "observe", "wait"}
  BY DEF EmptyVerdict
<1> QED
  BY <1>1, <1>2 DEF SweepVerdict

\* ReachInv survives the worker's steps.
LEMMA ReachStep ==
  ASSUME IInv, Working, TypeInv'
  PROVE  ReachInv'
<1> USE DEF boot, mark, ghosts, outside, server
<1>0. /\ TypeInv /\ ReachInv /\ listed' = listed /\ listed \in SUBSET Titles /\ Uncached \subseteq Titles
      /\ \A t \in listed : Rank(listed, t) \in Nat /\ Rank(listed, t) >= 0
  BY WorkingApart, RankPlaces, SMTT(30) DEF IInv, TypeInv, TypeOK, Uncached
<1>1. ASSUME UNCHANGED <<cache, done, offset, wm, wmIds>>, missed \subseteq missed' PROVE ReachInv'
  BY <1>0, <1>1 DEF ReachInv, Uncached, Candidate
<1>2. ASSUME UNCHANGED <<cache, done, offset, missed>>, done = FALSE PROVE ReachInv'
  BY <1>0, <1>2 DEF ReachInv, Uncached
<1>3. ASSUME done' = FALSE, offset' = 0 PROVE ReachInv'
  BY <1>0, <1>3 DEF ReachInv, Uncached
<1>4. ASSUME UNCHANGED <<done, offset, wm, wmIds>>, NEW S, Ingest(S) PROVE ReachInv'
  <2>1. \A t \in Uncached' : t \in Uncached /\ t \notin S
    BY <1>0, <1>4 DEF Uncached, Ingest
  <2>2. missed' = missed \ S
    BY <1>4 DEF Ingest
  <2> QED
    BY <1>0, <1>4, <2>1, <2>2 DEF ReachInv, Candidate
<1>5. CASE Start \/ ListLibraries
  BY <1>1, <1>5 DEF Start, ListLibraries
<1>6. CASE RestartBootstrap
  <2>1. UNCHANGED <<cache, wm, wmIds, missed>>
    BY <1>6 DEF RestartBootstrap
  <2>2. (done' = FALSE /\ offset' = 0) \/ UNCHANGED <<done, offset>>
    BY <1>0, <1>6, RestartIs
  <2> QED
    BY <1>1, <1>3, <2>1, <2>2
<1>7. CASE BootFetch
  BY <1>1, <1>7 DEF BootFetch
<1>8. CASE BootCommit
  <2>1. pc = "bootCommit" /\ offset' = NextAt
    BY <1>0, <1>8, BootCommitIs
  <2>2. cache' = cache \cup cy.page /\ missed' = missed \ cy.page /\ done' = done
    BY <1>8 DEF BootCommit, Ingest
  <2>3. done = FALSE
    BY <2>1 DEF IInv, TypeInv, TypeOK, WalkInv, Booting, BootWalk
  <2>4. \A t \in Uncached' : t \in Uncached \ cy.page
    BY <1>0, <2>2 DEF Uncached
  <2>5. \A t \in Uncached \ cy.page : Rank(listed, t) >= NextAt \/ t \in missed
    BY <2>1 DEF IInv, BootInv
  <2> QED
    BY <1>0, <2>1, <2>2, <2>3, <2>4, <2>5 DEF ReachInv
<1>9. CASE BootMark
  <2>1. done = FALSE /\ UNCHANGED <<cache, done, offset, missed>>
    BY <1>9 DEF BootMark, IInv, TypeInv, TypeOK, WalkInv, Booting
  <2> QED
    BY <1>2, <2>1
<1>10. ASSUME pc = "bootFinish", done' = TRUE, UNCHANGED <<cache, offset, missed, wm, wmIds>>
       PROVE  ReachInv'
  BY <1>0, <1>10 DEF IInv, BootInv, ReachInv, Uncached, Candidate
<1>11. CASE BootFinish
  BY <1>10, <1>11 DEF BootFinish
<1>12. CASE IncFetch
  <2>1. missed \subseteq missed' /\ UNCHANGED <<cache, done, offset, wm, wmIds>>
    BY <1>12 DEF IncFetch
  <2> QED
    BY <1>1, <2>1
<1>13. CASE IncCommit
  BY <1>4, <1>13 DEF IncCommit
<1>14. CASE IncMark
  <2>1. /\ pc = "incMark" /\ UNCHANGED <<cache, done, offset, missed>>
        /\ IF cy.w = 0 THEN UNCHANGED mark ELSE wm' = cy.w /\ wmIds' = cy.wIds
    BY <1>14 DEF IncMark
  <2>2. pc \in Marking /\ MarkInv
    BY <2>1 DEF IInv, Marking
  <2>3. \A t \in Uncached : Ahead(t) => Candidate(t)'
    BY <1>0, <2>1, <2>2, AheadIsCandidate
  <2>4. done => \A t \in Uncached : Ahead(t) \/ t \in missed
    BY <2>1 DEF IInv, IncInv
  <2>5. Uncached' = Uncached
    BY <1>0, <2>1 DEF Uncached
  <2>6. done' => \A t \in Uncached' : Candidate(t)' \/ t \in missed'
    BY <2>1, <2>3, <2>4, <2>5
  <2>7. ~done' => \A t \in Uncached' : Rank(listed', t) >= offset' \/ t \in missed'
    BY <1>0, <2>1, <2>5 DEF ReachInv
  <2> QED
    BY <2>6, <2>7 DEF ReachInv
<1>15. CASE SweepGate \/ IdFetch \/ IdCommit \/ TouchSweep \/ Success \/ CycleFails \/ CycleEnds
  <2>1. UNCHANGED <<cache, done, offset, wm, wmIds, missed>>
    BY <1>15 DEF SweepGate, IdFetch, IdCommit, TouchSweep, Success, CycleFails, CycleEnds
  <2> QED
    BY <1>1, <2>1
<1>16. CASE ApplyVerdict
  <2>0. UNCHANGED <<done, offset, wm, wmIds>>
    BY <1>16 DEF ApplyVerdict
  <2>1. CASE SweepVerdict = "delete"
    <3>1. /\ pc = "verdict" /\ cache' = cache \cap cy.seen
          /\ missed' = missed \cup unseen \cup (IF done THEN {} ELSE Behind((listed \cap cache) \ cy.seen))
      BY <1>16, <2>1 DEF ApplyVerdict
    <3>2. stable \subseteq cy.seen
      BY <1>0, <2>1, <3>1, VerdictIs DEF IInv, IdInv
    <3>3. \A t \in listed : t \in stable \/ t \in unseen \/ Candidate(t)
      BY <3>1 DEF IInv, IdInv
    <3>4. ASSUME NEW t \in Uncached' PROVE t \in listed /\ (t \in Uncached \/ (t \in cache /\ t \notin cy.seen))
      BY <1>0, <3>1, <3>4 DEF Uncached
    <3>5. ASSUME NEW t \in Uncached', done PROVE Candidate(t) \/ t \in missed'
      BY <1>0, <3>1, <3>2, <3>3, <3>4, <3>5 DEF ReachInv
    <3>6. ASSUME NEW t \in Uncached', ~done PROVE Rank(listed, t) >= offset \/ t \in missed'
      <4>1. Rank(listed, t) \in Nat /\ offset \in Nat
        BY <1>0, <3>4, <3>6, SizesAssumption DEF TypeInv, TypeOK
      <4>2. CASE t \in Uncached
        BY <1>0, <3>1, <3>6, <4>2 DEF ReachInv
      <4>3. CASE t \in cache /\ t \notin cy.seen
        BY <3>1, <3>4, <3>6, <4>1, <4>3 DEF Behind
      <4> QED
        BY <3>4, <3>6, <4>2, <4>3
    <3> QED
      BY <1>0, <2>0, <3>5, <3>6 DEF ReachInv, Candidate
  <2>2. CASE SweepVerdict # "delete"
    <3>1. UNCHANGED <<cache, missed>>
      BY <1>16, <2>2 DEF ApplyVerdict
    <3> QED
      BY <1>1, <2>0, <3>1
  <2> QED
    BY <2>1, <2>2
<1>17. CASE EndsMidCommit
  <2>1. CASE /\ done' = FALSE /\ missed' = missed \cup Behind(listed \ cache)
             /\ UNCHANGED <<cache, offset, mark>>
    <3>1. offset \in Nat /\ Uncached' = Uncached
      BY <1>0, <2>1, SizesAssumption DEF TypeInv, TypeOK, Uncached
    <3>2. \A t \in Uncached : Rank(listed, t) >= offset \/ t \in Behind(listed \ cache)
      BY <1>0, <3>1 DEF Behind, Uncached
    <3> QED
      BY <1>0, <2>1, <3>1, <3>2 DEF ReachInv
  <2>2. CASE Ingest(cy.page) /\ UNCHANGED <<done, offset, mark>>
    BY <1>4, <2>2
  <2>3. CASE /\ pc \in {"bootMark", "bootCapped", "incMark"} /\ cy.w # 0 /\ wm' = cy.w
             /\ UNCHANGED <<cache, done, offset, missed, wmIds>>
    <3>1. CASE done = FALSE
      BY <1>2, <2>3, <3>1
    <3>2. CASE done = TRUE
      <4>1. pc = "incMark"
        BY <2>3, <3>2 DEF IInv, TypeInv, WalkInv, Booting
      <4>2. \A t \in Uncached : Ahead(t) \/ t \in missed
        BY <3>2, <4>1 DEF IInv, IncInv
      <4>3. ASSUME NEW t \in Uncached, Ahead(t) PROVE Candidate(t)'
        <5>1. wm \in Nat /\ cy.w \in Nat /\ Date[t] \in Nat /\ MarkInv /\ pc \in Marking
          BY <1>0, <4>1, Locals, DateAssumption DEF TypeInv, TypeOK, IInv, Marking
        <5> QED
          BY <2>3, <4>3, <5>1 DEF Ahead, Candidate, MarkInv
      <4> QED
        BY <1>0, <2>3, <3>2, <4>2, <4>3 DEF ReachInv, Uncached
    <3> QED
      BY <3>1, <3>2 DEF IInv, TypeInv, TypeOK
  <2>4. CASE pc = "bootFinish" /\ done' = TRUE /\ UNCHANGED <<cache, offset, missed, mark>>
    BY <1>10, <2>4
  <2> QED
    BY <1>17, <2>1, <2>2, <2>3, <2>4 DEF EndsMidCommit
<1>18. CASE ForgetLibrary
  BY <1>3, <1>18 DEF ForgetLibrary
<1> QED
  BY <1>5, <1>6, <1>7, <1>8, <1>9, <1>11, <1>12, <1>13, <1>14, <1>15, <1>16, <1>17, <1>18
  DEF Working, CycleStep, Interruption

\* SweptInv and EmptyInv survive the worker's steps.
LEMMA SweptStep ==
  ASSUME IInv, Working, TypeInv'
  PROVE  SweptInv' /\ EmptyInv'
<1> USE DEF sweep, ghosts
<1>0. TypeInv /\ SweptInv /\ EmptyInv
  BY DEF IInv
<1>1. ASSUME UNCHANGED <<emptyAt, empties>>, pc' \notin {"swept", "success"} PROVE SweptInv' /\ EmptyInv'
  BY <1>0, <1>1 DEF SweptInv, EmptyInv
<1>2. CASE Start \/ ListLibraries \/ RestartBootstrap
  BY <1>0, <1>1, <1>2, StartIs, ListLibrariesIs, RestartIs DEF Start, ListLibraries, RestartBootstrap
<1>3. CASE BootFetch \/ BootCommit \/ BootMark \/ BootFinish
  BY <1>0, <1>1, <1>3, BootFetchIs, BootCommitIs, BootMarkIs, BootFinishIs
  DEF BootFetch, BootCommit, BootMark, BootFinish
<1>4. CASE IncFetch \/ IncCommit \/ IncMark
  BY <1>0, <1>1, <1>4, IncFetchIs, IncCommitIs, IncMarkIs DEF IncFetch, IncCommit, IncMark
<1>5. CASE SweepGate
  <2>1. /\ UNCHANGED <<emptyAt, empties, owed>> /\ cy' = cy
        /\ pc' = "idFetch" \/ (cy.initial \/ ~owed)
    BY <1>5 DEF SweepGate, Go, SweepWanted
  <2> QED
    BY <1>0, <1>1, <2>1 DEF SweptInv, EmptyInv
<1>6. CASE IdFetch \/ IdCommit
  BY <1>0, <1>1, <1>6, IdFetchIs, IdCommitIs DEF IdFetch, IdCommit
<1>7. CASE ApplyVerdict
  <2>1. /\ pc = "verdict" /\ cy'.answer = cy.answer /\ cy.answer # "none"
        /\ cy.answer = "listed" => SweepVerdict = "delete"
    BY <1>0, <1>7, ApplyVerdictIs, VerdictIs DEF IInv, IdInv
  <2>2. SweepVerdict \in {"delete", "forget", "observe", "wait"}
    BY <1>0, <2>1, VerdictIs
  <2>3. /\ SweepVerdict = "delete" => owed' = FALSE /\ emptyAt' = Never
        /\ SweepVerdict = "forget" => emptyAt' = Never
        /\ SweepVerdict = "observe" => emptyAt' = now
        /\ SweepVerdict = "wait" => emptyAt' = emptyAt
        /\ empties' = IF cy.answer = "zero" /\ SweepVerdict # "delete" THEN empties \cup {now} ELSE {}
    BY <1>7 DEF ApplyVerdict
  <2>4. SweepVerdict \in {"observe", "wait"} => cy.answer = "zero"
    BY <1>0, <2>1, VerdictIs
  <2>5. SweptInv'
    BY <2>1, <2>3 DEF SweptInv
  <2>6. EmptyInv'
    BY <1>0, <2>2, <2>3, <2>4 DEF EmptyInv
  <2> QED
    BY <2>5, <2>6
<1>8. CASE TouchSweep
  BY <1>0, <1>8 DEF TouchSweep, Go, SweptInv, EmptyInv
<1>9. CASE Success \/ CycleEnds \/ EndsMidCommit
  <2>1. UNCHANGED <<emptyAt, empties>>
    BY <1>9 DEF Success, CycleEnds, EndsMidCommit
  <2>2. pc' = "idle"
    BY <1>9, EndingIs DEF Interruption
  <2> QED
    BY <1>1, <2>1, <2>2
<1>10. CASE CycleFails \/ ForgetLibrary
  <2>1. pc' = "idle"
    BY <1>10, EndingIs DEF Interruption
  <2>2. UNCHANGED <<emptyAt, empties>> \/ emptyAt' = Never
    BY <1>10 DEF CycleFails, ForgetLibrary
  <2> QED
    BY <1>1, <2>1, <2>2 DEF SweptInv, EmptyInv
<1> QED
  BY <1>2, <1>3, <1>4, <1>5, <1>6, <1>7, <1>8, <1>9, <1>10 DEF Working, CycleStep, Interruption

\* Every invariant survives every step.
THEOREM IInvStep == IInv /\ [Next]_vars => IInv'
<1> SUFFICES ASSUME IInv, [Next]_vars PROVE IInv'
  OBVIOUS
<1>1. TypeInv' /\ KnownInv' /\ MarkInv'
  BY TypesStep, KnownStep, MarkStep DEF IInv
<1>2. CASE Working
  BY <1>1, <1>2, ReachStep, BootStep, IncStep, IdStep, SweptStep DEF IInv
<1>3. CASE OtherIngests \/ (\E t \in Titles : OtherForgets(t)) \/ Quiet
  BY <1>1, <1>3, OthersStep DEF IInv
<1>4. ASSUME NEW S \in SUBSET Titles, ServerMoves(S) PROVE IInv'
  BY <1>1, <1>4, ServerKeeps DEF IInv
<1> QED
  BY <1>2, <1>3, <1>4, StepKinds DEF IInv

\* The invariant holds throughout.
THEOREM Invariance == Spec => []IInv
BY InitIInv, IInvStep, PTL DEF Spec

---------------------------------------------------------------------------
(* What it comes to.                                                       *)

\* The catalog, its marks and the cycle's locals keep their types.
THEOREM SyncTypes == Spec => []TypeOK
<1>1. IInv => TypeOK
  BY DEF IInv, TypeInv
<1> QED
  BY <1>1, Invariance, PTL

\* Every title the server lists is cached, still ahead of a walk, or among
\* those a removal or a page cap let slip: no crash, failed page, tie of dates
\* or other thread's write loses one (bootstrap, incremental, sweep_identity).
THEOREM NothingIsLost == Spec => []Accounted
<1>1. IInv => Accounted
  BY DEF IInv, TypeInv, TypeOK, ReachInv, Accounted, Uncached
<1> QED
  BY <1>1, Invariance, PTL

\* Only apply_sweep_verdict leads from a verdict to the end of the sweep.
LEMMA VerdictStep ==
  ASSUME IInv, [Next]_vars, pc = "verdict", pc' = "swept"
  PROVE  ApplyVerdict
<1>0. TypeInv /\ KnownInv
  BY DEF IInv
<1>1. CASE Working
  <2>1. CASE Start \/ ListLibraries \/ RestartBootstrap \/ BootFetch \/ BootCommit \/ BootMark \/ BootFinish
    BY <2>1 DEF Start, ListLibraries, RestartBootstrap, BootFetch, BootCommit, BootMark, BootFinish
  <2>2. CASE IncFetch \/ IncCommit \/ IncMark \/ SweepGate \/ IdFetch \/ IdCommit \/ TouchSweep
    BY <2>2 DEF IncFetch, IncCommit, IncMark, SweepGate, IdFetch, IdCommit, TouchSweep
  <2>3. ~(Success \/ Interruption)
    BY EndingIs
  <2> QED
    BY <1>1, <2>1, <2>2, <2>3 DEF Working, CycleStep
<1>2. CASE ~Working
  <2>1. pc' = pc
    BY <1>0, <1>2, StepKinds DEF ServerMoves, OtherIngests, OtherForgets, Quiet
  <2> QED
    BY <2>1
<1> QED
  BY <1>1, <1>2

\* A cycle that succeeds owes what it owed.
LEMMA SuccessStep ==
  ASSUME IInv, [Next]_vars, pc = "success", pc' = "idle", owed'
  PROVE  owed
<1>0. TypeInv /\ KnownInv
  BY DEF IInv
<1>1. CASE Working
  <2>1. CASE Start \/ ListLibraries \/ RestartBootstrap \/ BootFetch \/ BootCommit \/ BootMark \/ BootFinish
    BY <2>1 DEF Start, ListLibraries, RestartBootstrap, BootFetch, BootCommit, BootMark, BootFinish
  <2>2. CASE IncFetch \/ IncCommit \/ IncMark \/ SweepGate \/ IdFetch \/ IdCommit \/ ApplyVerdict \/ TouchSweep
    BY <2>2 DEF IncFetch, IncCommit, IncMark, SweepGate, IdFetch, IdCommit, ApplyVerdict, TouchSweep
  <2>3. CASE Success \/ CycleFails \/ CycleEnds \/ EndsMidCommit
    BY <2>3 DEF Success, CycleFails, CycleEnds, EndsMidCommit, sweep
  <2>4. ~ForgetLibrary
    BY DEF ForgetLibrary
  <2> QED
    BY <1>1, <2>1, <2>2, <2>3, <2>4 DEF Working, CycleStep, Interruption
<1>2. CASE ~Working
  <2>1. pc' = pc
    BY <1>0, <1>2, StepKinds DEF ServerMoves, OtherIngests, OtherForgets, Quiet
  <2> QED
    BY <2>1
<1> QED
  BY <1>1, <1>2

\* A sweep never deletes a title listed all along its walk, believes an empty
\* answer only when an earlier one confirms it, and is not skipped when owed.
THEOREM SweepsSpareWhatStays == Spec => SweepsAreTrue
<1>1. ASSUME IInv, [Next]_vars, pc = "verdict", pc' = "swept"
      PROVE  /\ stable \cap cache \subseteq cache'
             /\ (cy.answer = "zero" /\ ~cy.noCat /\ cache' # cache)
                  => \E e \in empties : now - e \in ConfirmGap .. ConfirmAge
  <2>1. ApplyVerdict /\ TypeInv /\ cy.answer # "none"
    BY <1>1, VerdictStep DEF IInv, IdInv
  <2>2. CASE SweepVerdict = "delete"
    <3>1. stable \subseteq cy.seen /\ cache' = cache \cap cy.seen
      BY <1>1, <2>1, <2>2, VerdictIs DEF IInv, IdInv, ApplyVerdict
    <3>2. ASSUME cy.answer = "zero", ~cy.noCat PROVE emptyAt \in empties /\ now - emptyAt \in ConfirmGap .. ConfirmAge
      <4>1. EmptyVerdict = "delete"
        BY <2>1, <2>2, <3>2, VerdictIs
      <4>2. emptyAt # Never /\ now - emptyAt <= ConfirmAge /\ ~(now - emptyAt < ConfirmGap)
        BY <4>1 DEF EmptyVerdict, Observed, Age
      <4>3. emptyAt \in Int /\ now \in Int /\ ConfirmGap \in Nat /\ ConfirmAge \in Nat
        BY <2>1, SizesAssumption DEF TypeInv, TypeOK, Never
      <4> QED
        BY <1>1, <4>2, <4>3 DEF IInv, EmptyInv
    <3> QED
      BY <3>1, <3>2
  <2>3. CASE SweepVerdict # "delete"
    BY <2>1, <2>3 DEF ApplyVerdict
  <2> QED
    BY <2>2, <2>3
<1>2. ASSUME IInv, [Next]_vars, pc = "success", pc' = "idle", ~cy.initial, owed'
      PROVE  cy.answer \notin {"none", "listed"}
  BY <1>2, SuccessStep DEF IInv, SweptInv
<1>3. IInv /\ [Next]_vars => [pc = "verdict" /\ pc' = "swept" => stable \cap cache \subseteq cache']_vars
  BY <1>1
<1>4. IInv /\ [Next]_vars =>
        [(pc = "verdict" /\ pc' = "swept" /\ cy.answer = "zero" /\ ~cy.noCat /\ cache' # cache)
           => \E e \in empties : now - e \in ConfirmGap .. ConfirmAge]_vars
  BY <1>1
<1>5. IInv /\ [Next]_vars =>
        [(pc = "success" /\ pc' = "idle" /\ failed' = FALSE /\ ~cy.initial /\ owed')
           => cy.answer \notin {"none", "listed"}]_vars
  BY <1>2
<1> QED
  BY <1>3, <1>4, <1>5, Invariance, PTL DEF Spec, SweepsAreTrue, SweepKeepsStable, ConfirmedWipe, OwedSweepIsNotSkipped
=============================================================================
