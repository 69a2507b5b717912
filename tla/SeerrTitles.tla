--------------------------------- MODULE SeerrTitles ---------------------------------
(* What the companion plugin makes of one Seerr title: whether the download services   *)
(* are asked about it, what they explain, and the credits of people.  One sample of    *)
(* Seerr's answer is drawn at the start; nothing happens after that.                   *)
EXTENDS Integers, Sequences, FiniteSets, SequencesExt, FiniteSetsExt, TLAPS

CONSTANTS Statuses,        \* Seerr's states of a title, Processing among them
          TitleSeasons,    \* seasons of a series
          CreditIds,       \* people, or titles of a person's credits
          MaxCredits       \* bound: credits of a title or a person

Processing == 3
SeerrTitlesAssumption ==
  /\ Processing \in Statuses /\ MaxCredits \in Nat
  /\ TitleSeasons \subseteq Nat /\ 0 \notin TitleSeasons

VARIABLE title   \* the sample: [kind, info, facts, crew, credits]
titleVars == <<title>>

NoFacts == [known |-> FALSE, available |-> FALSE, hasFile |-> FALSE, more |-> FALSE]
Facts == [known : BOOLEAN, available : BOOLEAN, hasFile : BOOLEAN, more : BOOLEAN]

(* mediaInfo: a state per quality for the title and each season, and the seasons (0: a *)
(* film's file) of Seerr's own download queue per quality.                             *)
Qualities == {"hd", "4k"}
Infos == [status : [Qualities -> Statuses], seasons : [TitleSeasons -> [Qualities -> Statuses]],
          queue : [Qualities -> SUBSET (TitleSeasons \cup {0})]]
SomeInfo == CHOOSE info \in Infos : \A q \in Qualities : info.queue[q] = {}

Ranks == {0, 1, -1}   \* of KeyCrewJobs; -1: not a key job
Credits == UNION {[1 .. n -> [id : CreditIds, rank : Ranks, info : BOOLEAN]] : n \in 0 .. MaxCredits}

TitleInit ==
  \/ title \in [kind : {"movie", "tv"}, info : Infos, credits : {<< >>}]
  \/ title \in [kind : {"credits"}, info : {SomeInfo}, credits : Credits]

TitleSpec == TitleInit /\ [][FALSE]_titleVars

-----------------------------------------------------------------------------------
(* MediaActivity. *)
TitleLevel == -1   \* no season number
Downloading(info, q, season) ==
  IF season = TitleLevel THEN info.queue[q] # {} ELSE season \in info.queue[q]

Waiting(info, q) == info.status[q] = Processing /\ ~Downloading(info, q, TitleLevel)
(* NeedsFacts; mutant: the seasons are not asked. *)
TitleNeedsFacts(info) == \E q \in Qualities : Waiting(info, q)
NeedsFacts(info) ==
  \/ \E q \in Qualities : Waiting(info, q)
  \/ \E s \in TitleSeasons, q \in Qualities : info.seasons[s][q] = Processing

ForMovie(f, q) ==
  CASE f.hasFile /\ q = "hd" -> "none"
    [] f.available /\ ~(f.hasFile /\ q = "hd") -> "searching"
    [] OTHER -> "unreleased"

(* available: an episode has aired; hasFile: all of those have files. *)
ForEpisodes(f, q) ==
  CASE ~f.available -> "unreleased"
    [] f.available /\ q = "4k" -> "none"
    [] f.available /\ q # "4k" /\ ~f.hasFile -> "searching"
    [] OTHER -> IF f.more THEN "awaiting-episodes" ELSE "none"

Resolve(kind, info, status, q, season, f) ==
  IF status # Processing THEN "none"
  ELSE IF Downloading(info, q, season) THEN "downloading"
  ELSE IF ~f.known THEN "none"
  ELSE IF kind = "movie" THEN ForMovie(f, q) ELSE ForEpisodes(f, q)

-----------------------------------------------------------------------------------
(* ShapeCrew: one entry per person, with the roles, by the best of them and then by    *)
(* the place of the first credit; mutant: by the first credit's role.                  *)
KeyCredits(credits) == SelectSeq(credits, LAMBDA c : c.rank >= 0)
Roles(credits, id) == {credits[i].rank : i \in {j \in DOMAIN credits : credits[j].id = id}}
FirstCredit(credits, id) == Min({i \in DOMAIN credits : credits[i].id = id})
RankOfFirst(credits, id) == credits[FirstCredit(credits, id)].rank
BestRank(credits, id) == Min(Roles(credits, id))

ShapeCrew(credits) ==
  LET key == KeyCredits(credits)
      Before(a, b) == \/ BestRank(key, a) < BestRank(key, b)
                      \/ /\ BestRank(key, a) = BestRank(key, b)
                         /\ FirstCredit(key, a) < FirstCredit(key, b) IN
  SetToSortSeq({key[i].id : i \in DOMAIN key}, Before)

(* ShapePersonCredits: the first row of a title that carries Seerr's state, or its     *)
(* first row; mutant: always the first.                                                *)
FirstRow(rows) == rows[1]
RowOfTitle(rows) ==
  IF \E i \in DOMAIN rows : rows[i].info THEN SelectSeq(rows, LAMBDA c : c.info)[1] ELSE rows[1]
ShapePersonCredits(credits) ==
  LET ids == {credits[i].id : i \in DOMAIN credits}
      order == SetToSortSeq(ids, LAMBDA a, b : FirstCredit(credits, a) < FirstCredit(credits, b)) IN
  [i \in DOMAIN order |-> RowOfTitle(SelectSeq(credits, LAMBDA c : c.id = order[i]))]

-----------------------------------------------------------------------------------
(* When the lookup is saved, no answer of the download services could have changed what *)
(* is shown of the title or of any of its seasons, in either quality.                   *)
FactsWouldNotMatter ==
  title.kind # "credits" /\ ~NeedsFacts(title.info) =>
    \A q \in Qualities, f \in Facts :
      /\ Resolve(title.kind, title.info, title.info.status[q], q, TitleLevel, f)
           = Resolve(title.kind, title.info, title.info.status[q], q, TitleLevel, NoFacts)
      /\ \A s \in TitleSeasons :
           Resolve(title.kind, title.info, title.info.seasons[s][q], q, s, f)
             = Resolve(title.kind, title.info, title.info.seasons[s][q], q, s, NoFacts)

(* Everyone with a key job is listed once, and nobody comes after somebody whose best   *)
(* job ranks below any job of theirs.                                                   *)
CrewIsByBestJob ==
  LET crew == ShapeCrew(title.credits)
      key == KeyCredits(title.credits) IN
  /\ ToSet(crew) = {key[i].id : i \in DOMAIN key} /\ IsInjective(crew)
  /\ \A i, j \in DOMAIN crew, a \in DOMAIN key : i < j /\ key[a].id = crew[j] =>
       \E b \in DOMAIN key : key[b].id = crew[i] /\ key[b].rank <= key[a].rank

(* A title keeps its request state when any of its credits carries it. *)
CreditsKeepTheState ==
  LET shown == ShapePersonCredits(title.credits) IN
  \A i \in DOMAIN title.credits : title.credits[i].info =>
    \E j \in DOMAIN shown : shown[j].id = title.credits[i].id /\ shown[j].info

(* A title and a person are shown as Seerr and the download services have them          *)
(* (MediaActivity, ShapeCrew, ShapePersonCredits).                                      *)
ShownAsSeerrHasIt == FactsWouldNotMatter /\ CrewIsByBestJob /\ CreditsKeepTheState

-----------------------------------------------------------------------------
\* What is not processing needs no facts, and neither does what is on its way already.
LEMMA FactsSettle ==
  ASSUME NEW kind, NEW info, NEW status, NEW q, NEW season, NEW f,
         status # Processing \/ Downloading(info, q, season)
  PROVE  Resolve(kind, info, status, q, season, f) = Resolve(kind, info, status, q, season, NoFacts)
BY DEF Resolve

LEMMA SavedLookupsStand == FactsWouldNotMatter
<1> SUFFICES ASSUME ~NeedsFacts(title.info), NEW q \in Qualities, NEW f \in Facts
    PROVE  /\ Resolve(title.kind, title.info, title.info.status[q], q, TitleLevel, f)
                = Resolve(title.kind, title.info, title.info.status[q], q, TitleLevel, NoFacts)
           /\ \A s \in TitleSeasons :
                Resolve(title.kind, title.info, title.info.seasons[s][q], q, s, f)
                  = Resolve(title.kind, title.info, title.info.seasons[s][q], q, s, NoFacts)
  BY DEF FactsWouldNotMatter
<1>1. title.info.status[q] # Processing \/ Downloading(title.info, q, TitleLevel)
  BY DEF NeedsFacts, Waiting
<1>2. \A s \in TitleSeasons : title.info.seasons[s][q] # Processing
  BY DEF NeedsFacts
<1> QED
  BY <1>1, <1>2, FactsSettle

(* What the download services would say of a saved lookup changes nothing, for any states,  *)
(* any seasons and any queue (MediaActivity).                                               *)
THEOREM SavedLookupsAreFinal == TitleSpec => []FactsWouldNotMatter
BY SavedLookupsStand, PTL
===================================================================================
