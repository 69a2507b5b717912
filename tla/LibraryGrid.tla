------------------------------ MODULE LibraryGrid ------------------------------
(* What a library's pages show: the order of a grid and its letters (library/query.rs,   *)
(* library/mod.rs), the episodes around one, the newest of each series, which sorts and   *)
(* filters a library runs (library/libraries.rs, library/browse.rs) and the people of a    *)
(* title (api/catalog/detail.rs).  One sample is drawn at the start; nothing happens       *)
(* after that.                                                                           *)
EXTENDS Integers, Sequences, FiniteSets, SequencesExt, FiniteSetsExt

CONSTANTS GridRows,                               \* row ids
          CastLimit, CrewLimit, JobLimit,       \* of a title's people
          MaxPeople                             \* bound

VARIABLE look
gridVars == <<look>>

Null == -1   \* sorts like no number of the samples
AToZ == {2, 3}   \* initials: 1 a digit, 4 a letter after Z
Initials == AToZ \cup {1, 4}

Grids == [kind : {"grid"}, initial : [GridRows -> Initials], key : [GridRows -> {Null, 1}],
          sort : {"name", "keyed", "random"}, down : BOOLEAN]
Series == [kind : {"series"}, season : [GridRows -> {Null, 0, 1}], number : [GridRows -> {Null, 1, 2}]]
Recent == [kind : {"recent"}, series : [GridRows -> {1, 2}], created : [GridRows -> {Null, 1, 2}], limit : 1 .. 2]
Jobs == {"cast", "director", "writer", "none"}
Casts == [kind : {"people"}, people : BoundedSeq(Jobs, MaxPeople)]

-------------------------------------------------------------------------------
(* A grid: query_base, order_clause.                                                     *)

(* Lexicographic: the first of the columns on which two rows differ decides. *)
Before(columns, i, j) ==
  \E c \in DOMAIN columns :
    columns[c][i] < columns[c][j] /\ \A b \in 1 .. c - 1 : columns[b][i] = columns[b][j]

NullsLast == 9
Directed(g, column) ==
  [i \in GridRows |-> IF column[i] = Null THEN NullsLast ELSE IF g.down THEN -column[i] ELSE column[i]]
RowId == [i \in GridRows |-> i]

(* ItemSort::order, order_clause.  A shuffle ignores the direction: its key is of the row  *)
(* and the seed.  Mutant: rows that are alike stay in any order.                           *)
LooseOrder(g) ==
  CASE g.sort = "name" -> <<Directed(g, g.initial)>>
    [] g.sort = "keyed" -> <<Directed(g, g.key), g.initial>>
    [] OTHER -> <<g.key>>
OrderClause(g) ==
  CASE g.sort = "name" -> <<Directed(g, g.initial), RowId>>
    [] g.sort = "keyed" -> <<Directed(g, g.key), g.initial, RowId>>
    [] OTHER -> <<g.key, RowId>>

(* The sequences a query may return: the database orders as it likes what the clause does not. *)
GridAnswers(g) ==
  {s \in [1 .. Cardinality(GridRows) -> GridRows] :
     \A a, b \in DOMAIN s : a < b => s[a] # s[b] /\ ~Before(OrderClause(g), s[b], s[a])}

(* letter_index: the first position of each letter, # for all that is not A to Z. *)
Letter(initial) == IF initial \in AToZ THEN initial ELSE 0
LetterIndex(g, answer) ==
  LET at(l) == {p \in DOMAIN answer : Letter(g.initial[answer[p]]) = l} IN
  [l \in {Letter(g.initial[i]) : i \in GridRows} |-> Min(at(l))]

(* Pages of one query fit together, however often the database is asked; a jump to a letter *)
(* lands on a title of it, and with names in order all of the letter follow.               *)
GridIsOne(g) ==
  /\ Cardinality(GridAnswers(g)) = 1
  /\ \A answer \in GridAnswers(g) :
       LET index == LetterIndex(g, answer) IN
       \A l \in DOMAIN index :
         /\ Letter(g.initial[answer[index[l]]]) = l
         /\ g.sort = "name" /\ l # 0 =>
              \A p \in DOMAIN answer : Letter(g.initial[answer[p]]) = l <=>
                p \in index[l] .. index[l] + Cardinality({i \in GridRows : g.initial[i] = l}) - 1

-------------------------------------------------------------------------------
(* Episodes.                                                                             *)

OrZero(n) == IF n = Null THEN 0 ELSE n
(* next_episode, previous_episode compare with unknown numbers as zero.  Mutant: by number. *)
LaterNumber(s, i, j) == OrZero(s.number[i]) > OrZero(s.number[j])
Later(s, i, j) ==
  \/ OrZero(s.season[i]) > OrZero(s.season[j])
  \/ OrZero(s.season[i]) = OrZero(s.season[j]) /\ OrZero(s.number[i]) > OrZero(s.number[j])

First(S, columns) == {i \in S : \A j \in S : ~Before(columns, j, i)}
Down(column) == [i \in GridRows |-> -column[i]]
NextEpisode(s, i) == First({j \in GridRows : Later(s, j, i)}, <<s.season, s.number>>)
PreviousEpisode(s, i) == First({j \in GridRows : Later(s, i, j)}, <<Down(s.season), Down(s.number)>>)
Known(column) == [i \in GridRows |-> IF column[i] = Null THEN NullsLast ELSE column[i]]
FirstEpisode(s) == First(GridRows, <<Known(s.season), Known(s.number)>>)

(* Episodes that are numbered apart: going on and back leads back, and whoever starts with  *)
(* the first and goes on sees them all.                                                  *)
EpisodesAreAWalk(s) ==
  LET apart == \A i, j \in GridRows : i # j => Later(s, i, j) \/ Later(s, j, i)
      seasons == \A i \in GridRows : s.season[i] # Null
      numbers == \A i \in GridRows : s.number[i] # Null
  IN apart /\ seasons =>
       /\ \A i \in GridRows : \A j \in NextEpisode(s, i) : PreviousEpisode(s, j) = {i}
       /\ numbers => \A i \in GridRows : i \in FirstEpisode(s) \/ \E j \in GridRows : i \in NextEpisode(s, j)

(* recently_added_episodes: newest first, the first of each series, until enough are found. *)
(* Mutant: enough episodes are read, then the first of each series taken.                 *)
NewestFirstRows(r) == CHOOSE s \in [1 .. Cardinality(GridRows) -> GridRows] :
  \A a, b \in DOMAIN s : a < b =>
    s[a] # s[b] /\ ~Before(<<Down(r.created), Down(RowId)>>, s[b], s[a])
IsFirstOfSeries(r, s, p) == \A q \in 1 .. p - 1 : r.series[s[q]] # r.series[s[p]]
ReadThenChosen(r) == {NewestFirstRows(r)[p] : p \in {q \in 1 .. r.limit : IsFirstOfSeries(r, NewestFirstRows(r), q)}}
RecentlyAdded(r) ==
  {NewestFirstRows(r)[p] : p \in {q \in DOMAIN NewestFirstRows(r) :
     /\ IsFirstOfSeries(r, NewestFirstRows(r), q)
     /\ Cardinality({x \in 1 .. q - 1 : IsFirstOfSeries(r, NewestFirstRows(r), x)}) < r.limit}}

(* As many series as there are or were asked for, each by its newest episode. *)
RecentIsPerSeries(r) ==
  /\ Cardinality(RecentlyAdded(r)) = Min({r.limit, Cardinality({r.series[i] : i \in GridRows})})
  /\ \A i \in RecentlyAdded(r), j \in GridRows : r.series[i] = r.series[j] => r.created[j] <= r.created[i]

-------------------------------------------------------------------------------
(* Which sorts and filters a library runs.                                                *)

SortKeys == {"name", "year", "added", "episode-added", "rating", "played", "plays", "runtime", "random"}
FilterKeys == {"genre", "studio", "tag", "decade", "watched", "parental", "seriesStatus", "favorite"}
LibraryKinds == {"movies", "tvshows", "music", "musicvideos", "homevideos", "photos", "books",
                 "boxsets", "playlists", "livetv", "trailers", "mixed"}

(* LibraryKind::profile and what its grid can run; LiveSort::from_key. *)
Catalog == {"movies", "tvshows"}
Folders == {"homevideos", "photos", "mixed", "playlists", "livetv"}
NewestFirst == {"boxsets", "playlists", "livetv"}
LiveSorts == {"name", "added", "year"}
Sorts(k) ==
  CASE k = "movies" -> SortKeys \ {"episode-added"}
    [] k = "tvshows" -> SortKeys \ {"plays", "runtime"}
    [] OTHER -> LiveSorts
Filters(k) ==
  CASE k = "movies" -> FilterKeys \ {"seriesStatus"}
    [] k = "tvshows" -> FilterKeys
    [] OTHER -> IF k \in Folders THEN {} ELSE {"favorite"}
HasLetters(k) == k \in Catalog

Requests == [kind : {"request"}, library : LibraryKinds, sort : SortKeys,
             filters : {f \in SUBSET FilterKeys : Cardinality(f) <= 1}, favorite : BOOLEAN,
             offset : {-1, 0}, limit : {0, 60, 600}]

(* check, checked_live_page: an answer, or a refusal.  Mutant: only the sort is checked. *)
SortIsOffered(q) == q.sort \in Sorts(q.library)
Checked(q) == q.sort \in Sorts(q.library) /\ q.filters \subseteq Filters(q.library)
Runs(q) ==
  /\ Checked(q)
  /\ q.library \in Catalog \/ (("favorite" \in q.filters => q.favorite) /\ q.offset >= 0)
PageBounds(q) ==
  [offset |-> Max({q.offset, 0}), limit |-> Max({1, Min({q.limit, IF q.library \in Catalog THEN 500 ELSE 200})})]

(* latest: the sort that "All" opens the library with. *)
LatestSort(k) == IF k = "tvshows" THEN "episode-added" ELSE "added"

(* The filters that the query of the grid carries: LivePage has the favorites only. *)
Carried(q) == IF q.library \in Catalog THEN FilterKeys ELSE IF q.favorite THEN {"favorite"} ELSE {}

(* A library runs what it offers, but for a filter to what is no favorite; it refuses what  *)
(* its query does not carry instead of leaving it out; and it offers the sort its newest    *)
(* titles open with (check, checked_live_page, latest).                                   *)
OfferedIsRun(q) ==
  /\ SortIsOffered(q) /\ q.filters \subseteq Filters(q.library) /\ q.offset >= 0 =>
       Runs(q) \/ (q.filters = {"favorite"} /\ ~q.favorite)
  /\ Runs(q) => q.filters \subseteq Carried(q) /\ PageBounds(q).limit \in 1 .. 500 /\ PageBounds(q).offset >= 0
  /\ LatestSort(q.library) \in Sorts(q.library)

-------------------------------------------------------------------------------
(* bounded_about_people.                                                                 *)
Crew == {"director", "writer"}
(* Mutant: the limit of a job is not looked at. *)
AnyJobHasRoom(people, kept, job) ==
  IF job = "cast" THEN Cardinality({i \in kept : people[i] = "cast"}) < CastLimit
  ELSE job \in Crew /\ Cardinality({i \in kept : people[i] \in Crew}) < CrewLimit
HasRoom(people, kept, job) ==
  IF job = "cast" THEN Cardinality({i \in kept : people[i] = "cast"}) < CastLimit
  ELSE /\ job \in Crew
       /\ Cardinality({i \in kept : people[i] \in Crew}) < CrewLimit
       /\ Cardinality({i \in kept : people[i] = job}) < JobLimit
KeptPeople(people) ==
  LET kept[n \in 0 .. Len(people)] ==
        IF n = 0 THEN {} ELSE kept[n - 1] \cup (IF HasRoom(people, kept[n - 1], people[n]) THEN {n} ELSE {})
  IN  kept[Len(people)]

(* The first of each job are there, up to its share; nobody is left out while there is room. *)
PeopleAreTheFirst(people) ==
  LET kept == KeptPeople(people) IN
  /\ \A job \in Crew : Cardinality({i \in kept : people[i] = job}) <= JobLimit
  /\ \A i \in DOMAIN people \ kept : people[i] # "none" => ~HasRoom(people, {k \in kept : k < i}, people[i])
  /\ \A i \in kept, j \in DOMAIN people : people[i] = people[j] /\ j < i => j \in kept

GridInit == look \in Grids \cup Series \cup Recent \cup Casts \cup Requests
GridSpec == GridInit /\ [][FALSE]_gridVars

(* What the pages of a library show is whole, in order and what was asked for              *)
(* (library/query.rs, browse.rs, libraries.rs, detail.rs).                                *)
GridsAreSound ==
  CASE look.kind = "grid" -> GridIsOne(look)
    [] look.kind = "series" -> EpisodesAreAWalk(look)
    [] look.kind = "recent" -> RecentIsPerSeries(look)
    [] look.kind = "request" -> OfferedIsRun(look)
    [] OTHER -> PeopleAreTheFirst(look.people)
=============================================================================
