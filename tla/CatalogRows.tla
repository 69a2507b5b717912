------------------------------- MODULE CatalogRows -------------------------------
(* The rows of the catalog (library/catalog.rs) with what SQLite derives from them       *)
(* (the triggers of library/db.rs) and what a card is made of (library/query.rs).  Each  *)
(* write returns the batch of what it changed, which is all that pages hear of.  A movie, *)
(* a series and its episodes; their season is left out, it is named like the series.      *)
EXTENDS Naturals, FiniteSets, FiniteSetsExt

CONSTANTS EpisodeIds, GenreNames,
          MaxWrites   \* bound

ASSUME CatalogRowsAssumption ==
  IsFiniteSet(EpisodeIds) /\ EpisodeIds \cap {"movie", "series"} = {} /\ MaxWrites \in Nat

VARIABLES
  itemRows,        \* the table items: a row, or Absent, for each id
  userData,    \* the table user_data
  genreRows,   \* the table item_genres: pairs of a genre and a row id
  named,       \* the batch of the last write; `by` tells a write of the server's state from a toggle
  writes
rowVars == <<itemRows, userData, genreRows, named, writes>>

Absent == [row |-> 0]
NoData == [played |-> FALSE, started |-> FALSE, stored |-> FALSE]
ItemIds == {"movie", "series"} \cup EpisodeIds
UserData == [played : BOOLEAN, started : BOOLEAN, stored : {TRUE}]
Dtos == [genres : SUBSET GenreNames, virtual : BOOLEAN]
RowIds == 1 .. MaxWrites
Rows == {[row |-> r, genres |-> d.genres, virtual |-> d.virtual] : r \in RowIds, d \in Dtos}
Batch(by, items, contexts) == [by |-> by, items |-> items, contexts |-> contexts]

RowsTypeOK ==
  /\ itemRows \in [ItemIds -> Rows \cup {Absent}] /\ userData \in [ItemIds -> UserData \cup {NoData}]
  /\ genreRows \subseteq GenreNames \X RowIds /\ writes \in 0 .. MaxWrites
  /\ named \in [by : {"server", "toggle"}, items : SUBSET ItemIds, contexts : SUBSET ItemIds]

RowsInit ==
  /\ itemRows = [i \in ItemIds |-> Absent] /\ userData = [i \in ItemIds |-> NoData]
  /\ genreRows = {} /\ named = Batch("server", {}, {}) /\ writes = 0

(* record_change, record_change_identity: who shows the item besides itself.              *)
(* Mutant: nobody.                                                                       *)
NoContexts(i) == {}
Contexts(i) == IF i \in EpisodeIds THEN {"series"} ELSE {}

Present(i) == itemRows[i] # Absent
FreeRow == 1 + Max({itemRows[i].row : i \in ItemIds})

(* upsert_item_if_changed: a row keeps its id; a new one takes the id after the largest.    *)
Upserted(i, dto) ==
  [row |-> IF Present(i) THEN itemRows[i].row ELSE FreeRow,
   genres |-> dto.genres, virtual |-> dto.virtual]

(* item_genres_insert, item_genres_update. *)
GenresUpserted(old, new) ==
  LET own == {<<g, new.row>> : g \in new.genres} IN
  IF old = Absent THEN genreRows \cup own
  ELSE IF old.genres = new.genres THEN genreRows
  ELSE {p \in genreRows : p[2] # new.row} \cup own

(* item_genres_delete: the id of a deleted row may be taken again.  Mutant: no trigger.     *)
GenresLeft(from, deleted) == from
GenresDeleted(from, deleted) == {p \in from : p[2] \notin {itemRows[i].row : i \in deleted}}

(* Whether an item's row or its user data moved.  Mutant: the row only. *)
RowMoved(i, row, data) == row # itemRows[i]
Moved(i, row, data) == row # itemRows[i] \/ (data.stored /\ data # userData[i])

Writes == writes < MaxWrites /\ writes' = writes + 1

(* ingest_page, by a cycle, the event socket or a detail page: an item, with or without   *)
(* user data.                                                                            *)
IngestPage(i, dto, data) ==
  LET new == Upserted(i, dto) IN
  /\ Writes /\ itemRows' = [itemRows EXCEPT ![i] = new]
  /\ userData' = (IF data.stored THEN [userData EXCEPT ![i] = data] ELSE userData)
  /\ genreRows' = GenresUpserted(itemRows[i], new)
  /\ named' = IF Moved(i, new, data) THEN Batch("server", {i}, Contexts(i)) ELSE Batch("server", {}, {})

(* apply_user_data: for the items that are cached. *)
ApplyUserData(i, data) ==
  /\ Writes /\ userData' = (IF Present(i) THEN [userData EXCEPT ![i] = data] ELSE userData)
  /\ named' = IF Present(i) /\ data # userData[i] THEN Batch("server", {i}, Contexts(i)) ELSE Batch("server", {}, {})
  /\ UNCHANGED <<itemRows, genreRows>>

(* forget, retain_ids_setting_meta, reconcile_children: delete_items_from_transaction.      *)
Delete(ids) ==
  /\ Writes /\ itemRows' = [i \in ItemIds |-> IF i \in ids THEN Absent ELSE itemRows[i]]
  /\ userData' = [i \in ItemIds |-> IF i \in ids THEN NoData ELSE userData[i]]
  /\ genreRows' = GenresDeleted(genreRows, ids)
  /\ LET gone == {i \in ids : Present(i)} IN named' = Batch("server", gone, UNION {Contexts(i) : i \in gone})

(* reconcile_children: an episode the server lists is written, those it does not are gone.  *)
ReconcileChildren(i, dto, data) ==
  LET new == Upserted(i, dto)
      gone == {e \in EpisodeIds \ {i} : Present(e)} IN
  /\ Writes /\ itemRows' = [j \in ItemIds |-> IF j \in gone THEN Absent ELSE IF j = i THEN new ELSE itemRows[j]]
  /\ userData' = [j \in ItemIds |-> IF j \in gone THEN NoData ELSE IF j = i /\ data.stored THEN data ELSE userData[j]]
  /\ genreRows' = GenresDeleted(GenresUpserted(itemRows[i], new), gone)
  /\ LET changed == gone \cup (IF Moved(i, new, data) THEN {i} ELSE {})
     IN  named' = Batch("server", changed, UNION {Contexts(j) : j \in changed})

(* set_local_played: also for an item that is not cached.  The page that asked knows.      *)
SetLocalPlayed(i, played) ==
  /\ Writes /\ userData' = [userData EXCEPT ![i] = [played |-> played, started |-> FALSE, stored |-> TRUE]]
  /\ named' = Batch("toggle", {}, {})
  /\ UNCHANGED <<itemRows, genreRows>>

RowsNext ==
  \/ \E i \in ItemIds, dto \in Dtos, data \in UserData \cup {NoData} :
       IngestPage(i, dto, data) \/ (i \in EpisodeIds /\ ReconcileChildren(i, dto, data))
  \/ \E i \in ItemIds, data \in UserData : ApplyUserData(i, data)
  \/ \E ids \in SUBSET ItemIds : Delete(ids)
  \/ \E i \in ItemIds, played \in BOOLEAN : SetLocalPlayed(i, played)

RowsSpec == RowsInit /\ [][RowsNext]_rowVars

---------------------------------------------------------------------------------------
(* Queries.                                                                              *)

(* summary_columns: the episodes of a series that are there and not watched are counted     *)
(* from the rows, not taken from the server.                                              *)
PresentEpisodes == {e \in EpisodeIds : Present(e) /\ ~itemRows[e].virtual}
UnplayedCount == Cardinality({e \in PresentEpisodes : ~userData[e].played})
Card(i) == [row |-> itemRows[i], data |-> IF Present(i) THEN userData[i] ELSE NoData,
            unplayed |-> IF i = "series" /\ Present(i) THEN UnplayedCount ELSE 0]

(* in_progress: SERIES_HAS_STARTED_EPISODE, SERIES_HAS_UNWATCHED_PRESENT_EPISODE.           *)
(* Mutant: an episode that is only announced is one to watch.                              *)
AnyUnwatched == \E e \in EpisodeIds : Present(e) /\ ~userData[e].played
HasUnwatched == \E e \in PresentEpisodes : ~userData[e].played
HasStarted == \E e \in EpisodeIds : Present(e) /\ (userData[e].played \/ userData[e].started)
InProgress(i) ==
  IF i = "series" THEN HasStarted /\ HasUnwatched
  ELSE userData[i].started /\ ~userData[i].played

(* query_base with a genre; facet_values. *)
WithGenre(g) == {i \in ItemIds : Present(i) /\ <<g, itemRows[i].row>> \in genreRows}
FacetValues == {p[1] : p \in genreRows}

(* A page hears of every card that a write of the server's state changes, also of the      *)
(* series whose count an episode moves.  The genre table is that of the rows, though row    *)
(* ids are used again.  And a series in progress has an episode left to watch by the count  *)
(* on its card (ingest_page, apply_user_data, delete_items_from_transaction, query_base).   *)
RowsAreSound ==
  /\ [](/\ \A g \in GenreNames : WithGenre(g) = {i \in ItemIds : Present(i) /\ g \in itemRows[i].genres}
        /\ FacetValues = UNION {itemRows[i].genres : i \in {j \in ItemIds : Present(j)}}
        /\ Present("series") /\ InProgress("series") => Card("series").unplayed > 0)
  /\ [][named'.by = "server" =>
          \A i \in ItemIds : Card(i)' # Card(i) => i \in named'.items \cup named'.contexts]_rowVars
=============================================================================
