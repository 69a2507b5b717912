------------------------------ MODULE MCCatalog ------------------------------
(* Two libraries for CatalogSync: one whose clock stands, with a tie of dates inside and *)
(* across pages, and a smaller one whose clock moves, also backwards, so that empty      *)
(* answers are confirmed.                                                                *)
EXTENDS CatalogSync

VARIABLE clocked   \* which of them it is

MCDate == [t \in Titles |-> IF t <= 2 THEN 1 ELSE t - 1]
MCLibOf == [t \in Titles |-> CHOOSE l \in Libs : TRUE]

W == INSTANCE CatalogSync WITH
       MaxTitle <- 1, Date <- [t \in 1 .. 1 |-> 1], LibOf <- [t \in 1 .. 1 |-> CHOOSE l \in Libs : TRUE],
       PageSize <- 2, IdPageSize <- 1, MaxBootPages <- 1, MaxIncrementalPages <- 1, MaxIdPages <- 2,
       ConfirmGap <- 1, ConfirmAge <- 1, MaxNow <- 2, MaxFaults <- 1

(* The larger library loses at most one title: a removal under a walk is what slides the  *)
(* others along.                                                                         *)
OneRemoval == next' - 1 - Cardinality(listed') <= 1

MCInit == clocked \in BOOLEAN /\ (IF clocked THEN W!Init ELSE Init)
MCNext ==
  \/ clocked /\ W!Next /\ UNCHANGED clocked
  \/ ~clocked /\ Next /\ now' = now /\ OneRemoval /\ UNCHANGED clocked
MCSpec == MCInit /\ [][MCNext]_<<vars, clocked>>

(* The larger library alone, which may lose any number of titles. *)
LargerInit == clocked = FALSE /\ Init
LargerNext == Next /\ UNCHANGED clocked
LargerSpec == LargerInit /\ [][LargerNext]_<<vars, clocked>>

(* An empty answer is believed only when another is the right time before it (sync/cycle.rs). *)
EmptyIsConfirmed == W!ConfirmedWipe
=============================================================================
