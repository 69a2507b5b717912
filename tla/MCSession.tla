----------------------------- MODULE MCSession -----------------------------
(* Two accounts and two threads: enough for one thread's late answer to    *)
(* meet another thread's sign-in, sign-out, expiry or deletion.  And what  *)
(* is kept and shown for the account that is signed in: the catalog's      *)
(* rows, the pages of its titles and its grids.  They share nothing a      *)
(* property looks at, so a behaviour moves one of them, the `focus`, and   *)
(* leaves the others as they start: one run for all.                       *)
EXTENDS Session, CatalogRows, TitlePages, LibraryGrid, TLC

VARIABLE focus
allVars == <<focus, vars, rowVars, titlePageVars, look>>

MCInit ==
  /\ focus \in {"session", "rows", "pages", "grid"}
  /\ Init /\ (focus # "session" => credAcct = None /\ owner = None /\ rows = {})
  /\ RowsInit /\ TitlePagesInit
  /\ IF focus = "grid" THEN GridInit ELSE look = [kind |-> "people", people |-> << >>]

(* A step A of a part. *)
In(part, A) ==
  /\ focus = part /\ A
  /\ IF part = "session" THEN TRUE ELSE UNCHANGED vars
  /\ IF part = "rows" THEN TRUE ELSE UNCHANGED rowVars
  /\ IF part = "pages" THEN TRUE ELSE UNCHANGED titlePageVars
  /\ UNCHANGED <<focus, look>>

MCNext == In("session", Next) \/ In("rows", RowsNext) \/ In("pages", TitlePagesNext)
MCSpec == MCInit /\ [][MCNext]_allVars

(* The pages' and the rows' state is of its type, and grids are sound (library/query.rs,   *)
(* browse.rs, libraries.rs, api/catalog/detail.rs).                                      *)
PagesAreSound ==
  CASE focus = "rows" -> RowsTypeOK
    [] focus = "pages" -> TitlePagesTypeOK
    [] OTHER -> GridsAreSound

Symmetry == Permutations(Accounts) \cup Permutations(Threads)
=============================================================================
