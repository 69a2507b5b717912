------------------------------ MODULE TitlePages ------------------------------
(* The page of a series and those of its episodes.  Children are answered from the cache *)
(* and read again from the server behind the answer (sync/children.rs); a title that the  *)
(* cache lacks is asked for (api/catalog/detail.rs).  What the server says is written for *)
(* the sign-in it was asked under (forget_item, commit_if_current).                       *)
EXTENDS Naturals, FiniteSets

CONSTANTS Episodes,          \* numbers; the server lists them in this order
          Readers,           \* requests and background threads
          ChildrenPageSize,
          MaxServerChanges, MaxPageSignIns, MaxPageFaults   \* bounds

ASSUME TitlePagesAssumption ==
  /\ Episodes \subseteq Nat /\ IsFiniteSet(Episodes) /\ ChildrenPageSize \in Nat \ {0}
  /\ {MaxServerChanges, MaxPageFaults} \subseteq Nat /\ MaxPageSignIns \in Nat \ {0}

VARIABLES
  onServer,     \* the episodes of the series on the server
  cachedEps,    \* and in the cache
  pageSignIn,   \* the session's generation
  claim,        \* whether the series was reconciled within a minute; for all accounts
  reader,
  serverChanges, pageFaults
titlePageVars == <<onServer, cachedEps, pageSignIn, claim, reader, serverChanges, pageFaults>>

(* list, offset: what was received, and how many.  had, lacked: what the server had and    *)
(* lacked at some time since the reader began; slid: what a removal moved from a page to   *)
(* come into a page that had been read.                                                   *)
NoReader == [op |-> "none", at |-> "asked", signIn |-> 0, of |-> {}, list |-> {}, offset |-> 0,
             had |-> {}, lacked |-> {}, slid |-> {}]
Reader(op, of) ==
  [op |-> op, at |-> "asked", signIn |-> pageSignIn, of |-> of, list |-> {}, offset |-> 0,
   had |-> onServer, lacked |-> Episodes \ onServer, slid |-> {}]

ReaderStates ==
  [op : {"none", "title", "synopsis", "children"}, at : {"asked", "answered"}, signIn : 0 .. MaxPageSignIns,
   of : SUBSET Episodes, list : SUBSET Episodes, offset : Nat,
   had : SUBSET Episodes, lacked : SUBSET Episodes, slid : SUBSET Episodes]

TitlePagesTypeOK ==
  /\ onServer \cup cachedEps \subseteq Episodes /\ pageSignIn \in 1 .. MaxPageSignIns
  /\ claim \in BOOLEAN
  /\ reader \in [Readers -> ReaderStates]
  /\ serverChanges \in 0 .. MaxServerChanges /\ pageFaults \in 0 .. MaxPageFaults

TitlePagesInit ==
  /\ onServer = Episodes /\ cachedEps = Episodes /\ pageSignIn = 1 /\ claim = FALSE
  /\ reader = [r \in Readers |-> NoReader]
  /\ serverChanges = 0 /\ pageFaults = 0

(* children_query: the server's order, and its answer from a place on. *)
Rank(e) == Cardinality({x \in onServer : x < e})
Page(from) == {e \in onServer : Rank(e) \in from .. from + ChildrenPageSize - 1}
Idle(r) == reader[r].op = "none"
Current(r) == reader[r].signIn = pageSignIn
Ends(r) == reader' = [reader EXCEPT ![r] = NoReader]

-----------------------------------------------------------------------------
(* The server, the event socket and the user.                                             *)
Slides(r, e) == {x \in onServer : e < x /\ Rank(x) = reader[r].offset}
Walks(r) == reader[r].op = "children" /\ reader[r].at = "asked"

ServerChanges(e) ==
  /\ serverChanges < MaxServerChanges /\ serverChanges' = serverChanges + 1
  /\ onServer' = (IF e \in onServer THEN onServer \ {e} ELSE onServer \cup {e})
  /\ reader' = [r \in Readers |->
       IF Idle(r) THEN reader[r]
       ELSE [reader[r] EXCEPT !.had = @ \cup onServer', !.lacked = @ \cup (Episodes \ onServer'),
                              !.slid = @ \cup (IF e \in onServer /\ Walks(r) THEN Slides(r, e) ELSE {})]]
  /\ UNCHANGED <<cachedEps, pageSignIn, claim, pageFaults>>

SocketTells(e) ==
  /\ (e \in onServer) # (e \in cachedEps)
  /\ cachedEps' = (IF e \in onServer THEN cachedEps \cup {e} ELSE cachedEps \ {e})
  /\ UNCHANGED <<onServer, pageSignIn, claim, reader, serverChanges, pageFaults>>

(* Another account signs in: its cache is empty; the claim is not the account's. *)
SignInAgain ==
  /\ pageSignIn < MaxPageSignIns /\ pageSignIn' = pageSignIn + 1
  /\ cachedEps' = {}
  /\ UNCHANGED <<onServer, claim, reader, serverChanges, pageFaults>>

(* claim_child_reconcile: CHILD_RECONCILE_INTERVAL is over. *)
ClaimEnds ==
  /\ claim /\ claim' = FALSE
  /\ UNCHANGED <<onServer, cachedEps, pageSignIn, reader, serverChanges, pageFaults>>

-----------------------------------------------------------------------------
(* Children.                                                                              *)

(* title_children: a cached list is answered at once and reconciled behind the answer; an  *)
(* empty one waits for the server, claimed or not.  The page reads again when it hears of  *)
(* a change (library_changed), or at any time.                                             *)
OpenChildren(r) ==
  /\ Idle(r)
  /\ IF cachedEps = {} \/ ~claim
       THEN reader' = [reader EXCEPT ![r] = Reader("children", {})] /\ claim' = TRUE
       ELSE UNCHANGED <<reader, claim>>
  /\ UNCHANGED <<onServer, cachedEps, pageSignIn, serverChanges, pageFaults>>

(* reconcile_children: a page of the list.  Nothing is written unless all pages came.       *)
(* Mutant: a page that failed is taken for the last.                                      *)
FetchChildren(r) ==
  LET page == Page(reader[r].offset) IN
  /\ Walks(r)
  /\ reader' = [reader EXCEPT ![r].list = @ \cup page, ![r].offset = @ + Cardinality(page),
                              ![r].at = IF Cardinality(page) < ChildrenPageSize THEN "answered" ELSE "asked"]
  /\ UNCHANGED <<onServer, cachedEps, pageSignIn, claim, serverChanges, pageFaults>>

PageFails == pageFaults < MaxPageFaults /\ pageFaults' = pageFaults + 1
FailedIsLast(r) == reader' = [reader EXCEPT ![r].at = "answered"]
GivesUp(r) == Ends(r)
FetchFails(r) ==
  /\ ~Idle(r) /\ reader[r].at = "asked" /\ PageFails /\ GivesUp(r)
  /\ UNCHANGED <<onServer, cachedEps, pageSignIn, claim, serverChanges>>

(* commit_if_current, or the list is dropped.                                  *)
(* Mutant: another account's list is written.                                            *)
Anyone(r) == TRUE
MayWrite(r) == Current(r)
CommitChildren(r) ==
  /\ reader[r].op = "children" /\ reader[r].at = "answered" /\ Ends(r)
  /\ cachedEps' = IF MayWrite(r) THEN reader[r].list ELSE cachedEps
  /\ UNCHANGED <<onServer, pageSignIn, claim, serverChanges, pageFaults>>

-----------------------------------------------------------------------------
(* A title: item_detail, item_synopsis, item_about.                                       *)

(* A cached title's page asks for its synopsis, any other for all of it. *)
OpenTitle(r, e) ==
  /\ Idle(r) /\ reader' = [reader EXCEPT ![r] = Reader(IF e \in cachedEps THEN "synopsis" ELSE "title", {e})]
  /\ UNCHANGED <<onServer, cachedEps, pageSignIn, claim, serverChanges, pageFaults>>

AnswerTitle(r) ==
  /\ reader[r].op \in {"title", "synopsis"} /\ reader[r].at = "asked"
  /\ reader' = [reader EXCEPT ![r].at = "answered", ![r].list = reader[r].of \cap onServer]
  /\ UNCHANGED <<onServer, cachedEps, pageSignIn, claim, serverChanges, pageFaults>>

(* write_live_title, forget_item. *)
CommitTitle(r) ==
  LET found == reader[r].list # {} IN
  /\ reader[r].op \in {"title", "synopsis"} /\ reader[r].at = "answered" /\ Ends(r)
  /\ cachedEps' = CASE MayWrite(r) /\ ~found -> cachedEps \ reader[r].of
                    [] MayWrite(r) /\ found /\ reader[r].op = "title" -> cachedEps \cup reader[r].of
                    [] OTHER -> cachedEps
  /\ UNCHANGED <<onServer, pageSignIn, claim, serverChanges, pageFaults>>

TitlePagesNext ==
  \/ \E e \in Episodes : ServerChanges(e) \/ SocketTells(e)
  \/ SignInAgain \/ ClaimEnds
  \/ \E r \in Readers : OpenChildren(r) \/ FetchChildren(r) \/ FetchFails(r)
       \/ CommitChildren(r) \/ AnswerTitle(r) \/ CommitTitle(r) \/ \E e \in Episodes : OpenTitle(r, e)

TitlePagesSpec == TitlePagesInit /\ [][TitlePagesNext]_titlePageVars

-----------------------------------------------------------------------------
PageWrites(r) == reader[r].at = "answered" /\ reader'[r] = NoReader

(* What a page writes is what the server said to the sign-in that is written for, while    *)
(* the page was asking: an episode goes only if the server lacked it at some time then, or *)
(* a removal slid it past the page that would have listed it (reconcile_children,       *)
(* item_detail, forget_item).                                                              *)
PagesWriteWhatWasSaid ==
  [][\A r \in Readers : PageWrites(r) /\ cachedEps' # cachedEps =>
       /\ reader[r].signIn = pageSignIn
       /\ cachedEps' \ cachedEps \subseteq reader[r].had
       /\ cachedEps \ cachedEps' \subseteq reader[r].lacked \cup reader[r].slid]_titlePageVars
=============================================================================
