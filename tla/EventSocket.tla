-------------------------------- MODULE EventSocket --------------------------------
(* The thread that listens to the server's events, and what it must keep true: the     *)
(* cache and the pages that show items the cache does not hold stay behind the server   *)
(* only while something is on its way.  Two items stand for all: "cached" and "live".   *)
(* What an item looks like is the number of its last change.                           *)
EXTENDS Naturals, Sequences

CONSTANTS MaxGenerations,   \* bound: sign-ins
          MaxItemChanges,   \* bound: changes of both items on the server
          MaxLosses         \* bound: connections that are lost, fetches that fail

ASSUME EventSocketAssumption ==
  MaxGenerations \in Nat \ {0} /\ {MaxItemChanges, MaxLosses} \subseteq Nat

Kinds == {"cached", "live"}

VARIABLES
  item,          \* [Kinds -> change]: the server
  cache,         \* the cached item, as the catalog has it
  page,          \* the live item, as an open page shows it
  pageEarly,     \* history: the page was opened before the account's first connection
  refetching,    \* the page has been told to fetch again
  generation,    \* the session's generation
  socketAt,      \* where the thread is: "wait", "connected" or "listen"
  connection,    \* the generation of the connection's scope; 0: none
  lostGeneration,\* lost_generation
  wire,          \* events on their way over the connection, oldest first
  fetched,       \* the answer apply_library_change has still to commit; <<>>: none
  syncRequested, \* SyncHandle::request, not yet taken
  cycleRead,     \* what a cycle has read and not yet committed; <<>>: no cycle
  overtaken,     \* history: a cycle's older page was committed over a push
  changes, losses

socketVars == <<item, cache, page, pageEarly, refetching, generation, socketAt, connection,
                lostGeneration, wire, fetched, syncRequested, cycleRead, overtaken, changes,
                losses>>
pageVars == <<page, pageEarly, refetching>>
cycleVars == <<syncRequested, cycleRead>>
link == <<socketAt, connection, lostGeneration>>

Changes == 0 .. MaxItemChanges
Generations == 1 .. MaxGenerations

SocketTypeOK ==
  /\ item \in [Kinds -> Changes] /\ cache \in Changes /\ page \in Changes
  /\ pageEarly \in BOOLEAN /\ refetching \in BOOLEAN
  /\ generation \in Generations /\ socketAt \in {"wait", "connected", "listen"}
  /\ connection \in 0 .. MaxGenerations /\ lostGeneration \in 0 .. MaxGenerations
  /\ wire \in Seq([event : {"userData", "library"}, of : Kinds, state : Changes])
  /\ fetched \in Seq(Changes) /\ Len(fetched) <= 1
  /\ syncRequested \in BOOLEAN /\ cycleRead \in {<< >>} \cup (Changes \X Generations)
  /\ overtaken \in BOOLEAN /\ changes \in Changes /\ losses \in 0 .. MaxLosses

SocketInit ==
  /\ item = [k \in Kinds |-> 0] /\ cache = 0 /\ page = 0
  /\ pageEarly = TRUE /\ refetching = FALSE
  /\ generation = 1
  /\ socketAt = "wait" /\ connection = 0 /\ lostGeneration = 0 /\ wire = << >>
  /\ fetched = << >>
  /\ syncRequested = FALSE /\ cycleRead = << >> /\ overtaken = FALSE
  /\ changes = 0 /\ losses = 0

-----------------------------------------------------------------------------------
(* The server: an item changes, and every open connection is told. "userData" carries  *)
(* the new state, "library" only names the item.                                       *)
ItemChanges(k, event) ==
  /\ changes < MaxItemChanges
  /\ changes' = changes + 1
  /\ item' = [item EXCEPT ![k] = @ + 1]
  /\ wire' = IF socketAt = "wait" THEN wire
             ELSE Append(wire, [event |-> event, of |-> k, state |-> item'[k]])
  /\ UNCHANGED <<cache, pageVars, generation, link, fetched, cycleVars, overtaken, losses>>

(* Another sign-in of the account: auth_login asks for a cycle; the pages start anew.   *)
SignInAgain ==
  /\ generation < MaxGenerations
  /\ generation' = generation + 1
  /\ syncRequested' = TRUE
  /\ page' = item["live"] /\ pageEarly' = TRUE /\ refetching' = FALSE
  /\ UNCHANGED <<item, cache, link, wire, fetched, cycleRead, overtaken, changes, losses>>

-----------------------------------------------------------------------------------
(* Pages and cycles. *)

(* A page that is opened fetches; lost_generation tells whether a reconnect will.      *)
OpenPage ==
  /\ page' = item["live"] /\ refetching' = FALSE
  /\ pageEarly' = (connection # generation /\ lostGeneration # generation)
  /\ UNCHANGED <<item, cache, generation, link, wire, fetched, cycleVars, overtaken, changes,
                 losses>>

PageRefetches ==
  /\ refetching
  /\ page' = item["live"] /\ refetching' = FALSE
  /\ UNCHANGED <<item, cache, pageEarly, generation, link, wire, fetched, cycleVars,
                 overtaken, changes, losses>>

CycleReads ==
  /\ syncRequested /\ cycleRead = << >>
  /\ syncRequested' = FALSE
  /\ cycleRead' = <<item["cached"], generation>>
  /\ UNCHANGED <<item, cache, pageVars, generation, link, wire, fetched, overtaken, changes,
                 losses>>

(* A cycle of an ended session is cancelled. *)
CycleCommits ==
  /\ cycleRead # << >>
  /\ IF cycleRead[2] = generation
     THEN cache' = cycleRead[1] /\ overtaken' = (overtaken \/ cycleRead[1] < cache)
     ELSE UNCHANGED <<cache, overtaken>>
  /\ cycleRead' = << >>
  /\ UNCHANGED <<item, pageVars, generation, link, wire, fetched, syncRequested, changes,
                 losses>>

-----------------------------------------------------------------------------------
(* The thread. *)

(* connect: the scope of whoever is signed in; the server may refuse, and then waits.  *)
Connect ==
  /\ socketAt = "wait"
  /\ socketAt' = "connected" /\ connection' = generation
  /\ wire' = << >>
  /\ UNCHANGED <<item, cache, pageVars, generation, lostGeneration, fetched, cycleVars,
                 overtaken, changes, losses>>

(* Mutants: the loss is not remembered; the cycle is only asked for a lost connection. *)
NeverResync == FALSE
Resync == lostGeneration = connection /\ connection = generation
OnReconnect == lostGeneration = connection
OnConnect == TRUE

(* run: the cycle and the pages are told after the connection is there.                *)
Reconcile ==
  /\ socketAt = "connected"
  /\ syncRequested' = (syncRequested \/ OnConnect)
  /\ refetching' = (refetching \/ Resync)
  /\ socketAt' = "listen"
  /\ UNCHANGED <<item, cache, page, pageEarly, generation, connection, lostGeneration, wire,
                 fetched, cycleRead, overtaken, changes, losses>>

Drop ==
  /\ socketAt' = "wait" /\ connection' = 0 /\ lostGeneration' = connection
  /\ wire' = << >> /\ fetched' = << >>
  /\ UNCHANGED <<item, cache, pageVars, generation, cycleVars, overtaken, changes>>

ConnectionLost ==
  /\ socketAt = "listen" /\ fetched = << >> /\ losses < MaxLosses
  /\ losses' = losses + 1
  /\ Drop

SessionChanged ==
  /\ socketAt = "listen" /\ fetched = << >> /\ connection # generation
  /\ Drop
  /\ UNCHANGED losses

Receives(event, kind) ==
  /\ socketAt = "listen" /\ fetched = << >>
  /\ wire # << >> /\ Head(wire).event = event /\ Head(wire).of = kind
  /\ wire' = Tail(wire)

(* apply_user_data: committed for the connection's scope, or dropped as stale.         *)
ApplyUserData ==
  /\ Receives("userData", "cached")
  /\ cache' = IF connection = generation THEN Head(wire).state ELSE cache
  /\ UNCHANGED <<item, pageVars, generation, link, fetched, cycleVars, overtaken, changes,
                 losses>>

(* apply_library_change fetches without a lock ... *)
FetchChanged ==
  /\ Receives("library", "cached")
  /\ fetched' = <<item["cached"]>>
  /\ UNCHANGED <<item, cache, pageVars, generation, link, cycleVars, overtaken, changes,
                 losses>>

FetchFails ==
  /\ Receives("library", "cached") /\ losses < MaxLosses
  /\ losses' = losses + 1
  /\ syncRequested' = TRUE
  /\ UNCHANGED <<item, cache, pageVars, generation, link, fetched, cycleRead, overtaken,
                 changes>>

(* ... and commits for the connection's scope. *)
CommitChanged ==
  /\ fetched # << >>
  /\ cache' = IF connection = generation THEN fetched[1] ELSE cache
  /\ fetched' = << >>
  /\ UNCHANGED <<item, pageVars, generation, link, wire, cycleVars, overtaken, changes,
                 losses>>

(* What the cache's batch does not name is passed on to the pages. *)
AnnounceLive ==
  /\ Receives("library", "live")
  /\ refetching' = (refetching \/ connection = generation)
  /\ UNCHANGED <<item, cache, page, pageEarly, generation, link, fetched, cycleVars,
                 overtaken, changes, losses>>

SocketNext ==
  \/ ItemChanges("cached", "userData") \/ ItemChanges("cached", "library")
  \/ ItemChanges("live", "library")
  \/ SignInAgain \/ OpenPage \/ PageRefetches \/ CycleReads \/ CycleCommits
  \/ Connect \/ Reconcile \/ ConnectionLost \/ SessionChanged
  \/ ApplyUserData \/ FetchChanged \/ FetchFails \/ CommitChanged \/ AnnounceLive

SocketSpec == SocketInit /\ [][SocketNext]_socketVars

-----------------------------------------------------------------------------------
Listening == socketAt = "listen" /\ connection = generation
OnTheWire(kind) == \E i \in DOMAIN wire : wire[i].of = kind

(* Whatever was lost while the connection was down or the session changed: while the   *)
(* thread listens for the signed-in account, a cache that is behind the server is on   *)
(* its way to catch up, by an event, an answer, or a cycle yet to read.  The exception *)
(* is a cycle whose page is older than a push it is committed over.                    *)
CacheIsCatchingUp ==
  Listening /\ cache # item["cached"] /\ ~overtaken =>
    \/ OnTheWire("cached") \/ fetched # << >> \/ syncRequested
    \/ cycleRead = <<item["cached"], generation>>

(* A page that shows what Jellyfin serves directly, opened once the account has been   *)
(* connected, is behind the server only while an event or its own fetch is on the way, *)
(* also after events were lost with a connection.                                      *)
PageIsCatchingUp ==
  Listening /\ page # item["live"] /\ ~pageEarly => OnTheWire("live") \/ refetching

(* What the user sees of the server is catching up with it, cached or live (socket.rs). *)
ViewsAreCatchingUp == CacheIsCatchingUp /\ PageIsCatchingUp
===================================================================================
